-------------------------- MODULE HistoryPersistence --------------------------
(***************************************************************************)
(* How internal/app/store_persistence.go keeps the node store on disk: the *)
(* snapshot cache and the dirty flag, the debounced save worker, persist() *)
(* with its TryLock snapshot, attaching SQLite and wrapping it with Redis  *)
(* (redis.go, bot.go), and the flush of close().                           *)
(*                                                                         *)
(* The content of a node is a version: 0 is a node that is not initialized *)
(* and every fill takes a fresh number.  A row set is a function from ids  *)
(* to versions, 0 meaning absent.  Object identity is NodeStore's; here an *)
(* id has one object at a time.                                            *)
(***************************************************************************)
EXTENDS Integers, FiniteSets

CONSTANTS
    Ids,        \* message ids
    Turns,      \* goroutines that use a node, one turn each
    Kinds,      \* the turns to explore: "write", "read", "evict"
    UseRedis,   \* redis.address is set
    MayClose,   \* bot.close may run
    MaxErrors,  \* bound: backend writes that fail
    MaxVer,     \* bound: fills ever made
    StartRows   \* what SQLite and Redis may hold at the start

Free == "free"
NoRow == [i \in Ids |-> 0]

ASSUME FreeAssumption == Free \notin Turns
ASSUME BoundsAssumption ==
    /\ MaxErrors \in Nat /\ MaxVer \in Nat \ {0}
    /\ UseRedis \in BOOLEAN /\ MayClose \in BOOLEAN
    /\ StartRows \subseteq [Ids -> {0, 1}]

VARIABLES
    present, ver, holder,    \* the nodes: in the map, content, mutex
    clock, whole,            \* versions handed out; those completely assigned
    pc, kind, id,            \* per turn
    cache, dirty, closed,    \* store.snapshotCache, store.dirty, store.closed
    backend,                 \* store.backend: "none", "sqlite", "redis" or
                             \* "chained"; the key is set with it, for good
    hasKey, requests,        \* store.storeKey is set; store.saveRequests
    rows, errors,            \* the backends: [sqlite, redis, open]
    hyd,                     \* the hydration: [at, backend, loaded, live]
    worker, closer,          \* where runSaveWorker and close() are
    save                     \* the persist() that runs, if any

nodeVars == <<present, ver, holder, clock, whole>>
turnVars == <<pc, kind, id>>
flagVars == <<closed, backend, hasKey>>
rowVars == <<rows, errors>>
vars == <<nodeVars, turnVars, cache, dirty, flagVars, requests, rowVars, hyd,
          worker, closer, save>>

NotSaving == [at |-> "no", by |-> "none", backend |-> "none", cache |-> NoRow,
              left |-> {}, snap |-> NoRow, failed |-> FALSE, count |-> 0]

Init ==
    /\ present = {} /\ ver = NoRow /\ holder = [i \in Ids |-> Free]
    /\ clock = 1 /\ whole = {1}
    /\ pc = [t \in Turns |-> "idle"]
    /\ kind = [t \in Turns |-> "read"] /\ id \in [Turns -> Ids]
    /\ cache = NoRow /\ dirty = FALSE /\ closed = FALSE
    /\ backend = "none" /\ hasKey = FALSE /\ requests = "none"
    /\ \E s \in StartRows, r \in StartRows :
         rows = [sqlite |-> s, redis |-> r, open |-> FALSE]
    /\ errors = 0
    /\ hyd = [at |-> "open", backend |-> "none", loaded |-> NoRow, live |-> {}]
    /\ worker = "none" /\ closer = "run"
    /\ save = NotSaving

-----------------------------------------------------------------------------
(* The turns.                                                              *)

Goto(t, label) == pc' = [pc EXCEPT ![t] = label]
KeepPersistence == UNCHANGED <<flagVars, rowVars, hyd, worker, closer, save>>

\* getOrCreate and the lock of the node, or the lookup and lock of a victim.
LockNode(t) ==
    /\ pc[t] = "idle" /\ holder[id[t]] = Free
    /\ \E k \in Kinds :
         /\ k = "evict" => id[t] \in present
         /\ kind' = [kind EXCEPT ![t] = k]
         /\ present' = present \cup {id[t]}
         /\ Goto(t, CASE k = "evict" -> "delete"
                      [] k = "read" /\ ver[id[t]] # 0 -> "unlock"
                      [] OTHER -> "fill")
    /\ holder' = [holder EXCEPT ![id[t]] = t]
    /\ UNCHANGED <<ver, clock, whole, id, cache, dirty, requests>>
    /\ KeepPersistence

\* initializeNode, release() and the other writers assign field by field: the
\* new version is whole only when cacheLockedNode is called.
Fill(t) ==
    /\ pc[t] = "fill" /\ clock < MaxVer
    /\ clock' = clock + 1
    /\ ver' = [ver EXCEPT ![id[t]] = clock + 1]
    /\ Goto(t, "filled")
    /\ UNCHANGED <<present, holder, whole, kind, id, cache, dirty, requests>>
    /\ KeepPersistence

\* cacheLockedNode does nothing before a store key is set.
Filled(t) ==
    /\ pc[t] = "filled"
    /\ whole' = whole \cup {ver[id[t]]}
    /\ Goto(t, IF hasKey THEN "cache" ELSE "unlock")
    /\ UNCHANGED <<present, ver, holder, clock, kind, id, cache, dirty, requests>>
    /\ KeepPersistence

CacheLockedNode(t) ==
    /\ pc[t] = "cache"
    /\ cache' = [cache EXCEPT ![id[t]] = ver[id[t]]]
    /\ Goto(t, "mark")
    /\ UNCHANGED <<nodeVars, kind, id, dirty, requests>>
    /\ KeepPersistence

\* deleteWhenUnlocked: out of the map; a later lookup makes a fresh node.  A
\* snapshot that still has this object to visit finds it locked or, later,
\* unlocked with its last content.
DeleteVictim(t) ==
    /\ pc[t] = "delete"
    /\ present' = present \ {id[t]}
    /\ ver' = [ver EXCEPT ![id[t]] = 0]
    /\ IF id[t] \in save.left
       THEN \E v \in {ver[id[t]], save.cache[id[t]]} :
              save' = [save EXCEPT !.left = @ \ {id[t]}, !.snap[id[t]] = v]
       ELSE UNCHANGED save
    /\ Goto(t, IF hasKey THEN "drop" ELSE "unlock")
    /\ UNCHANGED <<holder, clock, whole, kind, id, cache, dirty, requests,
                   flagVars, rowVars, hyd, worker, closer>>

DeleteCachedSnapshot(t) ==
    /\ pc[t] = "drop"
    /\ cache' = [cache EXCEPT ![id[t]] = 0]
    /\ Goto(t, "mark")
    /\ UNCHANGED <<nodeVars, kind, id, dirty, requests>>
    /\ KeepPersistence

\* Both raise the dirty flag after they changed the cache.
MarkDirty(t) ==
    /\ pc[t] = "mark"
    /\ dirty' = TRUE
    /\ Goto(t, "unlock")
    /\ UNCHANGED <<nodeVars, kind, id, cache, requests>>
    /\ KeepPersistence

\* Lookups that only read or initialize ask for no save.
Unlock(t) ==
    /\ pc[t] = "unlock"
    /\ holder' = [holder EXCEPT ![id[t]] = Free]
    /\ Goto(t, IF kind[t] = "read" THEN "done" ELSE "request")
    /\ UNCHANGED <<present, ver, clock, whole, kind, id, cache, dirty, requests>>
    /\ KeepPersistence

\* persistBestEffort: nothing to do without a backend, else dirty first and
\* then a non-blocking send on a channel of capacity one.
RaiseDirty == dirty' = (dirty \/ backend # "none")
\* Mutant: the request never reaches the worker.
SendRequest_Lost == requests' = requests
SendRequest == requests' = IF requests = "empty" THEN "full" ELSE requests

PersistBestEffort(t) ==
    /\ pc[t] = "request"
    /\ RaiseDirty
    /\ Goto(t, IF backend = "none" THEN "done" ELSE "send")
    /\ UNCHANGED <<nodeVars, kind, id, cache, requests>>
    /\ KeepPersistence

Send(t) ==
    /\ pc[t] = "send"
    /\ SendRequest
    /\ Goto(t, "done")
    /\ UNCHANGED <<nodeVars, kind, id, cache, dirty>>
    /\ KeepPersistence

-----------------------------------------------------------------------------
(* Hydration: attach SQLite, then chain Redis.                             *)

KeepTurns == UNCHANGED <<turnVars, errors, closer, save>>
HydAt(label) == hyd' = [hyd EXCEPT !.at = label]

\* hydrateMessageHistoryInBackground opens SQLite and loads the rows; without
\* a usable database the hydration goes on with Redis.
OpenSqlite ==
    /\ hyd.at = "open"
    /\ \/ /\ ~closed
          /\ rows' = [rows EXCEPT !.open = TRUE]
          /\ hyd' = [hyd EXCEPT !.at = "attach", !.backend = "sqlite",
                                !.loaded = rows.sqlite]
       \/ HydAt("redis") /\ UNCHANGED rows
    /\ UNCHANGED <<nodeVars, cache, dirty, flagVars, requests, worker>>
    /\ KeepTurns

\* Once the attach of SQLite is over the hydration goes on with Redis.
AfterAttach == IF hyd.backend = "sqlite" THEN "redis" ELSE "done"

\* Mutant: the attach does not look at store.closed.
AttachPersistentBackend_EvenClosed ==
    /\ hyd.at = "attach"
    /\ backend' = hyd.backend /\ hasKey' = TRUE
    /\ HydAt("merge")
    /\ UNCHANGED <<nodeVars, cache, dirty, closed, requests, rows, worker>>
    /\ KeepTurns

\* attachPersistentBackend, under backendMu: a closed store refuses, and
\* closes, what it is given.
AttachPersistentBackend ==
    /\ hyd.at = "attach"
    /\ IF closed \/ backend # "none"
       THEN /\ rows' = [rows EXCEPT !.open = @ /\ hyd.backend # "sqlite"]
            /\ HydAt(AfterAttach) /\ UNCHANGED <<backend, hasKey>>
       ELSE /\ backend' = hyd.backend /\ hasKey' = TRUE
            /\ HydAt("merge") /\ UNCHANGED rows
    /\ UNCHANGED <<nodeVars, cache, dirty, closed, requests, worker>>
    /\ KeepTurns

\* Mutant: the loaded rows do not become nodes.
MergeNodes_CacheOnly ==
    /\ hyd.at \in {"merge", "mergeRedis"}
    /\ hyd' = [hyd EXCEPT !.live = present,
                          !.at = IF @ = "merge" THEN "cache" ELSE "cacheRedis"]
    /\ UNCHANGED <<nodeVars, cache, dirty, flagVars, requests, rows, worker>>
    /\ KeepTurns

\* mergeLoadedHistory, under store.mu: live nodes win over loaded rows.
MergeNodes ==
    /\ hyd.at \in {"merge", "mergeRedis"}
    /\ LET new == {i \in Ids : hyd.loaded[i] # 0} \ present
       IN  /\ ver' = [i \in Ids |-> IF i \in new THEN hyd.loaded[i] ELSE ver[i]]
           /\ present' = present \cup new
    /\ hyd' = [hyd EXCEPT !.live = present,
                          !.at = IF @ = "merge" THEN "cache" ELSE "cacheRedis"]
    /\ UNCHANGED <<holder, clock, whole, cache, dirty, flagVars, requests,
                   rows, worker>>
    /\ KeepTurns

\* ... and then, under snapshotMu: the loaded rows, and each live node that
\* TryLock gets at once, enter the cache.
MergeCache ==
    /\ hyd.at \in {"cache", "cacheRedis"}
    /\ cache' = [i \in Ids |->
                   IF i \notin hyd.live
                   THEN IF cache[i] = 0 THEN hyd.loaded[i] ELSE cache[i]
                   ELSE IF holder[i] = Free /\ ver[i] # 0 THEN ver[i]
                   ELSE cache[i]]
    /\ HydAt(IF hyd.at = "cache" THEN "start" ELSE "chain")
    /\ UNCHANGED <<nodeVars, dirty, flagVars, requests, rows, worker>>
    /\ KeepTurns

\* startSaveWorker, under saveWorkerMu.  The evictExcess that follows is a
\* turn that evicts.
StartSaveWorker ==
    /\ hyd.at = "start"
    /\ IF backend # "none" /\ ~closed /\ requests = "none"
       THEN requests' = "empty" /\ worker' = "idle"
       ELSE UNCHANGED <<requests, worker>>
    /\ HydAt("flush")
    /\ UNCHANGED <<nodeVars, cache, dirty, flagVars, rows>>
    /\ KeepTurns

\* attachPersistentBackend asks for a save if it met live nodes.
AttachFlush ==
    /\ hyd.at = "flush"
    /\ IF hyd.live # {} \/ dirty
       THEN RaiseDirty /\ HydAt("send")
       ELSE UNCHANGED dirty /\ HydAt(AfterAttach)
    /\ UNCHANGED <<nodeVars, cache, flagVars, requests, rows, worker>>
    /\ KeepTurns

AttachSend ==
    /\ hyd.at = "send"
    /\ SendRequest
    /\ HydAt(AfterAttach)
    /\ UNCHANGED <<nodeVars, cache, dirty, flagVars, rows, worker>>
    /\ KeepTurns

\* wireRedisPersistence: not after bot.close began; a load that fails leaves
\* nothing to merge.
LoadRedis ==
    /\ hyd.at = "redis"
    /\ IF UseRedis /\ closer = "run"
       THEN \/ hyd' = [hyd EXCEPT !.at = "mergeRedis", !.loaded = rows.redis]
            \/ HydAt("chain")
       ELSE HydAt("done")
    /\ UNCHANGED <<nodeVars, cache, dirty, flagVars, requests, rows, worker>>
    /\ KeepTurns

\* The sibling is captured here and used by the wrap.
CaptureSibling ==
    /\ hyd.at = "chain"
    /\ hyd' = IF backend # "none" THEN [hyd EXCEPT !.at = "wrap"]
              ELSE [hyd EXCEPT !.at = "attach", !.backend = "redis",
                               !.loaded = NoRow]
    /\ UNCHANGED <<nodeVars, cache, dirty, flagVars, requests, rows, worker>>
    /\ KeepTurns

\* wrapHistoryBackend: a refused chain is closed, and the chain closes its
\* SQLite sibling.
WrapHistoryBackend ==
    /\ hyd.at = "wrap"
    /\ IF closed \/ backend = "none"
       THEN rows' = [rows EXCEPT !.open = FALSE] /\ UNCHANGED backend
       ELSE backend' = "chained" /\ UNCHANGED rows
    /\ HydAt("done")
    /\ UNCHANGED <<nodeVars, cache, dirty, closed, hasKey, requests, worker>>
    /\ KeepTurns

-----------------------------------------------------------------------------
(* persist(), called by the save worker and by close().                    *)

KeepShared == UNCHANGED <<nodeVars, turnVars, flagVars, requests, hyd>>

\* The backend is captured before saveMu is taken.
PersistBegin(p) ==
    save' = [save EXCEPT !.at = "swap", !.by = p, !.backend = backend,
                         !.failed = FALSE]

\* persist() returned: the worker waits again; close() tries twice more while
\* the store is dirty and no save has failed.
PersistEnd(failed, isDirty) ==
    /\ save' = [NotSaving EXCEPT
                  !.failed = failed,
                  !.count = IF save.by = "closer" THEN save.count + 1 ELSE 0]
    /\ IF save.by = "worker"
       THEN worker' = "idle" /\ UNCHANGED closer
       ELSE /\ closer' = IF failed \/ ~isDirty \/ save.count = 2
                         THEN "closeBackend" ELSE "flush"
            /\ UNCHANGED worker

SwapDirty ==
    /\ save.at = "swap"
    /\ dirty' = FALSE
    /\ IF dirty
       THEN save' = [save EXCEPT !.at = "copy"] /\ UNCHANGED <<worker, closer>>
       ELSE PersistEnd(FALSE, FALSE)
    /\ UNCHANGED <<cache, rowVars>> /\ KeepShared

\* snapshot() copies the cache, then the map ...
CopyCache ==
    /\ save.at = "copy"
    /\ save' = [save EXCEPT !.at = "entries", !.cache = cache]
    /\ UNCHANGED <<cache, dirty, rowVars, worker, closer>> /\ KeepShared

NodeEntries ==
    /\ save.at = "entries"
    /\ save' = [save EXCEPT !.at = "visit", !.left = present]
    /\ UNCHANGED <<cache, dirty, rowVars, worker, closer>> /\ KeepShared

\* Mutant: the node is read whether or not it is locked.
VisitNode_NoLock(i) ==
    /\ save.at = "visit" /\ i \in save.left
    /\ save' = [save EXCEPT !.left = @ \ {i}, !.snap[i] = ver[i]]
    /\ UNCHANGED <<cache, dirty, rowVars, worker, closer>> /\ KeepShared

\* ... and visits the nodes in map order: one it cannot TryLock is saved as
\* it was last cached, or left out if it never was.
VisitNode(i) ==
    /\ save.at = "visit" /\ i \in save.left
    /\ save' = [save EXCEPT
                  !.left = @ \ {i},
                  !.snap[i] = IF holder[i] = Free THEN ver[i] ELSE save.cache[i]]
    /\ UNCHANGED <<cache, dirty, rowVars, worker, closer>> /\ KeepShared

\* A chained backend writes Redis and then SQLite, whether or not Redis failed.
SaveRedis ==
    /\ save.at = "visit" /\ save.left = {} /\ save.backend # "sqlite"
    /\ \E ok \in {TRUE, errors = MaxErrors} :
         /\ rows' = IF ok THEN [rows EXCEPT !.redis = save.snap] ELSE rows
         /\ errors' = IF ok THEN errors ELSE errors + 1
         /\ save' = [save EXCEPT
                       !.failed = ~ok,
                       !.at = IF save.backend = "redis" THEN "saved"
                              ELSE "sqlite"]
    /\ UNCHANGED <<cache, dirty, worker, closer>> /\ KeepShared

SaveSqlite ==
    /\ \/ save.at = "sqlite"
       \/ save.at = "visit" /\ save.left = {} /\ save.backend = "sqlite"
    /\ \E ok \in {rows.open, rows.open /\ errors = MaxErrors} :
         /\ rows' = IF ok THEN [rows EXCEPT !.sqlite = save.snap] ELSE rows
         /\ errors' = IF rows.open /\ ~ok THEN errors + 1 ELSE errors
         /\ save' = [save EXCEPT
                       !.failed = @ \/ ~ok, !.at = "saved"]
    /\ UNCHANGED <<cache, dirty, worker, closer>> /\ KeepShared

\* A failed write makes the store dirty again; nothing asks for another save.
SaveFailed ==
    /\ save.at = "saved" /\ save.failed
    /\ dirty' = TRUE
    /\ PersistEnd(TRUE, TRUE)
    /\ UNCHANGED <<cache, rowVars>> /\ KeepShared

\* Mutant: the flag is cleared after the write instead of before the copy.
SaveDone_ClearsDirty ==
    /\ save.at = "saved" /\ ~save.failed
    /\ dirty' = FALSE
    /\ PersistEnd(FALSE, FALSE)
    /\ UNCHANGED <<cache, rowVars>> /\ KeepShared

\* After a good write: if something became dirty meanwhile leave the cache
\* alone, else replace it by the snapshot, in a step of its own.
SaveDone ==
    /\ save.at = "saved" /\ ~save.failed
    /\ IF dirty
       THEN PersistEnd(FALSE, TRUE)
       ELSE /\ save' = [save EXCEPT !.at = "setCache"]
            /\ UNCHANGED <<worker, closer>>
    /\ UNCHANGED <<cache, dirty, rowVars>> /\ KeepShared

SetSnapshotCache ==
    /\ save.at = "setCache"
    /\ cache' = save.snap
    /\ PersistEnd(FALSE, dirty)
    /\ UNCHANGED <<dirty, rowVars>> /\ KeepShared

-----------------------------------------------------------------------------
(* runSaveWorker: a request arms the debounce timer, the timer saves, and  *)
(* a stop drops what is still armed.                                       *)

KeepData == UNCHANGED <<nodeVars, turnVars, cache, dirty, errors, hyd>>

WorkerReceive ==
    /\ worker \in {"idle", "armed"} /\ requests = "full"
    /\ requests' = "empty" /\ worker' = "armed"
    /\ UNCHANGED <<flagVars, rows, closer, save>> /\ KeepData

WorkerTimer ==
    /\ worker = "armed"
    /\ IF backend = "none"
       THEN worker' = "idle" /\ UNCHANGED save
       ELSE worker' = "saving" /\ PersistBegin("worker")
    /\ UNCHANGED <<flagVars, requests, rows, closer>> /\ KeepData

WorkerStop ==
    /\ worker \in {"idle", "armed"} /\ closer = "wait"
    /\ worker' = "dead"
    /\ UNCHANGED <<flagVars, requests, rows, closer, save>> /\ KeepData

-----------------------------------------------------------------------------
(* bot.close, and the close() of the store that it calls.                  *)

BotClose ==
    /\ MayClose /\ closer = "run" /\ closer' = "close"
    /\ UNCHANGED <<flagVars, requests, rows, worker, save>> /\ KeepData

Close ==
    /\ closer = "close" /\ closer' = "stop"
    /\ closed' = TRUE
    /\ UNCHANGED <<backend, hasKey, requests, rows, worker, save>> /\ KeepData

\* stopSaveWorker takes the channel away, then waits for the worker's end.
StopSaveWorker ==
    /\ closer = "stop"
    /\ closer' = IF requests = "none" THEN "flush" ELSE "wait"
    /\ requests' = "none"
    /\ UNCHANGED <<flagVars, rows, worker, save>> /\ KeepData

WorkerStopped ==
    /\ closer = "wait" /\ worker = "dead" /\ closer' = "flush"
    /\ UNCHANGED <<flagVars, requests, rows, worker, save>> /\ KeepData

CloseFlush ==
    /\ closer = "flush"
    /\ IF backend = "none"
       THEN closer' = "closeBackend" /\ UNCHANGED save
       ELSE closer' = "saving" /\ PersistBegin("closer")
    /\ UNCHANGED <<flagVars, requests, rows, worker>> /\ KeepData

CloseBackend ==
    /\ closer = "closeBackend" /\ closer' = "forget"
    /\ rows' = IF backend \in {"sqlite", "chained"}
               THEN [rows EXCEPT !.open = FALSE] ELSE rows
    /\ UNCHANGED <<flagVars, requests, worker, save>> /\ KeepData

ForgetBackend ==
    /\ closer = "forget" /\ closer' = "done"
    /\ backend' = "none"
    /\ UNCHANGED <<closed, hasKey, requests, rows, worker, save>> /\ KeepData

-----------------------------------------------------------------------------
TurnStep(t) ==
    \/ Fill(t) \/ Filled(t) \/ CacheLockedNode(t) \/ DeleteVictim(t)
    \/ DeleteCachedSnapshot(t) \/ MarkDirty(t) \/ Unlock(t)
    \/ PersistBestEffort(t) \/ Send(t)

Hydrate ==
    \/ OpenSqlite \/ AttachPersistentBackend \/ MergeNodes \/ MergeCache
    \/ StartSaveWorker \/ AttachFlush \/ AttachSend \/ LoadRedis
    \/ CaptureSibling \/ WrapHistoryBackend

Persist ==
    \/ SwapDirty \/ CopyCache \/ NodeEntries \/ (\E i \in Ids : VisitNode(i))
    \/ SaveRedis \/ SaveSqlite \/ SaveFailed \/ SaveDone \/ SetSnapshotCache

Shutdown ==
    \/ Close \/ StopSaveWorker \/ WorkerStopped \/ CloseFlush \/ CloseBackend
    \/ ForgetBackend

Next ==
    \/ \E t \in Turns : LockNode(t) \/ TurnStep(t)
    \/ Hydrate \/ Persist \/ Shutdown \/ BotClose
    \/ WorkerReceive \/ WorkerTimer \/ WorkerStop

Spec == Init /\ [][Next]_vars

\* Goroutines that can run do, a select with a ready case is taken, timers
\* fire.  No message has to arrive and nobody has to close the bot.
FairSpec ==
    /\ Spec
    /\ \A t \in Turns : WF_vars(TurnStep(t))
    /\ WF_vars(Hydrate) /\ WF_vars(Persist) /\ WF_vars(Shutdown)
    /\ WF_vars(WorkerReceive) /\ WF_vars(WorkerTimer) /\ WF_vars(WorkerStop)

-----------------------------------------------------------------------------
Rows == [Ids -> 0..clock]
Backends == {"none", "sqlite", "redis", "chained"}

RowsType == [sqlite : Rows, redis : Rows, open : BOOLEAN]
HydType ==
    [at : {"open", "attach", "merge", "mergeRedis", "cache", "cacheRedis",
           "start", "flush", "send", "redis", "chain", "wrap", "done"},
     backend : Backends, loaded : Rows, live : SUBSET Ids]
SaveType ==
    [at : {"no", "swap", "copy", "entries", "visit", "sqlite", "saved", "setCache"},
     by : {"none", "worker", "closer"}, backend : Backends, cache : Rows,
     left : SUBSET Ids, snap : Rows, failed : BOOLEAN, count : 0..3]

\* The type invariant; no version is seen anywhere before it is handed out.
TypeOK ==
    /\ present \subseteq Ids /\ ver \in Rows
    /\ holder \in [Ids -> Turns \cup {Free}]
    /\ clock \in 1..MaxVer /\ whole \subseteq 1..clock
    /\ pc \in [Turns -> {"idle", "fill", "filled", "cache", "delete", "drop",
                         "mark", "unlock", "request", "send", "done"}]
    /\ kind \in [Turns -> Kinds \cup {"read"}] /\ id \in [Turns -> Ids]
    /\ cache \in Rows /\ dirty \in BOOLEAN /\ closed \in BOOLEAN
    /\ backend \in Backends /\ hasKey \in BOOLEAN
    /\ requests \in {"none", "empty", "full"}
    /\ rows \in RowsType /\ errors \in 0..MaxErrors /\ hyd \in HydType
    /\ worker \in {"none", "idle", "armed", "saving", "dead"}
    /\ closer \in {"run", "close", "stop", "wait", "flush", "saving",
                   "closeBackend", "forget", "done"}
    /\ save \in SaveType

\* What is cached, snapshotted or saved is never a node caught between two of
\* its field assignments: snapshot() reads a node only when TryLock succeeds
\* and cacheLockedNode runs after the last assignment.
NoTornSnapshot ==
    /\ \A i \in Ids : {cache[i], save.cache[i], save.snap[i], rows.sqlite[i],
                       rows.redis[i]} \subseteq whole \cup {0}
    /\ \A i \in Ids : holder[i] = Free => ver[i] \in whole \cup {0}

\* The row set that SQLite still has to learn about.
Behind(i) == IF i \in present
             THEN holder[i] = Free /\ cache[i] > rows.sqlite[i]
             ELSE rows.sqlite[i] # 0

\* A change of the cache that SQLite has not seen is never forgotten: the
\* store is dirty, or a persist() is under way, or the goroutine that made the
\* change is about to raise the flag.  It takes both "cache, then dirty" in
\* cacheLockedNode and "clear dirty, then copy" in persist().  From the end of
\* the hydration until close begins.
CachedChangeIsPending ==
    (hyd.at = "done" /\ closer = "run" /\ backend = "sqlite")
        => \A i \in Ids : Behind(i) =>
             \/ dirty \/ save.at # "no"
             \/ \E t \in Turns : pc[t] \in {"drop", "mark"} /\ id[t] = i

\* When hydration and close have both ended nothing is left behind: the
\* SQLite handle is closed, no backend is attached, no worker lives and no
\* persist() runs, whichever of the two reached backendMu first.
ShutdownReleases ==
    (closer = "done" /\ hyd.at = "done")
        => /\ ~rows.open /\ backend = "none" /\ requests = "none"
           /\ worker \in {"none", "dead"} /\ save.at = "no"

\* wrapHistoryBackend and attachPersistentBackend never close SQLite under a
\* persist(): "so neither tier is refused nor closed" (bot.go), "the SQLite
\* handle moves inside the chained backend instead of being refused and
\* closed" (store_persistence.go).
HandleOpenWhileSaving ==
    (save.at # "no" /\ save.backend \in {"sqlite", "chained"}) => rows.open

\* A row that SQLite holds is dropped only on behalf of a turn that uses its
\* message: history "survive[s] restarts" (README.md).
StoredRowsSurvive ==
    [][\A i \in Ids : (rows.sqlite[i] # 0 /\ rows'.sqlite[i] = 0)
           => \E t \in Turns : id[t] = i /\ pc[t] # "idle"]_vars

\* A close() that reports no error and leaves nothing dirty has saved every
\* node: the flush misses nothing, neither a node that was locked while the
\* snapshot was taken nor a change made while it was written.
CleanCloseSaves ==
    (/\ closer = "forget" /\ backend \in {"sqlite", "chained"} /\ ~save.failed /\ ~dirty
     /\ hyd.at = "done" /\ \A t \in Turns : pc[t] \in {"idle", "done"})
        => rows.sqlite = ver

\* Without a close and without write errors SQLite ends up equal to memory:
\* no debounced request, no node skipped because it was locked and no change
\* made during a write is lost for good.
EventuallySaved ==
    <>[]((backend # "none" /\ \A t \in Turns : pc[t] \in {"idle", "done"})
            => \A i \in Ids : rows.sqlite[i] = ver[i])
=============================================================================
