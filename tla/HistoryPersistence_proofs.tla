----------------------- MODULE HistoryPersistence_proofs -----------------------
(***************************************************************************)
(* What holds of the stored history for every number of messages and       *)
(* turns, with or without Redis, whatever write fails and whenever the bot *)
(* is closed.  The invariants share a core, Shared: the types, who holds   *)
(* which node, where the save worker can be while close() runs, and whose  *)
(* persist() is under way.  Each theorem adds what its property needs.     *)
(*                                                                         *)
(* The proofs go by who steps: a turn, the hydration, persist(), or the    *)
(* worker and close().  For each there is a lemma on what it leaves alone  *)
(* (TurnFrame, HydrateFrame, PersistFrame, CloseFrame), and one lemma per  *)
(* part of an invariant that it must restore.                              *)
(***************************************************************************)
EXTENDS HistoryPersistence, TLAPS

\* close() tries a save at most three times.
Attempts ==
    /\ closer \in {"run", "close", "stop", "wait"} => save.count = 0
    /\ closer \in {"flush", "saving"} => save.count <= 2

\* The worker has a channel until stopSaveWorker takes it, and has ended
\* before close() flushes.
WorkerLife ==
    /\ closed <=> closer \notin {"run", "close"}
    /\ closer \in {"run", "close", "stop"} =>
         worker # "dead" /\ (requests = "none" <=> worker = "none")
    /\ closer = "wait" => worker # "none" /\ requests = "none"
    /\ closer \in {"flush", "saving", "closeBackend", "forget", "done"} =>
         worker \in {"none", "dead"} /\ requests = "none"

\* A persist() runs exactly while the worker or close() is in it.
SaveOwner ==
    /\ worker = "saving" => save.at # "no" /\ save.by = "worker"
    /\ closer = "saving" => save.at # "no" /\ save.by = "closer"
    /\ save.at # "no" => \/ save.by = "worker" /\ worker = "saving"
                         \/ save.by = "closer" /\ closer = "saving"

Holding == {"fill", "filled", "cache", "delete", "drop", "mark", "unlock"}

\* A node is locked by the turn that is between its lock and its unlock.
LocksHeld ==
    /\ \A t \in Turns : pc[t] \in Holding => holder[id[t]] = t
    /\ \A i \in Ids : holder[i] # Free =>
         holder[i] \in Turns /\ id[holder[i]] = i /\ pc[holder[i]] \in Holding
    /\ \A t \in Turns : pc[t] = "filled" => ver[id[t]] # 0

Shared == TypeOK /\ LocksHeld /\ WorkerLife /\ SaveOwner /\ Attempts

-----------------------------------------------------------------------------
(* Types.  They depend on the clock, which only Fill advances.             *)

Types == <<Rows, RowsType, HydType, SaveType>>

LEMMA TypesSame == ASSUME clock' = clock PROVE UNCHANGED Types
<1>1. Rows' = Rows
  BY DEF Rows
<1> QED BY <1>1 DEF Types, RowsType, HydType, SaveType

LEMMA TypesGrow ==
    ASSUME TypeOK, clock' = clock + 1
    PROVE  /\ Rows \subseteq Rows' /\ RowsType \subseteq RowsType'
           /\ HydType \subseteq HydType' /\ SaveType \subseteq SaveType'
<1>1. 0..clock \subseteq 0..clock'
  BY BoundsAssumption DEF TypeOK
<1>2. Rows \subseteq Rows'
  BY <1>1 DEF Rows
<1> QED BY <1>2 DEF RowsType, HydType, SaveType

LEMMA ReadRows ==
    ASSUME TypeOK
    PROVE  /\ NoRow \in Rows
           /\ \A f \in Rows, i \in Ids : f[i] \in 0..clock
           /\ \A f \in Rows, i \in Ids, v \in 0..clock : [f EXCEPT ![i] = v] \in Rows
  BY BoundsAssumption DEF TypeOK, Rows, NoRow

LEMMA ReadFields ==
    ASSUME TypeOK
    PROVE  /\ rows.sqlite \in Rows /\ rows.redis \in Rows /\ rows.open \in BOOLEAN
           /\ hyd.loaded \in Rows /\ hyd.backend \in Backends /\ hyd.live \subseteq Ids
           /\ save.cache \in Rows /\ save.snap \in Rows /\ save.left \subseteq Ids
           /\ save.backend \in Backends /\ save.failed \in BOOLEAN
           /\ save.count \in 0..3 /\ save.by \in {"none", "worker", "closer"}
<1>1. rows \in RowsType /\ hyd \in HydType /\ save \in SaveType
  BY DEF TypeOK
<1> QED BY <1>1 DEF RowsType, HydType, SaveType

LEMMA TypesInit == Init => TypeOK
<1> SUFFICES ASSUME Init PROVE TypeOK
  OBVIOUS
<1>1. NoRow \in Rows /\ StartRows \subseteq Rows
  BY BoundsAssumption DEF Init, Rows, NoRow
<1>2. rows \in RowsType
  BY <1>1 DEF Init, RowsType
<1>3. hyd \in HydType
  BY <1>1 DEF Init, HydType, Backends
<1>4. save \in SaveType
  BY <1>1 DEF Init, SaveType, NotSaving, Backends
<1>5. ver \in Rows /\ cache \in Rows /\ clock \in 1..MaxVer /\ errors \in 0..MaxErrors
  BY <1>1, BoundsAssumption DEF Init
<1>6. kind \in [Turns -> Kinds \cup {"read"}] /\ holder \in [Ids -> Turns \cup {Free}]
  BY DEF Init
<1>7. present \subseteq Ids /\ whole \subseteq 1..clock
  BY DEF Init
<1>8. pc \in [Turns -> {"idle", "fill", "filled", "cache", "delete", "drop", "mark",
                      "unlock", "request", "send", "done"}]
  BY DEF Init
<1>9. backend \in Backends
  BY DEF Init, Backends
<1> HIDE DEF Backends
<1> QED BY <1>2, <1>3, <1>4, <1>5, <1>6, <1>7, <1>8, <1>9 DEF Init, TypeOK

LEMMA TypesTurn ==
    ASSUME TypeOK, LocksHeld, NEW t \in Turns, LockNode(t) \/ TurnStep(t)
    PROVE  TypeOK'
<1> USE DEF KeepPersistence, Goto, rowVars, flagVars, nodeVars
<1>0. 0 \in 0..clock
  BY BoundsAssumption DEF TypeOK
<1>1. CASE LockNode(t)
  BY <1>1, TypesSame DEF LockNode, TypeOK, Types
<1>2. CASE Fill(t)
  <2>1. clock' \in 1..MaxVer /\ 1..clock \subseteq 1..clock' /\ ver' \in Rows'
    BY <1>2, BoundsAssumption DEF Fill, TypeOK, Rows
  <2> QED BY <1>2, <2>1, TypesGrow DEF Fill, TypeOK
<1>3. CASE Filled(t)
  <2>1. ver[id[t]] \in 1..clock
    <3>1. ver[id[t]] \in 0..clock /\ clock \in Nat
      BY ReadRows, BoundsAssumption DEF TypeOK
    <3>2. ver[id[t]] # 0
      BY <1>3 DEF Filled, LocksHeld
    <3> QED BY <3>1, <3>2
  <2>2. whole' \subseteq 1..clock
    BY <1>3, <2>1 DEF Filled, TypeOK
  <2> QED BY <1>3, <2>2, TypesSame DEF Filled, TypeOK, Types
<1>4. CASE CacheLockedNode(t)
  <2>1. cache' \in Rows
    BY <1>4, ReadRows DEF CacheLockedNode, TypeOK
  <2> QED BY <1>4, <2>1, TypesSame DEF CacheLockedNode, TypeOK, Types
<1>5. CASE DeleteVictim(t)
  <2>1. ver' \in Rows
    BY <1>5, <1>0, ReadRows DEF DeleteVictim, TypeOK
  <2>2. save' \in SaveType
    <3>1. CASE id[t] \in save.left
      <4>1. PICK v \in {ver[id[t]], save.cache[id[t]]} :
              save' = [save EXCEPT !.left = @ \ {id[t]}, !.snap[id[t]] = v]
        BY <1>5, <3>1 DEF DeleteVictim
      <4>2. save \in SaveType /\ [save.snap EXCEPT ![id[t]] = v] \in Rows
        BY ReadRows, ReadFields DEF TypeOK
      <4> QED BY <4>1, <4>2 DEF SaveType
    <3>2. CASE id[t] \notin save.left
      BY <1>5, <3>2 DEF DeleteVictim, TypeOK
    <3> QED BY <3>1, <3>2
  <2> QED BY <1>5, <2>1, <2>2, TypesSame DEF DeleteVictim, TypeOK, Types
<1>6. CASE DeleteCachedSnapshot(t)
  <2>1. cache' \in Rows
    BY <1>6, <1>0, ReadRows DEF DeleteCachedSnapshot, TypeOK
  <2> QED BY <1>6, <2>1, TypesSame DEF DeleteCachedSnapshot, TypeOK, Types
<1>7. CASE MarkDirty(t)
  BY <1>7, TypesSame DEF MarkDirty, TypeOK, Types
<1>8. CASE Unlock(t)
  BY <1>8, TypesSame DEF Unlock, TypeOK, Types
<1>9. CASE PersistBestEffort(t)
  BY <1>9, TypesSame DEF PersistBestEffort, RaiseDirty, TypeOK, Types
<1>10. CASE Send(t)
  BY <1>10, TypesSame DEF Send, SendRequest, TypeOK, Types
<1> QED BY <1>1, <1>2, <1>3, <1>4, <1>5, <1>6, <1>7, <1>8, <1>9, <1>10 DEF TurnStep

LEMMA TypesHydrate == ASSUME TypeOK, Hydrate PROVE TypeOK'
<1> USE DEF KeepTurns, HydAt, nodeVars, turnVars, flagVars, AfterAttach
<1>0. hyd \in HydType /\ rows \in RowsType
  BY DEF TypeOK
<1>1. CASE OpenSqlite
  <2>1. hyd' \in HydType
    BY <1>0, <1>1, ReadFields DEF OpenSqlite, HydType, Backends
  <2>2. rows' \in RowsType
    BY <1>0, <1>1 DEF OpenSqlite, RowsType
  <2> QED BY <1>1, <2>1, <2>2, TypesSame DEF OpenSqlite, TypeOK, Types
<1>2. CASE AttachPersistentBackend
  <2>1. hyd' \in HydType
    BY <1>0, <1>2 DEF AttachPersistentBackend, HydType
  <2>2. rows' \in RowsType
    BY <1>0, <1>2 DEF AttachPersistentBackend, RowsType
  <2>3. backend' \in Backends /\ hasKey' \in BOOLEAN
    BY <1>2, ReadFields DEF AttachPersistentBackend, TypeOK
  <2> QED BY <1>2, <2>1, <2>2, <2>3, TypesSame DEF AttachPersistentBackend, TypeOK, Types
<1>3. CASE MergeNodes
  <2>1. hyd' \in HydType
    BY <1>0, <1>3 DEF MergeNodes, HydType, TypeOK
  <2>2. ver' \in Rows
    BY <1>3, ReadFields DEF MergeNodes, Rows, TypeOK
  <2> QED BY <1>3, <2>1, <2>2, TypesSame DEF MergeNodes, TypeOK, Types
<1>4. CASE MergeCache
  <2>1. hyd' \in HydType
    BY <1>0, <1>4 DEF MergeCache, HydType
  <2>2. cache' \in Rows
    BY <1>4, ReadFields DEF MergeCache, Rows, TypeOK
  <2> QED BY <1>4, <2>1, <2>2, TypesSame DEF MergeCache, TypeOK, Types
<1>5. CASE StartSaveWorker
  <2>1. hyd' \in HydType
    BY <1>0, <1>5 DEF StartSaveWorker, HydType
  <2> QED BY <1>5, <2>1, TypesSame DEF StartSaveWorker, TypeOK, Types
<1>6. CASE AttachFlush
  <2>1. hyd' \in HydType
    BY <1>0, <1>6 DEF AttachFlush, HydType
  <2> QED BY <1>6, <2>1, TypesSame DEF AttachFlush, RaiseDirty, TypeOK, Types
<1>7. CASE AttachSend
  <2>1. hyd' \in HydType
    BY <1>0, <1>7 DEF AttachSend, HydType
  <2> QED BY <1>7, <2>1, TypesSame DEF AttachSend, SendRequest, TypeOK, Types
<1>8. CASE LoadRedis
  <2>1. hyd' \in HydType
    BY <1>0, <1>8, ReadFields DEF LoadRedis, HydType
  <2> QED BY <1>8, <2>1, TypesSame DEF LoadRedis, TypeOK, Types
<1>9. CASE CaptureSibling
  <2>1. hyd' \in HydType
    BY <1>0, <1>9, ReadRows DEF CaptureSibling, HydType, Backends
  <2> QED BY <1>9, <2>1, TypesSame DEF CaptureSibling, TypeOK, Types
<1>10. CASE WrapHistoryBackend
  <2>1. hyd' \in HydType
    BY <1>0, <1>10 DEF WrapHistoryBackend, HydType
  <2>2. rows' \in RowsType
    BY <1>0, <1>10 DEF WrapHistoryBackend, RowsType
  <2> QED BY <1>10, <2>1, <2>2, TypesSame DEF WrapHistoryBackend, TypeOK, Types, Backends
<1> QED BY <1>1, <1>2, <1>3, <1>4, <1>5, <1>6, <1>7, <1>8, <1>9, <1>10 DEF Hydrate

LEMMA TypesPersist == ASSUME Shared, Persist PROVE TypeOK'
<1> USE DEF KeepShared, nodeVars, turnVars, flagVars, rowVars
<1>0. TypeOK /\ save \in SaveType /\ rows \in RowsType
  BY DEF Shared, TypeOK
<1>1. ASSUME NEW f \in BOOLEAN, NEW d \in BOOLEAN, save.at # "no", PersistEnd(f, d)
      PROVE  /\ save' \in SaveType
             /\ worker' \in {"none", "idle", "armed", "saving", "dead"}
             /\ closer' \in {"run", "close", "stop", "wait", "flush", "saving",
                   "closeBackend", "forget", "done"}
  <2>1. save.count <= 2
    BY <1>1 DEF Shared, SaveOwner, Attempts, WorkerLife, TypeOK
  <2>2. save.count + 1 \in 0..3
    BY <1>0, <2>1, ReadFields
  <2>3. save' \in SaveType
    <3> DEFINE n == IF save.by = "closer" THEN save.count + 1 ELSE 0
    <3>1. save' = [NotSaving EXCEPT !.failed = f, !.count = n] /\ n \in 0..3
      BY <1>1, <2>2 DEF PersistEnd
    <3>2. NotSaving \in SaveType
      BY <1>0, ReadRows DEF NotSaving, SaveType, Backends
    <3> QED BY <3>1, <3>2 DEF SaveType
  <2> QED BY <1>0, <1>1, <2>3 DEF PersistEnd, TypeOK
<1>2. CASE SwapDirty
  <2>1. dirty => save' \in SaveType
    BY <1>0, <1>2 DEF SwapDirty, SaveType
  <2> QED BY <1>0, <1>1, <1>2, <2>1, TypesSame DEF SwapDirty, TypeOK, Types
<1>3. CASE CopyCache
  <2>1. save' \in SaveType
    BY <1>0, <1>3 DEF CopyCache, SaveType, TypeOK
  <2> QED BY <1>0, <1>3, <2>1, TypesSame DEF CopyCache, TypeOK, Types
<1>4. CASE NodeEntries
  <2>1. save' \in SaveType
    BY <1>0, <1>4 DEF NodeEntries, SaveType, TypeOK
  <2> QED BY <1>0, <1>4, <2>1, TypesSame DEF NodeEntries, TypeOK, Types
<1>5. ASSUME NEW i \in Ids, VisitNode(i) PROVE TypeOK'
  <2>1. [save.snap EXCEPT ![i] = IF holder[i] = Free THEN ver[i] ELSE save.cache[i]] \in Rows
    BY <1>0, ReadRows, ReadFields DEF TypeOK
  <2>2. save' \in SaveType
    BY <1>0, <1>5, <2>1 DEF VisitNode, SaveType
  <2> QED BY <1>0, <1>5, <2>2, TypesSame DEF VisitNode, TypeOK, Types
<1>6. CASE SaveRedis
  <2>1. PICK ok \in {TRUE, errors = MaxErrors} :
         /\ rows' = IF ok THEN [rows EXCEPT !.redis = save.snap] ELSE rows
         /\ errors' = IF ok THEN errors ELSE errors + 1
         /\ save' = [save EXCEPT
                       !.failed = ~ok,
                       !.at = IF save.backend = "redis" THEN "saved"
                              ELSE "sqlite"]
    BY <1>6 DEF SaveRedis
  <2>2. save' \in SaveType
    BY <1>0, <2>1 DEF SaveType
  <2>3. rows' \in RowsType
    BY <1>0, <2>1, ReadFields DEF RowsType
  <2>4. errors' \in 0..MaxErrors
    <3>1. errors \in 0..MaxErrors /\ (ok \/ errors # MaxErrors)
      BY <1>0, <2>1 DEF TypeOK
    <3> QED BY <2>1, <3>1, BoundsAssumption
  <2> QED BY <1>0, <1>6, <2>2, <2>3, <2>4, TypesSame DEF SaveRedis, TypeOK, Types
<1>7. CASE SaveSqlite
  <2>1. PICK ok \in {rows.open, rows.open /\ errors = MaxErrors} :
         /\ rows' = IF ok THEN [rows EXCEPT !.sqlite = save.snap] ELSE rows
         /\ errors' = IF rows.open /\ ~ok THEN errors + 1 ELSE errors
         /\ save' = [save EXCEPT
                       !.failed = @ \/ ~ok, !.at = "saved"]
    BY <1>7 DEF SaveSqlite
  <2>2. save' \in SaveType
    BY <1>0, <2>1, ReadFields DEF SaveType
  <2>3. rows' \in RowsType
    BY <1>0, <2>1, ReadFields DEF RowsType
  <2>4. errors' \in 0..MaxErrors
    BY <1>0, <2>1, ReadFields, BoundsAssumption DEF TypeOK
  <2> QED BY <1>0, <1>7, <2>2, <2>3, <2>4, TypesSame DEF SaveSqlite, TypeOK, Types
<1>8. CASE SaveFailed
  BY <1>0, <1>1, <1>8, TypesSame DEF SaveFailed, TypeOK, Types
<1>9. CASE SaveDone
  <2>1. ~dirty => save' \in SaveType
    BY <1>0, <1>9 DEF SaveDone, SaveType
  <2> QED BY <1>0, <1>1, <1>9, <2>1, TypesSame DEF SaveDone, TypeOK, Types
<1>10. CASE SetSnapshotCache
  BY <1>0, <1>1, <1>10, TypesSame, ReadFields DEF SetSnapshotCache, TypeOK, Types
<1> QED BY <1>2, <1>3, <1>4, <1>5, <1>6, <1>7, <1>8, <1>9, <1>10 DEF Persist

WorkerStep == WorkerReceive \/ WorkerTimer \/ WorkerStop

LEMMA TypesClose == ASSUME TypeOK, WorkerStep \/ BotClose \/ Shutdown PROVE TypeOK'
<1> USE DEF KeepData, nodeVars, turnVars, flagVars
<1>0. \A p \in {"worker", "closer"} : PersistBegin(p) => save' \in SaveType
  BY DEF PersistBegin, TypeOK, SaveType
<1>1. CASE WorkerStep
  BY <1>0, <1>1, TypesSame DEF WorkerStep, WorkerReceive, WorkerTimer, WorkerStop, TypeOK, Types
<1>2. CASE BotClose \/ Close \/ StopSaveWorker \/ WorkerStopped
  BY <1>2, TypesSame DEF BotClose, Close, StopSaveWorker, WorkerStopped, TypeOK, Types
<1>3. CASE CloseFlush
  BY <1>0, <1>3, TypesSame DEF CloseFlush, TypeOK, Types
<1>4. CASE ForgetBackend
  BY <1>4, TypesSame DEF ForgetBackend, TypeOK, Types, Backends
<1>5. CASE CloseBackend
  <2>1. rows' \in RowsType
    BY <1>5 DEF CloseBackend, RowsType, TypeOK
  <2> QED BY <1>5, <2>1, TypesSame DEF CloseBackend, TypeOK, Types
<1> QED BY <1>1, <1>2, <1>3, <1>4, <1>5 DEF Shutdown
-----------------------------------------------------------------------------
(* What each group of steps leaves alone.                                  *)

Turn(t) == LockNode(t) \/ TurnStep(t)

LEMMA StepKinds ==
    ASSUME [Next]_vars
    PROVE  \/ \E t \in Turns : Turn(t)
           \/ Hydrate \/ Persist \/ (WorkerStep \/ BotClose \/ Shutdown)
           \/ UNCHANGED vars
  BY DEF Next, Turn, WorkerStep

LEMMA Stutter ==
    ASSUME UNCHANGED vars
    PROVE  UNCHANGED <<nodeVars, turnVars, cache, dirty, flagVars, requests, rowVars, hyd,
                       worker, closer, save>>
  BY DEF vars

LEMMA TurnFrame ==
    ASSUME TypeOK, NEW t \in Turns, Turn(t)
    PROVE  /\ UNCHANGED <<flagVars, rowVars, hyd, worker, closer, id>>
           /\ requests' = "none" <=> requests = "none"
           /\ save'.at = save.at /\ save'.by = save.by /\ save'.count = save.count
           /\ save'.backend = save.backend /\ save'.failed = save.failed
           /\ save'.cache = save.cache
<1> USE DEF KeepPersistence, TypeOK
<1>1. CASE DeleteVictim(t)
  <2>1. save \in SaveType
    OBVIOUS
  <2> QED BY <1>1, <2>1 DEF DeleteVictim, SaveType
<1>2. CASE Send(t)
  BY <1>2 DEF Send, SendRequest
<1>3. CASE LockNode(t) \/ Fill(t) \/ Filled(t) \/ CacheLockedNode(t) \/ DeleteCachedSnapshot(t)
  BY <1>3 DEF LockNode, Fill, Filled, CacheLockedNode, DeleteCachedSnapshot
<1>4. CASE MarkDirty(t) \/ Unlock(t) \/ PersistBestEffort(t)
  BY <1>4 DEF MarkDirty, Unlock, PersistBestEffort
<1> QED BY <1>1, <1>2, <1>3, <1>4 DEF Turn, TurnStep

LEMMA HydrateFrame ==
    ASSUME Hydrate
    PROVE  /\ UNCHANGED <<holder, clock, whole, pc, kind, id, closed, errors, closer, save>>
           /\ requests # "none" => requests' # "none"
<1> USE DEF KeepTurns, nodeVars, turnVars, flagVars
<1>1. CASE OpenSqlite \/ AttachPersistentBackend \/ MergeNodes \/ MergeCache \/ StartSaveWorker
  BY <1>1 DEF OpenSqlite, AttachPersistentBackend, MergeNodes, MergeCache, StartSaveWorker
<1>2. CASE AttachFlush \/ AttachSend \/ LoadRedis \/ CaptureSibling \/ WrapHistoryBackend
  BY <1>2 DEF AttachFlush, AttachSend, SendRequest, LoadRedis, CaptureSibling,
              WrapHistoryBackend
<1> QED BY <1>1, <1>2 DEF Hydrate

LEMMA PersistFrame ==
    ASSUME Persist
    PROVE  UNCHANGED <<nodeVars, turnVars, flagVars, requests, hyd>> /\ save.at # "no"
<1> USE DEF KeepShared
<1>1. ASSUME NEW i \in Ids, VisitNode(i)
      PROVE  UNCHANGED <<nodeVars, turnVars, flagVars, requests, hyd>> /\ save.at # "no"
  BY <1>1 DEF VisitNode
<1>2. CASE SwapDirty \/ CopyCache \/ NodeEntries \/ SaveRedis \/ SaveSqlite
  BY <1>2 DEF SwapDirty, CopyCache, NodeEntries, SaveRedis, SaveSqlite
<1>3. CASE SaveFailed \/ SaveDone \/ SetSnapshotCache
  BY <1>3 DEF SaveFailed, SaveDone, SetSnapshotCache
<1> QED BY <1>1, <1>2, <1>3 DEF Persist

LEMMA CloseFrame ==
    ASSUME WorkerStep \/ BotClose \/ Shutdown
    PROVE  UNCHANGED <<nodeVars, turnVars, cache, dirty, errors, hyd>>
<1> USE DEF KeepData
<1>1. CASE WorkerStep \/ BotClose
  BY <1>1 DEF WorkerStep, WorkerReceive, WorkerTimer, WorkerStop, BotClose
<1>2. CASE Close \/ StopSaveWorker \/ WorkerStopped
  BY <1>2 DEF Close, StopSaveWorker, WorkerStopped
<1>3. CASE CloseFlush \/ CloseBackend \/ ForgetBackend
  BY <1>3 DEF CloseFlush, CloseBackend, ForgetBackend
<1> QED BY <1>1, <1>2, <1>3 DEF Shutdown

\* persist() leaves the save, and its caller, in one of three ways.
LEMMA PersistKinds ==
    ASSUME TypeOK, Persist
    PROVE  \/ /\ UNCHANGED <<worker, closer>> /\ save'.at # "no"
              /\ save'.by = save.by /\ save'.backend = save.backend
              /\ save'.count = save.count
           \/ /\ save'.at = "no" /\ worker' = "idle" /\ closer' = closer
              /\ save.by = "worker" /\ save'.count = 0
           \/ /\ save'.at = "no" /\ worker' = worker /\ save.by # "worker"
              /\ save.by = "closer" => save'.count = save.count + 1
              /\ \/ closer' = "closeBackend"
                 \/ closer' = "flush" /\ save.count # 2
<1>0. save \in SaveType
  BY DEF TypeOK
<1> USE DEF SaveType
<1>1. ASSUME NEW f, NEW d, PersistEnd(f, d)
      PROVE  \/ /\ save'.at = "no" /\ worker' = "idle" /\ closer' = closer
                /\ save.by = "worker" /\ save'.count = 0
             \/ /\ save'.at = "no" /\ worker' = worker /\ save.by # "worker"
                /\ save.by = "closer" => save'.count = save.count + 1
                /\ \/ closer' = "closeBackend"
                   \/ closer' = "flush" /\ save.count # 2
  <2> DEFINE n == IF save.by = "closer" THEN save.count + 1 ELSE 0
  <2>1. save' = [NotSaving EXCEPT !.failed = f, !.count = n]
    BY <1>1 DEF PersistEnd
  <2>2. save'.at = "no" /\ save'.count = n
    BY <2>1 DEF NotSaving
  <2> QED BY <1>1, <2>2 DEF PersistEnd
<1>2. ASSUME NEW i \in Ids, VisitNode(i)
      PROVE  /\ UNCHANGED <<worker, closer>> /\ save'.at # "no"
             /\ save'.by = save.by /\ save'.backend = save.backend
             /\ save'.count = save.count
  BY <1>0, <1>2 DEF VisitNode
<1>3. CASE CopyCache \/ NodeEntries \/ SaveRedis \/ SaveSqlite
  BY <1>0, <1>3 DEF CopyCache, NodeEntries, SaveRedis, SaveSqlite
<1>4. CASE SwapDirty
  BY <1>0, <1>1, <1>4 DEF SwapDirty
<1>5. CASE SaveFailed \/ SaveDone \/ SetSnapshotCache
  BY <1>0, <1>1, <1>5 DEF SaveFailed, SaveDone, SetSnapshotCache
<1> QED BY <1>2, <1>3, <1>4, <1>5 DEF Persist

-----------------------------------------------------------------------------
(* The mutex of a node, and the exclusion of the two savers.               *)

LEMMA LocksInit == Init => LocksHeld
  BY DEF Init, LocksHeld, Holding

LEMMA LocksTurn ==
    ASSUME TypeOK, LocksHeld, NEW t \in Turns, Turn(t) PROVE LocksHeld'
<1> USE FreeAssumption DEF Holding, TypeOK, LocksHeld, Goto
<1>1. CASE LockNode(t)
  <2>1. PICK k \in Kinds : pc' = [pc EXCEPT ![t] = CASE k = "evict" -> "delete"
                      [] k = "read" /\ ver[id[t]] # 0 -> "unlock"
                      [] OTHER -> "fill"]
    BY <1>1 DEF LockNode
  <2>2. pc'[t] \in {"delete", "unlock", "fill"} /\ \A u \in Turns \ {t} : pc'[u] = pc[u]
    BY <2>1
  <2>3. pc[t] = "idle" /\ holder[id[t]] = Free /\ holder' = [holder EXCEPT ![id[t]] = t]
        /\ id' = id /\ ver' = ver
    BY <1>1 DEF LockNode
  <2> QED BY <2>2, <2>3
<1>2. CASE Fill(t)
  BY <1>2, BoundsAssumption DEF Fill, Rows
<1>3. CASE Filled(t)
  BY <1>3 DEF Filled
<1>4. CASE CacheLockedNode(t)
  BY <1>4 DEF CacheLockedNode, nodeVars
<1>5. CASE DeleteVictim(t)
  <2>1. holder[id[t]] = t /\ \A u \in Turns : pc[u] = "filled" => u # t /\ holder[id[u]] = u
    BY <1>5 DEF DeleteVictim
  <2>2. \A u \in Turns : pc[u] = "filled" => ver'[id[u]] = ver[id[u]]
    BY <1>5, <2>1 DEF DeleteVictim, Rows
  <2>3. pc'[t] \in {"drop", "unlock"} /\ \A u \in Turns \ {t} : pc'[u] = pc[u]
    BY <1>5 DEF DeleteVictim
  <2>4. holder' = holder /\ id' = id
    BY <1>5 DEF DeleteVictim
  <2> QED BY <2>1, <2>2, <2>3, <2>4
<1>6. CASE DeleteCachedSnapshot(t)
  BY <1>6 DEF DeleteCachedSnapshot, nodeVars
<1>7. CASE MarkDirty(t)
  BY <1>7 DEF MarkDirty, nodeVars
<1>8. CASE Unlock(t)
  <2>1. pc'[t] \in {"done", "request"} /\ \A u \in Turns \ {t} : pc'[u] = pc[u]
    BY <1>8 DEF Unlock
  <2>2. /\ holder' = [holder EXCEPT ![id[t]] = Free]
        /\ id' = id /\ ver' = ver /\ holder[id[t]] = t
    BY <1>8 DEF Unlock
  <2> QED BY <2>1, <2>2
<1>9. CASE PersistBestEffort(t)
  BY <1>9 DEF PersistBestEffort, nodeVars
<1>10. CASE Send(t)
  BY <1>10 DEF Send, nodeVars
<1> QED BY <1>1, <1>2, <1>3, <1>4, <1>5, <1>6, <1>7, <1>8, <1>9, <1>10 DEF Turn, TurnStep

LEMMA LocksHydrate == ASSUME TypeOK, LocksHeld, Hydrate PROVE LocksHeld'
<1>1. \A i \in Ids : ver[i] # 0 => ver'[i] # 0
  <2>1. CASE MergeNodes
    BY <2>1 DEF MergeNodes, TypeOK
  <2>2. CASE ver' = ver
    BY <2>2
  <2> QED BY <2>1, <2>2 DEF Hydrate, OpenSqlite, AttachPersistentBackend, MergeCache,
          StartSaveWorker, AttachFlush, AttachSend, LoadRedis, CaptureSibling,
          WrapHistoryBackend, nodeVars
<1> QED BY <1>1, HydrateFrame DEF LocksHeld, TypeOK

SaverInv == WorkerLife /\ SaveOwner /\ Attempts

LEMMA SaverInit == Init => SaverInv
  BY DEF Init, SaverInv, WorkerLife, SaveOwner, Attempts, NotSaving

LEMMA SaverTurn == ASSUME TypeOK, SaverInv, NEW t \in Turns, Turn(t) PROVE SaverInv'
  BY TurnFrame DEF SaverInv, WorkerLife, SaveOwner, Attempts, flagVars

LEMMA SaverHydrate == ASSUME TypeOK, SaverInv, Hydrate PROVE SaverInv'
<1> USE DEF SaverInv, WorkerLife, SaveOwner, Attempts
<1>1. CASE StartSaveWorker
  BY <1>1, HydrateFrame DEF StartSaveWorker
<1>2. CASE UNCHANGED <<worker, requests>>
  BY <1>2, HydrateFrame
<1>3. CASE AttachSend
  BY <1>3, HydrateFrame DEF AttachSend, SendRequest
<1> QED BY <1>1, <1>2, <1>3 DEF Hydrate, OpenSqlite, AttachPersistentBackend, MergeNodes,
        MergeCache, AttachFlush, LoadRedis, CaptureSibling, WrapHistoryBackend

LEMMA SaverPersist == ASSUME TypeOK, SaverInv, Persist PROVE SaverInv'
<1>1. UNCHANGED <<closed, requests>> /\ save.at # "no"
  BY PersistFrame DEF flagVars
<1>2. save.count \in 0..3
  BY ReadFields
<1> QED BY <1>1, <1>2, PersistKinds DEF SaverInv, WorkerLife, SaveOwner, Attempts

LEMMA SaverClose ==
    ASSUME TypeOK, SaverInv, WorkerStep \/ BotClose \/ Shutdown PROVE SaverInv'
<1> USE DEF SaverInv, WorkerLife, SaveOwner, Attempts, flagVars
<1>1. \A p \in {"worker", "closer"} : PersistBegin(p) =>
         save'.at = "swap" /\ save'.by = p /\ save'.count = save.count
  BY DEF PersistBegin, TypeOK, SaveType
<1>2. CASE WorkerReceive \/ WorkerStop
  BY <1>2 DEF WorkerReceive, WorkerStop
<1>3. CASE WorkerTimer
  BY <1>1, <1>3 DEF WorkerTimer
<1>4. CASE BotClose \/ Close
  BY <1>4 DEF BotClose, Close
<1>5. CASE StopSaveWorker \/ WorkerStopped
  BY <1>5 DEF StopSaveWorker, WorkerStopped, TypeOK
<1>6. CASE CloseFlush
  BY <1>1, <1>6 DEF CloseFlush
<1>7. CASE CloseBackend \/ ForgetBackend
  BY <1>7 DEF CloseBackend, ForgetBackend
<1> QED BY <1>2, <1>3, <1>4, <1>5, <1>6, <1>7 DEF WorkerStep, Shutdown

LEMMA SharedInit == Init => Shared
  BY TypesInit, LocksInit, SaverInit DEF Shared, SaverInv

LEMMA SharedStep == Shared /\ [Next]_vars => Shared'
<1> SUFFICES ASSUME Shared, [Next]_vars PROVE Shared'
  OBVIOUS
<1>0. TypeOK /\ LocksHeld /\ SaverInv
  BY DEF Shared, SaverInv
<1>1. ASSUME NEW t \in Turns, Turn(t) PROVE Shared'
  <2>1. TypeOK' /\ LocksHeld' /\ SaverInv'
    BY <1>0, <1>1, TypesTurn, LocksTurn, SaverTurn DEF Turn
  <2> QED BY <2>1 DEF Shared, SaverInv
<1>2. CASE Hydrate
  <2>1. TypeOK' /\ LocksHeld' /\ SaverInv'
    BY <1>0, <1>2, TypesHydrate, LocksHydrate, SaverHydrate
  <2> QED BY <2>1 DEF Shared, SaverInv
<1>3. CASE Persist
  <2>1. TypeOK' /\ SaverInv'
    BY <1>0, <1>3, TypesPersist, SaverPersist
  <2>2. LocksHeld'
    BY <1>0, <1>3, PersistFrame DEF LocksHeld, nodeVars, turnVars
  <2> QED BY <2>1, <2>2 DEF Shared, SaverInv
<1>4. CASE WorkerStep \/ BotClose \/ Shutdown
  <2>1. TypeOK' /\ SaverInv'
    BY <1>0, <1>4, TypesClose, SaverClose
  <2>2. LocksHeld'
    BY <1>0, <1>4, CloseFrame DEF LocksHeld, nodeVars, turnVars
  <2> QED BY <2>1, <2>2 DEF Shared, SaverInv
<1>5. CASE UNCHANGED vars
  <2>1. UNCHANGED Types
    BY <1>5, TypesSame DEF vars, nodeVars
  <2>2. TypeOK'
    BY <1>0, <1>5, <2>1 DEF vars, nodeVars, turnVars, flagVars, rowVars, TypeOK, Types
  <2>3. LocksHeld' /\ SaverInv'
    BY <1>0, <1>5 DEF vars, nodeVars, turnVars, flagVars, LocksHeld, SaverInv, WorkerLife,
                      SaveOwner, Attempts
  <2> QED BY <2>2, <2>3 DEF Shared, SaverInv
<1> QED BY <1>1, <1>2, <1>3, <1>4, <1>5 DEF Next, Turn, WorkerStep

\* Type correctness: no version is cached, snapshotted, loaded or saved before
\* it is handed out, and close() saves three times at most (store_persistence.go,
\* store.close).
\* Every state has its type; in particular no version is cached, saved or loaded
\* before a fill has handed it out, and close() never saves a fourth time.
THEOREM TypesHold == Spec => []TypeOK
<1>1. Shared => TypeOK
  BY DEF Shared
<1> QED BY <1>1, SharedInit, SharedStep, PTL DEF Spec

\* The worker and close() never save at the same time: whichever persist() runs
\* has one owner, which the protocol of stopSaveWorker ensures even without
\* saveMu.
OneSaver ==
    /\ ~(worker = "saving" /\ closer = "saving")
    /\ save.at # "no" => \/ save.by = "worker" /\ worker = "saving"
                         \/ save.by = "closer" /\ closer = "saving"

\* persist() has one caller at a time (saveMu, stopSaveWorker, close).
THEOREM SavesExclude == Spec => []OneSaver
<1>1. Shared => OneSaver
  BY DEF Shared, WorkerLife, SaveOwner, OneSaver
<1> QED BY <1>1, SharedInit, SharedStep, PTL DEF Spec

-----------------------------------------------------------------------------
(* What close() leaves behind.                                             *)

OnDisk == {"sqlite", "chained"}

\* The open SQLite handle has an owner: the hydration that is about to attach
\* it, or the attached backend until close() closed it.
OpenOwned == rows.open =>
    \/ hyd.at = "attach" /\ hyd.backend = "sqlite"
    \/ backend \in OnDisk /\ closer \notin {"forget", "done"}

\* Once close() forgot the backend nothing attaches another.
StaysForgotten == closer = "done" => backend = "none"

CloseInv == Shared /\ OpenOwned /\ StaysForgotten

LEMMA OwnedHydrate == ASSUME CloseInv, Hydrate PROVE OpenOwned' /\ StaysForgotten'
<1> USE DEF OnDisk, OpenOwned, StaysForgotten, HydAt
<1>0. /\ hyd \in HydType /\ rows \in RowsType
      /\ closed <=> closer \notin {"run", "close"}
      /\ closer' = closer
  BY HydrateFrame DEF CloseInv, Shared, TypeOK, WorkerLife
<1>1. CASE OpenSqlite
  BY <1>0, <1>1 DEF OpenSqlite, HydType, RowsType, CloseInv, flagVars
<1>2. CASE AttachPersistentBackend
  <2>1. CASE closed \/ backend # "none"
    BY <1>0, <1>2, <2>1 DEF AttachPersistentBackend, AfterAttach, HydType, RowsType, CloseInv
  <2>2. CASE ~closed /\ backend = "none"
    BY <1>0, <1>2, <2>2 DEF AttachPersistentBackend, HydType, CloseInv
  <2> QED BY <2>1, <2>2
<1>3. CASE MergeNodes \/ MergeCache \/ StartSaveWorker \/ AttachFlush \/ AttachSend \/ LoadRedis
  <2>1. UNCHANGED <<rows, backend>> /\ (hyd.at # "attach")
    BY <1>3 DEF MergeNodes, MergeCache, StartSaveWorker, AttachFlush, AttachSend, LoadRedis, flagVars
  <2> QED BY <1>0, <2>1 DEF CloseInv
<1>4. CASE CaptureSibling
  <2>1. UNCHANGED <<rows, backend>> /\ (hyd.at # "attach")
    BY <1>4 DEF CaptureSibling, flagVars
  <2> QED BY <1>0, <2>1 DEF CloseInv
<1>5. CASE WrapHistoryBackend
  <2>1. CASE closed \/ backend = "none"
    BY <1>0, <1>5, <2>1 DEF WrapHistoryBackend, RowsType, CloseInv
  <2>2. CASE ~closed /\ backend # "none"
    BY <1>0, <1>5, <2>2 DEF WrapHistoryBackend, CloseInv
  <2> QED BY <2>1, <2>2
<1> QED BY <1>1, <1>2, <1>3, <1>4, <1>5 DEF Hydrate

LEMMA OwnedPersist == ASSUME CloseInv, Persist PROVE OpenOwned' /\ StaysForgotten'
<1>1. rows'.open = rows.open
  <2>1. rows \in RowsType
    BY DEF CloseInv, Shared, TypeOK
  <2>2. CASE rows' = rows
    BY <2>2
  <2>3. CASE SaveRedis \/ SaveSqlite
    BY <2>1, <2>3 DEF SaveRedis, SaveSqlite, RowsType
  <2> QED BY <2>2, <2>3 DEF Persist, SwapDirty, CopyCache, NodeEntries, VisitNode,
          SaveFailed, SaveDone, SetSnapshotCache, rowVars
<1>2. UNCHANGED <<hyd, backend>>
  BY PersistFrame DEF flagVars
<1>3. /\ closer' \in {"forget", "done"} => closer' = closer
  BY PersistKinds DEF CloseInv, Shared
<1> QED BY <1>1, <1>2, <1>3 DEF CloseInv, OpenOwned, StaysForgotten

LEMMA OwnedClose ==
    ASSUME CloseInv, WorkerStep \/ BotClose \/ Shutdown
    PROVE  OpenOwned' /\ StaysForgotten'
<1> USE DEF OpenOwned, StaysForgotten, OnDisk, flagVars
<1>0. hyd' = hyd /\ rows \in RowsType
  BY CloseFrame DEF CloseInv, Shared, TypeOK
<1>1. CASE WorkerStep \/ BotClose
  BY <1>0, <1>1 DEF WorkerStep, WorkerReceive, WorkerTimer, WorkerStop, BotClose, CloseInv
<1>2. CASE Close \/ StopSaveWorker \/ WorkerStopped \/ CloseFlush
  BY <1>0, <1>2 DEF Close, StopSaveWorker, WorkerStopped, CloseFlush, CloseInv
<1>3. CASE CloseBackend
  BY <1>0, <1>3 DEF CloseBackend, RowsType, CloseInv
<1>4. CASE ForgetBackend
  BY <1>0, <1>4 DEF ForgetBackend, CloseInv
<1> QED BY <1>1, <1>2, <1>3, <1>4 DEF Shutdown

\* Whichever of hydration and close comes first at backendMu, at the end no
\* handle, no backend, no worker and no persist() is left
\* (store_persistence.go, attachPersistentBackend, wrapHistoryBackend, close).
THEOREM ShutdownIsClean == Spec => []ShutdownReleases
<1>1. Init => CloseInv
  <2>1. Init => ~rows.open /\ closer = "run"
    BY DEF Init
  <2> QED BY <2>1, SharedInit DEF CloseInv, OpenOwned, StaysForgotten
<1>2. CloseInv /\ [Next]_vars => CloseInv'
  <2> SUFFICES ASSUME CloseInv, [Next]_vars PROVE CloseInv'
    OBVIOUS
  <2>1. Shared'
    BY SharedStep DEF CloseInv
  <2>2. ASSUME NEW t \in Turns, Turn(t) PROVE OpenOwned' /\ StaysForgotten'
    BY <2>2, TurnFrame DEF CloseInv, Shared, OpenOwned, StaysForgotten, flagVars, rowVars
  <2>3. CASE UNCHANGED vars
    BY <2>1, <2>3, Stutter DEF CloseInv, OpenOwned, StaysForgotten, flagVars, rowVars
  <2>4. CASE Hydrate
    BY <2>1, <2>4, OwnedHydrate DEF CloseInv
  <2>5. CASE Persist
    BY <2>1, <2>5, OwnedPersist DEF CloseInv
  <2>6. CASE WorkerStep \/ BotClose \/ Shutdown
    BY <2>1, <2>6, OwnedClose DEF CloseInv
  <2> QED BY <2>1, <2>2, <2>3, <2>4, <2>5, <2>6, StepKinds DEF CloseInv
<1>3. CloseInv => ShutdownReleases
  BY DEF CloseInv, Shared, WorkerLife, SaveOwner, OpenOwned, StaysForgotten, OnDisk,
         ShutdownReleases
<1> QED BY <1>1, <1>2, <1>3, PTL DEF Spec

-----------------------------------------------------------------------------
(* Versions are whole wherever they are copied to.                         *)

Whole(v) == v \in whole \cup {0}

\* Only the turn that holds a node and has just assigned its fields has a
\* version there that is not whole.
TornIsFilled == \A i \in Ids : ~Whole(ver[i]) =>
    holder[i] \in Turns /\ pc[holder[i]] = "filled"

CopiesWhole == \A i \in Ids :
    /\ Whole(cache[i]) /\ Whole(save.cache[i]) /\ Whole(save.snap[i])
    /\ Whole(rows.sqlite[i]) /\ Whole(rows.redis[i]) /\ Whole(hyd.loaded[i])

WholeInv == Shared /\ TornIsFilled /\ CopiesWhole

LEMMA WholeInit == Init => TornIsFilled /\ CopiesWhole
<1> SUFFICES ASSUME Init PROVE TornIsFilled /\ CopiesWhole
  OBVIOUS
<1>1. PICK s \in StartRows, r \in StartRows : rows = [sqlite |-> s, redis |-> r, open |-> FALSE]
  BY DEF Init
<1>2. \A i \in Ids : Whole(s[i]) /\ Whole(r[i]) /\ Whole(NoRow[i])
  BY BoundsAssumption DEF Init, Whole, NoRow
<1> QED BY <1>1, <1>2 DEF Init, NotSaving, TornIsFilled, CopiesWhole

\* The holder of a node that is past its last assignment has a whole version.
LEMMA HeldWhole ==
    ASSUME WholeInv, NEW t \in Turns, pc[t] \in Holding \ {"filled"}
    PROVE  Whole(ver[id[t]])
  BY DEF WholeInv, Shared, LocksHeld, TornIsFilled, TypeOK

LEMMA WholeTurn ==
    ASSUME WholeInv, NEW t \in Turns, Turn(t) PROVE TornIsFilled' /\ CopiesWhole'
<1> USE DEF KeepPersistence, Goto, Holding
<1>0. TypeOK /\ LocksHeld /\ TornIsFilled /\ CopiesWhole
  BY DEF WholeInv, Shared
<1>1. CASE LockNode(t)
  <2>1. UNCHANGED <<ver, whole, cache, rows, hyd, save>>
    BY <1>1 DEF LockNode, rowVars
  <2>2. \A i \in Ids : holder[i] # Free => holder'[i] = holder[i] /\ pc'[holder[i]] = pc[holder[i]]
    BY <1>0, <1>1 DEF LockNode, LocksHeld, TypeOK
  <2> QED BY <1>0, <2>1, <2>2, FreeAssumption DEF TornIsFilled, CopiesWhole, Whole
<1>2. CASE Fill(t)
  <2>1. UNCHANGED <<holder, whole, cache, rows, hyd, save>>
    BY <1>2 DEF Fill, rowVars
  <2>2. holder[id[t]] = t /\ pc' = [pc EXCEPT ![t] = "filled"] /\ pc[t] = "fill"
        /\ ver' = [ver EXCEPT ![id[t]] = clock + 1]
    BY <1>0, <1>2 DEF Fill, LocksHeld
  <2>3. TornIsFilled'
    BY <1>0, <2>1, <2>2 DEF TornIsFilled, Whole, TypeOK, Rows
  <2> QED BY <1>0, <2>1, <2>3 DEF CopiesWhole, Whole
<1>3. CASE Filled(t)
  <2>1. UNCHANGED <<ver, holder, cache, rows, hyd, save>>
    BY <1>3 DEF Filled, rowVars
  <2>2. whole' = whole \cup {ver[id[t]]} /\ pc[t] = "filled"
        /\ \A u \in Turns \ {t} : pc'[u] = pc[u]
    BY <1>0, <1>3 DEF Filled, TypeOK
  <2>3. \A i \in Ids : holder[i] = t => id[t] = i
    BY <1>0, FreeAssumption DEF LocksHeld, TypeOK
  <2> QED BY <1>0, <2>1, <2>2, <2>3 DEF TornIsFilled, CopiesWhole, Whole
<1>4. CASE CacheLockedNode(t)
  <2>1. UNCHANGED <<ver, holder, whole, rows, hyd, save>>
    BY <1>4 DEF CacheLockedNode, rowVars, nodeVars
  <2>2. Whole(ver[id[t]]) /\ cache' = [cache EXCEPT ![id[t]] = ver[id[t]]]
    BY <1>4, HeldWhole DEF CacheLockedNode
  <2>3. pc[t] # "filled" /\ \A u \in Turns \ {t} : pc'[u] = pc[u]
    BY <1>0, <1>4 DEF CacheLockedNode, TypeOK
  <2> QED BY <1>0, <2>1, <2>2, <2>3 DEF TornIsFilled, CopiesWhole, Whole, TypeOK, Rows
<1>5. CASE DeleteVictim(t)
  <2>1. UNCHANGED <<holder, whole, cache, rows, hyd>>
    BY <1>5 DEF DeleteVictim, rowVars
  <2>2. ver' = [ver EXCEPT ![id[t]] = 0] /\ pc[t] # "filled"
        /\ \A u \in Turns \ {t} : pc'[u] = pc[u]
    BY <1>0, <1>5 DEF DeleteVictim, TypeOK
  <2>3. \A i \in Ids : Whole(save'.snap[i])
    <3>1. CASE id[t] \in save.left
      <4>1. PICK v \in {ver[id[t]], save.cache[id[t]]} :
              save' = [save EXCEPT !.left = @ \ {id[t]}, !.snap[id[t]] = v]
        BY <1>5, <3>1 DEF DeleteVictim
      <4>2. Whole(v)
        BY <1>0, <1>5, <4>1, HeldWhole DEF DeleteVictim, CopiesWhole, TypeOK
      <4>3. save'.snap = [save.snap EXCEPT ![id[t]] = v] /\ save.snap \in Rows
        BY <1>0, <4>1 DEF TypeOK, SaveType
      <4> QED BY <1>0, <4>2, <4>3 DEF CopiesWhole, Rows
    <3>2. CASE id[t] \notin save.left
      BY <1>0, <1>5, <3>2 DEF DeleteVictim, CopiesWhole
    <3> QED BY <3>1, <3>2
  <2>4. save'.cache = save.cache
    BY <1>0, TurnFrame
  <2> QED BY <1>0, <2>1, <2>2, <2>3, <2>4 DEF TornIsFilled, CopiesWhole, Whole, TypeOK, Rows
<1>6. CASE DeleteCachedSnapshot(t)
  <2>1. UNCHANGED <<ver, holder, whole, rows, hyd, save>>
    BY <1>6 DEF DeleteCachedSnapshot, rowVars, nodeVars
  <2>2. pc[t] # "filled" /\ cache' = [cache EXCEPT ![id[t]] = 0]
        /\ \A u \in Turns \ {t} : pc'[u] = pc[u]
    BY <1>0, <1>6 DEF DeleteCachedSnapshot, TypeOK
  <2> QED BY <1>0, <2>1, <2>2 DEF TornIsFilled, CopiesWhole, Whole, TypeOK, Rows
<1>7. CASE MarkDirty(t) \/ PersistBestEffort(t) \/ Send(t)
  <2>1. UNCHANGED <<ver, holder, whole, cache, rows, hyd, save>>
    BY <1>7 DEF MarkDirty, PersistBestEffort, Send, rowVars, nodeVars
  <2>2. pc[t] # "filled" /\ \A u \in Turns \ {t} : pc'[u] = pc[u]
    BY <1>0, <1>7 DEF MarkDirty, PersistBestEffort, Send, TypeOK
  <2> QED BY <1>0, <2>1, <2>2 DEF TornIsFilled, CopiesWhole, Whole
<1>8. CASE Unlock(t)
  <2>1. UNCHANGED <<ver, whole, cache, rows, hyd, save>>
    BY <1>8 DEF Unlock, rowVars
  <2>2. Whole(ver[id[t]]) /\ holder' = [holder EXCEPT ![id[t]] = Free]
    BY <1>8, HeldWhole DEF Unlock
  <2>3. pc[t] # "filled" /\ \A u \in Turns \ {t} : pc'[u] = pc[u]
    BY <1>0, <1>8 DEF Unlock, TypeOK
  <2> QED BY <1>0, <2>1, <2>2, <2>3 DEF TornIsFilled, CopiesWhole, Whole, TypeOK
<1> QED BY <1>1, <1>2, <1>3, <1>4, <1>5, <1>6, <1>7, <1>8 DEF Turn, TurnStep

LEMMA WholeHydrate == ASSUME WholeInv, Hydrate PROVE TornIsFilled' /\ CopiesWhole'
<1> USE DEF HydAt
<1>0. /\ TypeOK /\ TornIsFilled /\ CopiesWhole /\ hyd \in HydType /\ rows \in RowsType
      /\ UNCHANGED <<holder, whole, pc, save>>
  BY HydrateFrame DEF WholeInv, Shared, TypeOK
<1>1. CASE MergeNodes
  <2>1. \A i \in Ids : ver'[i] = ver[i] \/ Whole(ver'[i])
    BY <1>0, <1>1 DEF MergeNodes, CopiesWhole
  <2>2. UNCHANGED <<cache, rows>> /\ hyd'.loaded = hyd.loaded
    BY <1>0, <1>1 DEF MergeNodes, HydType
  <2> QED BY <1>0, <2>1, <2>2 DEF TornIsFilled, CopiesWhole, Whole
<1>2. CASE MergeCache
  <2>1. \A i \in Ids : Whole(cache'[i])
    BY <1>0, <1>2, FreeAssumption DEF MergeCache, CopiesWhole, TornIsFilled
  <2>2. UNCHANGED <<ver, rows>> /\ hyd'.loaded = hyd.loaded
    BY <1>0, <1>2 DEF MergeCache, HydType, nodeVars
  <2> QED BY <1>0, <2>1, <2>2 DEF TornIsFilled, CopiesWhole, Whole
<1>3. CASE OpenSqlite \/ AttachPersistentBackend \/ WrapHistoryBackend
  <2>1. UNCHANGED <<ver, cache>> /\ rows'.sqlite = rows.sqlite /\ rows'.redis = rows.redis
    BY <1>0, <1>3 DEF OpenSqlite, AttachPersistentBackend, WrapHistoryBackend, RowsType, nodeVars
  <2>2. hyd'.loaded \in {hyd.loaded, rows.sqlite}
    BY <1>0, <1>3 DEF OpenSqlite, AttachPersistentBackend, WrapHistoryBackend, HydType
  <2> QED BY <1>0, <2>1, <2>2 DEF TornIsFilled, CopiesWhole, Whole
<1>4. CASE StartSaveWorker \/ AttachFlush \/ AttachSend \/ LoadRedis \/ CaptureSibling
  <2>1. UNCHANGED <<ver, cache, rows>>
    BY <1>4 DEF StartSaveWorker, AttachFlush, AttachSend, LoadRedis, CaptureSibling, nodeVars
  <2>2. hyd'.loaded \in {hyd.loaded, rows.redis, NoRow}
    BY <1>0, <1>4 DEF StartSaveWorker, AttachFlush, AttachSend, LoadRedis, CaptureSibling, HydType
  <2> QED BY <1>0, <2>1, <2>2 DEF TornIsFilled, CopiesWhole, Whole, NoRow
<1> QED BY <1>1, <1>2, <1>3, <1>4 DEF Hydrate

LEMMA WholePersist == ASSUME WholeInv, Persist PROVE TornIsFilled' /\ CopiesWhole'
<1>0. /\ TypeOK /\ TornIsFilled /\ CopiesWhole /\ save \in SaveType /\ rows \in RowsType
      /\ UNCHANGED <<ver, holder, whole, pc, hyd>>
  BY PersistFrame DEF WholeInv, Shared, TypeOK, nodeVars, turnVars
<1>1. TornIsFilled'
  BY <1>0 DEF TornIsFilled, Whole
<1> USE DEF rowVars
<1>2. ASSUME NEW f, NEW d, PersistEnd(f, d)
      PROVE  \A i \in Ids : Whole(save'.cache[i]) /\ Whole(save'.snap[i])
  BY <1>2 DEF PersistEnd, NotSaving, NoRow, Whole
<1>3. CASE SwapDirty
  BY <1>0, <1>1, <1>2, <1>3 DEF SwapDirty, CopiesWhole, Whole, SaveType
<1>4. CASE CopyCache \/ NodeEntries
  BY <1>0, <1>1, <1>4 DEF CopyCache, NodeEntries, CopiesWhole, Whole, SaveType
<1>5. ASSUME NEW i \in Ids, VisitNode(i) PROVE CopiesWhole'
  <2>1. Whole(IF holder[i] = Free THEN ver[i] ELSE save.cache[i])
    BY <1>0, FreeAssumption DEF TornIsFilled, CopiesWhole
  <2>2. /\ save'.cache = save.cache /\ save.snap \in Rows
        /\ save'.snap = [save.snap EXCEPT ![i] = IF holder[i] = Free THEN ver[i] ELSE save.cache[i]]
    BY <1>0, <1>5 DEF VisitNode, SaveType
  <2>3. UNCHANGED <<cache, rows>>
    BY <1>5 DEF VisitNode
  <2> QED BY <1>0, <2>1, <2>2, <2>3 DEF CopiesWhole, Whole, Rows
<1>6. CASE SaveRedis \/ SaveSqlite
  <2>1. cache' = cache /\ save'.cache = save.cache /\ save'.snap = save.snap
    BY <1>0, <1>6 DEF SaveRedis, SaveSqlite, SaveType
  <2>2. rows'.sqlite \in {rows.sqlite, save.snap} /\ rows'.redis \in {rows.redis, save.snap}
    BY <1>0, <1>6 DEF SaveRedis, SaveSqlite, RowsType
  <2> QED BY <1>0, <1>1, <2>1, <2>2 DEF CopiesWhole, Whole
<1>7. CASE SaveFailed \/ SaveDone
  BY <1>0, <1>1, <1>2, <1>7 DEF SaveFailed, SaveDone, CopiesWhole, Whole, SaveType
<1>8. CASE SetSnapshotCache
  BY <1>0, <1>1, <1>2, <1>8 DEF SetSnapshotCache, CopiesWhole, Whole
<1> QED BY <1>1, <1>3, <1>4, <1>5, <1>6, <1>7, <1>8 DEF Persist

LEMMA WholeClose ==
    ASSUME WholeInv, WorkerStep \/ BotClose \/ Shutdown PROVE TornIsFilled' /\ CopiesWhole'
<1>0. /\ TornIsFilled /\ CopiesWhole /\ save \in SaveType /\ rows \in RowsType
      /\ UNCHANGED <<ver, holder, whole, pc, cache, hyd>>
  BY CloseFrame DEF WholeInv, Shared, TypeOK, nodeVars, turnVars
<1>1. save'.cache = save.cache /\ save'.snap = save.snap
  BY <1>0 DEF WorkerStep, WorkerReceive, WorkerTimer, WorkerStop, BotClose, Shutdown, Close,
      StopSaveWorker, WorkerStopped, CloseFlush, CloseBackend, ForgetBackend, PersistBegin, SaveType
<1>2. rows'.sqlite = rows.sqlite /\ rows'.redis = rows.redis
  BY <1>0 DEF WorkerStep, WorkerReceive, WorkerTimer, WorkerStop, BotClose, Shutdown, Close,
      StopSaveWorker, WorkerStopped, CloseFlush, CloseBackend, ForgetBackend, RowsType
<1> QED BY <1>0, <1>1, <1>2 DEF TornIsFilled, CopiesWhole, Whole

\* No version that is cached, in a snapshot or on a backend is that of a node
\* caught between two of its assignments: snapshot() and mergeLoadedHistory
\* read a node only when TryLock succeeds, and cacheLockedNode follows the last
\* assignment (store_persistence.go).
THEOREM SnapshotsAreWhole == Spec => []NoTornSnapshot
<1>1. Init => WholeInv
  BY SharedInit, WholeInit DEF WholeInv
<1>2. WholeInv /\ [Next]_vars => WholeInv'
  <2> SUFFICES ASSUME WholeInv, [Next]_vars PROVE WholeInv'
    OBVIOUS
  <2>1. Shared'
    BY SharedStep DEF WholeInv
  <2>2. CASE UNCHANGED vars
    BY <2>1, <2>2, Stutter
       DEF WholeInv, TornIsFilled, CopiesWhole, Whole, nodeVars, turnVars, rowVars
  <2>3. ASSUME NEW t \in Turns, Turn(t) PROVE WholeInv'
    BY <2>1, <2>3, WholeTurn DEF WholeInv
  <2>4. CASE Hydrate
    BY <2>1, <2>4, WholeHydrate DEF WholeInv
  <2>5. CASE Persist
    BY <2>1, <2>5, WholePersist DEF WholeInv
  <2>6. CASE WorkerStep \/ BotClose \/ Shutdown
    BY <2>1, <2>6, WholeClose DEF WholeInv
  <2> QED BY <2>2, <2>3, <2>4, <2>5, <2>6, StepKinds
<1>3. WholeInv => NoTornSnapshot
  BY FreeAssumption DEF WholeInv, TornIsFilled, CopiesWhole, Whole, NoTornSnapshot
<1> QED BY <1>1, <1>2, <1>3, PTL DEF Spec

-----------------------------------------------------------------------------
(* A change of the cache is pending until SQLite has it.                   *)

\* Somebody will mark the store dirty, or it is dirty.
Pending(i) == dirty \/ \E t \in Turns : pc[t] \in {"drop", "mark"} /\ id[t] = i

\* The runs the property is about: with Redis the attached backend is not
\* SQLite alone once the hydration has ended.
Regular == ~UseRedis /\ closer = "run"
RedisChains == UseRedis /\ closer = "run" =>
    /\ hyd.at \in {"open", "attach"} => backend = "none"
    /\ hyd.at \in {"merge", "cache", "start", "flush", "send"} /\ hyd.backend # "sqlite"
         => backend # "sqlite"
    /\ hyd.at = "done" => backend # "sqlite"

\* How far hydration, worker and persist() can be relative to each other.
Order ==
    /\ hyd.at \in {"open", "attach", "merge", "cache", "start", "flush", "send",
                   "redis", "done"}
    /\ hyd.at = "open" => backend = "none"
    /\ hyd.at = "attach" => hyd.backend = "sqlite" /\ backend = "none"
    /\ hyd.at \in {"merge", "cache", "start", "flush", "send"} =>
         backend = "sqlite" /\ hyd.backend = "sqlite"
    /\ hasKey <=> backend = "sqlite"
    /\ backend \in {"none", "sqlite"}
    /\ ~hasKey => cache = NoRow /\ \A t \in Turns : pc[t] \notin {"cache", "drop", "mark"}
    /\ worker # "none" => backend = "sqlite" /\ hyd.at \in {"flush", "send", "redis", "done"}
    /\ save.at # "no" => save.backend = "sqlite"
    /\ hyd.at \in {"attach", "merge", "cache", "start"} => hyd.loaded = rows.sqlite

\* Before the rows are merged only turns have filled the cache; before they
\* are cached each has its node.
Loading ==
    /\ hyd.at = "merge" => \A i \in Ids : cache[i] # 0 => Pending(i)
    /\ hyd.at = "cache" => \A i \in Ids \ hyd.live :
         (cache[i] # 0 \/ (hyd.loaded[i] # 0 /\ i \notin present)) => Pending(i)

\* What the next save would change in SQLite.
Unsaved(i) == cache[i] > rows.sqlite[i] \/ (i \notin present /\ rows.sqlite[i] # 0)

\* The save of a hydration that met live nodes is still to be asked for.
Flushed ==
    \/ hyd.at \in {"start", "flush"} /\ hyd.live = {}
    \/ hyd.at \in {"send", "redis", "done"} /\ backend = "sqlite"

Saving ==
    /\ Flushed /\ save.at \in {"no", "swap"} => \A i \in Ids : Unsaved(i) => Pending(i)
    /\ save.at \in {"visit", "saved", "setCache"} =>
         \A i \in Ids \ present : (i \notin save.left /\ save.snap[i] = 0) \/ Pending(i)
    /\ save.at \in {"saved", "setCache"} /\ ~save.failed => rows.sqlite = save.snap
    /\ save.at = "setCache" => ~save.failed
    /\ save.at \in {"no", "swap", "copy", "entries"} => save.snap = NoRow
    /\ save.left # {} => save.at = "visit"
    /\ save.at # "sqlite"

SaveInv == Shared /\ RedisChains /\ (Regular => Order /\ Loading /\ Saving)

LEMMA SaveInit == Init => SaveInv
<1> SUFFICES ASSUME Init PROVE SaveInv
  OBVIOUS
<1>1. Order /\ Loading /\ Saving
  BY DEF Init, Order, Loading, Saving, Flushed, NotSaving
<1>2. RedisChains
  BY DEF Init, RedisChains
<1> QED BY <1>1, <1>2, SharedInit DEF SaveInv

\* What a turn does to the cache and to the map it will make known.
LEMMA TurnPends ==
    ASSUME TypeOK, NEW t \in Turns, Turn(t), NEW i \in Ids
    PROVE  /\ Pending(i) => Pending(i)'
           /\ cache'[i] # cache[i] => Pending(i)'
           /\ hasKey /\ i \notin present' => i \notin present \/ Pending(i)'
           /\ \/ (i \in save'.left <=> i \in save.left) /\ save'.snap[i] = save.snap[i]
              \/ i \in save.left /\ (hasKey => Pending(i)')
           /\ save'.left \subseteq save.left
           /\ save.left = {} => save' = save
<1> USE DEF Goto, KeepPersistence, Pending, TypeOK
<1>1. CASE LockNode(t)
  BY <1>1 DEF LockNode
<1>2. CASE Fill(t)
  BY <1>2 DEF Fill
<1>3. CASE Filled(t)
  BY <1>3 DEF Filled
<1>4. CASE CacheLockedNode(t)
  BY <1>4 DEF CacheLockedNode, nodeVars, Rows
<1>5. CASE DeleteVictim(t)
  <2>1. id' = id /\ dirty' = dirty /\ cache' = cache
    BY <1>5 DEF DeleteVictim
  <2>2. hasKey => pc'[t] = "drop"
    BY <1>5 DEF DeleteVictim
  <2>3. Pending(i) => Pending(i)'
    BY <1>5 DEF DeleteVictim
  <2>4. hasKey => Pending(id[t])'
    BY <2>1, <2>2
  <2>5. i \notin present' => i \notin present \/ i = id[t]
    BY <1>5 DEF DeleteVictim
  <2>6. CASE id[t] \in save.left
    <3>1. PICK v \in {ver[id[t]], save.cache[id[t]]} :
              save' = [save EXCEPT !.left = @ \ {id[t]}, !.snap[id[t]] = v]
      BY <1>5, <2>6 DEF DeleteVictim
    <3>2. save'.left = save.left \ {id[t]} /\ save'.snap = [save.snap EXCEPT ![id[t]] = v]
          /\ save.snap \in Rows
      BY <3>1 DEF SaveType
    <3> QED BY <2>1, <2>3, <2>4, <2>5, <2>6, <3>2 DEF Rows
  <2>7. CASE id[t] \notin save.left
    <3>1. save' = save
      BY <1>5, <2>7 DEF DeleteVictim
    <3> QED BY <2>1, <2>3, <2>4, <2>5, <3>1
  <2> QED BY <2>6, <2>7
<1>6. CASE DeleteCachedSnapshot(t)
  BY <1>6 DEF DeleteCachedSnapshot, nodeVars, Rows
<1>7. CASE MarkDirty(t)
  BY <1>7 DEF MarkDirty, nodeVars
<1>8. CASE Unlock(t)
  BY <1>8 DEF Unlock
<1>9. CASE PersistBestEffort(t)
  BY <1>9 DEF PersistBestEffort, RaiseDirty, nodeVars
<1>10. CASE Send(t)
  BY <1>10 DEF Send, nodeVars
<1> QED BY <1>1, <1>2, <1>3, <1>4, <1>5, <1>6, <1>7, <1>8, <1>9, <1>10 DEF Turn, TurnStep

LEMMA TurnWithoutKey ==
    ASSUME TypeOK, NEW t \in Turns, Turn(t), ~hasKey, cache = NoRow,
           \A u \in Turns : pc[u] \notin {"cache", "drop", "mark"}
    PROVE  cache' = NoRow /\ \A u \in Turns : pc'[u] \notin {"cache", "drop", "mark"}
<1> USE DEF Goto, KeepPersistence, TypeOK
<1>1. CASE LockNode(t)
  <2>1. PICK k \in Kinds : pc' = [pc EXCEPT ![t] = CASE k = "evict" -> "delete"
                      [] k = "read" /\ ver[id[t]] # 0 -> "unlock"
                      [] OTHER -> "fill"]
    BY <1>1 DEF LockNode
  <2>2. pc'[t] \in {"delete", "unlock", "fill"}
    BY <2>1
  <2> QED BY <1>1, <2>1, <2>2 DEF LockNode
<1>2. CASE Fill(t) \/ Filled(t) \/ CacheLockedNode(t) \/ DeleteVictim(t)
  BY <1>2 DEF Fill, Filled, CacheLockedNode, DeleteVictim
<1>3. CASE DeleteCachedSnapshot(t) \/ MarkDirty(t) \/ Unlock(t)
  BY <1>3 DEF DeleteCachedSnapshot, MarkDirty, Unlock
<1>4. CASE PersistBestEffort(t) \/ Send(t)
  BY <1>4 DEF PersistBestEffort, Send
<1> QED BY <1>1, <1>2, <1>3, <1>4 DEF Turn, TurnStep

LEMMA SaveTurn ==
    ASSUME SaveInv, Regular, NEW t \in Turns, Turn(t) PROVE Order' /\ Loading' /\ Saving'
<1>0. /\ TypeOK /\ Order /\ Loading /\ Saving
      /\ UNCHANGED <<closed, backend, hasKey, rows, hyd, worker, closer, id>>
      /\ save'.at = save.at /\ save'.backend = save.backend /\ save'.failed = save.failed
  BY TurnFrame DEF SaveInv, Shared, flagVars, rowVars
<1>1. Order'
  BY <1>0, TurnWithoutKey DEF Order
<1>2. Loading'
  <2>1. hyd.at \in {"merge", "cache"} => hasKey
    BY <1>0 DEF Order
  <2> QED BY <1>0, <2>1, TurnPends DEF Loading
<1>3. (Flushed <=> Flushed') /\ (Flushed => hasKey \/ hyd.live = {}) /\ (hyd.at \in {"start", "flush"} => hasKey)
  BY <1>0 DEF Flushed, Order
<1>4. Flushed' /\ save'.at \in {"no", "swap"} => \A i \in Ids : Unsaved(i)' => Pending(i)'
  <2>1. hasKey \/ ~Flushed
    BY <1>0 DEF Flushed, Order
  <2> QED BY <1>0, <1>3, <2>1, TurnPends DEF Saving, Unsaved
<1>5. save.at # "no" => hasKey
  BY <1>0 DEF SaveInv, Shared, SaveOwner, Regular, Order
<1>6. save'.at \in {"visit", "saved", "setCache"} =>
         \A i \in Ids \ present' : (i \notin save'.left /\ save'.snap[i] = 0) \/ Pending(i)'
  BY <1>0, <1>5, TurnPends DEF Saving
<1>7. save.at # "visit" => save' = save
  <2>1. save.left = {} => save' = save
    <3>1. CASE Ids = {}
      BY <3>1, <1>0 DEF TypeOK
    <3>2. CASE Ids # {}
      BY <1>0, <3>2, TurnPends
    <3> QED BY <3>1, <3>2
  <2> QED BY <1>0, <2>1 DEF Saving
<1>8. Saving'
  BY <1>0, <1>4, <1>6, <1>7 DEF Saving
<1> QED BY <1>1, <1>2, <1>8

LEMMA SaveHydrate ==
    ASSUME SaveInv, Regular, Hydrate PROVE Order' /\ Loading' /\ Saving'
<1> USE DEF HydAt
<1>0. /\ TypeOK /\ Order /\ Loading /\ Saving /\ hyd \in HydType /\ rows \in RowsType
      /\ UNCHANGED <<holder, pc, id, closed, closer, save>> /\ ~closed
  BY HydrateFrame DEF SaveInv, Shared, TypeOK, WorkerLife, Regular
<1>1. CASE OpenSqlite
  <2>1. /\ UNCHANGED <<present, cache, dirty, backend, hasKey, worker>> /\ backend = "none"
        /\ rows'.sqlite = rows.sqlite /\ worker = "none" /\ hyd.at = "open"
    BY <1>0, <1>1 DEF OpenSqlite, flagVars, nodeVars, RowsType, Order
  <2>2. \/ hyd'.at = "attach" /\ hyd'.backend = "sqlite" /\ hyd'.loaded = rows.sqlite
        \/ hyd'.at = "redis"
    BY <1>0, <1>1 DEF OpenSqlite, HydType
  <2>3. Order' /\ Loading'
    BY <1>0, <2>1, <2>2 DEF Order, Loading
  <2>4. ~Flushed'
    BY <2>1, <2>2 DEF Flushed
  <2>5. Saving'
    BY <1>0, <2>1, <2>4 DEF Saving, Pending
  <2> QED BY <2>3, <2>5
<1>2. CASE AttachPersistentBackend
  <2>1. /\ backend = "none" /\ hyd.backend = "sqlite" /\ worker = "none" /\ hyd.at = "attach"
        /\ ~hasKey
    BY <1>0, <1>2 DEF AttachPersistentBackend, Order
  <2>2. /\ UNCHANGED <<present, cache, dirty, rows, worker>> /\ backend' = "sqlite" /\ hasKey'
        /\ hyd'.at = "merge" /\ hyd'.backend = "sqlite" /\ hyd'.loaded = hyd.loaded
    BY <1>0, <1>2, <2>1 DEF AttachPersistentBackend, HydType, nodeVars
  <2>3. Order' /\ Loading'
    BY <1>0, <2>1, <2>2 DEF Order, Loading, NoRow
  <2>4. ~Flushed'
    BY <2>2 DEF Flushed
  <2>5. Saving'
    BY <1>0, <2>2, <2>4 DEF Saving, Pending
  <2> QED BY <2>3, <2>5
<1>3. CASE MergeNodes
  <2>1. /\ hyd.at = "merge" /\ backend = "sqlite" /\ hyd.backend = "sqlite"
    BY <1>0, <1>3 DEF MergeNodes, Order
  <2>2. /\ UNCHANGED <<cache, dirty, backend, hasKey, rows, worker>>
        /\ hyd'.at = "cache" /\ hyd'.backend = "sqlite" /\ hyd'.loaded = hyd.loaded
        /\ present \subseteq present'
        /\ \A i \in Ids : hyd.loaded[i] # 0 => i \in present'
    BY <1>0, <1>3, <2>1 DEF MergeNodes, HydType, flagVars
  <2>3. Order'
    BY <1>0, <2>1, <2>2 DEF Order
  <2>4. Loading'
    BY <1>0, <2>1, <2>2 DEF Loading, Pending
  <2>5. ~Flushed'
    BY <2>2 DEF Flushed
  <2>6. Saving'
    BY <1>0, <2>2, <2>5 DEF Saving, Pending
  <2> QED BY <2>3, <2>4, <2>6
<1>4. CASE MergeCache
  <2>1. /\ hyd.at = "cache" /\ backend = "sqlite" /\ hyd.backend = "sqlite"
        /\ hyd.loaded = rows.sqlite /\ worker = "none"
    BY <1>0, <1>4 DEF MergeCache, Order
  <2>2. /\ UNCHANGED <<present, dirty, backend, hasKey, rows, worker>>
        /\ hyd'.at = "start" /\ hyd'.backend = "sqlite" /\ hyd'.loaded = hyd.loaded
        /\ hyd'.live = hyd.live
    BY <1>0, <1>4, <2>1 DEF MergeCache, HydType, flagVars, nodeVars
  <2>3. \A i \in Ids \ hyd.live : cache'[i] = IF cache[i] = 0 THEN hyd.loaded[i] ELSE cache[i]
    BY <1>4 DEF MergeCache
  <2>4. Order' /\ Loading'
    BY <1>0, <2>1, <2>2 DEF Order, Loading
  <2>5. ASSUME hyd.live = {}, NEW i \in Ids, Unsaved(i)' PROVE Pending(i)
    <3>1. i \in Ids \ hyd.live
      BY <2>5
    <3>2. cache[i] # 0 \/ (hyd.loaded[i] # 0 /\ i \notin present)
      <4>1. rows.sqlite[i] \in Int
        BY <1>0, ReadFields, ReadRows, BoundsAssumption DEF TypeOK
      <4> QED BY <2>1, <2>2, <2>3, <2>5, <3>1, <4>1 DEF Unsaved
    <3> QED BY <1>0, <2>1, <3>1, <3>2 DEF Loading
  <2>6. Flushed' => hyd.live = {}
    BY <2>2 DEF Flushed
  <2>7. Flushed' => \A i \in Ids : Unsaved(i)' => Pending(i)'
    BY <1>0, <2>2, <2>5, <2>6 DEF Pending
  <2>8. Saving'
    BY <1>0, <2>2, <2>7 DEF Saving, Pending
  <2> QED BY <2>4, <2>8
<1>5. CASE StartSaveWorker
  <2>1. hyd.at = "start" /\ backend = "sqlite"
    BY <1>0, <1>5 DEF StartSaveWorker, Order
  <2>2. /\ UNCHANGED <<present, cache, dirty, backend, hasKey, rows>>
        /\ hyd'.at = "flush" /\ hyd'.backend = hyd.backend /\ hyd'.live = hyd.live
    BY <1>0, <1>5 DEF StartSaveWorker, HydType, flagVars, nodeVars
  <2>3. Order' /\ Loading'
    BY <1>0, <2>1, <2>2 DEF Order, Loading
  <2>4. Flushed' => Flushed
    BY <2>1, <2>2 DEF Flushed
  <2>5. Saving'
    BY <1>0, <2>2, <2>4 DEF Saving, Unsaved, Pending
  <2> QED BY <2>3, <2>5
<1>6. CASE AttachFlush
  <2>1. hyd.at = "flush" /\ backend = "sqlite" /\ hyd.backend = "sqlite"
    BY <1>0, <1>6 DEF AttachFlush, Order
  <2>2. /\ UNCHANGED <<present, cache, backend, hasKey, rows, worker>>
        /\ hyd'.at \in {"send", "redis"} /\ hyd'.backend = hyd.backend
        /\ dirty' <=> (hyd.live # {} \/ dirty)
    BY <1>0, <1>6, <2>1 DEF AttachFlush, RaiseDirty, AfterAttach, HydType, flagVars, nodeVars, TypeOK
  <2>3. Order' /\ Loading'
    BY <1>0, <2>1, <2>2 DEF Order, Loading
  <2>4. dirty' \/ Flushed
    BY <2>1, <2>2 DEF Flushed
  <2>5. Saving'
    BY <1>0, <2>2, <2>4 DEF Saving, Unsaved, Pending
  <2> QED BY <2>3, <2>5
<1>7. CASE AttachSend \/ LoadRedis
  <2>1. hyd.at \in {"send", "redis"} /\ hyd'.at \in {"redis", "done"}
    BY <1>0, <1>7 DEF AttachSend, LoadRedis, AfterAttach, HydType, Order, Regular
  <2>2. UNCHANGED <<present, cache, dirty, backend, hasKey, rows, worker>>
    BY <1>7 DEF AttachSend, LoadRedis, flagVars, nodeVars
  <2>3. Order' /\ Loading'
    BY <1>0, <2>1, <2>2 DEF Order, Loading
  <2>4. Flushed' => Flushed
    BY <2>1, <2>2 DEF Flushed
  <2>5. Saving'
    BY <1>0, <2>2, <2>4 DEF Saving, Unsaved, Pending
  <2> QED BY <2>3, <2>5
<1>8. ~CaptureSibling /\ ~WrapHistoryBackend
  BY <1>0 DEF Order, CaptureSibling, WrapHistoryBackend
<1> QED BY <1>1, <1>2, <1>3, <1>4, <1>5, <1>6, <1>7, <1>8 DEF Hydrate

LEMMA SavePersist ==
    ASSUME SaveInv, Regular, Persist PROVE Order' /\ Loading' /\ Saving'
<1>0. /\ TypeOK /\ Order /\ Loading /\ Saving /\ save \in SaveType /\ rows \in RowsType
      /\ UNCHANGED <<present, pc, id, backend, hasKey, hyd>>
      /\ save.at # "no" /\ save.by = "worker" /\ worker = "saving" /\ backend = "sqlite"
      /\ save.backend = "sqlite" /\ hyd.at \in {"flush", "send", "redis", "done"}
  BY PersistFrame DEF SaveInv, Shared, TypeOK, SaveOwner, Regular, Order, nodeVars, turnVars, flagVars
<1>1. Order'
  <2>1. worker' \in {worker, "idle"} /\ (save'.at # "no" => save'.backend = save.backend)
    BY <1>0, PersistKinds
  <2> QED BY <1>0, <2>1 DEF Order
<1>2. Loading' /\ Flushed' = Flushed
  BY <1>0 DEF Loading, Flushed
<1> USE DEF rowVars, Pending
<1>3. ASSUME NEW f, NEW d, PersistEnd(f, d)
      PROVE  save'.at = "no" /\ save'.left = {} /\ save'.snap = NoRow
  BY <1>3 DEF PersistEnd, NotSaving
<1>4. CASE SwapDirty
  <2>1. CASE dirty
    <3>1. /\ save'.at = "copy" /\ save'.left = save.left /\ save'.snap = save.snap
          /\ save.at = "swap"
      BY <1>0, <1>4, <2>1 DEF SwapDirty, SaveType
    <3> QED BY <1>0, <1>1, <1>2, <3>1 DEF Saving
  <2>2. CASE ~dirty
    <3>1. save'.at = "no" /\ save'.left = {} /\ save'.snap = NoRow /\ UNCHANGED <<cache, rows, dirty>> /\ save.at = "swap"
      BY <1>0, <1>3, <1>4, <2>2 DEF SwapDirty, TypeOK
    <3> QED BY <1>0, <1>1, <1>2, <3>1 DEF Saving, Unsaved
  <2> QED BY <2>1, <2>2, <1>0 DEF TypeOK
<1>5. CASE CopyCache
  <2>1. save'.at = "entries" /\ save'.left = save.left /\ save'.snap = save.snap /\ save.at = "copy"
    BY <1>0, <1>5 DEF CopyCache, SaveType
  <2> QED BY <1>0, <1>1, <1>2, <2>1 DEF Saving
<1>6. CASE NodeEntries
  <2>1. save'.at = "visit" /\ save'.left = present /\ save'.snap = save.snap /\ save.at = "entries"
    BY <1>0, <1>6 DEF NodeEntries, SaveType
  <2> QED BY <1>0, <1>1, <1>2, <2>1 DEF Saving, NoRow
<1>7. ASSUME NEW i \in Ids, VisitNode(i) PROVE Saving'
  <2>1. /\ save'.at = "visit" /\ save'.left = save.left \ {i} /\ i \in save.left
        /\ \A j \in Ids \ {i} : save'.snap[j] = save.snap[j]
        /\ dirty' = dirty /\ save.at = "visit"
    BY <1>0, <1>7 DEF VisitNode, SaveType, Rows
  <2> QED BY <1>0, <1>2, <2>1 DEF Saving
<1>8. CASE SaveSqlite
  <2>1. /\ save'.at = "saved" /\ save'.left = save.left /\ save'.snap = save.snap
        /\ save.at = "visit" /\ save.left = {} /\ dirty' = dirty
    BY <1>0, <1>8 DEF SaveSqlite, SaveType, Saving
  <2>2. ~save'.failed => rows'.sqlite = save.snap
    BY <1>0, <1>8 DEF SaveSqlite, SaveType, RowsType
  <2> QED BY <1>0, <1>1, <1>2, <2>1, <2>2 DEF Saving
<1>9. CASE SaveFailed
  <2>1. save'.at = "no" /\ save'.left = {} /\ save'.snap = NoRow /\ dirty'
    BY <1>3, <1>9 DEF SaveFailed
  <2> QED BY <1>0, <1>1, <1>2, <2>1 DEF Saving
<1>10. CASE SaveDone
  <2>1. CASE dirty
    <3>1. save'.at = "no" /\ save'.left = {} /\ save'.snap = NoRow /\ dirty'
      BY <1>3, <1>10, <2>1 DEF SaveDone
    <3> QED BY <1>0, <1>1, <1>2, <3>1 DEF Saving
  <2>2. CASE ~dirty
    <3>1. /\ save'.at = "setCache" /\ save'.left = save.left /\ save'.snap = save.snap
          /\ save'.failed = save.failed /\ ~save.failed /\ save.at = "saved"
          /\ UNCHANGED <<rows, dirty>>
      BY <1>0, <1>10, <2>2 DEF SaveDone, SaveType
    <3> QED BY <1>0, <1>1, <1>2, <3>1 DEF Saving
  <2> QED BY <2>1, <2>2
<1>11. CASE SetSnapshotCache
  <2>1. /\ save'.at = "no" /\ save'.left = {} /\ save'.snap = NoRow /\ UNCHANGED <<rows, dirty>>
        /\ cache' = save.snap /\ rows.sqlite = save.snap /\ save.at = "setCache"
    BY <1>0, <1>3, <1>11 DEF SetSnapshotCache, Saving
  <2>2. \A i \in Ids : ~(cache'[i] > rows'.sqlite[i])
    <3>1. \A i \in Ids : save.snap[i] \in Int
      BY <1>0, ReadFields, ReadRows, BoundsAssumption DEF TypeOK
    <3> QED BY <2>1, <3>1
  <2>3. \A i \in Ids : Unsaved(i)' => Pending(i)'
    BY <1>0, <2>1, <2>2 DEF Saving, Unsaved
  <2> QED BY <1>0, <1>1, <1>2, <2>1, <2>3 DEF Saving
<1>12. ~SaveRedis
  BY <1>0 DEF SaveRedis
<1> QED BY <1>1, <1>2, <1>4, <1>5, <1>6, <1>7, <1>8, <1>9, <1>10, <1>11, <1>12 DEF Persist

LEMMA SaveClose ==
    ASSUME SaveInv, Regular, Regular', WorkerStep \/ BotClose \/ Shutdown
    PROVE  Order' /\ Loading' /\ Saving'
<1>0. /\ TypeOK /\ Order /\ Loading /\ Saving /\ save \in SaveType
      /\ UNCHANGED <<present, pc, id, cache, dirty, hyd>>
      /\ closer = "run" /\ closer' = "run"
  BY CloseFrame DEF SaveInv, Shared, TypeOK, Regular, nodeVars, turnVars
<1>1. WorkerReceive \/ WorkerTimer
  BY <1>0 DEF WorkerStep, WorkerStop, BotClose, Shutdown, Close, StopSaveWorker, WorkerStopped,
              CloseFlush, CloseBackend, ForgetBackend
<1>2. UNCHANGED <<backend, hasKey, rows>> /\ worker # "none"
  BY <1>1 DEF WorkerReceive, WorkerTimer, flagVars
<1>3. \/ save' = save
      \/ /\ save'.at = "swap" /\ save'.backend = "sqlite" /\ save.at = "no"
         /\ save'.left = save.left /\ save'.snap = save.snap
  <2>1. CASE WorkerReceive
    BY <2>1 DEF WorkerReceive
  <2>2. CASE WorkerTimer
    <3>1. save.at = "no" /\ backend = "sqlite"
      BY <1>0, <2>2 DEF WorkerTimer, SaveInv, Shared, SaveOwner, Order
    <3> QED BY <1>0, <2>2, <3>1 DEF WorkerTimer, PersistBegin, SaveType
  <2> QED BY <1>1, <2>1, <2>2
<1>4. Order' /\ Loading'
  BY <1>0, <1>2, <1>3 DEF Order, Loading, Pending
<1>5. Flushed' = Flushed
  BY <1>0, <1>2 DEF Flushed
<1>6. save.at = "no" => save.snap = NoRow
  BY <1>0 DEF Saving
<1>7. Saving'
  BY <1>0, <1>2, <1>3, <1>5, <1>6 DEF Saving, Unsaved, Pending
<1> QED BY <1>4, <1>7

LEMMA ChainsStep == ASSUME SaveInv, [Next]_vars PROVE RedisChains'
<1>0. /\ Shared /\ TypeOK /\ hyd \in HydType
      /\ closed <=> closer \notin {"run", "close"}
  BY DEF SaveInv, Shared, TypeOK, WorkerLife
<1>1. ASSUME NEW t \in Turns, Turn(t) PROVE RedisChains'
  BY <1>0, <1>1, TurnFrame DEF SaveInv, RedisChains, flagVars
<1>2. CASE Hydrate
  <2>1. closer' = closer
    BY <1>2, HydrateFrame
  <2> USE DEF RedisChains, SaveInv, HydAt, flagVars
  <2>2. CASE OpenSqlite
    BY <1>0, <2>1, <2>2 DEF OpenSqlite, HydType
  <2>3. CASE AttachPersistentBackend
    BY <1>0, <2>1, <2>3 DEF AttachPersistentBackend, AfterAttach, HydType
  <2>4. CASE MergeNodes \/ MergeCache \/ StartSaveWorker
    BY <1>0, <2>1, <2>4 DEF MergeNodes, MergeCache, StartSaveWorker, HydType
  <2>5. CASE AttachFlush \/ AttachSend
    BY <1>0, <2>1, <2>5 DEF AttachFlush, AttachSend, AfterAttach, HydType
  <2>6. CASE LoadRedis
    BY <1>0, <2>1, <2>6 DEF LoadRedis, HydType
  <2>7. CASE CaptureSibling
    BY <1>0, <2>1, <2>7 DEF CaptureSibling, HydType
  <2>8. CASE WrapHistoryBackend
    BY <1>0, <2>1, <2>8 DEF WrapHistoryBackend, HydType
  <2> QED BY <1>2, <2>2, <2>3, <2>4, <2>5, <2>6, <2>7, <2>8 DEF Hydrate
<1>3. CASE Persist
  <2>1. UNCHANGED <<hyd, backend>> /\ (closer' = "run" => closer = "run")
    BY <1>0, <1>3, PersistFrame, PersistKinds DEF flagVars
  <2> QED BY <2>1 DEF SaveInv, RedisChains
<1>4. CASE WorkerStep \/ BotClose \/ Shutdown
  <2>1. hyd' = hyd /\ (closer' = "run" => closer = "run" /\ backend' = backend)
    BY <1>4, CloseFrame DEF WorkerStep, WorkerReceive, WorkerTimer, WorkerStop, BotClose,
       Shutdown, Close, StopSaveWorker, WorkerStopped, CloseFlush, CloseBackend,
       ForgetBackend, flagVars
  <2> QED BY <2>1 DEF SaveInv, RedisChains
<1>5. CASE UNCHANGED vars
  BY <1>5, Stutter DEF SaveInv, RedisChains, flagVars
<1> QED BY <1>1, <1>2, <1>3, <1>4, <1>5, StepKinds

\* Nothing undoes bot.close.
LEMMA CloserStays ==
    ASSUME TypeOK, [Next]_vars PROVE closer' = "run" => closer = "run"
<1>1. ASSUME NEW t \in Turns, Turn(t) PROVE closer' = closer
  BY <1>1, TurnFrame
<1>2. CASE Hydrate
  BY <1>2, HydrateFrame
<1>3. CASE Persist
  BY <1>3, PersistKinds
<1>4. CASE WorkerStep \/ BotClose \/ Shutdown
  BY <1>4 DEF WorkerStep, WorkerReceive, WorkerTimer, WorkerStop, BotClose, Shutdown,
     Close, StopSaveWorker, WorkerStopped, CloseFlush, CloseBackend, ForgetBackend
<1>5. CASE UNCHANGED vars
  BY <1>5, Stutter
<1> QED BY <1>1, <1>2, <1>3, <1>4, <1>5, StepKinds

LEMMA SaveStep == SaveInv /\ [Next]_vars => SaveInv'
<1> SUFFICES ASSUME SaveInv, [Next]_vars PROVE SaveInv'
  OBVIOUS
<1>1. Shared' /\ RedisChains'
  BY SharedStep, ChainsStep DEF SaveInv
<1>2. ASSUME Regular' PROVE Order' /\ Loading' /\ Saving'
  <2>1. closer' = "run" => closer = "run"
    BY CloserStays DEF SaveInv, Shared
  <2>2. Regular
    BY <1>2, <2>1 DEF Regular
  <2>3. ASSUME NEW t \in Turns, Turn(t) PROVE Order' /\ Loading' /\ Saving'
    BY <2>2, <2>3, SaveTurn
  <2>4. CASE Hydrate
    BY <2>2, <2>4, SaveHydrate
  <2>5. CASE Persist
    BY <2>2, <2>5, SavePersist
  <2>6. CASE WorkerStep \/ BotClose \/ Shutdown
    BY <1>2, <2>2, <2>6, SaveClose
  <2>7. CASE UNCHANGED vars
    BY <2>2, <2>7, Stutter DEF SaveInv, Order, Loading, Saving, Flushed, Unsaved, Pending,
       nodeVars, turnVars, flagVars, rowVars
  <2> QED BY <2>3, <2>4, <2>5, <2>6, <2>7, StepKinds
<1> QED BY <1>1, <1>2 DEF SaveInv

\* A change of the cache that SQLite has not seen is never forgotten: the flag
\* is raised after the cache is changed and cleared before it is copied, and
\* what is dirtied during the write survives it (store_persistence.go,
\* cacheLockedNode, deleteCachedSnapshot, persist).
THEOREM ChangesStayPending == Spec => []CachedChangeIsPending
<1>1. SaveInv => CachedChangeIsPending
  <2> SUFFICES ASSUME SaveInv, hyd.at = "done", closer = "run", backend = "sqlite",
                      NEW i \in Ids, Behind(i), save.at = "no"
               PROVE  Pending(i)
    BY DEF CachedChangeIsPending, Pending
  <2>1. Regular
    BY DEF SaveInv, RedisChains, Regular
  <2>2. Unsaved(i)
    BY DEF Behind, Unsaved
  <2> QED BY <2>1, <2>2 DEF SaveInv, Saving, Flushed
<1> QED BY <1>1, SaveInit, SaveStep, PTL DEF Spec

-----------------------------------------------------------------------------
(* A row on disk outlives every save until a turn uses its message.        *)

Used(i) == \E t \in Turns : id[t] = i /\ pc[t] # "idle"

\* Where the hydration is and what it attached, while nobody closes.
Attaching ==
    /\ hyd.at = "open" => backend = "none"
    /\ hyd.at = "attach" => backend = "none"
    /\ hyd.at \in {"attach", "merge"} => hyd.backend \in {"sqlite", "redis"}
    /\ hyd.at \in {"merge", "cache", "start", "flush", "send"} => backend = hyd.backend
    /\ hyd.at \in {"redis", "mergeRedis", "cacheRedis", "chain", "wrap"} =>
         backend \in {"none", "sqlite"}
    /\ worker # "none" => backend # "none" /\ hyd.at \notin {"open", "attach", "merge", "cache", "start"}
    /\ hyd.at \in {"attach", "merge"} /\ hyd.backend = "sqlite" => hyd.loaded = rows.sqlite

\* What the save under way will write.
Writes ==
    /\ save.at # "no" => save.backend # "none"
    /\ save.at # "no" /\ save.backend \in OnDisk => backend \in OnDisk
    /\ save.at = "sqlite" => save.backend # "redis"
    /\ save.left # {} => save.at = "visit"

\* A message nobody used has its row as a node, and every save visits it.
Kept(i) ==
    /\ i \in present => ver[i] # 0
    /\ backend \in OnDisk /\ hyd.at # "merge" /\ rows.sqlite[i] # 0 => i \in present
    /\ i \in save.left \/ save.snap[i] # 0 => i \in present
    /\ save.at \in {"visit", "sqlite", "saved", "setCache"} /\ save.backend \in OnDisk
       /\ rows.sqlite[i] # 0 => i \in save.left \/ save.snap[i] # 0

KeepInv ==
    Shared /\ (closer = "run" => Attaching /\ Writes /\ \A i \in Ids : Used(i) \/ Kept(i))

LEMMA KeepInit == Init => KeepInv
<1> SUFFICES ASSUME Init PROVE KeepInv
  OBVIOUS
<1>1. Attaching /\ Writes
  BY DEF Init, Attaching, Writes, NotSaving
<1>2. \A i \in Ids : Kept(i)
  BY DEF Init, Kept, NotSaving, NoRow, OnDisk
<1> QED BY <1>1, <1>2, SharedInit DEF KeepInv

\* A turn changes nothing of a message that is not its own.
LEMMA TurnUses ==
    ASSUME TypeOK, NEW t \in Turns, Turn(t), NEW i \in Ids, ~Used(i)'
    PROVE  /\ ~Used(i) /\ (i \in present' <=> i \in present) /\ ver'[i] = ver[i]
           /\ (i \in save'.left <=> i \in save.left) /\ save'.snap[i] = save.snap[i]
<1> USE DEF Goto, KeepPersistence, TypeOK
<1>1. id' = id /\ (\A u \in Turns \ {t} : pc'[u] = pc[u]) /\ pc'[t] # "idle"
  <2>1. CASE LockNode(t)
    <3>1. PICK k \in Kinds : pc' = [pc EXCEPT ![t] = CASE k = "evict" -> "delete"
                      [] k = "read" /\ ver[id[t]] # 0 -> "unlock"
                      [] OTHER -> "fill"]
      BY <2>1 DEF LockNode
    <3>2. (CASE k = "evict" -> "delete" [] k = "read" /\ ver[id[t]] # 0 -> "unlock"
             [] OTHER -> "fill") \in {"delete", "unlock", "fill"}
      OBVIOUS
    <3> QED BY <2>1, <3>1, <3>2 DEF LockNode
  <2>2. CASE Fill(t) \/ Filled(t) \/ CacheLockedNode(t) \/ DeleteVictim(t)
    BY <2>2 DEF Fill, Filled, CacheLockedNode, DeleteVictim
  <2>3. CASE DeleteCachedSnapshot(t) \/ MarkDirty(t) \/ Unlock(t)
    BY <2>3 DEF DeleteCachedSnapshot, MarkDirty, Unlock
  <2>4. CASE PersistBestEffort(t) \/ Send(t)
    BY <2>4 DEF PersistBestEffort, Send
  <2> QED BY <2>1, <2>2, <2>3, <2>4 DEF Turn, TurnStep
<1>2. id[t] # i /\ ~Used(i)
  BY <1>1 DEF Used
<1>3. CASE DeleteVictim(t)
  <2>1. (i \in present' <=> i \in present) /\ ver'[i] = ver[i]
    BY <1>2, <1>3 DEF DeleteVictim, Rows
  <2>2. CASE id[t] \in save.left
    <3>1. PICK v \in {ver[id[t]], save.cache[id[t]]} :
              save' = [save EXCEPT !.left = @ \ {id[t]}, !.snap[id[t]] = v]
      BY <1>3, <2>2 DEF DeleteVictim
    <3>2. save'.left = save.left \ {id[t]} /\ save'.snap = [save.snap EXCEPT ![id[t]] = v]
          /\ save.snap \in Rows
      BY <3>1 DEF SaveType
    <3> QED BY <1>2, <2>1, <3>2 DEF Rows
  <2>3. CASE id[t] \notin save.left
    BY <1>2, <1>3, <2>1, <2>3 DEF DeleteVictim
  <2> QED BY <2>2, <2>3
<1>4. CASE LockNode(t) \/ Fill(t) \/ Filled(t)
  BY <1>2, <1>4 DEF LockNode, Fill, Filled, Rows
<1>5. CASE CacheLockedNode(t) \/ DeleteCachedSnapshot(t) \/ MarkDirty(t) \/ Unlock(t)
  BY <1>2, <1>5 DEF CacheLockedNode, DeleteCachedSnapshot, MarkDirty, Unlock, nodeVars
<1>6. CASE PersistBestEffort(t) \/ Send(t)
  BY <1>2, <1>6 DEF PersistBestEffort, Send, nodeVars
<1> QED BY <1>3, <1>4, <1>5, <1>6 DEF Turn, TurnStep

LEMMA KeepTurn ==
    ASSUME KeepInv, closer = "run", NEW t \in Turns, Turn(t)
    PROVE  Attaching' /\ Writes' /\ \A i \in Ids : (Used(i) \/ Kept(i))'
<1>0. /\ TypeOK /\ Attaching /\ Writes /\ \A i \in Ids : Used(i) \/ Kept(i)
      /\ UNCHANGED <<backend, rows, hyd, worker>>
      /\ save'.at = save.at /\ save'.backend = save.backend
  BY TurnFrame DEF KeepInv, Shared, flagVars, rowVars
<1>1. ASSUME NEW i \in Ids, ~Used(i)' PROVE Kept(i)'
  BY <1>0, <1>1, TurnUses DEF Kept
<1>2. save.left = {} => save'.left = {}
  BY <1>0, TurnPends DEF TypeOK, SaveType
<1> QED BY <1>0, <1>1, <1>2 DEF Attaching, Writes

LEMMA KeepHydrate ==
    ASSUME KeepInv, closer = "run", Hydrate
    PROVE  Attaching' /\ Writes' /\ \A i \in Ids : (Used(i) \/ Kept(i))'
<1> USE DEF HydAt
<1>0. /\ TypeOK /\ Attaching /\ Writes /\ (\A i \in Ids : Used(i) \/ Kept(i))
      /\ hyd \in HydType /\ rows \in RowsType
      /\ UNCHANGED <<holder, pc, id, closer, save>> /\ ~closed
  BY HydrateFrame DEF KeepInv, Shared, TypeOK, WorkerLife
<1>1. CASE OpenSqlite
  <2>1. UNCHANGED <<present, ver, backend, worker>> /\ rows'.sqlite = rows.sqlite /\ backend = "none"
        /\ worker = "none"
    BY <1>0, <1>1 DEF OpenSqlite, RowsType, Attaching, nodeVars, flagVars
  <2>2. \/ hyd'.at = "attach" /\ hyd'.backend = "sqlite" /\ hyd'.loaded = rows.sqlite
        \/ hyd'.at = "redis"
    BY <1>0, <1>1 DEF OpenSqlite, HydType
  <2> QED BY <1>0, <2>1, <2>2 DEF Attaching, Writes, Kept, Used, OnDisk
<1>2. CASE AttachPersistentBackend
  <2>1. backend = "none" /\ hyd.at = "attach" /\ worker = "none" /\ hyd.backend \in {"sqlite", "redis"}
    BY <1>0, <1>2 DEF AttachPersistentBackend, Attaching
  <2>2. /\ UNCHANGED <<present, ver, rows, worker>> /\ backend' = hyd.backend
        /\ hyd'.at = "merge" /\ hyd'.backend = hyd.backend /\ hyd'.loaded = hyd.loaded
    BY <1>0, <1>2, <2>1 DEF AttachPersistentBackend, HydType, nodeVars
  <2>3. Attaching'
    BY <1>0, <2>1, <2>2 DEF Attaching
  <2>4. Writes'
    BY <1>0, <2>1, <2>2 DEF Writes, OnDisk
  <2>5. \A i \in Ids : (Used(i) \/ Kept(i))'
    BY <1>0, <2>1, <2>2 DEF Kept, Used, Writes, OnDisk
  <2> QED BY <2>3, <2>4, <2>5
<1>3. CASE MergeNodes
  <2>1. /\ UNCHANGED <<backend, rows, worker>> /\ hyd'.backend = hyd.backend
        /\ hyd'.loaded = hyd.loaded
        /\ \/ hyd.at = "merge" /\ hyd'.at = "cache"
           \/ hyd.at = "mergeRedis" /\ hyd'.at = "cacheRedis"
    BY <1>0, <1>3 DEF MergeNodes, HydType, flagVars
  <2>2. \A i \in Ids : /\ i \in present => i \in present' /\ ver'[i] = ver[i]
                       /\ i \in present' /\ i \notin present => ver'[i] # 0
                       /\ hyd.loaded[i] # 0 => i \in present'
    BY <1>0, <1>3 DEF MergeNodes, TypeOK
  <2>3. hyd.at = "merge" /\ backend \in OnDisk => hyd.loaded = rows.sqlite
    <3>1. hyd.at = "merge" /\ backend \in OnDisk => hyd.backend \in OnDisk
      BY <1>0 DEF Attaching
    <3>2. hyd.at = "merge" => hyd.backend # "chained"
      BY <1>0 DEF Attaching
    <3> QED BY <1>0, <3>1, <3>2 DEF Attaching, OnDisk
  <2>4. \A i \in Ids : Kept(i) => Kept(i)'
    BY <1>0, <2>1, <2>2, <2>3 DEF Kept
  <2> QED BY <1>0, <2>1, <2>4 DEF Attaching, Writes, Used
<1>4. CASE MergeCache \/ StartSaveWorker
  <2>1. /\ UNCHANGED <<present, ver, backend, rows>>
        /\ hyd'.backend = hyd.backend
        /\ \/ hyd.at = "cache" /\ hyd'.at = "start" /\ worker' = worker
           \/ hyd.at = "cacheRedis" /\ hyd'.at = "chain" /\ worker' = worker
           \/ hyd.at = "start" /\ hyd'.at = "flush" /\ (worker' # "none" => backend # "none")
    BY <1>0, <1>4 DEF MergeCache, StartSaveWorker, HydType, Attaching, nodeVars, flagVars
  <2> QED BY <1>0, <2>1 DEF Attaching, Writes, Kept, Used
<1>5. CASE AttachFlush \/ AttachSend
  <2>1. /\ UNCHANGED <<present, ver, backend, rows, worker>> /\ hyd'.backend = hyd.backend
        /\ hyd.at \in {"flush", "send"}
        /\ \/ hyd'.at = "send"
           \/ hyd'.at = "redis" /\ hyd.backend = "sqlite"
           \/ hyd'.at = "done"
    BY <1>0, <1>5 DEF AttachFlush, AttachSend, AfterAttach, HydType, nodeVars, flagVars
  <2> QED BY <1>0, <2>1 DEF Attaching, Writes, Kept, Used
<1>6. CASE LoadRedis \/ CaptureSibling
  <2>1. /\ UNCHANGED <<present, ver, backend, rows, worker>> /\ hyd.at \in {"redis", "chain"}
        /\ \/ hyd'.at \in {"mergeRedis", "chain", "wrap", "done"}
           \/ hyd'.at = "attach" /\ hyd'.backend = "redis" /\ backend = "none"
    BY <1>0, <1>6 DEF LoadRedis, CaptureSibling, HydType, nodeVars, flagVars
  <2> QED BY <1>0, <2>1 DEF Attaching, Writes, Kept, Used
<1>7. CASE WrapHistoryBackend
  <2>1. /\ UNCHANGED <<present, ver, worker>> /\ rows'.sqlite = rows.sqlite /\ hyd'.at = "done"
        /\ hyd.at = "wrap" /\ backend \in {"none", "sqlite"}
        /\ backend' = IF backend = "none" THEN "none" ELSE "chained"
    BY <1>0, <1>7 DEF WrapHistoryBackend, HydType, RowsType, Attaching, nodeVars
  <2> QED BY <1>0, <2>1 DEF Attaching, Writes, Kept, Used, OnDisk
<1> QED BY <1>1, <1>2, <1>3, <1>4, <1>5, <1>6, <1>7 DEF Hydrate

LEMMA KeepPersist ==
    ASSUME KeepInv, closer = "run", Persist
    PROVE  /\ Attaching' /\ Writes' /\ \A i \in Ids : (Used(i) \/ Kept(i))'
           /\ \A i \in Ids : rows.sqlite[i] # 0 /\ rows'.sqlite[i] = 0 => Used(i)
<1>0. /\ TypeOK /\ LocksHeld /\ Attaching /\ Writes /\ (\A i \in Ids : Used(i) \/ Kept(i))
      /\ save \in SaveType /\ rows \in RowsType
      /\ UNCHANGED <<present, ver, pc, id, backend, hyd>> /\ save.at # "no"
      /\ hyd.at \notin {"open", "attach", "merge"}
  BY PersistFrame
     DEF KeepInv, Shared, TypeOK, SaveOwner, Attaching, nodeVars, turnVars, flagVars
<1>1. Attaching'
  <2>1. worker' \in {worker, "idle"} /\ (worker' = "idle" => worker = "saving" \/ worker = "idle")
    BY <1>0, PersistKinds DEF KeepInv, Shared, SaveOwner
  <2> QED BY <1>0, <2>1 DEF Attaching
<1> USE DEF rowVars, Used
<1>2. ASSUME NEW f, NEW d, PersistEnd(f, d), rows' = rows
      PROVE  Writes' /\ \A i \in Ids : (Used(i) \/ Kept(i))'
  <2>1. save'.at = "no" /\ save'.left = {} /\ save'.snap = NoRow
    BY <1>2 DEF PersistEnd, NotSaving
  <2> QED BY <1>0, <1>2, <2>1 DEF Writes, Kept, NoRow
<1>3. CASE SwapDirty \/ CopyCache \/ SaveFailed \/ SaveDone \/ SetSnapshotCache
  <2>1. rows' = rows
    BY <1>3 DEF SwapDirty, CopyCache, SaveFailed, SaveDone, SetSnapshotCache
  <2>2. \/ \E f, d : PersistEnd(f, d)
        \/ /\ save'.left = save.left /\ save'.snap = save.snap /\ save'.backend = save.backend
           /\ \/ save.at = "swap" /\ save'.at = "copy"
              \/ save.at = "copy" /\ save'.at = "entries"
              \/ save.at = "saved" /\ save'.at = "setCache"
    BY <1>0, <1>3 DEF SwapDirty, CopyCache, SaveFailed, SaveDone, SetSnapshotCache, SaveType
  <2> QED BY <1>0, <1>1, <1>2, <2>1, <2>2 DEF Writes, Kept
<1>4. CASE NodeEntries
  <2>1. /\ rows' = rows /\ save'.left = present /\ save'.snap = save.snap /\ save'.at = "visit"
        /\ save'.backend = save.backend
    BY <1>0, <1>4 DEF NodeEntries, SaveType
  <2> QED BY <1>0, <1>1, <2>1 DEF Writes, Kept
<1>5. ASSUME NEW j \in Ids, VisitNode(j)
      PROVE  rows' = rows /\ Writes' /\ \A i \in Ids : (Used(i) \/ Kept(i))'
  <2>1. /\ rows' = rows /\ save'.left = save.left \ {j} /\ j \in save.left /\ save'.at = save.at
        /\ save'.snap = [save.snap EXCEPT ![j] = IF holder[j] = Free THEN ver[j] ELSE save.cache[j]]
        /\ save'.backend = save.backend /\ save.snap \in Rows
    BY <1>0, <1>5 DEF VisitNode, SaveType
  <2>2. ~Used(j) => holder[j] = Free
    BY <1>0 DEF LocksHeld, Holding
  <2>3. ASSUME NEW i \in Ids, ~Used(i) PROVE Kept(i)'
    <3>1. CASE i = j
      BY <1>0, <2>1, <2>2, <2>3, <3>1 DEF Kept, Rows
    <3>2. CASE i # j
      <4>1. save'.snap[i] = save.snap[i] /\ (i \in save'.left <=> i \in save.left)
        BY <2>1, <3>2 DEF Rows
      <4> QED BY <1>0, <2>1, <2>3, <4>1 DEF Kept
    <3> QED BY <3>1, <3>2
  <2> QED BY <1>0, <2>1, <2>3 DEF Writes
<1>6. CASE SaveRedis
  <2>1. /\ rows'.sqlite = rows.sqlite /\ save'.left = save.left /\ save'.snap = save.snap
        /\ save'.backend = save.backend /\ save.left = {} /\ save.at = "visit"
        /\ save'.at = IF save.backend = "redis" THEN "saved" ELSE "sqlite"
    BY <1>0, <1>6 DEF SaveRedis, SaveType, RowsType
  <2> QED BY <1>0, <1>1, <2>1 DEF Writes, Kept
<1>7. CASE SaveSqlite
  <2>1. /\ rows'.sqlite \in {rows.sqlite, save.snap} /\ save'.left = save.left
        /\ save'.snap = save.snap /\ save'.backend = save.backend /\ save.left = {}
        /\ save'.at = "saved" /\ save.at \in {"visit", "sqlite"} /\ save.backend \in OnDisk
    BY <1>0, <1>7 DEF SaveSqlite, SaveType, RowsType, Writes, Backends, OnDisk
  <2>2. \A i \in Ids : ~Used(i) /\ rows.sqlite[i] # 0 => save.snap[i] # 0
    BY <1>0, <2>1 DEF Kept
  <2>3. \A i \in Ids : (Used(i) \/ Kept(i))'
    BY <1>0, <2>1, <2>2 DEF Kept
  <2> QED BY <1>0, <1>1, <2>1, <2>2, <2>3 DEF Writes
<1> QED BY <1>1, <1>3, <1>4, <1>5, <1>6, <1>7 DEF Persist

LEMMA KeepClose ==
    ASSUME KeepInv, closer = "run", closer' = "run", WorkerStep \/ BotClose \/ Shutdown
    PROVE  Attaching' /\ Writes' /\ \A i \in Ids : (Used(i) \/ Kept(i))'
<1>0. /\ TypeOK /\ Attaching /\ Writes /\ (\A i \in Ids : Used(i) \/ Kept(i)) /\ save \in SaveType
      /\ UNCHANGED <<present, ver, pc, id, hyd>>
  BY CloseFrame DEF KeepInv, Shared, TypeOK, nodeVars, turnVars
<1>1. WorkerReceive \/ WorkerTimer
  BY DEF WorkerStep, WorkerStop, BotClose, Shutdown, Close, StopSaveWorker, WorkerStopped,
         CloseFlush, CloseBackend, ForgetBackend
<1>2. UNCHANGED <<backend, rows>> /\ worker # "none"
  BY <1>1 DEF WorkerReceive, WorkerTimer, flagVars
<1>3. \/ save' = save
      \/ /\ save'.at = "swap" /\ save'.backend = backend /\ backend # "none"
         /\ save'.left = save.left /\ save'.snap = save.snap /\ save.at = "no"
  <2>1. CASE WorkerReceive
    BY <2>1 DEF WorkerReceive
  <2>2. CASE WorkerTimer
    <3>1. save.at = "no"
      BY <2>2 DEF WorkerTimer, KeepInv, Shared, SaveOwner
    <3> QED BY <1>0, <2>2, <3>1 DEF WorkerTimer, PersistBegin, SaveType
  <2> QED BY <1>1, <2>1, <2>2
<1>4. Attaching' /\ Writes'
  BY <1>0, <1>2, <1>3 DEF Attaching, Writes
<1>5. \A i \in Ids : (Used(i) \/ Kept(i))'
  BY <1>0, <1>2, <1>3 DEF Kept, Used
<1> QED BY <1>4, <1>5

LEMMA KeepStep ==
    ASSUME KeepInv, [Next]_vars
    PROVE  /\ KeepInv'
           /\ closer = "run" =>
                \A i \in Ids : rows.sqlite[i] # 0 /\ rows'.sqlite[i] = 0 => Used(i)
<1>1. Shared' /\ Shared /\ TypeOK /\ rows \in RowsType
  BY SharedStep DEF KeepInv, Shared, TypeOK
<1>2. ASSUME closer' = "run"
      PROVE  Attaching' /\ Writes' /\ \A i \in Ids : (Used(i) \/ Kept(i))'
  <2>1. closer = "run"
    BY <1>1, <1>2, CloserStays
  <2>2. CASE UNCHANGED vars
    BY <2>1, <2>2, Stutter DEF KeepInv, Attaching, Writes, Kept, Used,
       nodeVars, turnVars, flagVars, rowVars
  <2>3. ASSUME NEW t \in Turns, Turn(t)
        PROVE  Attaching' /\ Writes' /\ \A i \in Ids : (Used(i) \/ Kept(i))'
    BY <2>1, <2>3, KeepTurn
  <2>4. CASE Hydrate
    BY <2>1, <2>4, KeepHydrate
  <2>5. CASE Persist
    BY <2>1, <2>5, KeepPersist
  <2>6. CASE WorkerStep \/ BotClose \/ Shutdown
    BY <1>2, <2>1, <2>6, KeepClose
  <2> QED BY <2>2, <2>3, <2>4, <2>5, <2>6, StepKinds
<1>3. ASSUME closer = "run", ~Persist PROVE rows'.sqlite = rows.sqlite
  <2>1. ASSUME NEW t \in Turns, Turn(t) PROVE rows'.sqlite = rows.sqlite
    BY <1>1, <2>1, TurnFrame DEF rowVars
  <2>2. CASE Hydrate
    BY <1>1, <2>2 DEF Hydrate, OpenSqlite, AttachPersistentBackend, MergeNodes, MergeCache,
       StartSaveWorker, AttachFlush, AttachSend, LoadRedis, CaptureSibling,
       WrapHistoryBackend, RowsType
  <2>3. CASE WorkerStep \/ BotClose \/ Shutdown
    BY <1>1, <1>3, <2>3 DEF WorkerStep, WorkerReceive, WorkerTimer, WorkerStop, BotClose,
       Shutdown, Close, StopSaveWorker, WorkerStopped, CloseFlush, CloseBackend, ForgetBackend
  <2>4. CASE UNCHANGED vars
    BY <2>4, Stutter DEF rowVars
  <2> QED BY <1>3, <2>1, <2>2, <2>3, <2>4, StepKinds
<1>4. KeepInv'
  BY <1>1, <1>2 DEF KeepInv
<1>5. closer = "run" =>
         \A i \in Ids : rows.sqlite[i] # 0 /\ rows'.sqlite[i] = 0 => Used(i)
  BY <1>3, KeepPersist
<1> QED BY <1>4, <1>5

\* Until the bot is closed no save drops a row whose message no turn has used:
\* every row was merged into the map before the first save, and each snapshot
\* visits the whole map.
RowsSurviveWhileOpen ==
    [][closer = "run" => \A i \in Ids :
          rows.sqlite[i] # 0 /\ rows'.sqlite[i] = 0 => Used(i)]_vars

\* Whatever the bounds, history on disk is complete until bot.close begins.
THEOREM RowsSurviveUntilClose == Spec => RowsSurviveWhileOpen
<1>1. KeepInv /\ [Next]_vars => KeepInv'
  BY KeepStep
<1>2. KeepInv /\ [Next]_vars =>
        [closer = "run" => \A i \in Ids :
            rows.sqlite[i] # 0 /\ rows'.sqlite[i] = 0 => Used(i)]_vars
  BY KeepStep
<1> QED BY <1>1, <1>2, KeepInit, PTL DEF Spec, RowsSurviveWhileOpen

\* What RowsSurvive's invariant adds: the bot is not closed.
KeptOpen == KeepInv /\ closer = "run"

\* While nobody closes the bot, a row SQLite holds is dropped only on behalf of a
\* turn that uses its message (README.md, "survive restarts").
THEOREM RowsSurvive == ASSUME ~MayClose PROVE Spec => StoredRowsSurvive
<1>1. Init => KeptOpen
  BY KeepInit DEF Init, KeptOpen
<1>2. KeptOpen /\ [Next]_vars => KeptOpen'
  <2> SUFFICES ASSUME KeptOpen, [Next]_vars PROVE closer' = "run"
    BY KeepStep DEF KeptOpen
  <2>1. TypeOK /\ SaveOwner /\ KeepInv /\ closer = "run"
    BY DEF KeptOpen, KeepInv, Shared
  <2>2. ASSUME NEW t \in Turns, Turn(t) PROVE closer' = "run"
    BY <2>1, <2>2, TurnFrame
  <2>3. CASE Hydrate
    BY <2>1, <2>3, HydrateFrame
  <2>4. CASE Persist
    BY <2>1, <2>4, PersistFrame, PersistKinds DEF SaveOwner
  <2>5. CASE WorkerStep \/ BotClose \/ Shutdown
    BY <2>1, <2>5 DEF WorkerStep, WorkerReceive, WorkerTimer, WorkerStop, BotClose,
       Shutdown, Close, StopSaveWorker, WorkerStopped, CloseFlush, CloseBackend, ForgetBackend
  <2>6. CASE UNCHANGED vars
    BY <2>1, <2>6, Stutter
  <2> QED BY <2>1, <2>2, <2>3, <2>4, <2>5, <2>6, StepKinds
<1>3. KeptOpen /\ [Next]_vars =>
        [\A i \in Ids : (rows.sqlite[i] # 0 /\ rows'.sqlite[i] = 0)
           => \E t \in Turns : id[t] = i /\ pc[t] # "idle"]_vars
  BY KeepStep DEF Used, KeptOpen
<1> QED BY <1>1, <1>2, <1>3, PTL DEF Spec, StoredRowsSurvive
=============================================================================
