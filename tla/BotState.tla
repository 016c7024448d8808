------------------------------ MODULE BotState ------------------------------
(***************************************************************************)
(* The operator's selections (internal/app/bot_state_persistence.go, the   *)
(* setters of bot.go and maintenance.go): the commands that change them,   *)
(* the background savers that each command starts, the hydration that      *)
(* wires Redis and then SQLite and restores the stored row, and the flush  *)
(* of bot.close().                                                         *)
(*                                                                         *)
(* The selections are two fields, because they are guarded by two mutexes: *)
(* "model" stands for what modelMu guards, "maint" for the maintenance     *)
(* channels.  A value is a number, Unset the default of a fresh process.   *)
(***************************************************************************)
EXTENDS Integers, FiniteSets

CONSTANTS
    Setters,    \* commands; a command selects the value it is named after
    UseRedis,   \* redis.address is set
    MayClose,   \* bot.close may run
    MaxErrors,  \* bound: saves and loads that fail
    StartRows   \* what SQLite and Redis may hold at the start

Fields == {"model", "maint"}
Unset == 0
NoRow == [f \in Fields |-> -1]      \* os.ErrNotExist
Defaults == [f \in Fields |-> Unset]
Hyd == -1       \* the hydration, as the owner of a saver
Closer == -2    \* bot.close, as the owner of a saver
Savers == Setters \cup {Hyd, Closer}
Free == -3       \* nobody holds the mutex
Backends == {"redis", "sqlite"}

ASSUME SettersAssumption == Setters \subseteq Nat \ {Unset}
ASSUME BoundsAssumption ==
    /\ MaxErrors \in Nat /\ UseRedis \in BOOLEAN /\ MayClose \in BOOLEAN
    /\ StartRows \subseteq [Fields -> Nat] \cup {NoRow}

VARIABLES
    mem,        \* the selections in memory
    gen,        \* botStateGeneration
    backend,    \* botStateBackend: "none", "redis" or "sqlite"
    rows,       \* the stored rows: a function on Backends
    closed,     \* botClosed
    dbOpen,     \* the SQLite handle, which nodes.close() closes
    errors,     \* failures so far
    stale,      \* the backends whose last write failed (for the properties)
    pc, phase,  \* per setter: where it is; when it started (for the properties)
    hyd,        \* the hydration: [at, gen, row]
    closer,     \* where bot.close is
    calm,       \* did it begin with no command and no load under way?
    saveMu,     \* botStateSaveMu: the saver that holds it, or Free
    saver       \* per saver: [at, kind, backend, snap]

memVars == <<mem, gen>>
storeVars == <<rows, errors, stale>>
stateVars == <<memVars, backend, storeVars, closed, dbOpen, pc, phase, hyd, closer,
          calm, saveMu, saver>>

NoSaver == [at |-> "none", kind |-> "async", backend |-> "none", snap |-> Defaults]

StateInit ==
    /\ mem = Defaults /\ gen = 0 /\ backend = "none"
    /\ rows \in [Backends -> StartRows]
    /\ closed = FALSE /\ dbOpen = TRUE /\ errors = 0 /\ stale = {}
    /\ pc = [s \in Setters |-> "idle"] /\ phase = [s \in Setters |-> "never"]
    /\ hyd = [at |-> "redis", gen |-> 0, row |-> NoRow]
    /\ closer = "run" /\ calm = FALSE
    /\ saveMu = Free /\ saver = [p \in Savers |-> NoSaver]

\* A backend call: it succeeds, or it fails while the bound allows it.
Outcomes == {TRUE, errors = MaxErrors}
Count(ok) == errors' = IF ok THEN errors ELSE errors + 1
Mark(ok, b) == stale' = IF ok THEN stale \ {b} ELSE stale \cup {b}

-----------------------------------------------------------------------------
(* The commands.                                                           *)

KeepRest == UNCHANGED <<backend, storeVars, closed, dbOpen, hyd, closer, calm,
                        saveMu>>

\* The setters assign under modelMu or maintenanceMu; stopping maintenance
\* needs a channel that is in maintenance.
Set(s) ==
    /\ pc[s] = "idle"
    /\ \E f \in Fields :
         \E v \in {s} \cup {x \in {Unset} : f = "maint" /\ mem[f] # Unset} :
            mem' = [mem EXCEPT ![f] = v]
    /\ phase' = [phase EXCEPT ![s] = IF closed THEN "closing"
                                     ELSE IF hyd.at = "done" THEN "late" ELSE "early"]
    /\ pc' = [pc EXCEPT ![s] = "count"]
    /\ UNCHANGED <<gen, saver>> /\ KeepRest

\* ... and count the change once the mutex is released.
CountGeneration(s) ==
    /\ pc[s] = "count"
    /\ gen' = gen + 1
    /\ pc' = [pc EXCEPT ![s] = "persist"]
    /\ UNCHANGED <<mem, phase, saver>> /\ KeepRest

\* persistBotStateBestEffort captures the backend, then starts a goroutine.
Start(p, kind, to) ==
    saver' = [saver EXCEPT ![p] = [at |-> "lock", kind |-> kind, backend |-> to,
                                   snap |-> Defaults]]

PersistBestEffort(s) ==
    /\ pc[s] = "persist"
    /\ IF backend = "none" THEN UNCHANGED saver ELSE Start(s, "async", backend)
    /\ pc' = [pc EXCEPT ![s] = "done"]
    /\ UNCHANGED <<memVars, phase>> /\ KeepRest

-----------------------------------------------------------------------------
(* The savers, serialized by botStateSaveMu.                               *)

KeepOthers == UNCHANGED <<memVars, backend, closed, dbOpen, pc, phase, hyd, calm>>
At(p, label) == saver' = [saver EXCEPT ![p].at = label]

\* The end of a save releases the mutex; bot.close goes on.
Finish(p) ==
    /\ saver' = [saver EXCEPT ![p] = NoSaver]
    /\ saveMu' = Free
    /\ closer' = IF p = Closer THEN "nodes" ELSE closer

\* A background saver that comes after bot.close began does nothing.
Lock(p) ==
    /\ saver[p].at = "lock" /\ saveMu = Free
    /\ IF saver[p].kind = "async" /\ closed
       THEN saver' = [saver EXCEPT ![p] = NoSaver] /\ UNCHANGED saveMu
       ELSE At(p, "model") /\ saveMu' = p
    /\ UNCHANGED <<storeVars, closer>> /\ KeepOthers

\* snapshotBotState reads the fields one mutex after the other.
SnapshotField(p) ==
    /\ saver[p].at \in Fields
    /\ saver' = [saver EXCEPT ![p].snap[saver[p].at] = mem[saver[p].at],
                              ![p].at = IF @ = "model" THEN "maint" ELSE "save"]
    /\ UNCHANGED <<storeVars, saveMu, closer>> /\ KeepOthers

\* The captured backend writes the row; a failure is logged by a background
\* saver, and ends the save of bot.close before Redis is reached.
SaveRow(p) ==
    /\ saver[p].at = "save"
    /\ \E ok \in Outcomes :
         LET saved == ok /\ (saver[p].backend = "redis" \/ dbOpen) IN
         /\ rows' = IF saved THEN [rows EXCEPT ![saver[p].backend] = saver[p].snap]
                    ELSE rows
         /\ Count(ok) /\ Mark(saved, saver[p].backend)
         /\ IF \/ saver[p].kind = "direct"
               \/ saver[p].kind = "sync" /\ ~saved
            THEN Finish(p)
            ELSE At(p, "mirror") /\ UNCHANGED <<saveMu, closer>>
    /\ KeepOthers

\* Mutant: only the save of bot.close is mirrored.
Mirror_SyncOnly(p) ==
    /\ saver[p].at = "mirror"
    /\ \E ok \in IF UseRedis THEN Outcomes ELSE {TRUE} :
         /\ rows' = IF UseRedis /\ ok /\ saver[p].kind = "sync"
                    THEN [rows EXCEPT !["redis"] = saver[p].snap] ELSE rows
         /\ Count(ok) /\ IF UseRedis THEN Mark(ok, "redis") ELSE UNCHANGED stale
    /\ Finish(p)
    /\ KeepOthers

\* persistBotStateRedisLocked.
Mirror(p) ==
    /\ saver[p].at = "mirror"
    /\ \E ok \in IF UseRedis THEN Outcomes ELSE {TRUE} :
         /\ rows' = IF UseRedis /\ ok THEN [rows EXCEPT !["redis"] = saver[p].snap]
                    ELSE rows
         /\ Count(ok) /\ IF UseRedis THEN Mark(ok, "redis") ELSE UNCHANGED stale
    /\ Finish(p)
    /\ KeepOthers

-----------------------------------------------------------------------------
(* The hydration goroutine.                                                *)

KeepCommands == UNCHANGED <<gen, rows, stale, closed, dbOpen, pc, phase, closer, calm,
                            saveMu>>
HydDone == [at |-> "done", gen |-> 0, row |-> NoRow]
HydAt(label) == hyd' = IF label = "done" THEN HydDone ELSE [hyd EXCEPT !.at = label]

\* wireRedisBotState, unless bot.close has begun: publish the backend ...
WireRedis ==
    /\ hyd.at = "redis"
    /\ IF UseRedis /\ ~closed
       THEN backend' = "redis" /\ HydAt("loadRedis")
       ELSE HydAt("sqlite") /\ UNCHANGED backend
    /\ UNCHANGED <<mem, errors, saver>> /\ KeepCommands

\* ... and load its row, which is applied whatever was selected meanwhile.
LoadRedis ==
    /\ hyd.at = "loadRedis"
    /\ \E ok \in Outcomes :
         /\ Count(ok)
         /\ hyd' = IF ok /\ rows["redis"] # NoRow
                   THEN [hyd EXCEPT !.at = "model", !.row = rows["redis"]]
                   ELSE [hyd EXCEPT !.at = "sqlite"]
    /\ UNCHANGED <<mem, backend, saver>> /\ KeepCommands

\* applyBotStateSnapshot: one field after the other; a row without maintenance
\* channels keeps those in memory.  backend tells which of the loads it is for.
ApplyField ==
    /\ hyd.at \in Fields
    /\ mem' = IF hyd.at = "maint" /\ hyd.row[hyd.at] = Unset THEN mem
              ELSE [mem EXCEPT ![hyd.at] = hyd.row[hyd.at]]
    /\ HydAt(IF hyd.at = "model" THEN "maint"
             ELSE IF backend = "redis" THEN "sqlite" ELSE "done")
    /\ UNCHANGED <<backend, errors, saver>> /\ KeepCommands

\* wireBotStatePersistence: without a SQLite handle (close() has dropped it)
\* there is nothing to do; else the generation is read, only now.
BeginSqlite ==
    /\ hyd.at = "sqlite"
    /\ hyd' = IF closed \/ ~dbOpen THEN HydDone
              ELSE [hyd EXCEPT !.at = "wire", !.gen = gen]
    /\ UNCHANGED <<mem, backend, errors, saver>> /\ KeepCommands

\* After bot.close began a change made meanwhile is saved at once; before it,
\* the backend is published.
WireSqlite ==
    /\ hyd.at = "wire"
    /\ IF closed
       THEN /\ IF gen # hyd.gen THEN Start(Hyd, "direct", "sqlite")
               ELSE UNCHANGED saver
            /\ HydAt("done") /\ UNCHANGED backend
       ELSE /\ backend' = "sqlite" /\ HydAt("compare") /\ UNCHANGED saver
    /\ UNCHANGED <<mem, errors>> /\ KeepCommands

\* A selection made since wins: it is saved and nothing is loaded.  The same
\* test is made again after the load.
CompareGeneration ==
    /\ hyd.at \in {"compare", "compareAgain"}
    /\ IF gen # hyd.gen
       THEN Start(Hyd, "async", backend) /\ HydAt("done")
       ELSE /\ HydAt(IF hyd.at = "compare" THEN "load" ELSE "model")
            /\ UNCHANGED saver
    /\ UNCHANGED <<mem, backend, errors>> /\ KeepCommands

\* loadPersistedBotState: a missing row and a failed load keep the defaults.
LoadSqlite ==
    /\ hyd.at = "load"
    /\ \E ok \in Outcomes :
         /\ Count(ok)
         /\ hyd' = IF ok /\ dbOpen /\ rows["sqlite"] # NoRow
                   THEN [at |-> "compareAgain", gen |-> gen, row |-> rows["sqlite"]]
                   ELSE HydDone
    /\ UNCHANGED <<mem, backend, saver>> /\ KeepCommands

-----------------------------------------------------------------------------
(* bot.close.                                                              *)

KeepState == UNCHANGED <<memVars, backend, storeVars, pc, phase, hyd, saveMu>>

BotClose ==
    /\ MayClose /\ closer = "run" /\ closer' = "flush"
    /\ closed' = TRUE
    /\ calm' = (hyd.at = "done" /\ \A s \in Setters : pc[s] \in {"idle", "done"})
    /\ UNCHANGED <<dbOpen, saver>> /\ KeepState

\* Mutant: bot.close leaves the flush to the background savers.
PersistSync_Skipped ==
    /\ closer = "flush" /\ closer' = "nodes"
    /\ UNCHANGED <<closed, calm, dbOpen, saver>> /\ KeepState

\* persistBotStateSync.
PersistSync ==
    /\ closer = "flush"
    /\ IF backend = "none" THEN closer' = "nodes" /\ UNCHANGED saver
       ELSE closer' = "saving" /\ Start(Closer, "sync", backend)
    /\ UNCHANGED <<closed, calm, dbOpen>> /\ KeepState

\* nodes.close() closes the SQLite handle, closeRedisClient the other one.
CloseHandles ==
    /\ closer = "nodes" /\ closer' = "done"
    /\ dbOpen' = FALSE
    /\ UNCHANGED <<closed, calm, saver>> /\ KeepState

-----------------------------------------------------------------------------
Command(s) == CountGeneration(s) \/ PersistBestEffort(s)
Save(p) == SnapshotField(p) \/ SaveRow(p) \/ Mirror(p)
Hydrate ==
    \/ WireRedis \/ LoadRedis \/ ApplyField \/ BeginSqlite \/ WireSqlite
    \/ CompareGeneration \/ LoadSqlite
Shutdown == PersistSync \/ CloseHandles

StateNext ==
    \/ \E s \in Setters : Set(s) \/ Command(s)
    \/ \E p \in Savers : Lock(p) \/ Save(p)
    \/ Hydrate \/ BotClose \/ Shutdown

StateSpec == StateInit /\ [][StateNext]_stateVars

-----------------------------------------------------------------------------
Rows == [Fields -> Nat] \cup {NoRow}

\* The type invariant; the mutex is held by the one saver that is past it.
StateTypes ==
    /\ mem \in [Fields -> Nat] /\ gen \in Nat
    /\ backend \in Backends \cup {"none"}
    /\ rows \in [Backends -> Rows]
    /\ closed \in BOOLEAN /\ dbOpen \in BOOLEAN /\ errors \in 0..MaxErrors
    /\ stale \subseteq Backends
    /\ pc \in [Setters -> {"idle", "count", "persist", "done"}]
    /\ phase \in [Setters -> {"never", "early", "late", "closing"}] /\ calm \in BOOLEAN
    /\ hyd \in [at : Fields \cup {"redis", "loadRedis", "sqlite", "wire", "compare",
                                  "load", "compareAgain", "done"},
                gen : Nat, row : Rows]
    /\ hyd.at \in Fields \cup {"compareAgain"} => hyd.row # NoRow
    /\ closer \in {"run", "flush", "saving", "nodes", "done"}
    /\ saveMu \in Savers \cup {Free}
    /\ saver \in [Savers -> [at : Fields \cup {"none", "lock", "save", "mirror"},
                             kind : {"async", "sync", "direct"},
                             backend : Backends \cup {"none"},
                             snap : [Fields -> Nat]]]
    /\ \A p \in Savers : saver[p].at \notin {"none", "lock"} => saveMu = p

Quiet ==
    /\ \A s \in Setters : pc[s] \in {"idle", "done"}
    /\ \A p \in Savers : saver[p].at = "none"
    /\ hyd.at = "done" /\ closer \in {"run", "done"}

\* "The snapshot is taken inside the serialized save, so concurrent mutations
\* converge on the latest state": once everything is at rest, a selection made
\* after the hydration has left both stored rows equal to memory, whatever the
\* order in which the savers ran, unless the last write of one failed.
SavesConverge ==
    (Quiet /\ ~closed /\ backend = "sqlite" /\ \E s \in Setters : phase[s] = "late")
      => \A b \in {"sqlite"} \cup {x \in {"redis"} : UseRedis} :
            b \in stale \/ rows[b] = mem

\* A bot.close that began with no command and no load under way, while the
\* savers of earlier commands may still run, leaves the row equal to memory:
\* no saver that is late to the mutex overwrites what bot.close has flushed.
CloseFlushes ==
    (Quiet /\ closer = "done" /\ backend # "none" /\ calm
        /\ \A s \in Setters : phase[s] # "closing")
      => backend \in stale \/ rows[backend] = mem

\* A stored selection is replaced only by a command for that selection, or not
\* at all: a command that arrives while the row is being loaded, and a close
\* at that time, leave the selections they do not touch on disk.
StoredSelectionsSurvive ==
    [][\A f \in Fields :
          (rows["sqlite"][f] > Unset /\ rows'["sqlite"][f] = Unset)
          => \E s \in Setters : pc[s] # "idle" /\ f = "maint"]_stateVars
=============================================================================
