---------------------------- MODULE BotState_proofs ----------------------------
(***************************************************************************)
(* Theorems about BotState, for any commands, any stored rows and any      *)
(* number of failures, with Redis and without.                             *)
(*                                                                         *)
(* The two properties speak of the state in which nothing is under way.    *)
(* The invariant says what a saver that is still under way owes: whenever  *)
(* a row is behind memory, somebody who will write it has yet to read      *)
(* memory, or has read it and nothing has changed since.                   *)
(***************************************************************************)
EXTENDS BotState, TLAPS

\* A saver that holds the mutex.
Past(p) == saver[p].at \notin {"none", "lock"}

\* What it has read of the selections is what they are.
Fresh(p) ==
    /\ saver[p].at = "maint" => saver[p].snap["model"] = mem["model"]
    /\ saver[p].at \in {"save", "mirror"} => saver[p].snap = mem

\* It has yet to write this backend.
Writes(p, b) ==
    \/ saver[p].at \in Fields \cup {"save"} /\ b = saver[p].backend
    \/ saver[p].at \in Fields \cup {"save", "mirror"} /\ b = "redis"

Reachable == {"sqlite"} \cup {x \in {"redis"} : UseRedis}
Late == \E s \in Setters : phase[s] = "late"
Closing == \E s \in Setters : phase[s] = "closing"

\* Whose saver is which: bot.close's is "sync"; a "direct" one is started by a
\* hydration that finds bot.close begun.
SaversOwned == \A p \in Savers : saver[p].at # "none" =>
    /\ saver[p].backend # "none"
    /\ saver[p].kind = "sync" <=> p = Closer
    /\ saver[p].kind = "direct" => closed /\ ~calm

\* Where bot.close is.
CloseOrder ==
    /\ closer = "run" <=> ~closed
    /\ saver[Closer].at # "none" <=> closer = "saving"
    /\ closer = "saving" => saver[Closer].backend = backend /\ backend # "none"

\* Where the hydration is.
LoadOrder ==
    /\ hyd.at \in {"compare", "load", "compareAgain"} => backend = "sqlite"
    /\ Late => hyd.at = "done"
    /\ calm => closed /\ hyd.at = "done"
    /\ calm /\ ~Closing => \A s \in Setters : pc[s] \in {"idle", "done"}

\* Somebody will read the selections from the start, and write every backend.
Covered ==
    \/ \E s \in Setters : pc[s] \in {"count", "persist"}
    \/ \E p \in Savers : saver[p].at = "lock" /\ saver[p].backend = "sqlite"

\* Each row is as memory is, or its last write failed, or it is yet to be
\* written by one who has read what memory holds.
Current ==
    /\ \A p \in Savers : Fresh(p)
    /\ \A b \in Reachable :
          b \in stale \/ rows[b] = mem \/ \E p \in Savers : Writes(p, b)

Converging == ~closed /\ backend = "sqlite" /\ Late => Covered \/ Current

\* Once bot.close has begun undisturbed: its saver holds what memory holds, and
\* when it is through the row is right and nobody will write it again.
Flushing == calm /\ ~Closing =>
    /\ Fresh(Closer)
    /\ saver[Closer].at = "mirror" => backend \in stale \/ rows[backend] = mem
    /\ closer \in {"nodes", "done"} /\ backend # "none" =>
          (backend \in stale \/ rows[backend] = mem) /\ \A p \in Savers : ~Past(p)

StateInv == StateTypes /\ SaversOwned /\ CloseOrder /\ LoadOrder /\ Converging /\ Flushing

-----------------------------------------------------------------------------
(* The shape of the savers after a step.                                   *)

Labels == Fields \cup {"none", "lock", "save", "mirror"}
SaverType == [at : Labels, kind : {"async", "sync", "direct"},
              backend : Backends \cup {"none"}, snap : [Fields -> Nat]]

\* The owners of savers are distinct.
LEMMA Owners ==
    /\ \A s \in Setters : s \in Savers /\ s # Hyd /\ s # Closer /\ s \in Nat /\ s # Unset
    /\ Hyd \in Savers /\ Closer \in Savers /\ Hyd # Closer /\ Free \notin Savers
BY SettersAssumption DEF Savers, Hyd, Closer, Free, Unset

\* A row that is there holds a selection for each field.
LEMMA RowFields == \A row \in Rows : row # NoRow => row \in [Fields -> Nat]
BY DEF Rows

\* Starting one, moving one on, ending one changes that one alone.
LEMMA StartShape ==
    ASSUME StateTypes, NEW p \in Savers, NEW kind \in {"async", "sync", "direct"},
           NEW to \in Backends \cup {"none"}, Start(p, kind, to)
    PROVE  /\ saver' \in [Savers -> SaverType]
           /\ \A q \in Savers : q # p => saver'[q] = saver[q]
           /\ saver'[p].at = "lock" /\ saver'[p].kind = kind /\ saver'[p].backend = to
BY DEF StateTypes, Start, SaverType, Labels, Defaults, Unset

LEMMA AtShape ==
    ASSUME StateTypes, NEW p \in Savers, NEW label \in Labels, At(p, label)
    PROVE  /\ saver' \in [Savers -> SaverType]
           /\ \A q \in Savers : q # p => saver'[q] = saver[q]
           /\ saver'[p].at = label /\ saver'[p].kind = saver[p].kind
           /\ saver'[p].backend = saver[p].backend /\ saver'[p].snap = saver[p].snap
<1>1. saver \in [Savers -> SaverType]
  BY DEF StateTypes, SaverType, Labels
<1>2. saver' = [saver EXCEPT ![p] = [saver[p] EXCEPT !.at = label]]
  BY DEF At
<1>3. [saver[p] EXCEPT !.at = label] \in SaverType
  BY <1>1 DEF SaverType
<1> QED BY <1>1, <1>2, <1>3 DEF SaverType

LEMMA FinishShape ==
    ASSUME StateTypes, NEW p \in Savers, saver' = [saver EXCEPT ![p] = NoSaver]
    PROVE  /\ saver' \in [Savers -> SaverType]
           /\ \A q \in Savers : q # p => saver'[q] = saver[q]
           /\ saver'[p].at = "none"
BY DEF StateTypes, NoSaver, SaverType, Labels, Defaults, Unset

LEMMA FieldShape ==
    ASSUME StateTypes, NEW p \in Savers, SnapshotField(p)
    PROVE  /\ saver' \in [Savers -> SaverType]
           /\ \A q \in Savers : q # p => saver'[q] = saver[q]
           /\ saver'[p].kind = saver[p].kind /\ saver'[p].backend = saver[p].backend
           /\ \/ /\ saver[p].at = "model" /\ saver'[p].at = "maint"
                 /\ saver'[p].snap["model"] = mem["model"]
              \/ /\ saver[p].at = "maint" /\ saver'[p].at = "save"
                 /\ saver'[p].snap["model"] = saver[p].snap["model"]
                 /\ saver'[p].snap["maint"] = mem["maint"]
<1>1. CASE saver[p].at = "model"
  BY <1>1 DEF StateTypes, SnapshotField, SaverType, Labels, Fields
<1>2. CASE saver[p].at = "maint"
  BY <1>2 DEF StateTypes, SnapshotField, SaverType, Labels, Fields
<1> QED BY <1>1, <1>2 DEF SnapshotField, Fields

\* Only one saver is past the mutex.
LEMMA OnePast == ASSUME StateTypes, NEW p \in Savers, NEW q \in Savers, Past(p), Past(q)
                 PROVE  p = q
BY DEF StateTypes, Past

-----------------------------------------------------------------------------
LEMMA InitStateInv == StateInit => StateInv
<1> SUFFICES ASSUME StateInit PROVE StateInv
  OBVIOUS
<1>1. StateTypes
  <2>1. Defaults \in [Fields -> Nat] /\ NoRow \in Rows /\ StartRows \subseteq Rows
    BY BoundsAssumption DEF Defaults, Unset, Rows
  <2>2. rows \in [Backends -> Rows] /\ errors \in 0..MaxErrors
    BY <2>1, BoundsAssumption DEF StateInit
  <2>3. hyd \in [at : Fields \cup {"redis", "loadRedis", "sqlite", "wire", "compare",
                                   "load", "compareAgain", "done"},
                 gen : Nat, row : Rows]
        /\ hyd.at \notin Fields \cup {"compareAgain"}
    BY <2>1 DEF StateInit, Fields
  <2>4. saver \in [Savers -> [at : Fields \cup {"none", "lock", "save", "mirror"},
                              kind : {"async", "sync", "direct"},
                              backend : Backends \cup {"none"}, snap : [Fields -> Nat]]]
        /\ \A p \in Savers : saver[p].at = "none"
    BY <2>1 DEF StateInit, NoSaver
  <2> QED BY <2>1, <2>2, <2>3, <2>4 DEF StateInit, StateTypes
<1>2. SaversOwned /\ CloseOrder
  BY Owners DEF StateInit, SaversOwned, CloseOrder, NoSaver
<1>3. LoadOrder /\ Converging /\ Flushing
  BY DEF StateInit, LoadOrder, Converging, Flushing, Late
<1> QED BY <1>1, <1>2, <1>3 DEF StateInv

(* The commands.                                                           *)

LEMMA SetKeeps == ASSUME StateInv, NEW s \in Setters, Set(s) PROVE StateInv'
<1> USE DEF StateInv, KeepRest, storeVars
<1>1. mem' \in [Fields -> Nat]
  BY Owners DEF StateTypes, Set, Unset
<1>2. StateTypes'
  BY <1>1 DEF StateTypes, Set
<1>3. SaversOwned' /\ CloseOrder'
  BY DEF SaversOwned, CloseOrder, Set
<1>4. phase' = [phase EXCEPT ![s] = IF closed THEN "closing"
                                    ELSE IF hyd.at = "done" THEN "late" ELSE "early"]
      /\ pc'[s] = "count" /\ UNCHANGED <<closed, calm, hyd, backend>>
  BY DEF Set, StateTypes
<1>5. calm => Closing'
  BY <1>4 DEF LoadOrder, Closing, StateTypes
<1>6. LoadOrder'
  BY <1>4, <1>5 DEF LoadOrder, Late, StateTypes
<1>7. Converging' /\ Flushing'
  BY <1>4, <1>5 DEF Converging, Covered, Flushing
<1> QED BY <1>2, <1>3, <1>6, <1>7

LEMMA CountKeeps == ASSUME StateInv, NEW s \in Setters, CountGeneration(s) PROVE StateInv'
<1> USE DEF StateInv, KeepRest, storeVars
<1>1. StateTypes'
  BY DEF StateTypes, CountGeneration
<1>2. SaversOwned' /\ CloseOrder'
  BY DEF SaversOwned, CloseOrder, CountGeneration
<1>3. pc[s] = "count" /\ pc'[s] = "persist" /\ UNCHANGED <<closed, calm, hyd, backend, phase>>
  BY DEF CountGeneration, StateTypes
<1>4. ~(calm /\ ~Closing) /\ Closing' = Closing
  BY <1>3 DEF LoadOrder, Closing
<1>5. LoadOrder' /\ Converging' /\ Flushing'
  BY <1>3, <1>4 DEF LoadOrder, Late, Converging, Covered, Flushing
<1> QED BY <1>1, <1>2, <1>5

LEMMA PersistKeeps == ASSUME StateInv, NEW s \in Setters, PersistBestEffort(s) PROVE StateInv'
<1> USE DEF StateInv, KeepRest, storeVars, memVars
<1>1. s \in Savers /\ s # Hyd /\ s # Closer
  BY Owners
<1>2. pc[s] = "persist" /\ UNCHANGED <<closed, calm, hyd, backend, phase, closer, saveMu>>
  BY DEF PersistBestEffort
<1>3. ~(calm /\ ~Closing) /\ Closing' = Closing
  BY <1>2 DEF LoadOrder, Closing
<1>4. LoadOrder' /\ Flushing'
  BY <1>2, <1>3 DEF LoadOrder, Late, Flushing
<1>5. CASE backend = "none"
  <2>1. saver' = saver
    BY <1>5 DEF PersistBestEffort
  <2>2. StateTypes'
    BY <2>1 DEF StateTypes, PersistBestEffort
  <2>3. SaversOwned' /\ CloseOrder' /\ Converging'
    BY <1>2, <1>5, <2>1 DEF SaversOwned, CloseOrder, Converging
  <2> QED BY <1>4, <2>2, <2>3
<1>6. CASE backend # "none"
  <2>1. Start(s, "async", backend) /\ backend \in Backends \cup {"none"}
    BY <1>6 DEF PersistBestEffort, StateTypes
  <2>2. /\ saver' \in [Savers -> SaverType]
        /\ \A q \in Savers : q # s => saver'[q] = saver[q]
        /\ saver'[s].at = "lock" /\ saver'[s].kind = "async" /\ saver'[s].backend = backend
    BY <1>1, <2>1, StartShape
  <2>3. StateTypes'
    BY <2>2 DEF StateTypes, PersistBestEffort, SaverType, Labels
  <2>4. SaversOwned' /\ CloseOrder'
    BY <1>1, <1>2, <1>6, <2>2, Owners DEF SaversOwned, CloseOrder
  <2>5. Converging'
    BY <1>1, <1>2, <2>2 DEF Converging, Covered
  <2> QED BY <1>4, <2>3, <2>4, <2>5
<1> QED BY <1>5, <1>6

(* The savers.                                                             *)

LEMMA LockKeeps == ASSUME StateInv, NEW p \in Savers, Lock(p) PROVE StateInv'
<1> USE DEF StateInv, KeepOthers, storeVars, memVars
<1>1. saver[p].at = "lock" /\ saveMu = Free /\ \A q \in Savers : ~Past(q)
  BY Owners DEF Lock, StateTypes, Past
<1>2. UNCHANGED <<mem, gen, backend, rows, stale, errors, closed, dbOpen, pc, phase, hyd, calm, closer>>
  BY DEF Lock
<1>3. LoadOrder' /\ Closing' = Closing /\ Late' = Late
  BY <1>2 DEF LoadOrder, Late, Closing
<1>4. CASE saver[p].kind = "async" /\ closed
  <2>1. saver' = [saver EXCEPT ![p] = NoSaver] /\ saveMu' = saveMu
    BY <1>4 DEF Lock
  <2>2. /\ saver' \in [Savers -> SaverType] /\ saver'[p].at = "none"
        /\ \A q \in Savers : q # p => saver'[q] = saver[q]
    BY <2>1, FinishShape
  <2>3. StateTypes'
    BY <1>2, <2>1, <2>2 DEF StateTypes, SaverType, Labels
  <2>4. p # Closer /\ saver'[Closer] = saver[Closer]
    BY <1>1, <1>4, <2>2, Owners DEF SaversOwned
  <2>5. SaversOwned' /\ CloseOrder'
    BY <1>2, <2>2, <2>4 DEF SaversOwned, CloseOrder
  <2>6. Converging' /\ Flushing'
    BY <1>1, <1>2, <1>3, <1>4, <2>2, <2>4 DEF Converging, Flushing, Fresh, Past
  <2> QED BY <1>3, <2>3, <2>5, <2>6
<1>5. CASE ~(saver[p].kind = "async" /\ closed)
  <2>1. At(p, "model") /\ saveMu' = p
    BY <1>5 DEF Lock
  <2>2. /\ saver' \in [Savers -> SaverType]
        /\ \A q \in Savers : q # p => saver'[q] = saver[q]
        /\ saver'[p].at = "model" /\ saver'[p].kind = saver[p].kind
        /\ saver'[p].backend = saver[p].backend
    BY <2>1, AtShape DEF Labels, Fields
  <2>3. StateTypes'
    BY <1>1, <1>2, <2>1, <2>2 DEF StateTypes, SaverType, Labels, Past
  <2>4. SaversOwned' /\ CloseOrder'
    BY <1>1, <1>2, <2>2, Owners DEF SaversOwned, CloseOrder
  <2>5. \A q \in Savers : Fresh(q)'
    BY <1>1, <2>2 DEF Fresh, Past
  <2>6. Converging'
    <3>1. SUFFICES ASSUME ~closed, backend = "sqlite", Late PROVE Covered' \/ Current'
      BY <1>2, <1>3 DEF Converging
    <3>2. CASE saver[p].backend = "sqlite"
      <4>1. \A b \in Reachable : Writes(p, b)'
        BY <2>2, <3>2 DEF Reachable, Writes, Fields
      <4> QED BY <2>5, <4>1, <1>2 DEF Current, Reachable
    <3>3. CASE saver[p].backend # "sqlite" /\ Covered
      BY <1>2, <2>2, <3>3 DEF Covered
    <3>4. CASE Current
      <4>1. \A q \in Savers : \A b \in Reachable : ~Writes(q, b)
        BY <1>1 DEF Writes, Past, Fields
      <4> QED BY <1>2, <2>5, <3>4, <4>1 DEF Current, Reachable
    <3> QED BY <3>1, <3>2, <3>3, <3>4 DEF Converging
  <2>7. Flushing'
    <3>1. SUFFICES ASSUME calm, ~Closing PROVE Flushing'
      BY <1>2, <1>3 DEF Flushing
    <3>2. p = Closer /\ closer = "saving"
      BY <1>1, <1>5, <3>1, Owners DEF SaversOwned, CloseOrder, LoadOrder, StateTypes
    <3> QED BY <1>2, <2>2, <2>5, <3>2, Owners DEF Flushing
  <2> QED BY <1>3, <2>3, <2>4, <2>6, <2>7
<1> QED BY <1>4, <1>5

\* A saver moves on without changing a row.
LEMMA SnapshotKeeps == ASSUME StateInv, NEW p \in Savers, SnapshotField(p) PROVE StateInv'
<1> USE DEF StateInv, KeepOthers, storeVars, memVars
<1>1. /\ saver' \in [Savers -> SaverType]
      /\ \A q \in Savers : q # p => saver'[q] = saver[q]
      /\ saver'[p].kind = saver[p].kind /\ saver'[p].backend = saver[p].backend
      /\ \/ /\ saver[p].at = "model" /\ saver'[p].at = "maint"
            /\ saver'[p].snap["model"] = mem["model"]
         \/ /\ saver[p].at = "maint" /\ saver'[p].at = "save"
            /\ saver'[p].snap["model"] = saver[p].snap["model"]
            /\ saver'[p].snap["maint"] = mem["maint"]
  BY FieldShape
<1>2. UNCHANGED <<mem, gen, backend, rows, stale, errors, closed, dbOpen, pc, phase, hyd, calm, closer, saveMu>>
  BY DEF SnapshotField
<1>3. LoadOrder' /\ Closing' = Closing /\ Late' = Late
  BY <1>2 DEF LoadOrder, Late, Closing
<1>4. StateTypes'
  <2>1. \A q \in Savers : saver'[q].at \notin {"none", "lock"} => saveMu = q
    BY <1>1 DEF StateTypes
  <2> QED BY <1>1, <1>2, <2>1 DEF StateTypes, SaverType, Labels
<1>5. SaversOwned' /\ CloseOrder'
  BY <1>1, <1>2, Owners DEF SaversOwned, CloseOrder
<1>6. \A q \in Savers : Fresh(q) => Fresh(q)'
  <2>1. Fresh(p) /\ saver[p].at = "maint" => saver'[p].snap = mem
    <3>1. saver'[p].snap \in [Fields -> Nat] /\ mem \in [Fields -> Nat]
      BY <1>1 DEF SaverType, StateTypes
    <3> QED BY <1>1, <3>1 DEF Fresh, Fields
  <2> QED BY <1>1, <1>2, <2>1 DEF Fresh
<1>7. \A q \in Savers : Past(q)' = Past(q) /\ \A b \in Reachable : Writes(q, b) => Writes(q, b)'
  BY <1>1 DEF Past, Writes, Fields, Reachable
<1>8. Covered => Covered'
  BY <1>1, <1>2 DEF Covered
<1>9. Current => Current'
  BY <1>2, <1>6, <1>7 DEF Current, Reachable
<1>10. Converging'
  BY <1>2, <1>3, <1>8, <1>9 DEF Converging
<1>11. Flushing'
  BY <1>1, <1>2, <1>3, <1>6, <1>7, Owners DEF Flushing
<1> QED BY <1>3, <1>4, <1>5, <1>10, <1>11

\* A failure is counted within its bound.
LEMMA CountBounded ==
    ASSUME StateTypes, NEW ok \in Outcomes, Count(ok) PROVE errors' \in 0..MaxErrors
<1>1. ok = TRUE \/ (ok = FALSE /\ errors # MaxErrors)
  BY DEF Outcomes
<1>2. errors' = errors \/ (errors # MaxErrors /\ errors' = errors + 1)
  BY <1>1 DEF Count
<1> QED BY <1>2, BoundsAssumption DEF StateTypes

LEMMA SaveRowKeeps == ASSUME StateInv, NEW p \in Savers, SaveRow(p) PROVE StateInv'
<1> USE DEF StateInv
<1> DEFINE to == saver[p].backend
<1>1. saver[p].at = "save" /\ Past(p) /\ to \in Backends /\ saveMu = p
  BY DEF SaveRow, StateTypes, SaversOwned, Past
<1>2. UNCHANGED <<mem, gen, backend, closed, dbOpen, pc, phase, hyd, calm>>
  BY DEF SaveRow, KeepOthers, memVars
<1>3. PICK ok \in Outcomes, saved \in BOOLEAN :
        /\ rows' = IF saved THEN [rows EXCEPT ![to] = saver[p].snap] ELSE rows
        /\ Count(ok) /\ Mark(saved, to)
        /\ IF saver[p].kind = "direct" \/ (saver[p].kind = "sync" /\ ~saved)
           THEN Finish(p) ELSE At(p, "mirror") /\ UNCHANGED <<saveMu, closer>>
  <2>1. PICK ok \in Outcomes :
          LET saved == ok /\ (saver[p].backend = "redis" \/ dbOpen) IN
          /\ rows' = IF saved THEN [rows EXCEPT ![saver[p].backend] = saver[p].snap]
                     ELSE rows
          /\ Count(ok) /\ Mark(saved, saver[p].backend)
          /\ IF \/ saver[p].kind = "direct"
                \/ saver[p].kind = "sync" /\ ~saved
             THEN Finish(p)
             ELSE At(p, "mirror") /\ UNCHANGED <<saveMu, closer>>
    BY DEF SaveRow
  <2> DEFINE sv == ok /\ (saver[p].backend = "redis" \/ dbOpen)
  <2>2. sv \in BOOLEAN
    BY DEF Outcomes, StateTypes
  <2> QED BY <2>1, <2>2
<1>4. /\ rows' \in [Backends -> Rows]
      /\ \A b \in Backends : rows'[b] = IF saved /\ b = to THEN saver[p].snap ELSE rows[b]
  BY <1>1, <1>3 DEF StateTypes, Rows
<1>5. /\ stale' \subseteq Backends /\ errors' \in 0..MaxErrors
      /\ saved \/ to \in stale'
      /\ \A b \in Backends : b # to => (b \in stale' <=> b \in stale)
  BY <1>1, <1>3, CountBounded DEF StateTypes, Mark
<1>6. /\ saver' \in [Savers -> SaverType]
      /\ \A q \in Savers : q # p => saver'[q] = saver[q] /\ ~Past(q) /\ ~Past(q)'
      /\ \/ /\ saver[p].kind = "direct" \/ (saver[p].kind = "sync" /\ ~saved)
            /\ saver'[p].at = "none" /\ saveMu' = Free
            /\ closer' = IF p = Closer THEN "nodes" ELSE closer
         \/ /\ saver[p].kind # "direct" /\ (saver[p].kind = "sync" => saved)
            /\ saver'[p].at = "mirror" /\ saver'[p].kind = saver[p].kind
            /\ saver'[p].backend = to /\ saver'[p].snap = saver[p].snap
            /\ UNCHANGED <<saveMu, closer>>
  <2>1. CASE saver[p].kind = "direct" \/ (saver[p].kind = "sync" /\ ~saved)
    <3>1. Finish(p)
      BY <1>3, <2>1
    <3> QED BY <1>1, <2>1, <3>1, FinishShape, OnePast DEF Finish, Past
  <2>2. CASE ~(saver[p].kind = "direct" \/ (saver[p].kind = "sync" /\ ~saved))
    <3>1. At(p, "mirror") /\ UNCHANGED <<saveMu, closer>>
      BY <1>3, <2>2
    <3> QED BY <1>1, <2>2, <3>1, AtShape, OnePast DEF Past, Labels
  <2> QED BY <2>1, <2>2
<1> HIDE DEF to
<1>7. StateTypes'
  <2>1. \A q \in Savers : Past(q)' => saveMu' = q
    BY <1>1, <1>6 DEF Past
  <2>2. closer' \in {"run", "flush", "saving", "nodes", "done"} /\ saveMu' \in Savers \cup {Free}
    BY <1>6 DEF StateTypes
  <2> QED BY <1>2, <1>4, <1>5, <1>6, <2>1, <2>2 DEF StateTypes, SaverType, Labels, Past
<1>8. SaversOwned' /\ CloseOrder'
  BY <1>1, <1>2, <1>6, Owners DEF SaversOwned, CloseOrder, to
<1>9. LoadOrder' /\ Closing' = Closing /\ Late' = Late
  BY <1>2 DEF LoadOrder, Late, Closing
<1>10. Converging'
  <2>1. SUFFICES ASSUME ~closed, backend = "sqlite", Late PROVE Covered' \/ Current'
    BY <1>2, <1>9 DEF Converging
  <2>2. Covered => Covered'
    BY <1>1, <1>2, <1>6 DEF Covered
  <2>3. saver[p].kind = "async"
    BY <1>1, <2>1, Owners DEF SaversOwned, CloseOrder, StateTypes
  <2>4. ASSUME Current PROVE Current'
    <3>1. \A q \in Savers : Fresh(q)'
      BY <1>1, <1>2, <1>6, <2>3, <2>4 DEF Current, Fresh
    <3>2. saver[p].snap = mem
      BY <1>1, <2>4 DEF Current, Fresh
    <3>3. ASSUME NEW b \in Reachable
          PROVE  b \in stale' \/ rows'[b] = mem \/ \E q \in Savers : Writes(q, b)'
      <4>1. CASE b = to
        BY <1>1, <1>4, <1>5, <3>2, <4>1
      <4>2. CASE b # to /\ \E q \in Savers : Writes(q, b)
        <5>1. Writes(p, b)
          BY <1>6, <4>2 DEF Writes, Past, Fields
        <5>2. Writes(p, b)'
          BY <1>6, <2>3, <4>2, <5>1 DEF Writes, to
        <5> QED BY <5>2
      <4>3. CASE b # to /\ ~\E q \in Savers : Writes(q, b)
        <5>1. b \in stale \/ rows[b] = mem
          BY <2>4, <4>3 DEF Current
        <5>2. b \in Backends
          BY DEF Reachable, Backends
        <5> QED BY <1>4, <1>5, <4>3, <5>1, <5>2
      <4> QED BY <4>1, <4>2, <4>3
    <3> QED BY <1>2, <3>1, <3>3 DEF Current, Reachable
  <2> QED BY <2>1, <2>2, <2>4 DEF Converging
<1>11. Flushing'
  <2>1. SUFFICES ASSUME calm, ~Closing PROVE Flushing'
    BY <1>2, <1>9 DEF Flushing
  <2>2. CASE p = Closer
    <3>1. saver[p].kind = "sync" /\ to = backend /\ saver[p].snap = mem /\ closer = "saving"
      BY <1>1, <2>1, <2>2 DEF SaversOwned, CloseOrder, Flushing, Fresh, to
    <3>2. backend \in stale' \/ rows'[backend] = mem
      BY <1>1, <1>4, <1>5, <3>1
    <3>3. Fresh(Closer)'
      BY <1>2, <1>6, <2>2, <3>1 DEF Fresh
    <3>4. closer' \in {"nodes", "done"} => \A q \in Savers : ~Past(q)'
      BY <1>6, <3>1 DEF Past
    <3> QED BY <1>2, <3>2, <3>3, <3>4 DEF Flushing
  <2>3. CASE p # Closer
    <3>1. saver'[Closer] = saver[Closer] /\ ~Past(Closer) /\ closer' = closer
      BY <1>6, <2>3, Owners
    <3>2. ~(closer \in {"nodes", "done"} /\ backend # "none")
      BY <1>1, <2>1 DEF Flushing
    <3> QED BY <1>2, <3>1, <3>2 DEF Flushing, Fresh, Past
  <2> QED BY <2>2, <2>3
<1> QED BY <1>7, <1>8, <1>9, <1>10, <1>11

LEMMA MirrorKeeps == ASSUME StateInv, NEW p \in Savers, Mirror(p) PROVE StateInv'
<1> USE DEF StateInv
<1>1. saver[p].at = "mirror" /\ Past(p) /\ saveMu = p
  BY DEF Mirror, StateTypes, Past
<1>2. UNCHANGED <<mem, gen, backend, closed, dbOpen, pc, phase, hyd, calm>>
  BY DEF Mirror, KeepOthers, memVars
<1>3. PICK ok \in BOOLEAN :
        /\ rows' = IF UseRedis /\ ok THEN [rows EXCEPT !["redis"] = saver[p].snap] ELSE rows
        /\ errors' \in 0..MaxErrors
        /\ IF UseRedis THEN Mark(ok, "redis") ELSE UNCHANGED stale
  <2>1. PICK ok \in IF UseRedis THEN Outcomes ELSE {TRUE} :
          /\ rows' = IF UseRedis /\ ok THEN [rows EXCEPT !["redis"] = saver[p].snap] ELSE rows
          /\ Count(ok)
          /\ IF UseRedis THEN Mark(ok, "redis") ELSE UNCHANGED stale
    BY DEF Mirror
  <2>2. ok \in Outcomes /\ ok \in BOOLEAN
    BY <2>1 DEF Outcomes
  <2> QED BY <2>1, <2>2, CountBounded
<1>4. /\ rows' \in [Backends -> Rows]
      /\ \A b \in Backends :
            rows'[b] = IF UseRedis /\ ok /\ b = "redis" THEN saver[p].snap ELSE rows[b]
  <2>1. "redis" \in Backends /\ saver[p].snap \in Rows
    BY DEF Backends, StateTypes, Rows
  <2> QED BY <1>3, <2>1 DEF StateTypes
<1>5. /\ stale' \subseteq Backends
      /\ UseRedis => ok \/ "redis" \in stale'
      /\ \A b \in Backends : ~UseRedis \/ b # "redis" => (b \in stale' <=> b \in stale)
  BY <1>3 DEF StateTypes, Mark, Backends
<1>6. /\ saver' \in [Savers -> SaverType]
      /\ \A q \in Savers : q # p => saver'[q] = saver[q] /\ ~Past(q) /\ ~Past(q)'
      /\ saver'[p].at = "none" /\ saveMu' = Free
      /\ closer' = IF p = Closer THEN "nodes" ELSE closer
  BY <1>1, FinishShape, OnePast DEF Mirror, Finish, Past
<1>7. StateTypes'
  <2>1. \A q \in Savers : ~Past(q)'
    BY <1>6 DEF Past
  <2>2. closer' \in {"run", "flush", "saving", "nodes", "done"} /\ saveMu' \in Savers \cup {Free}
    BY <1>6 DEF StateTypes
  <2> QED BY <1>2, <1>3, <1>4, <1>5, <1>6, <2>1, <2>2 DEF StateTypes, SaverType, Labels, Past
<1>8. SaversOwned' /\ CloseOrder'
  BY <1>1, <1>2, <1>6, Owners DEF SaversOwned, CloseOrder
<1>9. LoadOrder' /\ Closing' = Closing /\ Late' = Late
  BY <1>2 DEF LoadOrder, Late, Closing
\* What one backend comes to, if the mirrored snapshot is what memory holds.
<1>10. ASSUME saver[p].snap = mem, NEW b \in Backends, b \in stale \/ rows[b] = mem
       PROVE  b \in stale' \/ rows'[b] = mem
  BY <1>4, <1>5, <1>10
<1>11. Converging'
  <2>1. Covered => Covered'
    BY <1>1, <1>2, <1>6 DEF Covered
  <2>2. ASSUME Current PROVE Current'
    <3>1. \A q \in Savers : Fresh(q)'
      BY <1>1, <1>2, <1>6, <2>2 DEF Current, Fresh
    <3>2. saver[p].snap = mem
      BY <1>1, <2>2 DEF Current, Fresh
    <3>3. ASSUME NEW b \in Reachable PROVE b \in stale' \/ rows'[b] = mem
      <4>1. b \in Backends /\ (b = "redis" => UseRedis)
        BY DEF Reachable, Backends
      <4>2. CASE b = "redis"
        BY <1>4, <1>5, <3>2, <4>1, <4>2
      <4>3. CASE b # "redis"
        <5>1. ~\E q \in Savers : Writes(q, b)
          BY <1>1, <1>6, <4>3 DEF Writes, Past, Fields
        <5> QED BY <1>10, <2>2, <3>2, <4>1, <5>1 DEF Current
      <4> QED BY <4>2, <4>3
    <3> QED BY <1>2, <3>1, <3>3 DEF Current, Reachable
  <2> QED BY <1>2, <1>9, <2>1, <2>2 DEF Converging
<1>12. Flushing'
  <2>1. SUFFICES ASSUME calm, ~Closing PROVE Flushing'
    BY <1>2, <1>9 DEF Flushing
  <2>2. CASE p = Closer
    <3>1. saver[p].snap = mem /\ (backend \in stale \/ rows[backend] = mem)
      BY <1>1, <2>1, <2>2 DEF Flushing, Fresh
    <3>2. backend \in Backends
      BY <1>1, <2>2 DEF CloseOrder, StateTypes
    <3>3. backend \in stale' \/ rows'[backend] = mem
      BY <1>10, <3>1, <3>2
    <3> QED BY <1>2, <1>6, <2>2, <3>3 DEF Flushing, Fresh, Past
  <2>3. CASE p # Closer
    <3>1. saver'[Closer] = saver[Closer] /\ ~Past(Closer) /\ closer' = closer
      BY <1>6, <2>3, Owners
    <3>2. ~(closer \in {"nodes", "done"} /\ backend # "none")
      BY <1>1, <2>1 DEF Flushing
    <3> QED BY <1>2, <3>1, <3>2 DEF Flushing, Fresh, Past
  <2> QED BY <2>2, <2>3
<1> QED BY <1>7, <1>8, <1>9, <1>11, <1>12

-----------------------------------------------------------------------------
(* The hydration.                                                          *)

\* While it runs, the two properties ask for nothing yet.
LEMMA LoadingKeeps ==
    ASSUME LoadOrder, hyd.at # "done", UNCHANGED <<phase, closed, calm, pc>>
    PROVE  Converging' /\ Flushing' /\ ~calm /\ ~Late /\ ~Late'
BY DEF LoadOrder, Late, Converging, Flushing

\* A step that starts no saver and publishes no backend.
LEMMA LoadStepKeeps ==
    ASSUME StateInv, hyd.at # "done", StateTypes',
           UNCHANGED <<backend, closed, phase, closer, calm, pc, saver>>,
           hyd'.at \in {"compare", "load", "compareAgain"} => backend = "sqlite"
    PROVE  StateInv'
<1> USE DEF StateInv
<1>1. Converging' /\ Flushing' /\ ~calm /\ ~Late /\ ~Late'
  BY LoadingKeeps
<1>2. SaversOwned' /\ CloseOrder'
  BY DEF SaversOwned, CloseOrder
<1>3. LoadOrder'
  BY <1>1 DEF LoadOrder
<1> QED BY <1>1, <1>2, <1>3

LEMMA WireRedisKeeps == ASSUME StateInv, WireRedis PROVE StateInv'
<1> USE DEF StateInv, KeepCommands
<1>1. CASE UseRedis /\ ~closed
  <2>1. backend' = "redis" /\ hyd' = [hyd EXCEPT !.at = "loadRedis"]
    BY <1>1 DEF WireRedis, HydAt
  <2>2. UNCHANGED <<phase, closed, calm, pc, closer, saver>> /\ hyd.at # "done"
    BY DEF WireRedis
  <2>3. Converging' /\ Flushing' /\ ~calm /\ ~Late /\ ~Late'
    BY <2>2, LoadingKeeps
  <2>4. hyd'.at = "loadRedis" /\ StateTypes'
    BY <2>1 DEF WireRedis, StateTypes, Backends, Fields
  <2>5. SaversOwned' /\ CloseOrder'
    BY <1>1, <2>2 DEF SaversOwned, CloseOrder
  <2>6. LoadOrder'
    BY <2>2, <2>3, <2>4 DEF LoadOrder
  <2> QED BY <2>3, <2>4, <2>5, <2>6
<1>2. CASE ~(UseRedis /\ ~closed)
  <2>1. backend' = backend /\ hyd' = [hyd EXCEPT !.at = "sqlite"]
    BY <1>2 DEF WireRedis, HydAt
  <2>2. hyd'.at = "sqlite" /\ StateTypes'
    BY <2>1 DEF WireRedis, StateTypes, Fields
  <2> QED BY <2>1, <2>2, LoadStepKeeps DEF WireRedis
<1> QED BY <1>1, <1>2

LEMMA LoadRedisKeeps == ASSUME StateInv, LoadRedis PROVE StateInv'
<1> USE DEF StateInv, KeepCommands
<1>1. PICK ok \in Outcomes :
        /\ Count(ok)
        /\ hyd' = IF ok /\ rows["redis"] # NoRow
                  THEN [hyd EXCEPT !.at = "model", !.row = rows["redis"]]
                  ELSE [hyd EXCEPT !.at = "sqlite"]
  BY DEF LoadRedis
<1>2. errors' \in 0..MaxErrors
  BY <1>1, CountBounded
<1>3. rows["redis"] \in Rows
  BY DEF StateTypes, Backends
<1>4. hyd'.at \in {"model", "sqlite"} /\ StateTypes'
  <2>1. CASE ok /\ rows["redis"] # NoRow
    <3>1. hyd' = [hyd EXCEPT !.at = "model", !.row = rows["redis"]]
      BY <1>1, <2>1
    <3> QED BY <1>2, <1>3, <2>1, <3>1 DEF LoadRedis, StateTypes, Fields
  <2>2. CASE ~(ok /\ rows["redis"] # NoRow)
    <3>1. hyd' = [hyd EXCEPT !.at = "sqlite"]
      BY <1>1, <2>2
    <3> QED BY <1>2, <3>1 DEF LoadRedis, StateTypes, Fields
  <2> QED BY <2>1, <2>2
<1> QED BY <1>4, LoadStepKeeps DEF LoadRedis

LEMMA DoneType == HydDone \in [at : {"done"}, gen : Nat, row : Rows]
BY DEF HydDone, Rows

LEMMA ApplyKeeps == ASSUME StateInv, ApplyField PROVE StateInv'
<1> USE DEF StateInv, KeepCommands
<1>1. hyd.at \in Fields /\ hyd.row \in [Fields -> Nat]
  BY RowFields DEF ApplyField, StateTypes
<1>2. mem' \in [Fields -> Nat]
  BY <1>1 DEF ApplyField, StateTypes
<1>3. HydAt("maint") \/ HydAt("sqlite") \/ HydAt("done")
  BY DEF ApplyField
<1>4. hyd'.at \in {"maint", "sqlite", "done"} /\ StateTypes'
  <2>1. CASE HydAt("maint")
    <3>1. hyd' = [hyd EXCEPT !.at = "maint"] /\ hyd.row # NoRow
      BY <1>1, <2>1 DEF HydAt, StateTypes
    <3> QED BY <1>2, <3>1 DEF ApplyField, StateTypes, Fields
  <2>2. CASE HydAt("sqlite")
    <3>1. hyd' = [hyd EXCEPT !.at = "sqlite"]
      BY <2>2 DEF HydAt
    <3> QED BY <1>2, <3>1 DEF ApplyField, StateTypes, Fields
  <2>3. CASE HydAt("done")
    <3>1. hyd' = HydDone
      BY <2>3 DEF HydAt
    <3> QED BY <1>2, <3>1, DoneType DEF ApplyField, StateTypes, Fields, HydDone
  <2> QED BY <1>3, <2>1, <2>2, <2>3
<1>5. hyd.at # "done"
  BY <1>1 DEF Fields
<1> QED BY <1>4, <1>5, LoadStepKeeps DEF ApplyField

LEMMA BeginKeeps == ASSUME StateInv, BeginSqlite PROVE StateInv'
<1> USE DEF StateInv, KeepCommands
<1>1. hyd'.at \in {"done", "wire"} /\ StateTypes'
  <2>1. CASE closed \/ ~dbOpen
    <3>1. hyd' = HydDone
      BY <2>1 DEF BeginSqlite
    <3> QED BY <3>1, DoneType DEF BeginSqlite, StateTypes, Fields, HydDone
  <2>2. CASE ~(closed \/ ~dbOpen)
    <3>1. hyd' = [hyd EXCEPT !.at = "wire", !.gen = gen]
      BY <2>2 DEF BeginSqlite
    <3> QED BY <3>1 DEF BeginSqlite, StateTypes, Fields
  <2> QED BY <2>1, <2>2
<1> QED BY <1>1, LoadStepKeeps DEF BeginSqlite

\* The step that ends the hydration and leaves a saver behind.
LEMMA HydSaverKeeps ==
    ASSUME StateInv, hyd.at # "done", hyd' = HydDone,
           NEW kind \in {"async", "direct"}, kind = "direct" => closed,
           Start(Hyd, kind, "sqlite"), KeepCommands, UNCHANGED <<mem, backend, errors>>
    PROVE  StateInv'
<1> USE DEF StateInv, KeepCommands
<1>1. Converging' /\ Flushing' /\ ~calm /\ ~Late /\ ~Late'
  BY LoadingKeeps
<1>2. /\ saver' \in [Savers -> SaverType]
      /\ \A q \in Savers : q # Hyd => saver'[q] = saver[q]
      /\ saver'[Hyd].at = "lock" /\ saver'[Hyd].kind = kind /\ saver'[Hyd].backend = "sqlite"
  BY StartShape, Owners DEF Backends
<1>3. hyd'.at = "done"
  BY DEF HydDone
<1>4. StateTypes'
  BY <1>2, <1>3, DoneType DEF StateTypes, SaverType, Labels, Fields
<1>5. SaversOwned' /\ CloseOrder'
  BY <1>1, <1>2, Owners DEF SaversOwned, CloseOrder
<1>6. LoadOrder'
  BY <1>1, <1>3 DEF LoadOrder
<1> QED BY <1>1, <1>4, <1>5, <1>6

LEMMA WireSqliteKeeps == ASSUME StateInv, WireSqlite PROVE StateInv'
<1> USE DEF StateInv, KeepCommands
<1>1. CASE closed /\ gen # hyd.gen
  <2>1. Start(Hyd, "direct", "sqlite") /\ hyd' = HydDone /\ backend' = backend
    BY <1>1 DEF WireSqlite, HydAt
  <2> QED BY <1>1, <2>1, HydSaverKeeps DEF WireSqlite
<1>2. CASE closed /\ gen = hyd.gen
  <2>1. hyd' = HydDone /\ UNCHANGED <<backend, saver>>
    BY <1>2 DEF WireSqlite, HydAt
  <2>2. hyd'.at = "done" /\ StateTypes'
    BY <2>1, DoneType DEF WireSqlite, StateTypes, Fields, HydDone
  <2> QED BY <2>1, <2>2, LoadStepKeeps DEF WireSqlite
<1>3. CASE ~closed
  <2>1. backend' = "sqlite" /\ hyd' = [hyd EXCEPT !.at = "compare"] /\ saver' = saver
    BY <1>3 DEF WireSqlite, HydAt
  <2>2. UNCHANGED <<phase, closed, calm, pc, closer>> /\ hyd.at # "done"
    BY DEF WireSqlite
  <2>3. Converging' /\ Flushing' /\ ~calm /\ ~Late /\ ~Late'
    BY <2>2, LoadingKeeps
  <2>4. hyd'.at = "compare" /\ StateTypes'
    BY <2>1 DEF WireSqlite, StateTypes, Backends, Fields
  <2>5. SaversOwned' /\ CloseOrder' /\ LoadOrder'
    BY <1>3, <2>1, <2>2, <2>3 DEF SaversOwned, CloseOrder, LoadOrder
  <2> QED BY <2>3, <2>4, <2>5
<1> QED BY <1>1, <1>2, <1>3 DEF StateTypes

LEMMA CompareKeeps == ASSUME StateInv, CompareGeneration PROVE StateInv'
<1> USE DEF StateInv, KeepCommands
<1>1. backend = "sqlite" /\ hyd.at # "done"
  BY DEF CompareGeneration, LoadOrder
<1>2. CASE gen # hyd.gen
  <2>1. Start(Hyd, "async", "sqlite") /\ hyd' = HydDone
    BY <1>1, <1>2 DEF CompareGeneration, HydAt
  <2> QED BY <1>1, <2>1, HydSaverKeeps DEF CompareGeneration
<1>3. CASE gen = hyd.gen
  <2>1. hyd' = [hyd EXCEPT !.at = IF hyd.at = "compare" THEN "load" ELSE "model"] /\ saver' = saver
    BY <1>3 DEF CompareGeneration, HydAt
  <2>2. StateTypes'
    BY <2>1 DEF CompareGeneration, StateTypes, Fields
  <2> QED BY <1>1, <2>1, <2>2, LoadStepKeeps DEF CompareGeneration
<1> QED BY <1>2, <1>3

LEMMA LoadSqliteKeeps == ASSUME StateInv, LoadSqlite PROVE StateInv'
<1> USE DEF StateInv, KeepCommands
<1>1. PICK ok \in Outcomes :
        /\ Count(ok)
        /\ hyd' = IF ok /\ dbOpen /\ rows["sqlite"] # NoRow
                  THEN [at |-> "compareAgain", gen |-> gen, row |-> rows["sqlite"]]
                  ELSE HydDone
  BY DEF LoadSqlite
<1>2. errors' \in 0..MaxErrors
  BY <1>1, CountBounded
<1>3. rows["sqlite"] \in Rows
  BY DEF StateTypes, Backends
<1>4. hyd'.at \in {"compareAgain", "done"} /\ StateTypes'
  <2>1. CASE ok /\ dbOpen /\ rows["sqlite"] # NoRow
    <3>1. hyd' = [at |-> "compareAgain", gen |-> gen, row |-> rows["sqlite"]]
      BY <1>1, <2>1
    <3> QED BY <1>2, <1>3, <2>1, <3>1 DEF LoadSqlite, StateTypes, Fields
  <2>2. CASE ~(ok /\ dbOpen /\ rows["sqlite"] # NoRow)
    <3>1. hyd' = HydDone
      BY <1>1, <2>2
    <3> QED BY <1>2, <3>1, DoneType DEF LoadSqlite, StateTypes, Fields, HydDone
  <2> QED BY <2>1, <2>2
<1>5. backend = "sqlite"
  BY DEF LoadSqlite, LoadOrder
<1> QED BY <1>4, <1>5, LoadStepKeeps DEF LoadSqlite

-----------------------------------------------------------------------------
(* bot.close.                                                              *)

LEMMA BotCloseKeeps == ASSUME StateInv, BotClose PROVE StateInv'
<1> USE DEF StateInv, KeepState, memVars, storeVars
<1>1. UNCHANGED <<mem, backend, rows, stale, pc, phase, hyd, saver>> /\ ~closed
  BY DEF BotClose, CloseOrder
<1>2. closed' /\ closer' = "flush" /\ saver[Closer].at = "none"
      /\ (calm' => hyd.at = "done" /\ \A s \in Setters : pc[s] \in {"idle", "done"})
  BY DEF BotClose, CloseOrder
<1>3. StateTypes'
  BY DEF BotClose, StateTypes
<1>4. SaversOwned' /\ CloseOrder'
  BY <1>1, <1>2 DEF SaversOwned, CloseOrder
<1>5. LoadOrder' /\ Converging'
  BY <1>1, <1>2 DEF LoadOrder, Late, Closing, Converging
<1>6. Flushing'
  BY <1>1, <1>2 DEF Flushing, Fresh
<1> QED BY <1>3, <1>4, <1>5, <1>6

LEMMA PersistSyncKeeps == ASSUME StateInv, PersistSync PROVE StateInv'
<1> USE DEF StateInv, KeepState, memVars, storeVars
<1>1. UNCHANGED <<mem, backend, rows, stale, pc, phase, hyd, closed, calm>> /\ closed
      /\ closer = "flush"
  BY DEF PersistSync, CloseOrder, StateTypes
<1>2. LoadOrder' /\ Converging' /\ Closing' = Closing
  BY <1>1 DEF LoadOrder, Late, Closing, Converging
<1>3. CASE backend = "none"
  <2>1. closer' = "nodes" /\ saver' = saver
    BY <1>3 DEF PersistSync
  <2>2. StateTypes'
    BY <2>1 DEF PersistSync, StateTypes
  <2>3. SaversOwned' /\ CloseOrder' /\ Flushing'
    BY <1>1, <1>2, <1>3, <2>1 DEF SaversOwned, CloseOrder, Flushing, Fresh
  <2> QED BY <1>2, <2>2, <2>3
<1>4. CASE backend # "none"
  <2>1. closer' = "saving" /\ Start(Closer, "sync", backend)
    BY <1>4 DEF PersistSync
  <2>2. /\ saver' \in [Savers -> SaverType]
        /\ \A q \in Savers : q # Closer => saver'[q] = saver[q]
        /\ saver'[Closer].at = "lock" /\ saver'[Closer].kind = "sync"
        /\ saver'[Closer].backend = backend
    BY <2>1, StartShape, Owners DEF StateTypes
  <2>3. StateTypes'
    BY <2>1, <2>2 DEF PersistSync, StateTypes, SaverType, Labels
  <2>4. SaversOwned' /\ CloseOrder'
    BY <1>1, <1>4, <2>1, <2>2 DEF SaversOwned, CloseOrder
  <2>5. Flushing'
    BY <2>1, <2>2 DEF Flushing, Fresh
  <2> QED BY <1>2, <2>3, <2>4, <2>5
<1> QED BY <1>3, <1>4

LEMMA CloseHandlesKeeps == ASSUME StateInv, CloseHandles PROVE StateInv'
<1> USE DEF StateInv, KeepState, memVars, storeVars
<1>1. UNCHANGED <<mem, backend, rows, stale, pc, phase, hyd, closed, calm, saver>>
      /\ closer = "nodes" /\ closer' = "done"
  BY DEF CloseHandles
<1>2. StateTypes'
  BY DEF CloseHandles, StateTypes
<1>3. SaversOwned' /\ CloseOrder' /\ LoadOrder' /\ Converging'
  BY <1>1 DEF SaversOwned, CloseOrder, LoadOrder, Late, Closing, Converging
<1>4. Flushing'
  BY <1>1 DEF Flushing, Fresh, Closing, Past
<1> QED BY <1>2, <1>3, <1>4

-----------------------------------------------------------------------------
LEMMA StillKeeps == ASSUME StateInv, UNCHANGED stateVars PROVE StateInv'
<1> USE DEF StateInv, stateVars, memVars, storeVars
<1>1. StateTypes' /\ SaversOwned' /\ CloseOrder' /\ LoadOrder'
  BY DEF StateTypes, SaversOwned, CloseOrder, LoadOrder, Late, Closing
<1>2. Converging'
  BY DEF Converging, Late, Covered, Current, Fresh, Writes
<1>3. Flushing'
  BY DEF Flushing, Closing, Fresh, Past
<1> QED BY <1>1, <1>2, <1>3

LEMMA StepStateInv == StateInv /\ [StateNext]_stateVars => StateInv'
<1> SUFFICES ASSUME StateInv, [StateNext]_stateVars PROVE StateInv'
  OBVIOUS
<1>1. ASSUME NEW s \in Setters, Set(s) \/ Command(s) PROVE StateInv'
  BY <1>1, SetKeeps, CountKeeps, PersistKeeps DEF Command
<1>2. ASSUME NEW p \in Savers, Lock(p) \/ Save(p) PROVE StateInv'
  BY <1>2, LockKeeps, SnapshotKeeps, SaveRowKeeps, MirrorKeeps DEF Save
<1>3. ASSUME Hydrate PROVE StateInv'
  BY <1>3, WireRedisKeeps, LoadRedisKeeps, ApplyKeeps, BeginKeeps, WireSqliteKeeps,
     CompareKeeps, LoadSqliteKeeps DEF Hydrate
<1>4. ASSUME BotClose \/ Shutdown PROVE StateInv'
  BY <1>4, BotCloseKeeps, PersistSyncKeeps, CloseHandlesKeeps DEF Shutdown
<1> QED BY <1>1, <1>2, <1>3, <1>4, StillKeeps DEF StateNext

\* Whatever the commands, the savers, the hydration and bot.close do, the
\* invariant holds.
LEMMA StateInvHolds == StateSpec => []StateInv
<1>1. StateInv /\ [StateNext]_stateVars => StateInv'
  BY StepStateInv
<1> QED BY <1>1, InitStateInv, PTL DEF StateSpec

\* Each variable keeps its type, and botStateSaveMu is held by the one saver
\* that is past it (bot_state_persistence.go:320).
THEOREM StateTypesHold == StateSpec => []StateTypes
<1>1. StateInv => StateTypes
  BY DEF StateInv
<1> QED BY <1>1, StateInvHolds, PTL

\* When nothing is under way, a selection made after the hydration is in every
\* backend that is reached, unless its last write failed: persistBotState reads
\* the selections inside the serialized save, so the last saver to read has
\* read the last change, for any number of commands.
THEOREM SelectionsConverge == StateSpec => []SavesConverge
<1>1. StateInv => SavesConverge
  <2> SUFFICES ASSUME StateInv, Quiet, ~closed, backend = "sqlite", Late,
                      NEW b \in {"sqlite"} \cup {x \in {"redis"} : UseRedis}
               PROVE  b \in stale \/ rows[b] = mem
    BY DEF SavesConverge, Late
  <2>1. ~Covered
    BY DEF Quiet, Covered
  <2>2. Current /\ b \in Reachable
    BY <2>1 DEF StateInv, Converging, Reachable
  <2>3. ~\E p \in Savers : Writes(p, b)
    BY DEF Quiet, Writes, Fields
  <2> QED BY <2>2, <2>3 DEF Current
<1> QED BY <1>1, StateInvHolds, PTL

\* A bot.close that meets no command and no load leaves the row as memory is:
\* the savers that wait for the mutex see botClosed and write nothing, the one
\* that holds it is done before persistBotStateSync reads.
THEOREM SelectionsFlushed == StateSpec => []CloseFlushes
<1>1. StateInv => CloseFlushes
  BY DEF StateInv, Flushing, Closing, CloseFlushes
<1> QED BY <1>1, StateInvHolds, PTL
=============================================================================
