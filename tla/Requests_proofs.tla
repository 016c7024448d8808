---------------------------- MODULE Requests_proofs ----------------------------
(***************************************************************************)
(* Theorems about five components that MC_Requests checks.                 *)
(*                                                                         *)
(* BoundedTasks: the task pool runs each task once, for every number of    *)
(* tasks and of workers.  The invariant that carries it accounts for the   *)
(* counter: what was taken from it is in a worker's hands or has a result. *)
(*                                                                         *)
(* GistButton: all who press the gist button of one node are told one      *)
(* gist, for any number of presses and tokens.  What was told is still the *)
(* node's URL: it is written only where there was none.                    *)
(*                                                                         *)
(* MessageGate: /maintenance and the handlers of messages lose nothing,    *)
(* for any commands and messages.  A stop undoes a locked channel step by  *)
(* step, and a message is gone only after two failing calls.               *)
(*                                                                         *)
(* WebPages: every link is read or warned about, and the keys take turns,  *)
(* for any replies, links and orders of extraction.  What is not read yet  *)
(* is in the reply's hands, and the keys before the next one have had one  *)
(* request more than the others.                                           *)
(*                                                                         *)
(* ChannelExport: the exported file is the newest of the history, without  *)
(* a gap, for any history, page size and limit.  Nothing the bot has seen  *)
(* is newer than the oldest message it keeps and left out, and what it has *)
(* not seen is older than the page.                                        *)
(***************************************************************************)
EXTENDS BoundedTasks, GistButton, MessageGate, WebPages, ChannelExport, FiniteSetTheorems,
        TLAPS

-----------------------------------------------------------------------------
(* The task pool.                                                          *)

USE DEF Workers, WorkerCount, Tasks

\* Types, as functions on the workers and the tasks.
PoolTypes ==
    /\ taken \in Nat
    /\ worker \in [Workers -> {"claiming", "holding", "running", "done"}]
    /\ index \in [Workers -> Nat]
    /\ results \in [Tasks -> {"none", "value", "error", "cancelled"}]
    /\ returned \in BOOLEAN

\* A task below the counter is in a worker's hands or settled.
NoneLost == \A i \in Tasks : i < taken =>
    results[i] # "none" \/ \E w \in Workers : Busy(w) /\ index[w] = i

\* Those at or above it are untouched.
NoneEarly ==
    /\ \A i \in Tasks : i >= taken => results[i] = "none"
    /\ \A w \in Workers : Busy(w) => index[w] < taken /\ index[w] \in Tasks

OneEach ==
    /\ \A v, w \in Workers : Busy(v) /\ Busy(w) /\ index[v] = index[w] => v = w
    /\ \A w \in Workers : Busy(w) => results[index[w]] = "none"

\* A worker stops only where no task is left.
StopsAtEnd == \A w \in Workers : worker[w] = "done" => taken >= TaskCount

AllSettled == returned => \A i \in Tasks : results[i] # "none"

PoolInv == PoolTypes /\ NoneLost /\ NoneEarly /\ OneEach /\ StopsAtEnd /\ AllSettled

LEMMA InitPoolInv == PoolInit => PoolInv
<1> SUFFICES ASSUME PoolInit PROVE PoolInv
  OBVIOUS
<1>1. PoolTypes
  BY TaskAssumption DEF PoolInit, PoolTypes
<1>2. \A w \in Workers : worker[w] = "claiming"
  BY DEF PoolInit
<1>3. NoneLost /\ NoneEarly
  BY <1>2, TaskAssumption DEF PoolInit, NoneLost, NoneEarly, Busy
<1>4. OneEach /\ StopsAtEnd
  BY <1>2 DEF OneEach, StopsAtEnd, Busy
<1>5. AllSettled
  BY DEF PoolInit, AllSettled
<1> QED BY <1>1, <1>3, <1>4, <1>5 DEF PoolInv

LEMMA ClaimKeeps == ASSUME PoolInv, NEW w \in Workers, Claim(w) PROVE PoolInv'
<1> USE TaskAssumption
<1>1. PoolTypes'
  BY DEF Claim, PoolInv, PoolTypes
<1>2. CASE taken < TaskCount
  <2>1. taken \in Tasks /\ results[taken] = "none"
    BY <1>2 DEF PoolInv, PoolTypes, NoneEarly
  <2>2. \A v \in Workers : v # w => Busy(v)' = Busy(v) /\ index'[v] = index[v]
    BY DEF Claim, Busy, PoolInv, PoolTypes
  <2>3. Busy(w)' /\ ~Busy(w) /\ index'[w] = taken /\ taken' = taken + 1 /\ results' = results
    BY <1>2 DEF Claim, Busy, PoolInv, PoolTypes
  <2>4. NoneLost'
    <3>1. SUFFICES ASSUME NEW i \in Tasks, i < taken + 1, results[i] = "none"
                   PROVE  \E v \in Workers : Busy(v)' /\ index'[v] = i
      BY <2>3 DEF NoneLost
    <3>2. CASE i = taken
      BY <2>3, <3>2
    <3>3. CASE i # taken
      <4>1. i < taken
        BY <3>1, <3>3 DEF PoolInv, PoolTypes
      <4>2. PICK v \in Workers : Busy(v) /\ index[v] = i
        BY <3>1, <4>1 DEF PoolInv, NoneLost
      <4> QED BY <2>2, <2>3, <4>2
    <3> QED BY <3>2, <3>3
  <2>5. NoneEarly'
    BY <2>1, <2>2, <2>3 DEF PoolInv, PoolTypes, NoneEarly
  <2>6. \A v \in Workers : Busy(v) => index[v] # taken
    BY DEF PoolInv, PoolTypes, NoneEarly
  <2>7. OneEach'
    <3>1. \A v \in Workers : Busy(v)' => v = w \/ (Busy(v) /\ index'[v] = index[v])
      BY <2>2
    <3>2. ASSUME NEW u \in Workers, NEW v \in Workers,
                 Busy(u)', Busy(v)', index'[u] = index'[v]
          PROVE  u = v
      BY <2>3, <2>6, <3>1, <3>2 DEF PoolInv, OneEach
    <3>3. \A v \in Workers : Busy(v)' => results'[index'[v]] = "none"
      BY <2>1, <2>3, <3>1 DEF PoolInv, OneEach
    <3> QED BY <3>2, <3>3 DEF OneEach
  <2>8. StopsAtEnd' /\ AllSettled'
    BY <1>2 DEF Claim, PoolInv, PoolTypes, StopsAtEnd, AllSettled
  <2> QED BY <1>1, <2>4, <2>5, <2>7, <2>8 DEF PoolInv
<1>3. CASE taken >= TaskCount
  <2>1. \A v \in Workers : v # w => Busy(v)' = Busy(v) /\ index'[v] = index[v]
    BY DEF Claim, Busy, PoolInv, PoolTypes
  <2>2. ~Busy(w)' /\ ~Busy(w) /\ taken' = taken + 1 /\ results' = results
    BY <1>3 DEF Claim, Busy, PoolInv, PoolTypes
  <2>3. NoneLost'
    <3> SUFFICES ASSUME NEW i \in Tasks, results[i] = "none"
                 PROVE  \E v \in Workers : Busy(v)' /\ index'[v] = i
      BY <2>2 DEF NoneLost
    <3>1. i < taken
      BY <1>3, TaskAssumption DEF PoolInv, PoolTypes
    <3>2. PICK v \in Workers : Busy(v) /\ index[v] = i
      BY <3>1 DEF PoolInv, NoneLost
    <3> QED
      BY <2>1, <2>2, <3>2
  <2>4. NoneEarly'
    <3>1. \A i \in Tasks : ~(i >= taken')
      BY <1>3, <2>2 DEF PoolInv, PoolTypes
    <3>2. \A v \in Workers : Busy(v)' => Busy(v) /\ index'[v] = index[v] /\ v # w
      BY <2>1, <2>2
    <3>3. \A v \in Workers : Busy(v) => index[v] < taken /\ index[v] \in Tasks
      BY DEF PoolInv, NoneEarly
    <3>4. \A v \in Workers : Busy(v)' => index'[v] < taken' /\ index'[v] \in Tasks
      BY <2>2, <3>2, <3>3 DEF PoolInv, PoolTypes
    <3> QED BY <3>1, <3>4 DEF NoneEarly
  <2>5. OneEach'
    BY <2>1, <2>2 DEF PoolInv, OneEach
  <2>6. StopsAtEnd' /\ AllSettled'
    BY <1>3 DEF Claim, PoolInv, PoolTypes, StopsAtEnd, AllSettled
  <2> QED BY <1>1, <2>3, <2>4, <2>5, <2>6 DEF PoolInv
<1> QED BY <1>2, <1>3 DEF PoolInv, PoolTypes

\* A worker settles the task in its hands and has none, or runs it and keeps it.
LEMMA SettleKeeps ==
    ASSUME PoolInv, NEW w \in Workers, Busy(w), NEW r \in {"value", "error", "cancelled"},
           results' = [results EXCEPT ![index[w]] = r],
           worker' = [worker EXCEPT ![w] = "claiming"],
           UNCHANGED <<taken, index, cancelled, returned>>
    PROVE  PoolInv'
<1> USE TaskAssumption
<1>1. index[w] \in Tasks /\ index[w] < taken
  BY DEF PoolInv, NoneEarly
<1>2. PoolTypes'
  BY <1>1 DEF PoolInv, PoolTypes
<1>3. \A v \in Workers : v # w => Busy(v)' = Busy(v) /\ index'[v] = index[v]
  BY DEF Busy, PoolInv, PoolTypes
<1>4. ~Busy(w)' /\ index' = index /\ taken' = taken
  BY DEF Busy, PoolInv, PoolTypes
<1>5. \A i \in Tasks : results'[i] = IF i = index[w] THEN r ELSE results[i]
  BY DEF PoolInv, PoolTypes
<1>6. NoneLost'
  BY <1>1, <1>3, <1>4, <1>5 DEF PoolInv, PoolTypes, NoneLost
<1>7. NoneEarly'
  BY <1>1, <1>3, <1>4, <1>5 DEF PoolInv, PoolTypes, NoneEarly
<1>8. OneEach'
  <2>1. \A v \in Workers : Busy(v)' => v # w /\ Busy(v) /\ index'[v] = index[v]
    BY <1>3, <1>4
  <2>2. \A v \in Workers : v # w /\ Busy(v) => index[v] # index[w] /\ index[v] \in Tasks
    BY DEF PoolInv, OneEach, NoneEarly
  <2>3. \A v \in Workers : Busy(v)' => results'[index'[v]] = "none"
    BY <1>5, <2>1, <2>2 DEF PoolInv, OneEach
  <2>4. \A u, v \in Workers : Busy(u)' /\ Busy(v)' /\ index'[u] = index'[v] => u = v
    BY <2>1 DEF PoolInv, OneEach
  <2> QED BY <2>3, <2>4 DEF OneEach
<1>9. StopsAtEnd' /\ AllSettled'
  BY <1>4, <1>5 DEF PoolInv, PoolTypes, StopsAtEnd, AllSettled
<1> QED BY <1>2, <1>6, <1>7, <1>8, <1>9 DEF PoolInv

LEMMA CheckContextKeeps == ASSUME PoolInv, NEW w \in Workers, CheckContext(w) PROVE PoolInv'
<1> USE TaskAssumption
<1>1. CASE cancelled
  BY <1>1, SettleKeeps DEF CheckContext, Busy
<1>2. CASE ~cancelled
  <2>1. PoolTypes'
    BY <1>2 DEF CheckContext, PoolInv, PoolTypes
  <2>2. \A v \in Workers : Busy(v)' = Busy(v)
    BY <1>2 DEF CheckContext, Busy, PoolInv, PoolTypes
  <2>3. results' = results /\ index' = index /\ taken' = taken /\ returned' = returned
    BY <1>2 DEF CheckContext
  <2>4. NoneLost' /\ NoneEarly' /\ OneEach' /\ AllSettled'
    BY <2>2, <2>3 DEF PoolInv, NoneLost, NoneEarly, OneEach, AllSettled
  <2>5. StopsAtEnd'
    BY <1>2, <2>3 DEF CheckContext, PoolInv, PoolTypes, StopsAtEnd
  <2> QED BY <2>1, <2>4, <2>5 DEF PoolInv
<1> QED BY <1>1, <1>2

LEMMA RunKeeps == ASSUME PoolInv, NEW w \in Workers, Run(w) PROVE PoolInv'
<1>1. PICK r \in {"value", "error"} : results' = [results EXCEPT ![index[w]] = r]
  BY DEF Run
<1> QED BY <1>1, SettleKeeps DEF Run, Busy

LEMMA ReturnKeeps == ASSUME PoolInv, Return PROVE PoolInv'
<1> USE TaskAssumption
<1>1. UNCHANGED <<taken, worker, index, results>>
  BY DEF Return
<1>2. PoolTypes' /\ NoneLost' /\ NoneEarly' /\ OneEach' /\ StopsAtEnd'
  BY <1>1 DEF Return, PoolInv, PoolTypes, NoneLost, NoneEarly, OneEach, StopsAtEnd, Busy
<1>3. ASSUME NEW i \in Tasks PROVE results[i] # "none"
  <2>1. 1 \in Workers /\ i < TaskCount
    BY DEF PoolInv
  <2>2. taken >= TaskCount /\ \A w \in Workers : ~Busy(w)
    BY <2>1 DEF Return, PoolInv, StopsAtEnd, Busy
  <2> QED BY <2>1, <2>2 DEF PoolInv, PoolTypes, NoneLost
<1>4. AllSettled'
  BY <1>1, <1>3 DEF AllSettled
<1> QED BY <1>2, <1>4 DEF PoolInv

LEMMA StepPoolInv == PoolInv /\ [PoolNext]_poolVars => PoolInv'
<1> SUFFICES ASSUME PoolInv, [PoolNext]_poolVars PROVE PoolInv'
  OBVIOUS
<1>1. ASSUME NEW w \in Workers, Claim(w) PROVE PoolInv'
  BY <1>1, ClaimKeeps
<1>2. ASSUME NEW w \in Workers, CheckContext(w) PROVE PoolInv'
  BY <1>2, CheckContextKeeps
<1>3. ASSUME NEW w \in Workers, Run(w) PROVE PoolInv'
  BY <1>3, RunKeeps
<1>4. CASE Cancel
  BY <1>4 DEF Cancel, PoolInv, PoolTypes, NoneLost, NoneEarly, OneEach, StopsAtEnd, AllSettled, Busy
<1>5. CASE Return
  BY <1>5, ReturnKeeps
<1>6. CASE UNCHANGED poolVars
  BY <1>6 DEF poolVars, PoolInv, PoolTypes, NoneLost, NoneEarly, OneEach, StopsAtEnd, AllSettled,
     Busy
<1> QED BY <1>1, <1>2, <1>3, <1>4, <1>5, <1>6 DEF PoolNext

\* No task is given to two workers or run again, and the caller of the pool
\* finds a result for each, whenever the context is cancelled
\* (concurrency.go:14-62).
THEOREM EveryTaskOnce == PoolSpec => []EachTaskOnce
<1>1. PoolInv => EachTaskOnce
  BY DEF PoolInv, OneEach, AllSettled, EachTaskOnce
<1> QED BY <1>1, InitPoolInv, StepPoolInv, PTL DEF PoolSpec

-----------------------------------------------------------------------------
(* The gist button.                                                        *)

HIDE DEF Workers, WorkerCount, Tasks
USE DEF Nodes

\* The types that matter here.
GistShape ==
    /\ current \in 0 .. MaxObjects /\ made \in Nodes
    /\ url \in [Nodes -> Nat] /\ gists \in Nat
    /\ press \in [Presses -> {"idle", "creating", "created", "failed", "told", "refused"}]
    /\ node \in [Presses -> Nodes] /\ left \in [Presses -> Nat]
    /\ gist \in [Presses -> Nat] /\ told \in [Presses -> Nat]

\* Whoever was told a URL was told that of the node, and has nothing more to do.
ToldIsKept == \A p \in Presses :
    /\ told[p] # 0 => told[p] = url[node[p]] /\ press[p] = "told"
    /\ press[p] = "told" => told[p] # 0

\* URLs, and what is about to become one, are those of gists that exist.
GistsExist ==
    /\ \A n \in Nodes : url[n] <= gists
    /\ \A p \in Presses : press[p] = "created" => gist[p] # 0 /\ gist[p] <= gists

\* Whoever creates a gist has a token left to try.
TokensLeft == \A p \in Presses : press[p] = "creating" => left[p] >= 1

GistInv == GistShape /\ ToldIsKept /\ GistsExist /\ TokensLeft

LEMMA InitGistInv == GistInit => GistInv
<1> SUFFICES ASSUME GistInit PROVE GistInv
  OBVIOUS
<1>1. GistShape
  BY GistAssumption DEF GistInit, GistShape
<1>2. ToldIsKept /\ GistsExist /\ TokensLeft
  BY DEF GistInit, ToldIsKept, GistsExist, TokensLeft
<1> QED BY <1>1, <1>2 DEF GistInv

\* The gists only become more.
LEMMA MoreGists ==
    ASSUME GistInv, gists' \in Nat, gists <= gists', url' = url
    PROVE  \A n \in Nodes : url'[n] <= gists'
<1> TAKE n \in Nodes
<1>1. url[n] \in Nat /\ url[n] <= gists /\ gists \in Nat
  BY DEF GistInv, GistShape, GistsExist
<1> QED BY <1>1

\* A press moves while the nodes and what was told stay as they are.
LEMMA PressMoves ==
    ASSUME GistInv, NEW p \in Presses, told[p] = 0,
           NEW s \in {"creating", "failed", "refused"}, press'[p] = s,
           \A q \in Presses : q # p =>
               press'[q] = press[q] /\ node'[q] = node[q] /\ left'[q] = left[q],
           s = "creating" => left'[p] >= 1,
           UNCHANGED <<url, gist, told>>, gists' \in Nat, gists <= gists', GistShape'
    PROVE  GistInv'
<1>1. ToldIsKept'
  BY DEF GistInv, ToldIsKept
<1>2. GistsExist'
  <2>1. ASSUME NEW q \in Presses, press'[q] = "created" PROVE gist[q] # 0 /\ gist[q] <= gists'
    <3>1. q # p /\ press[q] = "created"
      BY <2>1
    <3>2. gist[q] # 0 /\ gist[q] <= gists /\ gist[q] \in Nat /\ gists \in Nat
      BY <3>1 DEF GistInv, GistShape, GistsExist
    <3> QED BY <3>2
  <2> QED BY <2>1, MoreGists DEF GistsExist
<1>3. TokensLeft'
  BY DEF GistInv, TokensLeft
<1> QED BY <1>1, <1>2, <1>3 DEF GistInv

LEMMA PressKeeps == ASSUME GistInv, NEW p \in Presses, Press(p) PROVE GistInv'
<1> USE GistAssumption
<1>1. told[p] = 0 /\ press[p] = "idle" /\ gists \in Nat /\ gists <= gists
  BY DEF Press, GistInv, GistShape, ToldIsKept
<1>2. UNCHANGED <<current, made, url, gists, gist>>
  BY DEF Press
<1>3. ASSUME Refuse(p), left' = left, node' \in [Presses -> Nodes],
             \A q \in Presses : q # p => node'[q] = node[q]
      PROVE  GistInv'
  <2>1. /\ press'[p] = "refused" /\ told' = told
        /\ \A q \in Presses : q # p => press'[q] = press[q]
    BY <1>3 DEF Refuse, GistInv, GistShape
  <2>2. GistShape'
    BY <1>2, <1>3 DEF Refuse, GistInv, GistShape
  <2> QED BY <1>1, <1>2, <1>3, <2>1, <2>2, PressMoves
<1>4. CASE current = 0
  BY <1>3, <1>4 DEF Press, GistInv, GistShape
<1>5. CASE current # 0
  <2>1. current \in Nodes
    BY <1>5 DEF GistInv, GistShape
  <2>2. node' = [node EXCEPT ![p] = current]
    BY <1>5 DEF Press
  <2>3. /\ node' \in [Presses -> Nodes] /\ node'[p] = current
        /\ \A q \in Presses : q # p => node'[q] = node[q]
    BY <2>1, <2>2 DEF GistInv, GistShape
  <2>4. CASE url[current] # 0 /\ Tell(p, url[current]) /\ left' = left
    <3>1. \A q \in Presses : q # p => press'[q] = press[q] /\ told'[q] = told[q]
      BY <2>4 DEF Tell, GistInv, GistShape
    <3>2. press'[p] = "told" /\ told'[p] = url[current]
      BY <2>4 DEF Tell, GistInv, GistShape
    <3>3. GistShape'
      BY <1>2, <2>1, <2>3, <2>4 DEF Tell, GistInv, GistShape
    <3>4. ToldIsKept'
      BY <1>2, <2>3, <2>4, <3>1, <3>2 DEF GistInv, ToldIsKept
    <3>5. GistsExist'
      BY <1>2, <3>1, <3>2 DEF GistInv, GistsExist
    <3>6. TokensLeft'
      BY <2>4, <3>1, <3>2 DEF GistInv, TokensLeft
    <3> QED BY <3>3, <3>4, <3>5, <3>6 DEF GistInv
  <2>5. CASE Refuse(p) /\ left' = left
    BY <1>3, <2>3, <2>5
  <2>6. CASE /\ press' = [press EXCEPT ![p] = "creating"]
             /\ left' = [left EXCEPT ![p] = IF Keys = 0 THEN 1 ELSE Keys]
             /\ told' = told
    <3>1. /\ left' \in [Presses -> Nat] /\ left'[p] >= 1
          /\ \A q \in Presses : q # p => left'[q] = left[q]
      BY <2>6 DEF GistInv, GistShape
    <3>2. press'[p] = "creating" /\ \A q \in Presses : q # p => press'[q] = press[q]
      BY <2>6 DEF GistInv, GistShape
    <3>3. GistShape'
      BY <1>2, <2>3, <2>6, <3>1 DEF GistInv, GistShape
    <3> QED BY <1>1, <1>2, <2>3, <2>6, <3>1, <3>2, <3>3, PressMoves
  <2> QED BY <1>5, <2>4, <2>5, <2>6 DEF Press
<1> QED BY <1>4, <1>5

LEMMA AttemptKeeps == ASSUME GistInv, NEW p \in Presses, Attempt(p) PROVE GistInv'
<1>1. told[p] = 0 /\ press[p] = "creating" /\ left[p] \in Nat /\ left[p] >= 1
  BY DEF Attempt, GistInv, GistShape, ToldIsKept, TokensLeft
<1>2. UNCHANGED <<current, made, ready, url, node, told>>
  BY DEF Attempt
<1>3. left' = [left EXCEPT ![p] = left[p] - 1]
  BY DEF Attempt
<1>4. /\ left' \in [Presses -> Nat] /\ left'[p] = left[p] - 1
      /\ \A q \in Presses : q # p => left'[q] = left[q]
  BY <1>1, <1>3 DEF GistInv, GistShape
<1>6. CASE /\ gists' = gists + 1
           /\ gist' = [gist EXCEPT ![p] = gists + 1]
           /\ press' = [press EXCEPT ![p] = "created"]
  <2>1. \A q \in Presses : q # p => press'[q] = press[q] /\ gist'[q] = gist[q]
    BY <1>6 DEF GistInv, GistShape
  <2>2. press'[p] = "created" /\ gist'[p] = gists + 1
    BY <1>6 DEF GistInv, GistShape
  <2>3. GistShape'
    BY <1>2, <1>4, <1>6 DEF GistInv, GistShape
  <2>4. ToldIsKept'
    BY <1>1, <1>2, <2>1, <2>2 DEF GistInv, ToldIsKept
  <2>5. GistsExist'
    <3>1. gists \in Nat /\ gists' \in Nat /\ gists <= gists'
      BY <1>6 DEF GistInv, GistShape
    <3>2. ASSUME NEW q \in Presses, q # p, press'[q] = "created"
          PROVE  gist'[q] # 0 /\ gist'[q] <= gists'
      <4>1. gist[q] # 0 /\ gist[q] <= gists /\ gist[q] \in Nat
        BY <2>1, <3>2 DEF GistInv, GistShape, GistsExist
      <4> QED BY <2>1, <3>1, <3>2, <4>1
    <3>3. gist'[p] # 0 /\ gist'[p] <= gists'
      BY <1>6, <2>2, <3>1
    <3> QED BY <1>2, <3>1, <3>2, <3>3, MoreGists DEF GistsExist
  <2>6. TokensLeft'
    BY <1>4, <2>1, <2>2 DEF GistInv, TokensLeft
  <2> QED BY <2>3, <2>4, <2>5, <2>6 DEF GistInv
<1>7. ASSUME gists' \in {gists, gists + 1}, gist' = gist,
             press' = [press EXCEPT ![p] = IF left[p] = 1 THEN "failed" ELSE "creating"]
      PROVE GistInv'
  <2>1. gists' \in Nat /\ gists <= gists'
    BY <1>7 DEF GistInv, GistShape
  <2>2. /\ press'[p] = IF left[p] = 1 THEN "failed" ELSE "creating"
        /\ \A q \in Presses : q # p => press'[q] = press[q]
    BY <1>7 DEF GistInv, GistShape
  <2>3. GistShape'
    BY <1>2, <1>4, <1>7, <2>1 DEF GistInv, GistShape
  <2>4. press'[p] = "creating" => left'[p] >= 1
    BY <1>1, <1>4, <2>2
  <2> QED BY <1>1, <1>2, <1>4, <1>7, <2>1, <2>2, <2>3, <2>4, PressMoves
<1> QED BY <1>6, <1>7 DEF Attempt

LEMMA StoreKeeps == ASSUME GistInv, NEW p \in Presses, Store(p) PROVE GistInv'
<1> DEFINE n == node[p]
           u == IF url[n] = 0 THEN gist[p] ELSE url[n]
<1>1. n \in Nodes /\ u \in Nat /\ u # 0 /\ u <= gists /\ told[p] = 0
  BY DEF Store, GistInv, GistShape, GistsExist, ToldIsKept
<1>2. /\ url' = [url EXCEPT ![n] = u] /\ Tell(p, u)
      /\ UNCHANGED <<current, made, ready, gists, node, left, gist>>
  BY DEF Store
<1> HIDE DEF u
<1>3. \A m \in Nodes : url'[m] = IF m = n THEN u ELSE url[m]
  BY <1>2 DEF GistInv, GistShape
<1>4. url[n] # 0 => u = url[n]
  BY DEF u
<1>5. /\ \A q \in Presses : q # p => press'[q] = press[q] /\ told'[q] = told[q]
      /\ press'[p] = "told" /\ told'[p] = u
  BY <1>2 DEF Tell, GistInv, GistShape
<1>6. GistShape'
  BY <1>1, <1>2 DEF Tell, GistInv, GistShape
<1>7. ToldIsKept'
  <2>1. ASSUME NEW q \in Presses, q # p, told[q] # 0 PROVE told[q] = url'[node[q]]
    BY <1>1, <1>3, <1>4, <2>1 DEF GistInv, GistShape, ToldIsKept
  <2>2. told'[p] = url'[node[p]]
    BY <1>1, <1>3, <1>5
  <2>3. \A q \in Presses : told'[q] # 0 => told'[q] = url'[node[q]]
    BY <1>5, <2>1, <2>2
  <2>4. \A q \in Presses : q # p => told'[q] = told[q] /\ press'[q] = press[q]
    BY <1>5
  <2>5. \A q \in Presses : (told'[q] # 0 <=> press'[q] = "told") /\ node'[q] = node[q]
    BY <1>1, <1>2, <1>5, <2>4 DEF GistInv, ToldIsKept
  <2> QED
    BY <2>3, <2>5 DEF ToldIsKept
<1>8. GistsExist'
  BY <1>1, <1>2, <1>3, <1>5 DEF GistInv, GistShape, GistsExist
<1>9. TokensLeft'
  BY <1>2, <1>5 DEF GistInv, TokensLeft
<1> QED BY <1>6, <1>7, <1>8, <1>9 DEF GistInv

LEMMA FailedKeeps == ASSUME GistInv, NEW p \in Presses, Failed(p) PROVE GistInv'
<1>1. /\ press' = [press EXCEPT ![p] = "refused"]
      /\ UNCHANGED <<current, made, url, gists, node, left, gist, told>>
  BY DEF Failed, Refuse
<1>2. told[p] = 0 /\ gists \in Nat /\ gists <= gists
  BY DEF Failed, GistInv, GistShape, ToldIsKept
<1>3. press'[p] = "refused" /\ \A q \in Presses : q # p => press'[q] = press[q]
  BY <1>1 DEF GistInv, GistShape
<1>4. GistShape'
  BY <1>1 DEF GistInv, GistShape
<1> QED BY <1>1, <1>2, <1>3, <1>4, PressMoves

\* The store's own steps touch no press and no URL.
LEMMA NodeMoves == ASSUME GistInv, Evict \/ Recreate \/ Fill PROVE GistInv'
<1>1. UNCHANGED <<url, gists, press, node, left, gist, told>>
  BY DEF Evict, Recreate, Fill
<1>2. GistShape'
  BY GistAssumption DEF Evict, Recreate, Fill, GistInv, GistShape
<1>3. ToldIsKept' /\ GistsExist' /\ TokensLeft'
  BY <1>1 DEF GistInv, ToldIsKept, GistsExist, TokensLeft
<1> QED BY <1>2, <1>3 DEF GistInv

LEMMA StepGistInv == GistInv /\ [GistNext]_gistVars => GistInv'
<1> SUFFICES ASSUME GistInv, [GistNext]_gistVars PROVE GistInv'
  OBVIOUS
<1>1. ASSUME NEW p \in Presses, Press(p) PROVE GistInv'
  BY <1>1, PressKeeps
<1>2. ASSUME NEW p \in Presses, Attempt(p) PROVE GistInv'
  BY <1>2, AttemptKeeps
<1>3. ASSUME NEW p \in Presses, Store(p) PROVE GistInv'
  BY <1>3, StoreKeeps
<1>4. ASSUME NEW p \in Presses, Failed(p) PROVE GistInv'
  BY <1>4, FailedKeeps
<1>5. CASE UNCHANGED gistVars
  BY <1>5 DEF gistVars, GistInv, GistShape, ToldIsKept, GistsExist, TokensLeft
<1> QED BY <1>1, <1>2, <1>3, <1>4, <1>5, NodeMoves DEF GistNext

\* Whoever is told a gist of the answer's node is told the one gist that the
\* node keeps, and that gist exists (interactions.go:742-806).
THEOREM OneGistTold == GistSpec => []SameGistTold
<1>1. GistInv => SameGistTold
  BY DEF GistInv, GistShape, ToldIsKept, GistsExist, SameGistTold
<1> QED BY <1>1, InitGistInv, StepGistInv, PTL DEF GistSpec
-----------------------------------------------------------------------------
(* The gate: no two commands run at a time, what a stop has gone past is    *)
(* unlocked unless the call failed, and what a message has lost, per place. *)

Stops == {"everyone", "owner", "bot", "flag"}
Answers == [sub : {"none", "start", "stop"}, failed : SUBSET Whose]
CommandTypes ==
    /\ command \in [Commands -> [pc : Stops \cup {"idle", "done"},
                                 sub : {"none", "start", "stop"}, failed : SUBSET Whose]]
    /\ lastAnswer \in Answers /\ overwrites \subseteq Whose /\ flag \in BOOLEAN

OneOngoing == \A c, d \in Commands : Ongoing(c) /\ Ongoing(d) => c = d

\* The overwrites that a command has dealt with when it is at pc.
Past(at) == CASE at = "everyone" -> {} [] at = "owner" -> {"everyone"}
              [] at = "bot" -> {"everyone", "owner"} [] OTHER -> Whose
StopClears == \A c \in Commands :
    command[c].sub = "stop" /\ Ongoing(c) => overwrites \cap Past(command[c].pc) \subseteq command[c].failed

ChannelInv == CommandTypes /\ OneOngoing /\ StopClears /\ StopUnlocks

Untouched == {"enforce", "access", "fixups", "delete", "shortcuts", "route", "facebook", "shorts"}
Places == Untouched \cup
    {"unposted", "blocked", "resend", "resend plainly", "delete short", "done"}
MessageTypes ==
    /\ post \in [Messages -> Posts \cup {NoPost}] /\ place \in [Messages -> Places]
    /\ stands \in [Messages -> BOOLEAN] /\ copies \in [Messages -> 0 .. 1]
    /\ answered = [m \in Messages |-> answered[m]] /\ failed \in [Messages -> Nat]
    /\ asked \in [Messages -> Nat] /\ faults \in 0 .. MaxFaults
    /\ \A m \in Messages : failed[m] <= faults

\* What holds of a message at each place.
PlaceInv(at, there, sent, model, lost, keys) ==
    /\ at \in Untouched \cup {"delete short"} => there = TRUE
    /\ at \notin {"done", "delete short"} => sent = 0
    /\ at = "delete short" => sent = 1
    /\ at # "done" => model = "none"
    /\ at = "resend plainly" => lost >= 1
    /\ at = "done" /\ there = FALSE /\ sent = 0 => lost >= 2
    /\ model # "none" => there = TRUE /\ sent = 0
    /\ keys <= RoutingKeys /\ (at # "done" => keys < RoutingKeys)
MessagesKept == \A m \in Messages :
    PlaceInv(place[m], stands[m], copies[m], answered[m], failed[m], asked[m])

MessageInv == MessageTypes /\ MessagesKept
GateInv == ChannelInv /\ MessageInv

LEMMA InitGateInv == GateInit => GateInv
<1> SUFFICES ASSUME GateInit PROVE GateInv
  OBVIOUS
<1>1. CommandTypes
  BY DEF GateInit, CommandTypes, Answers, Nobody
<1>2. \A c \in Commands : ~Ongoing(c)
  BY DEF GateInit, Ongoing
<1>3. OneOngoing /\ StopClears /\ StopUnlocks
  BY <1>2 DEF OneOngoing, StopClears, StopUnlocks, GateInit, Nobody
<1>4. MessageTypes
  BY GateAssumption DEF GateInit, MessageTypes, Places
<1>5. MessagesKept
  BY GateAssumption DEF GateInit, MessagesKept, PlaceInv, Untouched
<1> QED BY <1>1, <1>3, <1>4, <1>5 DEF GateInv, ChannelInv, MessageInv

\* A command that moves and leaves the messages alone.
LEMMA CommandMoves ==
    ASSUME GateInv, UNCHANGED handler, faults' \in 0 .. MaxFaults, faults <= faults'
    PROVE  MessageInv'
<1>1. MessageTypes'
  BY DEF GateInv, MessageInv, MessageTypes, handler
<1>2. MessagesKept'
  BY DEF GateInv, MessageInv, MessagesKept, PlaceInv, handler
<1> QED BY <1>1, <1>2 DEF MessageInv

\* The one command that runs, moved to another place.
LEMMA OneStaysOngoing ==
    ASSUME ChannelInv, NEW c \in Commands, CommandTypes',
           Ongoing(c) \/ \A d \in Commands : ~Ongoing(d),
           \A d \in Commands : d # c => command'[d] = command[d]
    PROVE  OneOngoing' /\ \A d \in Commands : d # c => ~Ongoing(d)'
<1>1. \A d \in Commands : d # c => ~Ongoing(d)
  BY DEF ChannelInv, OneOngoing
<1>2. \A d \in Commands : d # c => ~Ongoing(d)'
  BY <1>1 DEF Ongoing
<1> QED BY <1>2 DEF OneOngoing

LEMMA BeginKeeps == ASSUME GateInv, NEW c \in Commands, Begin(c) PROVE GateInv'
<1>1. MessageInv'
  BY CommandMoves DEF Begin, GateInv, MessageInv, MessageTypes
<1>2. PICK sub \in {"start", "stop"} : command' = [command EXCEPT ![c] =
          [pc |-> IF sub = "start" /\ flag THEN "done" ELSE "everyone", sub |-> sub, failed |-> {}]]
  BY DEF Begin
<1>3. CommandTypes'
  BY <1>2 DEF Begin, GateInv, ChannelInv, CommandTypes, Stops, Answers
<1>4. command'[c] = [pc |-> IF sub = "start" /\ flag THEN "done" ELSE "everyone",
                     sub |-> sub, failed |-> {}]
      /\ \A d \in Commands : d # c => command'[d] = command[d]
  BY <1>2 DEF GateInv, ChannelInv, CommandTypes
<1>5. OneOngoing' /\ \A d \in Commands : d # c => ~Ongoing(d)'
  BY <1>3, <1>4, OneStaysOngoing DEF Begin, GateInv
<1>6. StopClears'
  BY <1>4, <1>5 DEF StopClears, Past, Ongoing
<1>7. StopUnlocks'
  <2>1. CASE command'[c].pc = "done"
    BY <2>1 DEF Begin, StopUnlocks
  <2>2. CASE command'[c].pc # "done"
    BY <1>4, <2>2 DEF StopUnlocks, Ongoing
  <2> QED BY <2>1, <2>2
<1> QED BY <1>1, <1>3, <1>5, <1>6, <1>7 DEF GateInv, ChannelInv

LEMMA ApplyKeeps == ASSUME GateInv, NEW c \in Commands, Apply(c) PROVE GateInv'
<1>1. MessageInv'
  BY CommandMoves, GateAssumption DEF Apply, Error, GateInv, MessageInv, MessageTypes
<1>2. PICK at \in {"owner", "bot", "flag", "done"} : command' = [command EXCEPT ![c].pc = at]
  BY DEF Apply, Whose, Next1
<1>3. Ongoing(c) /\ command[c].sub = "start"
  BY DEF Apply, Whose, Ongoing
<1>4. CommandTypes'
  BY <1>2 DEF Apply, GateInv, ChannelInv, CommandTypes, Stops, Answers, Whose
<1>5. /\ command'[c].pc = at /\ command'[c].sub = "start"
      /\ \A d \in Commands : d # c => command'[d] = command[d]
  BY <1>2, <1>3 DEF GateInv, ChannelInv, CommandTypes
<1>6. OneOngoing' /\ \A d \in Commands : d # c => ~Ongoing(d)'
  BY <1>3, <1>4, <1>5, OneStaysOngoing DEF GateInv
<1>7. StopClears'
  BY <1>5, <1>6 DEF StopClears
<1>8. StopUnlocks'
  <2>1. CASE at = "done"
    <3>1. lastAnswer' = [sub |-> "start", failed |-> {command[c].pc}]
          \/ command' = [command EXCEPT ![c].pc = Next1(command[c].pc)]
      BY DEF Apply
    <3>2. Next1(command[c].pc) # "done"
      BY DEF Apply, Whose, Next1
    <3>3. command' = [command EXCEPT ![c].pc = Next1(command[c].pc)]
            => command'[c].pc = Next1(command[c].pc)
      BY DEF GateInv, ChannelInv, CommandTypes
    <3> QED BY <1>5, <2>1, <3>1, <3>2, <3>3 DEF StopUnlocks
  <2>2. CASE at # "done"
    BY <1>5, <2>2 DEF StopUnlocks, Ongoing
  <2> QED BY <2>1, <2>2
<1> QED BY <1>1, <1>4, <1>6, <1>7, <1>8 DEF GateInv, ChannelInv

LEMMA SetFlagKeeps == ASSUME GateInv, NEW c \in Commands, SetFlag(c) PROVE GateInv'
<1>1. MessageInv'
  BY CommandMoves DEF SetFlag, GateInv, MessageInv, MessageTypes
<1>2. Ongoing(c) /\ command[c].sub = "start" /\ command' = [command EXCEPT ![c].pc = "done"]
  BY DEF SetFlag, Answer, Ongoing
<1>3. CommandTypes'
  BY <1>2 DEF SetFlag, Answer, GateInv, ChannelInv, CommandTypes, Answers
<1>4. /\ command'[c].sub = "start"
      /\ \A d \in Commands : d # c => command'[d] = command[d]
  BY <1>2 DEF GateInv, ChannelInv, CommandTypes
<1>5. OneOngoing' /\ \A d \in Commands : d # c => ~Ongoing(d)'
  BY <1>2, <1>3, <1>4, OneStaysOngoing DEF GateInv
<1>6. StopClears' /\ StopUnlocks'
  BY <1>2, <1>4, <1>5 DEF SetFlag, Answer, StopClears, StopUnlocks
<1> QED BY <1>1, <1>3, <1>5, <1>6 DEF GateInv, ChannelInv

\* What a stop has gone past is gone, or in the list of its failed calls.
LEMMA RemoveKeeps == ASSUME GateInv, NEW c \in Commands, Remove(c) PROVE GateInv'
<1> DEFINE who == command[c].pc
<1>1. MessageInv'
  BY CommandMoves, GateAssumption DEF Remove, Error, GateInv, MessageInv, MessageTypes
<1>2. who \in Whose /\ Ongoing(c) /\ command[c].sub = "stop"
  BY DEF Remove, Whose, Ongoing
<1>3. CommandTypes /\ Next1(who) \in Stops
  BY <1>2 DEF GateInv, ChannelInv, Stops, Whose, Next1
<1>4. PICK lost \in {{}, {who}} :
          /\ command' = [command EXCEPT ![c] = [pc |-> Next1(who), sub |-> "stop",
                                                failed |-> command[c].failed \cup lost]]
          /\ overwrites' = IF lost = {} THEN overwrites \ {who} ELSE overwrites
  <2> DEFINE F == command[c].failed
             Was(lost) == [pc |-> Next1(who), sub |-> "stop", failed |-> F \cup lost]
  <2>1. command[c] = [pc |-> who, sub |-> "stop", failed |-> F]
    BY <1>2, <1>3 DEF CommandTypes
  <2>3. [command[c] EXCEPT !.pc = Next1(who)] = Was({})
    <3> HIDE DEF F, who
    <3> QED BY <2>1
  <2>4. CASE overwrites' = overwrites \ {who} /\ command' = [command EXCEPT ![c].pc = Next1(who)]
    <3>1. command' = [command EXCEPT ![c] = [command[c] EXCEPT !.pc = Next1(who)]]
      BY <2>4
    <3>2. command' = [command EXCEPT ![c] = Was({})]
      BY <2>3, <3>1
    <3> QED BY <2>4, <3>2
  <2>5. CASE overwrites' = overwrites /\ command' = [command EXCEPT ![c] = Was({who})]
    BY <2>5
  <2> QED BY <2>4, <2>5 DEF Remove
<1> HIDE DEF who
<1>5. /\ CommandTypes'
      /\ command'[c].pc = Next1(who) /\ command'[c].sub = "stop"
      /\ \/ overwrites' = overwrites \ {who} /\ command'[c].failed = command[c].failed
         \/ overwrites' = overwrites /\ command'[c].failed = command[c].failed \cup {who}
      /\ \A d \in Commands : d # c => command'[d] = command[d]
  BY <1>2, <1>3, <1>4 DEF Remove, CommandTypes
<1>6. OneOngoing' /\ \A d \in Commands : d # c => ~Ongoing(d)'
  BY <1>2, <1>5, OneStaysOngoing DEF GateInv
<1>7. overwrites \cap Past(who) \subseteq command[c].failed
  BY <1>2 DEF GateInv, ChannelInv, StopClears, who
<1>8. Past(Next1(who)) = Past(who) \cup {who}
  BY <1>2 DEF Past, Next1, Whose
<1>9. overwrites' \cap Past(command'[c].pc) \subseteq command'[c].failed
  BY <1>5, <1>7, <1>8
<1>10. StopClears'
  BY <1>6, <1>9 DEF StopClears
<1>11. Next1(who) # "done" /\ Next1(who) # "idle"
  BY <1>2 DEF Next1, Whose
<1>12. StopUnlocks'
  BY <1>5, <1>11 DEF StopUnlocks, Ongoing
<1> QED BY <1>1, <1>5, <1>6, <1>10, <1>12 DEF GateInv, ChannelInv

LEMMA ClearFlagKeeps == ASSUME GateInv, NEW c \in Commands, ClearFlag(c) PROVE GateInv'
<1>1. MessageInv'
  BY CommandMoves DEF ClearFlag, GateInv, MessageInv, MessageTypes
<1>2. /\ Ongoing(c) /\ command[c].sub = "stop" /\ command[c].pc = "flag"
      /\ command' = [command EXCEPT ![c].pc = "done"]
      /\ lastAnswer' = [sub |-> "stop", failed |-> command[c].failed]
  BY DEF ClearFlag, Answer, Ongoing
<1>3. CommandTypes'
  BY <1>2 DEF ClearFlag, GateInv, ChannelInv, CommandTypes, Answers
<1>4. /\ command'[c].pc = "done"
      /\ \A d \in Commands : d # c => command'[d] = command[d]
  BY <1>2 DEF GateInv, ChannelInv, CommandTypes
<1>5. OneOngoing' /\ \A d \in Commands : d # c => ~Ongoing(d)'
  BY <1>2, <1>3, <1>4, OneStaysOngoing DEF GateInv
<1>6. StopClears'
  BY <1>4, <1>5 DEF StopClears, Ongoing
<1>7. overwrites \subseteq command[c].failed
  BY <1>2 DEF GateInv, ChannelInv, StopClears, CommandTypes, Past
<1>8. StopUnlocks'
  BY <1>2, <1>7 DEF ClearFlag, StopUnlocks
<1> QED BY <1>1, <1>3, <1>5, <1>6, <1>8 DEF GateInv, ChannelInv

\* A message that moves leaves the channel and the other messages alone.
LEMMA MessageMoves ==
    ASSUME GateInv, UNCHANGED channel, NEW m \in Messages, MessageTypes',
           \A n \in Messages : n # m =>
               /\ place'[n] = place[n] /\ stands'[n] = stands[n] /\ copies'[n] = copies[n]
               /\ answered'[n] = answered[n] /\ failed'[n] = failed[n] /\ asked'[n] = asked[n],
           PlaceInv(place'[m], stands'[m], copies'[m], answered'[m], failed'[m], asked'[m])
    PROVE  GateInv'
<1>1. MessagesKept'
  BY DEF GateInv, MessageInv, MessagesKept
<1>2. ChannelInv'
  BY DEF channel, GateInv, ChannelInv, CommandTypes, OneOngoing, StopClears, StopUnlocks, Ongoing
<1> QED BY <1>1, <1>2 DEF GateInv, MessageInv

\* What one call more adds to the failed ones.
LEMMA CallOutcome ==
    ASSUME MessageTypes, NEW m \in Messages, Works \/ Fails(m)
    PROVE  /\ failed' \in [Messages -> Nat] /\ faults' \in 0 .. MaxFaults
           /\ \A n \in Messages : failed'[n] <= faults' /\ (n # m => failed'[n] = failed[n])
           /\ failed'[m] >= failed[m]
           /\ Fails(m) => failed'[m] = failed[m] + 1
<1> USE GateAssumption
<1>1. CASE Works
  BY <1>1 DEF Works, Fails, Error, MessageTypes
<1>2. CASE Fails(m)
  BY <1>2 DEF Fails, Error, MessageTypes
<1> QED BY <1>1, <1>2

\* The bot's message is in the channel, or the call for it failed.
LEMMA Sends ==
    ASSUME GateInv, NEW m \in Messages, NEW at \in Places, copies[m] = 0, answered[m] = "none", Works,
           PlaceInv(at, stands[m], 1, "none", failed[m], asked[m]),
           place' = [place EXCEPT ![m] = at], copies' = [copies EXCEPT ![m] = 1],
           UNCHANGED <<channel, post, stands, answered, asked>>
    PROVE  GateInv'
<1>1. /\ MessageTypes /\ UNCHANGED <<failed, faults>>
      /\ place'[m] = at /\ copies'[m] = 1 /\ \A n \in Messages : n # m =>
            place'[n] = place[n] /\ copies'[n] = copies[n]
  BY DEF GateInv, MessageInv, MessageTypes, Works
<1>2. MessageTypes'
  BY <1>1 DEF MessageTypes
<1> QED BY <1>1, <1>2, MessageMoves

LEMMA Refused ==
    ASSUME GateInv, NEW m \in Messages, NEW at \in Places, copies[m] = 0, answered[m] = "none", Fails(m),
           PlaceInv(at, stands[m], 0, "none", failed[m] + 1, asked[m]),
           place' = [place EXCEPT ![m] = at],
           UNCHANGED <<channel, post, stands, copies, answered, asked>>
    PROVE  GateInv'
<1>1. /\ MessageTypes /\ place'[m] = at /\ \A n \in Messages : n # m => place'[n] = place[n]
  BY DEF GateInv, MessageInv, MessageTypes
<1>2. /\ failed' \in [Messages -> Nat] /\ faults' \in 0 .. MaxFaults
      /\ \A n \in Messages : failed'[n] <= faults' /\ (n # m => failed'[n] = failed[n])
      /\ failed'[m] = failed[m] + 1
  BY <1>1, CallOutcome
<1>3. MessageTypes'
  BY <1>1, <1>2 DEF MessageTypes
<1> QED BY <1>1, <1>2, <1>3, MessageMoves

LEMMA ResendKeeps == ASSUME GateInv, NEW m \in Messages, Resend(m) PROVE GateInv'
<1>k. RoutingKeys \in Nat \ {0} /\ MaxFaults \in Nat
  BY GateAssumption
<1>1. MessageTypes /\ PlaceInv(place[m], stands[m], copies[m], answered[m], failed[m], asked[m])
  BY DEF GateInv, MessageInv, MessagesKept
<1>2. /\ place[m] \in {"resend", "resend plainly"} /\ UNCHANGED <<channel, post, stands, answered, asked>>
      /\ \/ Goto(m, "done") /\ copies' = [copies EXCEPT ![m] = @ + 1] /\ Works
         \/ /\ Goto(m, IF place[m] = "resend" THEN "resend plainly" ELSE "done")
            /\ Fails(m) /\ UNCHANGED copies
  BY DEF Resend
<1>3. copies[m] = 0 /\ answered[m] = "none"
  BY <1>1, <1>2 DEF PlaceInv
<1>n. /\ stands[m] \in BOOLEAN /\ asked[m] \in Nat /\ asked[m] < RoutingKeys
      /\ asked[m] <= RoutingKeys /\ failed[m] \in Nat
      /\ place[m] = "resend plainly" => failed[m] >= 1
  BY <1>1, <1>k, <1>2 DEF PlaceInv, MessageTypes
<1>4. CASE Goto(m, "done") /\ copies' = [copies EXCEPT ![m] = @ + 1] /\ Works
  <2>1. PlaceInv("done", stands[m], 1, "none", failed[m], asked[m])
    <3>1. \A there \in BOOLEAN, lost \in Nat, keys \in Nat :
              keys < RoutingKeys => PlaceInv("done", there, 1, "none", lost, keys)
      BY <1>k DEF PlaceInv, Untouched
    <3> QED BY <1>n, <3>1
  <2>2. place' = [place EXCEPT ![m] = "done"] /\ copies' = [copies EXCEPT ![m] = 1]
    BY <1>3, <1>4 DEF Goto
  <2>3. "done" \in Places
    BY DEF Places
  <2> QED BY <1>2, <1>3, <1>4, <2>1, <2>2, <2>3, Sends
<1>5. CASE /\ Goto(m, IF place[m] = "resend" THEN "resend plainly" ELSE "done")
           /\ Fails(m) /\ UNCHANGED copies
  <2> DEFINE at == IF place[m] = "resend" THEN "resend plainly" ELSE "done"
  <2>1. PlaceInv(at, stands[m], 0, "none", failed[m] + 1, asked[m])
    <3>1. \A there \in BOOLEAN, lost \in Nat, keys \in Nat : keys < RoutingKeys =>
              /\ PlaceInv("resend plainly", there, 0, "none", lost + 1, keys)
              /\ lost >= 1 => PlaceInv("done", there, 0, "none", lost + 1, keys)
      BY <1>k DEF PlaceInv, Untouched
    <3>2. at = "resend plainly" \/ (at = "done" /\ failed[m] >= 1)
      BY <1>n, <1>2
    <3> HIDE DEF at
    <3> QED BY <1>n, <3>1, <3>2
  <2>2. place' = [place EXCEPT ![m] = at] /\ at \in Places
    BY <1>5 DEF Goto, Places
  <2> HIDE DEF at
  <2> QED BY <1>2, <1>3, <1>5, <2>1, <2>2, Refused
<1> QED BY <1>2, <1>4, <1>5

LEMMA VideosKeep == ASSUME GateInv, NEW m \in Messages, ReplyWithVideos(m) PROVE GateInv'
<1>k. RoutingKeys \in Nat \ {0} /\ MaxFaults \in Nat
  BY GateAssumption
<1>1. MessageTypes /\ PlaceInv(place[m], stands[m], copies[m], answered[m], failed[m], asked[m])
  BY DEF GateInv, MessageInv, MessagesKept
<1>2. /\ place[m] \in {"facebook", "shorts"} /\ UNCHANGED <<channel, post, stands, answered, asked>>
      /\ \/ /\ copies' = [copies EXCEPT ![m] = @ + 1] /\ Works
            /\ Goto(m, IF place[m] = "shorts" THEN "delete short" ELSE "done")
         \/ Fails(m) /\ UNCHANGED copies /\ Goto(m, "done")
  BY DEF ReplyWithVideos
<1>3. copies[m] = 0 /\ answered[m] = "none" /\ stands[m]
  BY <1>1, <1>2 DEF PlaceInv, Untouched
<1>4. CASE /\ copies' = [copies EXCEPT ![m] = @ + 1] /\ Works
           /\ Goto(m, IF place[m] = "shorts" THEN "delete short" ELSE "done")
  <2> DEFINE at == IF place[m] = "shorts" THEN "delete short" ELSE "done"
  <2>1. PlaceInv(at, stands[m], 1, "none", failed[m], asked[m])
    BY <1>1, <1>k, <1>2, <1>3 DEF PlaceInv, MessageTypes, Untouched
  <2>2. place' = [place EXCEPT ![m] = at] /\ at \in Places /\ copies' = [copies EXCEPT ![m] = 1]
    <3>1. place' = [place EXCEPT ![m] = at] /\ copies' = [copies EXCEPT ![m] = copies[m] + 1]
      BY <1>4 DEF Goto
    <3>2. at \in Places
      BY DEF Places
    <3>3. copies[m] + 1 = 1
      BY <1>3
    <3> QED BY <3>1, <3>2, <3>3
  <2> HIDE DEF at
  <2> QED BY <1>2, <1>3, <1>4, <2>1, <2>2, Sends
<1>5. CASE Fails(m) /\ UNCHANGED copies /\ Goto(m, "done")
  <2>1. PlaceInv("done", stands[m], 0, "none", failed[m] + 1, asked[m])
    BY <1>1, <1>k, <1>2, <1>3 DEF PlaceInv, MessageTypes, Untouched
  <2>2. place' = [place EXCEPT ![m] = "done"] /\ "done" \in Places
    BY <1>5 DEF Goto, Places
  <2> QED BY <1>2, <1>3, <1>5, <2>1, <2>2, Refused
<1> QED BY <1>2, <1>4, <1>5

LEMMA MessageKeeps ==
    ASSUME GateInv, NEW m \in Messages,
           \/ Post(m) \/ EnforceMaintenance(m) \/ Access(m) \/ LinkFixups(m)
           \/ DeleteOriginal(m) \/ ShortCircuits(m) \/ DeleteShort(m) \/ Route(m)
    PROVE  GateInv'
<1>k. RoutingKeys \in Nat \ {0} /\ MaxFaults \in Nat
  BY GateAssumption
<1> DEFINE held == PlaceInv(place[m], stands[m], copies[m], answered[m], failed[m], asked[m])
           Others == \A n \in Messages : n # m =>
               /\ place'[n] = place[n] /\ stands'[n] = stands[n] /\ copies'[n] = copies[n]
               /\ answered'[n] = answered[n] /\ failed'[n] = failed[n] /\ asked'[n] = asked[n]
           after == PlaceInv(place'[m], stands'[m], copies'[m], answered'[m], failed'[m], asked'[m])
<1>1. MessageTypes /\ held
  BY DEF GateInv, MessageInv, MessagesKept
<1>2. SUFFICES UNCHANGED channel /\ MessageTypes' /\ Others /\ after
  BY MessageMoves
<1> DEFINE Outcome == /\ failed' \in [Messages -> Nat] /\ faults' \in 0 .. MaxFaults
                      /\ \A n \in Messages : failed'[n] <= faults' /\ (n # m => failed'[n] = failed[n])
                      /\ failed'[m] >= failed[m] /\ failed[m] \in Nat /\ failed'[m] \in Nat
<1>o. Works \/ Fails(m) => Outcome /\ (Fails(m) => failed'[m] = failed[m] + 1)
  BY <1>1, <1>k, CallOutcome DEF MessageTypes
<1>3. CASE Post(m)
  <2>o. PICK p \in Posts : post' = [post EXCEPT ![m] = p]
    BY <1>3 DEF Post
  <2>p. /\ place' = [place EXCEPT ![m] = "enforce"] /\ stands' = [stands EXCEPT ![m] = TRUE]
        /\ UNCHANGED <<channel, copies, answered, asked>> /\ UNCHANGED <<failed, faults>>
    BY <1>3, Zenon DEF Post, Works, Goto
  <2>q. "enforce" \in Places
    BY DEF Places, Untouched
  <2>1. UNCHANGED channel /\ MessageTypes' /\ Others
    BY <1>1, <2>o, <2>p, <2>q DEF MessageTypes
  <2>2. /\ place'[m] = "enforce" /\ stands'[m] = TRUE
        /\ UNCHANGED <<copies, answered, failed, asked>> /\ place[m] = "unposted"
    BY <1>1, <1>3 DEF Post, Works, Goto, MessageTypes
  <2>3. after
    BY <1>1, <2>2 DEF Untouched, PlaceInv
  <2> QED BY <2>1, <2>3
<1>4. CASE EnforceMaintenance(m)
  <2>1. Works \/ Fails(m)
    BY <1>4 DEF EnforceMaintenance
  <2>o. UNCHANGED stands \/ stands' = [stands EXCEPT ![m] = FALSE]
    BY <1>4, Zenon DEF EnforceMaintenance
  <2>p. place' = [place EXCEPT ![m] = "access"] \/ place' = [place EXCEPT ![m] = "blocked"]
    BY <1>4, Zenon DEF EnforceMaintenance, Goto
  <2>q. UNCHANGED <<channel, post, copies, answered, asked>> /\ Outcome
    BY <1>4, <1>o, <2>1, Zenon DEF EnforceMaintenance
  <2>r. "access" \in Places /\ "blocked" \in Places
    BY DEF Places, Untouched
  <2>2. UNCHANGED channel /\ MessageTypes' /\ Others
    BY <1>1, <2>o, <2>p, <2>q, <2>r DEF MessageTypes
  <2>3. /\ UNCHANGED <<copies, answered, asked>> /\ place[m] = "enforce"
        /\ place'[m] = "blocked" \/ (place'[m] = "access" /\ UNCHANGED stands)
    BY <1>1, <1>4 DEF EnforceMaintenance, Goto, MessageTypes
  <2>4. after
    BY <1>1, <2>3 DEF Untouched, PlaceInv
  <2> QED BY <2>2, <2>4
<1>5. CASE Access(m)
  BY <1>1, <1>k, <1>5 DEF Access, Works, Goto, MessageTypes, Places, Untouched, PlaceInv
<1>6. CASE LinkFixups(m)
  BY <1>1, <1>k, <1>6 DEF LinkFixups, Works, Goto, MessageTypes, Places, Untouched, PlaceInv
<1>7. CASE DeleteOriginal(m)
  <2>1. Works \/ Fails(m)
    BY <1>7 DEF DeleteOriginal
  <2> QED BY <1>1, <1>k, <1>7, <2>1, CallOutcome DEF DeleteOriginal, Goto, MessageTypes, Places,
     Untouched, PlaceInv
<1>9. CASE ShortCircuits(m)
  BY <1>1, <1>k, <1>9 DEF ShortCircuits, Works, Goto, MessageTypes, Places, Untouched, PlaceInv
<1>11. CASE DeleteShort(m)
  <2>1. /\ place[m] = "delete short" /\ Goto(m, "done") /\ (Works \/ Fails(m))
        /\ UNCHANGED <<channel, post, copies, answered, asked>>
    BY <1>11 DEF DeleteShort
  <2>2. copies[m] = 1 /\ answered[m] = "none"
    BY <1>1, <2>1 DEF PlaceInv
  <2>3. Outcome /\ asked[m] \in Nat /\ asked[m] < RoutingKeys
    BY <1>1, <1>o, <2>1 DEF PlaceInv, MessageTypes
  <2>4. \A there \in BOOLEAN, lost \in Nat : PlaceInv("done", there, 1, "none", lost, asked[m])
    BY <1>k, <2>3 DEF PlaceInv, Untouched
  <2>5. /\ UNCHANGED channel /\ MessageTypes' /\ Others /\ place'[m] = "done"
        /\ stands'[m] \in BOOLEAN /\ failed'[m] \in Nat
    BY <1>1, <1>11, <2>1, <2>3 DEF DeleteShort, Goto, MessageTypes, Places
  <2> QED BY <2>1, <2>2, <2>4, <2>5
<1>12. CASE Route(m)
  <2>1. Works \/ Fails(m)
    BY <1>12 DEF Route
  <2>2. Outcome
    BY <1>o, <2>1
  <2>4. /\ UNCHANGED <<channel, post, stands, copies>>
        /\ answered' = [answered EXCEPT ![m] = answered'[m]]
        /\ asked' = [asked EXCEPT ![m] = asked'[m]]
        /\ place' = [place EXCEPT ![m] = place'[m]] /\ place'[m] \in Places /\ asked'[m] \in Nat
    <3>1. UNCHANGED <<channel, post, stands, copies>>
      BY <1>12 DEF Route
    <3>2. \/ UNCHANGED asked
          \/ asked' = [asked EXCEPT ![m] = @ + 1]
      BY <1>12 DEF Route
    <3>3. UNCHANGED answered \/ \E a : answered' = [answered EXCEPT ![m] = a]
      BY <1>12 DEF Route
    <3>4. UNCHANGED place \/ place' = [place EXCEPT ![m] = "done"]
      BY <1>12 DEF Route, Goto
    <3>5. asked' = [asked EXCEPT ![m] = asked'[m]] /\ asked'[m] \in Nat
      BY <1>1, <1>k, <3>2 DEF MessageTypes
    <3>6. answered' = [answered EXCEPT ![m] = answered'[m]]
      BY <1>1, <1>k, <3>3 DEF MessageTypes
    <3>7. place' = [place EXCEPT ![m] = place'[m]] /\ place'[m] \in Places
      BY <1>1, <1>k, <3>4 DEF MessageTypes, Places
    <3> QED BY <3>1, <3>5, <3>6, <3>7
  <2>5. UNCHANGED channel /\ MessageTypes' /\ Others
    BY <1>1, <1>k, <2>2, <2>4 DEF MessageTypes
  <2>3. /\ asked'[m] \in Nat /\ asked'[m] <= RoutingKeys
        /\ place'[m] = "done" \/ (place'[m] = "route" /\ asked'[m] < RoutingKeys /\ answered'[m] = answered[m])
        /\ stands'[m] = stands[m] /\ copies'[m] = copies[m]
    BY <1>1, <1>k, <1>12 DEF Route, Goto, MessageTypes, PlaceInv
  <2> QED BY <1>1, <1>k, <1>12, <2>5, <2>3 DEF Route, MessageTypes, Untouched, PlaceInv
<1> QED BY <1>3, <1>4, <1>5, <1>6, <1>7, <1>9, <1>11, <1>12

LEMMA StepGateInv == GateInv /\ [GateNext]_gateVars => GateInv'
<1> SUFFICES ASSUME GateInv, [GateNext]_gateVars PROVE GateInv'
  OBVIOUS
<1>1. ASSUME NEW c \in Commands, Begin(c) \/ Apply(c) \/ SetFlag(c) \/ Remove(c) \/ ClearFlag(c)
      PROVE  GateInv'
  BY <1>1, BeginKeeps, ApplyKeeps, SetFlagKeeps, RemoveKeeps, ClearFlagKeeps
<1>2. CASE UNCHANGED gateVars
  <2>1. MessageInv'
    BY <1>2 DEF gateVars, handler, GateInv, MessageInv, MessageTypes, MessagesKept
  <2>2. ChannelInv'
    BY <1>2 DEF gateVars, channel, GateInv, ChannelInv, CommandTypes, OneOngoing, StopClears,
           StopUnlocks, Ongoing
  <2> QED BY <2>1, <2>2 DEF GateInv
<1> QED BY <1>1, <1>2, ResendKeeps, VideosKeep, MessageKeeps DEF GateNext

\* However the calls of /maintenance and of a message's handler fail and
\* interleave, a stop that worked leaves the channel open, and no single
\* failing call loses what a user wrote (maintenance.go:226-345,
\* xfixup.go:296, video_url.go).
THEOREM NothingLostAtGate == GateSpec => []GateLosesNothing
<1>1. GateInv => GateLosesNothing
  <2> SUFFICES ASSUME GateInv PROVE GateLosesNothing
    OBVIOUS
  <2>1. GateTypes
    BY DEF GateInv, ChannelInv, MessageInv, MessageTypes, CommandTypes, MessagesKept, PlaceInv,
       GateTypes
  <2>2. NothingLost
    <3> SUFFICES ASSUME NEW m \in Messages
                 PROVE  /\ place[m] = "done" /\ ~stands[m] /\ copies[m] = 0 => failed[m] >= 2
                        /\ answered[m] # "none" => stands[m] /\ copies[m] = 0
      BY DEF NothingLost
    <3>1. stands[m] \in BOOLEAN /\ PlaceInv(place[m], stands[m], copies[m], answered[m], failed[m], asked[m])
      BY DEF GateInv, MessageInv, MessageTypes, MessagesKept
    <3>2. place[m] = "done" /\ stands[m] = FALSE /\ copies[m] = 0 => failed[m] >= 2
      BY <3>1, Zenon DEF PlaceInv
    <3>3. answered[m] # "none" => stands[m] = TRUE /\ copies[m] = 0
      BY <3>1, Zenon DEF PlaceInv
    <3> QED BY <3>1, <3>2, <3>3, Zenon
  <2> QED BY <2>1, <2>2 DEF GateInv, ChannelInv, GateLosesNothing
<1> QED BY <1>1, InitGateInv, StepGateInv, PTL DEF GateSpec

-----------------------------------------------------------------------------
(* The pages that a message links to.                                      *)

Counted == now \in 0..MaxClock /\ reads \in 0..MaxReads /\ failures \in 0..MaxFailures

\* What a cache files under a URL is the page that the URL redirects to.
Filed(entries) == \A link \in DOMAIN entries :
    entries[link] \in Entries /\ entries[link].page = Final[link]
CacheFiled == Filed(memory) /\ Filed(redis)

\* Only a page that came from Redis outlives its fetch by more than the TTL.
ExpiresInTime == ~Shared => \A link \in DOMAIN memory :
    memory[link].expires = memory[link].fetched + TTL

KeyTypes ==
    /\ next \in [Extractors -> Nat]
    /\ \A x \in Extractors : next[x] = 0 \/ next[x] < Len(KeysOf[x])
    /\ DOMAIN starts = Extractors
    /\ \A x \in Extractors : starts[x] \in [Range(KeysOf[x]) -> Nat]

\* The keys before the next one were started with once more than the others.
TurnsTaken == \A x \in Extractors : \E n \in Nat : \A i \in DOMAIN KeysOf[x] :
    starts[x][KeysOf[x][i]] = n + IF i <= next[x] THEN 1 ELSE 0

ReaderTypes ==
    /\ reader \in [Replies -> {"idle", "lookup", "store", "each", "done"}]
    /\ order \in [Replies -> Orders] /\ warned \in [Replies -> BOOLEAN]
    /\ links \in [Replies -> Seq(DOMAIN Final)]
    /\ todo \in [Replies -> SUBSET DOMAIN Final]
    /\ batches \in [Replies -> SUBSET DOMAIN Final]
    /\ pages \in [Replies -> SUBSET DOMAIN Final]
    /\ served \in [Replies -> SUBSET [page : DOMAIN Final, age : Int]]
    /\ tried \in [Replies -> SUBSET ((DOMAIN Final) \X Extractors \X Nat)]

\* TinyFish is asked for batches only where it has keys.
BatchKeyed == \A r \in Replies : reader[r] \in {"lookup", "store"} =>
    "tinyfish" \in Extractors /\ KeysOf["tinyfish"] # <<>>

ServedInTime == \A r \in Replies : \A s \in served[r] :
    s.page \in pages[r] /\ (~Shared => s.age < TTL)

\* A link of a reply without a warning was read, or is still to be.
NoneDropped == \A r \in Replies : reader[r] # "idle" /\ ~warned[r] =>
    \A i \in DOMAIN links[r] :
        \/ Final[links[r][i]] \in pages[r]
        \/ links[r][i] \in batches[r]
        \/ reader[r] \in {"lookup", "each"} /\ links[r][i] \in todo[r]

DoneEmpty == \A r \in Replies : reader[r] = "done" => batches[r] = {} /\ todo[r] = {}

PagesInv ==
    /\ Counted /\ CacheFiled /\ ExpiresInTime /\ KeyTypes /\ TurnsTaken /\ ReaderTypes
    /\ BatchKeyed /\ ServedInTime /\ NoneDropped /\ DoneEmpty

LEMMA OneOrder == (CHOOSE o \in Orders : TRUE) \in Orders
BY PagesAssumption

LEMMA InitPagesInv == PagesInit => PagesInv
<1> SUFFICES ASSUME PagesInit PROVE PagesInv
  OBVIOUS
<1>1. Counted
  BY PagesAssumption DEF PagesInit, Counted
<1>2. DOMAIN memory = {} /\ DOMAIN redis = {}
  BY DEF PagesInit
<1>3. CacheFiled /\ ExpiresInTime
  BY <1>2 DEF CacheFiled, Filed, ExpiresInTime
<1>4. KeyTypes
  BY DEF PagesInit, KeyTypes
<1>5. TurnsTaken
  <2> SUFFICES ASSUME NEW x \in Extractors
               PROVE \A i \in DOMAIN KeysOf[x] :
                        starts[x][KeysOf[x][i]] = 0 + IF i <= next[x] THEN 1 ELSE 0
    BY DEF TurnsTaken
  <2>1. next[x] = 0 /\ starts[x] = [k \in Range(KeysOf[x]) |-> 0]
    BY DEF PagesInit
  <2>2. DOMAIN KeysOf[x] = 1..Len(KeysOf[x])
    BY PagesAssumption DEF Extractors
  <2> QED
    BY <2>1, <2>2 DEF Range
<1>6. order \in [Replies -> Orders]
  BY OneOrder DEF PagesInit
<1>7. links \in [Replies -> Seq(DOMAIN Final)]
  <2>1. <<>> \in Seq(DOMAIN Final)
    OBVIOUS
  <2> QED
    BY <2>1 DEF PagesInit
<1>8. ReaderTypes
  BY <1>6, <1>7 DEF PagesInit, ReaderTypes
<1>9. BatchKeyed /\ ServedInTime /\ NoneDropped /\ DoneEmpty
  BY DEF PagesInit, BatchKeyed, ServedInTime, NoneDropped, DoneEmpty
<1> QED
  BY <1>1, <1>3, <1>4, <1>5, <1>8, <1>9 DEF PagesInv

-----------------------------------------------------------------------------
(* The cache.                                                              *)

\* What is stored under keys that redirect to its page is filed.
LEMMA StoredIsFiled ==
    ASSUME Filed(memory), ExpiresInTime, NEW keys, NEW entry \in Entries,
           \A link \in keys : Final[link] = entry.page,
           ~Shared => entry.expires = entry.fetched + TTL,
           StoreMemory(keys, entry)
    PROVE  Filed(memory)' /\ ExpiresInTime'
<1>1. PICK live \in SUBSET DOMAIN memory :
          memory' = [link \in live \cup keys |->
                        IF link \in keys THEN entry ELSE memory[link]]
  BY DEF StoreMemory, Alive
<1>2. DOMAIN memory' = live \cup keys
  BY <1>1
<1>3. \A link \in DOMAIN memory' :
          (link \in keys /\ memory'[link] = entry)
          \/ (link \in DOMAIN memory /\ memory'[link] = memory[link])
  BY <1>1, <1>2
<1>4. Filed(memory)'
  BY <1>3 DEF Filed, Entries
<1>5. ExpiresInTime'
  BY <1>3 DEF ExpiresInTime
<1> QED
  BY <1>4, <1>5

LEMMA KeepFiles ==
    ASSUME CacheFiled, ExpiresInTime, Counted, NEW l \in DOMAIN Final, Keep(l)
    PROVE  CacheFiled' /\ ExpiresInTime'
<1> DEFINE keys == {l, Final[l]}
           entry == [page |-> Final[l], fetched |-> now, expires |-> now + TTL]
<1>1. entry \in Entries
  BY PagesAssumption DEF Entries, Counted
<1>2. \A link \in keys : Final[link] = entry.page
  BY PagesAssumption
<1>3. entry.expires = entry.fetched + TTL
  OBVIOUS
<1>4. StoreMemory(keys, entry) /\ StoreRedis(keys, entry)
  BY DEF Keep
<1> HIDE DEF keys, entry
<1>5. Filed(memory)' /\ ExpiresInTime'
  BY <1>1, <1>2, <1>3, <1>4, StoredIsFiled DEF CacheFiled
<1>6. Filed(redis)'
  BY <1>1, <1>2, <1>4 DEF StoreRedis, CacheFiled, Filed, Entries
<1> QED
  BY <1>5, <1>6 DEF CacheFiled

LEMMA FoundIsFiled ==
    ASSUME CacheFiled, ExpiresInTime, Counted, NEW link, NEW e \in Found(link)
    PROVE  /\ e \in Entries /\ e.page = Final[link]
           /\ ~Shared => now - e.fetched < TTL
<1>1. (link \in Alive(memory) /\ e = memory[link])
      \/ (Shared /\ link \in Alive(redis) /\ e = redis[link])
  BY DEF Found
<1>2. e \in Entries /\ e.page = Final[link]
  BY <1>1 DEF CacheFiled, Filed, Alive
<1>3. ASSUME ~Shared PROVE now - e.fetched < TTL
  <2>1. e.expires = e.fetched + TTL /\ now < e.expires
    BY <1>1, <1>3 DEF ExpiresInTime, Alive
  <2>2. now \in Int /\ e.fetched \in Int /\ TTL \in Int
    BY <1>2, PagesAssumption DEF Entries, Counted
  <2> QED
    BY <2>1, <2>2
<1> QED
  BY <1>2, <1>3

LEMMA LookUpFiles ==
    ASSUME CacheFiled, ExpiresInTime, Counted, NEW link, LookUp(link), UNCHANGED redis
    PROVE  CacheFiled' /\ ExpiresInTime'
<1>1. CASE UNCHANGED memory
  BY <1>1 DEF CacheFiled, ExpiresInTime, Filed
<1>2. CASE /\ link \notin Alive(memory) /\ Shared /\ link \in Alive(redis)
           /\ StoreMemory({link}, [redis[link] EXCEPT !.expires = now + TTL])
  <2> DEFINE entry == [redis[link] EXCEPT !.expires = now + TTL]
  <2>1. redis[link] \in Entries /\ redis[link].page = Final[link]
    BY <1>2 DEF CacheFiled, Filed, Alive
  <2>2. entry \in Entries /\ entry.page = Final[link]
    <3>1. now + TTL \in 0..MaxClock + TTL
      BY PagesAssumption DEF Counted
    <3>2. \A e \in Entries : /\ [e EXCEPT !.expires = now + TTL] \in Entries
                             /\ [e EXCEPT !.expires = now + TTL].page = e.page
      BY <3>1 DEF Entries
    <3> QED
      BY <2>1, <3>2
  <2>3. StoreMemory({link}, entry)
    BY <1>2
  <2> HIDE DEF entry
  <2> QED
    BY <1>2, <2>2, <2>3, StoredIsFiled DEF CacheFiled, Filed
<1>3. CASE memory' = [u \in DOMAIN memory \ {link} |-> memory[u]]
  BY <1>3 DEF CacheFiled, ExpiresInTime, Filed
<1> QED
  BY <1>1, <1>2, <1>3 DEF LookUp

-----------------------------------------------------------------------------
(* The keys.                                                               *)

LEMMA FirstRotated ==
    ASSUME KeyTypes, NEW x \in Extractors, KeysOf[x] # <<>>
    PROVE  /\ next[x] + 1 \in DOMAIN KeysOf[x]
           /\ Rotated(x)[1] = KeysOf[x][next[x] + 1]
<1> DEFINE s == KeysOf[x]
           n == next[x]
<1>1. s \in Seq(Range(s)) /\ s # <<>>
  BY PagesAssumption DEF Extractors
<1>2. Len(s) \in Nat /\ Len(s) > 0 /\ DOMAIN s = 1..Len(s)
  BY <1>1
<1>3. n \in Nat /\ n < Len(s)
  BY <1>2 DEF KeyTypes
<1> DEFINE a == SubSeq(s, n + 1, Len(s))
           b == SubSeq(s, 1, n)
<1>4. a \in Seq(Range(s)) /\ Len(a) = Len(s) - n /\ a[1] = s[n + 1]
  <2>1. n + 1 \in 1..Len(s) /\ Len(s) \in 1..Len(s)
    BY <1>2, <1>3
  <2>2. a \in Seq(Range(s)) /\ Len(a) = Len(s) - (n + 1) + 1
    BY <1>1, <2>1
  <2>3. a[1] = s[n + 1]
    BY <1>1, <2>1
  <2>4. Len(s) - (n + 1) + 1 = Len(s) - n
    BY <1>2, <1>3
  <2> HIDE DEF a, s, n
  <2> QED
    BY <2>2, <2>3, <2>4
<1>5. b \in Seq(Range(s))
  BY <1>1, <1>2, <1>3
<1>6. Rotated(x) = a \o b
  BY DEF Rotated
<1> HIDE DEF a, b
<1>7. (a \o b)[1] = a[1]
  BY <1>2, <1>3, <1>4, <1>5
<1> QED
  BY <1>2, <1>3, <1>4, <1>6, <1>7

LEMMA NextTurn ==
    ASSUME NEW n \in Nat, NEW len \in Nat, n < len
    PROVE  (n + 1) % len = IF n + 1 = len THEN 0 ELSE n + 1
<1>1. CASE n + 1 = len
  BY <1>1
<1>2. CASE n + 1 < len
  BY <1>2
<1> QED
  BY <1>1, <1>2

\* Whoever takes turns takes the key whose turn it is.
LEMMA TurnsShared ==
    ASSUME KeyTypes, TurnsTaken, NEW xs \in SUBSET Extractors,
           \A x \in xs : KeysOf[x] # <<>>, TakeTurns(xs)
    PROVE  KeyTypes' /\ TurnsTaken'
<1> DEFINE len(x) == Len(KeysOf[x])
           turn(x) == KeysOf[x][next[x] + 1]
<1>1. \A x \in xs : /\ len(x) \in Nat /\ DOMAIN KeysOf[x] = 1..len(x)
                    /\ next[x] \in Nat /\ next[x] < len(x)
                    /\ next'[x] = IF next[x] + 1 = len(x) THEN 0 ELSE next[x] + 1
  <2> SUFFICES ASSUME NEW x \in xs
               PROVE  /\ len(x) \in Nat /\ DOMAIN KeysOf[x] = 1..len(x)
                      /\ next[x] \in Nat /\ next[x] < len(x)
                      /\ next'[x] = IF next[x] + 1 = len(x) THEN 0 ELSE next[x] + 1
    OBVIOUS
  <2>1. next[x] + 1 \in DOMAIN KeysOf[x]
    BY FirstRotated
  <2>2. len(x) \in Nat /\ DOMAIN KeysOf[x] = 1..len(x)
    BY PagesAssumption DEF Extractors
  <2>3. next[x] \in Nat /\ next[x] < len(x)
    BY <2>1, <2>2 DEF KeyTypes
  <2>4. next'[x] = (next[x] + 1) % len(x)
    BY DEF TakeTurns
  <2> QED
    BY <2>2, <2>3, <2>4, NextTurn
<1>5. \A x \in xs : /\ turn(x) \in Range(KeysOf[x])
                    /\ starts'[x] = [starts[x] EXCEPT ![turn(x)] = @ + 1]
  <2> SUFFICES ASSUME NEW x \in xs
               PROVE  /\ turn(x) \in Range(KeysOf[x])
                      /\ starts'[x] = [starts[x] EXCEPT ![turn(x)] = @ + 1]
    OBVIOUS
  <2>1. next[x] + 1 \in DOMAIN KeysOf[x] /\ Rotated(x)[1] = turn(x)
    BY FirstRotated
  <2> QED
    BY <2>1 DEF TakeTurns, Range
<1> HIDE DEF len, turn
<1>2. \A x \in Extractors \ xs : next'[x] = next[x] /\ starts'[x] = starts[x]
  BY DEF TakeTurns
<1>3. KeyTypes'
  <2>1. DOMAIN next' = Extractors /\ DOMAIN starts' = Extractors
    BY DEF TakeTurns
  <2>2. ASSUME NEW x \in Extractors
        PROVE  /\ next'[x] \in Nat /\ (next'[x] = 0 \/ next'[x] < len(x))
               /\ starts'[x] \in [Range(KeysOf[x]) -> Nat]
    <3>1. CASE x \in xs
      <4>1. next'[x] \in Nat /\ (next'[x] = 0 \/ next'[x] < len(x))
        BY <1>1, <3>1
      <4>2. starts[x] \in [Range(KeysOf[x]) -> Nat]
        BY DEF KeyTypes
      <4>3. \A f \in [Range(KeysOf[x]) -> Nat], k \in Range(KeysOf[x]) :
                [f EXCEPT ![k] = @ + 1]
                \in [Range(KeysOf[x]) -> Nat]
        OBVIOUS
      <4>4. [starts[x] EXCEPT ![turn(x)] = @ + 1] \in [Range(KeysOf[x]) -> Nat]
        BY <1>5, <3>1, <4>2, <4>3
      <4> QED
        BY <1>5, <3>1, <4>1, <4>4
    <3>2. CASE x \notin xs
      BY <1>2, <3>2 DEF KeyTypes, len
    <3> QED
      BY <3>1, <3>2
  <2>3. next' = [x \in Extractors |-> next'[x]]
    BY DEF TakeTurns
  <2> QED
    BY <2>1, <2>2, <2>3 DEF KeyTypes, len
<1>4. TurnsTaken'
  <2> SUFFICES ASSUME NEW x \in Extractors
               PROVE \E n \in Nat : \A i \in DOMAIN KeysOf[x] :
                    starts'[x][KeysOf[x][i]] = n + IF i <= next'[x] THEN 1 ELSE 0
    BY DEF TurnsTaken
  <2>1. PICK n \in Nat : \A i \in DOMAIN KeysOf[x] :
            starts[x][KeysOf[x][i]] = n + IF i <= next[x] THEN 1 ELSE 0
    BY DEF TurnsTaken
  <2>2. CASE x \notin xs
    BY <1>2, <2>1, <2>2
  <2>3. CASE x \in xs
    <3>1. \A i \in DOMAIN KeysOf[x] :
              starts'[x][KeysOf[x][i]] = n + IF i <= next[x] + 1 THEN 1 ELSE 0
      <4> SUFFICES ASSUME NEW i \in DOMAIN KeysOf[x]
                   PROVE starts'[x][KeysOf[x][i]] = n + IF i <= next[x] + 1 THEN 1 ELSE 0
        OBVIOUS
      <4>1. DOMAIN starts[x] = Range(KeysOf[x]) /\ KeysOf[x][i] \in Range(KeysOf[x])
        BY DEF KeyTypes, Range
      <4>2. i = next[x] + 1 <=> KeysOf[x][i] = turn(x)
        BY <1>1, <2>3, PagesAssumption DEF IsInjective, Extractors, turn
      <4>3. starts[x][KeysOf[x][i]] = n + IF i <= next[x] THEN 1 ELSE 0
        BY <2>1
      <4>4. i \in Nat /\ next[x] \in Nat
        BY <1>1, <2>3
      <4>5. CASE i = next[x] + 1
        <5>1. starts'[x][KeysOf[x][i]] = starts[x][KeysOf[x][i]] + 1
          BY <1>5, <2>3, <4>1, <4>2, <4>5
        <5> QED
          BY <4>3, <4>4, <4>5, <5>1
      <4>6. CASE i # next[x] + 1
        <5>1. starts'[x][KeysOf[x][i]] = starts[x][KeysOf[x][i]]
          BY <1>5, <2>3, <4>1, <4>2, <4>6
        <5> QED
          BY <4>3, <4>4, <4>6, <5>1
      <4> QED
        BY <4>5, <4>6
    <3>2. CASE next[x] + 1 = len(x)
      <4>1. \A i \in DOMAIN KeysOf[x] :
                starts'[x][KeysOf[x][i]] = (n + 1) + IF i <= next'[x] THEN 1 ELSE 0
        <5>1. next'[x] = 0 /\ \A i \in DOMAIN KeysOf[x] :
                  i \in Nat /\ i > 0 /\ i <= next[x] + 1
          BY <1>1, <2>3, <3>2
        <5> QED
          BY <3>1, <5>1
      <4>2. n + 1 \in Nat
        OBVIOUS
      <4> QED
        BY <4>1, <4>2
    <3>3. CASE next[x] + 1 # len(x)
      BY <1>1, <2>3, <3>1, <3>3
    <3> QED
      BY <3>2, <3>3
  <2> QED
    BY <2>2, <2>3
<1> QED
  BY <1>3, <1>4

-----------------------------------------------------------------------------
(* The steps.                                                              *)

LEMMA CacheStays ==
    ASSUME CacheFiled, ExpiresInTime, UNCHANGED cacheVars PROVE CacheFiled' /\ ExpiresInTime'
BY DEF CacheFiled, Filed, ExpiresInTime, cacheVars

LEMMA KeysStay ==
    ASSUME KeyTypes, TurnsTaken, UNCHANGED keyVars PROVE KeyTypes' /\ TurnsTaken'
BY DEF KeyTypes, TurnsTaken, keyVars

LEMMA ReadersStay ==
    ASSUME PagesInv, UNCHANGED readerVars
    PROVE  ReaderTypes' /\ BatchKeyed' /\ ServedInTime' /\ NoneDropped' /\ DoneEmpty'
<1>1. ReaderTypes'
  BY DEF PagesInv, ReaderTypes, readerVars
<1>2. BatchKeyed' /\ ServedInTime'
  BY DEF PagesInv, BatchKeyed, ServedInTime, readerVars
<1>3. NoneDropped' /\ DoneEmpty'
  BY DEF PagesInv, NoneDropped, DoneEmpty, readerVars
<1> QED
  BY <1>1, <1>2, <1>3

LEMMA TickKeeps == ASSUME PagesInv, Tick PROVE PagesInv'
<1>1. Counted'
  BY PagesAssumption DEF PagesInv, Counted, Tick
<1>2. CacheFiled' /\ ExpiresInTime'
  BY CacheStays DEF PagesInv, Tick
<1>3. KeyTypes' /\ TurnsTaken'
  BY KeysStay DEF PagesInv, Tick
<1>4. ReaderTypes' /\ BatchKeyed' /\ ServedInTime' /\ NoneDropped' /\ DoneEmpty'
  BY ReadersStay DEF Tick
<1> QED
  BY <1>1, <1>2, <1>3, <1>4 DEF PagesInv

LEMMA RebootKeeps == ASSUME PagesInv, Reboot PROVE PagesInv'
<1>1. Counted'
  BY DEF PagesInv, Counted, Reboot
<1>2. DOMAIN memory' = {} /\ redis' = redis
  BY DEF Reboot
<1>3. CacheFiled' /\ ExpiresInTime'
  BY <1>2 DEF PagesInv, CacheFiled, Filed, ExpiresInTime
<1>4. KeyTypes'
  BY DEF Reboot, KeyTypes
<1>5. TurnsTaken'
  <2> SUFFICES ASSUME NEW x \in Extractors
               PROVE \A i \in DOMAIN KeysOf[x] :
                        starts'[x][KeysOf[x][i]] = 0 + IF i <= next'[x] THEN 1 ELSE 0
    BY DEF TurnsTaken
  <2>1. next'[x] = 0 /\ starts'[x] = [k \in Range(KeysOf[x]) |-> 0]
    BY DEF Reboot
  <2>2. DOMAIN KeysOf[x] = 1..Len(KeysOf[x])
    BY PagesAssumption DEF Extractors
  <2> QED
    BY <2>1, <2>2 DEF Range
<1>6. ReaderTypes' /\ BatchKeyed' /\ ServedInTime' /\ NoneDropped' /\ DoneEmpty'
  BY ReadersStay DEF Reboot
<1> QED
  BY <1>1, <1>3, <1>4, <1>5, <1>6 DEF PagesInv

LEMMA ReadLinksKeeps == ASSUME PagesInv, NEW r \in Replies, ReadLinks(r) PROVE PagesInv'
<1>1. PICK ls \in Requests, o \in Orders :
          /\ Put(links, r, ls) /\ Put(order, r, o)
          /\ Put(todo, r, Valid(ls))
          /\ Put(warned, r, Valid(ls) # Range(ls))
          /\ Put(reader, r, IF Head(o) = "tinyfish" /\ KeysOf["tinyfish"] # <<>>
                            THEN "lookup" ELSE "each")
  BY DEF ReadLinks
<1>2. /\ reads < MaxReads /\ reads' = reads + 1
      /\ UNCHANGED <<now, cacheVars, keyVars, batches, failures>>
      /\ Put(pages, r, {}) /\ Put(served, r, {}) /\ Put(tried, r, {})
  BY DEF ReadLinks
<1>3. /\ ls \in Seq(DOMAIN Final) /\ Valid(ls) \subseteq DOMAIN Final
      /\ DOMAIN ls = 1..Len(ls) /\ \A i \in DOMAIN ls : ls[i] \in Range(ls)
  <2>1. ls \in Seq(DOMAIN Final)
    BY PagesAssumption
  <2> QED
    BY <2>1 DEF Range, Valid
<1>4. Head(o) \in Extractors
  <2>1. o \in Seq(Extractors) /\ o # <<>>
    BY PagesAssumption DEF Extractors
  <2> QED
    BY <2>1
<1>5. Counted'
  BY <1>2, PagesAssumption DEF PagesInv, Counted
<1>6. CacheFiled' /\ ExpiresInTime'
  BY <1>2, CacheStays DEF PagesInv
<1>7. KeyTypes' /\ TurnsTaken'
  BY <1>2, KeysStay DEF PagesInv
<1>8. ReaderTypes'
  <2>1. reader' \in [Replies -> {"idle", "lookup", "store", "each", "done"}]
    BY <1>1 DEF PagesInv, ReaderTypes, Put
  <2>2. order' \in [Replies -> Orders]
    BY <1>1 DEF PagesInv, ReaderTypes, Put
  <2>3. warned' \in [Replies -> BOOLEAN]
    BY <1>1 DEF PagesInv, ReaderTypes, Put
  <2>4. links' \in [Replies -> Seq(DOMAIN Final)]
    BY <1>1, <1>3 DEF PagesInv, ReaderTypes, Put
  <2>5. todo' \in [Replies -> SUBSET DOMAIN Final]
    BY <1>1, <1>3 DEF PagesInv, ReaderTypes, Put
  <2>6. /\ batches' \in [Replies -> SUBSET DOMAIN Final]
        /\ pages' \in [Replies -> SUBSET DOMAIN Final]
    BY <1>2 DEF PagesInv, ReaderTypes, Put
  <2>7. /\ served' \in [Replies -> SUBSET [page : DOMAIN Final, age : Int]]
        /\ tried' \in [Replies -> SUBSET ((DOMAIN Final) \X Extractors \X Nat)]
    BY <1>2 DEF PagesInv, ReaderTypes, Put
  <2> QED
    BY <2>1, <2>2, <2>3, <2>4, <2>5, <2>6, <2>7 DEF ReaderTypes
<1>9. BatchKeyed'
  BY <1>1, <1>4 DEF PagesInv, ReaderTypes, BatchKeyed, Put
<1>10. ServedInTime'
  BY <1>2 DEF PagesInv, ReaderTypes, ServedInTime, Put
<1>11. NoneDropped'
  <2> SUFFICES ASSUME NEW q \in Replies, reader'[q] # "idle", ~warned'[q],
                      NEW i \in DOMAIN links'[q]
               PROVE  \/ Final[links'[q][i]] \in pages'[q]
                      \/ links'[q][i] \in batches'[q]
                      \/ reader'[q] \in {"lookup", "each"} /\ links'[q][i] \in todo'[q]
    BY DEF NoneDropped
  <2>1. CASE q = r
    <3>1. /\ links'[r] = ls /\ todo'[r] = Valid(ls)
          /\ warned'[r] = (Valid(ls) # Range(ls))
          /\ reader'[r] \in {"lookup", "each"}
      BY <1>1 DEF PagesInv, ReaderTypes, Put
    <3> QED
      BY <1>3, <2>1, <3>1
  <2>2. CASE q # r
    <3>1. /\ links'[q] = links[q] /\ todo'[q] = todo[q] /\ warned'[q] = warned[q]
          /\ reader'[q] = reader[q] /\ pages'[q] = pages[q] /\ batches'[q] = batches[q]
      BY <1>1, <1>2, <2>2 DEF PagesInv, ReaderTypes, Put
    <3> QED
      BY <3>1 DEF PagesInv, NoneDropped
  <2> QED
    BY <2>1, <2>2
<1>12. DoneEmpty'
  BY <1>1, <1>2 DEF PagesInv, ReaderTypes, DoneEmpty, Put
<1> QED
  BY <1>5, <1>6, <1>7, <1>8, <1>9, <1>10, <1>11, <1>12 DEF PagesInv

LEMMA LookUpNextKeeps == ASSUME PagesInv, NEW r \in Replies, LookUpNext(r) PROVE PagesInv'
<1> DEFINE cachedAs(e) == [page |-> e.page, age |-> Age(e)]
<1>1. PICK i \in DOMAIN links[r] :
          /\ links[r][i] \in todo[r] /\ LookUp(links[r][i])
          /\ Put(pages, r, pages[r] \cup {e.page : e \in Found(links[r][i])})
          /\ Put(served, r, served[r] \cup {cachedAs(e) : e \in Found(links[r][i])})
          /\ Put(batches, r, IF Found(links[r][i]) = {} THEN batches[r] \cup {links[r][i]}
                             ELSE batches[r])
          /\ Put(todo, r, todo[r] \ {links[r][i]})
  BY DEF LookUpNext
<1>2. /\ reader[r] = "lookup"
      /\ UNCHANGED <<now, redis, keyVars, reader, order, links, warned, tried, reads, failures>>
  BY DEF LookUpNext
<1> DEFINE l == links[r][i]
<1>3. l \in DOMAIN Final /\ l \in todo[r]
  BY <1>1 DEF PagesInv, ReaderTypes
<1>4. \A e \in Found(l) : /\ e.page \in DOMAIN Final /\ e.page = Final[l]
                          /\ Age(e) \in Int /\ (~Shared => Age(e) < TTL)
  BY FoundIsFiled DEF PagesInv, Entries, Age, Counted
<1>5. Counted'
  BY <1>2 DEF PagesInv, Counted
<1>6. CacheFiled' /\ ExpiresInTime'
  BY <1>1, <1>2, LookUpFiles DEF PagesInv
<1>7. KeyTypes' /\ TurnsTaken'
  BY <1>2, KeysStay DEF PagesInv
<1>8. ReaderTypes'
  <2>1. pages' \in [Replies -> SUBSET DOMAIN Final]
    BY <1>1, <1>4 DEF PagesInv, ReaderTypes, Put
  <2>2. {cachedAs(e) : e \in Found(l)} \subseteq [page : DOMAIN Final, age : Int]
    BY <1>4
  <2>3. served' \in [Replies -> SUBSET [page : DOMAIN Final, age : Int]]
    BY <1>1, <2>2 DEF PagesInv, ReaderTypes, Put
  <2>4. /\ batches' \in [Replies -> SUBSET DOMAIN Final]
        /\ todo' \in [Replies -> SUBSET DOMAIN Final]
    BY <1>1, <1>3 DEF PagesInv, ReaderTypes, Put
  <2> QED
    BY <1>2, <2>1, <2>3, <2>4 DEF PagesInv, ReaderTypes
<1>9. BatchKeyed'
  BY <1>2 DEF PagesInv, BatchKeyed
<1>10. /\ \A q \in Replies : q # r => served'[q] = served[q] /\ pages'[q] = pages[q]
                                      /\ batches'[q] = batches[q] /\ todo'[q] = todo[q]
       /\ served'[r] = served[r] \cup {cachedAs(e) : e \in Found(l)}
       /\ pages'[r] = pages[r] \cup {e.page : e \in Found(l)}
       /\ batches'[r] = IF Found(l) = {} THEN batches[r] \cup {l} ELSE batches[r]
       /\ todo'[r] = todo[r] \ {l}
  BY <1>1 DEF PagesInv, ReaderTypes, Put
<1>11. ServedInTime'
  <2> SUFFICES ASSUME NEW q \in Replies, NEW s \in served'[q]
               PROVE  s.page \in pages'[q] /\ (~Shared => s.age < TTL)
    BY DEF ServedInTime
  <2>1. CASE s \in served[q]
    BY <1>10, <2>1 DEF PagesInv, ServedInTime
  <2>2. CASE s \notin served[q]
    <3>1. q = r
      BY <1>10, <2>2
    <3>2. PICK e \in Found(l) : s = cachedAs(e)
      BY <1>10, <2>2, <3>1
    <3>3. s.page = e.page /\ s.age = Age(e)
      BY <3>2
    <3> QED
      BY <1>4, <1>10, <3>1, <3>3
  <2> QED
    BY <2>1, <2>2
<1>12. NoneDropped'
  <2> SUFFICES ASSUME NEW q \in Replies, reader[q] # "idle", ~warned[q],
                      NEW j \in DOMAIN links[q]
               PROVE  \/ Final[links[q][j]] \in pages'[q]
                      \/ links[q][j] \in batches'[q]
                      \/ reader[q] \in {"lookup", "each"} /\ links[q][j] \in todo'[q]
    BY <1>2 DEF NoneDropped
  <2>1. \/ Final[links[q][j]] \in pages[q]
        \/ links[q][j] \in batches[q]
        \/ reader[q] \in {"lookup", "each"} /\ links[q][j] \in todo[q]
    BY DEF PagesInv, NoneDropped
  <2>2. CASE q # r
    BY <1>10, <2>1, <2>2
  <2>3. CASE q = r /\ links[q][j] # l
    BY <1>10, <2>1, <2>3
  <2>4. CASE q = r /\ links[q][j] = l
    BY <1>4, <1>10, <2>4
  <2> QED
    BY <2>2, <2>3, <2>4
<1>13. DoneEmpty'
  BY <1>2, <1>10 DEF PagesInv, DoneEmpty
<1> QED
  BY <1>5, <1>6, <1>7, <1>8, <1>9, <1>11, <1>12, <1>13 DEF PagesInv

LEMMA FetchBatchKeeps == ASSUME PagesInv, NEW r \in Replies, FetchBatch(r) PROVE PagesInv'
<1>1. PICK bad \in SUBSET Batch(r), won \in BOOLEAN :
          LET good == {l \in Batch(r) : won /\ {l, Final[l]} \cap bad = {}}
          IN  /\ failures' \in 0..MaxFailures
              /\ Put(tried, r, IF won THEN tried[r]
                     ELSE tried[r] \cup (Batch(r) \X {"tinyfish"} \X AllKeys("tinyfish")))
              /\ Put(todo, r, good)
              /\ Put(pages, r, pages[r] \cup {Final[l] : l \in good})
              /\ Put(warned, r, warned[r] \/ good # Batch(r))
  BY DEF FetchBatch, Losses
<1>2. /\ reader[r] = "lookup" /\ todo[r] = {} /\ TakeTurns({"tinyfish"})
      /\ Put(batches, r, batches[r] \ Batch(r)) /\ Put(reader, r, "store")
      /\ UNCHANGED <<now, cacheVars, order, links, served, reads>>
  BY DEF FetchBatch
<1> DEFINE good == {l \in Batch(r) : won /\ {l, Final[l]} \cap bad = {}}
<1>3. Batch(r) \subseteq batches[r] /\ batches[r] \subseteq DOMAIN Final
  BY DEF Batch, PagesInv, ReaderTypes
<1>4. /\ "tinyfish" \in Extractors /\ KeysOf["tinyfish"] # <<>>
      /\ AllKeys("tinyfish") \subseteq Nat
  <2>1. "tinyfish" \in Extractors /\ KeysOf["tinyfish"] # <<>>
    BY <1>2 DEF PagesInv, BatchKeyed
  <2>2. DOMAIN KeysOf["tinyfish"] = 1..Len(KeysOf["tinyfish"])
    BY <2>1, PagesAssumption DEF Extractors
  <2> QED
    BY <2>1, <2>2 DEF AllKeys
<1>5. Counted'
  BY <1>1, <1>2 DEF PagesInv, Counted
<1>6. CacheFiled' /\ ExpiresInTime'
  BY <1>2, CacheStays DEF PagesInv
<1>7. KeyTypes' /\ TurnsTaken'
  BY <1>2, <1>4, TurnsShared DEF PagesInv
<1>8. good \subseteq Batch(r) /\ good \subseteq DOMAIN Final
      /\ {Final[l] : l \in good} \subseteq DOMAIN Final
  BY <1>3, PagesAssumption
<1>9. /\ todo' = [todo EXCEPT ![r] = good]
      /\ pages' = [pages EXCEPT ![r] = @ \cup {Final[l] : l \in good}]
      /\ warned' = [warned EXCEPT ![r] = @ \/ good # Batch(r)]
  BY <1>1 DEF PagesInv, ReaderTypes, Put
<1> HIDE DEF good
<1>10. ReaderTypes'
  <2>1. tried' \in [Replies -> SUBSET ((DOMAIN Final) \X Extractors \X Nat)]
    <3> DEFINE more == Batch(r) \X {"tinyfish"} \X AllKeys("tinyfish")
    <3>1. more \subseteq (DOMAIN Final) \X Extractors \X Nat
      BY <1>3, <1>4
    <3>2. tried' = [tried EXCEPT ![r] = IF won THEN tried[r] ELSE tried[r] \cup more]
      BY <1>1 DEF Put
    <3> HIDE DEF more
    <3> QED
      BY <3>1, <3>2 DEF PagesInv, ReaderTypes
  <2>2. /\ todo' \in [Replies -> SUBSET DOMAIN Final]
        /\ pages' \in [Replies -> SUBSET DOMAIN Final]
    BY <1>8, <1>9 DEF PagesInv, ReaderTypes
  <2>3. warned' \in [Replies -> BOOLEAN]
    BY <1>9 DEF PagesInv, ReaderTypes
  <2>4. /\ batches' \in [Replies -> SUBSET DOMAIN Final]
        /\ reader' \in [Replies -> {"idle", "lookup", "store", "each", "done"}]
    BY <1>2 DEF PagesInv, ReaderTypes, Put
  <2> QED
    BY <1>2, <2>1, <2>2, <2>3, <2>4 DEF PagesInv, ReaderTypes
<1>11. BatchKeyed'
  BY <1>2, <1>4 DEF PagesInv, ReaderTypes, BatchKeyed, Put
<1>12. \A q \in Replies : pages[q] \subseteq pages'[q]
  BY <1>9 DEF PagesInv, ReaderTypes
<1>13. ServedInTime'
  BY <1>2, <1>12 DEF PagesInv, ServedInTime
<1>14. NoneDropped'
  <2> SUFFICES ASSUME NEW q \in Replies, reader'[q] # "idle", ~warned'[q],
                      NEW j \in DOMAIN links[q]
               PROVE  \/ Final[links[q][j]] \in pages'[q]
                      \/ links[q][j] \in batches'[q]
                      \/ reader'[q] \in {"lookup", "each"} /\ links[q][j] \in todo'[q]
    BY <1>2 DEF NoneDropped
  <2>1. CASE q # r
    <3>1. /\ reader'[q] = reader[q] /\ warned'[q] = warned[q] /\ pages'[q] = pages[q]
          /\ batches'[q] = batches[q] /\ todo'[q] = todo[q]
      BY <1>2, <1>9, <2>1 DEF PagesInv, ReaderTypes, Put
    <3> QED
      BY <3>1 DEF PagesInv, NoneDropped
  <2>2. CASE q = r
    <3>1. ~warned[r] /\ good = Batch(r)
      BY <1>9, <2>2 DEF PagesInv, ReaderTypes
    <3>2. /\ pages'[r] = pages[r] \cup {Final[l] : l \in good}
          /\ batches'[r] = batches[r] \ Batch(r)
      BY <1>2, <1>9 DEF PagesInv, ReaderTypes, Put
    <3>3. Final[links[r][j]] \in pages[r] \/ links[r][j] \in batches[r]
      BY <1>2, <2>2, <3>1 DEF PagesInv, NoneDropped
    <3> QED
      BY <2>2, <3>1, <3>2, <3>3
  <2> QED
    BY <2>1, <2>2
<1>15. DoneEmpty'
  BY <1>2, <1>9 DEF PagesInv, ReaderTypes, DoneEmpty, Put
<1> QED
  BY <1>5, <1>6, <1>7, <1>10, <1>11, <1>13, <1>14, <1>15 DEF PagesInv

LEMMA StoreNextKeeps == ASSUME PagesInv, NEW r \in Replies, StoreNext(r) PROVE PagesInv'
<1>1. PICK l \in todo[r] : Keep(l) /\ Put(todo, r, todo[r] \ {l})
  BY DEF StoreNext
<1>2. /\ reader[r] = "store"
      /\ UNCHANGED <<now, keyVars, reader, order, links, batches, pages, served, warned, tried,
                     reads, failures>>
  BY DEF StoreNext
<1>3. Counted'
  BY <1>2 DEF PagesInv, Counted
<1>4. CacheFiled' /\ ExpiresInTime'
  <2>1. l \in DOMAIN Final
    BY <1>1 DEF PagesInv, ReaderTypes
  <2> QED
    BY <1>1, <2>1, KeepFiles DEF PagesInv
<1>5. KeyTypes' /\ TurnsTaken'
  BY <1>2, KeysStay DEF PagesInv
<1>6. ReaderTypes'
  BY <1>1, <1>2 DEF PagesInv, ReaderTypes, Put
<1>7. BatchKeyed' /\ ServedInTime'
  BY <1>2 DEF PagesInv, BatchKeyed, ServedInTime
<1>8. NoneDropped'
  BY <1>1, <1>2 DEF PagesInv, ReaderTypes, NoneDropped, Put
<1>9. DoneEmpty'
  BY <1>1, <1>2 DEF PagesInv, ReaderTypes, DoneEmpty, Put
<1> QED
  BY <1>3, <1>4, <1>5, <1>6, <1>7, <1>8, <1>9 DEF PagesInv

\* Moving on, where nothing is left to do.
LEMMA MoveKeeps ==
    ASSUME PagesInv, NEW r \in Replies,
           todo[r] = {} /\ reader[r] \in {"store", "lookup", "each"},
           \/ reader[r] = "store" /\ Put(reader, r, "lookup")
           \/ batches[r] = {} /\ Put(reader, r, "done"),
           UNCHANGED <<now, cacheVars, keyVars, order, links, todo, batches, pages, served,
                       warned, tried, reads, failures>>
    PROVE  PagesInv'
<1>1. Counted'
  BY DEF PagesInv, Counted
<1>2. CacheFiled' /\ ExpiresInTime'
  BY CacheStays DEF PagesInv
<1>3. KeyTypes' /\ TurnsTaken'
  BY KeysStay DEF PagesInv
<1>4. ReaderTypes'
  BY DEF PagesInv, ReaderTypes, Put
<1>5. BatchKeyed'
  BY DEF PagesInv, ReaderTypes, BatchKeyed, Put
<1>6. ServedInTime'
  BY DEF PagesInv, ServedInTime
<1>7. NoneDropped'
  BY DEF PagesInv, ReaderTypes, NoneDropped, Put
<1>8. DoneEmpty'
  BY DEF PagesInv, ReaderTypes, DoneEmpty, Put
<1> QED
  BY <1>1, <1>2, <1>3, <1>4, <1>5, <1>6, <1>7, <1>8 DEF PagesInv

LEMMA ReplyLeavesKeeps == ASSUME PagesInv, NEW r \in Replies, ReplyLeaves(r) PROVE PagesInv'
<1>1. Counted'
  BY DEF PagesInv, Counted, ReplyLeaves
<1>2. CacheFiled' /\ ExpiresInTime'
  BY CacheStays DEF PagesInv, ReplyLeaves
<1>3. KeyTypes' /\ TurnsTaken'
  BY KeysStay DEF PagesInv, ReplyLeaves
<1>4. ReaderTypes'
  <2>1. <<>> \in Seq(DOMAIN Final)
    OBVIOUS
  <2> QED
    BY <2>1 DEF PagesInv, ReaderTypes, ReplyLeaves, Put
<1>5. BatchKeyed' /\ DoneEmpty'
  BY DEF PagesInv, ReaderTypes, BatchKeyed, DoneEmpty, ReplyLeaves, Put
<1>6. ServedInTime'
  BY DEF PagesInv, ReaderTypes, ServedInTime, ReplyLeaves, Put
<1>7. NoneDropped'
  BY DEF PagesInv, ReaderTypes, NoneDropped, ReplyLeaves, Put
<1> QED
  BY <1>1, <1>2, <1>3, <1>4, <1>5, <1>6, <1>7 DEF PagesInv

LEMMA FetchEachKeeps == ASSUME PagesInv, NEW r \in Replies, FetchEach(r) PROVE PagesInv'
<1>1. PICK l \in todo[r], n \in 1..Len(order[r]) + 1 :
         LET won == n <= Len(order[r])
             earlier == {x \in {order[r][i] : i \in 1..n - 1} : KeysOf[x] # <<>>}
             winner == IF won THEN {order[r][n]} ELSE {}
             cached == "tinyfish" \in winner /\ Found(l) # {}
         IN  /\ \A x \in winner : KeysOf[x] # <<>>
             /\ failures' \in 0..MaxFailures /\ TakeTurns(earlier \cup winner)
             /\ Put(tried, r, tried[r] \cup UNION {{l} \X {x} \X AllKeys(x) : x \in earlier})
             /\ Put(warned, r, warned[r] \/ ~won)
             /\ Put(pages, r, pages[r] \cup {Final[l] : x \in winner})
             /\ \/ "tinyfish" \notin winner /\ UNCHANGED cacheVars
                \/ "tinyfish" \in winner /\ Found(l) = {} /\ Keep(l)
                \/ cached /\ LookUp(l) /\ UNCHANGED redis
             /\ Put(served, r, served[r] \cup
                    {[page |-> e.page, age |-> Age(e)] : e \in IF cached THEN Found(l) ELSE {}})
             /\ Put(todo, r, todo[r] \ {l})
  BY DEF FetchEach, Losses
<1>2. reader[r] = "each" /\ UNCHANGED <<now, reader, order, links, batches, reads>>
  BY DEF FetchEach
<1> DEFINE won == n <= Len(order[r])
           earlier == {x \in {order[r][i] : i \in 1..n - 1} : KeysOf[x] # <<>>}
           winner == IF won THEN {order[r][n]} ELSE {}
           hits == IF "tinyfish" \in winner /\ Found(l) # {} THEN Found(l) ELSE {}
           cachedAs(e) == [page |-> e.page, age |-> Age(e)]
<1>3. l \in DOMAIN Final /\ Final[l] \in DOMAIN Final
  BY PagesAssumption DEF PagesInv, ReaderTypes
<1>4. earlier \cup winner \subseteq Extractors /\ \A x \in earlier \cup winner : KeysOf[x] # <<>>
  <2>1. order[r] \in Seq(Extractors)
    BY PagesAssumption DEF PagesInv, ReaderTypes, Extractors
  <2>2. DOMAIN order[r] = 1..Len(order[r]) /\ Len(order[r]) \in Nat
        /\ \A i \in 1..Len(order[r]) : order[r][i] \in Extractors
    BY <2>1
  <2> QED
    BY <1>1, <2>2
<1>5. \A x \in earlier : AllKeys(x) \subseteq Nat
  <2>1. \A x \in Extractors : DOMAIN KeysOf[x] = 1..Len(KeysOf[x])
    BY PagesAssumption DEF Extractors
  <2> QED
    BY <1>4, <2>1 DEF AllKeys
<1>6. /\ warned' = [warned EXCEPT ![r] = @ \/ ~won]
      /\ pages' = [pages EXCEPT ![r] = @ \cup {Final[l] : x \in winner}]
      /\ served' = [served EXCEPT ![r] = @ \cup {cachedAs(e) : e \in hits}]
      /\ todo' = [todo EXCEPT ![r] = @ \ {l}]
      /\ TakeTurns(earlier \cup winner) /\ failures' \in 0..MaxFailures
      /\ tried' = [tried EXCEPT ![r] = @ \cup UNION {{l} \X {x} \X AllKeys(x) : x \in earlier}]
  BY <1>1 DEF Put
<1>7. CacheFiled' /\ ExpiresInTime'
  BY <1>1, <1>3, CacheStays, KeepFiles, LookUpFiles DEF PagesInv
<1>8. \A e \in hits : /\ e.page = Final[l] /\ Age(e) \in Int /\ (~Shared => Age(e) < TTL)
                      /\ winner # {}
  BY FoundIsFiled DEF PagesInv, Entries, Age, Counted
<1> HIDE DEF earlier, winner, hits
<1>9. Counted'
  BY <1>2, <1>6 DEF PagesInv, Counted
<1>10. KeyTypes' /\ TurnsTaken'
  BY <1>4, <1>6, TurnsShared DEF PagesInv
<1>11. ReaderTypes'
  <2>1. tried' \in [Replies -> SUBSET ((DOMAIN Final) \X Extractors \X Nat)]
    <3> DEFINE more == UNION {{l} \X {x} \X AllKeys(x) : x \in earlier}
    <3>1. \A x \in earlier : {l} \X {x} \X AllKeys(x) \subseteq (DOMAIN Final) \X Extractors \X Nat
      BY <1>3, <1>4, <1>5
    <3>2. more \subseteq (DOMAIN Final) \X Extractors \X Nat
      BY <3>1
    <3> HIDE DEF more
    <3> QED
      BY <1>6, <3>2 DEF PagesInv, ReaderTypes, more
  <2>2. pages' \in [Replies -> SUBSET DOMAIN Final]
    BY <1>3, <1>6 DEF PagesInv, ReaderTypes
  <2>3. {cachedAs(e) : e \in hits} \subseteq [page : DOMAIN Final, age : Int]
    BY <1>3, <1>8
  <2>4. served' \in [Replies -> SUBSET [page : DOMAIN Final, age : Int]]
    BY <1>6, <2>3 DEF PagesInv, ReaderTypes
  <2>5. warned' \in [Replies -> BOOLEAN]
    BY <1>6 DEF PagesInv, ReaderTypes
  <2>6. todo' \in [Replies -> SUBSET DOMAIN Final]
    BY <1>6 DEF PagesInv, ReaderTypes
  <2> QED
    BY <1>2, <2>1, <2>2, <2>4, <2>5, <2>6 DEF PagesInv, ReaderTypes
<1>12. BatchKeyed'
  BY <1>2 DEF PagesInv, BatchKeyed
<1>13. /\ \A q \in Replies : q # r => served'[q] = served[q] /\ pages'[q] = pages[q]
                                      /\ warned'[q] = warned[q] /\ todo'[q] = todo[q]
       /\ served'[r] = served[r] \cup {cachedAs(e) : e \in hits}
       /\ pages'[r] = pages[r] \cup {Final[l] : x \in winner}
       /\ todo'[r] = todo[r] \ {l}
  BY <1>6 DEF PagesInv, ReaderTypes
<1>14. ServedInTime'
  <2> SUFFICES ASSUME NEW q \in Replies, NEW s \in served'[q]
               PROVE  s.page \in pages'[q] /\ (~Shared => s.age < TTL)
    BY DEF ServedInTime
  <2>1. CASE s \in served[q]
    BY <1>13, <2>1 DEF PagesInv, ServedInTime
  <2>2. CASE s \notin served[q]
    <3>1. q = r
      BY <1>13, <2>2
    <3>2. PICK e \in hits : s = cachedAs(e)
      BY <1>13, <2>2, <3>1
    <3>3. s.page = e.page /\ s.age = Age(e)
      BY <3>2
    <3> QED
      BY <1>8, <1>13, <3>1, <3>3
  <2> QED
    BY <2>1, <2>2
<1>15. NoneDropped'
  <2> SUFFICES ASSUME NEW q \in Replies, reader[q] # "idle", ~warned'[q],
                      NEW j \in DOMAIN links[q]
               PROVE  \/ Final[links[q][j]] \in pages'[q]
                      \/ links[q][j] \in batches[q]
                      \/ reader[q] \in {"lookup", "each"} /\ links[q][j] \in todo'[q]
    BY <1>2 DEF NoneDropped
  <2>1. CASE q # r
    BY <1>13, <2>1 DEF PagesInv, NoneDropped
  <2>2. CASE q = r
    <3>1. ~warned[r] /\ won
      BY <1>6, <2>2 DEF PagesInv, ReaderTypes
    <3>2. Final[l] \in pages'[r]
      BY <1>13, <3>1 DEF winner
    <3>3. \/ Final[links[r][j]] \in pages[r]
          \/ links[r][j] \in batches[r]
          \/ reader[r] \in {"lookup", "each"} /\ links[r][j] \in todo[r]
      BY <2>2, <3>1 DEF PagesInv, NoneDropped
    <3> QED
      BY <1>13, <2>2, <3>2, <3>3
  <2> QED
    BY <2>1, <2>2
<1>16. DoneEmpty'
  BY <1>2, <1>13 DEF PagesInv, DoneEmpty
<1> QED
  BY <1>7, <1>9, <1>10, <1>11, <1>12, <1>14, <1>15, <1>16 DEF PagesInv

LEMMA StepPagesInv == PagesInv /\ [PagesNext]_pagesVars => PagesInv'
<1> SUFFICES ASSUME PagesInv, [PagesNext]_pagesVars PROVE PagesInv'
  OBVIOUS
<1>1. CASE Tick \/ Reboot
  BY <1>1, TickKeeps, RebootKeeps
<1>2. ASSUME NEW r \in Replies,
             \/ ReadLinks(r) \/ LookUpNext(r) \/ FetchBatch(r) \/ StoreNext(r)
             \/ FetchEach(r) \/ ReplyLeaves(r)
      PROVE  PagesInv'
  BY <1>2, ReadLinksKeeps, LookUpNextKeeps, FetchBatchKeeps, StoreNextKeeps, FetchEachKeeps,
     ReplyLeavesKeeps
<1>3. ASSUME NEW r \in Replies, EndBatch(r) \/ EndReading(r) PROVE PagesInv'
  <2>1. /\ todo[r] = {} /\ reader[r] \in {"store", "lookup", "each"}
        /\ \/ reader[r] = "store" /\ Put(reader, r, "lookup")
           \/ batches[r] = {} /\ Put(reader, r, "done")
        /\ UNCHANGED <<now, cacheVars, keyVars, order, links, todo, batches, pages, served,
                       warned, tried, reads, failures>>
    BY <1>3 DEF EndBatch, EndReading
  <2> QED
    BY <2>1, MoveKeeps
<1>4. CASE UNCHANGED pagesVars
  <2>1. UNCHANGED <<now, cacheVars, keyVars, readerVars, reads, failures>>
    BY <1>4 DEF pagesVars
  <2>2. Counted'
    BY <2>1 DEF PagesInv, Counted
  <2> QED
    BY <2>1, <2>2, CacheStays, KeysStay, ReadersStay DEF PagesInv
<1> QED
  BY <1>1, <1>2, <1>3, <1>4 DEF PagesNext

LEMMA InvServesLinks == PagesInv => LinksServed
<1> SUFFICES ASSUME PagesInv PROVE LinksServed
  OBVIOUS
<1>1. PagesTypes
  <2>1. Counted /\ \A entries \in {memory, redis} : Filed(entries)
    BY DEF PagesInv, CacheFiled
  <2>2. ASSUME NEW x \in Extractors PROVE next[x] = 0 \/ next[x] \in 0..Len(KeysOf[x]) - 1
    <3>1. next[x] \in Nat /\ (next[x] = 0 \/ next[x] < Len(KeysOf[x]))
      BY DEF PagesInv, KeyTypes
    <3>2. Len(KeysOf[x]) \in Nat
      BY PagesAssumption DEF Extractors
    <3> QED
      BY <3>1, <3>2
  <2>3. ASSUME NEW r \in Replies
        PROVE  /\ todo[r] \cup batches[r] \cup pages[r] \subseteq DOMAIN Final
               /\ \A s \in served[r] : s.page \in pages[r]
               /\ \A t \in tried[r] : t[2] \in Extractors
    BY DEF PagesInv, ReaderTypes, ServedInTime
  <2>4. /\ reader \in [Replies -> {"idle", "lookup", "store", "each", "done"}]
        /\ order \in [Replies -> Orders] /\ warned \in [Replies -> BOOLEAN]
    BY DEF PagesInv, ReaderTypes
  <2> QED
    BY <2>1, <2>2, <2>3, <2>4 DEF PagesTypes, Counted, Filed
<1>2. LinkReadOrWarned
  <2> SUFFICES ASSUME NEW r \in Replies, reader[r] = "done", ~warned[r], NEW i \in DOMAIN links[r]
               PROVE  Final[links[r][i]] \in pages[r]
    BY DEF LinkReadOrWarned
  <2>1. batches[r] = {} /\ todo[r] = {}
    BY DEF PagesInv, DoneEmpty
  <2> QED
    BY <2>1 DEF PagesInv, NoneDropped
<1>3. KeysShareRequests
  <2> SUFFICES ASSUME NEW x \in Extractors, NEW j \in Range(KeysOf[x]), NEW k \in Range(KeysOf[x])
               PROVE  starts[x][j] <= starts[x][k] + 1
    BY DEF KeysShareRequests
  <2>1. PICK n \in Nat : \A i \in DOMAIN KeysOf[x] :
            starts[x][KeysOf[x][i]] = n + IF i <= next[x] THEN 1 ELSE 0
    BY DEF PagesInv, TurnsTaken
  <2>2. \A key \in Range(KeysOf[x]) : starts[x][key] \in {n, n + 1}
    BY <2>1 DEF Range
  <2> QED
    BY <2>2
<1>4. ~Shared => PagesAreFresh
  BY DEF PagesInv, ServedInTime, PagesAreFresh
<1> QED
  BY <1>1, <1>2, <1>3, <1>4 DEF LinksServed

\* Every link is read or warned about, the keys of an extractor take turns, and
\* without Redis no cached page is served past its TTL, for any replies, links,
\* redirects, extraction orders, keys and sizes of cache and batch (website.go,
\* api_keys.go, tinyfish_fetch_cache.go).
THEOREM EveryLinkServed == PagesSpec => []LinksServed
<1>1. PagesInit => PagesInv
  BY InitPagesInv
<1>2. PagesInv /\ [PagesNext]_pagesVars => PagesInv'
  BY StepPagesInv
<1>3. PagesInv => LinksServed
  BY InvServesLinks
<1> QED
  BY <1>1, <1>2, <1>3, PTL DEF PagesSpec

-----------------------------------------------------------------------------
(* The export of a channel.                                                 *)

Stages == {"validate", "page", "append", "render", "file", "text", "done"}
Visible(id) == history[id] > 0 /\ id \notin deleted

HistoryTypes ==
    /\ history \in Seq(Nat) /\ deleted \subseteq DOMAIN history
    /\ last \in Nat /\ last <= Len(history) /\ before \in Nat
    /\ page \subseteq DOMAIN history /\ kept \in Seq(DOMAIN history)

StageTypes ==
    /\ stage \in Stages /\ full \in BOOLEAN /\ dead \in BOOLEAN
    /\ attempt \in 0 .. Attempts - 1
    /\ losses \in 0 .. MaxLosses /\ changes \in 0 .. MaxChanges

\* What is kept comes from users, newest first.
KeptInOrder ==
    /\ \A i, j \in DOMAIN kept : i < j => kept[i] > kept[j]
    /\ \A i \in DOMAIN kept : history[kept[i]] > 0

\* The reading goes down: what is left of the page is older than what is kept,
\* and nothing older than the page has been seen.
GoesDown ==
    /\ stage = "validate" => before = 0
    /\ before = 0 => kept = <<>> /\ page = {} /\ ~full
    /\ stage = "page" \/ full => page = {}
    /\ stage \in {"page", "append"} => \A i \in DOMAIN kept :
          kept[i] >= before /\ \A id \in page : id < kept[i]
    /\ stage = "page" => ~full
    /\ \A id \in page : id >= before

\* While messages still fit, all that was passed is kept or on the page.
AllPassed ==
    stage \in {"page", "append"} /\ ~full /\ before # 0 =>
        \A id \in 1 .. last : Visible(id) /\ id >= before => id \in Range(kept) \cup page

NoGap == kept # <<>> =>
    \A id \in 1 .. last : Visible(id) /\ id > kept[Len(kept)] => id \in Range(kept)

\* What is told, and how many calls have failed.
ToldOnce ==
    /\ stage # "done" => outcome = {}
    /\ outcome \in {{}, {"file"}, {"text"}}
    /\ stage = "file" \/ "file" \in outcome => kept # <<>> /\ tokens <= budget
    /\ dead \/ (stage = "text" /\ kept # <<>>) => losses >= 1
    /\ stage = "done" /\ outcome = {} /\ kept # <<>> => losses >= 2

ExportInv ==
    HistoryTypes /\ StageTypes /\ KeptInOrder /\ GoesDown /\ AllPassed /\ NoGap /\ ToldOnce

LEMMA InitExportInv == ExportInit => ExportInv
<1> SUFFICES ASSUME ExportInit PROVE ExportInv
  OBVIOUS
<1>1. history \in Seq(Nat) /\ Len(history) \in Nat
  BY ExportAssumption DEF ExportInit
<1>2. kept = <<>> /\ kept \in Seq(DOMAIN history)
  BY DEF ExportInit
<1>3. HistoryTypes
  BY <1>1, <1>2 DEF ExportInit, HistoryTypes
<1>4. StageTypes
  <2>1. 0 \in 0 .. Attempts - 1 /\ 0 \in 0 .. MaxLosses /\ 0 \in 0 .. MaxChanges
    BY ExportAssumption
  <2> QED
    BY <2>1 DEF ExportInit, StageTypes, Stages
<1>5. DOMAIN kept = {}
  BY <1>2
<1>6. KeptInOrder /\ GoesDown
  BY <1>2, <1>5 DEF ExportInit, KeptInOrder, GoesDown
<1>7. AllPassed /\ NoGap
  BY <1>2 DEF ExportInit, AllPassed, NoGap
<1>8. ToldOnce
  BY <1>2 DEF ExportInit, ToldOnce
<1> QED
  BY <1>3, <1>4, <1>6, <1>7, <1>8 DEF ExportInv

LEMMA KeptAreIds ==
    ASSUME HistoryTypes
    PROVE  /\ Len(kept) \in Nat /\ DOMAIN kept = 1 .. Len(kept)
           /\ Len(history) \in Nat /\ DOMAIN history = 1 .. Len(history)
           /\ \A i \in DOMAIN kept : kept[i] \in DOMAIN history /\ kept[i] \in Nat
           /\ \A id \in DOMAIN history : history[id] \in Nat
           /\ kept # <<>> => Len(kept) \in DOMAIN kept
BY DEF HistoryTypes

\* Others post and delete at the end and in what the bot has passed or will pass.
LEMMA ChangeKeeps == ASSUME ExportInv, Change PROVE ExportInv'
<1>1. /\ stage # "done" /\ changes < MaxChanges /\ changes' = changes + 1
      /\ UNCHANGED <<budget, stage, reading, dead, outcome, losses>>
  BY DEF Change
<1>2. HistoryTypes
  BY DEF ExportInv
<1>3. /\ history' \in Seq(Nat) /\ deleted' \subseteq DOMAIN history' /\ deleted \subseteq deleted'
      /\ DOMAIN history \subseteq DOMAIN history' /\ Len(history) <= Len(history')
      /\ \A id \in DOMAIN history : history'[id] = history[id]
  <2>1. CASE \E t \in {0, 1} : history' = Append(history, t) /\ UNCHANGED deleted
    <3>1. PICK t \in {0, 1} : history' = Append(history, t) /\ UNCHANGED deleted
      BY <2>1
    <3>2. history \in Seq(Nat) /\ t \in Nat
      BY <1>2 DEF HistoryTypes
    <3>3. /\ history' \in Seq(Nat) /\ Len(history') = Len(history) + 1
          /\ \A id \in 1 .. Len(history) : history'[id] = history[id]
      BY <3>1, <3>2
    <3>4. /\ DOMAIN history = 1 .. Len(history) /\ DOMAIN history' = 1 .. Len(history')
          /\ Len(history) \in Nat
      BY <3>2, <3>3
    <3>5. DOMAIN history \subseteq DOMAIN history' /\ Len(history) <= Len(history')
      BY <3>3, <3>4
    <3> QED
      BY <1>2, <3>1, <3>3, <3>4, <3>5 DEF HistoryTypes
  <2>2. CASE \E id \in DOMAIN history \ deleted :
                deleted' = deleted \cup {id} /\ UNCHANGED history
    BY <1>2, <2>2, KeptAreIds DEF HistoryTypes
  <2> QED
    BY <2>1, <2>2 DEF Change
<1>4. HistoryTypes'
  <2>1. kept' \in Seq(DOMAIN history')
    BY <1>1, <1>2, <1>3 DEF HistoryTypes, reading
  <2>2. last' \in Nat /\ last' <= Len(history')
    <3>1. Len(history') \in Nat
      BY <1>3
    <3> QED
      BY <1>1, <1>2, <1>3, <3>1, KeptAreIds DEF HistoryTypes, reading
  <2> QED
    BY <1>1, <1>2, <1>3, <2>1, <2>2 DEF HistoryTypes, reading
<1>5. \A id \in DOMAIN history : Visible(id)' => Visible(id)
  BY <1>3 DEF Visible
<1>6. \A id \in 1 .. last : id \in DOMAIN history
  BY <1>2, KeptAreIds DEF HistoryTypes
<1>7. StageTypes'
  BY <1>1, ExportAssumption DEF ExportInv, StageTypes, reading
<1>8. KeptInOrder'
  BY <1>1, <1>2, <1>3, KeptAreIds DEF ExportInv, KeptInOrder, reading
<1>9. GoesDown'
  BY <1>1 DEF ExportInv, GoesDown, reading
<1>10. AllPassed'
  BY <1>1, <1>5, <1>6 DEF ExportInv, AllPassed, reading
<1>11. NoGap'
  BY <1>1, <1>5, <1>6 DEF ExportInv, NoGap, reading
<1>12. ToldOnce'
  BY <1>1 DEF ExportInv, ToldOnce, reading
<1> QED
  BY <1>4, <1>7, <1>8, <1>9, <1>10, <1>11, <1>12 DEF ExportInv

LEMMA ValidateKeeps == ASSUME ExportInv, Validate PROVE ExportInv'
<1>1. /\ stage = "validate" /\ stage' \in {"page", "text"}
      /\ losses' \in 0 .. MaxLosses
      /\ UNCHANGED <<history, deleted, budget, reading, dead, outcome, changes>>
  BY ExportAssumption DEF Validate, GoOn, Loses, LosesNone, ExportInv, StageTypes
<1>2. before = 0 /\ kept = <<>> /\ page = {} /\ ~full
  BY <1>1 DEF ExportInv, GoesDown
<1>3. DOMAIN kept = {}
  BY <1>2
<1>4. HistoryTypes'
  BY <1>1 DEF ExportInv, HistoryTypes, reading
<1>5. StageTypes'
  BY <1>1 DEF ExportInv, StageTypes, Stages, reading
<1>6. KeptInOrder' /\ GoesDown'
  BY <1>1, <1>2, <1>3 DEF KeptInOrder, GoesDown, reading
<1>7. AllPassed' /\ NoGap'
  BY <1>1, <1>2 DEF AllPassed, NoGap, reading
<1>8. ToldOnce'
  <2>1. losses \in Nat /\ losses' \in Nat /\ losses' >= losses
    BY ExportAssumption DEF Validate, Loses, LosesNone, ExportInv, StageTypes
  <2> QED
    BY <1>1, <1>2, <2>1 DEF ExportInv, ToldOnce, reading
<1> QED
  BY <1>4, <1>5, <1>6, <1>7, <1>8 DEF ExportInv

LEMMA ReadPageKeeps == ASSUME ExportInv, ReadPage PROVE ExportInv'
<1>1. /\ stage = "page" /\ last' = (IF before = 0 THEN Len(history) ELSE last) /\ page' = Newest
      /\ \/ Newest = {} /\ stage' = "render" /\ before' = before
         \/ /\ before' \in Newest /\ \A id \in Newest : before' <= id
            /\ stage' = "append"
      /\ attempt' = 0
      /\ UNCHANGED <<history, deleted, budget, full, kept, tokens, dead, outcome, losses, changes>>
  BY DEF ReadPage, GoOn, LosesNone
<1>2. HistoryTypes /\ page = {} /\ ~full
  BY <1>1 DEF ExportInv, GoesDown
<1>3. /\ Newest \subseteq DOMAIN history \ deleted /\ DOMAIN history = 1 .. Len(history)
      /\ Len(history) \in Nat /\ \A id \in Newest : before = 0 \/ id < before
  BY <1>2, KeptAreIds DEF Newest
<1>4. before' \in Nat /\ last' \in Nat /\ last' <= Len(history)
  BY <1>1, <1>2, <1>3 DEF HistoryTypes
<1>5. HistoryTypes'
  BY <1>1, <1>2, <1>3, <1>4 DEF HistoryTypes
<1>6. StageTypes'
  <2>1. 0 \in 0 .. Attempts - 1
    BY ExportAssumption
  <2> QED
    BY <1>1, <2>1 DEF ExportInv, StageTypes, Stages
<1>7. KeptInOrder'
  BY <1>1 DEF ExportInv, KeptInOrder
<1>8. \A i \in DOMAIN kept : before # 0 /\ kept[i] >= before /\ kept[i] \in Nat
  <2>1. before = 0 => DOMAIN kept = {}
    BY DEF ExportInv, GoesDown
  <2> QED
    BY <1>1, <1>2, <2>1, KeptAreIds DEF ExportInv, GoesDown
<1>9. GoesDown'
  <2>1. CASE Newest = {}
    <3>1. stage' = "render" /\ before' = before /\ page' = {}
      BY <1>1, <2>1
    <3> QED
      BY <1>1, <3>1 DEF ExportInv, GoesDown
  <2>2. CASE Newest # {}
    <3>1. before' \in Newest /\ (\A id \in Newest : before' <= id) /\ stage' = "append"
      BY <1>1, <2>2
    <3>2. before' # 0 /\ before' \in Nat
      BY <1>3, <3>1
    <3>3. \A i \in DOMAIN kept : kept[i] >= before' /\ \A id \in Newest : id < kept[i]
      <4>1. before \in Nat /\ \A id \in Newest : id \in Nat
        BY <1>2, <1>3 DEF HistoryTypes
      <4>2. \A i \in DOMAIN kept, id \in Newest : id < kept[i]
        BY <1>3, <1>8, <4>1
      <4> QED
        BY <1>8, <3>1, <3>2, <4>2
    <3>4. \A id \in Newest : id >= before'
      BY <1>3, <3>1, <3>2
    <3> QED
      BY <1>1, <1>2, <3>1, <3>2, <3>3, <3>4 DEF GoesDown
  <2> QED
    BY <2>1, <2>2
<1>10. AllPassed'
  <2> SUFFICES ASSUME stage' = "append", NEW id \in 1 .. last', Visible(id), id >= before'
               PROVE  id \in Range(kept) \cup Newest
    BY <1>1 DEF AllPassed, Visible
  <2>1. before' \in Newest
    BY <1>1
  <2>2. id \in DOMAIN history \ deleted
    BY <1>3, <1>4 DEF Visible
  <2>3. CASE before # 0 /\ id >= before
    <3>1. id \in 1 .. last
      BY <1>1, <2>3
    <3> QED
      BY <1>1, <1>2, <2>3, <3>1 DEF ExportInv, AllPassed
  <2>4. CASE before = 0 \/ id < before
    <3> DEFINE ids == {j \in DOMAIN history \ deleted : before = 0 \/ j < before}
               above(x) == {j \in ids : j > x}
    <3>1. id \in ids
      BY <2>2, <2>4
    <3>2. Cardinality(above(before')) < PageSize
      BY <2>1 DEF Newest
    <3>3. IsFiniteSet(1 .. Len(history)) /\ above(before') \subseteq 1 .. Len(history)
      BY <1>3, FS_Interval
    <3>4. above(id) \subseteq above(before')
      BY <1>3, <1>4, <2>2
    <3>5. /\ IsFiniteSet(above(before')) /\ Cardinality(above(id)) <= Cardinality(above(before'))
          /\ Cardinality(above(id)) \in Nat /\ Cardinality(above(before')) \in Nat
      BY <3>3, <3>4, FS_Subset, FS_CardinalityType
    <3>6. Cardinality(above(id)) < PageSize
      BY <3>2, <3>5, ExportAssumption
    <3> QED
      BY <3>1, <3>6 DEF Newest
  <2> QED
    BY <1>2, <1>3, <2>2, <2>3, <2>4 DEF HistoryTypes
<1>11. NoGap'
  <2>1. CASE before = 0
    BY <1>1, <2>1 DEF ExportInv, GoesDown, NoGap
  <2>2. CASE before # 0
    BY <1>1, <2>2 DEF ExportInv, NoGap, Visible
  <2> QED
    BY <2>1, <2>2
<1>12. ToldOnce'
  BY <1>1 DEF ExportInv, ToldOnce
<1> QED
  BY <1>5, <1>6, <1>7, <1>9, <1>10, <1>11, <1>12 DEF ExportInv

LEMMA AppendEntryKeeps == ASSUME ExportInv, AppendEntry PROVE ExportInv'
<1>1. PICK id \in page : LET isUsers == history[id] > 0
                            fits == tokens + history[id] <= budget
          IN  /\ \A j \in page : j <= id
              /\ page' = IF isUsers /\ ~fits THEN {} ELSE page \ {id}
              /\ full' = (isUsers /\ ~fits)
              /\ kept' = IF isUsers /\ fits THEN Append(kept, id) ELSE kept
              /\ tokens' = IF isUsers /\ fits THEN tokens + history[id] ELSE tokens
  BY DEF AppendEntry
<1>2. /\ stage = "append"
      /\ UNCHANGED <<history, deleted, budget, stage, last, before, attempt, dead, outcome,
                     losses, changes>>
  BY DEF AppendEntry
<1>3. /\ HistoryTypes /\ id \in DOMAIN history /\ id \in Nat /\ before # 0 /\ ~full
      /\ before \in Nat
  <2>1. HistoryTypes /\ page # {}
    BY DEF ExportInv
  <2>2. before # 0 /\ ~full
    BY <2>1 DEF ExportInv, GoesDown
  <2>3. id \in DOMAIN history /\ before \in Nat
    BY <2>1 DEF HistoryTypes
  <2>4. id \in Nat
    BY <2>1, <2>3, KeptAreIds
  <2> QED
    BY <2>1, <2>2, <2>3, <2>4
<1>4. /\ \A i \in DOMAIN kept : id < kept[i] /\ kept[i] \in Nat
      /\ id >= before /\ \A j \in page : j \in Nat /\ j >= before /\ j <= id
  <2>1. \A j \in page : j <= id
    BY <1>1
  <2>2. \A j \in page : j \in Nat /\ j >= before
    <3>1. page \subseteq 1 .. Len(history) /\ Len(history) \in Nat
      BY <1>3, KeptAreIds DEF HistoryTypes
    <3> QED
      BY <3>1 DEF ExportInv, GoesDown
  <2>3. \A i \in DOMAIN kept : id < kept[i]
    BY <1>2 DEF ExportInv, GoesDown
  <2>4. \A i \in DOMAIN kept : kept[i] \in Nat
    BY <1>3, KeptAreIds
  <2> QED
    BY <2>1, <2>2, <2>3, <2>4
<1>5. \A x \in 1 .. last : Visible(x) /\ x >= before => x \in Range(kept) \cup page
  BY <1>2, <1>3 DEF ExportInv, AllPassed
<1>6. StageTypes'
  BY <1>1, <1>2 DEF ExportInv, StageTypes
<1>7. ToldOnce'
  BY <1>2 DEF ExportInv, ToldOnce
<1>8. \A x : Visible(x)' = Visible(x)
  BY <1>2 DEF Visible
<1>9. CASE ~(history[id] > 0)
  <2>1. page' = page \ {id} /\ ~full' /\ kept' = kept
    BY <1>1, <1>9
  <2>2. HistoryTypes'
    BY <1>2, <1>3, <2>1 DEF HistoryTypes
  <2>3. KeptInOrder' /\ NoGap'
    BY <1>2, <2>1 DEF ExportInv, KeptInOrder, NoGap, Visible
  <2>4. GoesDown'
    BY <1>2, <1>3, <2>1 DEF ExportInv, GoesDown
  <2>5. AllPassed'
    BY <1>2, <1>5, <1>9, <2>1 DEF AllPassed, Visible
  <2> QED
    BY <1>6, <1>7, <2>2, <2>3, <2>4, <2>5 DEF ExportInv
<1>10. CASE history[id] > 0 /\ ~(tokens + history[id] <= budget)
  <2>1. page' = {} /\ full' = TRUE /\ kept' = kept
    BY <1>1, <1>10
  <2>2. HistoryTypes'
    BY <1>2, <1>3, <2>1 DEF HistoryTypes
  <2>3. KeptInOrder' /\ NoGap'
    BY <1>2, <2>1 DEF ExportInv, KeptInOrder, NoGap, Visible
  <2>4. GoesDown'
    BY <1>2, <1>3, <2>1 DEF ExportInv, GoesDown
  <2>5. AllPassed'
    BY <2>1 DEF AllPassed
  <2> QED
    BY <1>6, <1>7, <2>2, <2>3, <2>4, <2>5 DEF ExportInv
<1>11. CASE history[id] > 0 /\ tokens + history[id] <= budget
  <2>1. page' = page \ {id} /\ ~full' /\ kept' = Append(kept, id)
    BY <1>1, <1>11
  <2>2. /\ kept' \in Seq(DOMAIN history) /\ Len(kept') = Len(kept) + 1
        /\ DOMAIN kept' = 1 .. Len(kept) + 1 /\ Len(kept) \in Nat
        /\ \A i \in 1 .. Len(kept) : kept'[i] = kept[i]
        /\ kept'[Len(kept) + 1] = id /\ DOMAIN kept = 1 .. Len(kept)
    BY <1>3, <2>1 DEF HistoryTypes
  <2>3. Range(kept') = Range(kept) \cup {id}
    BY <2>2 DEF Range
  <2>4. HistoryTypes'
    BY <1>2, <1>3, <2>1, <2>2 DEF HistoryTypes
  <2>5. KeptInOrder'
    <3>1. \A i, j \in DOMAIN kept' : i < j => kept'[i] > kept'[j]
      <4> SUFFICES ASSUME NEW i \in DOMAIN kept', NEW j \in DOMAIN kept', i < j
                   PROVE  kept'[i] > kept'[j]
        OBVIOUS
      <4>1. i \in DOMAIN kept
        BY <2>2
      <4>2. CASE j = Len(kept) + 1
        BY <1>3, <1>4, <2>2, <4>1, <4>2
      <4>3. CASE j # Len(kept) + 1
        BY <2>2, <4>1, <4>3 DEF ExportInv, KeptInOrder
      <4> QED
        BY <4>2, <4>3
    <3>2. \A i \in DOMAIN kept' : history[kept'[i]] > 0
      BY <1>11, <2>2 DEF ExportInv, KeptInOrder
    <3> QED
      BY <1>2, <3>1, <3>2 DEF KeptInOrder
  <2>6. GoesDown'
    <3>1. \A i \in DOMAIN kept' : kept'[i] >= before
      BY <1>3, <1>4, <2>2, <1>2 DEF ExportInv, GoesDown
    <3>2. \A i \in DOMAIN kept', j \in page' : j < kept'[i]
      BY <1>3, <1>4, <2>1, <2>2
    <3> QED
      BY <1>2, <1>3, <1>4, <2>1, <3>1, <3>2 DEF GoesDown
  <2>7. AllPassed'
    BY <1>2, <1>5, <1>8, <2>1, <2>3 DEF AllPassed
  <2>8. NoGap'
    <3> SUFFICES ASSUME NEW x \in 1 .. last, Visible(x), x > id PROVE x \in Range(kept')
      BY <1>2, <1>8, <2>2 DEF NoGap
    <3>1. x >= before
      BY <1>3, <1>4
    <3>2. x \notin page
      BY <1>3, <1>4
    <3> QED
      BY <1>5, <2>3, <3>1, <3>2
  <2> QED
    BY <1>6, <1>7, <2>4, <2>5, <2>6, <2>7, <2>8 DEF ExportInv
<1> QED
  BY <1>9, <1>10, <1>11

LEMMA ProgressKeeps == ASSUME ExportInv, Progress PROVE ExportInv'
<1>1. /\ stage = "append" /\ page = {} /\ stage' = (IF full THEN "render" ELSE "page")
      /\ losses \in 0 .. MaxLosses /\ losses' \in 0 .. MaxLosses /\ losses' >= losses
      /\ dead' \in BOOLEAN /\ (dead' => dead \/ losses' >= 1)
      /\ UNCHANGED <<history, deleted, budget, reading, outcome, changes>>
  <2>1. losses \in 0 .. MaxLosses /\ losses \in Nat /\ dead \in BOOLEAN
    BY ExportAssumption DEF ExportInv, StageTypes
  <2>2. \/ dead' = dead /\ losses' = losses
        \/ losses < MaxLosses /\ losses' = losses + 1 /\ (dead' = TRUE \/ dead' = dead)
    BY DEF Progress, Loses, LosesNone
  <2>3. losses' \in 0 .. MaxLosses /\ losses' >= losses
    BY <2>1, <2>2, ExportAssumption
  <2>4. dead' \in BOOLEAN
    BY <2>1, <2>2
  <2>5. dead' => dead \/ losses' >= 1
    <3>1. CASE losses' = losses + 1
      BY <2>1, <3>1
    <3>2. CASE dead' = dead
      BY <3>2
    <3> QED
      BY <2>2, <3>1, <3>2
  <2> QED
    BY <2>1, <2>3, <2>4, <2>5 DEF Progress, GoOn
<1>2. HistoryTypes'
  BY <1>1 DEF ExportInv, HistoryTypes, reading
<1>3. StageTypes'
  BY <1>1 DEF ExportInv, StageTypes, Stages, reading
<1>4. KeptInOrder'
  BY <1>1 DEF ExportInv, KeptInOrder, reading
<1>5. GoesDown'
  BY <1>1 DEF ExportInv, GoesDown, reading
<1>6. AllPassed'
  BY <1>1 DEF ExportInv, AllPassed, Visible, reading
<1>7. NoGap'
  BY <1>1 DEF ExportInv, NoGap, Visible, reading
<1>8. ToldOnce'
  BY <1>1, ExportAssumption DEF ExportInv, ToldOnce, reading
<1> QED
  BY <1>2, <1>3, <1>4, <1>5, <1>6, <1>7, <1>8 DEF ExportInv

LEMMA PageFailsKeeps == ASSUME ExportInv, PageFails PROVE ExportInv'
<1>1. /\ stage = "page" /\ losses \in 0 .. MaxLosses /\ losses' \in 0 .. MaxLosses
      /\ losses' >= losses /\ losses' >= 1
      /\ last' = (IF before = 0 THEN Len(history) ELSE last)
      /\ \/ attempt + 1 < Attempts /\ attempt' = attempt + 1 /\ stage' = "page"
         \/ attempt' = 0 /\ stage' = (IF kept = <<>> THEN "text" ELSE "render")
      /\ UNCHANGED <<history, deleted, budget, before, page, full, kept, tokens, dead,
                     outcome, changes>>
  BY ExportAssumption DEF PageFails, GoOn, Loses, ExportInv, StageTypes
<1>2. HistoryTypes'
  <2>1. HistoryTypes /\ Len(history) \in Nat
    BY KeptAreIds DEF ExportInv
  <2>2. last' \in Nat /\ last' <= Len(history)
    BY <1>1, <2>1 DEF HistoryTypes
  <2> QED
    BY <1>1, <2>1, <2>2 DEF HistoryTypes
<1>3. StageTypes'
  <2>1. attempt' \in 0 .. Attempts - 1
    BY <1>1, ExportAssumption DEF ExportInv, StageTypes
  <2> QED
    BY <1>1, <2>1 DEF ExportInv, StageTypes, Stages
<1>4. KeptInOrder'
  BY <1>1 DEF ExportInv, KeptInOrder
<1>5. GoesDown'
  BY <1>1 DEF ExportInv, GoesDown
<1>6. AllPassed'
  BY <1>1 DEF ExportInv, AllPassed, Visible
<1>7. NoGap'
  <2>1. CASE before = 0
    BY <1>1, <2>1 DEF ExportInv, GoesDown, NoGap
  <2>2. CASE before # 0
    BY <1>1, <2>2 DEF ExportInv, NoGap, Visible
  <2> QED
    BY <2>1, <2>2
<1>8. ToldOnce'
  BY <1>1 DEF ExportInv, ToldOnce
<1> QED
  BY <1>2, <1>3, <1>4, <1>5, <1>6, <1>7, <1>8 DEF ExportInv

LEMMA StallKeeps == ASSUME ExportInv, Stall PROVE ExportInv'
<1>1. /\ stage = "page" /\ stage' = "render"
      /\ UNCHANGED <<history, deleted, budget, reading, dead, outcome, losses, changes>>
  BY DEF Stall, GoOn
<1>2. HistoryTypes' /\ StageTypes'
  BY <1>1 DEF ExportInv, HistoryTypes, StageTypes, Stages, reading
<1>3. KeptInOrder' /\ NoGap'
  BY <1>1 DEF ExportInv, KeptInOrder, NoGap, Visible, reading
<1>4. GoesDown' /\ AllPassed'
  BY <1>1 DEF ExportInv, GoesDown, AllPassed, reading
<1>5. ToldOnce'
  BY <1>1 DEF ExportInv, ToldOnce, reading
<1> QED
  BY <1>2, <1>3, <1>4, <1>5 DEF ExportInv

\* The oldest that are trimmed leave no gap: what remains is a prefix.
LEMMA RenderKeeps == ASSUME ExportInv, Render PROVE ExportInv'
<1>1. /\ stage = "render"
      /\ UNCHANGED <<history, deleted, budget, last, before, attempt, page, full, dead,
                     outcome, losses, changes>>
  BY DEF Render
<1>2. PICK slack \in {0, 1}, n \in 0 .. Len(kept) :
          /\ TrimmedTo(n, slack)
          /\ kept' = SubSeq(kept, 1, n) /\ tokens' = Size(kept', slack)
          /\ stage' = (IF n = 0 THEN "text" ELSE "file")
  BY DEF Render, GoOn
<1>3. /\ HistoryTypes /\ Len(kept) \in Nat /\ DOMAIN kept = 1 .. Len(kept)
      /\ \A i \in DOMAIN kept : kept[i] \in Nat
  BY KeptAreIds DEF ExportInv
<1>4. /\ kept' \in Seq(DOMAIN history) /\ Len(kept') = n /\ DOMAIN kept' = 1 .. n
      /\ \A i \in 1 .. n : i \in DOMAIN kept /\ kept'[i] = kept[i]
  BY <1>2, <1>3 DEF HistoryTypes
<1>5. n < Len(kept) \/ n = Len(kept)
  <2>1. Len(kept) \in Nat
    BY <1>3
  <2>2. n \in Nat /\ n <= Len(kept)
    BY <2>1
  <2> QED
    BY <2>1, <2>2
<1>6. HistoryTypes'
  BY <1>1, <1>3, <1>4 DEF HistoryTypes
<1>7. StageTypes'
  BY <1>1, <1>2 DEF ExportInv, StageTypes, Stages
<1>8. KeptInOrder'
  BY <1>1, <1>4 DEF ExportInv, KeptInOrder
<1>9. before = 0 => kept' = <<>>
  <2>1. before = 0 => kept = <<>>
    BY DEF ExportInv, GoesDown
  <2> QED
    BY <1>2, <1>3, <1>4, <2>1
<1>10. GoesDown' /\ AllPassed'
  BY <1>1, <1>2, <1>9 DEF ExportInv, GoesDown, AllPassed
<1>11. NoGap'
  <2> SUFFICES ASSUME kept' # <<>>, NEW id \in 1 .. last, Visible(id),
                      id > kept'[Len(kept')]
               PROVE  id \in Range(kept')
    BY <1>1 DEF NoGap, Visible
  <2>1. /\ n \in DOMAIN kept /\ Len(kept) \in DOMAIN kept
        /\ kept'[Len(kept')] = kept[n] /\ kept # <<>>
    BY <1>3, <1>4
  <2>2. kept[n] >= kept[Len(kept)]
    <3>1. CASE n = Len(kept)
      BY <1>3, <2>1, <3>1
    <3>2. CASE n < Len(kept)
      BY <1>3, <2>1, <3>2 DEF ExportInv, KeptInOrder
    <3> QED
      BY <1>5, <3>1, <3>2
  <2>3. id > kept[Len(kept)]
    BY <1>3, <2>1, <2>2
  <2>4. id \in Range(kept)
    BY <2>1, <2>3 DEF ExportInv, NoGap
  <2>5. PICK i \in DOMAIN kept : kept[i] = id
    BY <2>4 DEF Range
  <2>6. i <= n
    BY <1>3, <2>1, <2>5 DEF ExportInv, KeptInOrder
  <2> QED
    BY <1>3, <1>4, <2>5, <2>6 DEF Range
<1>12. ToldOnce'
  <2>1. outcome = {} /\ outcome' = {}
    BY <1>1 DEF ExportInv, ToldOnce
  <2>2. n # 0 => tokens' <= budget
    BY <1>2 DEF TrimmedTo
  <2>3. n = 0 => kept' = <<>>
    BY <1>4
  <2>4. n # 0 => kept' # <<>>
    BY <1>4
  <2> QED
    BY <1>1, <1>2, <2>1, <2>2, <2>3, <2>4 DEF ExportInv, ToldOnce
<1> QED
  BY <1>6, <1>7, <1>8, <1>10, <1>11, <1>12 DEF ExportInv

LEMMA AnswerKeeps ==
    ASSUME ExportInv, EditAnswer \/ SendAnswer, ToldOnce', StageTypes'
    PROVE  ExportInv'
<1>1. /\ stage \in {"file", "text"} /\ stage' \in {"file", "text", "done"}
      /\ UNCHANGED <<history, deleted, budget, reading, changes>>
  BY DEF EditAnswer, SendAnswer, Delivered, GoOn
<1>2. HistoryTypes' /\ KeptInOrder' /\ NoGap'
  BY <1>1 DEF ExportInv, HistoryTypes, KeptInOrder, NoGap, Visible, reading
<1>3. GoesDown' /\ AllPassed'
  BY <1>1 DEF ExportInv, GoesDown, AllPassed, reading
<1> QED
  BY <1>2, <1>3 DEF ExportInv

LEMMA EditAnswerKeeps == ASSUME ExportInv, EditAnswer PROVE ExportInv'
<1>1. /\ stage \in {"file", "text"} /\ ~dead /\ outcome = {}
      /\ losses \in 0 .. MaxLosses /\ losses \in Nat
      /\ UNCHANGED <<history, deleted, budget, reading, changes>>
  BY ExportAssumption DEF EditAnswer, ExportInv, ToldOnce, StageTypes
<1>2. /\ kept' = kept /\ tokens' = tokens /\ budget' = budget /\ attempt' = attempt
      /\ full' = full /\ changes' = changes
  BY <1>1 DEF reading
<1>3. CASE Delivered(stage) /\ UNCHANGED dead /\ LosesNone
  <2>1. outcome' = {stage} /\ stage' = "done" /\ dead' = dead /\ losses' = losses
    BY <1>1, <1>3 DEF Delivered, GoOn, LosesNone
  <2>2. ToldOnce'
    BY <1>1, <1>2, <2>1 DEF ExportInv, ToldOnce
  <2>3. StageTypes'
    BY <1>1, <1>2, <2>1 DEF ExportInv, StageTypes, Stages
  <2> QED
    BY <2>2, <2>3, AnswerKeeps
<1>4. CASE Loses /\ dead' = TRUE /\ UNCHANGED <<stage, outcome>>
  <2>1. losses' \in 0 .. MaxLosses /\ losses' >= 1
    BY <1>1, <1>4, ExportAssumption DEF Loses
  <2>2. ToldOnce'
    BY <1>1, <1>2, <1>4, <2>1 DEF ExportInv, ToldOnce
  <2>3. StageTypes'
    BY <1>1, <1>2, <1>4, <2>1 DEF ExportInv, StageTypes, Stages
  <2> QED
    BY <2>2, <2>3, AnswerKeeps
<1>5. CASE Loses /\ UNCHANGED <<dead, outcome>> /\ GoOn(IF stage = "file" THEN "text" ELSE "done")
  <2>1. /\ losses' \in 0 .. MaxLosses /\ losses' = losses + 1
        /\ stage' = IF stage = "file" THEN "text" ELSE "done"
    BY <1>1, <1>5, ExportAssumption DEF Loses, GoOn
  <2>2. ToldOnce'
    BY <1>1, <1>2, <1>5, <2>1 DEF ExportInv, ToldOnce
  <2>3. StageTypes'
    BY <1>1, <1>2, <1>5, <2>1 DEF ExportInv, StageTypes, Stages
  <2> QED
    BY <2>2, <2>3, AnswerKeeps
<1> QED
  BY <1>3, <1>4, <1>5 DEF EditAnswer

LEMMA SendAnswerKeeps == ASSUME ExportInv, SendAnswer PROVE ExportInv'
<1>1. /\ stage \in {"file", "text"} /\ dead /\ dead' = dead /\ outcome = {}
      /\ losses \in 0 .. MaxLosses /\ losses \in Nat /\ losses >= 1 /\ stage' = "done"
      /\ UNCHANGED <<history, deleted, budget, reading, changes>>
  BY ExportAssumption DEF SendAnswer, Delivered, GoOn, ExportInv, ToldOnce, StageTypes
<1>2. /\ kept' = kept /\ tokens' = tokens /\ budget' = budget /\ attempt' = attempt
      /\ full' = full /\ changes' = changes
  BY <1>1 DEF reading
<1>3. \/ outcome' = {stage} /\ losses' = losses
      \/ losses' = losses + 1 /\ losses' \in 0 .. MaxLosses /\ outcome' = {}
  BY <1>1, ExportAssumption DEF SendAnswer, Delivered, Loses, LosesNone
<1>4. ToldOnce'
  BY <1>1, <1>2, <1>3 DEF ExportInv, ToldOnce
<1>5. StageTypes'
  BY <1>1, <1>2, <1>3 DEF ExportInv, StageTypes, Stages
<1> QED
  BY <1>4, <1>5, AnswerKeeps

LEMMA StepExportInv == ASSUME ExportInv, [ExportNext]_exportVars PROVE ExportInv'
<1>1. CASE ExportNext
  BY <1>1, ChangeKeeps, ValidateKeeps, ReadPageKeeps, AppendEntryKeeps, ProgressKeeps,
     PageFailsKeeps, StallKeeps, RenderKeeps, EditAnswerKeeps, SendAnswerKeeps DEF ExportNext
<1>2. CASE UNCHANGED exportVars
  <2>1. HistoryTypes' /\ StageTypes' /\ ToldOnce'
    BY <1>2 DEF exportVars, reading, ExportInv, HistoryTypes, StageTypes, ToldOnce
  <2>2. KeptInOrder' /\ NoGap'
    BY <1>2 DEF exportVars, reading, ExportInv, KeptInOrder, NoGap, Visible
  <2>3. GoesDown' /\ AllPassed'
    BY <1>2 DEF exportVars, reading, ExportInv, GoesDown, AllPassed, Visible
  <2> QED
    BY <2>1, <2>2, <2>3 DEF ExportInv
<1> QED
  BY <1>1, <1>2

LEMMA InvIsNewest == ASSUME ExportInv PROVE ExportIsNewest
<1>1. HistoryTypes /\ DOMAIN kept = 1 .. Len(kept)
  BY KeptAreIds DEF ExportInv
<1>2. \A id \in Range(kept) : \E i \in DOMAIN kept : id = kept[i]
  BY DEF Range
<1>3. ExportTypes
  <2>1. Range(kept) \subseteq DOMAIN history
    BY <1>1, <1>2, KeptAreIds
  <2> QED
    BY <1>1, <2>1 DEF ExportInv, HistoryTypes, StageTypes, ToldOnce, ExportTypes
<1>4. NewestExported
  BY <1>2 DEF ExportInv, ToldOnce, KeptInOrder, NoGap, Visible, NewestExported
<1>5. OutcomeDelivered
  <2>1. Cardinality({}) = 0 /\ Cardinality({"file"}) = 1 /\ Cardinality({"text"}) = 1
    BY FS_EmptySet, FS_Singleton
  <2>2. Cardinality(outcome) <= 1
    <3>1. outcome = {} \/ outcome = {"file"} \/ outcome = {"text"}
      BY DEF ExportInv, ToldOnce
    <3> QED
      BY <2>1, <3>1
  <2> QED
    BY <2>2 DEF ExportInv, ToldOnce, OutcomeDelivered
<1> QED
  BY <1>3, <1>4, <1>5 DEF ExportIsNewest

\* Whatever others post and delete while the channel is read, and whichever calls
\* fail, the exported file holds the newest of the history without a gap and within
\* the limit, the user is told one outcome, and one failing call never leaves a
\* history that was read without any (export_channel.go).
THEOREM NewestIsExported == ExportSpec => []ExportIsNewest
<1>1. ExportInit => ExportInv
  BY InitExportInv
<1>2. ExportInv /\ [ExportNext]_exportVars => ExportInv'
  BY StepExportInv
<1>3. ExportInv => ExportIsNewest
  BY InvIsNewest
<1> QED
  BY <1>1, <1>2, <1>3, PTL DEF ExportSpec
=============================================================================
