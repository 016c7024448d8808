------------------------------ MODULE Waits_proofs ------------------------------
(***************************************************************************)
(* Theorems about two components that MC_Waits checks.                     *)
(*                                                                         *)
(* ProgressCard, for any EditDelay and any number of checks.  The          *)
(* hand-over: the request goroutine edits only after the card loop ended.  *)
(* The pacing: whoever edits next waits at least as long as the last edit  *)
(* still claims, so the wait and the time since the last edit add up to    *)
(* EditDelay; it is cardNext while the loop runs, slotNext after the loop  *)
(* handed its slot over, and reqWait once a slot is reserved.              *)
(*                                                                         *)
(* WebSearch, for any rounds, providers, results and failures: a round     *)
(* answers its calls, has each special URL's content once in its blocks,   *)
(* and sends nothing on a closed queue.  The queue is closed when nobody   *)
(* can have a URL left to queue.                                           *)
(***************************************************************************)
EXTENDS ProgressCard, WebSearch, TLAPS

HandOver ==
    /\ request \notin {"run", "settling"} => loop = "done"
    /\ editor = "reply" => request \notin {"run", "settling"}
Waiting == request \in {"slot", "restore"}
CardWaits ==
    /\ loop = "post" => since = EditDelay
    /\ loop # "done" => slotNext = 0 /\ cardNext + since >= EditDelay
SlotWaits ==
    /\ loop = "done" /\ ~Waiting => slotNext + since >= EditDelay
    /\ Waiting => slotNext = reqWait + EditDelay /\ reqWait + since >= EditDelay
    /\ request \in {"run", "settling", "idle"} => slotNext <= EditDelay
    /\ request = "final" /\ ~cancelled => slotNext <= EditDelay

\* TypeOK in the parts that one prover each can handle.
TypeFlags ==
    /\ stop \in BOOLEAN /\ cancelled \in BOOLEAN /\ posted \in BOOLEAN
    /\ hurried \in BOOLEAN /\ failed \in BOOLEAN
TypeRest ==
    /\ loop \in {"post", "check", "select", "wait", "editing", "done"}
    /\ view \in Views /\ sentView \in Views /\ asked \in Views
    /\ stages \in 0..Generating /\ searches \in 0..2
    /\ request \in {"run", "settling", "idle", "slot", "final", "restore", "done"}
    /\ kind \in {"stream", "final"} /\ checks \in 0..Checks
    /\ cardNext \in 0..EditDelay /\ since \in 0..EditDelay
    /\ slotNext \in 0..(2 * EditDelay) /\ reqWait \in 0..EditDelay
    /\ editor \in {"none", "card", "reply"} /\ shown \in Renders \cup {"none"}
    /\ late \in Renders \cup {"never", "landed", "seen"}

IInv == TypeFlags /\ TypeRest /\ HandOver /\ CardWaits /\ SlotWaits /\ EditsPaced

\* The initial state satisfies the invariant.
LEMMA InitIInv == Init => IInv
<1>1. NoView \in Views
  BY DEF NoView, Views, Generating
<1>2. Init => TypeFlags
  BY DEF Init, TypeFlags
<1>3. Init => TypeRest
  BY <1>1, BoundsAssumption DEF Init, TypeRest, Renders, Empty, Generating
<1>4. Init => HandOver /\ CardWaits /\ SlotWaits /\ EditsPaced
  BY BoundsAssumption
     DEF Init, HandOver, Waiting, CardWaits, SlotWaits, EditsPaced
<1> QED BY <1>2, <1>3, <1>4 DEF IInv

\* Drained is a view, whatever the channels hold.
LEMMA DrainedType == TypeRest => Drained \in Views
BY DEF TypeRest, Drained, Views, Empty, Generating

\* A view with another stage or search is a view, and it has both.
LEMMA ViewsType ==
    ASSUME NEW v \in Views, NEW n \in 0..2
    PROVE  /\ [v EXCEPT !.stage = n] \in Views /\ [v EXCEPT !.search = n] \in Views
           /\ v.stage \in 0..2 /\ v.search \in 0..2
BY DEF Views, Generating

\* An edit by a goroutine whose wait is over keeps the types and the pace.
Kept(who) ==
    /\ since' = 0 /\ ~hurried' /\ hurried' \in BOOLEAN /\ editor' = who /\ posted' = posted
    /\ shown' \in Renders \cup {"none"}
    /\ late' \in Renders \cup {"never", "landed", "seen"}
LEMMA EditPaced ==
    ASSUME TypeFlags, TypeRest, EditsPaced, since = EditDelay,
           NEW who \in {"card", "reply"}, NEW what \in Renders,
           Edit(who, what) \/ EditFails(who)
    PROVE  Kept(who)
<1>1. since' = 0 /\ editor' = who /\ posted' = posted
  BY DEF Edit, EditFails
<1>2. ~hurried' /\ hurried' \in BOOLEAN
  <2>1. hurried' = (hurried \/ since < EditDelay)
    BY DEF Edit, EditFails
  <2>2. ~(since < EditDelay)
    BY BoundsAssumption
  <2> QED BY <2>1, <2>2 DEF EditsPaced
<1>3. /\ shown' \in Renders \cup {"none"}
      /\ late' \in Renders \cup {"never", "landed", "seen"}
  BY DEF Edit, EditFails, TypeRest
<1> QED BY <1>1, <1>2, <1>3 DEF Kept

\* Every step of the card loop, of the request goroutine, of Discord and of
\* the clock preserves the invariant.
LEMMA NextIInv == IInv /\ [Next]_vars => IInv'
<1> SUFFICES ASSUME IInv, [Next]_vars PROVE IInv'
    OBVIOUS
<1> USE BoundsAssumption
<1> USE DEF IInv, TypeFlags, TypeRest, HandOver, Waiting, CardWaits, SlotWaits, EditsPaced,
            Renders, Empty, Generating, vars, loopVars, channelVars, requestVars, timeVars,
            discordVars, LoopTo, RequestTo, KeepRequest, KeepLoop
<1>1. CASE PostCard
  <2>1. TypeFlags'
    BY <1>1 DEF PostCard
  <2>2. loop # "done" /\ loop' \in {"check", "done"} /\ shown' \in Renders \cup {"none"}
    BY <1>1 DEF PostCard
  <2>3. UNCHANGED <<view, sentView, stages, searches, cardNext, since, hurried, editor,
                    late, cancelled, requestVars, slotNext, reqWait>>
    BY <1>1 DEF PostCard
  <2>4. TypeRest'
    BY <2>2, <2>3
  <2>5. HandOver' /\ EditsPaced'
    BY <2>2, <2>3
  <2>6. CardWaits' /\ SlotWaits'
    <3>1. loop = "post" /\ since = EditDelay /\ slotNext = 0
      BY <1>1 DEF PostCard
    <3>2. request \in {"run", "settling"}
      BY <3>1
    <3> QED BY <2>2, <2>3, <3>1, <3>2
  <2> QED BY <2>1, <2>4, <2>5, <2>6
<1>2. CASE CheckStop
  BY <1>2 DEF CheckStop, EndLoop, KeepAllButSlot
<1>3. CASE SelectStop
  BY <1>3 DEF SelectStop, EndLoop, KeepAllButSlot
<1>4. CASE Refresh
  BY <1>4 DEF Refresh
<1>5. CASE DropEdit
  BY <1>5 DEF DropEdit
<1>6. CASE EditCard
  <2>1. since = EditDelay /\ loop = "wait" /\ request \in {"run", "settling"}
    BY <1>6 DEF EditCard
  <2>2. Drained \in Views
    BY DrainedType
  <2>3. Kept("card")
    BY <1>6, <2>1, EditPaced DEF EditCard
  <2>4. TypeFlags'
    BY <1>6, <2>3 DEF EditCard, Kept
  <2>5. TypeRest'
    BY <1>6, <2>2, <2>3 DEF EditCard, Kept
  <2>6. HandOver' /\ CardWaits' /\ SlotWaits' /\ EditsPaced'
    BY <1>6, <2>1, <2>3 DEF EditCard, Kept
  <2> QED BY <2>4, <2>5, <2>6
<1>7. CASE EditReturns
  BY <1>7 DEF EditReturns
<1>8. CASE TakeStage
  <2>1. view' \in Views
    <3>1. [view EXCEPT !.stage = stages] \in Views
      BY ViewsType
    <3> QED BY <1>8, <3>1, Zenon DEF TakeStage
  <2> QED BY <1>8, <2>1 DEF TakeStage
<1>9. CASE TakeSearch
  <2>1. view' \in Views
    BY <1>9, ViewsType DEF TakeSearch
  <2> QED BY <1>9, <2>1 DEF TakeSearch
<1>10. CASE Advance
  <2>1. asked' \in Views /\ asked.stage + 1 \in 0..2
    <3>1. asked.stage + 1 \in 0..2
      <4>1. asked.stage < Generating
        BY <1>10, Zenon DEF Advance
      <4>2. asked.stage \in 0..2
        BY ViewsType
      <4> QED BY <4>1, <4>2
    <3>2. [asked EXCEPT !.stage = asked.stage + 1] \in Views
      BY <3>1, ViewsType
    <3> QED BY <1>10, <3>1, <3>2, Zenon DEF Advance
  <2> QED BY <1>10, <2>1 DEF Advance, SendLatest
<1>11. CASE ShowSearch
  <2>1. asked' \in Views /\ asked.search + 1 \in 0..2
    <3>1. asked.search + 1 \in 0..2
      <4>1. asked.search < 2
        BY <1>11, Zenon DEF ShowSearch
      <4>2. asked.search \in 0..2
        BY ViewsType
      <4> QED BY <4>1, <4>2
    <3>2. [asked EXCEPT !.search = asked.search + 1] \in Views
      BY <3>1, ViewsType
    <3> QED BY <1>11, <3>1, <3>2, Zenon DEF ShowSearch
  <2> QED BY <1>11, <2>1 DEF ShowSearch, SendLatest
<1>12. CASE Settle
  BY <1>12 DEF Settle
<1>13. CASE Settled
  BY <1>13 DEF Settled, KeepButRequest
<1>14. CASE RenderReply
  <2>1. TypeFlags'
    BY <1>14 DEF RenderReply, Reserve
  <2>2. TypeRest'
    BY <1>14 DEF RenderReply, Reserve
  <2>3. HandOver' /\ CardWaits' /\ SlotWaits' /\ EditsPaced'
    BY <1>14 DEF RenderReply, Reserve
  <2> QED BY <2>1, <2>2, <2>3
<1>15. CASE EditReply
  <2>1. CASE reqWait = 0 /\ Edit("reply", kind)
    <3>1. since = EditDelay
      BY <1>15, <2>1 DEF EditReply
    <3>2. Kept("reply")
      BY <2>1, <3>1, EditPaced
    <3>3. TypeFlags'
      BY <1>15, <2>1, <3>2 DEF EditReply, Kept
    <3>4. TypeRest'
      BY <1>15, <2>1, <3>2 DEF EditReply, Kept
    <3>5. HandOver' /\ CardWaits' /\ SlotWaits' /\ EditsPaced'
      BY <1>15, <2>1, <3>2 DEF EditReply, Kept
    <3> QED BY <3>3, <3>4, <3>5
  <2>2. CASE reqWait > 0
    BY <1>15, <2>2 DEF EditReply
  <2> QED BY <1>15, <2>1, <2>2 DEF EditReply
<1>16. CASE Confirm
  <2>1. TypeFlags'
    BY <1>16 DEF Confirm, Reserve
  <2>2. TypeRest'
    <3>1. /\ checks' \in 0..Checks /\ kind' \in {"stream", "final"}
          /\ request' \in {"final", "restore"}
          /\ late' \in Renders \cup {"never", "landed", "seen"}
      BY <1>16 DEF Confirm, Reserve
    <3>2. slotNext' \in 0..(2 * EditDelay) /\ reqWait' \in 0..EditDelay
      BY <1>16 DEF Confirm, Reserve
    <3> QED BY <1>16, <3>1, <3>2 DEF Confirm
  <2>3. HandOver' /\ CardWaits' /\ SlotWaits' /\ EditsPaced'
    BY <1>16 DEF Confirm, Reserve
  <2> QED BY <2>1, <2>2, <2>3
<1>17. CASE Restore
  <2>1. CASE reqWait = 0
    <3>1. since = EditDelay
      BY <1>17, <2>1 DEF Restore
    <3>2. Kept("reply") /\ failed' \in BOOLEAN
      <4>1. Edit("reply", "final") \/ EditFails("reply")
        BY <1>17, <2>1 DEF Restore
      <4>2. failed' \in BOOLEAN
        BY <1>17 DEF Restore
      <4> QED BY <3>1, <4>1, <4>2, EditPaced
    <3>3. TypeFlags'
      BY <1>17, <2>1, <3>2 DEF Restore, Kept
    <3>4. TypeRest'
      BY <1>17, <2>1, <3>2 DEF Restore, Kept
    <3>5. HandOver' /\ CardWaits' /\ SlotWaits' /\ EditsPaced'
      BY <1>17, <2>1, <3>2 DEF Restore, Kept
    <3> QED BY <3>3, <3>4, <3>5
  <2>2. CASE reqWait > 0
    BY <1>17, <2>2 DEF Restore
  <2> QED BY <2>1, <2>2
<1>18. CASE Land
  BY <1>18 DEF Land
<1>19. CASE Cancel
  BY <1>19 DEF Cancel
<1>20. CASE Tick
  BY <1>20 DEF Tick, Due, CountDown
<1>21. CASE UNCHANGED vars
  BY <1>21
<1> QED
  BY <1>1, <1>2, <1>3, <1>4, <1>5, <1>6, <1>7, <1>8, <1>9, <1>10, <1>11, <1>12, <1>13,
     <1>14, <1>15, <1>16, <1>17, <1>18, <1>19, <1>20, <1>21 DEF Next, Loop

\* The invariant holds in every reachable state.
LEMMA Invariance == Spec => []IInv
<1>1. Init => IInv
  BY InitIInv
<1>2. IInv /\ [Next]_vars => IInv'
  BY NextIInv
<1> QED BY <1>1, <1>2, PTL DEF Spec

\* Every reachable state has its type, for every delay and number of checks.
THEOREM TypeCorrect == Spec => []TypeOK
<1>1. IInv => TypeOK
  BY DEF IInv, TypeFlags, TypeRest, TypeOK
<1> QED BY <1>1, Invariance, PTL

\* No edit of the message is sent sooner than EditDelay after the one before
\* it, whichever goroutine sends it and however the card's life ends.
THEOREM Paced == Spec => []EditsPaced
<1>1. IInv => EditsPaced
  BY DEF IInv
<1> QED BY <1>1, Invariance, PTL

\* A step that gives the message to the reply never gives it back: the card
\* loop has ended before the first edit of the reply.
THEOREM KeepsOff == Spec => CardKeepsOff
<1>1. IInv /\ [Next]_vars => [editor = "reply" => editor' = "reply"]_editor
  <2> SUFFICES ASSUME IInv, [Next]_vars, editor = "reply" PROVE editor' = "reply"
      OBVIOUS
  <2>1. loop = "done"
    BY DEF IInv, HandOver
  <2>2. ~EditCard
    BY <2>1 DEF EditCard
  <2> QED
    BY <2>2 DEF Next, Loop, PostCard, CheckStop, SelectStop, Refresh, DropEdit, EditReturns,
      TakeStage, TakeSearch, Advance, ShowSearch, Settle, Settled, RenderReply, EditReply,
      Confirm, Restore, Land, Cancel, Tick, Edit, EditFails, KeepAllButSlot, KeepButRequest, vars,
      discordVars
<1> QED BY <1>1, Invariance, PTL DEF Spec, CardKeepsOff

-----------------------------------------------------------------------------
(* The restoring checks.  Every edit of a final render, and every check    *)
(* that finds no streaming frame, leaves the message without one; only a   *)
(* late edit brings one back, and then the next check is told apart.       *)

FinalShown ==
    request = "final" /\ ~cancelled /\ ~failed /\ late \notin Renders \cup {"landed"}
      => shown # "stream"

LEMMA FinalStep == ASSUME IInv, FinalShown, [Next]_vars PROVE FinalShown'
<1> USE DEF FinalShown, Renders, vars, loopVars, channelVars, requestVars, timeVars,
            discordVars, LoopTo, RequestTo, KeepRequest, KeepLoop
<1>1. CASE PostCard \/ EditCard
  <2>1. request \in {"run", "settling"} /\ request' = request
    BY <1>1 DEF PostCard, EditCard, IInv, HandOver
  <2> QED BY <2>1
<1>2. CASE CheckStop \/ SelectStop \/ Refresh \/ DropEdit \/ EditReturns
  BY <1>2 DEF CheckStop, SelectStop, Refresh, DropEdit, EditReturns, KeepAllButSlot
<1>3. CASE TakeStage \/ TakeSearch
  BY <1>3 DEF TakeStage, TakeSearch
<1>4. CASE Advance \/ ShowSearch \/ Settle \/ Settled
  BY <1>4 DEF Advance, ShowSearch, Settle, Settled, KeepButRequest
<1>5. CASE RenderReply
  BY <1>5 DEF RenderReply, Reserve
<1>6. CASE EditReply
  BY <1>6 DEF EditReply, Edit, IInv, TypeRest
<1>7. CASE Confirm
  BY <1>7 DEF Confirm, Reserve
<1>8. CASE Restore
  BY <1>8 DEF Restore, Edit, EditFails
<1>9. CASE Land \/ Cancel \/ Tick
  BY <1>9 DEF Land, Cancel, Tick
<1>10. CASE UNCHANGED vars
  BY <1>10
<1> QED
  BY <1>1, <1>2, <1>3, <1>4, <1>5, <1>6, <1>7, <1>8, <1>9, <1>10 DEF Next, Loop

\* After its last check the message shows no streaming frame, however many
\* checks there are and whenever the late edit landed, if the last of them saw
\* the message after that and no call failed.
THEOREM FinalHolds == Spec => []FinalRestored
<1>1. Init => FinalShown
  BY DEF Init, FinalShown
<1>2. IInv /\ FinalShown /\ [Next]_vars => FinalShown'
  BY FinalStep
<1>3. FinalShown => FinalRestored
  BY DEF FinalShown, FinalRestored
<1> QED BY <1>1, <1>2, <1>3, Invariance, PTL DEF Spec

-----------------------------------------------------------------------------
(* A round of searches.                                                    *)

Live == {"chain", "queries", "pages", "queue", "draining", "tail", "cancelling"}
Rest == {"idle", "done", "failed"}

\* SearchTypes, with what is queued and fetched among the URLs that were marked.
SearchShape ==
    /\ pc \in Live \cup Rest
    /\ \A q \in Tasks : query[q] \in {"none", "waiting", "running", "pushing", "ok", "failed"}
    /\ ended \in BOOLEAN /\ open \in BOOLEAN /\ closed \in BOOLEAN /\ panicked \in BOOLEAN
    /\ worker \in {"none", "top", "select", "fetch", "stopped"}
    /\ queue \in Seq(seen) /\ Len(queue) <= QueueSize
    /\ batch \subseteq seen /\ enriched \subseteq seen /\ dropped \subseteq seen
    /\ tail \subseteq URLs
    /\ \A u \in seen : Special(u)
    /\ \A t \in DOMAIN marked : marked[t] \subseteq seen
    /\ failures \in 0 .. MaxFailures /\ rounds \in 0 .. MaxRounds

\* The round under way: its calls, its tasks and the provider that is asked.
OfRound ==
    /\ pc # "idle" => calls \in Rounds
    /\ pc \in Live => Tasks = Asked(calls) /\ DOMAIN pushing = Tasks \cup {Caller}
    /\ DOMAIN marked = DOMAIN pushing
    /\ pc \in {"queries", "pages"} => provider \in Keyed
    /\ pc \in {"cancelling", "failed"} => left = <<>>

\* Who may still have URLs to queue.
StillQueues ==
    \A t \in DOMAIN pushing : ~Queued(t) =>
        \/ pc = "queries" /\ t \in Tasks /\ query[t] = "pushing"
        \/ pc = "queue" /\ t = Caller

\* The queue is closed only when nobody is left who queues, and the worker is
\* waited for before its results are merged.
ClosedLate ==
    /\ closed => pc \in {"draining", "tail", "cancelling", "done", "failed"}
    /\ pc \in Rest \cup {"tail"} => worker \in {"none", "stopped"}
    /\ ~panicked

\* What has been merged into the texts so far.
Merged ==
    pc \in {"queue", "draining", "tail"} =>
        /\ DOMAIN texts = Tasks
        /\ \A q \in Tasks : \A i \in DOMAIN texts[q] :
              /\ texts[q][i] \in [url : URLs, page : BOOLEAN, copies : 0 .. 1]
              /\ texts[q][i].copies = IF pc = "tail" /\ texts[q][i].url \in enriched THEN 1 ELSE 0

SearchInv ==
    SearchShape /\ OfRound /\ StillQueues /\ ClosedLate /\ Merged /\ CallsAnswered /\ SpecialistOnce

USE DEF Live, Rest, Caller, Tasks, URLs

LEMMA Bounds == MaxURLs \in Nat /\ QueueSize \in Nat /\ MaxRounds \in Nat /\ MaxFailures \in Nat
  BY SearchAssumption

LEMMA NoneQueued == \A S : <<>> \in Seq(S) /\ Len(<<>>) = 0
  OBVIOUS

LEMMA QueuedSeen == ASSUME NEW S, NEW s \in Seq(S) PROVE ToSet(s) \subseteq S
  BY DEF ToSet

LEMMA Grown == ASSUME NEW S, NEW T, S \subseteq T, NEW s \in Seq(S) PROVE s \in Seq(T)
  OBVIOUS

LEMMA InitSearchInv == SearchInit => SearchInv
<1> SUFFICES ASSUME SearchInit PROVE SearchInv
  OBVIOUS
<1>0. Tasks = {} /\ DOMAIN pushing = {} /\ DOMAIN marked = {}
  BY DEF SearchInit
<1>1. SearchShape
  <2>1. queue \in Seq(seen) /\ Len(queue) <= QueueSize
    BY NoneQueued, Bounds DEF SearchInit
  <2>2. /\ pc = "idle" /\ ended = FALSE /\ open = FALSE /\ closed = FALSE /\ panicked = FALSE
        /\ worker = "none"
        /\ batch = {} /\ enriched = {} /\ dropped = {} /\ tail = {} /\ seen = {}
        /\ failures = 0 /\ rounds = 0
    BY DEF SearchInit
  <2>3. /\ \A q \in Tasks : query[q] \in {"none", "waiting", "running", "pushing", "ok", "failed"}
        /\ \A t \in DOMAIN marked : marked[t] \subseteq seen
    BY <1>0
  <2>4. /\ pc \in Rest /\ worker = "none"
        /\ failures \in 0 .. MaxFailures /\ rounds \in 0 .. MaxRounds
    BY <2>2, Bounds
  <2>5. /\ batch \subseteq seen /\ enriched \subseteq seen /\ dropped \subseteq seen
        /\ tail \subseteq URLs
    BY <2>2
  <2>6. \A u \in seen : Special(u)
    BY <2>2
  <2>7. ended \in BOOLEAN /\ open \in BOOLEAN /\ closed \in BOOLEAN /\ panicked \in BOOLEAN
    BY <2>2
  <2> QED BY <2>1, <2>3, <2>4, <2>5, <2>6, <2>7 DEF SearchShape
<1>2. OfRound /\ StillQueues /\ ClosedLate /\ Merged /\ CallsAnswered /\ SpecialistOnce
  BY <1>0 DEF SearchInit, OfRound, StillQueues, ClosedLate, Merged, CallsAnswered, SpecialistOnce
<1> QED BY <1>1, <1>2 DEF SearchInv

LEMMA WorkerLoopsKeeps == SearchInv /\ WorkerLoops => SearchInv'
<1> SUFFICES ASSUME SearchInv, WorkerLoops PROVE SearchInv'
  OBVIOUS
<1> USE DEF SearchInv
<1>1. /\ UNCHANGED <<roundVars, callbackVars, seen, open, closed, panicked>>
      /\ worker \in {"top", "select", "fetch"}
  BY DEF WorkerLoops
<1>2. SearchShape'
  BY <1>1, QueuedSeen DEF WorkerLoops, Stop, SearchShape, roundVars,
     callbackVars, Special
<1>3. OfRound' /\ StillQueues' /\ CallsAnswered' /\ SpecialistOnce'
  BY <1>1 DEF OfRound, StillQueues, Queued, CallsAnswered, SpecialistOnce, roundVars,
     callbackVars, provider
<1>4. ClosedLate' /\ Merged'
  BY <1>1 DEF WorkerLoops, Stop, ClosedLate, Merged, roundVars
<1> QED BY <1>2, <1>3, <1>4

LEMMA WorkerFetchedKeeps == SearchInv /\ WorkerFetched => SearchInv'
<1> SUFFICES ASSUME SearchInv, WorkerFetched PROVE SearchInv'
  OBVIOUS
<1> USE DEF SearchInv
<1>1. /\ UNCHANGED <<roundVars, callbackVars, seen, open, closed, panicked>>
      /\ worker \in {"top", "select", "fetch"}
  BY DEF WorkerFetched
<1>2. SearchShape'
  BY <1>1 DEF WorkerFetched, Fail, SearchShape,
     roundVars, callbackVars, Special
<1>3. OfRound' /\ StillQueues' /\ CallsAnswered' /\ SpecialistOnce'
  BY <1>1 DEF OfRound, StillQueues, Queued, CallsAnswered, SpecialistOnce, roundVars,
     callbackVars, provider
<1>4. ClosedLate' /\ Merged'
  BY <1>1 DEF WorkerFetched, Fail, ClosedLate, Merged, roundVars
<1> QED BY <1>2, <1>3, <1>4

LEMMA WorkerExpiresKeeps == SearchInv /\ WorkerExpires => SearchInv'
<1> SUFFICES ASSUME SearchInv, WorkerExpires PROVE SearchInv'
  OBVIOUS
<1> USE DEF SearchInv
<1>1. /\ UNCHANGED <<roundVars, callbackVars, seen, open, closed, panicked>>
      /\ worker \in {"top", "select", "fetch"}
  BY DEF WorkerExpires
<1>2. SearchShape'
  BY <1>1, QueuedSeen DEF WorkerExpires, Stop, Fail, SearchShape,
     roundVars, callbackVars, Special
<1>3. OfRound' /\ StillQueues' /\ CallsAnswered' /\ SpecialistOnce'
  BY <1>1 DEF OfRound, StillQueues, Queued, CallsAnswered, SpecialistOnce, roundVars,
     callbackVars, provider
<1>4. ClosedLate' /\ Merged'
  BY <1>1 DEF WorkerExpires, Stop, Fail, ClosedLate, Merged, roundVars
<1> QED BY <1>2, <1>3, <1>4

LEMMA WorkerTakesKeeps == SearchInv /\ WorkerTakes => SearchInv'
<1> SUFFICES ASSUME SearchInv, WorkerTakes PROVE SearchInv'
  OBVIOUS
<1> USE DEF SearchInv
<1>1. UNCHANGED <<roundVars, callbackVars, seen, open, closed, panicked>> /\ worker = "select"
  BY DEF WorkerTakes
<1>2. SearchShape'
  <2>1. queue \in Seq(seen) /\ Len(queue) <= QueueSize /\ ToSet(queue) \subseteq seen
    BY QueuedSeen DEF SearchShape
  <2>2. queue' \in Seq(seen) /\ Len(queue') <= QueueSize
    <3>1. queue' = queue \/ queue' = <<>>
      BY DEF WorkerTakes
    <3>2. <<>> \in Seq(seen) /\ Len(<<>>) <= QueueSize
      BY NoneQueued, Bounds
    <3> QED BY <2>1, <3>1, <3>2
  <2>3. batch' \subseteq seen /\ dropped' \subseteq seen /\ worker' \in {"fetch", "stopped"}
    BY <2>1 DEF WorkerTakes, Stop, SearchShape
  <2> QED BY <1>1, <2>2, <2>3 DEF WorkerTakes, SearchShape, roundVars, callbackVars, Special
<1>3. OfRound' /\ StillQueues' /\ CallsAnswered' /\ SpecialistOnce'
  BY <1>1 DEF OfRound, StillQueues, Queued, CallsAnswered, SpecialistOnce, roundVars,
     callbackVars, provider
<1>4. ClosedLate' /\ Merged'
  BY <1>1 DEF WorkerTakes, Stop, ClosedLate, Merged, roundVars
<1> QED BY <1>2, <1>3, <1>4

LEMMA MarkURLKeeps == ASSUME NEW t \in DOMAIN pushing, SearchInv, MarkURL(t) PROVE SearchInv'
<1> USE DEF SearchInv
<1>1. /\ UNCHANGED roundVars
      /\ UNCHANGED <<open, closed, worker, batch, enriched, dropped, rounds, failures>>
      /\ ~Queued(t)
  BY DEF MarkURL, Queued
<1>2. DOMAIN pushing' = DOMAIN pushing /\ DOMAIN marked' = DOMAIN pushing
  BY DEF MarkURL, OfRound
<1>3. \A x \in DOMAIN pushing : x # t => pushing'[x] = pushing[x] /\ marked'[x] = marked[x]
  BY DEF MarkURL, OfRound
<1>4. SearchShape'
  <2>2. seen \subseteq seen' /\ \A u \in seen' : Special(u)
    BY DEF MarkURL, SearchShape
  <2>3. queue \in Seq(seen')
    BY <2>2, Grown DEF SearchShape
  <2>4. marked'[t] \subseteq seen'
    BY <1>2 DEF MarkURL, OfRound
  <2>5. \A x \in DOMAIN marked' : marked'[x] \subseteq seen'
    BY <1>2, <1>3, <2>2, <2>4 DEF SearchShape, OfRound
  <2> QED BY <1>1, <2>2, <2>3, <2>5 DEF MarkURL, SearchShape, roundVars, callbackVars, Special
<1>5. OfRound'
  BY <1>1, <1>2 DEF OfRound, roundVars, provider
<1>6. StillQueues'
  BY <1>1, <1>2, <1>3 DEF StillQueues, Queued, roundVars
<1>7. panicked' = FALSE
  BY DEF MarkURL, ClosedLate, StillQueues, Queued, SearchShape
<1>8. ClosedLate' /\ Merged' /\ CallsAnswered' /\ SpecialistOnce'
  BY <1>1, <1>7 DEF ClosedLate, Merged, CallsAnswered, SpecialistOnce, roundVars
<1> QED BY <1>4, <1>5, <1>6, <1>8

LEMMA QueueURLKeeps == ASSUME NEW t \in DOMAIN pushing, SearchInv, QueueURL(t) PROVE SearchInv'
<1> USE DEF SearchInv
<1>1. /\ UNCHANGED roundVars
      /\ UNCHANGED <<open, closed, worker, batch, enriched, dropped, rounds, failures>>
      /\ ~Queued(t)
  BY DEF QueueURL, Queued
<1>2. DOMAIN pushing' = DOMAIN pushing /\ DOMAIN marked' = DOMAIN pushing
  BY DEF QueueURL, OfRound
<1>3. \A x \in DOMAIN pushing : x # t => pushing'[x] = pushing[x] /\ marked'[x] = marked[x]
  BY DEF QueueURL, OfRound
<1>4. SearchShape'
  <2>2. \A u \in marked[t] : u \in seen
    BY DEF SearchShape, OfRound
  <2>3. queue' \in Seq(seen) /\ Len(queue') <= QueueSize
    <3>1. CASE Len(queue) < QueueSize
      <4>1. PICK u \in marked[t] : queue' = Append(queue, u)
        BY <3>1 DEF QueueURL
      <4> QED BY <2>2, <3>1, <4>1, Bounds DEF SearchShape
    <3>2. CASE ~(Len(queue) < QueueSize)
      BY <3>2 DEF QueueURL, SearchShape
    <3> QED BY <3>1, <3>2
  <2>4. \A x \in DOMAIN marked' : marked'[x] \subseteq seen
    BY <1>2, <1>3 DEF QueueURL, SearchShape, OfRound
  <2> QED BY <1>1, <2>3, <2>4 DEF QueueURL, SearchShape, roundVars, callbackVars, Special,
     ClosedLate
<1>5. OfRound'
  BY <1>1, <1>2 DEF OfRound, roundVars, provider
<1>6. StillQueues'
  BY <1>1, <1>2, <1>3 DEF StillQueues, Queued, roundVars
<1>7. panicked' = FALSE
  BY DEF QueueURL, ClosedLate, StillQueues, Queued, SearchShape
<1>8. ClosedLate' /\ Merged' /\ CallsAnswered' /\ SpecialistOnce'
  BY <1>1, <1>7 DEF ClosedLate, Merged, CallsAnswered, SpecialistOnce, roundVars
<1> QED BY <1>4, <1>5, <1>6, <1>8

LEMMA ClaimQueryKeeps == ASSUME NEW i, SearchInv, ClaimQuery(i) PROVE SearchInv'
<1> USE DEF SearchInv
<1>1. /\ UNCHANGED <<pc, calls, left, texts, outputs, tail, pushing, marked, prefetchVars, rounds>>
      /\ pc = "queries" /\ DOMAIN query' = DOMAIN query
      /\ \A x \in Tasks :
            \/ query'[x] = query[x]
            \/ query'[x] \in {"ok", "failed", "running"} /\ (query[x] # "pushing" \/ Queued(x))
  BY DEF ClaimQuery, callbackVars
<1>6. SearchShape'
  BY <1>1, Bounds DEF ClaimQuery, Fail, SearchShape, prefetchVars, Special
<1>7. OfRound'
  BY <1>1 DEF OfRound, provider
<1>8. StillQueues'
  BY <1>1 DEF StillQueues, Queued
<1>9. ClosedLate'
  BY <1>1 DEF ClosedLate, prefetchVars
<1>10. Merged'
  BY <1>1 DEF Merged
<1>11. CallsAnswered' /\ SpecialistOnce'
  BY <1>1 DEF CallsAnswered, SpecialistOnce
<1> QED BY <1>6, <1>7, <1>8, <1>9, <1>10, <1>11

LEMMA QueryFailedKeeps == ASSUME NEW q \in Tasks, SearchInv, QueryFailed(q) PROVE SearchInv'
<1> USE DEF SearchInv
<1>1. /\ UNCHANGED <<pc, calls, left, texts, outputs, tail, pushing, marked, prefetchVars, rounds>>
      /\ pc = "queries" /\ DOMAIN query' = DOMAIN query
      /\ \A x \in Tasks :
            \/ query'[x] = query[x]
            \/ query'[x] \in {"ok", "failed", "running"} /\ (query[x] # "pushing" \/ Queued(x))
  BY DEF QueryFailed, callbackVars
<1>6. SearchShape'
  BY <1>1, Bounds DEF QueryFailed, Fail, SearchShape, prefetchVars, Special
<1>7. OfRound'
  BY <1>1 DEF OfRound, provider
<1>8. StillQueues'
  BY <1>1 DEF StillQueues, Queued
<1>9. ClosedLate'
  BY <1>1 DEF ClosedLate, prefetchVars
<1>10. Merged'
  BY <1>1 DEF Merged
<1>11. CallsAnswered' /\ SpecialistOnce'
  BY <1>1 DEF CallsAnswered, SpecialistOnce
<1> QED BY <1>6, <1>7, <1>8, <1>9, <1>10, <1>11

LEMMA PushDoneKeeps == ASSUME NEW q \in Tasks, SearchInv, PushDone(q) PROVE SearchInv'
<1> USE DEF SearchInv
<1>1. /\ UNCHANGED <<pc, calls, left, texts, outputs, tail, pushing, marked, prefetchVars, rounds>>
      /\ pc = "queries" /\ DOMAIN query' = DOMAIN query
      /\ \A x \in Tasks :
            \/ query'[x] = query[x]
            \/ query'[x] \in {"ok", "failed", "running"} /\ (query[x] # "pushing" \/ Queued(x))
  BY DEF PushDone, callbackVars
<1>6. SearchShape'
  BY <1>1, Bounds DEF PushDone, Fail, SearchShape, prefetchVars, Special
<1>7. OfRound'
  BY <1>1 DEF OfRound, provider
<1>8. StillQueues'
  BY <1>1 DEF StillQueues, Queued
<1>9. ClosedLate'
  BY <1>1 DEF ClosedLate, prefetchVars
<1>10. Merged'
  BY <1>1 DEF Merged
<1>11. CallsAnswered' /\ SpecialistOnce'
  BY <1>1 DEF CallsAnswered, SpecialistOnce
<1> QED BY <1>6, <1>7, <1>8, <1>9, <1>10, <1>11

LEMMA AskProviderKeeps == ASSUME SearchInv, AskProvider PROVE SearchInv'
<1> USE DEF SearchInv
<1>1. /\ UNCHANGED <<calls, texts, outputs, tail, pushing, marked, prefetchVars, rounds, failures>>
      /\ pc = "chain" /\ DOMAIN query' = DOMAIN query /\ pc' \in {"chain", "queries"}
  BY DEF AskProvider, callbackVars
<1>6. SearchShape'
  BY <1>1 DEF AskProvider, SearchShape, prefetchVars, Special
<1>7. OfRound'
  BY <1>1 DEF AskProvider, OfRound, provider
<1>8. StillQueues'
  BY <1>1 DEF StillQueues, Queued
<1>9. ClosedLate'
  BY <1>1 DEF ClosedLate, prefetchVars
<1>10. Merged'
  BY <1>1 DEF Merged
<1>11. CallsAnswered' /\ SpecialistOnce'
  BY <1>1 DEF CallsAnswered, SpecialistOnce
<1> QED BY <1>6, <1>7, <1>8, <1>9, <1>10, <1>11

LEMMA QueryAnsweredKeeps == ASSUME NEW q \in Tasks, SearchInv, QueryAnswered(q) PROVE SearchInv'
<1> USE DEF SearchInv
<1>1. /\ UNCHANGED <<pc, calls, left, texts, outputs, tail, ended, marked, prefetchVars, rounds, failures>>
      /\ pc = "queries" /\ query[q] = "running" /\ DOMAIN query' = DOMAIN query
      /\ DOMAIN pushing' = DOMAIN pushing
  BY DEF QueryAnswered
<1>2. /\ query'[q] = "pushing" \/ (query'[q] = "ok" /\ (q \in DOMAIN pushing => pushing'[q] = <<>>))
      /\ \A x \in Tasks : x # q => query'[x] = query[x]
      /\ \A x \in DOMAIN pushing : x # q => pushing'[x] = pushing[x]
  BY DEF QueryAnswered
<1>6. SearchShape'
  BY <1>1, <1>2 DEF SearchShape, prefetchVars, Special
<1>7. OfRound'
  BY <1>1 DEF OfRound, provider
<1>8. StillQueues'
  BY <1>1, <1>2 DEF StillQueues, Queued
<1>9. ClosedLate'
  BY <1>1 DEF ClosedLate, prefetchVars
<1>10. Merged'
  BY <1>1 DEF Merged
<1>11. CallsAnswered' /\ SpecialistOnce'
  BY <1>1 DEF CallsAnswered, SpecialistOnce
<1> QED BY <1>6, <1>7, <1>8, <1>9, <1>10, <1>11

LEMMA TextsOf ==
    ASSUME provider \in Keyed, calls \in Rounds, Tasks = Asked(calls), NEW S
    PROVE  /\ DOMAIN Texts(S) = Tasks
           /\ \A q \in Tasks : \A i \in DOMAIN Texts(S)[q] :
                 Texts(S)[q][i] \in [url : URLs, page : BOOLEAN, copies : {0}]
<1>1. ASSUME NEW q \in Tasks, NEW i \in DOMAIN Blocks(provider, q)
      PROVE  Blocks(provider, q)[i] \in [url : URLs, page : {FALSE}, copies : {0}]
  <2>1. Found[provider][q] \in Seq(URLs)
    BY SearchAssumption
  <2>2. i \in DOMAIN FirstOf(Found[provider][q], MaxURLs)
    BY DEF Blocks
  <2>3. i \in 1 .. Len(Found[provider][q])
    BY <2>1, <2>2, Bounds DEF FirstOf
  <2>4. Found[provider][q][i] \in URLs
    BY <2>1, <2>3
  <2> QED BY <2>2, <2>4 DEF Blocks
<1>2. DOMAIN Texts(S) = Tasks
  BY DEF Texts
<1>3. ASSUME NEW q \in Tasks, NEW i \in DOMAIN Texts(S)[q]
      PROVE  Texts(S)[q][i] \in [url : URLs, page : BOOLEAN, copies : {0}]
  <2>1. i \in DOMAIN Blocks(provider, q)
    BY DEF Texts
  <2>2. Texts(S)[q][i] = [Blocks(provider, q)[i] EXCEPT !.page = Blocks(provider, q)[i].url \in S]
    BY <2>1 DEF Texts
  <2>3. Blocks(provider, q)[i] \in [url : URLs, page : {FALSE}, copies : {0}]
    BY <1>1, <2>1
  <2>4. CASE Blocks(provider, q)[i].url \in S
    <3>1. Texts(S)[q][i] = [Blocks(provider, q)[i] EXCEPT !.page = TRUE]
      BY <2>2, <2>4, Zenon
    <3> QED BY <2>3, <3>1
  <2>5. CASE Blocks(provider, q)[i].url \notin S
    <3>1. (Blocks(provider, q)[i].url \in S) = FALSE
      BY <2>5
    <3>2. Texts(S)[q][i] = [Blocks(provider, q)[i] EXCEPT !.page = FALSE]
      BY <2>2, <3>1, Zenon
    <3> QED BY <2>3, <3>2
  <2> QED BY <2>4, <2>5
<1> QED BY <1>2, <1>3

LEMMA AsLong ==
    ASSUME NEW X, NEW c \in Seq(X), NEW o, o = [i \in DOMAIN c |-> o[i]]
    PROVE  Len(o) = Len(c)
<1>1. Len(c) \in Nat /\ DOMAIN c = 1 .. Len(c)
  OBVIOUS
<1>2. o = [i \in 1 .. Len(c) |-> o[i]]
  BY <1>1
<1> QED BY <1>1, <1>2

LEMMA AnswersOf ==
    ASSUME calls \in Rounds, NEW e
    PROVE  /\ Len(ToolOutputs(e)) = Len(calls)
           /\ \A i \in DOMAIN calls :
                 /\ QueriesOf(calls[i]) = <<>> => ToolOutputs(e)[i].error \notin {"", "search failed"}
                 /\ QueriesOf(calls[i]) # <<>> /\ e # "" => ToolOutputs(e)[i].error = e
                 /\ QueriesOf(calls[i]) # <<>> /\ e = "" =>
                       ToolOutputs(e)[i].of = ResultsFor(QueriesOf(calls[i]))
<1>1. calls \in Seq([tool : STRING, malformed : BOOLEAN, queries : Seq(STRING)])
  BY SearchAssumption
<1>2. Len(ToolOutputs(e)) = Len(calls)
  <2>1. ToolOutputs(e) = [i \in DOMAIN calls |-> ToolOutputs(e)[i]]
    BY DEF ToolOutputs
  <2> QED BY <1>1, <2>1, AsLong
<1>3. \A c : ErrorOf(c) # "" <=> QueriesOf(c) = <<>>
  BY DEF ErrorOf, QueriesOf
<1>4. \A c : ErrorOf(c) # "search failed"
  BY DEF ErrorOf
<1> QED BY <1>2, <1>3, <1>4 DEF ToolOutputs

LEMMA MergeOf ==
    ASSUME NEW ts, NEW S, NEW q \in DOMAIN ts, NEW i \in DOMAIN ts[q],
           ts[q][i] \in [url : URLs, page : BOOLEAN, copies : 0 .. 1],
           ts[q][i].url \in S => ts[q][i].copies = 0
    PROVE  /\ Merge(ts, S)[q][i] \in [url : URLs, page : BOOLEAN, copies : 0 .. 1]
           /\ Merge(ts, S)[q][i].url = ts[q][i].url
           /\ Merge(ts, S)[q][i].copies = IF ts[q][i].url \in S THEN 1 ELSE ts[q][i].copies
  BY DEF Merge

LEMMA MergeDomain ==
    ASSUME NEW ts, NEW S
    PROVE  /\ DOMAIN Merge(ts, S) = DOMAIN ts
           /\ \A q \in DOMAIN ts : DOMAIN Merge(ts, S)[q] = DOMAIN ts[q]
  BY DEF Merge

LEMMA SpecialOf ==
    ASSUME NEW ts, \A q \in DOMAIN ts : \A i \in DOMAIN ts[q] : ts[q][i].url \in URLs
    PROVE  /\ SpecialURLs(ts) \subseteq URLs
           /\ \A u \in SpecialURLs(ts) : Special(u)
           /\ \A q \in DOMAIN ts : \A i \in DOMAIN ts[q] :
                 Special(ts[q][i].url) => ts[q][i].url \in SpecialURLs(ts)
  BY DEF SpecialURLs

LEMMA QueriesReturnKeeps == ASSUME SearchInv, QueriesReturn PROVE SearchInv'
<1> USE DEF SearchInv
<1>1. /\ UNCHANGED <<calls, query, ended, outputs, tail, marked, prefetchVars, rounds, failures>>
      /\ pc = "queries" /\ AllTasksDone /\ pc' \in {"chain", "pages", "queue"}
      /\ DOMAIN pushing' = DOMAIN pushing
  BY DEF QueriesReturn
<1>2. \A t \in DOMAIN pushing : Queued(t)
  BY <1>1 DEF StillQueues, AllTasksDone
<1>3. \A t \in DOMAIN pushing : pushing'[t] = pushing[t] \/ (pc' = "queue" /\ t = Caller)
  BY DEF QueriesReturn
<1>4. (pc' = "queue" /\ texts' = Texts({})) \/ (pc' # "queue" /\ UNCHANGED texts)
  BY DEF QueriesReturn
<1>5. pc' = "pages" => UNCHANGED left
  BY DEF QueriesReturn
<1>6. SearchShape'
  BY <1>1 DEF SearchShape, prefetchVars, Special
<1>7. OfRound'
  BY <1>1, <1>5 DEF OfRound, provider
<1>8. StillQueues'
  BY <1>1, <1>2, <1>3 DEF StillQueues, Queued
<1>9. ClosedLate'
  BY <1>1 DEF ClosedLate, prefetchVars
<1>10. Merged'
  BY <1>1, <1>4, TextsOf DEF Merged, OfRound
<1>11. CallsAnswered' /\ SpecialistOnce'
  BY <1>1 DEF CallsAnswered, SpecialistOnce
<1> QED BY <1>6, <1>7, <1>8, <1>9, <1>10, <1>11

LEMMA FetchPagesKeeps == ASSUME SearchInv, FetchPages PROVE SearchInv'
<1> USE DEF SearchInv
<1>1. /\ UNCHANGED <<calls, query, left, ended, outputs, tail, pushing, marked, prefetchVars, rounds>>
      /\ pc = "pages" /\ pc' = "queue" /\ failures' \in 0 .. MaxFailures
  BY DEF FetchPages, Fail, callbackVars
<1>2. PICK S : texts' = Texts(S)
  BY DEF FetchPages
<1>6. SearchShape'
  BY <1>1 DEF SearchShape, prefetchVars, Special
<1>7. OfRound'
  BY <1>1 DEF OfRound
<1>8. StillQueues'
  BY <1>1 DEF StillQueues, Queued
<1>9. ClosedLate'
  BY <1>1 DEF ClosedLate, prefetchVars
<1>10. Merged'
  BY <1>1, <1>2, TextsOf DEF Merged, OfRound
<1>11. CallsAnswered' /\ SpecialistOnce'
  BY <1>1 DEF CallsAnswered, SpecialistOnce
<1> QED BY <1>6, <1>7, <1>8, <1>9, <1>10, <1>11

LEMMA DrainKeeps == ASSUME SearchInv, Drain PROVE SearchInv'
<1> USE DEF SearchInv
<1>1. /\ UNCHANGED <<calls, query, left, texts, ended, outputs, tail, pushing, marked, seen, queue, worker,
                     batch, enriched, dropped, panicked, rounds, failures>>
      /\ pc = "queue" /\ pc' = "draining" /\ open' \in BOOLEAN /\ closed' \in BOOLEAN
  BY DEF Drain, Close, callbackVars, SearchShape
<1>6. SearchShape'
  BY <1>1 DEF SearchShape, Special
<1>7. OfRound'
  BY <1>1 DEF Drain, OfRound
<1>8. StillQueues'
  BY <1>1 DEF Drain, StillQueues, Queued
<1>9. ClosedLate'
  BY <1>1 DEF ClosedLate
<1>10. Merged'
  BY <1>1 DEF Merged
<1>11. CallsAnswered' /\ SpecialistOnce'
  BY <1>1 DEF CallsAnswered, SpecialistOnce
<1> QED BY <1>6, <1>7, <1>8, <1>9, <1>10, <1>11

LEMMA CancelPrefetchKeeps == ASSUME SearchInv, CancelPrefetch PROVE SearchInv'
<1> USE DEF SearchInv
<1>1. /\ UNCHANGED <<calls, query, left, texts, ended, outputs, tail, pushing, marked, seen, queue, worker,
                     batch, enriched, dropped, panicked, rounds, failures>>
      /\ pc = "chain" /\ pc' = "cancelling" /\ open' \in BOOLEAN /\ closed' \in BOOLEAN
  BY DEF CancelPrefetch, Close, callbackVars, SearchShape
<1>6. SearchShape'
  BY <1>1 DEF SearchShape, Special
<1>7. OfRound'
  BY <1>1 DEF CancelPrefetch, OfRound
<1>8. StillQueues'
  BY <1>1 DEF CancelPrefetch, StillQueues, Queued
<1>9. ClosedLate'
  BY <1>1 DEF ClosedLate
<1>10. Merged'
  BY <1>1 DEF Merged
<1>11. CallsAnswered' /\ SpecialistOnce'
  BY <1>1 DEF CallsAnswered, SpecialistOnce
<1> QED BY <1>6, <1>7, <1>8, <1>9, <1>10, <1>11

LEMMA FinishPrefetchKeeps == ASSUME SearchInv, FinishPrefetch PROVE SearchInv'
<1> USE DEF SearchInv
<1>1. /\ UNCHANGED <<calls, query, left, ended, outputs, tail, pushing, marked, prefetchVars, rounds, failures>>
      /\ pc = "draining" /\ pc' = "tail" /\ worker \in {"none", "stopped"}
      /\ texts' = Merge(texts, enriched)
  BY DEF FinishPrefetch, callbackVars
<1>6. SearchShape'
  BY <1>1 DEF SearchShape, prefetchVars, Special
<1>7. OfRound'
  BY <1>1 DEF OfRound
<1>8. StillQueues'
  BY <1>1 DEF StillQueues, Queued
<1>9. ClosedLate'
  BY <1>1 DEF ClosedLate, prefetchVars
<1>10. Merged'
  <2>1. DOMAIN texts' = Tasks /\ \A q \in Tasks : DOMAIN texts'[q] = DOMAIN texts[q]
    BY <1>1, MergeDomain DEF Merged
  <2>2. ASSUME NEW q \in Tasks, NEW i \in DOMAIN texts[q]
        PROVE  /\ texts'[q][i] \in [url : URLs, page : BOOLEAN, copies : 0 .. 1]
               /\ texts'[q][i].copies = IF texts'[q][i].url \in enriched THEN 1 ELSE 0
    BY <1>1, MergeOf DEF Merged
  <2> QED BY <1>1, <2>1, <2>2 DEF Merged, prefetchVars
<1>11. CallsAnswered' /\ SpecialistOnce'
  BY <1>1 DEF CallsAnswered, SpecialistOnce
<1> QED BY <1>6, <1>7, <1>8, <1>9, <1>10, <1>11

LEMMA FetchTailKeeps == ASSUME SearchInv, FetchTail PROVE SearchInv'
<1> USE DEF SearchInv
<1>1. /\ UNCHANGED <<calls, query, left, ended, pushing, marked, prefetchVars, rounds>>
      /\ pc = "tail" /\ pc' = "done" /\ outputs' = ToolOutputs("") /\ failures' \in 0 .. MaxFailures
      /\ \E bad \in SUBSET (SpecialURLs(texts) \ enriched) :
            tail' = bad /\ texts' = Merge(texts, (SpecialURLs(texts) \ enriched) \ bad)
  BY DEF FetchTail, Fail, callbackVars, Unenriched
<1>2. /\ DOMAIN texts = Tasks
      /\ \A q \in Tasks : \A i \in DOMAIN texts[q] :
            /\ texts[q][i] \in [url : URLs, page : BOOLEAN, copies : 0 .. 1]
            /\ texts[q][i].copies = IF texts[q][i].url \in enriched THEN 1 ELSE 0
  BY <1>1 DEF Merged
<1>3. /\ SpecialURLs(texts) \subseteq URLs
      /\ \A u \in SpecialURLs(texts) : Special(u)
      /\ \A q \in Tasks : \A i \in DOMAIN texts[q] :
            Special(texts[q][i].url) => texts[q][i].url \in SpecialURLs(texts)
  BY <1>2, SpecialOf
<1>4. \A u \in enriched : Special(u)
  BY DEF SearchShape
<1>5. PICK bad \in SUBSET (SpecialURLs(texts) \ enriched) :
            tail' = bad /\ texts' = Merge(texts, (SpecialURLs(texts) \ enriched) \ bad)
  BY <1>1
<1>6. SearchShape'
  BY <1>1, <1>3, <1>5 DEF SearchShape, prefetchVars, Special
<1>7. OfRound'
  BY <1>1 DEF OfRound
<1>8. StillQueues'
  BY <1>1 DEF StillQueues, Queued
<1>9. ClosedLate'
  BY <1>1 DEF ClosedLate, prefetchVars
<1>10. Merged'
  BY <1>1 DEF Merged
<1>11. CallsAnswered' /\ SpecialistOnce'
  <2> DEFINE S == (SpecialURLs(texts) \ enriched) \ bad
  <2>1. DOMAIN texts' = Tasks /\ \A q \in Tasks : DOMAIN texts'[q] = DOMAIN texts[q]
    BY <1>2, <1>5, MergeDomain
  <2>2. ASSUME NEW q \in Tasks, NEW i \in DOMAIN texts[q]
        PROVE  /\ texts'[q][i].url = texts[q][i].url
               /\ texts'[q][i].copies = IF texts[q][i].url \in S THEN 1 ELSE texts[q][i].copies
    <3>1. texts[q][i].url \in S => texts[q][i].copies = 0
      BY <1>2
    <3> QED BY <1>2, <1>5, <3>1, MergeOf
  <2>3. ASSUME NEW q \in Tasks, NEW i \in DOMAIN texts[q]
        PROVE  texts'[q][i].copies =
                  IF Special(texts'[q][i].url) /\ texts'[q][i].url \notin tail' THEN 1 ELSE 0
    BY <1>2, <1>3, <1>4, <1>5, <2>2
  <2>4. SpecialistOnce'
    BY <2>1, <2>3 DEF SpecialistOnce, Special
  <2>5. calls \in Rounds /\ Tasks = Asked(calls)
    BY <1>1 DEF OfRound
  <2>6. ASSUME NEW i \in DOMAIN calls, NEW j \in DOMAIN QueriesOf(calls[i])
        PROVE  QueriesOf(calls[i])[j] \in ResultsFor(QueriesOf(calls[i]))[j]
    <3>1. QueriesOf(calls[i])[j] \in Asked(calls)
      BY DEF Asked, ToSet
    <3> QED BY <1>2, <2>5, <3>1 DEF ResultsFor
  <2>7. /\ Len(outputs') = Len(calls)
        /\ \A i \in DOMAIN calls :
              IF QueriesOf(calls[i]) = <<>> THEN outputs'[i].error \notin {"", "search failed"}
              ELSE \A j \in DOMAIN QueriesOf(calls[i]) : QueriesOf(calls[i])[j] \in outputs'[i].of[j]
    BY <1>1, <2>5, <2>6, AnswersOf
  <2>8. CallsAnswered'
    BY <1>1, <2>7 DEF CallsAnswered
  <2> QED BY <2>4, <2>8
<1> QED BY <1>6, <1>7, <1>8, <1>9, <1>10, <1>11

LEMMA SearchFailedKeeps == ASSUME SearchInv, SearchFailed PROVE SearchInv'
<1> USE DEF SearchInv
<1>1. /\ UNCHANGED <<calls, query, left, texts, ended, tail, pushing, marked, prefetchVars, rounds, failures>>
      /\ pc = "cancelling" /\ pc' = "failed" /\ worker \in {"none", "stopped"}
      /\ outputs' = ToolOutputs("search failed")
  BY DEF SearchFailed, callbackVars
<1>6. SearchShape'
  BY <1>1 DEF SearchShape, prefetchVars, Special
<1>7. OfRound'
  BY <1>1 DEF OfRound
<1>8. StillQueues'
  BY <1>1 DEF StillQueues, Queued
<1>9. ClosedLate'
  BY <1>1 DEF ClosedLate, prefetchVars
<1>10. Merged'
  BY <1>1 DEF Merged
<1>11. CallsAnswered' /\ SpecialistOnce'
  <2>1. calls \in Rounds /\ left = <<>>
    BY <1>1 DEF OfRound
  <2>2. /\ Len(outputs') = Len(calls)
        /\ \A i \in DOMAIN calls :
              IF QueriesOf(calls[i]) = <<>> THEN outputs'[i].error \notin {"", "search failed"}
              ELSE outputs'[i].error = "search failed"
    <3> DEFINE e == "search failed"
    <3>1. /\ Len(ToolOutputs(e)) = Len(calls)
          /\ \A i \in DOMAIN calls :
                /\ QueriesOf(calls[i]) = <<>> => ToolOutputs(e)[i].error \notin {"", "search failed"}
                /\ QueriesOf(calls[i]) # <<>> => ToolOutputs(e)[i].error = e
      <4> HIDE DEF e
      <4>1. e # ""
        BY DEF e
      <4> QED BY <2>1, <4>1, AnswersOf
    <3> QED BY <1>1, <3>1
  <2> QED BY <1>1, <2>1, <2>2 DEF CallsAnswered, SpecialistOnce
<1> QED BY <1>6, <1>7, <1>8, <1>9, <1>10, <1>11

LEMMA StartRoundKeeps == ASSUME SearchInv, StartRound PROVE SearchInv'
<1> USE DEF SearchInv
<1>1. /\ pc \in Rest /\ rounds < MaxRounds /\ rounds' = rounds + 1 /\ UNCHANGED <<panicked, failures>>
      /\ seen' = {} /\ queue' = <<>> /\ batch' = {} /\ enriched' = {} /\ dropped' = {} /\ tail' = {}
      /\ ended' = FALSE /\ closed' = FALSE
  BY DEF StartRound
<1>2. PICK cs \in Rounds :
        /\ calls' = cs /\ texts' = [q \in {} |-> <<>>]
        /\ \/ /\ \A i \in DOMAIN cs : QueriesOf(cs[i]) = <<>>
              /\ pc' = "done" /\ left' = <<>> /\ query' = <<>> /\ open' = FALSE /\ worker' = "none"
              /\ outputs' = [i \in DOMAIN cs |-> [error |-> ErrorOf(cs[i]), of |-> <<>>]]
              /\ pushing' = <<>> /\ marked' = <<>>
           \/ /\ pc' = "chain" /\ query' = [q \in Asked(cs) |-> "none"]
              /\ pushing' = [t \in Asked(cs) \cup {Caller} |-> <<>>]
              /\ marked' = [t \in Asked(cs) \cup {Caller} |-> {}]
              /\ open' = SupportsPrefetch /\ worker' \in {"none", "top"}
  BY DEF StartRound
<1>3. /\ \A q \in DOMAIN query' : query'[q] = "none"
      /\ DOMAIN marked' = DOMAIN pushing'
      /\ \A t \in DOMAIN pushing' : pushing'[t] = <<>> /\ marked'[t] = {}
      /\ open' \in BOOLEAN /\ worker' \in {"none", "top"} /\ pc' \in {"done", "chain"}
      /\ pc' = "chain" => DOMAIN query' = Asked(cs) /\ DOMAIN pushing' = Asked(cs) \cup {Caller}
      /\ pc' = "done" => worker' = "none"
  <2>1. SupportsPrefetch \in BOOLEAN
    BY Zenon DEF SupportsPrefetch
  <2>2. DOMAIN <<>> = {}
    OBVIOUS
  <2> QED BY <1>2, <2>1, <2>2
<1>6. SearchShape'
  <2>1. queue' \in Seq(seen') /\ Len(queue') <= QueueSize
    BY <1>1, NoneQueued, Bounds
  <2>2. rounds' \in 0 .. MaxRounds
    BY <1>1, Bounds DEF SearchShape
  <2> QED BY <1>1, <1>3, <2>1, <2>2 DEF SearchShape
<1>7. OfRound'
  BY <1>2, <1>3 DEF OfRound
<1>8. StillQueues'
  BY <1>3 DEF StillQueues, Queued
<1>9. ClosedLate'
  BY <1>1, <1>3 DEF ClosedLate
<1>10. Merged'
  BY <1>3 DEF Merged
<1>11. CallsAnswered' /\ SpecialistOnce'
  <2>1. CASE pc' = "chain"
    BY <2>1 DEF CallsAnswered, SpecialistOnce
  <2>2. CASE pc' = "done"
    <3>1. /\ \A i \in DOMAIN cs : QueriesOf(cs[i]) = <<>>
          /\ outputs' = [i \in DOMAIN cs |-> [error |-> ErrorOf(cs[i]), of |-> <<>>]]
      BY <1>2, <2>2
    <3>2. cs \in Seq([tool : STRING, malformed : BOOLEAN, queries : Seq(STRING)])
      BY SearchAssumption
    <3>3. Len(outputs') = Len(cs)
      <4>1. outputs' = [i \in DOMAIN cs |-> outputs'[i]]
        BY <3>1
      <4> QED BY <3>2, <4>1, AsLong
    <3>4. \A c : QueriesOf(c) = <<>> => ErrorOf(c) \notin {"", "search failed"}
      BY DEF ErrorOf
    <3>5. CallsAnswered'
      BY <1>2, <2>2, <3>1, <3>3, <3>4 DEF CallsAnswered
    <3>6. SpecialistOnce'
      BY <1>2 DEF SpecialistOnce
    <3> QED BY <3>5, <3>6
  <2> QED BY <1>3, <2>1, <2>2
<1> QED BY <1>6, <1>7, <1>8, <1>9, <1>10, <1>11

LEMMA StepSearchInv == SearchInv /\ [SearchNext]_searchVars => SearchInv'
<1> SUFFICES ASSUME SearchInv, [SearchNext]_searchVars PROVE SearchInv'
  OBVIOUS
<1>1. CASE StartRound \/ WorkerExpires
  BY <1>1, StartRoundKeeps, WorkerExpiresKeeps
<1>2. CASE Progress
  BY <1>2, AskProviderKeeps, QueriesReturnKeeps, FetchPagesKeeps, DrainKeeps, FinishPrefetchKeeps,
     FetchTailKeeps, CancelPrefetchKeeps, SearchFailedKeeps, ClaimQueryKeeps, QueryAnsweredKeeps,
     QueryFailedKeeps, PushDoneKeeps, MarkURLKeeps, QueueURLKeeps, WorkerLoopsKeeps, WorkerTakesKeeps,
     WorkerFetchedKeeps DEF Progress
<1>3. CASE UNCHANGED searchVars
  <2>1. UNCHANGED <<roundVars, callbackVars, prefetchVars, rounds, failures>>
    BY <1>3 DEF searchVars
  <2>2. SearchShape'
    BY <2>1 DEF SearchInv, SearchShape, roundVars, callbackVars, prefetchVars, Special
  <2>3. OfRound' /\ StillQueues' /\ ClosedLate'
    BY <2>1 DEF SearchInv, OfRound, StillQueues, ClosedLate, Queued, provider, roundVars,
       callbackVars, prefetchVars
  <2>4. Merged' /\ CallsAnswered' /\ SpecialistOnce'
    BY <2>1 DEF SearchInv, Merged, CallsAnswered, SpecialistOnce, roundVars, prefetchVars
  <2> QED BY <2>2, <2>3, <2>4 DEF SearchInv
<1> QED BY <1>1, <1>2, <1>3 DEF SearchNext

\* However the queries of a round, the callbacks that queue what they found, the
\* worker and its fetches interleave, fail and miss their deadlines: each call is
\* answered, each special URL's content is in its blocks once, and nothing is
\* sent on the closed queue (search.go, search_fetchers.go).
THEOREM RoundsAnswered == SearchSpec => []SearchAnswers
<1>1. SearchInv => SearchAnswers
  <2> SUFFICES ASSUME SearchInv PROVE SearchAnswers
    OBVIOUS
  <2>1. SearchTypes
    <3>1. ToSet(queue) \subseteq seen
      BY QueuedSeen DEF SearchInv, SearchShape
    <3> QED BY <3>1 DEF SearchInv, SearchShape, SearchTypes
  <2> QED BY <2>1 DEF SearchInv, ClosedLate, SearchAnswers, NeverSentOnClosed
<1> QED BY <1>1, InitSearchInv, StepSearchInv, PTL DEF SearchSpec
=============================================================================
