---------------------------- MODULE ProgressCard ----------------------------
(***************************************************************************)
(* The live progress card and the hand-over of its message to the reply    *)
(* (internal/app/progress.go), the pacing of the edits of that message     *)
(* (bot.go), and the checks that put a final render back which a streaming *)
(* edit overwrote (final_render.go).                                       *)
(*                                                                         *)
(* Two goroutines edit one message.  The card loop renders the stages and  *)
(* searches that the request goroutine queues; the request goroutine       *)
(* settles the card before its own first edit.  Discord may apply an edit  *)
(* long after it answered it (bound: one such edit).  Times count down:    *)
(* ticks until an edit may be sent; and ticks since the last one was.      *)
(***************************************************************************)
EXTENDS Integers

CONSTANTS
    EditDelay,  \* editDelay, in ticks
    Checks,     \* len(finalRenderCheckDelays)
    Failing     \* edits of the card, and the calls of a check, may fail

ASSUME BoundsAssumption ==
    EditDelay \in Nat \ {0} /\ Checks \in Nat /\ Failing \in BOOLEAN

VARIABLES
    loop,       \* the card loop: "post", "check", "select", "wait", "editing" or "done"
    view,       \* what it renders next: [stage, search]
    stages, searches,   \* the one-slot channels; 0 is empty
    stop, cancelled,    \* close(stop) and ctx.Done
    request,    \* the request goroutine: "run", "settling", "idle", "slot", "final",
                \* "restore" or "done"
    asked,      \* the stage and search it queued last
    kind,       \* of the edit whose slot it waits for
    checks,     \* checks of the final render so far
    failed,     \* a call of one of them failed
    posted,     \* the message exists
    cardNext,   \* until progress.nextEditAt
    slotNext,   \* until nextEditAtByMessage
    reqWait,    \* until the slot the request goroutine reserved
    since,      \* since the last edit was sent, at most EditDelay
    hurried,    \* an edit was sent too early
    sentView,   \* the view rendered last
    editor,     \* who edited last: "none", "card" or "reply"
    shown,      \* what Discord shows: "none", "card", "stream" or "final"
    late        \* the late edit: "never", the edit until it is applied, "landed",
                \* and "seen" once a check read the message after that

loopVars == <<loop, view, sentView>>
channelVars == <<stages, searches, stop, cancelled>>
requestVars == <<request, asked, kind, checks, failed>>
timeVars == <<cardNext, slotNext, reqWait>>
discordVars == <<posted, since, hurried, editor, shown, late>>
vars == <<loopVars, channelVars, requestVars, timeVars, discordVars>>

Empty == 0
Generating == 2                 \* requestProgressStageGeneratingResponse
NoView == [stage |-> 0, search |-> 0]
Renders == {"card", "stream", "final"}

Init ==
    /\ loop = "post" /\ view = NoView /\ sentView = NoView
    /\ stages = Empty /\ searches = Empty /\ stop = FALSE /\ cancelled = FALSE
    /\ request = "run" /\ asked = NoView /\ kind = "stream" /\ checks = 0 /\ failed = FALSE
    /\ cardNext = 0 /\ slotNext = 0 /\ reqWait = 0
    /\ posted = FALSE /\ since = EditDelay /\ hurried = FALSE
    /\ editor = "none" /\ shown = "none" /\ late = "never"

-----------------------------------------------------------------------------
(* Discord and the clock.                                                  *)

\* editEmbedMessage: the edit is applied at once, or later.
Edit(who, what) ==
    /\ since' = 0 /\ hurried' = (hurried \/ since < EditDelay) /\ editor' = who
    /\ \/ shown' = what /\ UNCHANGED late
       \/ late = "never" /\ late' = what /\ UNCHANGED shown
    /\ UNCHANGED posted

\* An edit that fails changes nothing, but Discord counts it.
EditFails(who) ==
    /\ Failing /\ since' = 0 /\ hurried' = (hurried \/ since < EditDelay) /\ editor' = who
    /\ UNCHANGED <<posted, shown, late>>

Land ==
    /\ late \in Renders /\ shown' = late /\ late' = "landed"
    /\ UNCHANGED <<loopVars, channelVars, requestVars, timeVars, posted, since, hurried,
                   editor>>

\* ctx ends, by its deadline or with the process.
Cancel ==
    /\ ~cancelled /\ cancelled' = TRUE
    /\ UNCHANGED <<loopVars, stages, searches, stop, requestVars, timeVars, discordVars>>

\* Time does not pass while an edit's slot has come and it is not sent yet.
Due == \/ loop = "wait" /\ cardNext = 0
       \/ request \in {"slot", "restore"} /\ reqWait = 0
CountDown(t) == IF t = 0 THEN 0 ELSE t - 1
Tick ==
    /\ ~Due
    /\ cardNext' = CountDown(cardNext) /\ slotNext' = CountDown(slotNext)
    /\ reqWait' = CountDown(reqWait)
    /\ since' = IF since = EditDelay THEN since ELSE since + 1
    /\ UNCHANGED <<loopVars, channelVars, requestVars, posted, hurried, editor, shown, late>>

-----------------------------------------------------------------------------
(* The card loop.                                                          *)

Stopped == stop \/ cancelled
LoopTo(label) == loop' = label
KeepRequest == UNCHANGED <<stop, cancelled, requestVars, slotNext, reqWait>>

\* postCard: without a card the loop ends.
PostCard ==
    /\ loop = "post"
    /\ \/ LoopTo("check") /\ posted' = TRUE /\ shown' = "card"
       \/ LoopTo("done") /\ UNCHANGED <<posted, shown>>
    /\ UNCHANGED <<view, sentView, stages, searches, cardNext, since, hurried, editor,
                   late>>
    /\ KeepRequest

\* The loop ends: its deferred holdEditSlot runs before close(done).
EndLoop_NoHold ==
    /\ LoopTo("done") /\ UNCHANGED slotNext
EndLoop ==
    /\ LoopTo("done")
    /\ slotNext' = IF cardNext > slotNext THEN cardNext ELSE slotNext
KeepAllButSlot == UNCHANGED <<view, sentView, channelVars, requestVars, cardNext,
                              reqWait, discordVars>>
CheckStop ==
    /\ loop = "check"
    /\ \/ Stopped /\ EndLoop
       \/ ~Stopped /\ LoopTo("select") /\ UNCHANGED slotNext
    /\ KeepAllButSlot
SelectStop ==
    /\ loop = "select" /\ Stopped /\ EndLoop
    /\ KeepAllButSlot

\* select takes whichever is ready; a stage that is not new renders nothing.
TakeStage ==
    /\ loop = "select" /\ stages # Empty /\ stages' = Empty
    /\ \/ stages > view.stage /\ view' = [view EXCEPT !.stage = stages] /\ LoopTo("wait")
       \/ stages <= view.stage /\ LoopTo("check") /\ UNCHANGED view
    /\ UNCHANGED <<sentView, searches, cardNext, discordVars>> /\ KeepRequest
TakeSearch ==
    /\ loop = "select" /\ searches # Empty /\ searches' = Empty
    /\ view' = [view EXCEPT !.search = searches] /\ LoopTo("wait")
    /\ UNCHANGED <<sentView, stages, cardNext, discordVars>> /\ KeepRequest
Refresh ==
    /\ loop = "select" /\ view.stage < Generating /\ LoopTo("wait")
    /\ UNCHANGED <<view, sentView, stages, searches, cardNext, discordVars>>
    /\ KeepRequest

\* waitForEditSlot gives the edit up when the loop is stopped ...
DropEdit ==
    /\ loop = "wait" /\ cardNext > 0 /\ Stopped /\ LoopTo("check")
    /\ UNCHANGED <<view, sentView, stages, searches, cardNext, discordVars>>
    /\ KeepRequest

\* ... and otherwise drainPendingUpdates runs before the card is edited.
Drained ==
    [stage |-> IF stages > view.stage THEN stages ELSE view.stage,
     search |-> IF searches = Empty THEN view.search ELSE searches]
EditCard ==
    /\ loop = "wait" /\ cardNext = 0 /\ LoopTo("editing")
    /\ view' = Drained /\ sentView' = Drained
    /\ stages' = Empty /\ searches' = Empty /\ cardNext' = EditDelay
    /\ \/ Edit("card", "card")
       \/ EditFails("card")
    /\ KeepRequest
EditReturns ==
    /\ loop = "editing" /\ LoopTo("check")
    /\ UNCHANGED <<view, sentView, stages, searches, cardNext, discordVars>>
    /\ KeepRequest

-----------------------------------------------------------------------------
(* The request goroutine.                                                  *)

KeepLoop == UNCHANGED <<loopVars, cardNext>>
RequestTo(label) == request' = label

\* advance and showSearch: sendLatest replaces what the loop did not take.
SendLatest(channel, value) == value
Advance ==
    /\ request = "run" /\ asked.stage < Generating
    /\ asked' = [asked EXCEPT !.stage = @ + 1]
    /\ stages' = SendLatest(stages, asked.stage + 1)
    /\ UNCHANGED <<searches, stop, cancelled, request, kind, checks, failed, slotNext, reqWait,
                   discordVars>>
    /\ KeepLoop
ShowSearch ==
    /\ request = "run" /\ asked.stage = Generating /\ asked.search < 2
    /\ asked' = [asked EXCEPT !.search = @ + 1]
    /\ searches' = SendLatest(searches, asked.search + 1)
    /\ UNCHANGED <<stages, stop, cancelled, request, kind, checks, failed, slotNext, reqWait,
                   discordVars>>
    /\ KeepLoop

\* settle closes stop, and waits for done; progress.fail settles early.
Settle ==
    /\ request = "run" /\ RequestTo("settling") /\ stop' = TRUE
    /\ UNCHANGED <<stages, searches, cancelled, asked, kind, checks, failed, slotNext, reqWait,
                   discordVars>>
    /\ KeepLoop
KeepButRequest == UNCHANGED <<channelVars, asked, kind, checks, failed, slotNext, reqWait,
                              discordVars>>
Settled_NoWait ==
    /\ request = "settling" /\ RequestTo("idle")
    /\ KeepButRequest /\ KeepLoop
Settled ==
    /\ request = "settling" /\ loop = "done" /\ RequestTo("idle")
    /\ KeepButRequest /\ KeepLoop

\* reserveEditDelay.
Reserve_OneLate(k) ==
    /\ kind' = k /\ reqWait' = slotNext + EditDelay /\ slotNext' = slotNext + EditDelay
Reserve(k) ==
    /\ kind' = k /\ reqWait' = slotNext /\ slotNext' = slotNext + EditDelay

\* A render of the reply; without a card it is sent.
RenderReply ==
    /\ request = "idle"
    /\ \E k \in {"stream", "final"} :
         \/ /\ posted /\ Reserve(k) /\ RequestTo("slot") /\ UNCHANGED discordVars
         \/ /\ ~posted /\ posted' = TRUE /\ shown' = k
            /\ RequestTo(IF k = "final" THEN "final" ELSE "idle")
            /\ UNCHANGED <<kind, slotNext, reqWait, since, hurried, editor, late>>
    /\ UNCHANGED <<channelVars, asked, checks, failed>> /\ KeepLoop

\* waitForEditSlotForMessage and the edit; a reply whose edit is given up ends.
EditReply ==
    /\ request = "slot"
    /\ \/ /\ reqWait = 0 /\ Edit("reply", kind)
          /\ RequestTo(IF kind = "final" THEN "final" ELSE "idle")
       \/ /\ reqWait > 0 /\ cancelled /\ RequestTo("done") /\ UNCHANGED discordVars
    /\ UNCHANGED <<channelVars, asked, kind, checks, failed, slotNext, reqWait>> /\ KeepLoop

\* confirmFinalRenderAfter: after each delay, restoreFinalRender reads the
\* message and edits the final render back in if it shows a streaming frame.
Confirm ==
    /\ request = "final" /\ checks < Checks /\ ~cancelled /\ checks' = checks + 1
    /\ \/ /\ late' = IF late = "landed" THEN "seen" ELSE late
          /\ \/ shown = "stream" /\ RequestTo("restore") /\ Reserve("final")
             \/ shown # "stream" /\ UNCHANGED <<request, kind, reqWait, slotNext>>
          /\ UNCHANGED failed
       \/ /\ Failing /\ failed' = TRUE
          /\ UNCHANGED <<request, kind, reqWait, slotNext, late>>
    /\ UNCHANGED <<channelVars, asked, posted, since, hurried, editor, shown>> /\ KeepLoop
Restore_Impatient ==
    /\ request = "restore" /\ RequestTo("final")
    /\ \/ reqWait = 0 /\ Edit("reply", "final") /\ UNCHANGED failed
       \/ reqWait = 0 /\ EditFails("reply") /\ failed' = TRUE
       \/ reqWait > 0 /\ UNCHANGED <<failed, discordVars>>
    /\ UNCHANGED <<channelVars, asked, kind, checks, slotNext, reqWait>> /\ KeepLoop
Restore ==
    /\ request = "restore" /\ RequestTo("final")
    /\ \/ reqWait = 0 /\ Edit("reply", "final") /\ UNCHANGED failed
       \/ reqWait = 0 /\ EditFails("reply") /\ failed' = TRUE
       \/ reqWait > 0 /\ cancelled /\ UNCHANGED <<failed, discordVars>>
    /\ UNCHANGED <<channelVars, asked, kind, checks, slotNext, reqWait>> /\ KeepLoop

-----------------------------------------------------------------------------
Loop == PostCard \/ CheckStop \/ SelectStop \/ Refresh \/ DropEdit \/ EditCard \/ EditReturns
Next ==
    \/ Loop \/ TakeStage \/ TakeSearch
    \/ Advance \/ ShowSearch \/ Settle \/ Settled \/ RenderReply \/ EditReply
    \/ Confirm \/ Restore
    \/ Land \/ Cancel \/ Tick

Spec == Init /\ [][Next]_vars

\* The goroutines run, calls return and time passes; select chooses at random
\* among what is ready, so nothing that is ready again and again is left out.
FairSpec ==
    /\ Spec
    /\ WF_vars(Loop) /\ SF_vars(TakeStage) /\ SF_vars(TakeSearch)
    /\ WF_vars(Settled) /\ WF_vars(EditReply) /\ WF_vars(Restore) /\ WF_vars(Tick)

-----------------------------------------------------------------------------
Views == [stage : 0..Generating, search : 0..2]

TypeOK ==
    /\ loop \in {"post", "check", "select", "wait", "editing", "done"}
    /\ view \in Views /\ sentView \in Views /\ asked \in Views
    /\ stages \in 0..Generating /\ searches \in 0..2
    /\ request \in {"run", "settling", "idle", "slot", "final", "restore", "done"}
    /\ kind \in {"stream", "final"} /\ checks \in 0..Checks
    /\ stop \in BOOLEAN /\ cancelled \in BOOLEAN /\ posted \in BOOLEAN
    /\ hurried \in BOOLEAN /\ failed \in BOOLEAN
    /\ cardNext \in 0..EditDelay /\ since \in 0..EditDelay
    /\ slotNext \in 0..(2 * EditDelay) /\ reqWait \in 0..EditDelay
    /\ editor \in {"none", "card", "reply"} /\ shown \in Renders \cup {"none"}
    /\ late \in Renders \cup {"never", "landed", "seen"}

\* Once the reply has edited the message, the card loop never does: settle()
\* waits for an edit under way and drops one that waits for its slot.
CardKeepsOff == [][editor = "reply" => editor' = "reply"]_editor

\* Two edits of the message are EditDelay apart, across the hand-over and the
\* restoring edits too: the loop hands its last slot over before it ends.
EditsPaced == ~hurried

\* When the last check has read the message and nothing landed after it, the
\* message shows no streaming frame, if the checks were not cancelled and none
\* of their calls failed.
FinalRestored ==
    request = "final" /\ checks = Checks /\ ~cancelled /\ ~failed
        /\ late \notin Renders \cup {"landed"} => shown # "stream"
=============================================================================
