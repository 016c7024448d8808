-------------------------------- MODULE Reply --------------------------------
(***************************************************************************)
(* One reply, from the first stream to the release of its nodes            *)
(* (internal/app/response.go): rounds of generation with their retries,    *)
(* the single web search round and the final answer that follows it, the   *)
(* stateless retry and the fallback model, rendering over the messages     *)
(* that already exist, table images and iili.io urls posted after it, and  *)
(* the failure card.                                                       *)
(*                                                                         *)
(* A text is a member of Contents cut into segments; every stream chooses  *)
(* one.  Each stream, each Discord call and each wait may fail.  The card  *)
(* loop is ProgressCard's: here it posts the card or not, and             *)
(* settleProgress takes it over.                                           *)
(***************************************************************************)
EXTENDS Integers, Sequences, FiniteSets

CONSTANTS
    Contents,       \* texts a model may answer
    Linked,         \* the one of them that contains an iili.io url
    Tabled,         \* those with a table in every segment
    MaxSegments,    \* bound: segments of a text
    MaxFailures,    \* bound: edits and deletions that Discord fails
    MaxStreams,     \* prematureStreamRetryMaxAttempts
    MaxUnoffered,   \* unofferedToolCallMaxAttempts
    Fallback        \* a fallback model is configured

ASSUME ContentsAssumption == 
    /\ Linked \in Contents /\ Tabled \subseteq Contents
    /\ Contents \cap {"card", "failure", "plain"} = {}
ASSUME BoundsAssumption ==
    /\ MaxSegments \in Nat \ {0} /\ MaxFailures \in Nat
    /\ MaxStreams \in Nat \ {0} /\ MaxUnoffered \in Nat \ {0}
    /\ Fallback \in BOOLEAN

VARIABLES
    pc,
    stage,      \* the request: "chained" to an earlier response, "plain" or "fallback"
    phase,      \* of the attempt: "first", "forced" or "toolFree"
    hasTools,   \* the request offers web_search
    ignores,    \* toolChoiceNoneIgnored has the model, where tools are offered
    prefill,    \* segments carried over from the round that called tools: 0 or 1
    streams, unoffered,      \* attempts made by the two retry loops
    out,        \* the last stream: [c, n, fin, tool, err]
    messages,   \* tracker.responseMessages: [spec, model] as Discord shows them
    locked,     \* the messages, by position, whose pending node is locked
    card,       \* the card: "none", "posted" (its loop owns it) or "settled"
    progressActive,
    failures,   \* renders that failed
    doubted,    \* messages whose last edit failed: it may have been applied
    rendered,   \* tracker.renderedSpecs
    images, imagesSent,      \* tracker.tableImages, tracker.tableImagesSent
    stale,      \* a table of another text than the one shown was posted
    claimed, links,          \* iiliRepliedURLs; how often its url was posted
    outcome     \* "none", "answered", "failed" or "unseen"

loopVars == <<stage, phase, hasTools, ignores, prefill, streams, unoffered>>
showVars == <<messages, locked, card, progressActive, failures, doubted, rendered>>
replyVars == <<images, imagesSent, stale, claimed, links>>
vars == <<pc, loopVars, out, showVars, replyVars, outcome>>

Model == IF stage = "fallback" THEN "fallback" ELSE "primary"
Card == [c |-> "card", as |-> "open"]
Failure == [c |-> "failure", as |-> "good"]
NoOut == [c |-> "card", n |-> 0, fin |-> "", tool |-> FALSE, err |-> "none"]

Init ==
    /\ pc = "round" /\ stage = "chained" /\ phase = "first"
    /\ hasTools \in BOOLEAN /\ ignores \in {FALSE, hasTools}
    /\ prefill = 0 /\ streams = 1 /\ unoffered = 1 /\ out = NoOut
    /\ messages = <<>> /\ locked = {}
    /\ card = "none" /\ progressActive = FALSE
    /\ failures = 0 /\ doubted = {} /\ rendered = <<>>
    /\ images = <<>> /\ imagesSent = <<>> /\ stale = FALSE
    /\ claimed = FALSE /\ links = 0
    /\ outcome = "none"

-----------------------------------------------------------------------------
(* Rendering.  The card loop has ended when it begins, so nothing          *)
(* interleaves with a render and it is one step.                           *)

\* The card loop posts the card, while the reply has not settled it.
PostCard ==
    /\ pc # "done" /\ card = "none"
    /\ card' = "posted" /\ locked' = {1}
    /\ UNCHANGED <<pc, loopVars, out, messages, progressActive, failures, doubted,
                   rendered, replyVars, outcome>>

\* settleProgress waits for the card loop; a card becomes the first message.
Settled == IF card = "posted" THEN <<[spec |-> Card, model |-> "primary"]>> ELSE messages
SettledActive == progressActive \/ card = "posted"

\* buildRenderSpecs.
RenderSpecs(c, n, fin, final) ==
    [i \in 1..n |->
       [c |-> c,
        as |-> IF i < n THEN "done" ELSE IF ~final THEN "open"
               ELSE IF fin = "stop" THEN "good" ELSE "bad"]]

Longer(m, n) == IF m > n THEN m ELSE n
Shorter(m, n) == IF m < n THEN m ELSE n
Prefix(s, n) == SubSeq(s, 1, Shorter(Len(s), n))
Changed(specs) ==
    {i \in DOMAIN specs : i > Len(rendered) \/ rendered[i] # specs[i]}
Due(specs, k) == {i \in Changed(specs) : i < k}

\* A trim that deleted some messages and then failed leaves renderedSpecs longer
\* than responseMessages: a spec recorded there is not shown again, and the ones
\* after it are sent too early.
Skipped(specs, k) == {i \in DOMAIN specs \ Changed(specs) : Len(Settled) < i /\ i < k}
Reached(specs, k) == Longer(Len(Settled), k - 1 - Cardinality(Skipped(specs, k)))

Apply_NoDiscard(specs, k, edited, keep) ==
    \E source \in [(Len(Settled) + 1)..keep -> Due(specs, k)] :
      /\ \A p \in DOMAIN source : source[p] = p + Cardinality(Skipped(specs, source[p]))
      /\ messages' = [p \in 1..keep |->
           IF p > Len(Settled) THEN [spec |-> specs[source[p]], model |-> Model]
           ELSE IF p \in Due(specs, k) \cup edited THEN [spec |-> specs[p], model |-> Model]
           ELSE Settled[p]]
      /\ locked' = locked \cup (Len(Settled) + 1)..keep
      /\ progressActive' = (SettledActive /\ 1 \notin Due(specs, k))
      /\ card' = "settled"

Apply_StillCard(specs, k, edited, keep) ==
    \E source \in [(Len(Settled) + 1)..keep -> Due(specs, k)] :
      /\ \A p \in DOMAIN source : source[p] = p + Cardinality(Skipped(specs, source[p]))
      /\ messages' = [p \in 1..keep |->
           IF p > Len(Settled) THEN [spec |-> specs[source[p]], model |-> Model]
           ELSE IF p \in Due(specs, k) \cup edited THEN [spec |-> specs[p], model |-> Model]
           ELSE Settled[p]]
      /\ locked' = (locked \cup (Len(Settled) + 1)..keep) \ ((keep + 1)..Len(Settled))
      /\ progressActive' = SettledActive
      /\ card' = "settled"

\* renderEmbedSpec for the changed specs before the k-th: sent when there is no
\* message for it (the p-th message by the spec source[p]), else an edit in
\* place; "edited" is the edit that was applied although it failed.  Of the
\* messages the first "keep" are kept.
Apply(specs, k, edited, keep) ==
    \E source \in [(Len(Settled) + 1)..keep -> Due(specs, k)] :
      /\ \A p \in DOMAIN source : source[p] = p + Cardinality(Skipped(specs, source[p]))
      /\ messages' = [p \in 1..keep |->
           IF p > Len(Settled) THEN [spec |-> specs[source[p]], model |-> Model]
           ELSE IF p \in Due(specs, k) \cup edited THEN [spec |-> specs[p], model |-> Model]
           ELSE Settled[p]]
      /\ locked' = (locked \cup (Len(Settled) + 1)..keep) \ ((keep + 1)..Len(Settled))
      /\ progressActive' = (SettledActive /\ 1 \notin Due(specs, k))
      /\ card' = "settled"

\* Messages that may differ from what is recorded of them: those whose last edit
\* failed and those sent too early.
Doubted(specs, k, keep) ==
    (doubted \ (Due(specs, k) \cup (keep + 1)..Len(Settled)))
       \cup IF Skipped(specs, k) = {} THEN {} ELSE (Len(Settled) + 1)..keep

\* renderEmbedResponse, which ends with trimExtraEmbedResponses.
Render(specs, final) ==
    LET n == Len(specs)
        keep == Shorter(n, Reached(specs, n + 1)) IN
    /\ final => Skipped(specs, n + 1) = {}
    /\ Apply(specs, n + 1, {}, keep)
    /\ doubted' = Doubted(specs, n + 1, keep)
    /\ rendered' = specs
    /\ UNCHANGED failures

\* The specs before the k-th are shown and recorded, and no message is deleted.
Upto(specs, k, edited) ==
    /\ Apply(specs, k, edited, Reached(specs, k))
    /\ rendered' = [i \in 1..Longer(k - 1, Len(rendered)) |->
                       IF i < k THEN specs[i] ELSE rendered[i]]

\* ... or fails at the k-th spec, whose edit may have been applied, or when it
\* deletes the k-th message.
RenderFails(specs, final) ==
    LET n == Len(specs) IN
    /\ failures < MaxFailures /\ failures' = failures + 1
    /\ \/ \E k \in Changed(specs) :
            /\ final => Skipped(specs, k) = {}
            /\ \E edited \in SUBSET ({k} \cap DOMAIN Settled) : Upto(specs, k, edited)
            /\ doubted' = Doubted(specs, k, Reached(specs, k)) \cup ({k} \cap DOMAIN Settled)
       \/ \E k \in (n + 1)..Len(Settled) :
            /\ Apply(specs, n + 1, {}, k)
            /\ doubted' = Doubted(specs, n + 1, k)
            /\ rendered' = [i \in 1..Longer(n, Len(rendered)) |->
                               IF i <= n THEN specs[i] ELSE rendered[i]]

\* The final render also looks at the message of every spec it comes to, and
\* panics at the first that has none.
RenderPanics(specs) ==
    \E k \in DOMAIN specs :
       /\ k \in Skipped(specs, k + 1) /\ Skipped(specs, k) = {}
       /\ Upto(specs, k, {})
       /\ doubted' = Doubted(specs, k, Reached(specs, k))
       /\ UNCHANGED failures

\* IsTransientStreamError takes a Discord call that timed out for the stream's.
RenderErrors == {"transient", "other"}

-----------------------------------------------------------------------------
(* One round.                                                              *)

\* runGenerationRound: a stream answers c in n segments, of which the first k
\* are rendered while it runs, none only if the text is held back to the end; a
\* render that fails ends it.
Stream ==
    /\ pc = "round" /\ pc' = "ended"
    /\ \E c \in Contents, n \in prefill..MaxSegments :
         /\ out' \in [c : {c}, n : {n}, fin : {""}, tool : {FALSE}, err : RenderErrors \cup {"none"}]
         /\ \/ /\ n <= prefill + 1 /\ out'.err = "none"
               /\ UNCHANGED <<showVars, images, imagesSent>>
            \/ \E k \in 1..n :
                 /\ out'.err = "none" /\ Render(RenderSpecs(c, k, "", FALSE), FALSE)
                 /\ images' = Prefix(images, k) /\ imagesSent' = Prefix(imagesSent, k)
            \/ /\ out'.err # "none" /\ n > 0 /\ RenderFails(RenderSpecs(c, n, "", FALSE), FALSE)
               /\ UNCHANGED <<images, imagesSent>>
    /\ UNCHANGED <<loopVars, stale, claimed, links, outcome>>

\* Otherwise it ends by itself, with or without a finish reason, or with
\* an error.  A previous_response_id is rejected before anything is streamed.
StreamEnds ==
    \E fin \in {"", "stop", "length"}, err \in {"none", "transient", "other", "previous"} :
       /\ out.err # "none" => err = out.err
       /\ err = "previous" => out.n = prefill /\ stage = "chained"
       /\ out' = [out EXCEPT !.fin = IF err # "none" /\ fin = "" THEN "error" ELSE fin,
                             !.err = IF err = "none" /\ out.n = 0 THEN "empty" ELSE err]

\* A round of tool calls is not rendered, and which text came before them does
\* not matter any more.
EndToolRound ==
    /\ pc = "ended" /\ out.err = "none" /\ pc' = "judge"
    /\ \E fin \in {"", "stop"} :
         out' = [NoOut EXCEPT !.n = out.n, !.fin = fin, !.tool = TRUE]
    /\ UNCHANGED <<loopVars, showVars, replyVars, outcome>>

\* renderFinalResponse renders the table images again only when the number of
\* segments changed ...
Tables == IF Len(images) # out.n \/ Len(imagesSent) # out.n
          THEN [i \in 1..out.n |-> [text |-> IF out.c \in Tabled THEN out.c ELSE "plain",
                                   sent |-> FALSE]]
          ELSE [i \in 1..out.n |-> [text |-> images[i], sent |-> imagesSent[i]]]

\* ... and after a render that succeeded it posts them, if the finish reason is
\* good, and the urls, which are claimed before they are posted.
SendTables ==
    LET due == {i \in DOMAIN Tables : out'.fin = "stop" /\ ~Tables[i].sent}
        bare == {i \in due : Tables[i].text = "plain"} IN
    \E ok \in SUBSET (due \ bare) :
       /\ stale' = (stale \/ \E i \in ok : Tables[i].text # out.c)
       /\ imagesSent' = [i \in DOMAIN Tables |-> Tables[i].sent \/ i \in ok \cup bare]
SendLinks_Unclaimed ==
    /\ claimed' = (claimed \/ out.c = Linked)
    /\ links' \in IF out.c = Linked THEN {links, links + 1} ELSE {links}

SendLinks ==
    /\ claimed' = (claimed \/ out.c = Linked)
    /\ links' \in IF out.c = Linked /\ ~claimed THEN {links, links + 1} ELSE {links}

\* finalizeGenerationRound for any other round; a failed render is its error.
\* After a panic nobody releases the reply (recoverHandler only logs it).
FinalSpecs(fin) == RenderSpecs(out.c, out.n, fin, TRUE)

FinalizeRound ==
    /\ pc = "ended"
    /\ images' = [i \in DOMAIN Tables |-> Tables[i].text]
    /\ \/ /\ out.n = 0 /\ StreamEnds /\ pc' = "judge"
          /\ imagesSent' = <<>>
          /\ UNCHANGED <<showVars, stale, claimed, links>>
       \/ /\ out.n > 0 /\ StreamEnds /\ pc' = "judge"
          /\ \E specs \in {FinalSpecs(out'.fin)} : Render(specs, TRUE)
          /\ SendTables /\ SendLinks
       \/ /\ out.n > 0
          /\ \E fin \in {"", "stop", "length", "error"} :
               \/ /\ RenderFails(FinalSpecs(fin), TRUE) /\ pc' = "judge"
                  /\ \E err \in RenderErrors : out' = [out EXCEPT !.fin = fin, !.err = err]
               \/ RenderPanics(FinalSpecs(fin)) /\ pc' = "panicked" /\ UNCHANGED out
          /\ imagesSent' = [i \in DOMAIN Tables |-> Tables[i].sent]
          /\ UNCHANGED <<stale, claimed, links>>
    /\ UNCHANGED <<loopVars, outcome>>

-----------------------------------------------------------------------------
(* The retry loops.                                                        *)

KeepMessages == UNCHANGED <<showVars, replyVars, outcome>>
KeepAttempt == UNCHANGED <<stage, phase, hasTools, ignores, prefill>>

Offered == hasTools /\ phase # "toolFree"

\* shouldRetryGenerationRound; calledUnofferedTools.
Premature ==
    \/ out.err = "transient"
    \/ out.err = "none" /\ out.fin = ""
RetryStream == Premature /\ streams < MaxStreams
CalledUnoffered == out.err = "none" /\ out.tool /\ ~Offered

\* What is left of a round that fails, besides what it rendered: its error, and
\* of that no more than what is still told apart.
Failed(err) == [NoOut EXCEPT !.err = IF err = "transient" THEN "other" ELSE err]

\* Both loops wait before they try again; a cancelled wait ends the round.
WaitAndRetry(more) ==
    \/ pc' = "round" /\ more /\ out' = NoOut
    \/ pc' = "phase" /\ out' = Failed("other") /\ streams' = 1 /\ unoffered' = 1

\* runGenerationRoundWithStreamRetry.
Retry ==
    /\ pc = "judge" /\ RetryStream
    /\ WaitAndRetry(streams' = streams + 1 /\ UNCHANGED unoffered)
    /\ KeepAttempt /\ KeepMessages

\* runGenerationRoundWithRetry.
RetryUnoffered_Uncounted ==
    /\ pc = "judge" /\ ~RetryStream /\ CalledUnoffered /\ unoffered < MaxUnoffered
    /\ WaitAndRetry(streams' = 1 /\ UNCHANGED unoffered)
    /\ KeepAttempt /\ KeepMessages

RetryUnoffered ==
    /\ pc = "judge" /\ ~RetryStream /\ CalledUnoffered /\ unoffered < MaxUnoffered
    /\ WaitAndRetry(unoffered' = unoffered + 1 /\ streams' = 1)
    /\ KeepAttempt /\ KeepMessages

EndRound ==
    /\ pc = "judge" /\ ~RetryStream
    /\ CalledUnoffered => unoffered = MaxUnoffered
    /\ out' = IF CalledUnoffered THEN Failed("empty")
              ELSE IF out.err # "none" THEN Failed(out.err) ELSE out
    /\ pc' = "phase" /\ streams' = 1 /\ unoffered' = 1
    /\ KeepAttempt /\ KeepMessages

-----------------------------------------------------------------------------
(* An attempt: a first round, and after a search the forced final answer,  *)
(* without tools where the forced one gives none.                          *)

BeginPhase(p) ==
    /\ phase' = p /\ pc' = "round" /\ out' = NoOut
    /\ UNCHANGED <<stage, hasTools, streams, unoffered>>

\* runWebSearchToolPhase, then runForcedFinalAnswerRound.
Search ==
    /\ pc = "phase" /\ phase = "first" /\ out.err = "none" /\ out.tool
    /\ BeginPhase(IF ignores THEN "toolFree" ELSE "forced")
    /\ prefill' = IF out.n > 0 THEN 1 ELSE 0
    /\ UNCHANGED ignores /\ KeepMessages

\* runToolFreeFinalAnswerRound, after tool calls or an empty answer.
AnswerWithoutTools ==
    /\ pc = "phase" /\ phase = "forced"
    /\ \/ out.err = "empty"
       \/ out.err = "none" /\ out.tool
    /\ ignores' = (ignores \/ out.err = "none")
    /\ BeginPhase("toolFree")
    /\ UNCHANGED prefill /\ KeepMessages

Answered == phase = "toolFree" \/ ~out.tool
EndAttempt ==
    /\ pc = "phase" /\ pc' = "attempt"
    /\ \/ out.err = "none" /\ Answered
       \/ out.err # "none" /\ ~(phase = "forced" /\ out.err = "empty")
    /\ phase' = "first" /\ prefill' = 0
    /\ UNCHANGED <<stage, hasTools, ignores, streams, unoffered, out>> /\ KeepMessages

-----------------------------------------------------------------------------
(* generateAndSendResponse.                                                *)

Stateless == stage = "chained" /\ out.err = "previous"
BeginAttempt(s) ==
    /\ stage' = s /\ pc' = "round" /\ out' = NoOut
    /\ UNCHANGED <<phase, prefill, streams, unoffered>>

RetryStateless ==
    /\ pc = "attempt" /\ Stateless
    /\ BeginAttempt("plain")
    /\ UNCHANGED <<hasTools, ignores>> /\ KeepMessages

AttemptFallback_KeepsSpecs ==
    /\ pc = "attempt" /\ out.err # "none" /\ ~Stateless
    /\ Fallback /\ stage # "fallback"
    /\ BeginAttempt("fallback")
    /\ hasTools' \in BOOLEAN /\ ignores' \in {FALSE, hasTools'}
    /\ UNCHANGED rendered /\ images' = <<>> /\ imagesSent' = <<>>
    /\ UNCHANGED <<messages, locked, card, progressActive, failures, doubted, stale,
                   claimed, links, outcome>>

AttemptFallback_KeepsSent ==
    /\ pc = "attempt" /\ out.err # "none" /\ ~Stateless
    /\ Fallback /\ stage # "fallback"
    /\ BeginAttempt("fallback")
    /\ hasTools' \in BOOLEAN /\ ignores' \in {FALSE, hasTools'}
    /\ rendered' = <<>> /\ images' = <<>> /\ UNCHANGED imagesSent
    /\ UNCHANGED <<messages, locked, card, progressActive, failures, doubted, stale,
                   claimed, links, outcome>>

\* attemptFallbackResponse forgets what the messages show: the model's name is
\* part of every embed but not of a renderSpec.
AttemptFallback ==
    /\ pc = "attempt" /\ out.err # "none" /\ ~Stateless
    /\ Fallback /\ stage # "fallback"
    /\ BeginAttempt("fallback")
    /\ hasTools' \in BOOLEAN /\ ignores' \in {FALSE, hasTools'}
    /\ rendered' = <<>> /\ images' = <<>> /\ imagesSent' = <<>>
    /\ UNCHANGED <<messages, locked, card, progressActive, failures, doubted, stale,
                   claimed, links, outcome>>

Succeed ==
    /\ pc = "attempt" /\ out.err = "none"
    /\ outcome' = "answered" /\ pc' = "release"
    /\ UNCHANGED <<loopVars, out, showVars, replyVars>>

\* Without a fallback, or when its request cannot be built: renderFailureResponse
\* settles the card and edits it if it still is one ...
Fail ==
    /\ pc = "attempt" /\ out.err # "none" /\ ~Stateless
    /\ card' = "settled" /\ progressActive' = FALSE
    /\ \/ /\ SettledActive
          /\ messages' = [Settled EXCEPT ![1] = [spec |-> Failure, model |-> Model]]
          /\ \/ pc' = "release" /\ outcome' = "failed"
             \/ pc' = "failSend" /\ UNCHANGED outcome
       \/ /\ pc' = "failSend" /\ messages' = Settled /\ UNCHANGED outcome
    /\ UNCHANGED <<loopVars, out, locked, failures, doubted, rendered, replyVars>>

\* ... or else sends another message, by sendFailureResponse.
SendFailure ==
    /\ pc = "failSend" /\ pc' = "release"
    /\ \/ /\ messages' = Append(messages, [spec |-> Failure, model |-> Model])
          /\ locked' = locked \cup {Len(messages) + 1}
          /\ outcome' = "failed"
       \/ outcome' = "unseen" /\ UNCHANGED <<messages, locked>>
    /\ UNCHANGED <<loopVars, out, card, progressActive, failures, doubted, rendered,
                   replyVars>>

\* release() settles the card, then fills, caches and unlocks every node.
Release ==
    /\ pc = "release" /\ pc' = "done"
    /\ messages' = Settled /\ card' = "settled" /\ progressActive' = SettledActive
    /\ locked' = locked \ DOMAIN Settled
    /\ UNCHANGED <<loopVars, out, failures, doubted, rendered, replyVars, outcome>>

-----------------------------------------------------------------------------
Reply ==
    \/ Stream \/ EndToolRound \/ FinalizeRound
    \/ Retry \/ RetryUnoffered \/ EndRound \/ Search \/ AnswerWithoutTools \/ EndAttempt
    \/ RetryStateless \/ AttemptFallback \/ Succeed \/ Fail \/ SendFailure \/ Release

Next == PostCard \/ Reply

Spec == Init /\ [][Next]_vars

\* Streams, Discord calls and waits return: every one has a timeout.
FairSpec == Spec /\ WF_vars(Reply)

-----------------------------------------------------------------------------
Specs == [c : Contents, as : {"open", "done", "good", "bad"}] \cup {Card, Failure}
Messages == [spec : Specs, model : {"primary", "fallback"}]
Outs == [c : Contents \cup {"card"}, n : 0..MaxSegments, fin : {"", "stop", "length", "error"},
         tool : BOOLEAN, err : {"none", "transient", "other", "previous", "empty"}]

TypeOK ==
    /\ pc \in {"round", "ended", "judge", "phase", "attempt", "failSend", "release", "done",
               "panicked"}
    /\ stage \in {"chained", "plain", "fallback"}
    /\ phase \in {"first", "forced", "toolFree"} /\ prefill \in {0, 1}
    /\ hasTools \in BOOLEAN /\ ignores \in BOOLEAN
    /\ streams \in 1..MaxStreams /\ unoffered \in 1..MaxUnoffered
    /\ out \in Outs /\ messages \in Seq(Messages) /\ rendered \in Seq(Specs)
    /\ Len(messages) <= MaxSegments + 1 /\ Len(rendered) <= MaxSegments
    /\ locked \subseteq 1..(MaxSegments + 1) /\ doubted \subseteq DOMAIN messages
    /\ card \in {"none", "posted", "settled"} /\ progressActive \in BOOLEAN
    /\ failures \in 0..MaxFailures
    /\ images \in Seq(Contents \cup {"plain"}) /\ imagesSent \in Seq(BOOLEAN)
    /\ Len(images) <= MaxSegments /\ Len(imagesSent) = Len(images)
    /\ stale \in BOOLEAN /\ claimed \in BOOLEAN /\ links \in Nat
    /\ outcome \in {"none", "answered", "failed", "unseen"}

\* While a reply runs, the locked nodes are those of its messages and of its
\* card: a message that is trimmed gives its node up (else whoever evicts it or
\* reads a reply to it waits for ever), and no other node is unlocked early.
\* Whatever path it took to its end it leaves none: release() takes over a card
\* whose loop posted it and unlocks all (after a panic release() never runs, and
\* they stay locked).
LockedArePending ==
    locked = IF pc = "done" THEN {}
             ELSE DOMAIN messages \cup (IF card = "posted" THEN {1} ELSE {})

\* An answered reply shows the text of its last stream, all of it and nothing
\* else, under the name of the model that wrote it, whatever earlier rounds,
\* attempts and models rendered; only a message in doubt may differ, one whose
\* last edit failed or that was sent too early after a trim failed midway.
SuccessShowsAnswer ==
    outcome = "answered" =>
        LET specs == RenderSpecs(out.c, out.n, out.fin, TRUE) IN
        /\ Len(messages) = Len(specs)
        /\ \A i \in DOMAIN messages :
             \/ i \in doubted
             \/ messages[i].spec = specs[i] /\ messages[i].model = Model

\* A failure is the last thing the user sees of a failed reply: it replaces the
\* card only while nothing of an answer was rendered, and follows the partial
\* answer otherwise.
FailureComesLast ==
    outcome = "failed" => messages[Len(messages)].spec = Failure

\* However often the text with a url is finalized, its url is posted once.
LinkOnce == links <= 1

\* runGenerationRoundWithStreamRetry's comment: a retry replaces the truncated
\* reply.  So a table that is posted belongs to the text that is shown.
TablesMatch == ~stale
=============================================================================
