-------------------------------- MODULE MC_Waits --------------------------------
(***************************************************************************)
(* Whatever waits for a call that returns, comes to an end: the card of a  *)
(* reply and its edits, the retries of a reply, and a round of web         *)
(* searches with its worker.  They are checked as one specification whose  *)
(* initial states choose the part that runs.  The card and the search stay *)
(* in their initial states while another part runs, the reply at <<>>.     *)
(***************************************************************************)
EXTENDS ProgressCard, WebSearch

VARIABLES
    part,
    at, stage, phase, hasTools, ignores, prefill, streams, unoffered, out, messages, locked,
    card, progressActive, losses, doubted, rendered, images, imagesSent, stale, claimed,
    links, outcome  \* reply

replyVars == <<at, stage, phase, hasTools, ignores, prefill, streams, unoffered, out, messages,
    locked, card, progressActive, losses, doubted, rendered, images, imagesSent, stale, claimed,
    links, outcome>>

\* One answer, with a link and no table, both retry loops.
Answer == INSTANCE Reply WITH
    pc <- at, failures <- losses,
    Contents <- {"a"}, Linked <- "a", Tabled <- {}, MaxSegments <- 1, MaxFailures <- 1,
    MaxStreams <- 2, MaxUnoffered <- 2, Fallback <- TRUE

Asks(queries) == [tool |-> "web_search", malformed |-> FALSE, queries |-> queries]
SomeRounds == {
    <<Asks(<<"go", "tla">>), Asks(<<"Go", "">>), [Asks(<<"go">>) EXCEPT !.malformed = TRUE]>>,
    <<[Asks(<<"go">>) EXCEPT !.tool = "other"], Asks(<<"">>)>>}
SomeFound == [x \in {"tinyfish", "exa"} |-> [q \in {"go", "Go", "tla"} |->
    CASE q = "go" -> <<"yt", "pg">> [] q = "Go" -> <<"yt">>
      [] q = "tla" -> IF x = "exa" THEN <<"pg">> ELSE <<"rd", "yt", "pg">>]]
Lower == [q \in {"go", "Go", "tla"} |-> IF q = "Go" THEN "go" ELSE q]
SomeKinds == [u \in {"yt", "rd", "pg"} |->
    CASE u = "yt" -> "youtube" [] u = "rd" -> "reddit" [] u = "pg" -> "page"]
SomeOrder == <<"tinyfish", "tavily", "exa">>

-----------------------------------------------------------------------------
NoReply == at = <<>> /\ stage = <<>> /\ phase = <<>> /\ hasTools = <<>> /\ ignores = <<>>
    /\ prefill = <<>> /\ streams = <<>> /\ unoffered = <<>> /\ out = <<>> /\ messages = <<>>
    /\ locked = <<>> /\ card = <<>> /\ progressActive = <<>> /\ losses = <<>>
    /\ doubted = <<>> /\ rendered = <<>> /\ images = <<>> /\ imagesSent = <<>>
    /\ stale = <<>> /\ claimed = <<>> /\ links = <<>> /\ outcome = <<>>

WaitsInit ==
    /\ Init /\ SearchInit
    /\ \/ part \in {"card", "search"} /\ NoReply
       \/ part = "reply" /\ Answer!Init

CardStep(A) == part = "card" /\ A /\ UNCHANGED <<part, searchVars, replyVars>>
ReplyStep(A) == part = "reply" /\ A /\ UNCHANGED <<part, vars, searchVars>>
SearchStep(A) == part = "search" /\ A /\ UNCHANGED <<part, vars, replyVars>>

CardNext == CardStep(Next)
ReplyNext == ReplyStep(Answer!Next)
RoundNext == SearchStep(SearchNext)
WaitsNext == CardNext \/ ReplyNext \/ RoundNext

waitsVars == <<part, vars, searchVars, replyVars>>

\* The fairness of FairSpec of ProgressCard, Reply and WebSearch: goroutines
\* run, calls return and time passes.  Only one part runs, and the goroutine of
\* the reply is at one place, so that one formula serves for several of theirs.
WaitsSpec ==
    /\ WaitsInit /\ [][WaitsNext]_waitsVars
    /\ WF_waitsVars(CardStep(Loop) \/ ReplyStep(Answer!Reply) \/ SearchStep(Progress))
    /\ WF_waitsVars(CardStep(Settled \/ EditReply \/ Restore)) /\ WF_waitsVars(CardStep(Tick))
    /\ SF_waitsVars(CardStep(TakeStage)) /\ SF_waitsVars(CardStep(TakeSearch))

-----------------------------------------------------------------------------
(* Properties.  TypeOK, EditsPaced, FinalRestored and CardKeepsOff are     *)
(* checked as ProgressCard states them, SearchAnswers as WebSearch does.   *)

\* A reply that has not ended, a search of which a call or the worker has not,
\* a wait for the card to let go of the message, and a stage or a search that
\* the card does not show yet.
Waiting ==
    \/ part = "reply" /\ at # "done"
    \/ part = "search" /\ ~(pc \in {"idle", "done", "failed"} /\ worker \in {"none", "stopped"})
    \/ request = "settling"
    \/ asked # sentView /\ ~stop /\ ~cancelled /\ loop # "done"

\* All of that comes to an end: a reply after whatever retries (response.go:543,
\* 384, 1035), a search with its worker (search_fetchers.go:403), settle()
\* within one edit, and the latest update is shown, unless the card is settled,
\* cancelled or not posted (progress.go:333, 280).
WaitsEnd == Waiting ~> ~Waiting
=============================================================================
