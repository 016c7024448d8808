------------------------------ MODULE ChatStream ------------------------------
(***************************************************************************)
(* One stream of the Chat Completions API (providers/openai.go, tools.go): *)
(* text and reasoning pass through, the fragments of parallel tool calls   *)
(* interleave and are merged, and the chunk with the finish reason reports *)
(* the calls.                                                              *)
(***************************************************************************)
EXTENDS Integers, Sequences, FiniteSets, SequencesExt

CONSTANTS
    Indexes,    \* the calls of the model, by their index in the stream
    Fragments,  \* bound: fragments of a call's arguments
    MaxText     \* bound: chunks of text

BoundsAssumption == Fragments \in Nat \ {0} /\ MaxText \in Nat

VARIABLES
    omitsDone,  \* the provider may close without [DONE]: openAIProviderOmitDoneMarker
    written,    \* the server: fragments of each call it sent
    opened,     \* the server: its calls, as they first appeared
    calls,      \* callsByIndex: the arguments merged so far
    order,      \* the accumulator's order
    text,       \* its text; and thinking and content handed over
    handed,
    finish,     \* finish reason handed over, or ""
    reported,   \* the ToolCallResponse handed over with it: [calls, text]
    ended       \* "no", "complete", "error" or "unexpected EOF"

vars == <<omitsDone, written, opened, calls, order, text, handed, finish, reported, ended>>

NoReport == [calls |-> <<>>, text |-> <<>>]

Init ==
    /\ omitsDone \in BOOLEAN
    /\ written = [i \in Indexes |-> 0] /\ opened = <<>>
    /\ calls = [i \in {} |-> <<>>] /\ order = <<>>
    /\ text = <<>> /\ handed = <<>>
    /\ finish = "" /\ reported = NoReport
    /\ ended = "no"

\* A chunk of text or reasoning: kept for the follow-up and handed over.
Text(channel) ==
    /\ ended = "no" /\ finish = "" /\ Len(text) < MaxText
    /\ text' = Append(text, channel)
    /\ handed' = Append(handed, channel)
    /\ UNCHANGED <<omitsDone, written, opened, calls, order, finish, reported, ended>>

\* observe: a fragment is merged by its index.
Merge(i, f) ==
    IF i \in DOMAIN calls THEN [calls EXCEPT ![i] = Append(@, f)] ELSE (i :> <<f>>) @@ calls

\* The next fragment of a call; the first one names it.
ToolFragment(i) ==
    /\ ended = "no" /\ finish = "" /\ written[i] < Fragments
    /\ written' = [written EXCEPT ![i] = @ + 1]
    /\ opened' = IF written[i] = 0 THEN Append(opened, i) ELSE opened
    /\ calls' = Merge(i, <<i, written'[i]>>)
    /\ order' = IF i \in DOMAIN calls THEN order ELSE Append(order, i)
    /\ UNCHANGED <<omitsDone, text, handed, finish, reported, ended>>

\* openAIStreamFinishReasonError: a blocked or failed choice is an error
\* before anything is handed over.  A server finishes whole calls.
Finish(reason) ==
    /\ ended = "no" /\ finish = ""
    /\ \A i \in ToSet(opened) : written[i] = Fragments
    /\ IF reason \in {"content_filter", "error"}
         THEN ended' = "error" /\ UNCHANGED <<finish, reported>>
         ELSE /\ finish' = reason
              /\ reported' = IF order = <<>> THEN NoReport
                   ELSE [calls |-> [k \in DOMAIN order |-> calls[order[k]]], text |-> text]
              /\ UNCHANGED ended
    /\ UNCHANGED <<omitsDone, written, opened, calls, order, text, handed>>

\* [DONE], an error event, or the connection closing without either.
Close(by) ==
    /\ ended = "no"
    /\ ended' = CASE by = "[DONE]" -> "complete"
                  [] by = "error" -> "error"
                  [] OTHER -> IF omitsDone /\ (handed # <<>> \/ finish # "")
                                THEN "complete" ELSE "unexpected EOF"
    /\ UNCHANGED <<omitsDone, written, opened, calls, order, text, handed, finish, reported>>

Next ==
    \/ \E c \in {"thinking", "content"} : Text(c)
    \/ \E i \in Indexes : ToolFragment(i)
    \/ \E r \in {"stop", "tool_calls", "content_filter", "error"} : Finish(r)
    \/ \E by \in {"[DONE]", "error", "closed"} : Close(by)

Spec == Init /\ [][Next]_vars

-----------------------------------------------------------------------------
(* Properties.                                                             *)

TypeOK ==
    /\ omitsDone \in BOOLEAN
    /\ written \in [Indexes -> 0 .. Fragments]
    /\ ToSet(opened) \subseteq Indexes /\ order \in Seq(Indexes)
    /\ DOMAIN calls = ToSet(order)
    /\ Len(text) <= MaxText
    /\ finish \in {"", "stop", "tool_calls"}
    /\ ended \in {"no", "complete", "error", "unexpected EOF"}

\* The calls reported are those the model made, in the order they first
\* appeared, each with its own fragments in order, however those of parallel
\* calls interleaved; the text replayed with them is the text that was shown
\* (tools.go:297).
CallsMerged == reported # NoReport =>
    /\ Len(reported.calls) = Len(opened)
    /\ \A k \in DOMAIN opened :
        reported.calls[k] = [f \in 1 .. Fragments |-> <<opened[k], f>>]
    /\ reported.text = handed
=============================================================================
