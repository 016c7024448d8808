--------------------------- MODULE ResponsesStream ---------------------------
(***************************************************************************)
(* One stream of the Responses API as providers/responses.go reads it.     *)
(* The server works on several output items at a time and may tell of one  *)
(* in up to four ways: it is added, its text or arguments are streamed,    *)
(* it is done, and the completed response lists it again.  Each of them    *)
(* but the last may be missing.                                            *)
(*                                                                         *)
(* An item's text, summary or arguments are the numbers 1 .. Chunks; what  *)
(* the reader delivers is a sequence of <<item, chunk>>.                   *)
(***************************************************************************)
EXTENDS Integers, Sequences, FiniteSets, SequencesExt

CONSTANTS
    Output,   \* the items of the response, in output order
    TypeOf,   \* item -> "summary", "reasoning", "message", "image" or "call"
    Chunks    \* bound: deltas of an item

OutputAssumption ==
    /\ Output \in Seq(DOMAIN TypeOf) /\ IsInjective(Output)
    /\ Chunks \in Nat \ {0}

VARIABLES
    added, streamed, settled, done, \* the server: what it told of each item
    ended,        \* how the stream ended, or "no"
    summaries,    \* streamedReasoningSummaries: chunks recorded, per item
    seen,         \* seenReasoningItemIDs, seenOutputItemIDs, seenToolCallIDs
    inProgress,   \* inProgressToolCalls: [named, arguments, completed] of some items
    toolCalls,    \* calls collected: <<item, arguments>>
    items,        \* streamedItems
    shown,        \* the thinking and content deltas handed over
    reported      \* the ToolCallResponse: [calls, replay], or NoReport

server == <<added, streamed, settled, done>>
reader == <<summaries, seen, inProgress, toolCalls, items>>
vars == <<server, ended, reader, shown, reported>>

All == ToSet(Output)
Calls == {i \in All : TypeOf[i] = "call"}
Numbers(n) == [k \in 1 .. n |-> k]
Whole(i) == [k \in 1 .. Chunks |-> <<i, k>>]
Position(i) == CHOOSE k \in DOMAIN Output : Output[k] = i
NoReport == [calls |-> <<>>, replay |-> <<>>]
NewCall == [named |-> FALSE, arguments |-> <<>>, completed |-> FALSE]

Init ==
    /\ added = {} /\ settled = {} /\ done = {}
    /\ streamed = [i \in All |-> 0]
    /\ ended = "no"
    /\ summaries = [i \in All |-> 0] /\ seen = {}
    /\ inProgress = [i \in {} |-> NewCall]
    /\ toolCalls = <<>> /\ items = <<>>
    /\ shown = <<>> /\ reported = NoReport

-----------------------------------------------------------------------------
(* Function calls.                                                         *)

\* inProgressToolCall: the accumulator of an item, made when first heard of.
Accumulated(i) == IF i \in DOMAIN inProgress THEN inProgress[i] ELSE NewCall

\* Mutant: a call is collected whenever an event completes it.
Collect_Again(calls, s, i, args) ==
    [calls |-> Append(calls, <<i, args>>), seen |-> s \cup {i}]

\* collectResponsesFunctionCall, of an item whose arguments are args.
Collect(calls, s, i, args) ==
    IF i \in s THEN [calls |-> calls, seen |-> s]
    ELSE [calls |-> Append(calls, <<i, args>>), seen |-> s \cup {i}]

\* response.output_item.added: the identity of a call, before its arguments.
ItemAdded(i) ==
    /\ ended = "no" /\ i \notin added \cup done
    /\ added' = added \cup {i}
    /\ inProgress' = IF i \in Calls
         THEN (i :> [Accumulated(i) EXCEPT !.named = TRUE]) @@ inProgress
         ELSE inProgress
    /\ UNCHANGED <<streamed, settled, done, ended, summaries, seen, toolCalls, items, shown, reported>>

\* response.function_call_arguments.delta.
ArgumentsDelta(i) ==
    /\ ended = "no" /\ i \in Calls \ (settled \cup done) /\ streamed[i] < Chunks
    /\ streamed' = [streamed EXCEPT ![i] = @ + 1]
    /\ inProgress' = (i :> [Accumulated(i) EXCEPT !.arguments = Append(@, streamed'[i])])
                       @@ inProgress
    /\ UNCHANGED <<added, settled, done, ended, summaries, seen, toolCalls, items, shown, reported>>

\* response.function_call_arguments.done: the final arguments replace the
\* streamed ones, and the call is collected if its name is known.
ArgumentsDone(i) ==
    /\ ended = "no" /\ i \in Calls \ (settled \cup done)
    /\ settled' = settled \cup {i}
    /\ inProgress' = (i :> [Accumulated(i) EXCEPT !.arguments = Numbers(Chunks), !.completed = TRUE])
                       @@ inProgress
    /\ LET c == Collect(toolCalls, seen, i, Numbers(Chunks))
       IN IF Accumulated(i).named /\ ~Accumulated(i).completed
            THEN toolCalls' = c.calls /\ seen' = c.seen
            ELSE UNCHANGED <<toolCalls, seen>>
    /\ UNCHANGED <<added, streamed, done, ended, summaries, items, shown, reported>>

\* The arguments that an item done or listed has: its own, or, when those
\* are blank, the streamed ones.
Arguments(i, blank) == IF blank THEN Accumulated(i).arguments ELSE Numbers(Chunks)

-----------------------------------------------------------------------------
(* Reasoning, text and images.                                             *)

\* A delta of a summary, of reasoning or of the answer is shown at once.
\* responsesRecordStreamedReasoningSummary records those of a summary.
TextDelta(i) ==
    /\ ended = "no" /\ TypeOf[i] \in {"summary", "reasoning", "message"}
    /\ i \notin done /\ streamed[i] < Chunks
    /\ streamed' = [streamed EXCEPT ![i] = @ + 1]
    /\ shown' = Append(shown, <<i, streamed'[i]>>)
    /\ summaries' = IF TypeOf[i] = "summary" THEN [summaries EXCEPT ![i] = @ + 1] ELSE summaries
    /\ UNCHANGED <<added, settled, done, ended, seen, inProgress, toolCalls, items, reported>>

\* responsesUnstreamedReasoningSummary.
Unstreamed(i) == SubSeq(Whole(i), summaries[i] + 1, Chunks)

\* responsesOutputItemThinking and responsesOutputItemText, of an item not
\* seen yet: the rest of its reasoning, or an image's url.
Restated(i) == CASE TypeOf[i] \in {"summary", "reasoning"} -> Unstreamed(i)
                 [] TypeOf[i] = "image" -> <<<<i, 1>>>>
                 [] OTHER -> <<>>

\* response.output_item.done.
ItemDone(i) == \E blank \in BOOLEAN :
    /\ ended = "no" /\ i \notin done
    /\ blank => i \in Calls /\ (i \in settled \/ streamed[i] = Chunks)
    /\ done' = done \cup {i}
    /\ items' = Append(items, i)
    /\ IF i \in Calls
         THEN LET c == Collect(toolCalls, seen, i, Arguments(i, blank))
              IN toolCalls' = c.calls /\ seen' = c.seen /\ UNCHANGED shown
         ELSE /\ shown' = shown \o (IF i \in seen THEN <<>> ELSE Restated(i))
              /\ seen' = IF TypeOf[i] = "message" THEN seen ELSE seen \cup {i}
              /\ UNCHANGED toolCalls
    /\ UNCHANGED <<added, streamed, settled, ended, summaries, inProgress, reported>>

-----------------------------------------------------------------------------
(* The end of the stream.                                                  *)

\* responsesToolCallResponse: the completed response's items, or the streamed
\* ones in the order of their output_index.
Replay(listed) ==
    IF listed THEN Output ELSE SortSeq(items, LAMBDA i, j : Position(i) < Position(j))

\* responsesCompletedDelta: what was not delivered yet of each listed item,
\* reasoning first, the calls not collected yet, and the calls as a whole.
\* A response that lists nothing comes after every item was done.
Completed(listed) ==
    /\ ended = "no"
    /\ \A i \in All : TypeOf[i] = "message" => streamed[i] = Chunks
    /\ ~listed => done = All
    /\ ended' = "completed"
    /\ LET new == SelectSeq(Output, LAMBDA i : listed /\ i \notin seen)
           Is(T) == SelectSeq(new, LAMBDA i : TypeOf[i] \in T)
           c == FoldLeft(LAMBDA acc, i : Collect(acc.calls, acc.seen, i, Numbers(Chunks)),
                         [calls |-> toolCalls, seen |-> seen],
                         IF listed THEN SelectSeq(Output, LAMBDA i : i \in Calls) ELSE <<>>)
       IN /\ shown' = FoldLeft(LAMBDA acc, i : acc \o Restated(i), shown,
                               Is({"summary", "reasoning"}) \o Is({"image"}))
          /\ toolCalls' = c.calls
          /\ seen' = c.seen \cup ToSet(Is({"summary", "reasoning", "image"}))
          /\ reported' = IF c.calls = <<>> THEN NoReport
                         ELSE [calls |-> c.calls, replay |-> Replay(listed)]
    /\ UNCHANGED <<server, summaries, inProgress, items>>

\* response.failed, response.incomplete, error, a completed response with
\* another status: an error.  The connection closing without a terminal
\* event: an unexpected end.
Fail ==
    /\ ended = "no"
    /\ ended' \in {"failed", "closed"}
    /\ UNCHANGED <<server, reader, shown, reported>>

Next ==
    \/ \E i \in All : \/ ItemAdded(i) \/ ArgumentsDelta(i) \/ ArgumentsDone(i)
                      \/ TextDelta(i) \/ ItemDone(i)
    \/ \E listed \in BOOLEAN : Completed(listed)
    \/ Fail

Spec == Init /\ [][Next]_vars

-----------------------------------------------------------------------------
(* Properties.                                                             *)

TypeOK ==
    /\ added \subseteq All /\ settled \subseteq Calls /\ done \subseteq All
    /\ streamed \in [All -> 0 .. Chunks] /\ summaries \in [All -> 0 .. Chunks]
    /\ ended \in {"no", "completed", "failed", "closed"}
    /\ seen \subseteq All /\ DOMAIN inProgress \subseteq Calls
    /\ ToSet(items) = done
    /\ ToSet(shown) \subseteq All \X (1 .. Chunks)

\* A completed response has delivered each summary, image and call exactly
\* once and in full, whichever of the four tellings came and however the
\* items interleaved (responses.go:965, 1372, 1518).
EachItemOnce == ended = "completed" =>
    /\ \A i \in All : TypeOf[i] \in {"summary", "message"} =>
        SelectSeq(shown, LAMBDA x : x[1] = i) = Whole(i)
    /\ \A i \in All : TypeOf[i] = "image" =>
        SelectSeq(shown, LAMBDA x : x[1] = i) = <<<<i, 1>>>>
    /\ \A i \in Calls : SelectSeq(reported.calls, LAMBDA x : x[1] = i) = <<<<i, Numbers(Chunks)>>>>

\* The follow-up to a round of tool calls replays every item of the response
\* in output order, whatever order the items were done in (responses.go:1009).
ReplayedInOrder == ended = "completed" /\ Calls # {} => reported.replay = Output

\* "reasoning ... not already streamed is emitted" when an item is done
\* (responses.go:1320): no reasoning is shown twice.
ReasoningShownOnce == IsInjective(shown)
=============================================================================
