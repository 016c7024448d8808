---------------------------- MODULE SourceAppendix ----------------------------
(***************************************************************************)
(* The list of sources that some providers append to an answer             *)
(* (providers/source_appendix.go): it is hidden while the answer streams   *)
(* (response.go, appendAnswerText) and taken off the final one.            *)
(*                                                                         *)
(* A text is a sequence of tokens.  "Sour" and "ces" on a line of their    *)
(* own are a header, the first of them alone may become one.               *)
(***************************************************************************)
EXTENDS Integers, Sequences, FiniteSets, SequencesExt, FiniteSetsExt

CONSTANT MaxText   \* bound: tokens of the answer

MaxTextAssumption == MaxText \in Nat

VARIABLES
    text,      \* rawAnswerText
    rendered,  \* renderedAnswerText
    outcome,   \* "streaming", "finished" or "regressed"
    final      \* the answer of a finished stream

vars == <<text, rendered, outcome, final>>

Tokens == {"Sour", "ces", "word", "link", "nl"}
IsHeader(line) == line = <<"Sour", "ces">>
IsPartial(line) == IsPrefix(line, <<"Sour", "ces">>)

From(t, k) == SubSeq(t, k, Len(t))
Breaks(t) == {k \in DOMAIN t : t[k] = "nl"}
LineFrom(t, k) ==
    LET ends == {b \in Breaks(t) : b >= k}
    IN IF ends = {} THEN From(t, k) ELSE SubSeq(t, k, Min(ends) - 1)

\* The positions where a blank line begins.
Separators(t) == {k \in Breaks(t) : k + 1 \in Breaks(t)}

\* bridgeSourceAppendixStart: how much of a text precedes its appendix, or
\* what may still become one; all of it when there is none.
Start(t) ==
    LET seps == Separators(t)
        headers == {k \in seps : IsHeader(LineFrom(t, k + 2))}
        tail == IF seps = {} THEN t ELSE From(t, Max(seps) + 2)
    IN IF headers # {} THEN Max(headers) - 1
       ELSE IF IsHeader(LineFrom(t, 1)) THEN 0
       ELSE IF Breaks(tail) = {} /\ IsPartial(tail)
         THEN IF seps = {} THEN 0 ELSE Max(seps) - 1
       ELSE IF Last(t) = "nl" THEN Len(t) - 1
       ELSE Len(t)

TrimRight(t) ==
    LET kept == {k \in DOMAIN t : t[k] # "nl"}
    IN IF kept = {} THEN <<>> ELSE SubSeq(t, 1, Max(kept))
TrimLeft(t) ==
    LET kept == {k \in DOMAIN t : t[k] # "nl"}
    IN IF kept = {} THEN <<>> ELSE From(t, Min(kept))

\* StreamingBridgeSourceAppendixVisibleText.
Visible(t) ==
    IF t = <<>> \/ Start(t) = Len(t) THEN t ELSE TrimRight(SubSeq(t, 1, Start(t)))

\* FinalizeBridgeSourceAppendixAnswer: an appendix begins with a header and
\* lists sources; otherwise the answer stays as it is.
Cleaned(t) ==
    LET appendix == TrimLeft(From(t, Start(t) + 1))
        listed == t # <<>> /\ IsHeader(LineFrom(appendix, 1)) /\ "link" \in ToSet(appendix)
    IN IF listed THEN TrimLeft(TrimRight(SubSeq(t, 1, Start(t)))) ELSE t

-----------------------------------------------------------------------------
Init == text = <<>> /\ rendered = <<>> /\ outcome = "streaming" /\ final = <<>>

\* appendAnswerText: more of the answer arrives; what it shows must extend
\* what was shown, or the stream fails.
Receive(chunk) ==
    /\ outcome = "streaming" /\ Len(text) + Len(chunk) <= MaxText
    /\ text' = text \o chunk
    /\ IF IsPrefix(rendered, Visible(text'))
         THEN rendered' = Visible(text') /\ UNCHANGED outcome
         ELSE outcome' = "regressed" /\ UNCHANGED rendered
    /\ UNCHANGED final

\* finalizeGenerationRound.
Finalize ==
    /\ outcome = "streaming" /\ text # <<>>
    /\ outcome' = "finished"
    /\ final' = Cleaned(text)
    /\ UNCHANGED <<text, rendered>>

Next ==
    \/ \E a \in Tokens : Receive(<<a>>) \/ \E b \in Tokens : Receive(<<a, b>>)
    \/ Finalize

Spec == Init /\ [][Next]_vars

-----------------------------------------------------------------------------
(* Properties.                                                             *)

TypeOK ==
    /\ text \in Seq(Tokens) /\ Len(text) <= MaxText
    /\ IsPrefix(rendered, text)
    /\ outcome \in {"streaming", "finished", "regressed"}

\* No text that a user has read while it streamed disappears from the final
\* answer, and an answer that lists no sources is final as it came
\* (source_appendix.go:47, 66).
ShownIsKept == outcome = "finished" =>
    /\ IsPrefix(TrimLeft(rendered), TrimLeft(final))
    /\ "link" \notin ToSet(text) => final = text

\* TestStreamingBridgeSourceAppendixVisibleTextNeverRegressesAcrossChunks:
\* the visible part of an answer only grows.
NeverRegresses == outcome # "regressed"

\* "strips a trailing bridge source appendix": no text after the sources is
\* taken off with them.
OnlyTrailingStripped == outcome = "finished" =>
    ~ \E k \in DOMAIN text : k > Len(final) + 1 /\ text[k] = "word"
        /\ \E j \in 1 .. k : j > Len(final) /\ text[j] = "link"
            /\ \E s \in Separators(text) : j < s /\ s < k
=============================================================================
