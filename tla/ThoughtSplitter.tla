---------------------------- MODULE ThoughtSplitter ----------------------------
(***************************************************************************)
(* Gemini's stream (providers/gemini.go): some models write their thoughts *)
(* into the answer, between <<< and >>>.  geminiThoughtSplitter takes the  *)
(* text apart although the chunks of the stream may cut a marker.          *)
(***************************************************************************)
EXTENDS Integers, Sequences, SequencesExt

CONSTANTS
    MaxText,   \* bound: length of the text
    MaxChunk   \* bound: length of a chunk

BoundsAssumption == MaxText \in Nat /\ MaxChunk \in Nat \ {0}

VARIABLES
    whole,       \* the text received so far
    inThinking, pending,  \* the splitter
    thinking, answer,     \* what was handed over
    finishSeen,  \* the candidate's finish reason came
    outcome      \* "streaming", "complete", "empty", "error", "unexpected EOF"

vars == <<whole, inThinking, pending, thinking, answer, finishSeen, outcome>>

Marks == {"<", ">", "a"}
Open == <<"<", "<", "<">>
Close == <<">", ">", ">">>
From(t, k) == SubSeq(t, k, Len(t))
Starts(t, mark) == {k \in 1 .. Len(t) - 2 : SubSeq(t, k, k + 2) = mark}
First(S) == CHOOSE k \in S : \A j \in S : k <= j

\* What a text says outside (FALSE) or inside (TRUE) of the markers.
Said(t, start) ==
    LET step[k \in 1 .. Len(t) + 1, inside \in BOOLEAN] ==
          IF k > Len(t) THEN [in |-> <<>>, out |-> <<>>]
          ELSE IF k \in Starts(t, IF inside THEN Close ELSE Open)
            THEN step[k + 3, ~inside]
          ELSE LET rest == step[k + 1, inside]
               IN IF inside THEN [rest EXCEPT !.in = <<t[k]>> \o @]
                  ELSE [rest EXCEPT !.out = <<t[k]>> \o @]
    IN step[1, start]

\* Mutant: only the last character can start a marker.
Trailing_One(t, mark) == IF t # <<>> /\ Last(t) = mark THEN 1 ELSE 0

\* geminiThoughtMarkerTrailingRunes: how much of a text's end may be the
\* start of a marker.
Trailing(t, mark) ==
    IF t = <<>> \/ Last(t) # mark THEN 0
    ELSE IF Len(t) > 1 /\ t[Len(t) - 1] = mark THEN 2 ELSE 1

\* split: the text up to each marker goes to one side, what may start the
\* next marker waits.
Split(t, inside) ==
    LET step[k \in 1 .. Len(t) + 1, in \in BOOLEAN] ==
          LET rest == From(t, k)
              marks == Starts(rest, IF in THEN Close ELSE Open)
              keep == Trailing(rest, IF in THEN ">" ELSE "<")
              upTo == IF marks # {} THEN First(marks) - 1 ELSE Len(rest) - keep
              said == SubSeq(rest, 1, upTo)
              after == IF marks # {} THEN step[k + upTo + 3, ~in]
                       ELSE [in |-> <<>>, out |-> <<>>, inside |-> in,
                             pending |-> From(rest, upTo + 1)]
          IN IF in THEN [after EXCEPT !.in = said \o @]
             ELSE [after EXCEPT !.out = said \o @]
    IN step[1, inside]

-----------------------------------------------------------------------------
Init ==
    /\ whole = <<>> /\ inThinking = FALSE /\ pending = <<>>
    /\ thinking = <<>> /\ answer = <<>>
    /\ finishSeen = FALSE /\ outcome = "streaming"

\* handleDelta of a response with text, and possibly its finish reason.
Respond(chunk, finishes) ==
    /\ outcome = "streaming" /\ Len(whole) + Len(chunk) <= MaxText
    /\ whole' = whole \o chunk
    /\ LET s == Split(pending \o chunk, inThinking)
       IN /\ inThinking' = s.inside /\ pending' = s.pending
          /\ thinking' = thinking \o s.in /\ answer' = answer \o s.out
    /\ finishSeen' = (finishSeen \/ finishes)
    /\ UNCHANGED outcome

\* A blocked prompt, an error finish reason or a failed stream.
Fail ==
    /\ outcome = "streaming"
    /\ outcome' = "error"
    /\ UNCHANGED <<whole, inThinking, pending, thinking, answer, finishSeen>>

\* The stream ends: finalize hands over what waited, and a stream without a
\* finish reason or without text is an error.
End ==
    /\ outcome = "streaming"
    /\ thinking' = IF inThinking THEN thinking \o pending ELSE thinking
    /\ answer' = IF inThinking THEN answer ELSE answer \o pending
    /\ pending' = <<>>
    /\ outcome' = IF ~finishSeen THEN "unexpected EOF"
                  ELSE IF whole = <<>> THEN "empty" ELSE "complete"
    /\ UNCHANGED <<whole, inThinking, finishSeen>>

Next ==
    \/ \E n \in 0 .. MaxChunk : \E chunk \in [1 .. n -> Marks], f \in BOOLEAN : Respond(chunk, f)
    \/ Fail \/ End

Spec == Init /\ [][Next]_vars

-----------------------------------------------------------------------------
(* Properties.                                                             *)

TypeOK ==
    /\ whole \in Seq(Marks) /\ Len(whole) <= MaxText
    /\ inThinking \in BOOLEAN /\ Len(pending) <= 2
    /\ Len(thinking) + Len(answer) <= Len(whole)
    /\ outcome \in {"streaming", "complete", "empty", "error", "unexpected EOF"}

\* Thoughts and answer are those of the whole text, however the stream cut
\* it into chunks (gemini.go:405).
SplitAsWhole == outcome = "complete" =>
    thinking = Said(whole, FALSE).in /\ answer = Said(whole, FALSE).out
=============================================================================
