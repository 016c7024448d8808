---------------------------- MODULE Reply_proofs ----------------------------
(***************************************************************************)
(* Proofs about Reply, for every set of texts, any number of segments and  *)
(* any number of failed Discord calls and retries.                         *)
(*                                                                         *)
(* What TLC cannot show on its instance is that the tracker's two records, *)
(* the messages and renderedSpecs, agree whatever a render did before it   *)
(* failed: the two have different lengths after a partial trim, and later  *)
(* renders then skip specs and send others early.  "Shown" says how they   *)
(* relate between renders; Redrawn shows once that every way a render ends *)
(* (done, failed at a spec, failed in the trim, panicked) restores it.     *)
(* Inv adds what a reply is between its loops (Finished, Tools) and after  *)
(* them (Ended).                                                           *)
(***************************************************************************)
EXTENDS Reply, TLAPS, SequenceTheorems, FiniteSetTheorems

\* A function on 1..n is a sequence of length n.
LEMMA SeqOf ==
    ASSUME NEW S, NEW n \in Nat, NEW f \in [1..n -> S]
    PROVE  f \in Seq(S) /\ Len(f) = n /\ DOMAIN f = 1..n
<1>1. f \in Seq(S)
  BY SeqDef
<1>2. Len(f) \in Nat /\ DOMAIN f = 1..Len(f)
  BY <1>1, LenProperties
<1>3. DOMAIN f = 1..n
  OBVIOUS
<1>4. Len(f) = n
  <2>1. \A m \in Nat, k \in Nat : 1..m = 1..k => m <= k
    <3> SUFFICES ASSUME NEW m \in Nat, NEW k \in Nat, 1..m = 1..k PROVE m <= k
      OBVIOUS
    <3>1. CASE m = 0
      BY <3>1
    <3>2. CASE m # 0
      <4>1. m \in 1..m
        BY <3>2
      <4> QED BY <4>1
    <3> QED BY <3>1, <3>2
  <2> QED BY <1>2, <1>3, <2>1
<1> QED BY <1>1, <1>3, <1>4

\* The indices and the elements of a sequence.
LEMMA SeqIs ==
    ASSUME NEW S, NEW s \in Seq(S)
    PROVE  /\ Len(s) \in Nat /\ DOMAIN s = 1..Len(s) /\ s \in [1..Len(s) -> S]
           /\ \A i \in 1..Len(s) : s[i] \in S
  BY LenProperties, ElementOfSeq

-----------------------------------------------------------------------------
(* What the messages show, while the reply can still be rendered.          *)

\* Where a reply is neither answered nor given up.
Running == {"round", "ended", "judge", "phase", "attempt"}

\* The message that shows the p-th spec.
Shows(specs, p) == [spec |-> specs[p], model |-> Model]

\* Types of what is shown and recorded.
Board ==
    /\ messages \in Seq(Messages) /\ rendered \in Seq(Specs)
    /\ Len(messages) <= MaxSegments /\ Len(rendered) <= MaxSegments
    /\ doubted \subseteq DOMAIN messages /\ failures \in 0..MaxFailures
    /\ card \in {"none", "posted", "settled"} /\ progressActive \in BOOLEAN

\* Nothing is rendered before the card is settled.
CardFirst ==
    card # "settled" =>
      Len(messages) = 0 /\ Len(rendered) = 0 /\ doubted = {} /\ ~progressActive

\* While the card is shown nothing else is.
ActiveAlone == SettledActive => Len(Settled) = 1 /\ Len(rendered) = 0

\* A message shows what is recorded of it, unless that is in doubt.
Recorded ==
    \A i \in 1..Len(messages) : i <= Len(rendered) /\ i \notin doubted =>
      messages[i] = Shows(rendered, i)

\* The tracker between two renders.
Shown == Board /\ CardFirst /\ ActiveAlone /\ Recorded /\ locked = DOMAIN Settled

\* The messages that are there when a render begins.
LEMMA SettledIs ==
    ASSUME Shown
    PROVE  /\ Settled \in Seq(Messages) /\ Len(Settled) \in 0..MaxSegments
           /\ DOMAIN Settled = 1..Len(Settled) /\ \A i \in 1..Len(Settled) : Settled[i] \in Messages
           /\ \A i \in 1..Len(Settled) : i <= Len(rendered) /\ i \notin doubted =>
                Settled[i] = Shows(rendered, i)
           /\ Len(rendered) \in 0..MaxSegments /\ DOMAIN rendered = 1..Len(rendered)
           /\ \A i \in 1..Len(rendered) : rendered[i] \in Specs
           /\ doubted \subseteq 1..Len(Settled)
<1>1. Len(rendered) \in 0..MaxSegments /\ DOMAIN rendered = 1..Len(rendered)
      /\ \A i \in 1..Len(rendered) : rendered[i] \in Specs
  BY SeqIs, BoundsAssumption DEF Shown, Board
<1>2. CASE card = "posted"
  <2>1. [spec |-> Card, model |-> "primary"] \in Messages
    BY DEF Messages, Specs
  <2>2. Settled = <<[spec |-> Card, model |-> "primary"]>>
    BY <1>2 DEF Settled
  <2>3. Settled \in Seq(Messages) /\ Len(Settled) = 1
    BY <2>1, <2>2
  <2> QED BY <1>1, <1>2, <2>3, SeqIs, BoundsAssumption DEF Shown, CardFirst
<1>3. CASE card # "posted"
  BY <1>1, <1>3, SeqIs, BoundsAssumption DEF Settled, Shown, Board, Recorded
<1> QED BY <1>2, <1>3

-----------------------------------------------------------------------------
(* One render.                                                             *)

\* What a render is given: one spec for each segment.
Drawable(specs) == specs \in Seq(Specs) /\ Len(specs) \in 1..MaxSegments

\* buildRenderSpecs gives such a sequence.
LEMMA SpecsDrawable ==
    ASSUME NEW c \in Contents, NEW n \in 1..MaxSegments, NEW fin, NEW final
    PROVE  /\ Drawable(RenderSpecs(c, n, fin, final))
           /\ Len(RenderSpecs(c, n, fin, final)) = n
<1> DEFINE specs == RenderSpecs(c, n, fin, final)
<1>1. specs \in [1..n -> Specs]
  BY DEF RenderSpecs, Specs
<1>2. n \in Nat
  BY BoundsAssumption
<1> HIDE DEF specs
<1>3. specs \in Seq(Specs) /\ Len(specs) = n
  BY <1>1, <1>2, SeqOf
<1> QED BY <1>3 DEF Drawable, specs

\* How many messages there are when a render has come to the k-th spec.
LEMMA ReachedIs ==
    ASSUME Shown, NEW specs, Drawable(specs), NEW k \in 1..(Len(specs) + 1)
    PROVE  /\ Reached(specs, k) \in Nat /\ Len(Settled) <= Reached(specs, k)
           /\ Reached(specs, k) <= Longer(Len(Settled), k - 1)
           /\ Skipped(specs, k) = {} => Reached(specs, k) = Longer(Len(Settled), k - 1)
<1>1. Len(Settled) \in Nat /\ k \in Nat /\ k >= 1 /\ DOMAIN specs = 1..Len(specs)
  BY SettledIs, SeqIs, BoundsAssumption DEF Drawable
<1>2. Skipped(specs, k) \subseteq 1..k
  BY <1>1 DEF Skipped
<1>3. IsFiniteSet(Skipped(specs, k))
  <2>1. IsFiniteSet(1..k)
    BY <1>1, FS_Interval
  <2> QED BY <1>2, <2>1, FS_Subset
<1>4. Cardinality(Skipped(specs, k)) \in Nat
  BY <1>3, FS_CardinalityType
<1>5. Skipped(specs, k) = {} => Cardinality(Skipped(specs, k)) = 0
  BY FS_EmptySet
<1> QED BY <1>1, <1>4, <1>5 DEF Reached, Longer

\* What the messages are after Apply.
Left(specs, k, edited, keep) ==
    /\ messages' \in Seq(Messages) /\ Len(messages') = keep
    /\ card' = "settled" /\ progressActive' = (SettledActive /\ 1 \notin Due(specs, k))
    /\ locked' = (locked \cup (Len(Settled) + 1)..keep) \ ((keep + 1)..Len(Settled))
    /\ \A p \in 1..keep :
         /\ p <= Len(Settled) /\ p \in Due(specs, k) => messages'[p] = Shows(specs, p)
         /\ p <= Len(Settled) /\ p \notin Due(specs, k) \cup edited =>
              messages'[p] = Settled[p]
         /\ p > Len(Settled) /\ Skipped(specs, k) = {} =>
              p \in Due(specs, k) /\ messages'[p] = Shows(specs, p)

\* Apply gives just that.
LEMMA Applied ==
    ASSUME Shown, NEW specs, Drawable(specs), NEW k \in 1..(Len(specs) + 1),
           NEW edited \in SUBSET (1..Len(specs)), NEW keep \in Nat, Apply(specs, k, edited, keep)
    PROVE  Left(specs, k, edited, keep)
<1>0. /\ Len(Settled) \in Nat /\ DOMAIN specs = 1..Len(specs) /\ Len(specs) \in Nat
      /\ (\A i \in 1..Len(specs) : specs[i] \in Specs)
      /\ (\A p \in 1..Len(Settled) : Settled[p] \in Messages)
      /\ Due(specs, k) \subseteq 1..Len(specs)
  BY SettledIs, SeqIs, BoundsAssumption DEF Drawable, Due, Changed
<1>1. PICK source \in [(Len(Settled) + 1)..keep -> Due(specs, k)] :
        /\ \A p \in DOMAIN source : source[p] = p + Cardinality(Skipped(specs, source[p]))
        /\ messages' = [p \in 1..keep |->
             IF p > Len(Settled) THEN Shows(specs, source[p])
             ELSE IF p \in Due(specs, k) \cup edited THEN Shows(specs, p)
             ELSE Settled[p]]
        /\ locked' = (locked \cup (Len(Settled) + 1)..keep) \ ((keep + 1)..Len(Settled))
        /\ progressActive' = (SettledActive /\ 1 \notin Due(specs, k))
        /\ card' = "settled"
  BY DEF Apply, Shows
<1>2. \A p \in 1..Len(specs) : Shows(specs, p) \in Messages
  BY <1>0 DEF Shows, Messages, Model
<1>3. messages' \in [1..keep -> Messages]
  <2> DEFINE m(p) == IF p > Len(Settled) THEN Shows(specs, source[p])
                     ELSE IF p \in Due(specs, k) \cup edited THEN Shows(specs, p)
                     ELSE Settled[p]
  <2>1. ASSUME NEW p \in 1..keep PROVE m(p) \in Messages
    <3>1. CASE p > Len(Settled)
      <4>1. source[p] \in 1..Len(specs)
        BY <1>0, <3>1
      <4> QED BY <1>2, <3>1, <4>1
    <3>2. CASE p <= Len(Settled)
      BY <1>0, <1>2, <3>2
    <3> QED BY <1>0, <3>1, <3>2
  <2> HIDE DEF m
  <2>2. messages' = [p \in 1..keep |-> m(p)]
    BY <1>1 DEF m
  <2> QED BY <2>1, <2>2
<1>4. messages' \in Seq(Messages) /\ Len(messages') = keep
  BY <1>3, SeqOf
<1>5. ASSUME NEW p \in 1..keep, p > Len(Settled), Skipped(specs, k) = {}
      PROVE  p \in Due(specs, k) /\ messages'[p] = Shows(specs, p)
  <2>1. source[p] \in Due(specs, k) /\ source[p] = p + Cardinality(Skipped(specs, source[p]))
    BY <1>0, <1>1, <1>5
  <2>2. Skipped(specs, source[p]) = {}
    <3>1. source[p] \in 1..Len(specs) /\ source[p] < k
      BY <1>0, <2>1 DEF Due
    <3> QED BY <1>0, <1>5, <3>1 DEF Skipped
  <2>3. source[p] = p
    BY <2>1, <2>2, FS_EmptySet
  <2> QED BY <1>0, <1>1, <1>5, <2>1, <2>3
<1> QED BY <1>0, <1>1, <1>4, <1>5 DEF Left

\* A render leaves the board as it should be: what it records of the specs before
\* the k-th is shown or in doubt, and what it does not touch stays recorded.
LEMMA Redrawn ==
    ASSUME Shown, NEW specs, Drawable(specs), NEW k \in 1..(Len(specs) + 1),
           NEW edited \in SUBSET (1..Len(specs)), NEW keep \in 0..MaxSegments,
           Apply(specs, k, edited, keep), k = 1 => keep = Len(Settled),
           rendered' \in Seq(Specs), Len(rendered') <= Longer(k - 1, Len(rendered)),
           \A i \in 1..Len(rendered') :
             rendered'[i] = IF i < k THEN specs[i] ELSE rendered[i],
           doubted' \subseteq 1..keep,
           \A p \in 1..keep : p \notin doubted' =>
             /\ p \notin edited /\ (p \in doubted => p \in Due(specs, k))
             /\ p > Len(Settled) => Skipped(specs, k) = {},
           failures' \in 0..MaxFailures, stage' = stage
    PROVE  Shown' /\ card' = "settled" /\ Len(messages') = keep
<1>a. /\ Len(Settled) \in Nat /\ Len(Settled) <= MaxSegments
      /\ Len(rendered) \in Nat /\ DOMAIN rendered = 1..Len(rendered) /\ Len(rendered) <= MaxSegments
      /\ \A i \in 1..Len(Settled) : i <= Len(rendered) /\ i \notin doubted =>
           Settled[i] = Shows(rendered, i)
  <2>1. \A i \in 1..Len(Settled) : i <= Len(rendered) /\ i \notin doubted =>
          Settled[i] = Shows(rendered, i)
    BY SettledIs
  <2>2. Len(Settled) \in 0..MaxSegments /\ Len(rendered) \in 0..MaxSegments
        /\ DOMAIN rendered = 1..Len(rendered)
    BY SettledIs
  <2> HIDE DEF Settled
  <2> QED BY <2>1, <2>2, BoundsAssumption
<1>b. /\ DOMAIN specs = 1..Len(specs) /\ Len(specs) \in Nat /\ Len(specs) >= 1
      /\ Len(specs) <= MaxSegments
  BY SeqIs, BoundsAssumption DEF Drawable
<1>c. keep \in Nat /\ k \in Nat
  BY <1>b, BoundsAssumption
<1>0. /\ Len(Settled) \in Nat /\ Len(rendered) \in Nat /\ Len(specs) \in Nat /\ Len(specs) >= 1
      /\ DOMAIN specs = 1..Len(specs) /\ keep \in Nat /\ k \in Nat
  BY <1>a, <1>b, <1>c
<1>1. /\ messages' \in Seq(Messages) /\ Len(messages') = keep /\ card' = "settled"
      /\ progressActive' = (SettledActive /\ 1 \notin Due(specs, k))
      /\ locked' = (locked \cup (Len(Settled) + 1)..keep) \ ((keep + 1)..Len(Settled))
      /\ \A p \in 1..keep :
           /\ p <= Len(Settled) /\ p \in Due(specs, k) => messages'[p] = Shows(specs, p)
           /\ p <= Len(Settled) /\ p \notin Due(specs, k) \cup edited =>
                messages'[p] = Settled[p]
           /\ p > Len(Settled) /\ Skipped(specs, k) = {} =>
                p \in Due(specs, k) /\ messages'[p] = Shows(specs, p)
  <2>1. Left(specs, k, edited, keep)
    BY <1>c, Applied
  <2> QED BY <2>1 DEF Left
<1>2. DOMAIN messages' = 1..keep /\ Settled' = messages' /\ Len(rendered') \in Nat
  BY <1>1, SeqIs DEF Settled
<1>3. Board'
  <2>1. Len(rendered') <= MaxSegments
    BY <1>a, <1>b, <1>c, <1>2, BoundsAssumption DEF Longer
  <2>2. progressActive' \in BOOLEAN
    BY <1>1
  <2> QED BY <1>1, <1>2, <2>1, <2>2 DEF Board, Messages, Specs
<1>4. ActiveAlone'
  <2> SUFFICES ASSUME progressActive' PROVE keep = 1 /\ Len(rendered') = 0
    BY <1>1, <1>2 DEF ActiveAlone, SettledActive
  <2>1. SettledActive /\ 1 \notin Due(specs, k)
    BY <1>1
  <2>2. Len(Settled) = 1 /\ Len(rendered) = 0
    BY <2>1 DEF Shown, ActiveAlone
  <2>3. k = 1
    BY <1>0, <2>1, <2>2 DEF Due, Changed
  <2> QED BY <1>0, <1>2, <2>2, <2>3 DEF Longer
<1>5. Recorded'
  <2> SUFFICES ASSUME NEW p \in 1..keep, p <= Len(rendered'), p \notin doubted'
               PROVE  \/ messages'[p] = Shows(specs, p) /\ p < k
                      \/ messages'[p] = Shows(rendered, p) /\ p >= k
    BY <1>0, <1>1, <1>2 DEF Recorded, Shows, Model
  <2>0. p \in Nat /\ p >= 1
    OBVIOUS
  <2>1. CASE p > Len(Settled)
    <3>1. p \in Due(specs, k) /\ messages'[p] = Shows(specs, p)
      BY <1>1, <2>1
    <3> QED BY <3>1 DEF Due
  <2>2. CASE p <= Len(Settled) /\ p \in Due(specs, k)
    <3>1. messages'[p] = Shows(specs, p)
      BY <1>1, <2>2
    <3> QED BY <2>2, <3>1 DEF Due
  <2>3. CASE p <= Len(Settled) /\ p \notin Due(specs, k)
    <3>1. messages'[p] = Settled[p] /\ p \notin doubted
      BY <1>1, <2>3
    <3>2. CASE p < k
      <4>1. p \in DOMAIN specs
        BY <1>0, <2>0, <3>2
      <4>2. p <= Len(rendered) /\ rendered[p] = specs[p]
        BY <1>0, <2>0, <2>3, <3>2, <4>1 DEF Due, Changed
      <4>3. Settled[p] = Shows(rendered, p)
        BY <1>a, <2>0, <2>3, <3>1, <4>2
      <4> QED BY <3>1, <3>2, <4>2, <4>3 DEF Shows
    <3>3. CASE p >= k
      <4>1. p <= Len(rendered)
        BY <1>0, <1>2, <2>0, <3>3 DEF Longer
      <4>2. Settled[p] = Shows(rendered, p)
        BY <1>a, <2>0, <2>3, <3>1, <4>1
      <4> QED BY <3>1, <3>3, <4>2
    <3> QED BY <1>0, <2>0, <3>2, <3>3
  <2> QED BY <1>0, <2>0, <2>1, <2>2, <2>3
<1>6. locked' = DOMAIN Settled'
  <2>1. locked = 1..Len(Settled)
    BY SettledIs DEF Shown
  <2> QED BY <1>0, <1>1, <1>2, <2>1
<1> QED BY <1>1, <1>3, <1>4, <1>5, <1>6 DEF Shown, CardFirst

\* A render that stops at the k-th spec, its edit applied or not.
LEMMA ShownUpto ==
    ASSUME Shown, NEW specs, Drawable(specs), NEW k \in 1..Len(specs),
           NEW edited \in SUBSET ({k} \cap DOMAIN Settled), Upto(specs, k, edited),
           NEW more, edited \subseteq more, more \subseteq {k} \cap DOMAIN Settled,
           doubted' = Doubted(specs, k, Reached(specs, k)) \cup more,
           failures' \in 0..MaxFailures, stage' = stage
    PROVE  Shown' /\ card' = "settled"
<1> DEFINE keep == Reached(specs, k)
           f == [i \in 1..Longer(k - 1, Len(rendered)) |->
                   IF i < k THEN specs[i] ELSE rendered[i]]
<1>0. /\ Len(Settled) \in Nat /\ Len(Settled) <= MaxSegments /\ DOMAIN Settled = 1..Len(Settled)
      /\ DOMAIN specs = 1..Len(specs) /\ Len(specs) \in Nat /\ Len(specs) <= MaxSegments
      /\ (\A i \in 1..Len(specs) : specs[i] \in Specs)
      /\ Len(rendered) \in Nat /\ (\A i \in 1..Len(rendered) : rendered[i] \in Specs)
      /\ k \in Nat /\ k \in 1..(Len(specs) + 1) /\ doubted \subseteq 1..Len(Settled)
  BY SettledIs, SeqIs, BoundsAssumption DEF Drawable
<1>1. keep \in Nat /\ Len(Settled) <= keep /\ keep <= MaxSegments
      /\ (k = 1 => keep = Len(Settled))
  BY <1>0, ReachedIs, BoundsAssumption DEF Longer
<1>2. Longer(k - 1, Len(rendered)) \in Nat /\ f \in [1..Longer(k - 1, Len(rendered)) -> Specs]
  BY <1>0 DEF Longer
<1>3. rendered' = f /\ Apply(specs, k, edited, keep)
  BY DEF Upto
<1>4. rendered' \in Seq(Specs) /\ Len(rendered') = Longer(k - 1, Len(rendered))
      /\ DOMAIN rendered' = 1..Longer(k - 1, Len(rendered))
  <2> HIDE DEF f
  <2> QED BY <1>2, <1>3, SeqOf
<1>5. \A i \in 1..Len(rendered') : rendered'[i] = IF i < k THEN specs[i] ELSE rendered[i]
  BY <1>3, <1>4
<1>6. doubted' \subseteq 1..keep
  <2>1. doubted' \subseteq doubted \cup ((Len(Settled) + 1)..keep) \cup more
    BY DEF Doubted
  <2>2. 1..Len(Settled) \subseteq 1..keep /\ (Len(Settled) + 1)..keep \subseteq 1..keep
    BY <1>0, <1>1
  <2> QED BY <1>0, <2>1, <2>2
<1>7. \A p \in 1..keep : p \notin doubted' =>
        /\ p \notin edited /\ (p \in doubted => p \in Due(specs, k))
        /\ p > Len(Settled) => Skipped(specs, k) = {}
  <2> SUFFICES ASSUME NEW p \in 1..keep, p \notin doubted'
               PROVE  /\ p \notin edited /\ (p \in doubted => p \in Due(specs, k))
                      /\ p > Len(Settled) => Skipped(specs, k) = {}
    OBVIOUS
  <2>1. p \notin edited
    OBVIOUS
  <2>2. p \notin (keep + 1)..Len(Settled)
    BY <1>0, <1>1
  <2>3. p \in doubted => p \in Due(specs, k)
    BY <2>2 DEF Doubted
  <2>4. p > Len(Settled) => p \in (Len(Settled) + 1)..keep
    BY <1>0, <1>1
  <2> HIDE DEF keep
  <2>5. p > Len(Settled) => Skipped(specs, k) = {}
    BY <2>4 DEF Doubted, keep
  <2> QED BY <2>1, <2>3, <2>5
<1>8. edited \in SUBSET (1..Len(specs))
  BY <1>0
<1>9. keep \in 0..MaxSegments /\ Len(rendered') <= Longer(k - 1, Len(rendered))
  BY <1>1, <1>2, <1>4, BoundsAssumption
<1> HIDE DEF keep, f
<1> QED BY <1>0, <1>1, <1>3, <1>4, <1>5, <1>6, <1>7, <1>8, <1>9, Redrawn

\* A render that is done: all of its specs are recorded, and the final one has
\* left as many messages as specs.
LEMMA ShownRender ==
    ASSUME Shown, NEW specs, Drawable(specs), NEW final, Render(specs, final),
           stage' = stage
    PROVE  /\ Shown' /\ card' = "settled" /\ rendered' = specs
           /\ final => Len(messages') = Len(specs)
<1> DEFINE n == Len(specs)
           keep == Shorter(n, Reached(specs, n + 1))
<1>0. /\ Len(Settled) \in Nat /\ Len(Settled) <= MaxSegments /\ DOMAIN Settled = 1..Len(Settled)
      /\ n \in Nat /\ n >= 1 /\ n <= MaxSegments /\ specs \in Seq(Specs)
      /\ Len(rendered) \in Nat /\ doubted \subseteq 1..Len(Settled) /\ failures \in 0..MaxFailures
      /\ n + 1 \in 1..(n + 1)
  BY SettledIs, SeqIs, BoundsAssumption DEF Drawable, Shown, Board
<1>1. /\ Reached(specs, n + 1) \in Nat /\ Len(Settled) <= Reached(specs, n + 1)
      /\ Skipped(specs, n + 1) = {} => Reached(specs, n + 1) = Longer(Len(Settled), n)
  BY <1>0, ReachedIs
<1>2. keep \in Nat /\ keep <= n /\ (keep < Len(Settled) => keep = n)
      /\ (Skipped(specs, n + 1) = {} => keep = n)
  BY <1>0, <1>1 DEF Shorter, Longer
<1>3. /\ Apply(specs, n + 1, {}, keep) /\ doubted' = Doubted(specs, n + 1, keep)
      /\ rendered' = specs /\ failures' = failures
      /\ final => Skipped(specs, n + 1) = {}
  BY DEF Render
<1> HIDE DEF n, keep
<1>4. doubted' \subseteq 1..keep
  <2>1. doubted' \subseteq (doubted \ ((keep + 1)..Len(Settled))) \cup ((Len(Settled) + 1)..keep)
    BY <1>3 DEF Doubted
  <2> QED BY <1>0, <1>2, <2>1
<1>5. \A p \in 1..keep : p \notin doubted' =>
        /\ p \notin {} /\ (p \in doubted => p \in Due(specs, n + 1))
        /\ p > Len(Settled) => Skipped(specs, n + 1) = {}
  <2> SUFFICES ASSUME NEW p \in 1..keep, p \notin doubted'
               PROVE  /\ p \in doubted => p \in Due(specs, n + 1)
                      /\ p > Len(Settled) => Skipped(specs, n + 1) = {}
    OBVIOUS
  <2>1. p \notin (keep + 1)..Len(Settled)
    BY <1>0, <1>2
  <2>2. p \in doubted => p \in Due(specs, n + 1)
    BY <1>3, <2>1 DEF Doubted
  <2>3. p > Len(Settled) => p \in (Len(Settled) + 1)..keep
    BY <1>0, <1>2
  <2>4. p > Len(Settled) => Skipped(specs, n + 1) = {}
    BY <1>3, <2>3 DEF Doubted
  <2> QED BY <2>2, <2>4
<1>6. /\ rendered' \in Seq(Specs) /\ Len(rendered') <= Longer((n + 1) - 1, Len(rendered))
      /\ \A i \in 1..Len(rendered') :
           rendered'[i] = IF i < n + 1 THEN specs[i] ELSE rendered[i]
  BY <1>0, <1>3 DEF Longer, n
<1>7. keep \in 0..MaxSegments /\ {} \in SUBSET (1..n) /\ n + 1 # 1
      /\ failures' \in 0..MaxFailures
  BY <1>0, <1>2, <1>3, BoundsAssumption
<1>8. Shown' /\ card' = "settled" /\ Len(messages') = keep
  BY <1>0, <1>3, <1>4, <1>5, <1>6, <1>7, Redrawn DEF n
<1> QED BY <1>2, <1>3, <1>8 DEF n

\* A render that fails, at a spec or while it trims.
LEMMA ShownFails ==
    ASSUME Shown, NEW specs, Drawable(specs), NEW final, RenderFails(specs, final),
           stage' = stage
    PROVE  Shown' /\ card' = "settled"
<1> DEFINE n == Len(specs)
<1>0. /\ Len(Settled) \in Nat /\ Len(Settled) <= MaxSegments /\ DOMAIN Settled = 1..Len(Settled)
      /\ n \in Nat /\ n >= 1 /\ n <= MaxSegments /\ DOMAIN specs = 1..n
      /\ Len(rendered) \in Nat /\ doubted \subseteq 1..Len(Settled)
      /\ (\A i \in 1..n : specs[i] \in Specs) /\ (\A i \in 1..Len(rendered) : rendered[i] \in Specs)
      /\ n + 1 \in 1..(n + 1)
  BY SettledIs, SeqIs, BoundsAssumption DEF Drawable
<1>1. failures' \in 0..MaxFailures
  BY BoundsAssumption DEF RenderFails, Shown, Board
<1> HIDE DEF n
<1>2. CASE \E k \in Changed(specs) :
             /\ final => Skipped(specs, k) = {}
             /\ \E edited \in SUBSET ({k} \cap DOMAIN Settled) : Upto(specs, k, edited)
             /\ doubted' = Doubted(specs, k, Reached(specs, k)) \cup ({k} \cap DOMAIN Settled)
  <2>1. PICK k \in Changed(specs) :
             /\ \E edited \in SUBSET ({k} \cap DOMAIN Settled) : Upto(specs, k, edited)
             /\ doubted' = Doubted(specs, k, Reached(specs, k)) \cup ({k} \cap DOMAIN Settled)
    BY <1>2
  <2>3. PICK edited \in SUBSET ({k} \cap DOMAIN Settled) : Upto(specs, k, edited)
    BY <2>1
  <2>2. k \in 1..Len(specs)
    BY <1>0 DEF Changed, n
  <2> QED BY <1>1, <2>1, <2>2, <2>3, ShownUpto
<1>3. CASE \E k \in (n + 1)..Len(Settled) :
            /\ Apply(specs, n + 1, {}, k)
            /\ doubted' = Doubted(specs, n + 1, k)
            /\ rendered' = [i \in 1..Longer(n, Len(rendered)) |->
                               IF i <= n THEN specs[i] ELSE rendered[i]]
  <2>1. PICK k \in (n + 1)..Len(Settled) :
            /\ Apply(specs, n + 1, {}, k)
            /\ doubted' = Doubted(specs, n + 1, k)
            /\ rendered' = [i \in 1..Longer(n, Len(rendered)) |->
                               IF i <= n THEN specs[i] ELSE rendered[i]]
    BY <1>3
  <2>2. k \in Nat /\ k <= Len(Settled) /\ k > n /\ k \in 0..MaxSegments
    BY <1>0, BoundsAssumption
  <2>3. Skipped(specs, n + 1) = {}
    BY <1>0, <2>2 DEF Skipped
  <2>4. doubted' \subseteq 1..k
    <3>1. doubted' \subseteq doubted \ ((k + 1)..Len(Settled))
      BY <2>1, <2>3 DEF Doubted
    <3> QED BY <1>0, <2>2, <3>1
  <2>5. \A p \in 1..k : p \notin doubted' => (p \in doubted => p \in Due(specs, n + 1))
    <3> SUFFICES ASSUME NEW p \in 1..k, p \notin doubted', p \in doubted
                 PROVE  p \in Due(specs, n + 1)
      OBVIOUS
    <3>1. p \notin (k + 1)..Len(Settled)
      BY <2>2
    <3> QED BY <2>1, <3>1 DEF Doubted
  <2>6. Longer(n, Len(rendered)) \in Nat /\ rendered' \in [1..Longer(n, Len(rendered)) -> Specs]
    BY <1>0, <2>1 DEF Longer
  <2>7. rendered' \in Seq(Specs) /\ Len(rendered') = Longer(n, Len(rendered))
    BY <2>6, SeqOf
  <2>8. \A i \in 1..Len(rendered') :
           rendered'[i] = IF i < n + 1 THEN specs[i] ELSE rendered[i]
    <3> SUFFICES ASSUME NEW i \in 1..Len(rendered')
                 PROVE  rendered'[i] = IF i < n + 1 THEN specs[i] ELSE rendered[i]
      OBVIOUS
    <3>1. i \in Nat /\ (i <= n <=> i < n + 1) /\ i \in 1..Longer(n, Len(rendered))
      BY <1>0, <2>7
    <3>2. rendered'[i] = IF i <= n THEN specs[i] ELSE rendered[i]
      BY <2>1, <3>1
    <3> QED BY <3>1, <3>2
  <2>9. /\ n + 1 # 1 /\ {} \in SUBSET (1..n)
        /\ Len(rendered') <= Longer((n + 1) - 1, Len(rendered))
    BY <1>0, <2>6, <2>7
  <2>10. \A p \in 1..k : p \notin doubted' =>
           /\ p \notin {} /\ (p \in doubted => p \in Due(specs, n + 1))
           /\ p > Len(Settled) => Skipped(specs, n + 1) = {}
    BY <2>3, <2>5
  <2>11. Apply(specs, n + 1, {}, k)
    BY <2>1
  <2> QED
    BY <1>0, <1>1, <2>2, <2>4, <2>7, <2>8, <2>9, <2>10, <2>11, Redrawn DEF n
<1> QED BY <1>2, <1>3 DEF RenderFails, n

\* A final render that panics.
LEMMA ShownPanics ==
    ASSUME Shown, NEW specs, Drawable(specs), RenderPanics(specs), stage' = stage
    PROVE  Shown' /\ card' = "settled"
<1>1. DOMAIN specs = 1..Len(specs) /\ failures \in 0..MaxFailures
  BY SeqIs DEF Drawable, Shown, Board
<1>2. PICK k \in 1..Len(specs) :
        /\ Upto(specs, k, {}) /\ doubted' = Doubted(specs, k, Reached(specs, k))
        /\ failures' = failures
  BY <1>1 DEF RenderPanics
<1>3. {} \in SUBSET ({k} \cap DOMAIN Settled) /\ {} \subseteq {}
      /\ doubted' = Doubted(specs, k, Reached(specs, k)) \cup {}
  BY <1>2
<1> QED BY <1>1, <1>2, <1>3, ShownUpto

-----------------------------------------------------------------------------
(* The inductive invariant.                                                *)

\* Types of the loops' variables.
LoopTypes ==
    /\ pc \in {"round", "ended", "judge", "phase", "attempt", "failSend", "release", "done",
               "panicked"}
    /\ stage \in {"chained", "plain", "fallback"}
    /\ phase \in {"first", "forced", "toolFree"} /\ prefill \in {0, 1}
    /\ hasTools \in BOOLEAN /\ ignores \in BOOLEAN
    /\ streams \in 1..MaxStreams /\ unoffered \in 1..MaxUnoffered
    /\ out \in Outs

\* An url is posted once, after it was claimed.
ReplyTypes ==
    /\ images \in Seq(Contents \cup {"plain"}) /\ imagesSent \in Seq(BOOLEAN)
    /\ Len(images) <= MaxSegments /\ Len(imagesSent) = Len(images)
    /\ stale \in BOOLEAN /\ claimed \in BOOLEAN
    /\ links = 0 \/ (links = 1 /\ claimed)

\* A round that ended well rendered all of its text, as its final text, and
\* nothing is rendered after it unless another stream begins.
Finished ==
    /\ pc = "ended" => out.c \in Contents
    /\ pc \in {"judge", "phase", "attempt"} /\ out.err = "none" /\ ~out.tool =>
         /\ card = "settled" /\ Len(messages) = out.n
         /\ rendered = FinalSpecs(out.fin)

\* Calls of tools that were not offered do not leave the loop that retries them,
\* and an attempt that ends well ends with a text.
Tools ==
    /\ pc = "phase" /\ out.err = "none" /\ out.tool => hasTools /\ phase # "toolFree"
    /\ pc = "attempt" /\ out.err = "none" => ~out.tool

\* What is left of the reply when it has been answered or has failed.
Ended ==
    /\ card = "settled" /\ messages \in Seq(Messages) /\ rendered \in Seq(Specs)
    /\ Len(messages) <= IF pc \in {"failSend", "panicked"} THEN MaxSegments
                        ELSE MaxSegments + 1
    /\ Len(rendered) <= MaxSegments /\ doubted \subseteq DOMAIN messages
    /\ failures \in 0..MaxFailures /\ progressActive \in BOOLEAN
    /\ locked = IF pc = "done" THEN {} ELSE DOMAIN messages
    /\ pc \in {"failSend", "panicked"} => outcome = "none"
    /\ outcome \in {"none", "answered", "failed", "unseen"}
    /\ SuccessShowsAnswer /\ FailureComesLast

\* Which of the two holds.
Going == IF pc \in Running THEN Shown /\ outcome = "none" ELSE Ended

\* The inductive invariant.
Inv == LoopTypes /\ ReplyTypes /\ Finished /\ Tools /\ Going

\* A step that renders nothing keeps what is shown.
LEMMA ShownKept ==
    ASSUME Shown, UNCHANGED showVars, Model' = Model
    PROVE  Shown'
BY DEF Shown, showVars, Board, CardFirst, ActiveAlone, SettledActive, Settled, Recorded, Shows

\* The results of a round that is begun or has failed.
LEMMA OutsIs ==
    /\ NoOut \in Outs /\ NoOut.err = "none" /\ ~NoOut.tool /\ NoOut.n = 0
    /\ \A err \in {"transient", "other", "previous", "empty"} :
         Failed(err) \in Outs /\ Failed(err).err # "none"
<1>1. 0 \in 0..MaxSegments
  BY BoundsAssumption
<1>2. NoOut \in Outs
  BY <1>1 DEF NoOut, Outs
<1>3. ASSUME NEW err \in {"transient", "other", "previous", "empty"}
      PROVE  Failed(err) \in Outs /\ Failed(err).err # "none"
  <2>1. Failed(err) = [NoOut EXCEPT !.err = IF err = "transient" THEN "other" ELSE err]
    BY DEF Failed
  <2> QED BY <1>1, <2>1 DEF NoOut, Outs
<1> QED BY <1>2, <1>3 DEF NoOut

\* The invariant holds when a reply begins.
LEMMA InitInv == Init => Inv
<1> SUFFICES ASSUME Init PROVE Inv
  OBVIOUS
<1>1. LoopTypes
  <2>1. 1 \in 1..MaxStreams /\ 1 \in 1..MaxUnoffered
    BY BoundsAssumption
  <2> QED BY <2>1, OutsIs DEF Init, LoopTypes
<1>2. ReplyTypes
  <2>1. images \in Seq(Contents \cup {"plain"}) /\ imagesSent \in Seq(BOOLEAN)
        /\ Len(images) = 0 /\ Len(imagesSent) = 0
    BY DEF Init
  <2>2. 0 <= MaxSegments
    BY BoundsAssumption
  <2> QED BY <2>1, <2>2 DEF Init, ReplyTypes
<1>3. Shown /\ outcome = "none"
  <2>1. /\ messages \in Seq(Messages) /\ rendered \in Seq(Specs) /\ Len(messages) = 0
        /\ Len(rendered) = 0 /\ DOMAIN messages = {} /\ 0 <= MaxSegments
        /\ 0 \in 0..MaxFailures
    BY BoundsAssumption DEF Init
  <2>2. Board
    BY <2>1 DEF Init, Board
  <2>3. CardFirst /\ ActiveAlone /\ locked = DOMAIN Settled
    BY <2>1 DEF Init, CardFirst, ActiveAlone, SettledActive, Settled
  <2>4. Recorded
    BY <2>1 DEF Recorded
  <2> QED BY <2>2, <2>3, <2>4 DEF Init, Shown
<1> QED BY <1>1, <1>2, <1>3 DEF Init, Inv, Going, Finished, Tools, Running

\* The steps of the loops, which show nothing.
LEMMA LoopStep ==
    ASSUME Inv, Retry \/ RetryUnoffered \/ EndRound \/ Search \/ AnswerWithoutTools
                  \/ EndAttempt \/ EndToolRound \/ RetryStateless
    PROVE  Inv'
<1>0. /\ LoopTypes /\ ReplyTypes /\ Finished /\ Tools /\ pc \in Running /\ Shown /\ outcome = "none"
      /\ UNCHANGED <<showVars, replyVars, outcome>> /\ Model' = Model
  BY DEF Inv, Going, Running, Retry, RetryUnoffered, EndRound, Search, AnswerWithoutTools,
         EndAttempt, EndToolRound, RetryStateless, KeepMessages, KeepAttempt, BeginPhase,
         BeginAttempt, Stateless, Model, loopVars
<1>1. ReplyTypes' /\ Shown' /\ outcome' = "none"
  BY <1>0, ShownKept DEF ReplyTypes, replyVars
<1>2. out \in Outs /\ out.err \in {"none", "transient", "other", "previous", "empty"}
      /\ out.tool \in BOOLEAN /\ out.n \in 0..MaxSegments
  BY <1>0 DEF LoopTypes, Outs
<1>3. /\ MaxStreams \in Nat /\ MaxUnoffered \in Nat /\ 1 \in 1..MaxStreams
      /\ 1 \in 1..MaxUnoffered
  BY BoundsAssumption
<1>5. CASE Retry
  <2>1. LoopTypes'
    BY <1>0, <1>3, <1>5, OutsIs DEF LoopTypes, Retry, WaitAndRetry, KeepAttempt, RetryStream
  <2>2. Finished' /\ Tools' /\ pc' \in Running
    BY <1>5, OutsIs DEF Finished, Tools, Running, Retry, WaitAndRetry
  <2> QED BY <1>1, <2>1, <2>2 DEF Inv, Going
<1>6. CASE RetryUnoffered
  <2>1. LoopTypes'
    BY <1>0, <1>3, <1>6, OutsIs DEF LoopTypes, RetryUnoffered, WaitAndRetry, KeepAttempt
  <2>2. Finished' /\ Tools' /\ pc' \in Running
    BY <1>6, OutsIs DEF Finished, Tools, Running, RetryUnoffered, WaitAndRetry
  <2> QED BY <1>1, <2>1, <2>2 DEF Inv, Going
<1>7. CASE EndRound
  <2>0. \/ out' \in Outs /\ out'.err # "none"
        \/ UNCHANGED out /\ out.err = "none" /\ ~CalledUnoffered
    BY <1>2, <1>7, OutsIs DEF EndRound
  <2>1. LoopTypes'
    BY <1>0, <1>2, <1>3, <1>7, <2>0 DEF LoopTypes, EndRound, KeepAttempt
  <2>2. Finished'
    BY <1>0, <1>7, <2>0
    DEF Finished, EndRound, showVars, FinalSpecs, KeepAttempt
  <2>3. Tools' /\ pc' \in Running
    BY <1>0, <1>7, <2>0
    DEF Tools, EndRound, CalledUnoffered, Offered, KeepAttempt, Running, LoopTypes
  <2> QED BY <1>1, <2>1, <2>2, <2>3 DEF Inv, Going
<1>8. CASE Search
  <2>1. LoopTypes'
    BY <1>0, <1>8, OutsIs DEF LoopTypes, Search, BeginPhase
  <2>2. Finished' /\ Tools' /\ pc' \in Running
    BY <1>8 DEF Finished, Tools, Running, Search, BeginPhase
  <2> QED BY <1>1, <2>1, <2>2 DEF Inv, Going
<1>9. CASE AnswerWithoutTools
  <2>1. LoopTypes'
    BY <1>0, <1>9, OutsIs DEF LoopTypes, AnswerWithoutTools, BeginPhase
  <2>2. Finished' /\ Tools' /\ pc' \in Running
    BY <1>9 DEF Finished, Tools, Running, AnswerWithoutTools, BeginPhase
  <2> QED BY <1>1, <2>1, <2>2 DEF Inv, Going
<1>10. CASE EndAttempt
  <2>1. LoopTypes'
    BY <1>0, <1>10 DEF LoopTypes, EndAttempt
  <2>2. Finished'
    BY <1>0, <1>10 DEF Finished, EndAttempt, showVars, FinalSpecs
  <2>3. Tools' /\ pc' \in Running
    BY <1>0, <1>2, <1>10 DEF Tools, EndAttempt, Answered, Running
  <2> QED BY <1>1, <2>1, <2>2, <2>3 DEF Inv, Going
<1>11. CASE EndToolRound
  <2>1. out' \in Outs /\ out'.tool
    BY <1>2, <1>11 DEF EndToolRound, NoOut, Outs
  <2>2. LoopTypes'
    BY <1>0, <1>11, <2>1 DEF LoopTypes, EndToolRound, loopVars
  <2>3. Finished' /\ Tools' /\ pc' \in Running
    BY <1>11, <2>1 DEF Finished, Tools, Running, EndToolRound
  <2> QED BY <1>1, <2>2, <2>3 DEF Inv, Going
<1>12. CASE RetryStateless
  <2>1. LoopTypes'
    BY <1>0, <1>12, OutsIs DEF LoopTypes, RetryStateless, BeginAttempt
  <2>2. Finished' /\ Tools' /\ pc' \in Running
    BY <1>12 DEF Finished, Tools, Running, RetryStateless, BeginAttempt
  <2> QED BY <1>1, <2>1, <2>2 DEF Inv, Going
<1> QED BY <1>5, <1>6, <1>7, <1>8, <1>9, <1>10, <1>11, <1>12

-----------------------------------------------------------------------------
(* The steps that render.                                                  *)

\* The card loop posts the card: its node is the only one that is locked.
LEMMA PostCardStep == ASSUME Inv, PostCard PROVE Inv'
<1>0. /\ LoopTypes /\ ReplyTypes /\ Finished /\ Tools /\ pc \in Running /\ Shown
      /\ outcome = "none" /\ card = "none"
  BY DEF Inv, Going, Ended, PostCard
<1>1. /\ card' = "posted" /\ locked' = {1} /\ card = "none"
      /\ UNCHANGED <<pc, loopVars, out, messages, progressActive, failures, doubted,
                   rendered, replyVars, outcome>>
  BY DEF PostCard
<1>2. LoopTypes' /\ ReplyTypes' /\ Tools' /\ Finished'
  BY <1>0, <1>1
  DEF LoopTypes, loopVars, ReplyTypes, replyVars, Tools, Finished, FinalSpecs
<1>3. /\ Board' /\ CardFirst' /\ Recorded'
  BY <1>0, <1>1 DEF Shown, Board, CardFirst, Recorded, Shows, Model, loopVars
<1>4. Len(Settled') = 1 /\ DOMAIN Settled' = {1}
  BY <1>1 DEF Settled
<1>5. Shown'
  BY <1>0, <1>1, <1>3, <1>4 DEF Shown, ActiveAlone, CardFirst
<1> QED BY <1>0, <1>1, <1>2, <1>5 DEF Inv, Going

\* A prefix is a sequence of the same kind.
LEMMA PrefixIs ==
    ASSUME NEW S, NEW s \in Seq(S), NEW n \in Nat
    PROVE  Prefix(s, n) \in Seq(S) /\ Len(Prefix(s, n)) = Shorter(Len(s), n)
<1> DEFINE m == Shorter(Len(s), n)
<1>1. Len(s) \in Nat /\ DOMAIN s = 1..Len(s) /\ \A i \in 1..Len(s) : s[i] \in S
  BY SeqIs
<1>2. m \in Nat /\ m <= Len(s)
  BY <1>1 DEF Shorter
<1>3. Prefix(s, n) = [i \in 1..m |-> s[i]]
  <2> HIDE DEF m
  <2>1. SubSeq(s, 1, m) = [i \in 1..m |-> s[i]]
    BY <1>1, <1>2
  <2> QED BY <2>1 DEF Prefix, m
<1>4. Prefix(s, n) \in [1..m -> S]
  BY <1>1, <1>2, <1>3
<1> HIDE DEF m
<1>5. Prefix(s, n) \in Seq(S) /\ Len(Prefix(s, n)) = m
  BY <1>2, <1>4, SeqOf
<1> QED BY <1>5 DEF m

\* A stream renders some of its segments, or fails while it does.
LEMMA StreamStep == ASSUME Inv, Stream PROVE Inv'
<1>0. /\ LoopTypes /\ ReplyTypes /\ pc = "round" /\ Shown /\ outcome = "none"
  BY DEF Inv, Going, Running, Stream
<1>1. PICK c \in Contents :
         \E n \in prefill..MaxSegments :
         /\ out' \in [c : {c}, n : {n}, fin : {""}, tool : {FALSE}, err : RenderErrors \cup {"none"}]
         /\ \/ /\ n <= prefill + 1 /\ out'.err = "none"
               /\ UNCHANGED <<showVars, images, imagesSent>>
            \/ \E k \in 1..n :
                 /\ out'.err = "none" /\ Render(RenderSpecs(c, k, "", FALSE), FALSE)
                 /\ images' = Prefix(images, k) /\ imagesSent' = Prefix(imagesSent, k)
            \/ /\ out'.err # "none" /\ n > 0 /\ RenderFails(RenderSpecs(c, n, "", FALSE), FALSE)
               /\ UNCHANGED <<images, imagesSent>>
  BY DEF Stream
<1>2. PICK n \in prefill..MaxSegments :
         /\ out' \in [c : {c}, n : {n}, fin : {""}, tool : {FALSE}, err : RenderErrors \cup {"none"}]
         /\ \/ /\ n <= prefill + 1 /\ out'.err = "none"
               /\ UNCHANGED <<showVars, images, imagesSent>>
            \/ \E k \in 1..n :
                 /\ out'.err = "none" /\ Render(RenderSpecs(c, k, "", FALSE), FALSE)
                 /\ images' = Prefix(images, k) /\ imagesSent' = Prefix(imagesSent, k)
            \/ /\ out'.err # "none" /\ n > 0 /\ RenderFails(RenderSpecs(c, n, "", FALSE), FALSE)
               /\ UNCHANGED <<images, imagesSent>>
  BY <1>1
<1>3. UNCHANGED <<loopVars, stale, claimed, links, outcome>> /\ pc' = "ended"
  BY DEF Stream
<1>4. n \in 0..MaxSegments /\ n \in Nat /\ n <= MaxSegments
  BY <1>0, BoundsAssumption DEF LoopTypes
<1>5. out' \in Outs /\ out'.c \in Contents
  BY <1>2, <1>4 DEF Outs, RenderErrors
<1>6. LoopTypes' /\ Finished' /\ Tools' /\ pc' \in Running /\ outcome' = "none"
  BY <1>0, <1>3, <1>5 DEF LoopTypes, loopVars, Finished, Tools, Running
<1>7. CASE UNCHANGED <<showVars, images, imagesSent>>
  <2>1. Shown'
    BY <1>0, <1>3, <1>7, ShownKept DEF Model, loopVars
  <2>2. ReplyTypes'
    BY <1>0, <1>3, <1>7 DEF ReplyTypes
  <2> QED BY <1>6, <2>1, <2>2 DEF Inv, Going
<1>8. CASE \E k \in 1..n :
             /\ Render(RenderSpecs(c, k, "", FALSE), FALSE)
             /\ images' = Prefix(images, k) /\ imagesSent' = Prefix(imagesSent, k)
  <2>1. PICK k \in 1..n :
             /\ Render(RenderSpecs(c, k, "", FALSE), FALSE)
             /\ images' = Prefix(images, k) /\ imagesSent' = Prefix(imagesSent, k)
    BY <1>8
  <2>2. k \in 1..MaxSegments /\ k \in Nat
    BY <1>4, BoundsAssumption
  <2>3. Drawable(RenderSpecs(c, k, "", FALSE))
    BY <2>2, SpecsDrawable
  <2>4. Shown'
    BY <1>0, <1>3, <2>1, <2>3, ShownRender DEF loopVars
  <2>5. /\ images' \in Seq(Contents \cup {"plain"}) /\ Len(images') = Shorter(Len(images), k)
        /\ imagesSent' \in Seq(BOOLEAN) /\ Len(imagesSent') = Shorter(Len(imagesSent), k)
    BY <1>0, <2>1, <2>2, PrefixIs DEF ReplyTypes
  <2>6. Len(images) \in Nat /\ Len(images) <= MaxSegments /\ Len(imagesSent) = Len(images)
    BY <1>0, SeqIs DEF ReplyTypes
  <2>7. Len(images') <= MaxSegments /\ Len(imagesSent') = Len(images')
    BY <2>2, <2>5, <2>6, BoundsAssumption DEF Shorter
  <2>8. ReplyTypes'
    BY <1>0, <1>3, <2>5, <2>7 DEF ReplyTypes
  <2> QED BY <1>6, <2>4, <2>8 DEF Inv, Going
<1>9. CASE /\ n > 0 /\ RenderFails(RenderSpecs(c, n, "", FALSE), FALSE)
           /\ UNCHANGED <<images, imagesSent>>
  <2>1. Drawable(RenderSpecs(c, n, "", FALSE))
    <3>1. n \in 1..MaxSegments
      <4>1. n > 0
        BY <1>9, Zenon
      <4> QED BY <1>4, <4>1, BoundsAssumption
    <3> QED BY <3>1, SpecsDrawable
  <2>2. Shown'
    BY <1>0, <1>3, <1>9, <2>1, ShownFails DEF loopVars
  <2>3. ReplyTypes'
    BY <1>0, <1>3, <1>9 DEF ReplyTypes
  <2> QED BY <1>6, <2>2, <2>3 DEF Inv, Going
<1> QED BY <1>2, <1>7, <1>8, <1>9

\* Tables has one entry for each segment.
LEMMA TablesIs ==
    ASSUME ReplyTypes, out \in Outs, out.c \in Contents
    PROVE  /\ out.n \in 0..MaxSegments /\ out.n \in Nat /\ DOMAIN Tables = 1..out.n
           /\ \A i \in 1..out.n : Tables[i].text \in Contents \cup {"plain"}
                                  /\ Tables[i].sent \in BOOLEAN
<1>1. out.n \in 0..MaxSegments /\ out.n \in Nat
  <2>1. out.n \in 0..MaxSegments
    BY DEF Outs
  <2> QED BY <2>1, BoundsAssumption
<1>2. DOMAIN Tables = 1..out.n
  BY DEF Tables
<1>3. ASSUME NEW i \in 1..out.n
      PROVE Tables[i].text \in Contents \cup {"plain"} /\ Tables[i].sent \in BOOLEAN
  <2>1. CASE Len(images) # out.n \/ Len(imagesSent) # out.n
    BY <2>1 DEF Tables
  <2>2. CASE Len(images) = out.n /\ Len(imagesSent) = out.n
    <3>1. images[i] \in Contents \cup {"plain"} /\ imagesSent[i] \in BOOLEAN
      BY <2>2, SeqIs DEF ReplyTypes
    <3> QED BY <2>2, <3>1 DEF Tables
  <2> QED BY <2>1, <2>2
<1> QED BY <1>1, <1>2, <1>3

\* The end of a stream keeps its text; one without a text is an error.
LEMMA EndsIs ==
    ASSUME out \in Outs, StreamEnds
    PROVE  /\ out' \in Outs /\ out'.c = out.c /\ out'.n = out.n
           /\ out.n = 0 => out'.err # "none"
<1>1. PICK fin \in {"", "stop", "length"}, err \in {"none", "transient", "other", "previous"} :
       out' = [out EXCEPT !.fin = IF err # "none" /\ fin = "" THEN "error" ELSE fin,
                          !.err = IF err = "none" /\ out.n = 0 THEN "empty" ELSE err]
  BY DEF StreamEnds
<1> QED BY <1>1 DEF Outs

\* The final render of a round, with its tables and urls.
LEMMA FinalizeStep == ASSUME Inv, FinalizeRound PROVE Inv'
<1>0. /\ LoopTypes /\ ReplyTypes /\ Shown /\ outcome = "none" /\ pc = "ended"
      /\ out \in Outs /\ out.c \in Contents
  BY DEF Inv, Going, Running, FinalizeRound, Finished, LoopTypes
<1>1. /\ UNCHANGED <<loopVars, outcome>> /\ images' = [i \in DOMAIN Tables |-> Tables[i].text]
  BY DEF FinalizeRound
<1>2. /\ out.n \in 0..MaxSegments /\ out.n \in Nat /\ DOMAIN Tables = 1..out.n
      /\ \A i \in 1..out.n : Tables[i].text \in Contents \cup {"plain"}
                             /\ Tables[i].sent \in BOOLEAN
  BY <1>0, TablesIs
<1>3. images' \in Seq(Contents \cup {"plain"}) /\ Len(images') = out.n
  <2> DEFINE text(i) == Tables[i].text
  <2>1. \A i \in 1..out.n : text(i) \in Contents \cup {"plain"}
    BY <1>2
  <2>2. images' = [i \in 1..out.n |-> text(i)]
    BY <1>1, <1>2
  <2> HIDE DEF text
  <2>3. images' \in [1..out.n -> Contents \cup {"plain"}]
    BY <2>1, <2>2
  <2> QED BY <1>2, <2>3, SeqOf
<1>4. out.n <= MaxSegments /\ (out.n > 0 => out.n \in 1..MaxSegments)
  BY <1>2, BoundsAssumption
<1>5. ASSUME NEW fin
      PROVE  out.n > 0 => Drawable(FinalSpecs(fin)) /\ Len(FinalSpecs(fin)) = out.n
  <2> SUFFICES ASSUME out.n > 0
               PROVE  Drawable(FinalSpecs(fin)) /\ Len(FinalSpecs(fin)) = out.n
    OBVIOUS
  <2>1. out.n \in 1..MaxSegments
    BY <1>4
  <2>2. out.c \in Contents
    BY <1>0
  <2>3. \A c \in Contents, n \in 1..MaxSegments :
          Drawable(RenderSpecs(c, n, fin, TRUE)) /\ Len(RenderSpecs(c, n, fin, TRUE)) = n
    BY SpecsDrawable
  <2> QED BY <2>1, <2>2, <2>3 DEF FinalSpecs
<1>6. CASE /\ out.n = 0 /\ StreamEnds /\ pc' = "judge" /\ imagesSent' = <<>>
           /\ UNCHANGED <<showVars, stale, claimed, links>>
  <2>1. out' \in Outs /\ out'.err # "none"
    BY <1>0, <1>6, EndsIs
  <2>2. LoopTypes' /\ Finished' /\ Tools'
    BY <1>0, <1>1, <1>6, <2>1 DEF LoopTypes, loopVars, Finished, Tools
  <2>3. ReplyTypes'
    <3>1. imagesSent' \in Seq(BOOLEAN) /\ Len(imagesSent') = 0
      BY <1>6
    <3> QED BY <1>0, <1>3, <1>4, <1>6, <3>1 DEF ReplyTypes
  <2>4. Shown'
    BY <1>0, <1>1, <1>6, ShownKept DEF Model, loopVars
  <2> QED BY <1>0, <1>1, <1>6, <2>2, <2>3, <2>4 DEF Inv, Going, Running
<1>7. CASE /\ out.n > 0 /\ StreamEnds /\ pc' = "judge"
           /\ \E specs \in {FinalSpecs(out'.fin)} : Render(specs, TRUE)
           /\ SendTables /\ SendLinks
  <2>1. out' \in Outs /\ out'.c = out.c /\ out'.n = out.n
    BY <1>0, <1>7, EndsIs
  <2>2. Render(FinalSpecs(out'.fin), TRUE)
    BY <1>7
  <2>3. Shown' /\ card' = "settled" /\ rendered' = FinalSpecs(out'.fin)
        /\ Len(messages') = out.n
    BY <1>0, <1>1, <1>5, <1>7, <2>2, ShownRender DEF loopVars
  <2>4. LoopTypes' /\ Finished' /\ Tools'
    BY <1>0, <1>1, <1>7, <2>1, <2>3 DEF LoopTypes, loopVars, Finished, Tools, FinalSpecs
  <2>5. imagesSent' \in Seq(BOOLEAN) /\ Len(imagesSent') = out.n /\ stale' \in BOOLEAN
    <3>1. PICK ok :
             /\ stale' = (stale \/ \E i \in ok : Tables[i].text # out.c)
             /\ \E more : imagesSent' = [i \in DOMAIN Tables |-> Tables[i].sent \/ i \in more]
      <4> DEFINE due == {i \in DOMAIN Tables : out'.fin = "stop" /\ ~Tables[i].sent}
                 bare == {i \in due : Tables[i].text = "plain"}
      <4>1. PICK ok \in SUBSET (due \ bare) :
             /\ stale' = (stale \/ \E i \in ok : Tables[i].text # out.c)
             /\ imagesSent' = [i \in DOMAIN Tables |-> Tables[i].sent \/ i \in ok \cup bare]
        BY <1>7 DEF SendTables
      <4> HIDE DEF due, bare
      <4> QED BY <4>1
    <3>2. PICK more : imagesSent' = [i \in DOMAIN Tables |-> Tables[i].sent \/ i \in more]
      BY <3>1
    <3>3. imagesSent' \in [1..out.n -> BOOLEAN]
      BY <1>2, <3>2, Zenon
    <3>4. stale' \in BOOLEAN
      BY <3>1
    <3> QED BY <1>2, <3>3, <3>4, SeqOf
  <2>6. claimed' \in BOOLEAN /\ (links' = 0 \/ (links' = 1 /\ claimed'))
    <3>1. /\ claimed' = (claimed \/ out.c = Linked)
          /\ links' \in IF out.c = Linked /\ ~claimed THEN {links, links + 1} ELSE {links}
      BY <1>7 DEF SendLinks
    <3>2. claimed \in BOOLEAN /\ (links = 0 \/ (links = 1 /\ claimed))
      BY <1>0 DEF ReplyTypes
    <3>3. CASE out.c = Linked /\ ~claimed
      <4>1. links' \in {links, links + 1}
        BY <3>1, <3>3, Zenon
      <4>2. links = 0
        BY <3>2, <3>3, Zenon
      <4>3. links' = 0 \/ links' = 1
        BY <4>1, <4>2
      <4>4. claimed' = TRUE
        BY <3>1, <3>3, Zenon
      <4> QED BY <4>3, <4>4, Zenon
    <3>4. CASE ~(out.c = Linked /\ ~claimed)
      BY <3>1, <3>2, <3>4, Zenon
    <3> QED BY <3>3, <3>4
  <2>7. ReplyTypes'
    BY <1>3, <1>4, <2>5, <2>6 DEF ReplyTypes
  <2> QED BY <1>0, <1>1, <1>7, <2>3, <2>4, <2>7 DEF Inv, Going, Running
<1>8. CASE /\ out.n > 0
           /\ \E fin \in {"", "stop", "length", "error"} :
               \/ /\ RenderFails(FinalSpecs(fin), TRUE) /\ pc' = "judge"
                  /\ \E err \in RenderErrors : out' = [out EXCEPT !.fin = fin, !.err = err]
               \/ RenderPanics(FinalSpecs(fin)) /\ pc' = "panicked" /\ UNCHANGED out
           /\ imagesSent' = [i \in DOMAIN Tables |-> Tables[i].sent]
           /\ UNCHANGED <<stale, claimed, links>>
  <2>1. PICK fin \in {"", "stop", "length", "error"} :
               \/ /\ RenderFails(FinalSpecs(fin), TRUE) /\ pc' = "judge"
                  /\ \E err \in RenderErrors : out' = [out EXCEPT !.fin = fin, !.err = err]
               \/ RenderPanics(FinalSpecs(fin)) /\ pc' = "panicked" /\ UNCHANGED out
    BY <1>8
  <2>2. Shown' /\ card' = "settled"
    BY <1>0, <1>1, <1>5, <1>8, <2>1, ShownFails, ShownPanics DEF loopVars
  <2>3. imagesSent' \in [1..out.n -> BOOLEAN]
    <3> DEFINE sent(i) == Tables[i].sent
    <3>1. \A i \in 1..out.n : sent(i) \in BOOLEAN
      BY <1>2
    <3>2. imagesSent' = [i \in 1..out.n |-> sent(i)]
      BY <1>2, <1>8
    <3> HIDE DEF sent
    <3> QED BY <3>1, <3>2
  <2>4. imagesSent' \in Seq(BOOLEAN) /\ Len(imagesSent') = out.n
    BY <1>2, <2>3, SeqOf
  <2>5. ReplyTypes'
    BY <1>0, <1>3, <1>4, <1>8, <2>4 DEF ReplyTypes
  <2>6. CASE pc' = "judge" /\ \E err \in RenderErrors : out' = [out EXCEPT !.fin = fin, !.err = err]
    <3>1. out' \in Outs /\ out'.err # "none"
      BY <1>0, <2>6 DEF Outs, RenderErrors
    <3>2. LoopTypes' /\ Finished' /\ Tools'
      BY <1>0, <1>1, <2>6, <3>1 DEF LoopTypes, loopVars, Finished, Tools
    <3> QED BY <1>0, <1>1, <2>2, <2>5, <2>6, <3>2 DEF Inv, Going, Running
  <2>7. CASE pc' = "panicked" /\ UNCHANGED out
    <3>1. LoopTypes' /\ Finished' /\ Tools'
      BY <1>0, <1>1, <2>7 DEF LoopTypes, loopVars, Finished, Tools
    <3>2. Settled' = messages'
      BY <2>2 DEF Settled
    <3>3. outcome' = "none"
      BY <1>0, <1>1
    <3>4. Ended'
      BY <2>2, <2>7, <3>2, <3>3
      DEF Ended, Shown, Board, SuccessShowsAnswer, FailureComesLast
    <3> QED BY <2>5, <2>7, <3>1, <3>4 DEF Inv, Going, Running
  <2> QED BY <2>1, <2>6, <2>7
<1> QED BY <1>6, <1>7, <1>8 DEF FinalizeRound

-----------------------------------------------------------------------------
(* The fallback model, and the ends of a reply.                            *)

\* The fallback model begins anew: nothing is recorded of what is shown.
LEMMA FallbackStep == ASSUME Inv, AttemptFallback PROVE Inv'
<1>0. /\ LoopTypes /\ ReplyTypes /\ Shown /\ outcome = "none"
  BY DEF Inv, Going, Running, AttemptFallback
<1>1. /\ stage' = "fallback" /\ pc' = "round" /\ out' = NoOut
      /\ UNCHANGED <<phase, prefill, streams, unoffered>>
      /\ hasTools' \in BOOLEAN /\ ignores' \in {FALSE, hasTools'}
      /\ rendered' = <<>> /\ images' = <<>> /\ imagesSent' = <<>>
      /\ UNCHANGED <<messages, locked, card, progressActive, failures, doubted, stale,
                   claimed, links, outcome>>
  BY DEF AttemptFallback, BeginAttempt
<1>2. LoopTypes'
  <2>1. ignores' \in BOOLEAN
    BY <1>1, Zenon
  <2> QED BY <1>0, <1>1, <2>1, OutsIs DEF LoopTypes
<1>3. Finished' /\ Tools' /\ pc' \in Running
  BY <1>1 DEF Finished, Tools, Running
<1>4. ReplyTypes'
  <2>1. images' \in Seq(Contents \cup {"plain"}) /\ imagesSent' \in Seq(BOOLEAN)
        /\ Len(images') = 0 /\ Len(imagesSent') = 0 /\ 0 <= MaxSegments
    BY <1>1, BoundsAssumption
  <2> QED BY <1>0, <1>1, <2>1 DEF ReplyTypes
<1>5. rendered' \in Seq(Specs) /\ Len(rendered') = 0 /\ 0 <= MaxSegments
  BY <1>1, BoundsAssumption
<1>6. Len(messages') \in Nat /\ \A i \in 1..Len(messages') : ~(i <= Len(rendered'))
  BY <1>0, <1>1, <1>5, SeqIs DEF Shown, Board
<1>7. Shown'
  <2>1. Board' /\ CardFirst' /\ ActiveAlone'
    BY <1>0, <1>1, <1>5
    DEF Shown, Board, CardFirst, ActiveAlone, Settled, SettledActive
  <2>2. Recorded'
    BY <1>6 DEF Recorded
  <2>3. locked' = DOMAIN Settled'
    BY <1>0, <1>1 DEF Shown, Settled
  <2> QED BY <2>1, <2>2, <2>3 DEF Shown
<1> QED BY <1>0, <1>1, <1>2, <1>3, <1>4, <1>7 DEF Inv, Going

\* A reply succeeds only after the round that rendered all of its text.
LEMMA SucceedStep == ASSUME Inv, Succeed PROVE Inv'
<1>0. /\ LoopTypes /\ ReplyTypes /\ Shown /\ pc = "attempt" /\ out.err = "none" /\ ~out.tool
      /\ card = "settled" /\ Len(messages) = out.n /\ rendered = FinalSpecs(out.fin)
      /\ outcome' = "answered" /\ pc' = "release"
      /\ UNCHANGED <<loopVars, out, showVars, replyVars>>
  BY DEF Inv, Going, Running, Finished, Tools, Succeed
<1>1. LoopTypes' /\ ReplyTypes' /\ Finished' /\ Tools'
  BY <1>0 DEF LoopTypes, loopVars, ReplyTypes, replyVars, Finished, Tools
<1>2. /\ Board /\ Recorded /\ Settled = messages
  BY <1>0 DEF Shown, Settled
<1>3. DOMAIN messages = 1..Len(messages) /\ Len(messages) \in Nat
      /\ Len(rendered) \in Nat /\ DOMAIN rendered = 1..Len(rendered)
  BY <1>2, SeqIs DEF Board
<1>4. Len(rendered) = out.n
  <2>1. DOMAIN rendered = 1..out.n
    BY <1>0 DEF FinalSpecs, RenderSpecs
  <2>2. out.n \in Nat
    <3>1. out.n \in 0..MaxSegments
      BY <1>0 DEF LoopTypes, Outs
    <3> QED BY <3>1, BoundsAssumption
  <2>3. rendered \in [1..out.n -> Specs]
    BY <1>2, <2>1, SeqIs DEF Board
  <2> QED BY <2>2, <2>3, SeqOf
<1>5. SuccessShowsAnswer'
  <2> SUFFICES ASSUME NEW i \in DOMAIN messages, i \notin doubted
               PROVE  messages[i].spec = rendered[i] /\ messages[i].model = Model
    BY <1>0, <1>4
    DEF SuccessShowsAnswer, FinalSpecs, showVars, loopVars, Model
  <2>1. messages[i] = Shows(rendered, i)
    BY <1>0, <1>2, <1>3, <1>4 DEF Recorded
  <2> QED BY <2>1 DEF Shows
<1>6. Ended'
  <2>1. Len(messages') <= MaxSegments + 1
    BY <1>0, <1>2, <1>3, BoundsAssumption DEF Board, showVars
  <2> QED BY <1>0, <1>2, <1>5, <2>1 DEF Ended, Shown, Board, FailureComesLast, showVars
<1> QED BY <1>0, <1>1, <1>6 DEF Inv, Going, Running

\* A failure replaces the card, which is then the only message.
LEMMA FailStep == ASSUME Inv, Fail PROVE Inv'
<1>0. /\ LoopTypes /\ ReplyTypes /\ Shown /\ pc = "attempt" /\ outcome = "none"
      /\ card' = "settled" /\ progressActive' = FALSE
      /\ UNCHANGED <<loopVars, out, locked, failures, doubted, rendered, replyVars>>
      /\ \/ /\ SettledActive
            /\ messages' = [Settled EXCEPT ![1] = [spec |-> Failure, model |-> Model]]
            /\ \/ pc' = "release" /\ outcome' = "failed"
               \/ pc' = "failSend" /\ UNCHANGED outcome
         \/ /\ pc' = "failSend" /\ messages' = Settled /\ UNCHANGED outcome
  BY DEF Inv, Going, Running, Fail
<1>1. LoopTypes' /\ ReplyTypes' /\ Finished' /\ Tools'
  BY <1>0 DEF LoopTypes, loopVars, ReplyTypes, replyVars, Finished, Tools
<1>2. /\ Settled \in Seq(Messages) /\ Len(Settled) \in Nat /\ Len(Settled) <= MaxSegments
      /\ DOMAIN Settled = 1..Len(Settled) /\ doubted \subseteq 1..Len(Settled)
      /\ MaxSegments <= MaxSegments + 1 /\ MaxSegments \in Nat
  BY <1>0, SettledIs, BoundsAssumption
<1>3. /\ messages' \in Seq(Messages) /\ Len(messages') = Len(Settled)
      /\ DOMAIN messages' = DOMAIN Settled
  <2>1. CASE messages' = Settled
    BY <1>2, <2>1
  <2>2. CASE messages' = [Settled EXCEPT ![1] = [spec |-> Failure, model |-> Model]]
    <3>1. [spec |-> Failure, model |-> Model] \in Messages
      BY DEF Messages, Specs, Model
    <3>2. messages' \in [1..Len(Settled) -> Messages]
      BY <1>2, <2>2, <3>1, SeqIs
    <3> QED BY <1>2, <3>2, SeqOf
  <2> QED BY <1>0, <2>1, <2>2
<1>4. FailureComesLast'
  <2> SUFFICES ASSUME outcome' = "failed" PROVE messages'[Len(messages')].spec = Failure
    BY DEF FailureComesLast
  <2>1. SettledActive /\ messages' = [Settled EXCEPT ![1] = [spec |-> Failure, model |-> Model]]
    BY <1>0
  <2>2. Len(Settled) = 1
    BY <1>0, <2>1 DEF Shown, ActiveAlone
  <2> QED BY <1>2, <1>3, <2>1, <2>2
<1>5. Ended'
  <2>1. pc' \in {"release", "failSend"} /\ outcome' \in {"none", "failed"}
        /\ (pc' = "failSend" => outcome' = "none")
    BY <1>0
  <2>2. SuccessShowsAnswer'
    BY <2>1 DEF SuccessShowsAnswer
  <2>3. Len(messages') <= MaxSegments /\ Len(messages') <= MaxSegments + 1
    BY <1>2, <1>3
  <2>4. locked' = DOMAIN messages' /\ doubted' \subseteq DOMAIN messages'
    BY <1>0, <1>2, <1>3 DEF Shown
  <2> QED BY <1>0, <1>3, <1>4, <2>1, <2>2, <2>3, <2>4 DEF Ended, Shown, Board
<1> QED BY <1>0, <1>1, <1>5 DEF Inv, Going, Running

\* Or it is sent after what is shown.
LEMMA SendFailureStep == ASSUME Inv, SendFailure PROVE Inv'
<1>0. /\ LoopTypes /\ ReplyTypes /\ Ended /\ pc = "failSend" /\ pc' = "release"
      /\ \/ /\ messages' = Append(messages, [spec |-> Failure, model |-> Model])
            /\ locked' = locked \cup {Len(messages) + 1}
            /\ outcome' = "failed"
         \/ outcome' = "unseen" /\ UNCHANGED <<messages, locked>>
      /\ UNCHANGED <<loopVars, out, card, progressActive, failures, doubted, rendered, replyVars>>
  BY DEF Inv, Going, Running, SendFailure
<1>1. LoopTypes' /\ ReplyTypes' /\ Finished' /\ Tools'
  BY <1>0 DEF LoopTypes, loopVars, ReplyTypes, replyVars, Finished, Tools
<1>2. /\ messages \in Seq(Messages) /\ Len(messages) \in Nat /\ Len(messages) <= MaxSegments
      /\ DOMAIN messages = 1..Len(messages) /\ MaxSegments \in Nat
      /\ locked = DOMAIN messages /\ doubted \subseteq DOMAIN messages
  BY <1>0, SeqIs, BoundsAssumption DEF Ended
<1>3. CASE /\ messages' = Append(messages, [spec |-> Failure, model |-> Model])
           /\ locked' = locked \cup {Len(messages) + 1} /\ outcome' = "failed"
  <2>1. [spec |-> Failure, model |-> Model] \in Messages
    BY DEF Messages, Specs, Model
  <2>2. /\ messages' \in Seq(Messages) /\ Len(messages') = Len(messages) + 1
        /\ messages'[Len(messages) + 1] = [spec |-> Failure, model |-> Model]
    BY <1>2, <1>3, <2>1, AppendProperties
  <2>3. DOMAIN messages' = 1..(Len(messages) + 1)
    BY <2>2, SeqIs
  <2>4. locked' = DOMAIN messages' /\ doubted' \subseteq DOMAIN messages'
        /\ Len(messages') <= MaxSegments + 1
    BY <1>0, <1>2, <1>3, <2>2, <2>3
  <2>5. FailureComesLast' /\ SuccessShowsAnswer'
    BY <1>3, <2>2 DEF FailureComesLast, SuccessShowsAnswer
  <2>6. Ended'
    BY <1>0, <1>3, <2>2, <2>4, <2>5 DEF Ended
  <2> QED BY <1>0, <1>1, <2>6 DEF Inv, Going, Running
<1>4. CASE outcome' = "unseen" /\ UNCHANGED <<messages, locked>>
  <2>1. FailureComesLast' /\ SuccessShowsAnswer'
    BY <1>4 DEF FailureComesLast, SuccessShowsAnswer
  <2>2. Len(messages') <= MaxSegments + 1
    BY <1>2, <1>4
  <2>3. Ended'
    BY <1>0, <1>2, <1>4, <2>1, <2>2 DEF Ended
  <2> QED BY <1>0, <1>1, <2>3 DEF Inv, Going, Running
<1> QED BY <1>0, <1>3, <1>4

\* Release unlocks every node.
LEMMA ReleaseStep == ASSUME Inv, Release PROVE Inv'
<1>0. /\ LoopTypes /\ ReplyTypes /\ Ended /\ pc = "release" /\ pc' = "done"
      /\ messages' = Settled /\ card' = "settled" /\ progressActive' = SettledActive
      /\ locked' = locked \ DOMAIN Settled
      /\ UNCHANGED <<loopVars, out, failures, doubted, rendered, replyVars, outcome>>
  BY DEF Inv, Going, Running, Release
<1>1. LoopTypes' /\ ReplyTypes' /\ Finished' /\ Tools'
  BY <1>0 DEF LoopTypes, loopVars, ReplyTypes, replyVars, Finished, Tools
<1>2. Settled = messages /\ SettledActive = progressActive
  BY <1>0 DEF Ended, Settled, SettledActive
<1>3. locked' = {} /\ messages' = messages
  BY <1>0, <1>2 DEF Ended
<1>4. SuccessShowsAnswer' /\ FailureComesLast'
  BY <1>0, <1>3 DEF Ended, SuccessShowsAnswer, FailureComesLast, Model, loopVars
<1>5. Ended'
  BY <1>0, <1>2, <1>3, <1>4 DEF Ended
<1> QED BY <1>0, <1>1, <1>5 DEF Inv, Going, Running

\* Every step keeps the invariant.
LEMMA NextInv == ASSUME Inv, [Next]_vars PROVE Inv'
<1>1. CASE UNCHANGED vars
  <2>1. UNCHANGED <<pc, loopVars, out, showVars, replyVars, outcome>>
    BY <1>1 DEF vars
  <2>2. LoopTypes' /\ ReplyTypes' /\ Finished' /\ Tools'
    <3>1. LoopTypes' /\ Tools'
      BY <2>1 DEF Inv, LoopTypes, loopVars, Tools
    <3>2. ReplyTypes'
      BY <2>1 DEF Inv, ReplyTypes, replyVars
    <3>3. Finished'
      BY <2>1 DEF Inv, Finished, showVars, FinalSpecs
    <3> QED BY <3>1, <3>2, <3>3
  <2>3. CASE pc \in Running
    BY <2>1, <2>2, <2>3, ShownKept DEF Inv, Going, Model, loopVars
  <2>4. CASE pc \notin Running
    BY <2>1, <2>2, <2>4
    DEF Inv, Going, Ended, showVars, SuccessShowsAnswer, FailureComesLast, Model, loopVars
  <2> QED BY <2>3, <2>4
<1>2. CASE PostCard BY <1>2, PostCardStep
<1>3. CASE Stream BY <1>3, StreamStep
<1>4. CASE FinalizeRound BY <1>4, FinalizeStep
<1>5. CASE Retry \/ RetryUnoffered \/ EndRound \/ Search \/ AnswerWithoutTools
              \/ EndAttempt \/ EndToolRound \/ RetryStateless
  BY <1>5, LoopStep
<1>6. CASE AttemptFallback BY <1>6, FallbackStep
<1>7. CASE Succeed BY <1>7, SucceedStep
<1>8. CASE Fail BY <1>8, FailStep
<1>9. CASE SendFailure BY <1>9, SendFailureStep
<1>10. CASE Release BY <1>10, ReleaseStep
<1> QED
  BY <1>1, <1>2, <1>3, <1>4, <1>5, <1>6, <1>7, <1>8, <1>9, <1>10 DEF Next, Reply

\* The invariant holds throughout.
LEMMA Inductive == Spec => []Inv
BY InitInv, NextInv, PTL DEF Spec

-----------------------------------------------------------------------------
\* It implies the type invariant.
LEMMA InvTypes == Inv => TypeOK
<1> SUFFICES ASSUME Inv PROVE TypeOK
  OBVIOUS
<1>1. LoopTypes /\ ReplyTypes
  BY DEF Inv
<1>2. links \in Nat
  BY <1>1 DEF ReplyTypes
<1>3. CASE pc \in Running
  <2>1. Shown /\ outcome = "none"
    BY <1>3 DEF Inv, Going
  <2>2. /\ messages \in Seq(Messages) /\ Len(messages) \in Nat /\ Len(messages) <= MaxSegments
        /\ Len(Settled) \in Nat /\ Len(Settled) <= MaxSegments
        /\ DOMAIN Settled = 1..Len(Settled)
        /\ MaxSegments \in Nat
    BY <2>1, SettledIs, SeqIs, BoundsAssumption DEF Shown, Board
  <2>3. Len(messages) <= MaxSegments + 1 /\ DOMAIN Settled \subseteq 1..(MaxSegments + 1)
    BY <2>2
  <2> QED BY <1>1, <1>2, <2>1, <2>3 DEF TypeOK, LoopTypes, ReplyTypes, Shown, Board
<1>4. CASE pc \notin Running
  <2>1. Ended
    BY <1>4 DEF Inv, Going
  <2>2. /\ Len(messages) \in Nat /\ DOMAIN messages = 1..Len(messages)
        /\ MaxSegments \in Nat
    BY <2>1, SeqIs, BoundsAssumption DEF Ended
  <2>3. Len(messages) <= MaxSegments + 1
    BY <2>1, <2>2 DEF Ended
  <2>4. locked \subseteq 1..(MaxSegments + 1)
    BY <2>1, <2>2, <2>3 DEF Ended
  <2> QED BY <1>1, <1>2, <2>1, <2>3, <2>4 DEF TypeOK, LoopTypes, ReplyTypes, Ended
<1> QED BY <1>3, <1>4

\* Every variable has its type, for any bound: no render, retry or failure makes
\* the tracker grow beyond one message for each segment and one for the failure.
THEOREM TypesHold == Spec => []TypeOK
BY Inductive, InvTypes, PTL

\* While a reply runs, exactly the nodes of its messages and of its card are
\* locked, however its renders fail and even if one panics, and none is when the
\* reply has come to its end.
THEOREM PendingAreLocked == Spec => []LockedArePending
<1>1. Inv => LockedArePending
  <2> SUFFICES ASSUME Inv PROVE LockedArePending
    OBVIOUS
  <2>1. CASE pc \in Running
    <3>1. Shown
      BY <2>1 DEF Inv, Going
    <3>2. CASE card = "posted"
      BY <2>1, <3>1, <3>2, SeqIs
      DEF LockedArePending, Shown, Board, CardFirst, Settled, Running
    <3>3. CASE card # "posted"
      BY <2>1, <3>1, <3>3 DEF LockedArePending, Shown, Settled, Running
    <3> QED BY <3>2, <3>3
  <2>2. CASE pc \notin Running
    BY <2>2 DEF Inv, Going, Ended, LockedArePending
  <2> QED BY <2>1, <2>2
<1> QED BY <1>1, Inductive, PTL

\* An answered reply shows its last text, complete and under the right model,
\* whatever the rounds before it rendered, retried or lost.
THEOREM AnswerIsShown == Spec => []SuccessShowsAnswer
<1>1. Inv => SuccessShowsAnswer
  BY DEF Inv, Going, Ended, SuccessShowsAnswer
<1> QED BY <1>1, Inductive, PTL

\* The failure card is the last message of a reply that failed.
THEOREM FailureIsLast == Spec => []FailureComesLast
<1>1. Inv => FailureComesLast
  BY DEF Inv, Going, Ended, FailureComesLast
<1> QED BY <1>1, Inductive, PTL

\* An url is posted at most once, however often its text is finalized.
THEOREM UrlOnce == Spec => []LinkOnce
<1>1. Inv => LinkOnce
  BY DEF Inv, ReplyTypes, LinkOnce
<1> QED BY <1>1, Inductive, PTL
=============================================================================
