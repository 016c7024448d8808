---------------------------- MODULE Providers_proofs ----------------------------
(***************************************************************************)
(* Theorems about the two parts of MC_Providers that need no recursion.    *)
(*                                                                         *)
(* ChatRouter, for any number of prompts, keys and rounds, any budgets and *)
(* however small the images can be made: the types, that the content of    *)
(* one request at most is shown, and that no key is left untried when a    *)
(* provider that showed nothing gives up.                                  *)
(*                                                                         *)
(* ProviderWire, for any contents, calls and turns: that a follow-up only  *)
(* adds to what the model read before, and that the model reads the whole  *)
(* conversation once.                                                      *)
(***************************************************************************)
EXTENDS ChatRouter, ProviderWire, TLAPS, FiniteSetTheorems, SequenceTheorems


-----------------------------------------------------------------------------
(* Attempts.                                                               *)

\* The larger of two numbers.
LEMMA MaxOfTwo == ASSUME NEW m \in Nat, NEW n \in Nat
                  PROVE  /\ Max({m, n}) \in {m, n}
                         /\ Max({m, n}) >= m /\ Max({m, n}) >= n
<1>1. \E x \in {m, n} : \A y \in {m, n} : x >= y
  <2>1. CASE m >= n BY <2>1
  <2>2. CASE n >= m BY <2>2
  <2> QED BY <2>1, <2>2
<1> QED BY <1>1 DEF Max

\* Every outcome is worth an attempt with each key, and at least one.
LEMMA AttemptsSuffice ==
    ASSUME NEW o \in Ends
    PROVE  Attempts(o) \in Nat /\ Attempts(o) >= NumKeys
<1>1. CASE o \in DOMAIN Budget
  <2>1. Budget[o] \in Nat /\ NumKeys \in Nat
    BY <1>1, RouterAssumption
  <2> QED BY <1>1, <2>1, MaxOfTwo DEF Attempts
<1>2. CASE o \notin DOMAIN Budget
  BY <1>2, MaxOfTwo, RouterAssumption DEF Attempts
<1> QED BY <1>1, <1>2

Most == Max({Attempts(o) : o \in Ends})

\* No outcome is worth more attempts than Most.
LEMMA MostAttempts == Most \in Nat /\ \A o \in Ends : Attempts(o) <= Most
<1> DEFINE S == {Attempts(o) : o \in Ends}
<1>1. S = {Attempts("clean"), Attempts("broken"), Attempts("queueFull"),
           Attempts("tooLarge"), Attempts("refused")}
  BY DEF Ends
<1>2. /\ Attempts("clean") \in Nat /\ Attempts("broken") \in Nat
      /\ Attempts("queueFull") \in Nat /\ Attempts("tooLarge") \in Nat
      /\ Attempts("refused") \in Nat
  BY AttemptsSuffice DEF Ends
<1> HIDE DEF S
<1>3. \E x \in S : \A y \in S : x >= y
  BY <1>1, <1>2
<1>4. Max(S) \in S /\ \A y \in S : Max(S) >= y
  BY <1>3 DEF Max
<1>5. S \subseteq Nat
  BY <1>1, <1>2
<1> QED BY <1>4, <1>5 DEF Most, S

\* "refused" is worth an attempt, so there is always a first one.
LEMMA FirstAttempt == 1 <= Most
<1>1. Attempts("refused") >= 1
  <2>1. "refused" \notin DOMAIN Budget
    BY RouterAssumption
  <2> QED BY <2>1, MaxOfTwo, RouterAssumption DEF Attempts
<1>2. Attempts("refused") \in Nat
  BY AttemptsSuffice DEF Ends
<1> QED BY <1>1, <1>2, MostAttempts DEF Ends

\* Keys in turn: n attempts in a row, wherever they start, use n of n keys.
LEMMA Turns == ASSUME NEW f \in Keys, NEW k \in Keys
               PROVE  \E a \in 1 .. NumKeys : (f + a - 1) % NumKeys = k
<1>1. NumKeys \in Nat /\ NumKeys > 0 /\ f \in 0 .. NumKeys - 1 /\ k \in 0 .. NumKeys - 1
  BY RouterAssumption DEF Keys
<1>2. CASE f <= k
  <2>1. k % NumKeys = k
    BY <1>1
  <2>2. f + (k - f + 1) - 1 = k /\ k - f + 1 \in 1 .. NumKeys
    BY <1>1, <1>2
  <2> QED BY <2>1, <2>2
<1>3. CASE k < f
  <2>1. (k + NumKeys) % NumKeys = k
    BY <1>1
  <2>2. f + (k + NumKeys - f + 1) - 1 = k + NumKeys /\ k + NumKeys - f + 1 \in 1 .. NumKeys
    BY <1>1, <1>3
  <2> QED BY <2>1, <2>2
<1> QED BY <1>1, <1>2, <1>3

-----------------------------------------------------------------------------
(* The inductive invariant.                                                *)

\* The round takes the content of the request under way and of no other; the
\* router knows whether it has.
OfThisRequest == \A p \in Prompts :
    shown[p] \subseteq {Ask(p)} /\ (sent[p] <=> shown[p] # {})

\* The attempts made so far went out with the keys that follow the first.
KeysInTurn == NumKeys > 0 =>
    \A p \in Prompts, a \in Nat :
        /\ 1 <= a
        /\ a < attempt[p] \/ (a = attempt[p] /\ pc[p] \in {"stream", "returned"})
        => (first[p] + a - 1) % NumKeys \in tried[p]

\* The router returns with content, or when every key had an attempt.
GivesUpLate == \A p \in Prompts :
    pc[p] = "returned" => shown[p] # {} \/ attempt[p] >= NumKeys

IInv == RouterTypes /\ OfThisRequest /\ KeysInTurn /\ GivesUpLate

LEMMA InitIInv == RouterInit => IInv
<1> SUFFICES ASSUME RouterInit PROVE IInv
  OBVIOUS
<1>1. RouterTypes
  <2>1. \A p \in Prompts : Ask(p) \in Requests /\ shrunk[p] + shrinks[p] \in 0 .. MaxShrinks
    BY FirstAttempt, MostAttempts, RouterAssumption DEF RouterInit, Ask, Requests, Most
  <2> QED BY <2>1, RouterAssumption DEF RouterInit, RouterTypes, Places
<1>2. OfThisRequest /\ GivesUpLate
  BY DEF RouterInit, OfThisRequest, GivesUpLate
<1>3. KeysInTurn
  BY DEF RouterInit, KeysInTurn
<1> QED BY <1>1, <1>2, <1>3 DEF IInv

-----------------------------------------------------------------------------
(* Every step keeps it.                                                    *)

LEMMA StartKeeps == ASSUME IInv, NEW p \in Prompts, StartRound(p) PROVE IInv'
<1> USE DEF IInv
<1>1. Rotated \in Keys \cup {0}
  BY RouterAssumption DEF RouterTypes, Rotated, Keys
<1>2. RouterTypes'
  <2>1. Ask(p)' = <<1, 0>>
    BY DEF StartRound, RouterTypes, Ask
  <2>2. <<1, 0>> \in Requests
    BY FirstAttempt, MostAttempts, RouterAssumption DEF Requests, Most
  <2>3. \A q \in Prompts \ {p} : Ask(q)' = Ask(q) /\ shrunk'[q] = shrunk[q]
    BY DEF StartRound, RouterTypes, Ask
  <2>4. shrunk'[p] = 0 /\ shrinks' = shrinks
    BY DEF StartRound, RouterTypes
  <2>5. \A q \in Prompts : Ask(q)' \in Requests /\ shrunk'[q] + shrinks'[q] \in 0 .. MaxShrinks
    BY <2>1, <2>2, <2>3, <2>4 DEF RouterTypes
  <2>6. attempt' \in [Prompts -> Nat] /\ shrunk' \in [Prompts -> Nat]
    BY DEF StartRound, RouterTypes
  <2>7. shown' \in [Prompts -> SUBSET Requests] /\ finish' \in [Prompts -> SUBSET Requests]
    BY DEF StartRound, RouterTypes
  <2> QED BY <1>1, <2>5, <2>6, <2>7 DEF StartRound, RouterTypes, Places
<1>3. OfThisRequest' /\ GivesUpLate'
  BY DEF StartRound, RouterTypes, OfThisRequest, GivesUpLate, Ask
<1>4. KeysInTurn'
  BY DEF StartRound, RouterTypes, KeysInTurn
<1> QED BY <1>2, <1>3, <1>4

\* What holds of the requests when no prompt makes another one.
LEMMA SameRequests ==
    ASSUME IInv, UNCHANGED <<attempt, shrunk, shrinks>>
    PROVE  \A q \in Prompts : /\ Ask(q)' = Ask(q) /\ Ask(q)' \in Requests
                              /\ shrunk'[q] + shrinks'[q] \in 0 .. MaxShrinks
BY DEF IInv, RouterTypes, Ask

LEMMA SendKeeps == ASSUME IInv, NEW p \in Prompts, Send(p) PROVE IInv'
<1> USE DEF IInv
<1>1. UNCHANGED <<attempt, shrunk, shrinks, first, taken, round, kind, nextIndex, outcome>>
  BY DEF Send
<1>2. NumKeys > 0 => KeyOf(p) \in Keys
  BY RouterAssumption DEF RouterTypes, KeyOf, Keys
<1>3. tried' \in [Prompts -> SUBSET Keys]
  BY <1>2, RouterAssumption DEF Send, RouterTypes
<1>4. RouterTypes'
  BY <1>1, <1>3, SameRequests DEF Send, RouterTypes, Places, taken
<1>5. OfThisRequest' /\ GivesUpLate'
  BY <1>1, SameRequests DEF Send, RouterTypes, OfThisRequest, GivesUpLate, taken
<1>6. KeysInTurn'
  <2> SUFFICES ASSUME NumKeys > 0, NEW q \in Prompts, NEW a \in Nat, 1 <= a,
                      a < attempt[q] \/ (a = attempt[q] /\ pc'[q] \in {"stream", "returned"})
               PROVE  (first[q] + a - 1) % NumKeys \in tried'[q]
    BY <1>1 DEF KeysInTurn
  <2>1. CASE q # p
    BY <2>1 DEF Send, RouterTypes, KeysInTurn
  <2>2. CASE q = p /\ a = attempt[q]
    BY <2>2 DEF Send, RouterTypes, KeyOf
  <2>3. CASE q = p /\ a < attempt[q]
    <3>1. (first[q] + a - 1) % NumKeys \in tried[q]
      BY <2>3 DEF KeysInTurn
    <3>2. tried[q] \subseteq tried'[q]
      BY <2>3 DEF Send, RouterTypes
    <3> QED BY <3>1, <3>2
  <2> QED BY <2>1, <2>2, <2>3
<1> QED BY <1>4, <1>5, <1>6

\* Every delta is content.
LEMMA DeliverKeeps ==
    ASSUME IInv, NEW p \in Prompts, NEW d \in DeltaKinds, Deliver(p, d) PROVE IInv'
<1> USE DEF IInv
<1>1. UNCHANGED <<attempt, shrunk, shrinks, first, tried, round, kind, nextIndex, finish>>
  BY DEF Deliver, progress
<1>2. /\ shown' = [shown EXCEPT ![p] = @ \cup {Ask(p)}]
      /\ sent' = [sent EXCEPT ![p] = TRUE]
  BY DEF Deliver, ReferencesContent, RouterTypes
<1>3. /\ pc[p] = "stream"
      /\ \/ pc' = pc /\ outcome' = outcome
         \/ /\ outcome' = [outcome EXCEPT ![p] = "unhandled"]
            /\ pc' = [pc EXCEPT ![p] = "returned"]
  BY DEF Deliver
<1>4. RouterTypes'
  <2>1. shown' \in [Prompts -> SUBSET Requests] /\ sent' \in [Prompts -> BOOLEAN]
    BY <1>2 DEF RouterTypes
  <2>2. pc' \in [Prompts -> Places]
        /\ outcome' \in [Prompts -> Ends \cup {"none", "cancelled", "unhandled"}]
    BY <1>3 DEF RouterTypes, Places
  <2> QED BY <1>1, <2>1, <2>2, SameRequests DEF RouterTypes
<1>5. OfThisRequest'
  BY <1>1, <1>2, SameRequests DEF RouterTypes, OfThisRequest
<1>6. GivesUpLate'
  BY <1>1, <1>2, <1>3 DEF RouterTypes, GivesUpLate
<1>7. KeysInTurn'
  BY <1>1, <1>3 DEF RouterTypes, KeysInTurn
<1> QED BY <1>4, <1>5, <1>6, <1>7

\* The others move on without a request, a key or a delta.
LEMMA RestKeeps ==
    ASSUME IInv, NEW p \in Prompts,
           DeliverFinish(p) \/ Wake(p) \/ Cancel(p) \/ Return(p)
    PROVE  IInv'
<1> USE DEF IInv
<1>1. UNCHANGED <<attempt, shrunk, shrinks, first, tried, kind, nextIndex, shown, sent>>
  BY DEF DeliverFinish, Wake, Cancel, Return, progress, taken
<1>2. /\ pc' \in [Prompts -> Places]
      /\ \A q \in Prompts : pc'[q] \in {"stream", "returned"} => pc'[q] = pc[q]
  BY DEF DeliverFinish, Wake, Cancel, Return, RouterTypes, Places
<1>3. finish' \in [Prompts -> SUBSET Requests]
  <2>1. CASE DeliverFinish(p)
    BY <2>1 DEF DeliverFinish, RouterTypes
  <2>2. CASE Wake(p) \/ Cancel(p) \/ Return(p)
    BY <2>2 DEF Wake, Cancel, Return, taken, RouterTypes
  <2> QED BY <2>1, <2>2
<1>4. /\ outcome' \in [Prompts -> Ends \cup {"none", "cancelled", "unhandled"}]
      /\ round' \in [Prompts -> 1 .. MaxRounds]
  <2>1. CASE Return(p)
    BY <2>1, RouterAssumption DEF Return, RouterTypes
  <2>2. CASE DeliverFinish(p) \/ Wake(p) \/ Cancel(p)
    BY <2>2 DEF DeliverFinish, Wake, Cancel, progress, RouterTypes
  <2> QED BY <2>1, <2>2
<1>5. RouterTypes'
  BY <1>1, <1>2, <1>3, <1>4, SameRequests DEF RouterTypes
<1>6. OfThisRequest'
  BY <1>1, SameRequests DEF OfThisRequest
<1>7. GivesUpLate' /\ KeysInTurn'
  BY <1>1, <1>2 DEF GivesUpLate, KeysInTurn
<1> QED BY <1>5, <1>6, <1>7

\* A request follows another one only while nothing was shown, with smaller
\* images or with the next key; the router gives up when the outcome is worth no
\* more attempts.
LEMMA EndKeeps == ASSUME IInv, NEW p \in Prompts, End(p) PROVE IInv'
<1> USE DEF IInv
<1> PICK o \in Ends :
      /\ pc[p] = "stream" /\ outcome' = [outcome EXCEPT ![p] = o]
      /\ \/ /\ Compresses(p, o)
            /\ shrunk' = [shrunk EXCEPT ![p] = @ + 1]
            /\ shrinks' = [shrinks EXCEPT ![p] = @ - 1]
            /\ pc' = [pc EXCEPT ![p] = "send"]
            /\ UNCHANGED attempt
         \/ /\ ~sent[p] /\ attempt[p] < Attempts(o)
            /\ attempt' = [attempt EXCEPT ![p] = @ + 1]
            /\ shrunk' = [shrunk EXCEPT ![p] = 0]
            /\ shrinks' = [shrinks EXCEPT ![p] = @ + shrunk[p]]
            /\ pc' = [pc EXCEPT ![p] = IF o \in DOMAIN Budget THEN "sleep" ELSE "send"]
         \/ /\ sent[p] \/ attempt[p] >= Attempts(o)
            /\ pc' = [pc EXCEPT ![p] = "returned"]
            /\ UNCHANGED <<attempt, shrunk, shrinks>>
      /\ UNCHANGED <<nextIndex, kind, first, round, tried, taken>>
  BY DEF End
<1>1. outcome' \in [Prompts -> Ends \cup {"none", "cancelled", "unhandled"}]
  BY DEF RouterTypes
<1>2. Attempts(o) \in Nat /\ Attempts(o) >= NumKeys /\ Attempts(o) <= Most /\ Most \in Nat
  BY AttemptsSuffice, MostAttempts
<1>3. /\ attempt[p] \in 1 .. Most /\ shrunk[p] \in 0 .. MaxShrinks
      /\ shrinks[p] \in 0 .. MaxShrinks /\ shrunk[p] + shrinks[p] \in 0 .. MaxShrinks
      /\ MaxShrinks \in Nat /\ NumKeys \in Nat
  BY MostAttempts, RouterAssumption DEF RouterTypes, Ask, Requests, Most
<1>a. CASE /\ Compresses(p, o)
           /\ shrunk' = [shrunk EXCEPT ![p] = @ + 1]
           /\ shrinks' = [shrinks EXCEPT ![p] = @ - 1]
           /\ pc' = [pc EXCEPT ![p] = "send"]
           /\ UNCHANGED attempt
  <2>1. ~sent[p] /\ shrinks[p] > 0
    BY <1>a DEF Compresses, CanShrink
  <2>2. /\ shrunk'[p] = shrunk[p] + 1 /\ shrinks'[p] = shrinks[p] - 1
        /\ \A q \in Prompts \ {p} : shrunk'[q] = shrunk[q] /\ shrinks'[q] = shrinks[q]
    BY <1>a DEF RouterTypes
  <2>3. Ask(p)' \in Requests /\ shrunk'[p] + shrinks'[p] \in 0 .. MaxShrinks
    BY <1>a, <1>3, <2>1, <2>2 DEF Ask, Requests, Most
  <2>4. \A q \in Prompts \ {p} : Ask(q)' = Ask(q)
    BY <1>a, <2>2 DEF Ask
  <2>5. RouterTypes'
    <3>1. \A q \in Prompts : Ask(q)' \in Requests /\ shrunk'[q] + shrinks'[q] \in 0 .. MaxShrinks
      BY <2>2, <2>3, <2>4 DEF RouterTypes
    <3>2. shrinks' \in [Prompts -> 0 .. MaxShrinks] /\ shrunk' \in [Prompts -> Nat]
      BY <1>a, <1>3, <2>1 DEF RouterTypes
    <3>3. pc' \in [Prompts -> Places]
      BY <1>a DEF RouterTypes, Places
    <3> QED BY <1>a, <1>1, <3>1, <3>2, <3>3 DEF RouterTypes, taken
  <2>6. OfThisRequest'
    BY <2>1, <2>4 DEF RouterTypes, OfThisRequest, taken
  <2>7. GivesUpLate' /\ KeysInTurn'
    BY <1>a DEF RouterTypes, GivesUpLate, KeysInTurn, taken
  <2> QED BY <2>5, <2>6, <2>7
<1>b. CASE /\ ~sent[p] /\ attempt[p] < Attempts(o)
           /\ attempt' = [attempt EXCEPT ![p] = @ + 1]
           /\ shrunk' = [shrunk EXCEPT ![p] = 0]
           /\ shrinks' = [shrinks EXCEPT ![p] = @ + shrunk[p]]
           /\ pc' = [pc EXCEPT ![p] = IF o \in DOMAIN Budget THEN "sleep" ELSE "send"]
  <2>1. /\ attempt'[p] = attempt[p] + 1 /\ shrunk'[p] = 0
        /\ shrinks'[p] = shrinks[p] + shrunk[p]
        /\ \A q \in Prompts \ {p} : /\ attempt'[q] = attempt[q] /\ shrunk'[q] = shrunk[q]
                                    /\ shrinks'[q] = shrinks[q] /\ pc'[q] = pc[q]
    BY <1>b DEF RouterTypes
  <2>2. Ask(p)' \in Requests /\ shrunk'[p] + shrinks'[p] \in 0 .. MaxShrinks
    BY <1>b, <1>2, <1>3, <2>1 DEF Ask, Requests, Most
  <2>3. \A q \in Prompts \ {p} : Ask(q)' = Ask(q)
    BY <2>1 DEF Ask
  <2>4. pc' \in [Prompts -> Places] /\ pc'[p] \notin {"stream", "returned"}
    BY <1>b DEF RouterTypes, Places
  <2>5. RouterTypes'
    <3>1. \A q \in Prompts : Ask(q)' \in Requests /\ shrunk'[q] + shrinks'[q] \in 0 .. MaxShrinks
      BY <2>1, <2>2, <2>3 DEF RouterTypes
    <3>2. /\ shrinks' \in [Prompts -> 0 .. MaxShrinks]
          /\ attempt' \in [Prompts -> Nat] /\ shrunk' \in [Prompts -> Nat]
      BY <1>b, <1>3 DEF RouterTypes
    <3> QED BY <1>1, <2>4, <3>1, <3>2 DEF RouterTypes, taken
  <2>6. OfThisRequest'
    BY <1>b, <2>3 DEF RouterTypes, OfThisRequest, taken
  <2>7. GivesUpLate'
    BY <2>1, <2>4 DEF RouterTypes, GivesUpLate, taken
  <2>8. KeysInTurn'
    <3> SUFFICES ASSUME NumKeys > 0, NEW q \in Prompts, NEW a \in Nat, 1 <= a,
                        a < attempt'[q]
                          \/ (a = attempt'[q] /\ pc'[q] \in {"stream", "returned"})
                 PROVE  (first[q] + a - 1) % NumKeys \in tried[q]
      BY DEF KeysInTurn
    <3>1. CASE q # p
      BY <2>1, <3>1 DEF KeysInTurn
    <3>2. CASE q = p
      <4>1. a < attempt[p] \/ (a = attempt[p] /\ pc[p] = "stream")
        BY <1>3, <2>1, <2>4, <3>2
      <4> QED BY <3>2, <4>1 DEF KeysInTurn
    <3> QED BY <3>1, <3>2
  <2> QED BY <2>5, <2>6, <2>7, <2>8
<1>c. CASE /\ sent[p] \/ attempt[p] >= Attempts(o)
           /\ pc' = [pc EXCEPT ![p] = "returned"]
           /\ UNCHANGED <<attempt, shrunk, shrinks>>
  <2>1. pc' \in [Prompts -> Places]
    BY <1>c DEF RouterTypes, Places
  <2>2. RouterTypes'
    BY <1>c, <1>1, <2>1, SameRequests DEF RouterTypes, taken
  <2>3. OfThisRequest'
    BY <1>c, SameRequests DEF OfThisRequest, taken
  <2>4. GivesUpLate'
    <3>1. shown[p] # {} \/ attempt[p] >= NumKeys
      BY <1>c, <1>2, <1>3 DEF OfThisRequest
    <3> QED BY <1>c, <3>1 DEF RouterTypes, GivesUpLate, taken
  <2>5. KeysInTurn'
    BY <1>c DEF RouterTypes, KeysInTurn
  <2> QED BY <2>2, <2>3, <2>4, <2>5
<1> QED BY <1>a, <1>b, <1>c

LEMMA NextKeeps == IInv /\ [RouterNext]_routerVars => IInv'
<1> SUFFICES ASSUME IInv, [RouterNext]_routerVars PROVE IInv'
  OBVIOUS
<1>1. CASE UNCHANGED routerVars
  <2>1. UNCHANGED <<attempt, shrunk, shrinks, first, tried, kind, round, nextIndex, shown, sent,
                    pc, outcome, finish>>
    BY <1>1 DEF routerVars, progress, taken
  <2>2. RouterTypes'
    BY <2>1, SameRequests DEF IInv, RouterTypes
  <2> QED BY <2>1, <2>2, SameRequests DEF IInv, OfThisRequest, KeysInTurn, GivesUpLate
<1>2. CASE RouterNext
  BY <1>2, StartKeeps, SendKeeps, DeliverKeeps, RestKeeps, EndKeeps DEF RouterNext
<1> QED BY <1>1, <1>2

LEMMA Invariance == RouterSpec => []IInv
<1> QED BY InitIInv, NextKeeps, PTL DEF RouterSpec

-----------------------------------------------------------------------------
(* Theorems.                                                               *)

\* The bounds of the router: how many attempts it makes, and that a request's
\* images shrink no further than they can.
THEOREM RouterBounds == RouterSpec => []RouterTypes
<1>1. IInv => RouterTypes
  BY DEF IInv
<1> QED BY <1>1, Invariance, PTL

\* No text is shown twice in a round: a request whose content was shown is the
\* last one (chat_client.go, StreamChatCompletion).
THEOREM OneStream == RouterSpec => []OneStreamShown
<1>1. IInv => OneStreamShown
  <2> SUFFICES ASSUME IInv, NEW p \in Prompts PROVE Cardinality(shown[p]) <= 1
    BY DEF OneStreamShown
  <2>1. shown[p] = {} \/ shown[p] = {Ask(p)}
    BY DEF IInv, OfThisRequest
  <2>2. Cardinality({}) = 0 /\ Cardinality({Ask(p)}) = 1
    BY FS_EmptySet, FS_Singleton
  <2> QED BY <2>1, <2>2
<1> QED BY <1>1, Invariance, PTL

\* A prompt fails only after every key was used, however many there are, whatever
\* key the rotation gave it first and whatever mix of failures it met
\* (chat_client.go, setProviderKeysForAttempt, streamRetryAction).
THEOREM EveryKeyTried == RouterSpec => []AllKeysTried
<1>1. IInv => AllKeysTried
  <2> SUFFICES ASSUME IInv, NEW p \in Prompts, pc[p] = "returned", shown[p] = {}
               PROVE  tried[p] = Keys
    BY DEF AllKeysTried
  <2>1. tried[p] \subseteq Keys /\ attempt[p] \in Nat /\ first[p] \in Keys \cup {0}
    BY DEF IInv, RouterTypes
  <2>2. attempt[p] >= NumKeys
    BY DEF IInv, GivesUpLate
  <2>3. ASSUME NEW k \in Keys PROVE k \in tried[p]
    <3>1. NumKeys \in Nat /\ NumKeys > 0 /\ first[p] \in Keys
      BY <2>1, RouterAssumption DEF Keys
    <3>2. PICK a \in 1 .. NumKeys : (first[p] + a - 1) % NumKeys = k
      BY <3>1, Turns
    <3>3. a < attempt[p] \/ a = attempt[p]
      BY <2>1, <2>2, <3>1
    <3> QED BY <3>1, <3>2, <3>3 DEF IInv, KeysInTurn
  <2> QED BY <2>1, <2>3
<1> QED BY <1>1, Invariance, PTL

-----------------------------------------------------------------------------
(* Readings: what a model that reads the items h is told.                  *)

PartNames == (UNION (UNION {Contents[a] : a \in DOMAIN Contents})) \cup {"text", "results"}
Messages == [role : {"system", "user", "assistant"}, of : Nat, parts : SUBSET PartNames]
Forms == {"video_url", "input_audio", "inline", "input_file", "note", "file"}
Items == [kind : {"message", "reasoning", "call", "output"},
          role : {"instruction", "system", "user", "assistant", "tool"},
          of : Nat \cup (Nat \X Nat), parts : SUBSET ((PartNames \cup {"query"}) \X Forms)]

\* Item x stands for message m on the wire of API a.
RoleIn(a, m) == IF m.role = "system" /\ a \in {"claude", "gemini"} THEN "instruction" ELSE m.role
StandsFor(a, x, m) ==
    /\ x.of = m.of /\ x.role = RoleIn(a, m)
    /\ m.parts \ {"blank", "results"} \subseteq Parts(x)

\* They hold every one of the messages ms, once and in order.
Tells(a, h, ms) ==
    /\ Spoken(h, Len(h)) = Len(ms)
    /\ \A j \in DOMAIN h : h[j].kind = "message" => StandsFor(a, h[j], ms[Spoken(h, j)])

\* They are of turns up to t.
UpTo(h, t) == \A j \in DOMAIN h :
    /\ h[j].kind \in {"message", "reasoning"} => h[j].of \in Nat /\ h[j].of <= t
    /\ h[j].kind \in {"call", "output"} => h[j].of \in Nat \X Nat /\ h[j].of[1] <= t

\* Every call has one output, and every output its call before it.
Paired(h) ==
    /\ \A i \in DOMAIN h : h[i].kind = "call" =>
          \E j \in DOMAIN h : h[j].kind = "output" /\ h[j].of = h[i].of
    /\ \A j, k \in DOMAIN h :
          h[j].kind = "output" /\ h[k].kind = "output" /\ h[j].of = h[k].of => j = k
    /\ \A j \in DOMAIN h : h[j].kind = "output" =>
          \E i \in 1 .. j - 1 : /\ h[i].kind = "call" /\ h[i].of = h[j].of
                                /\ \A k \in i .. j : h[k].kind \in {"call", "output"}

\* Item x brings the search results of turn t: no two items do.
Finds(x, t) ==
    \/ x.kind = "message" /\ x.of = t /\ "results" \in Parts(x)
    \/ x.kind = "output" /\ x.of = <<t, 1>>
FoundOnce(h) == \A t \in Nat : \A i, j \in DOMAIN h : Finds(h[i], t) /\ Finds(h[j], t) => i = j

Reading(a, h, ms, t) ==
    h \in Seq(Items) /\ Tells(a, h, ms) /\ UpTo(h, t) /\ Paired(h) /\ FoundOnce(h)

\* Nothing was called or found in turn t.
Uncalled(h, t) == \A j \in DOMAIN h :
    /\ ~Finds(h[j], t)
    /\ h[j].kind \in {"call", "output"} => h[j].of[1] < t

-----------------------------------------------------------------------------
(* Counting messages.                                                      *)

LEMMA SpokenType ==
    ASSUME NEW h, NEW j \in Nat
    PROVE  /\ Spoken(h, j) \in Nat /\ Spoken(h, j) <= j
           /\ IsFiniteSet({k \in 1 .. j : h[k].kind = "message"})
<1>1. IsFiniteSet(1 .. j) /\ Cardinality(1 .. j) = j
  BY FS_Interval
<1>2. {k \in 1 .. j : h[k].kind = "message"} \in SUBSET (1 .. j)
  OBVIOUS
<1> QED BY <1>1, <1>2, FS_Subset, FS_CardinalityType DEF Spoken

\* The number does not fall.
LEMMA SpokenGrows ==
    ASSUME NEW h, NEW n \in Nat, NEW j \in 1 .. n, h[j].kind = "message"
    PROVE  Spoken(h, j) \in 1 .. Spoken(h, n)
<1> DEFINE A(i) == {k \in 1 .. i : h[k].kind = "message"}
<1>1. j \in Nat /\ j <= n
  OBVIOUS
<1>2. IsFiniteSet(A(n)) /\ IsFiniteSet(A(j)) /\ Spoken(h, j) \in Nat /\ Spoken(h, n) \in Nat
  BY <1>1, SpokenType
<1>3. A(j) \in SUBSET A(n)
  BY <1>1
<1>4. Spoken(h, j) <= Spoken(h, n)
  BY <1>2, <1>3, FS_Subset DEF Spoken
<1>5. A(j) # {}
  OBVIOUS
<1>6. Spoken(h, j) # 0
  BY <1>2, <1>5, FS_EmptySet DEF Spoken
<1> QED BY <1>2, <1>4, <1>6

\* Items that agree on what is a message agree on the number.
LEMMA SpokenAgrees ==
    ASSUME NEW h, NEW g, NEW j,
           \A k \in 1 .. j : (h[k].kind = "message") <=> (g[k].kind = "message")
    PROVE  Spoken(h, j) = Spoken(g, j)
<1>1. {k \in 1 .. j : h[k].kind = "message"} = {k \in 1 .. j : g[k].kind = "message"}
  OBVIOUS
<1> QED BY <1>1 DEF Spoken

\* What is no message does not count.
LEMMA SpokenSkips ==
    ASSUME NEW h, NEW n \in Nat, NEW m \in Nat, n <= m,
           \A k \in n + 1 .. m : h[k].kind # "message"
    PROVE  Spoken(h, m) = Spoken(h, n)
<1>1. {k \in 1 .. m : h[k].kind = "message"} = {k \in 1 .. n : h[k].kind = "message"}
  OBVIOUS
<1> QED BY <1>1 DEF Spoken

LEMMA SpokenCounts ==
    ASSUME NEW h, NEW n \in Nat, h[n + 1].kind = "message"
    PROVE  Spoken(h, n + 1) = Spoken(h, n) + 1
<1> DEFINE A(i) == {k \in 1 .. i : h[k].kind = "message"}
<1>1. A(n + 1) = A(n) \cup {n + 1} /\ n + 1 \notin A(n)
  OBVIOUS
<1>2. IsFiniteSet(A(n))
  BY SpokenType
<1>3. Cardinality(A(n) \cup {n + 1}) = Cardinality(A(n)) + 1
  <2> HIDE DEF A
  <2> QED BY <1>1, <1>2, FS_AddElement
<1> QED BY <1>1, <1>3 DEF Spoken

LEMMA AllSpoken ==
    ASSUME NEW h, NEW n \in Nat, \A k \in 1 .. n : h[k].kind = "message", NEW j \in 0 .. n
    PROVE  Spoken(h, j) = j
<1>1. {k \in 1 .. j : h[k].kind = "message"} = 1 .. j
  OBVIOUS
<1>2. Cardinality(1 .. j) = j
  BY FS_Interval
<1> QED BY <1>1, <1>2 DEF Spoken

-----------------------------------------------------------------------------
(* Longer readings.                                                        *)

\* One more message.
LEMMA ReadMessage ==
    ASSUME NEW a, NEW h, NEW ms \in Seq(Messages), NEW t \in Nat, Reading(a, h, ms, t),
           NEW m \in Messages, NEW x \in Items, x.kind = "message", StandsFor(a, x, m),
           t <= m.of, "results" \in Parts(x) => \A i \in DOMAIN h : ~Finds(h[i], m.of)
    PROVE  Reading(a, h \o <<x>>, Append(ms, m), m.of)
<1> DEFINE g == h \o <<x>>
           ns == Append(ms, m)
           l == Len(h)
<1>1. /\ h \in Seq(Items) /\ l \in Nat /\ DOMAIN h = 1 .. l
      /\ <<x>> \in Seq(Items) /\ Len(<<x>>) = 1 /\ <<x>>[1] = x
  BY DEF Reading
<1>2. /\ g \in Seq(Items) /\ Len(g) = l + 1 /\ DOMAIN g = 1 .. l + 1
      /\ \A i \in 1 .. l : g[i] = h[i]
      /\ g[l + 1] = x
  <2>1. g \in Seq(Items) /\ Len(g) = l + 1
    BY <1>1, ConcatProperties
  <2>2. \A i \in 1 .. l + 1 : g[i] = IF i <= l THEN h[i] ELSE <<x>>[i - l]
    BY <1>1, ConcatProperties
  <2>3. DOMAIN g = 1 .. l + 1
    BY <2>1, LenProperties
  <2> HIDE DEF g
  <2> QED BY <1>1, <2>1, <2>2, <2>3
<1>3. /\ ns \in Seq(Messages) /\ Len(ns) = Len(ms) + 1 /\ Len(ms) \in Nat
      /\ \A i \in 1 .. Len(ms) : ns[i] = ms[i]
      /\ ns[Len(ms) + 1] = m
  BY AppendProperties, LenProperties
<1>4. m.of \in Nat /\ x.of = m.of
  BY DEF Messages, StandsFor
<1> HIDE DEF g, ns
<1>5. \A j \in 1 .. l : Spoken(g, j) = Spoken(h, j)
  <2>1. SUFFICES ASSUME NEW j \in 1 .. l PROVE Spoken(g, j) = Spoken(h, j)
    OBVIOUS
  <2>2. \A k \in 1 .. j : g[k] = h[k]
    BY <1>1, <1>2
  <2> QED BY <2>2, SpokenAgrees
<1>6. Spoken(g, l) = Spoken(h, l)
  BY <1>2, SpokenAgrees
<1>7. Spoken(h, l) = Len(ms)
  BY DEF Reading, Tells
<1>8. Spoken(g, l + 1) = Len(ms) + 1
  BY <1>1, <1>2, <1>6, <1>7, SpokenCounts
<1>9. Tells(a, g, ns)
  <2>1. ASSUME NEW j \in DOMAIN g, g[j].kind = "message"
        PROVE  StandsFor(a, g[j], ns[Spoken(g, j)])
    <3>1. CASE j = l + 1
      BY <1>2, <1>3, <1>8, <3>1
    <3>2. CASE j \in 1 .. l
      <4>1. h[j].kind = "message" /\ g[j] = h[j]
        BY <1>2, <2>1, <3>2
      <4>2. Spoken(h, j) \in 1 .. Len(ms)
        BY <1>1, <1>7, <3>2, <4>1, SpokenGrows
      <4>3. StandsFor(a, h[j], ms[Spoken(h, j)])
        BY <1>1, <3>2, <4>1 DEF Reading, Tells
      <4> QED BY <1>3, <1>5, <3>2, <4>1, <4>2, <4>3
    <3> QED BY <1>1, <1>2, <2>1, <3>1, <3>2
  <2> QED BY <1>2, <1>3, <1>8, <2>1 DEF Tells
<1>10. UpTo(g, m.of)
  <2>1. UpTo(h, t)
    BY DEF Reading
  <2>2. ASSUME NEW j \in 1 .. l
        PROVE  /\ h[j].kind \in {"message", "reasoning"} => h[j].of \in Nat /\ h[j].of <= m.of
               /\ h[j].kind \in {"call", "output"} => h[j].of \in Nat \X Nat /\ h[j].of[1] <= m.of
    <3>1. CASE h[j].kind \in {"message", "reasoning"}
      BY <1>1, <1>4, <2>1, <3>1 DEF UpTo
    <3>2. CASE h[j].kind \in {"call", "output"}
      <4>1. h[j].of \in Nat \X Nat /\ h[j].of[1] <= t
        BY <1>1, <2>1, <3>2 DEF UpTo
      <4>2. h[j].of[1] \in Nat
        BY <4>1
      <4> QED BY <1>4, <3>2, <4>1, <4>2
    <3>3. h[j] \in Items
      BY <1>1
    <3> QED BY <3>1, <3>2, <3>3 DEF Items
  <2> QED BY <1>1, <1>2, <1>4, <2>2 DEF UpTo
<1>11. Paired(g)
  <2>1. Paired(h)
    BY DEF Reading
  <2>2. \A j \in DOMAIN g : g[j].kind \in {"call", "output"} => j \in DOMAIN h /\ g[j] = h[j]
    BY <1>1, <1>2
  <2>3. \A i \in DOMAIN g : g[i].kind = "call" =>
            \E j \in DOMAIN g : g[j].kind = "output" /\ g[j].of = g[i].of
    <3>1. ASSUME NEW i \in DOMAIN g, g[i].kind = "call"
          PROVE  \E j \in DOMAIN g : g[j].kind = "output" /\ g[j].of = g[i].of
      <4>1. i \in DOMAIN h /\ g[i] = h[i]
        BY <2>2, <3>1
      <4>2. PICK j \in DOMAIN h : h[j].kind = "output" /\ h[j].of = h[i].of
        BY <2>1, <3>1, <4>1 DEF Paired
      <4>3. j \in DOMAIN g /\ g[j] = h[j]
        BY <1>1, <1>2
      <4> QED BY <4>1, <4>2, <4>3
    <3> QED BY <3>1
  <2>4. \A j, k \in DOMAIN g :
            g[j].kind = "output" /\ g[k].kind = "output" /\ g[j].of = g[k].of => j = k
    BY <2>1, <2>2 DEF Paired
  <2>5. ASSUME NEW j \in DOMAIN g, g[j].kind = "output"
        PROVE  \E i \in 1 .. j - 1 : /\ g[i].kind = "call" /\ g[i].of = g[j].of
                                     /\ \A k \in i .. j : g[k].kind \in {"call", "output"}
    <3>1. j \in 1 .. l /\ g[j] = h[j]
      BY <1>1, <2>2, <2>5
    <3>2. PICK i \in 1 .. j - 1 : /\ h[i].kind = "call" /\ h[i].of = h[j].of
                                  /\ \A k \in i .. j : h[k].kind \in {"call", "output"}
      BY <1>1, <2>1, <2>5, <3>1 DEF Paired
    <3>3. \A k \in i .. j : g[k] = h[k]
      BY <1>1, <1>2, <3>1
    <3> QED BY <1>1, <3>1, <3>2, <3>3
  <2> QED BY <2>3, <2>4, <2>5 DEF Paired
<1>12. FoundOnce(g)
  <2>1. FoundOnce(h)
    BY DEF Reading
  <2>2. SUFFICES ASSUME NEW u \in Nat, NEW i \in DOMAIN g, NEW j \in DOMAIN g,
                        Finds(g[i], u), Finds(g[j], u), i < j
                 PROVE  FALSE
    <3>1. DOMAIN g \subseteq Int
      BY <1>1, <1>2
    <3> QED BY <2>2, <3>1 DEF FoundOnce
  <2>3. CASE j = l + 1
    <3>1. u = m.of /\ "results" \in Parts(x)
      BY <1>2, <1>4, <2>2, <2>3 DEF Finds
    <3>2. i \in DOMAIN h /\ g[i] = h[i]
      BY <1>1, <1>2, <2>2, <2>3
    <3> QED BY <2>2, <3>1, <3>2
  <2>4. CASE j \in 1 .. l
    <3>1. i \in 1 .. l
      BY <1>1, <1>2, <2>2, <2>4
    <3> QED BY <1>1, <1>2, <2>1, <2>2, <2>4, <3>1 DEF FoundOnce
  <2> QED BY <1>1, <1>2, <2>3, <2>4
<1> QED BY <1>2, <1>9, <1>10, <1>11, <1>12 DEF Reading, g, ns
-----------------------------------------------------------------------------
(* A round: the calls of a response and their outputs.                     *)

CallsOf(t, n) == [k \in 1 .. n |-> <<t, k>>]
OutputsOf(t, n) == [k \in 1 .. n |-> Item("output", "tool", <<t, k>>, {})]
Said(t, n) == <<Item("reasoning", "assistant", t, {})>> \o CallItems(CallsOf(t, n))

\* What each item of a round is; b items precede the calls.
Round(s, t, n, b) ==
    /\ s \in Seq(Items) /\ Len(s) = b + n + n
    /\ \A k \in 1 .. b : s[k].kind = "reasoning" /\ s[k].of = t
    /\ \A k \in b + 1 .. b + n : s[k].kind = "call" /\ s[k].of = <<t, k - b>>
    /\ \A k \in b + n + 1 .. b + n + n : s[k].kind = "output" /\ s[k].of = <<t, k - b - n>>

LEMMA CallItemsType ==
    ASSUME NEW t \in Nat, NEW n \in Nat
    PROVE  /\ CallItems(CallsOf(t, n)) \in Seq(Items) /\ Len(CallItems(CallsOf(t, n))) = n
           /\ \A k \in 1 .. n :
                 CallItems(CallsOf(t, n))[k] = Item("call", "assistant", <<t, k>>, {})
           /\ OutputsOf(t, n) \in Seq(Items) /\ Len(OutputsOf(t, n)) = n
           /\ \A k \in 1 .. n : OutputsOf(t, n)[k] = Item("output", "tool", <<t, k>>, {})
           /\ \A r : r.calls = CallsOf(t, n) => OutputItems(r) = OutputsOf(t, n)
<1>1. CallItems(CallsOf(t, n)) = [k \in 1 .. n |-> Item("call", "assistant", <<t, k>>, {})]
  BY DEF CallItems, CallsOf
<1>2. \A k \in 1 .. n : /\ Item("call", "assistant", <<t, k>>, {}) \in Items
                        /\ Item("output", "tool", <<t, k>>, {}) \in Items
  BY DEF Item, Items
<1>3. [k \in 1 .. n |-> Item("call", "assistant", <<t, k>>, {})] \in Seq(Items)
  BY <1>2
<1>4. OutputsOf(t, n) \in Seq(Items)
  BY <1>2 DEF OutputsOf
<1>5. \A r : r.calls = CallsOf(t, n) => OutputItems(r) = OutputsOf(t, n)
  BY DEF OutputItems, OutputsOf, CallsOf
<1> QED BY <1>1, <1>3, <1>4, <1>5 DEF OutputsOf

LEMMA SaidType ==
    ASSUME NEW t \in Nat, NEW n \in Nat
    PROVE  /\ Said(t, n) \in Seq(Items) /\ Len(Said(t, n)) = n + 1
           /\ Said(t, n)[1] = Item("reasoning", "assistant", t, {})
           /\ \A k \in 2 .. n + 1 : Said(t, n)[k] = Item("call", "assistant", <<t, k - 1>>, {})
<1> DEFINE opening == <<Item("reasoning", "assistant", t, {})>>
           calls == CallItems(CallsOf(t, n))
<1>1. /\ opening \in Seq(Items) /\ Len(opening) = 1
      /\ opening[1] = Item("reasoning", "assistant", t, {})
  BY DEF Item, Items
<1>2. /\ calls \in Seq(Items) /\ Len(calls) = n
      /\ \A k \in 1 .. n : calls[k] = Item("call", "assistant", <<t, k>>, {})
  BY CallItemsType
<1>3. Said(t, n) = opening \o calls
  BY DEF Said
<1> HIDE DEF opening, calls
<1>4. /\ opening \o calls \in Seq(Items) /\ Len(opening \o calls) = 1 + n
      /\ \A i \in 1 .. 1 + n : (opening \o calls)[i] = IF i <= 1 THEN opening[i] ELSE calls[i - 1]
  <2>1. \A i \in 1 .. Len(opening) + Len(calls) :
            (opening \o calls)[i] = IF i <= Len(opening) THEN opening[i] ELSE calls[i - Len(opening)]
    BY <1>1, <1>2, ConcatProperties
  <2>2. opening \o calls \in Seq(Items) /\ Len(opening \o calls) = Len(opening) + Len(calls)
    BY <1>1, <1>2, ConcatProperties
  <2> QED BY <1>1, <1>2, <2>1, <2>2
<1>5. \A k \in 2 .. n + 1 : k \in 1 .. 1 + n /\ ~(k <= 1) /\ k - 1 \in 1 .. n
  OBVIOUS
<1>6. 1 \in 1 .. 1 + n /\ 1 <= 1
  OBVIOUS
<1> QED BY <1>1, <1>2, <1>3, <1>4, <1>5, <1>6

LEMMA RoundIs ==
    ASSUME NEW t \in Nat, NEW n \in Nat
    PROVE  /\ Round(CallItems(CallsOf(t, n)) \o OutputsOf(t, n), t, n, 0)
           /\ Round(Said(t, n) \o OutputsOf(t, n), t, n, 1)
<1>1. ASSUME NEW s \in Seq(Items), NEW b \in {0, 1}, Len(s) = b + n,
             \A k \in 1 .. b : s[k].kind = "reasoning" /\ s[k].of = t,
             \A k \in b + 1 .. b + n : s[k].kind = "call" /\ s[k].of = <<t, k - b>>
      PROVE  Round(s \o OutputsOf(t, n), t, n, b)
  <2> DEFINE outs == OutputsOf(t, n)
  <2>1. /\ outs \in Seq(Items) /\ Len(outs) = n
        /\ \A k \in 1 .. n : outs[k] = Item("output", "tool", <<t, k>>, {})
    BY CallItemsType
  <2> HIDE DEF outs
  <2>2. /\ s \o outs \in Seq(Items) /\ Len(s \o outs) = b + n + n
        /\ \A i \in 1 .. b + n + n : (s \o outs)[i] = IF i <= b + n THEN s[i] ELSE outs[i - (b + n)]
    <3>1. \A i \in 1 .. Len(s) + Len(outs) :
              (s \o outs)[i] = IF i <= Len(s) THEN s[i] ELSE outs[i - Len(s)]
      BY <1>1, <2>1, ConcatProperties
    <3>2. s \o outs \in Seq(Items) /\ Len(s \o outs) = Len(s) + Len(outs)
      BY <1>1, <2>1, ConcatProperties
    <3> QED BY <1>1, <2>1, <3>1, <3>2
  <2>3. \A i \in 1 .. b + n : (s \o outs)[i] = s[i]
    BY <2>2
  <2>4. ASSUME NEW k \in b + n + 1 .. b + n + n
        PROVE  (s \o outs)[k].kind = "output" /\ (s \o outs)[k].of = <<t, k - b - n>>
    <3>1. k \in 1 .. b + n + n /\ ~(k <= b + n) /\ k - (b + n) \in 1 .. n /\ k - (b + n) = k - b - n
      OBVIOUS
    <3>2. (s \o outs)[k] = Item("output", "tool", <<t, k - (b + n)>>, {})
      BY <2>1, <2>2, <3>1
    <3> QED BY <3>1, <3>2 DEF Item
  <2>5. \A k \in 1 .. b : (s \o outs)[k].kind = "reasoning" /\ (s \o outs)[k].of = t
    <3>1. \A k \in 1 .. b : k \in 1 .. b + n
      OBVIOUS
    <3> QED BY <1>1, <2>3, <3>1
  <2>6. ASSUME NEW k \in b + 1 .. b + n
        PROVE  (s \o outs)[k].kind = "call" /\ (s \o outs)[k].of = <<t, k - b>>
    <3>1. k \in 1 .. b + n
      OBVIOUS
    <3>2. (s \o outs)[k] = s[k]
      BY <2>3, <3>1
    <3> QED BY <1>1, <3>2
  <2> QED BY <2>2, <2>4, <2>5, <2>6 DEF Round, outs
<1>2. Round(CallItems(CallsOf(t, n)) \o OutputsOf(t, n), t, n, 0)
  <2> DEFINE s == CallItems(CallsOf(t, n))
  <2>1. /\ s \in Seq(Items) /\ Len(s) = 0 + n
        /\ \A k \in 1 .. n : s[k] = Item("call", "assistant", <<t, k>>, {})
    BY CallItemsType
  <2> HIDE DEF s
  <2>2. \A k \in 0 + 1 .. 0 + n : s[k].kind = "call" /\ s[k].of = <<t, k - 0>>
    BY <2>1 DEF Item
  <2>3. Round(s \o OutputsOf(t, n), t, n, 0)
    BY <1>1, <2>1, <2>2
  <2> QED BY <2>3 DEF s
<1>3. Round(Said(t, n) \o OutputsOf(t, n), t, n, 1)
  <2> DEFINE s == Said(t, n)
  <2>1. /\ s \in Seq(Items) /\ Len(s) = n + 1
        /\ s[1] = Item("reasoning", "assistant", t, {})
        /\ \A k \in 2 .. n + 1 : s[k] = Item("call", "assistant", <<t, k - 1>>, {})
    BY SaidType
  <2> HIDE DEF s
  <2>2. \A k \in 1 .. 1 : s[k].kind = "reasoning" /\ s[k].of = t
    BY <2>1 DEF Item
  <2>3. \A k \in 1 + 1 .. 1 + n : s[k].kind = "call" /\ s[k].of = <<t, k - 1>>
    <3>1. \A k \in 2 .. n + 1 : s[k].kind = "call" /\ s[k].of = <<t, k - 1>>
      <4>1. ASSUME NEW k \in 2 .. n + 1
            PROVE  s[k].kind = "call" /\ s[k].of = <<t, k - 1>>
        <5>1. s[k] = Item("call", "assistant", <<t, k - 1>>, {})
          BY <2>1
        <5> QED BY <5>1 DEF Item
      <4> QED BY <4>1
    <3> QED BY <3>1
  <2>4. Len(s) = 1 + n
    BY <2>1
  <2>5. Round(s \o OutputsOf(t, n), t, n, 1)
    BY <1>1, <2>1, <2>2, <2>3, <2>4
  <2> QED BY <2>5 DEF s
<1> QED BY <1>2, <1>3

\* A reading of a turn in which nothing was called or found, with a round of
\* calls and outputs after it, is a reading that brings the results.
LEMMA ReadRound ==
    ASSUME NEW a, NEW h, NEW ms, NEW t \in Nat, Reading(a, h, ms, t), Uncalled(h, t),
           NEW s, NEW n \in Nat \ {0}, NEW b \in {0, 1}, Round(s, t, n, b)
    PROVE  /\ Reading(a, h \o s, ms, t)
           /\ \E j \in DOMAIN (h \o s) : Finds((h \o s)[j], t)
<1> DEFINE g == h \o s
           l == Len(h)
           e == l + b + n + n
<1>1. h \in Seq(Items) /\ l \in Nat /\ DOMAIN h = 1 .. l
  BY DEF Reading
<1>2. s \in Seq(Items) /\ Len(s) = b + n + n /\ e \in Nat
  BY <1>1 DEF Round
<1>3. /\ g \in Seq(Items) /\ Len(g) = e /\ DOMAIN g = 1 .. e
      /\ \A i \in 1 .. l : g[i] = h[i]
      /\ \A i \in l + 1 .. e : g[i] = s[i - l]
  <2>1. g \in Seq(Items) /\ Len(g) = l + Len(s)
    BY <1>1, <1>2, ConcatProperties
  <2>2. \A i \in 1 .. l + Len(s) : g[i] = IF i <= l THEN h[i] ELSE s[i - l]
    BY <1>1, <1>2, ConcatProperties
  <2>3. DOMAIN g = 1 .. Len(g)
    BY <2>1, LenProperties
  <2>4. Len(g) = e
    BY <1>1, <1>2, <2>1
  <2> HIDE DEF g
  <2>5. ASSUME NEW i \in 1 .. l PROVE g[i] = h[i]
    <3>1. i \in 1 .. l + Len(s) /\ i <= l
      BY <1>1, <1>2
    <3> QED BY <2>2, <3>1
  <2>6. ASSUME NEW i \in l + 1 .. e PROVE g[i] = s[i - l]
    <3>1. i \in 1 .. l + Len(s) /\ ~(i <= l)
      BY <1>1, <1>2
    <3> QED BY <2>2, <3>1
  <2> QED BY <2>1, <2>3, <2>4, <2>5, <2>6
<1> HIDE DEF g
<1>4. \A i \in l + 1 .. l + b : g[i].kind = "reasoning" /\ g[i].of = t
  <2>1. ASSUME NEW i \in l + 1 .. l + b PROVE g[i].kind = "reasoning" /\ g[i].of = t
    <3>1. i \in l + 1 .. e /\ i - l \in 1 .. b
      BY <1>1
    <3> QED BY <1>3, <3>1 DEF Round
  <2> QED BY <2>1
<1>5. \A i \in l + b + 1 .. l + b + n : g[i].kind = "call" /\ g[i].of = <<t, i - l - b>>
  <2>1. ASSUME NEW i \in l + b + 1 .. l + b + n
        PROVE  g[i].kind = "call" /\ g[i].of = <<t, i - l - b>>
    <3>1. i \in l + 1 .. e /\ i - l \in b + 1 .. b + n
      BY <1>1
    <3> QED BY <1>3, <3>1 DEF Round
  <2> QED BY <2>1
<1>6. \A i \in l + b + n + 1 .. e : g[i].kind = "output" /\ g[i].of = <<t, i - l - b - n>>
  <2>1. ASSUME NEW i \in l + b + n + 1 .. e
        PROVE  g[i].kind = "output" /\ g[i].of = <<t, i - l - b - n>>
    <3>1. i \in l + 1 .. e /\ i - l \in b + n + 1 .. b + n + n
      BY <1>1
    <3> QED BY <1>3, <3>1 DEF Round
  <2> QED BY <2>1
<1>7. \A i \in 1 .. e :
          \/ i \in 1 .. l \/ i \in l + 1 .. l + b
          \/ i \in l + b + 1 .. l + b + n \/ i \in l + b + n + 1 .. e
  BY <1>1
<1>8. /\ UpTo(h, t) /\ Paired(h) /\ FoundOnce(h) /\ Tells(a, h, ms)
      /\ \A j \in 1 .. l : h[j].kind \in {"call", "output"} =>
            h[j].of \in Nat \X Nat /\ h[j].of[1] < t
      /\ \A j \in 1 .. l : ~Finds(h[j], t)
  BY <1>1 DEF Reading, UpTo, Uncalled
<1>9. Tells(a, g, ms)
  <2>1. ASSUME NEW j \in l + 1 .. e PROVE g[j].kind # "message"
    <3>1. \/ j \in l + 1 .. l + b \/ j \in l + b + 1 .. l + b + n
          \/ j \in l + b + n + 1 .. e
      BY <1>1
    <3> QED BY <1>4, <1>5, <1>6, <3>1
  <2>2. ASSUME NEW j \in 0 .. l PROVE Spoken(g, j) = Spoken(h, j)
    <3>1. \A k \in 1 .. j : g[k] = h[k]
      BY <1>1, <1>3
    <3> QED BY <3>1, SpokenAgrees
  <2>3. Spoken(g, e) = Spoken(g, l)
    <3>1. l <= e /\ l \in Nat /\ e \in Nat
      BY <1>1, <1>2
    <3>2. \A k \in l + 1 .. e : g[k].kind # "message"
      BY <2>1
    <3> HIDE DEF e, l
    <3> QED BY <3>1, <3>2, SpokenSkips
  <2>4. l \in 0 .. l
    BY <1>1
  <2>5. Spoken(g, Len(g)) = Len(ms)
    BY <1>3, <1>8, <2>2, <2>3, <2>4 DEF Tells
  <2>6. ASSUME NEW j \in DOMAIN g, g[j].kind = "message"
        PROVE  StandsFor(a, g[j], ms[Spoken(g, j)])
    <3>1. j \in 1 .. l
      BY <1>1, <1>3, <2>1, <2>6
    <3>2. g[j] = h[j] /\ Spoken(g, j) = Spoken(h, j)
      BY <1>3, <2>2, <3>1
    <3> QED BY <1>1, <1>8, <2>6, <3>1, <3>2 DEF Tells
  <2> QED BY <2>5, <2>6 DEF Tells
<1>10. UpTo(g, t)
  <2>1. SUFFICES ASSUME NEW j \in 1 .. e
                 PROVE  /\ g[j].kind \in {"message", "reasoning"} => g[j].of \in Nat /\ g[j].of <= t
                        /\ g[j].kind \in {"call", "output"} =>
                              g[j].of \in Nat \X Nat /\ g[j].of[1] <= t
    BY <1>3 DEF UpTo
  <2>2. CASE j \in 1 .. l
    BY <1>1, <1>3, <1>8, <2>2 DEF UpTo
  <2>3. CASE j \in l + 1 .. l + b
    BY <1>4, <2>3
  <2>4. CASE j \in l + b + 1 .. l + b + n
    <3>1. <<t, j - l - b>> \in Nat \X Nat /\ <<t, j - l - b>>[1] = t
      BY <1>1, <2>4
    <3>2. g[j].kind = "call" /\ g[j].of = <<t, j - l - b>>
      BY <1>5, <2>4
    <3> QED BY <3>1, <3>2
  <2>5. CASE j \in l + b + n + 1 .. e
    <3>1. <<t, j - l - b - n>> \in Nat \X Nat /\ <<t, j - l - b - n>>[1] = t
      BY <1>1, <2>5
    <3>2. g[j].kind = "output" /\ g[j].of = <<t, j - l - b - n>>
      BY <1>6, <2>5
    <3> QED BY <3>1, <3>2
  <2> QED BY <1>7, <2>2, <2>3, <2>4, <2>5
<1>11. Paired(g)
  <2>1. ASSUME NEW i \in 1 .. e, g[i].kind = "call"
        PROVE  \E j \in 1 .. e : g[j].kind = "output" /\ g[j].of = g[i].of
    <3>1. CASE i \in 1 .. l
      <4>1. PICK j \in 1 .. l : h[j].kind = "output" /\ h[j].of = h[i].of
        <5>1. h[i].kind = "call"
          BY <1>3, <2>1, <3>1
        <5> QED BY <1>1, <1>8, <3>1, <5>1 DEF Paired
      <4>2. j \in 1 .. e /\ g[j] = h[j] /\ g[i] = h[i]
        BY <1>1, <1>3, <3>1
      <4> QED BY <4>1, <4>2
    <3>2. CASE i \in l + b + 1 .. l + b + n
      <4>1. i + n \in l + b + n + 1 .. e /\ i + n \in 1 .. e /\ (i + n) - l - b - n = i - l - b
        BY <1>1, <3>2
      <4>2. g[i + n].kind = "output" /\ g[i + n].of = <<t, i - l - b>>
        BY <1>6, <4>1
      <4> QED BY <1>5, <3>2, <4>1, <4>2
    <3> QED BY <1>4, <1>6, <1>7, <2>1, <3>1, <3>2
  <2>2. ASSUME NEW j \in 1 .. e, g[j].kind = "output"
        PROVE  \/ j \in 1 .. l /\ g[j] = h[j] /\ h[j].of[1] < t
               \/ j \in l + b + n + 1 .. e
    BY <1>1, <1>3, <1>4, <1>5, <1>7, <1>8, <2>2
  <2>3. ASSUME NEW j \in 1 .. e, NEW k \in 1 .. e,
               g[j].kind = "output", g[k].kind = "output", g[j].of = g[k].of
        PROVE  j = k
    <3>1. CASE j \in 1 .. l /\ k \in 1 .. l
      BY <1>1, <1>3, <1>8, <2>3, <3>1 DEF Paired
    <3>2. CASE j \in l + b + n + 1 .. e /\ k \in l + b + n + 1 .. e
      <4>1. j - l - b - n = k - l - b - n
        BY <1>6, <2>3, <3>2
      <4> QED BY <1>1, <3>2, <4>1
    <3>3. ASSUME NEW i \in l + b + n + 1 .. e, i \in {j, k} PROVE g[i].of[1] = t
      BY <1>6, <3>3
    <3>4. ASSUME NEW i \in 1 .. l, i \in {j, k} PROVE g[i].of[1] # t
      <4>1. g[i] = h[i] /\ h[i].kind = "output"
        BY <1>3, <2>3, <3>4
      <4>2. h[i].of[1] \in Nat /\ h[i].of[1] < t
        BY <1>8, <4>1
      <4> QED BY <4>1, <4>2
    <3>5. CASE j \in 1 .. l /\ k \in l + b + n + 1 .. e
      BY <2>3, <3>3, <3>4, <3>5
    <3>6. CASE k \in 1 .. l /\ j \in l + b + n + 1 .. e
      BY <2>3, <3>3, <3>4, <3>6
    <3> QED BY <2>2, <2>3, <3>1, <3>2, <3>5, <3>6
  <2>4. ASSUME NEW j \in 1 .. e, g[j].kind = "output"
        PROVE  \E i \in 1 .. j - 1 : /\ g[i].kind = "call" /\ g[i].of = g[j].of
                                     /\ \A k \in i .. j : g[k].kind \in {"call", "output"}
    <3>1. CASE j \in 1 .. l
      <4>1. PICK i \in 1 .. j - 1 : /\ h[i].kind = "call" /\ h[i].of = h[j].of
                                    /\ \A k \in i .. j : h[k].kind \in {"call", "output"}
        BY <1>1, <1>3, <1>8, <2>4, <3>1 DEF Paired
      <4>2. \A k \in i .. j : g[k] = h[k]
        BY <1>1, <1>3, <3>1
      <4>3. i \in i .. j /\ j \in i .. j
        BY <1>1, <3>1
      <4> QED BY <4>1, <4>2, <4>3
    <3>2. CASE j \in l + b + n + 1 .. e
      <4>1. /\ j - n \in l + b + 1 .. l + b + n /\ j - n \in 1 .. j - 1
            /\ (j - n) - l - b = j - l - b - n
        BY <1>1, <3>2
      <4>2. \A k \in j - n .. j : k \in l + b + 1 .. l + b + n \/ k \in l + b + n + 1 .. e
        BY <1>1, <3>2
      <4>3. \A k \in j - n .. j : g[k].kind \in {"call", "output"}
        BY <1>5, <1>6, <4>2
      <4>4. g[j - n].kind = "call" /\ g[j - n].of = g[j].of
        BY <1>5, <1>6, <3>2, <4>1
      <4> QED BY <4>1, <4>3, <4>4
    <3> QED BY <2>2, <2>4, <3>1, <3>2
  <2> QED BY <1>3, <2>1, <2>3, <2>4 DEF Paired
<1>12. \A i \in 1 .. e, u \in Nat :
           Finds(g[i], u) => (i \in 1 .. l /\ u # t) \/ (i = l + b + n + 1 /\ u = t)
  <2>1. SUFFICES ASSUME NEW i \in 1 .. e, NEW u \in Nat, Finds(g[i], u)
                 PROVE  (i \in 1 .. l /\ u # t) \/ (i = l + b + n + 1 /\ u = t)
    OBVIOUS
  <2>2. CASE i \in 1 .. l
    BY <1>3, <1>8, <2>1, <2>2
  <2>3. CASE i \in l + b + n + 1 .. e
    <3>1. <<u, 1>> = <<t, i - l - b - n>>
      BY <1>6, <2>1, <2>3 DEF Finds
    <3>2. u = t /\ i - l - b - n = 1
      BY <3>1
    <3> QED BY <1>1, <2>3, <3>2
  <2>4. CASE i \in l + 1 .. l + b \/ i \in l + b + 1 .. l + b + n
    BY <1>4, <1>5, <2>1, <2>4 DEF Finds
  <2> QED BY <1>7, <2>2, <2>3, <2>4
<1>13. FoundOnce(g)
  <2>1. SUFFICES ASSUME NEW u \in Nat, NEW i \in 1 .. e, NEW j \in 1 .. e,
                        Finds(g[i], u), Finds(g[j], u)
                 PROVE  i = j
    BY <1>3 DEF FoundOnce
  <2>2. CASE u = t
    BY <1>12, <2>1, <2>2
  <2>3. CASE u # t
    <3>1. i \in 1 .. l /\ j \in 1 .. l
      BY <1>12, <2>1, <2>3
    <3> QED BY <1>1, <1>3, <1>8, <2>1, <3>1 DEF FoundOnce
  <2> QED BY <2>2, <2>3
<1>14. \E j \in DOMAIN g : Finds(g[j], t)
  <2> DEFINE j == l + b + n + 1
  <2>1. j \in l + b + n + 1 .. e /\ j \in 1 .. e /\ j - l - b - n = 1
    BY <1>1
  <2> HIDE DEF j
  <2>2. g[j].kind = "output" /\ g[j].of = <<t, 1>>
    BY <1>6, <2>1
  <2> QED BY <1>3, <2>1, <2>2 DEF Finds
<1> QED BY <1>3, <1>9, <1>10, <1>11, <1>13, <1>14 DEF Reading, g

-----------------------------------------------------------------------------
(* Messages on the wire.                                                   *)

\* What a message becomes.
LEMMA ConvertedItem ==
    ASSUME api \in APIs, NEW m \in Messages
    PROVE  /\ Converted(m) \in Items /\ Converted(m).kind = "message" /\ Converted(m).of = m.of
           /\ Parts(Converted(m)) = WithQuery(m)
           /\ StandsFor(api, Converted(m), m)
           /\ "results" \in Parts(Converted(m)) <=> "results" \in m.parts
<1>1. /\ m.role \in {"system", "user", "assistant"} /\ m.of \in Nat /\ m.parts \subseteq PartNames
  BY DEF Messages
<1>2. WithQuery(m) \subseteq PartNames \cup {"query"}
  BY <1>1 DEF WithQuery
<1>3. \A p : Form(p) \in Forms
  BY DEF Form, ChatForm, ResponsesForm, ClaudeForm, GeminiForm, Forms, APIs
<1>4. /\ RoleOf(m) = RoleIn(api, m)
      /\ RoleOf(m) \in {"instruction", "system", "user", "assistant", "tool"}
  BY <1>1 DEF RoleOf, RoleIn
<1> DEFINE parts == {<<p, Form(p)>> : p \in WithQuery(m)}
<1>5. parts \in SUBSET ((PartNames \cup {"query"}) \X Forms)
  BY <1>2, <1>3
<1>6. {b[1] : b \in parts} = WithQuery(m)
  <2>1. ASSUME NEW p \in WithQuery(m) PROVE <<p, Form(p)>> \in parts /\ <<p, Form(p)>>[1] = p
    OBVIOUS
  <2>2. ASSUME NEW b \in parts PROVE b[1] \in WithQuery(m)
    OBVIOUS
  <2> HIDE DEF parts
  <2> QED BY <2>1, <2>2
<1> HIDE DEF parts
<1>7. Converted(m) = [kind |-> "message", role |-> RoleOf(m), of |-> m.of, parts |-> parts]
  BY DEF Converted, Item, parts
<1>8. Converted(m) \in Items
  BY <1>1, <1>4, <1>5, <1>7 DEF Items
<1>9. Parts(Converted(m)) = WithQuery(m)
  BY <1>6, <1>7 DEF Parts
<1>10. m.parts \ {"blank", "results"} \subseteq WithQuery(m)
  BY DEF WithQuery
<1>11. "results" \in WithQuery(m) <=> "results" \in m.parts
  BY DEF WithQuery
<1> QED BY <1>4, <1>7, <1>8, <1>9, <1>10, <1>11 DEF StandsFor

\* Turns are numbered by their queries, and only a query has results: until
\* the search, or the turn ends, that of the turn has none.
Numbered(ms, t) ==
    /\ ms \in Seq(Messages)
    /\ \A i \in DOMAIN ms :
          ms[i].of <= t /\ ("results" \in ms[i].parts => ms[i].role = "user")
    /\ \A i, j \in DOMAIN ms :
          ms[i].role = "user" /\ ms[j].role = "user" /\ ms[i].of = ms[j].of => i = j
MessagesTyped ==
    /\ Numbered(messages, TurnNumber)
    /\ step # "idle" =>
          /\ messages # <<>> /\ messages[Len(messages)].role = "user" /\ TurnNumber >= 1
          /\ "results" \in messages[Len(messages)].parts <=> phase = "toolFree"

LEMMA TurnIsNat == ASSUME messages \in Seq(Messages) PROVE TurnNumber \in Nat
<1>1. CASE messages = <<>>
  BY <1>1 DEF TurnNumber
<1>2. CASE messages # <<>>
  <2>1. Len(messages) \in 1 .. Len(messages)
    BY <1>2, EmptySeq
  <2>2. messages[Len(messages)] \in Messages
    BY <2>1
  <2> QED BY <1>2, <2>2 DEF TurnNumber, Messages
<1> QED BY <1>1, <1>2

\* The conversation, sent in full, is read as it is.
LEMMA ReadConversation ==
    ASSUME api \in APIs, MessagesTyped
    PROVE  /\ Reading(api, Conversation, messages, TurnNumber)
           /\ step # "idle" /\ phase # "toolFree" => Uncalled(Conversation, TurnNumber)
           /\ step # "idle" /\ phase = "toolFree" =>
                 \E j \in DOMAIN Conversation : Finds(Conversation[j], TurnNumber)
<1> DEFINE h == Conversation
           l == Len(messages)
<1>1. messages \in Seq(Messages) /\ l \in Nat /\ DOMAIN messages = 1 .. l /\ TurnNumber \in Nat
  BY TurnIsNat DEF MessagesTyped, Numbered
<1>2. \A i \in 1 .. l : messages[i] \in Messages
  BY <1>1
<1>3. h = [i \in 1 .. l |-> Converted(messages[i])]
  BY <1>1 DEF Conversation
<1>4. \A i \in 1 .. l : Converted(messages[i]) \in Items
  BY <1>2, ConvertedItem
<1>5. h \in Seq(Items) /\ Len(h) = l /\ DOMAIN h = 1 .. l
  BY <1>1, <1>3, <1>4
<1> HIDE DEF h
<1>6. \A i \in 1 .. l :
          /\ h[i].kind = "message" /\ h[i].of = messages[i].of
          /\ StandsFor(api, h[i], messages[i])
          /\ "results" \in Parts(h[i]) <=> "results" \in messages[i].parts
  BY <1>2, <1>3, ConvertedItem
<1>7. \A j \in 0 .. l : Spoken(h, j) = j
  BY <1>1, <1>6, AllSpoken
<1>8. Tells(api, h, messages)
  <2>1. l \in 0 .. l
    BY <1>1
  <2>2. \A j \in 1 .. l : StandsFor(api, h[j], messages[Spoken(h, j)])
    BY <1>1, <1>6, <1>7
  <2> QED BY <1>5, <1>7, <2>1, <2>2 DEF Tells
<1>9. UpTo(h, TurnNumber)
  <2>1. \A i \in 1 .. l : messages[i].of \in Nat /\ messages[i].of <= TurnNumber
    BY <1>1, <1>2 DEF MessagesTyped, Numbered, Messages
  <2> QED BY <1>5, <1>6, <2>1 DEF UpTo
<1>10. Paired(h)
  BY <1>5, <1>6 DEF Paired
<1>11. \A t \in Nat, i \in 1 .. l :
           Finds(h[i], t) <=> messages[i].of = t /\ "results" \in messages[i].parts
  BY <1>6 DEF Finds
<1>12. FoundOnce(h)
  <2>1. SUFFICES ASSUME NEW t \in Nat, NEW i \in 1 .. l, NEW j \in 1 .. l,
                        Finds(h[i], t), Finds(h[j], t)
                 PROVE  i = j
    BY <1>5 DEF FoundOnce
  <2>2. messages[i].of = messages[j].of /\ messages[i].role = "user" /\ messages[j].role = "user"
    BY <1>1, <1>11, <2>1 DEF MessagesTyped, Numbered
  <2> QED BY <1>1, <2>2 DEF MessagesTyped, Numbered
<1>13. Reading(api, h, messages, TurnNumber)
  BY <1>5, <1>8, <1>9, <1>10, <1>12 DEF Reading
<1>14. ASSUME step # "idle"
       PROVE  /\ l \in 1 .. l /\ messages[l].role = "user" /\ TurnNumber = messages[l].of
              /\ "results" \in messages[l].parts <=> phase = "toolFree"
  <2>1. messages # <<>> /\ l # 0
    BY <1>1, <1>14, EmptySeq DEF MessagesTyped, Numbered
  <2> QED BY <1>1, <1>14, <2>1 DEF MessagesTyped, Numbered, TurnNumber
<1>15. ASSUME step # "idle", phase # "toolFree" PROVE Uncalled(h, TurnNumber)
  <2>1. SUFFICES ASSUME NEW j \in 1 .. l, Finds(h[j], TurnNumber) PROVE FALSE
    BY <1>5, <1>6 DEF Uncalled
  <2>2. messages[j].of = TurnNumber /\ "results" \in messages[j].parts
    BY <1>1, <1>11, <2>1
  <2>3. messages[j].role = "user"
    BY <1>1, <2>2 DEF MessagesTyped, Numbered
  <2>4. j = l
    BY <1>1, <1>14, <1>15, <2>2, <2>3 DEF MessagesTyped, Numbered
  <2> QED BY <1>14, <1>15, <2>2, <2>4
<1>16. ASSUME step # "idle", phase = "toolFree" PROVE Finds(h[l], TurnNumber)
  BY <1>1, <1>11, <1>14, <1>16
<1> QED BY <1>5, <1>13, <1>14, <1>15, <1>16 DEF h

-----------------------------------------------------------------------------
(* The invariant of the wire.                                              *)

WireTyped ==
    /\ api \in DOMAIN Contents /\ gives \in BOOLEAN /\ stores \in BOOLEAN
    /\ stores /\ gives => api = "responses"
    /\ phase \in {"first", "forced", "toolFree"} /\ found \in BOOLEAN
    /\ step \in {"idle", "building", "waiting", "rejected", "failed"}
    /\ files \in Seq({"processing", "active", "failed"})
    /\ nextID \in Nat \ {0} /\ last \in 0 .. nextID - 1
    /\ chain \in 0 .. nextID - 1 /\ (step # "idle" => chain \in {None, last})
    /\ chain # None => api = "responses"
    /\ DOMAIN kept \subseteq 1 .. nextID - 1
    /\ DOMAIN kept # {} => stores /\ gives
    /\ rounds = <<>> \/ Len(rounds) = 1
    /\ step # "idle" /\ phase # "forced" => rounds = <<>>
    /\ step # "idle" /\ phase = "forced" => api # "gemini"

\* What came before the query of the turn: the response that the turn may
\* name keeps it.
Past == IF step = "idle" THEN messages ELSE SubSeq(messages, 1, Len(messages) - 1)
PastTurn == IF step = "idle" THEN TurnNumber ELSE TurnNumber - 1
KeptTold == last \in DOMAIN kept => Reading(api, kept[last], Past, PastTurn)

\* What the model read when it called tools, or may call them.
HeardFirst ==
    /\ chain = None => heard = Conversation
    /\ chain # None => stores /\ gives
    /\ Reading(api, heard, messages, TurnNumber) /\ Uncalled(heard, TurnNumber)

\* Nothing that is cached precedes a request.
Plain == ~Caching \/ api # "gemini"

FilesReady == step = "waiting" =>
    Len(files) = Cardinality(NeededFiles) /\ \A i \in DOMAIN files : files[i] = "active"

HeardInv == step = "waiting" /\ Plain =>
    /\ Reading(api, heard, messages, TurnNumber)
    /\ phase = "first" => HeardFirst
    /\ phase # "first" => \E j \in DOMAIN heard : Finds(heard[j], TurnNumber)

\* The round that a follow-up brings, and the response that it may name.
RoundInv == step = "building" /\ phase = "forced" =>
    /\ HeardFirst
    /\ \E n \in 1 .. MaxCalls :
        /\ rounds[1].calls = CallsOf(TurnNumber, n)
        /\ rounds[1].items \in {<<>>, Said(TurnNumber, n)}
        /\ chain # None => rounds[1].id \in 1 .. nextID - 1
        /\ rounds[1].id \in DOMAIN kept => kept[rounds[1].id] = heard \o Said(TurnNumber, n)
    /\ rounds # <<>>

WireInv == MessagesTyped /\ WireTyped /\ KeptTold /\ FilesReady /\ HeardInv /\ RoundInv

LEMMA APIKnown == WireTyped => api \in APIs
  BY WireAssumption DEF WireTyped

LEMMA ContentTyped == ASSUME WireTyped, NEW content \in Contents[api]
                      PROVE  content \in SUBSET PartNames /\ "results" \notin content
<1>1. api \in DOMAIN Contents
  BY DEF WireTyped
<1>2. \A p \in content : p \in UNION Contents[api]
  OBVIOUS
<1>3. \A p \in content : p \in UNION (UNION {Contents[a] : a \in DOMAIN Contents})
  BY <1>1
<1> QED BY <1>1, <1>3, WireAssumption DEF PartNames

LEMMA WordsArePart == "text" \in PartNames /\ "results" \in PartNames
<1>1. {"text", "results"} \subseteq PartNames
  BY DEF PartNames
<1> QED BY <1>1

\* All messages but the last.
LEMMA FrontOfAppend ==
    ASSUME NEW ms \in Seq(Messages), NEW m \in Messages
    PROVE  SubSeq(Append(ms, m), 1, Len(ms)) = ms
<1>1. /\ Append(ms, m) \in Seq(Messages) /\ Len(Append(ms, m)) = Len(ms) + 1
      /\ \A i \in 1 .. Len(ms) : Append(ms, m)[i] = ms[i]
  BY AppendProperties
<1>2. Len(ms) \in Nat /\ \A i \in 1 .. Len(ms) : ms[i] \in Messages
  OBVIOUS
<1>3. \A i \in 1 .. Len(ms) : Append(ms, m)[i] \in Messages
  BY <1>1, <1>2
<1> DEFINE q == SubSeq(Append(ms, m), 1, Len(ms))
<1>4. /\ q \in Seq(Messages)
      /\ Len(q) = IF 1 <= Len(ms) THEN Len(ms) - 1 + 1 ELSE 0
      /\ \A i \in 1 .. Len(ms) - 1 + 1 : q[i] = Append(ms, m)[1 + i - 1]
  BY <1>2, <1>3, SubSeqProperties
<1>5. Len(q) = Len(ms)
  BY <1>2, <1>4
<1>6. \A i \in 1 .. Len(q) : q[i] = ms[i]
  <2>1. ASSUME NEW i \in 1 .. Len(ms) PROVE q[i] = ms[i]
    <3>1. i \in 1 .. Len(ms) - 1 + 1 /\ 1 + i - 1 = i
      BY <1>2
    <3>2. q[i] = Append(ms, m)[i]
      BY <1>4, <3>1
    <3> QED BY <1>1, <3>2
  <2> HIDE DEF q
  <2> QED BY <1>5, <2>1
<1> HIDE DEF q
<1>7. q = ms
  BY <1>4, <1>5, <1>6, SeqEqual
<1> QED BY <1>7 DEF q

\* The conversation of a turn, taken apart.
LEMMA LastMessage ==
    ASSUME NEW ms \in Seq(Messages), ms # <<>>
    PROVE  /\ SubSeq(ms, 1, Len(ms) - 1) \in Seq(Messages)
           /\ Len(SubSeq(ms, 1, Len(ms) - 1)) = Len(ms) - 1
           /\ ms[Len(ms)] \in Messages
           /\ Len(ms) \in Nat \ {0} /\ Len(ms) \in 1 .. Len(ms) /\ DOMAIN ms = 1 .. Len(ms)
           /\ Append(SubSeq(ms, 1, Len(ms) - 1), ms[Len(ms)]) = ms
<1>1. PICK q \in Seq(Messages), m \in Messages : ms = Append(q, m)
  BY SequenceEmptyOrAppend
<1>2. Len(q) \in Nat /\ Len(ms) = Len(q) + 1 /\ ms[Len(ms)] = m
  <2>1. Len(q) \in Nat
    OBVIOUS
  <2>2. Len(Append(q, m)) = Len(q) + 1 /\ Append(q, m)[Len(q) + 1] = m
    BY AppendProperties
  <2> QED BY <1>1, <2>1, <2>2
<1>3. SubSeq(ms, 1, Len(ms) - 1) = q
  <2>1. SubSeq(Append(q, m), 1, Len(q)) = q
    BY FrontOfAppend
  <2>2. Len(ms) - 1 = Len(q)
    BY <1>2
  <2> QED BY <1>1, <2>1, <2>2
<1>4. DOMAIN ms = 1 .. Len(ms)
  OBVIOUS
<1> QED BY <1>1, <1>2, <1>3, <1>4

\* Another content of the last message.
Edited(ms, P) == [ms EXCEPT ![Len(ms)].parts = P]

LEMMA LastEdited ==
    ASSUME NEW ms \in Seq(Messages), ms # <<>>, NEW P \in SUBSET PartNames,
           NEW es, es = Edited(ms, P)
    PROVE  /\ es \in Seq(Messages) /\ Len(es) = Len(ms) /\ es # <<>>
           /\ \A i \in 1 .. Len(ms) - 1 : es[i] = ms[i]
           /\ es[Len(ms)] \in Messages
           /\ es[Len(ms)].role = ms[Len(ms)].role /\ es[Len(ms)].of = ms[Len(ms)].of
           /\ es[Len(ms)].parts = P
           /\ SubSeq(es, 1, Len(ms) - 1) = SubSeq(ms, 1, Len(ms) - 1)
<1> DEFINE l == Len(ms)
           m == [ms[l] EXCEPT !.parts = P]
<1>1. /\ l \in Nat /\ l \in 1 .. l /\ ms[l] \in Messages /\ DOMAIN ms = 1 .. l
      /\ \A i \in 1 .. l : ms[i] \in Messages
  <2>1. l \in Nat /\ l \in 1 .. l /\ DOMAIN ms = 1 .. l
    BY LastMessage
  <2>2. \A i \in 1 .. l : ms[i] \in Messages
    BY ElementOfSeq
  <2> QED BY <2>1, <2>2
<1>2. m \in Messages /\ m.role = ms[l].role /\ m.of = ms[l].of /\ m.parts = P
  BY <1>1 DEF Messages
<1>3. es = [ms EXCEPT ![l] = m]
  BY DEF Edited
<1> HIDE DEF m, l
<1>4. es \in Seq(Messages) /\ Len(es) = l /\ es[l] = m /\ \A i \in 1 .. l - 1 : es[i] = ms[i]
  <2>1. es = [i \in 1 .. l |-> IF i = l THEN m ELSE ms[i]]
    BY <1>1, <1>3
  <2>2. \A i \in 1 .. l : (IF i = l THEN m ELSE ms[i]) \in Messages
    BY <1>1, <1>2
  <2>3. es \in Seq(Messages) /\ Len(es) = l
    BY <1>1, <2>1, <2>2
  <2> QED BY <1>1, <2>1, <2>3
<1>5. es # <<>>
  BY <1>1, <1>4
<1>6. SubSeq(es, 1, l - 1) = SubSeq(ms, 1, l - 1)
  <2>1. SubSeq(es, 1, l - 1) \in Seq(Messages) /\ Len(SubSeq(es, 1, l - 1)) = l - 1
    BY <1>4, <1>5, LastMessage
  <2>2. SubSeq(ms, 1, l - 1) \in Seq(Messages) /\ Len(SubSeq(ms, 1, l - 1)) = l - 1
    BY LastMessage DEF l
  <2>3. \A i \in 1 .. l - 1 : SubSeq(es, 1, l - 1)[i] = SubSeq(ms, 1, l - 1)[i]
    <3>1. l - 1 \in 0 .. l
      BY <1>1
    <3>2. /\ SubSeq(es, 1, l - 1) = Restrict(es, 1 .. l - 1)
          /\ SubSeq(ms, 1, l - 1) = Restrict(ms, 1 .. l - 1)
      BY <1>4, <3>1, SubSeqRestrict DEF l
    <3> QED BY <1>4, <3>2 DEF Restrict
  <2> QED BY <2>1, <2>2, <2>3, SeqEqual
<1> QED BY <1>1, <1>2, <1>4, <1>5, <1>6 DEF l

LEMMA NumberedEdited ==
    ASSUME NEW ms, NEW t, Numbered(ms, t), ms # <<>>, NEW P \in SUBSET PartNames,
           ms[Len(ms)].role = "user"
    PROVE  Numbered(Edited(ms, P), t)
<1> DEFINE l == Len(ms)
           es == Edited(ms, P)
<1>1. ms \in Seq(Messages) /\ l \in 1 .. l /\ DOMAIN ms = 1 .. l /\ l \in Nat
  BY LastMessage DEF Numbered
<1>2. /\ es \in Seq(Messages) /\ Len(es) = l
      /\ \A i \in 1 .. l - 1 : es[i] = ms[i]
      /\ es[l].role = ms[l].role /\ es[l].of = ms[l].of
  BY <1>1, LastEdited
<1> HIDE DEF es, l
<1>3. DOMAIN es = 1 .. l
  BY <1>2
<1>4. \A i \in 1 .. l : i \in 1 .. l - 1 \/ i = l
  BY <1>1
<1>5. \A i \in 1 .. l : es[i].role = ms[i].role /\ es[i].of = ms[i].of
  BY <1>2, <1>4
<1>6. \A i \in 1 .. l : "results" \in es[i].parts => es[i].role = "user"
  BY <1>1, <1>2, <1>4 DEF Numbered
<1>7. Numbered(es, t)
  BY <1>1, <1>2, <1>3, <1>5, <1>6 DEF Numbered
<1> QED BY <1>7 DEF es

-----------------------------------------------------------------------------
(* A request.                                                              *)

\* What is read for a request that no cached content precedes.
LEMMA HeardRequest ==
    ASSUME Submit, step' = "waiting", Plain,
           IF Previous = None THEN TRUE ELSE kept[Previous] \in Seq(Items),
           Request \in Seq(Items)
    PROVE  /\ Previous # None => Previous \in DOMAIN kept
           /\ heard' = IF Previous = None THEN Request ELSE kept[Previous] \o Request
<1> DEFINE named == IF Previous = None THEN <<>> ELSE kept[Previous]
<1>1. /\ Previous # None => Previous \in DOMAIN kept
      /\ heard' = named \o <<>> \o Request
  <2>1. ~(Previous # None /\ Previous \notin DOMAIN kept)
    BY DEF Submit
  <2>2. PICK cached \in {FALSE, Caching /\ api = "gemini" /\ CachePrefix # <<>>} :
            heard' = Read(cached)
    BY <2>1 DEF Submit
  <2>3. ~cached
    BY <2>2 DEF Plain
  <2> QED BY <2>1, <2>2, <2>3 DEF Read
<1>2. named \in Seq(Items)
  BY EmptySeq
<1>3. named \o <<>> = named
  BY <1>2, ConcatEmptySeq
<1>4. <<>> \o Request = Request
  BY ConcatEmptySeq
<1> QED BY <1>1, <1>3, <1>4

\* The first request of a turn, and the one without tools.
LEMMA ReadUnforced ==
    ASSUME WireInv, Submit, step' = "waiting", Plain, phase # "forced"
    PROVE  /\ Reading(api, heard', messages, TurnNumber)
           /\ chain = None => heard' = Conversation
           /\ chain # None => stores /\ gives
           /\ phase # "toolFree" => Uncalled(heard', TurnNumber)
           /\ phase = "toolFree" => \E j \in DOMAIN heard' : Finds(heard'[j], TurnNumber)
<1>1. /\ MessagesTyped /\ WireTyped /\ KeptTold /\ api \in APIs /\ step = "building"
      /\ messages \in Seq(Messages) /\ messages # <<>> /\ TurnNumber \in Nat
  BY APIKnown, TurnIsNat DEF WireInv, Submit, MessagesTyped, Numbered
<1>2. rounds = <<>>
  BY <1>1 DEF WireTyped
<1>3. /\ Reading(api, Conversation, messages, TurnNumber) /\ Conversation \in Seq(Items)
      /\ phase # "toolFree" => Uncalled(Conversation, TurnNumber)
      /\ phase = "toolFree" => \E j \in DOMAIN Conversation : Finds(Conversation[j], TurnNumber)
  BY <1>1, ReadConversation DEF Reading
<1>4. Conversation \o RoundItems = Conversation
  BY <1>2, <1>3, ConcatEmptySeq DEF RoundItems
<1>5. CASE chain = None
  <2>1. Previous = None
    BY <1>5 DEF Previous
  <2>2. Request = Conversation
    <3>1. ResponsesRequest = Conversation
      BY <1>4, <2>1 DEF ResponsesRequest
    <3>2. ChatRequest = Conversation /\ ClaudeRequest = Conversation /\ GeminiRequest = Conversation
      BY <1>4 DEF ChatRequest, ClaudeRequest, GeminiRequest
    <3> QED BY <1>1, <3>1, <3>2 DEF Request, APIs
  <2>3. heard' = Conversation
    BY <1>3, <2>1, <2>2, HeardRequest
  <2> QED BY <1>3, <1>5, <2>3
<1>6. CASE chain # None
  <2> DEFINE q == messages[Len(messages)]
             h == kept[chain]
             x == Converted(q)
  <2>1. api = "responses" /\ chain = last
    BY <1>1, <1>6 DEF WireTyped
  <2>2. Previous = chain
    BY <1>2, <1>6, <2>1 DEF Previous
  <2>3. q \in Messages /\ Append(Past, q) = messages /\ Past \in Seq(Messages)
    BY <1>1, LastMessage DEF Past
  <2>4. /\ x \in Items /\ x.kind = "message" /\ x.of = q.of /\ StandsFor(api, x, q)
        /\ "results" \in Parts(x) <=> "results" \in q.parts
    BY <1>1, <2>3, ConvertedItem
  <2>5. Request = <<x>>
    <3>1. Request = ResponsesRequest
      BY <2>1 DEF Request
    <3>2. ResponsesRequest = [i \in DOMAIN Unstored(messages) |-> Converted(Unstored(messages)[i])]
      BY <1>2, <1>6, <2>2 DEF ResponsesRequest
    <3>3. Unstored(messages) = <<q>>
      BY DEF Unstored
    <3>4. [i \in DOMAIN <<q>> |-> Converted(<<q>>[i])] = <<Converted(q)>>
      <4> HIDE DEF q
      <4> QED OBVIOUS
    <3> QED BY <3>1, <3>2, <3>3, <3>4
  <2>6. chain \in DOMAIN kept
    BY <1>6, <2>2 DEF Submit
  <2>7. Reading(api, h, Past, PastTurn)
    BY <1>1, <2>1, <2>6 DEF KeptTold
  <2>8. <<x>> \in Seq(Items) /\ h \in Seq(Items)
    BY <2>4, <2>7 DEF Reading
  <2>9. heard' = h \o <<x>>
    BY <1>6, <2>2, <2>5, <2>8, HeardRequest
  <2>10. /\ q.of = TurnNumber /\ PastTurn = TurnNumber - 1 /\ TurnNumber >= 1
         /\ "results" \in q.parts <=> phase = "toolFree"
    BY <1>1 DEF MessagesTyped, Numbered, TurnNumber, PastTurn
  <2>11. PastTurn \in Nat /\ PastTurn <= q.of
    BY <1>1, <2>10
  <2> HIDE DEF q, h, x
  <2>12. \A j \in DOMAIN h : /\ h[j].kind \in {"message", "reasoning", "call", "output"}
                             /\ ~Finds(h[j], TurnNumber)
                             /\ h[j].kind \in {"call", "output"} => h[j].of[1] < TurnNumber
    <3>1. SUFFICES ASSUME NEW j \in DOMAIN h
                   PROVE  /\ h[j].kind \in {"message", "reasoning", "call", "output"}
                          /\ ~Finds(h[j], TurnNumber)
                          /\ h[j].kind \in {"call", "output"} => h[j].of[1] < TurnNumber
      OBVIOUS
    <3>2. h[j] \in Items
      BY <2>8
    <3>3. h[j].kind \in {"message", "reasoning", "call", "output"}
      BY <3>2 DEF Items
    <3>4. UpTo(h, PastTurn)
      BY <2>7 DEF Reading
    <3>5. CASE h[j].kind \in {"message", "reasoning"}
      <4>1. h[j].of \in Nat /\ h[j].of <= TurnNumber - 1
        BY <2>10, <3>4, <3>5 DEF UpTo
      <4>2. h[j].of # TurnNumber
        BY <1>1, <4>1
      <4> QED BY <3>3, <3>5, <4>2 DEF Finds
    <3>6. CASE h[j].kind \in {"call", "output"}
      <4>1. h[j].of \in Nat \X Nat /\ h[j].of[1] <= TurnNumber - 1
        BY <2>10, <3>4, <3>6 DEF UpTo
      <4>2. h[j].of[1] \in Nat
        BY <4>1
      <4>3. h[j].of[1] < TurnNumber
        BY <1>1, <4>1, <4>2
      <4>4. h[j].of # <<TurnNumber, 1>>
        BY <1>1, <4>2, <4>3
      <4> QED BY <3>3, <3>6, <4>3, <4>4 DEF Finds
    <3> QED BY <3>3, <3>5, <3>6
  <2>13. \A i \in DOMAIN h : ~Finds(h[i], q.of)
    BY <2>10, <2>12
  <2>14. Reading(api, heard', messages, TurnNumber)
    <3>1. Reading(api, h \o <<x>>, Append(Past, q), q.of)
      BY <2>3, <2>4, <2>7, <2>11, <2>13, ReadMessage
    <3> QED BY <2>3, <2>9, <2>10, <3>1
  <2>15. stores /\ gives
    BY <1>1, <2>6 DEF WireTyped
  <2>16. /\ Len(h) \in Nat /\ DOMAIN h = 1 .. Len(h) /\ DOMAIN heard' = 1 .. Len(h) + 1
         /\ \A i \in 1 .. Len(h) : heard'[i] = h[i]
         /\ heard'[Len(h) + 1] = x
    <3>1. Len(<<x>>) = 1 /\ <<x>>[1] = x /\ Len(h) \in Nat /\ DOMAIN h = 1 .. Len(h)
      BY <2>8
    <3>2. heard' \in Seq(Items) /\ Len(heard') = Len(h) + 1
      BY <2>8, <2>9, <3>1, ConcatProperties
    <3>3. \A i \in 1 .. Len(h) + 1 : heard'[i] = IF i <= Len(h) THEN h[i] ELSE <<x>>[i - Len(h)]
      BY <2>8, <2>9, <3>1, ConcatProperties
    <3>4. DOMAIN heard' = 1 .. Len(h) + 1
      BY <3>2
    <3> QED BY <3>1, <3>3, <3>4
  <2>17. x.kind = "message" /\ x.of = TurnNumber /\ ("results" \in Parts(x) <=> phase = "toolFree")
    BY <2>4, <2>10
  <2>18. ASSUME phase # "toolFree" PROVE Uncalled(heard', TurnNumber)
    <3>1. ~Finds(x, TurnNumber)
      BY <2>17, <2>18 DEF Finds
    <3>2. \A i \in DOMAIN heard' : (i \in DOMAIN h /\ heard'[i] = h[i]) \/ heard'[i] = x
      BY <2>16
    <3> QED BY <2>12, <2>17, <3>1, <3>2 DEF Uncalled
  <2>19. ASSUME phase = "toolFree" PROVE \E j \in DOMAIN heard' : Finds(heard'[j], TurnNumber)
    <3>1. Finds(heard'[Len(h) + 1], TurnNumber)
      BY <2>16, <2>17, <2>19 DEF Finds
    <3>2. Len(h) + 1 \in DOMAIN heard'
      BY <2>16
    <3> QED BY <3>1, <3>2
  <2> QED BY <1>6, <2>14, <2>15, <2>18, <2>19
<1> QED BY <1>5, <1>6

\* A follow-up adds the round to what was read before.
LEMMA ReadForced ==
    ASSUME WireInv, Submit, step' = "waiting", phase = "forced"
    PROVE  /\ heard \in Seq(Items)
           /\ \E n \in Nat \ {0}, b \in {0, 1}, s \in Seq(Items) :
                 Round(s, TurnNumber, n, b) /\ heard' = heard \o s
<1> DEFINE t == TurnNumber
           r == rounds[1]
<1>1. /\ MessagesTyped /\ WireTyped /\ api \in APIs /\ step = "building" /\ t \in Nat
      /\ HeardFirst /\ api # "gemini" /\ rounds # <<>>
  BY APIKnown, TurnIsNat DEF WireInv, Submit, MessagesTyped, Numbered, RoundInv, WireTyped
<1>2. PICK n \in 1 .. MaxCalls :
          /\ r.calls = CallsOf(t, n)
          /\ r.items \in {<<>>, Said(t, n)}
          /\ chain # None => r.id \in 1 .. nextID - 1
          /\ r.id \in DOMAIN kept => kept[r.id] = heard \o Said(t, n)
  BY <1>1 DEF WireInv, RoundInv
<1>3. n \in Nat \ {0}
  BY WireAssumption
<1> DEFINE outs == OutputsOf(t, n)
           calls == CallItems(CallsOf(t, n))
           said == Said(t, n)
<1>4. /\ outs \in Seq(Items) /\ calls \in Seq(Items) /\ said \in Seq(Items)
      /\ OutputItems(r) = outs
      /\ Round(calls \o outs, t, n, 0) /\ Round(said \o outs, t, n, 1)
  BY <1>1, <1>2, <1>3, CallItemsType, SaidType, RoundIs
<1>5. ResponseItems(r) \in {calls, said}
  BY <1>2 DEF ResponseItems
<1>6. Plain
  BY <1>1 DEF Plain
<1>7. heard \in Seq(Items)
  BY <1>1 DEF HeardFirst, Reading
<1> HIDE DEF t, r, outs, calls, said
<1>8. CASE chain = None
  <2>1. Previous = None
    BY <1>8 DEF Previous
  <2>2. Request = heard \o RoundItems
    BY <1>1, <1>8, <2>1 DEF Request, ChatRequest, ClaudeRequest, ResponsesRequest, APIs, HeardFirst
  <2>3. RoundItems = ResponseItems(r) \o outs
    BY <1>1, <1>4 DEF RoundItems, r
  <2>4. RoundItems \in Seq(Items)
    BY <1>4, <1>5, <2>3, ConcatProperties
  <2>5. Request \in Seq(Items)
    BY <1>7, <2>2, <2>4, ConcatProperties
  <2>6. heard' = heard \o RoundItems
    BY <1>6, <2>1, <2>2, <2>5, HeardRequest
  <2>7. CASE ResponseItems(r) = calls
    BY <1>3, <1>4, <1>7, <2>3, <2>4, <2>6, <2>7 DEF t
  <2>8. CASE ResponseItems(r) = said
    BY <1>3, <1>4, <1>7, <2>3, <2>4, <2>6, <2>8 DEF t
  <2> QED BY <1>5, <2>7, <2>8
<1>9. CASE chain # None
  <2>1. api = "responses" /\ stores
    BY <1>1, <1>9 DEF WireTyped, HeardFirst
  <2>2. Previous = r.id
    BY <1>1, <1>9, <2>1 DEF Previous, r
  <2>3. r.id # None
    BY <1>1, <1>2, <1>9 DEF None, WireTyped
  <2>4. Request = outs
    BY <1>1, <1>4, <2>1, <2>2, <2>3 DEF Request, ResponsesRequest, r
  <2>5. r.id \in DOMAIN kept
    BY <2>2, <2>3 DEF Submit
  <2>6. kept[r.id] = heard \o said
    BY <1>2, <2>5 DEF said, t
  <2>7. heard \o said \in Seq(Items)
    BY <1>4, <1>7, ConcatProperties
  <2>8. heard' = (heard \o said) \o outs
    BY <1>4, <1>6, <2>2, <2>3, <2>4, <2>6, <2>7, HeardRequest
  <2>9. heard' = heard \o (said \o outs)
    BY <1>4, <1>7, <2>8, ConcatAssociative
  <2>10. said \o outs \in Seq(Items)
    BY <1>4, ConcatProperties
  <2> QED BY <1>3, <1>4, <1>7, <2>9, <2>10 DEF t
<1> QED BY <1>8, <1>9

-----------------------------------------------------------------------------
(* The steps.                                                              *)

LEMMA WireBegins == WireInit => WireInv
<1> SUFFICES ASSUME WireInit PROVE WireInv
  OBVIOUS
<1>1. messages \in {<<>>, <<Message("system", 0, {"text"})>>} /\ step = "idle"
  BY DEF WireInit
<1>2. Message("system", 0, {"text"}) \in Messages
  <2>1. "text" \in PartNames
    BY WordsArePart
  <2> QED BY <2>1 DEF Message, Messages
<1>3. MessagesTyped
  <2>1. CASE messages = <<>>
    BY <1>1, <2>1, EmptySeq DEF MessagesTyped, Numbered
  <2>2. CASE messages = <<Message("system", 0, {"text"})>>
    <3>1. /\ messages \in Seq(Messages) /\ Len(messages) = 1 /\ DOMAIN messages = {1}
          /\ messages[1].of = 0 /\ messages[1].role = "system" /\ messages[1].parts = {"text"}
      BY <1>2, <2>2 DEF Message
    <3>2. TurnNumber = 0
      BY <2>2, <3>1 DEF TurnNumber
    <3> QED BY <1>1, <3>1, <3>2 DEF MessagesTyped, Numbered
  <2> QED BY <1>1, <2>1, <2>2
<1>4. DOMAIN kept = {}
  BY DEF WireInit
<1>5. WireTyped
  <2>1. files \in Seq({"processing", "active", "failed"})
    BY EmptySeq DEF WireInit
  <2>2. nextID = 1 /\ last = 0 /\ chain = 0 /\ 0 \in 0 .. 1 - 1
    BY DEF WireInit, None
  <2>3. /\ api \in DOMAIN Contents /\ gives \in BOOLEAN /\ stores \in BOOLEAN
        /\ stores /\ gives => api = "responses"
        /\ phase = "first" /\ found = FALSE /\ rounds = <<>>
    BY DEF WireInit
  <2>4. nextID \in Nat \ {0} /\ last \in 0 .. nextID - 1 /\ chain \in 0 .. nextID - 1
    BY <2>2
  <2>5. DOMAIN kept \subseteq 1 .. nextID - 1
    BY <1>4
  <2> QED BY <1>1, <1>4, <2>1, <2>2, <2>3, <2>4, <2>5 DEF WireTyped, None
<1>6. KeptTold /\ FilesReady /\ HeardInv /\ RoundInv
  BY <1>1, <1>4 DEF KeptTold, FilesReady, HeardInv, RoundInv
<1> QED BY <1>3, <1>5, <1>6 DEF WireInv

LEMMA WireBegin ==
    ASSUME WireInv, NEW content \in Contents[api], Begin(content)
    PROVE  WireInv'
<1> DEFINE q == Message("user", TurnNumber + 1, content)
<1>1. /\ MessagesTyped /\ WireTyped /\ KeptTold /\ messages \in Seq(Messages)
      /\ TurnNumber \in Nat /\ content \in SUBSET PartNames /\ "results" \notin content
  BY ContentTyped, TurnIsNat DEF WireInv, MessagesTyped, Numbered
<1>2. /\ step = "idle" /\ messages' = Append(messages, q)
      /\ chain' \in (IF api = "responses" THEN {None, last} ELSE {None})
      /\ phase' = "first" /\ rounds' = <<>> /\ found' = FALSE /\ files' = <<>>
      /\ kept' = Restrict(kept, DOMAIN kept \cap {last}) /\ step' = "building"
      /\ api' = api /\ gives' = gives /\ stores' = stores /\ nextID' = nextID /\ last' = last
  BY DEF Begin, backend
<1>3. q \in Messages /\ q.role = "user" /\ q.of = TurnNumber + 1 /\ q.parts = content
  BY <1>1 DEF Message, Messages
<1> HIDE DEF q
<1>4. /\ messages' \in Seq(Messages) /\ Len(messages') = Len(messages) + 1 /\ Len(messages) \in Nat
      /\ messages' # <<>> /\ DOMAIN messages' = 1 .. Len(messages) + 1
      /\ \A i \in 1 .. Len(messages) : messages'[i] = messages[i]
      /\ messages'[Len(messages) + 1] = q
  <2>1. /\ Append(messages, q) \in Seq(Messages) /\ Append(messages, q) # <<>>
        /\ Len(Append(messages, q)) = Len(messages) + 1
        /\ \A i \in 1 .. Len(messages) : Append(messages, q)[i] = messages[i]
        /\ Append(messages, q)[Len(messages) + 1] = q
    BY <1>1, <1>3, AppendProperties
  <2>2. Len(messages) \in Nat /\ DOMAIN messages' = 1 .. Len(messages')
    BY <1>1, <1>2, <2>1, LenProperties
  <2> QED BY <1>2, <2>1, <2>2
<1>5. TurnNumber' = TurnNumber + 1
  BY <1>3, <1>4 DEF TurnNumber
<1>6. MessagesTyped'
  <2>1. \A i \in 1 .. Len(messages) :
            /\ messages[i].of \in Nat /\ messages[i].of <= TurnNumber
            /\ "results" \in messages[i].parts => messages[i].role = "user"
    <3>1. \A i \in 1 .. Len(messages) : i \in DOMAIN messages /\ messages[i] \in Messages
      BY <1>1
    <3> QED BY <1>1, <3>1 DEF MessagesTyped, Numbered, Messages
  <2>2. \A i \in DOMAIN messages' :
            /\ messages'[i].of <= TurnNumber'
            /\ "results" \in messages'[i].parts => messages'[i].role = "user"
    BY <1>1, <1>3, <1>4, <1>5, <2>1
  <2>3. ASSUME NEW i \in DOMAIN messages', NEW j \in DOMAIN messages',
               messages'[i].role = "user", messages'[j].role = "user",
               messages'[i].of = messages'[j].of
        PROVE  i = j
    <3>1. CASE i \in 1 .. Len(messages) /\ j \in 1 .. Len(messages)
      BY <1>1, <1>4, <2>3, <3>1 DEF MessagesTyped, Numbered
    <3>2. CASE ~(i \in 1 .. Len(messages) /\ j \in 1 .. Len(messages))
      BY <1>1, <1>3, <1>4, <2>1, <2>3, <3>2
    <3> QED BY <3>1, <3>2
  <2>4. /\ messages'[Len(messages')].role = "user" /\ TurnNumber' >= 1
        /\ "results" \in messages'[Len(messages')].parts <=> phase' = "toolFree"
    BY <1>1, <1>2, <1>3, <1>4, <1>5
  <2> QED BY <1>4, <2>2, <2>3, <2>4 DEF MessagesTyped, Numbered
<1>7. DOMAIN kept' \subseteq DOMAIN kept /\ \A id \in DOMAIN kept' : kept'[id] = kept[id]
  BY <1>2 DEF Restrict
<1>8. WireTyped'
  <2>1. files' \in Seq({"processing", "active", "failed"})
    BY <1>2, EmptySeq
  <2>2. /\ chain' \in {None, last'} /\ chain' \in 0 .. nextID' - 1
        /\ (chain' # None => api' = "responses")
    BY <1>1, <1>2 DEF WireTyped, None
  <2> QED BY <1>1, <1>2, <1>7, <2>1, <2>2 DEF WireTyped
<1>9. KeptTold'
  <2>1. Past' = messages
    <3>1. Past' = SubSeq(messages', 1, Len(messages') - 1)
      BY <1>2 DEF Past
    <3>2. Len(messages') - 1 = Len(messages)
      BY <1>4
    <3> QED BY <1>1, <1>2, <1>3, <3>1, <3>2, FrontOfAppend
  <2>2. PastTurn' = TurnNumber
    BY <1>1, <1>2, <1>5 DEF PastTurn
  <2>3. Past = messages /\ PastTurn = TurnNumber
    BY <1>2 DEF Past, PastTurn
  <2> QED BY <1>1, <1>2, <1>7, <2>1, <2>2, <2>3 DEF KeptTold
<1>10. FilesReady' /\ HeardInv' /\ RoundInv'
  BY <1>2 DEF FilesReady, HeardInv, RoundInv
<1> QED BY <1>6, <1>8, <1>9, <1>10 DEF WireInv

\* A file more or less, or a request that is not sent.
LEMMA WireQuiet ==
    ASSUME WireInv, step = "building", step' \in {"building", "failed", "rejected"},
           files' \in Seq({"processing", "active", "failed"}),
           UNCHANGED <<backend, turn, heard, server, last>>
    PROVE  WireInv'
<1>1. /\ api' = api /\ gives' = gives /\ stores' = stores /\ messages' = messages /\ chain' = chain
      /\ phase' = phase /\ rounds' = rounds /\ found' = found /\ heard' = heard
      /\ kept' = kept /\ nextID' = nextID /\ last' = last
  BY DEF backend, turn, server
<1>2. MessagesTyped /\ WireTyped /\ KeptTold /\ RoundInv
  BY DEF WireInv
<1>3. TurnNumber' = TurnNumber
  BY <1>1 DEF TurnNumber
<1>4. MessagesTyped'
  BY <1>1, <1>2, <1>3 DEF MessagesTyped, Numbered
<1>5. WireTyped'
  BY <1>1, <1>2 DEF WireTyped
<1>6. Past' = Past /\ PastTurn' = PastTurn
  BY <1>1, <1>3 DEF Past, PastTurn
<1>7. KeptTold'
  BY <1>1, <1>2, <1>6 DEF KeptTold
<1>8. FilesReady' /\ HeardInv'
  BY DEF FilesReady, HeardInv
<1>9. Conversation' = Conversation
  BY <1>1 DEF Conversation, Converted, WithQuery, Form, ChatForm, ResponsesForm, ClaudeForm,
              GeminiForm, RoleOf, Item
<1>10. RoundInv'
  BY <1>1, <1>2, <1>3, <1>9 DEF RoundInv, HeardFirst
<1> QED BY <1>4, <1>5, <1>7, <1>8, <1>10 DEF WireInv

LEMMA WireSubmit == ASSUME WireInv, Submit PROVE WireInv'
<1>1. /\ api' = api /\ gives' = gives /\ stores' = stores /\ messages' = messages /\ chain' = chain
      /\ phase' = phase /\ rounds' = rounds /\ found' = found /\ files' = files
      /\ kept' = kept /\ nextID' = nextID /\ last' = last
      /\ step = "building" /\ step' \in {"rejected", "waiting"}
  BY DEF Submit, backend, turn, server
<1>2. MessagesTyped /\ WireTyped /\ KeptTold /\ RoundInv /\ TurnNumber \in Nat
  BY TurnIsNat DEF WireInv, MessagesTyped, Numbered
<1>3. CASE step' = "rejected"
  <2>1. heard' = heard
    BY <1>3 DEF Submit
  <2>2. files' \in Seq({"processing", "active", "failed"})
    BY <1>1, <1>2 DEF WireTyped
  <2> QED BY <1>1, <1>3, <2>1, <2>2, WireQuiet DEF backend, turn, server
<1>4. CASE step' = "waiting"
  <2>1. TurnNumber' = TurnNumber
    BY <1>1 DEF TurnNumber
  <2>2. MessagesTyped'
    BY <1>1, <1>2, <1>4, <2>1 DEF MessagesTyped, Numbered
  <2>3. WireTyped'
    BY <1>1, <1>2, <1>4 DEF WireTyped
  <2>4. Past' = Past /\ PastTurn' = PastTurn
    BY <1>1, <1>4, <2>1 DEF Past, PastTurn
  <2>5. KeptTold'
    BY <1>1, <1>2, <2>4 DEF KeptTold
  <2>6. Conversation' = Conversation
    BY <1>1 DEF Conversation, Converted, WithQuery, Form, ChatForm, ResponsesForm, ClaudeForm,
                GeminiForm, RoleOf, Item
  <2>7. FilesReady'
    <3>1. NeededFiles' = NeededFiles
      BY <1>1 DEF NeededFiles, Converted, WithQuery, Form, ChatForm, ResponsesForm, ClaudeForm,
                  GeminiForm, RoleOf, Item
    <3> QED BY <1>1, <3>1 DEF FilesReady, Submit
  <2>8. HeardInv'
    <3>1. SUFFICES ASSUME Plain
                   PROVE  /\ Reading(api', heard', messages', TurnNumber')
                          /\ phase' = "first" => HeardFirst'
                          /\ phase' # "first" =>
                                \E j \in DOMAIN heard' : Finds(heard'[j], TurnNumber')
      BY <1>1 DEF HeardInv, Plain
    <3>2. CASE phase # "forced"
      <4>1. /\ Reading(api, heard', messages, TurnNumber)
            /\ chain = None => heard' = Conversation
            /\ chain # None => stores /\ gives
            /\ phase # "toolFree" => Uncalled(heard', TurnNumber)
            /\ phase = "toolFree" => \E j \in DOMAIN heard' : Finds(heard'[j], TurnNumber)
        BY <1>4, <3>1, <3>2, ReadUnforced
      <4>2. phase \in {"first", "forced", "toolFree"}
        BY <1>2 DEF WireTyped
      <4>3. phase' = "first" => HeardFirst'
        BY <1>1, <2>1, <2>6, <4>1 DEF HeardFirst
      <4> QED BY <1>1, <2>1, <3>2, <4>1, <4>2, <4>3
    <3>3. CASE phase = "forced"
      <4>1. PICK n \in Nat \ {0}, b \in {0, 1}, s \in Seq(Items) :
                Round(s, TurnNumber, n, b) /\ heard' = heard \o s
        BY <1>4, <3>3, ReadForced
      <4>2. Reading(api, heard, messages, TurnNumber) /\ Uncalled(heard, TurnNumber)
        BY <1>1, <1>2, <3>3 DEF RoundInv, HeardFirst
      <4>3. /\ Reading(api, heard \o s, messages, TurnNumber)
            /\ \E j \in DOMAIN (heard \o s) : Finds((heard \o s)[j], TurnNumber)
        BY <1>2, <4>1, <4>2, ReadRound
      <4> QED BY <1>1, <2>1, <3>3, <4>1, <4>3
    <3> QED BY <3>2, <3>3
  <2>9. RoundInv'
    BY <1>4 DEF RoundInv
  <2> QED BY <2>2, <2>3, <2>5, <2>7, <2>8, <2>9 DEF WireInv
<1> QED BY <1>1, <1>3, <1>4

\* What is kept after a response.
LEMMA KeptAfter ==
    ASSUME WireTyped, NEW said, Respond(said)
    PROVE  /\ nextID' = nextID + 1
           /\ stores /\ gives => /\ DOMAIN kept' = DOMAIN kept \cup {nextID}
                                 /\ kept'[nextID] = heard \o said
                                 /\ \A id \in DOMAIN kept : kept'[id] = kept[id]
           /\ ~(stores /\ gives) => kept' = kept /\ DOMAIN kept = {}
           /\ DOMAIN kept' \subseteq 1 .. nextID' - 1
<1>1. nextID \in Nat \ {0} /\ nextID' = nextID + 1 /\ DOMAIN kept \subseteq 1 .. nextID - 1
  BY DEF WireTyped, Respond
<1>2. nextID \notin DOMAIN kept
  BY <1>1
<1>3. CASE stores /\ gives
  <2>1. kept' = [id \in DOMAIN kept \cup {nextID} |->
                    IF id = nextID THEN heard \o said ELSE kept[id]]
    BY <1>3 DEF Respond
  <2> QED BY <1>1, <1>2, <1>3, <2>1
<1>4. CASE ~(stores /\ gives)
  <2>1. kept' = kept /\ DOMAIN kept = {}
    BY <1>4 DEF Respond, WireTyped
  <2> QED BY <1>1, <1>4, <2>1
<1> QED BY <1>1, <1>3, <1>4

LEMMA WireCallTools ==
    ASSUME WireInv, NEW n \in 1 .. MaxCalls, CallTools(n)
    PROVE  WireInv'
<1> DEFINE t == TurnNumber
           said == Said(t, n)
<1>1. /\ step = "waiting" /\ phase = "first" /\ api # "gemini" /\ phase' = "forced" /\ found' = TRUE
      /\ step' = "building" /\ messages' = messages /\ chain' = chain /\ files' = files
      /\ api' = api /\ gives' = gives /\ stores' = stores /\ heard' = heard /\ last' = last
  BY DEF CallTools, backend, wire
<1>2. MessagesTyped /\ WireTyped /\ KeptTold /\ HeardInv /\ t \in Nat /\ Plain
  BY <1>1, TurnIsNat DEF WireInv, MessagesTyped, Numbered, Plain
<1>3. /\ Respond(said)
      /\ \E items \in {<<>>, said} :
            rounds' = <<[id |-> ResponseID, calls |-> CallsOf(t, n), items |-> items]>>
  <2>1. PICK captured \in BOOLEAN :
            /\ Respond(<<Item("reasoning", "assistant", TurnNumber, {})>>
                       \o CallItems([k \in 1 .. n |-> <<TurnNumber, k>>]))
            /\ rounds' = <<[id |-> ResponseID, calls |-> [k \in 1 .. n |-> <<TurnNumber, k>>],
                            items |-> IF captured
                                      THEN <<Item("reasoning", "assistant", TurnNumber, {})>>
                                           \o CallItems([k \in 1 .. n |-> <<TurnNumber, k>>])
                                      ELSE <<>>]>>
    BY DEF CallTools
  <2> QED BY <2>1 DEF Said, CallsOf
<1> HIDE DEF said
<1>4. /\ nextID' = nextID + 1
      /\ stores /\ gives => /\ DOMAIN kept' = DOMAIN kept \cup {nextID}
                            /\ kept'[nextID] = heard \o said
                            /\ \A id \in DOMAIN kept : kept'[id] = kept[id]
      /\ ~(stores /\ gives) => kept' = kept /\ DOMAIN kept = {}
      /\ DOMAIN kept' \subseteq 1 .. nextID' - 1
  BY <1>2, <1>3, KeptAfter
<1>5. /\ nextID \in Nat \ {0} /\ last \in 0 .. nextID - 1 /\ chain \in 0 .. nextID - 1
      /\ gives \in BOOLEAN /\ stores \in BOOLEAN
  BY <1>2 DEF WireTyped
<1>6. /\ Len(rounds') = 1 /\ rounds' # <<>>
      /\ rounds'[1].id = ResponseID /\ rounds'[1].calls = CallsOf(t, n)
      /\ rounds'[1].items \in {<<>>, said}
  BY <1>3
<1>7. t' = t
  BY <1>1 DEF TurnNumber
<1>8. MessagesTyped'
  <2>1. "results" \notin messages[Len(messages)].parts
    BY <1>1, <1>2 DEF MessagesTyped, Numbered
  <2> QED BY <1>1, <1>2, <1>7, <2>1 DEF MessagesTyped, Numbered
<1>9. WireTyped'
  <2>1. nextID' \in Nat \ {0} /\ last' \in 0 .. nextID' - 1 /\ chain' \in 0 .. nextID' - 1
    BY <1>1, <1>4, <1>5
  <2>2. DOMAIN kept' # {} => stores' /\ gives'
    BY <1>1, <1>4
  <2> QED BY <1>1, <1>2, <1>4, <1>6, <2>1, <2>2 DEF WireTyped
<1>10. KeptTold'
  <2>1. Past' = Past /\ PastTurn' = PastTurn
    BY <1>1, <1>7 DEF Past, PastTurn
  <2>2. last # nextID
    BY <1>5
  <2>3. last' \in DOMAIN kept' => last \in DOMAIN kept /\ kept'[last'] = kept[last]
    BY <1>1, <1>4, <2>2
  <2> QED BY <1>1, <1>2, <2>1, <2>3 DEF KeptTold
<1>11. FilesReady' /\ HeardInv'
  BY <1>1 DEF FilesReady, HeardInv
<1>12. RoundInv'
  <2>1. HeardFirst
    BY <1>1, <1>2 DEF HeardInv
  <2>2. Conversation' = Conversation
    BY <1>1 DEF Conversation, Converted, WithQuery, Form, ChatForm, ResponsesForm, ClaudeForm,
                GeminiForm, RoleOf, Item
  <2>3. HeardFirst'
    BY <1>1, <1>7, <2>1, <2>2 DEF HeardFirst
  <2>4. chain # None => rounds'[1].id \in 1 .. nextID' - 1
    BY <1>4, <1>5, <1>6, <2>1 DEF HeardFirst, ResponseID
  <2>5. ASSUME rounds'[1].id \in DOMAIN kept' PROVE kept'[rounds'[1].id] = heard \o said
    <3>1. stores /\ gives
      BY <1>4, <2>5
    <3>2. rounds'[1].id = nextID
      BY <1>6, <3>1 DEF ResponseID
    <3> QED BY <1>4, <3>1, <3>2
  <2> QED BY <1>1, <1>6, <1>7, <2>3, <2>4, <2>5 DEF RoundInv, said
<1> QED BY <1>8, <1>9, <1>10, <1>11, <1>12 DEF WireInv

LEMMA WireWithoutTools == ASSUME WireInv, WithoutTools PROVE WireInv'
<1> DEFINE l == Len(messages)
           P == messages[l].parts \cup {"results"}
<1>1. /\ phase = "forced" /\ step \in {"building", "waiting"}
      /\ phase' = "toolFree" /\ rounds' = <<>>
      /\ messages' = Edited(messages, P) /\ step' = "building"
      /\ api' = api /\ gives' = gives /\ stores' = stores /\ chain' = chain /\ found' = found
      /\ files' = files /\ heard' = heard /\ kept' = kept /\ nextID' = nextID /\ last' = last
  BY DEF WithoutTools, backend, wire, server, Edited
<1>2. /\ MessagesTyped /\ WireTyped /\ KeptTold /\ TurnNumber \in Nat
      /\ messages \in Seq(Messages) /\ messages # <<>> /\ messages[l].role = "user"
  BY <1>1, TurnIsNat DEF WireInv, MessagesTyped, Numbered
<1>3. l \in Nat \ {0} /\ l \in 1 .. l /\ messages[l] \in Messages /\ DOMAIN messages = 1 .. l
  BY <1>2, LastMessage
<1>4. P \in SUBSET PartNames
  BY <1>3, WordsArePart DEF Messages
<1>5. "results" \in P
  OBVIOUS
<1> HIDE DEF P
<1>6. /\ messages' \in Seq(Messages) /\ Len(messages') = l /\ messages' # <<>>
      /\ \A i \in 1 .. l - 1 : messages'[i] = messages[i]
      /\ messages'[l].role = messages[l].role /\ messages'[l].of = messages[l].of
      /\ messages'[l].parts = P
      /\ SubSeq(messages', 1, l - 1) = SubSeq(messages, 1, l - 1)
  BY <1>1, <1>2, <1>4, LastEdited
<1>7. TurnNumber' = TurnNumber
  BY <1>2, <1>6 DEF TurnNumber
<1>8. MessagesTyped'
  <2>1. Numbered(messages', TurnNumber')
    BY <1>1, <1>2, <1>4, <1>7, NumberedEdited DEF MessagesTyped
  <2> QED BY <1>1, <1>2, <1>5, <1>6, <1>7, <2>1 DEF MessagesTyped
<1>9. WireTyped'
  BY <1>1, <1>2 DEF WireTyped
<1>10. KeptTold'
  <2>1. Past' = Past /\ PastTurn' = PastTurn
    BY <1>1, <1>6, <1>7 DEF Past, PastTurn
  <2> QED BY <1>1, <1>2, <2>1 DEF KeptTold
<1>11. FilesReady' /\ HeardInv' /\ RoundInv'
  BY <1>1 DEF FilesReady, HeardInv, RoundInv
<1> QED BY <1>8, <1>9, <1>10, <1>11 DEF WireInv

LEMMA WireRetry == ASSUME WireInv, RetryStateless PROVE WireInv'
<1> DEFINE l == Len(messages)
           P == messages[l].parts \ {"results"}
<1>1. /\ step = "rejected" /\ phase' = "first" /\ rounds' = <<>> /\ chain' = None
      /\ messages' = Edited(messages, P) /\ step' = "building"
      /\ api' = api /\ gives' = gives /\ stores' = stores /\ found' = found
      /\ files' = files /\ heard' = heard /\ kept' = kept /\ nextID' = nextID /\ last' = last
  BY DEF RetryStateless, backend, wire, server, Edited
<1>2. /\ MessagesTyped /\ WireTyped /\ KeptTold /\ TurnNumber \in Nat
      /\ messages \in Seq(Messages) /\ messages # <<>> /\ messages[l].role = "user"
  BY <1>1, TurnIsNat DEF WireInv, MessagesTyped, Numbered
<1>3. l \in Nat \ {0} /\ l \in 1 .. l /\ messages[l] \in Messages /\ DOMAIN messages = 1 .. l
  BY <1>2, LastMessage
<1>4. P \in SUBSET PartNames
  BY <1>3 DEF Messages
<1>5. "results" \notin P
  OBVIOUS
<1> HIDE DEF P
<1>6. /\ messages' \in Seq(Messages) /\ Len(messages') = l /\ messages' # <<>>
      /\ \A i \in 1 .. l - 1 : messages'[i] = messages[i]
      /\ messages'[l].role = messages[l].role /\ messages'[l].of = messages[l].of
      /\ messages'[l].parts = P
      /\ SubSeq(messages', 1, l - 1) = SubSeq(messages, 1, l - 1)
  BY <1>1, <1>2, <1>4, LastEdited
<1>7. TurnNumber' = TurnNumber
  BY <1>2, <1>6 DEF TurnNumber
<1>8. MessagesTyped'
  <2>1. Numbered(messages', TurnNumber')
    BY <1>1, <1>2, <1>4, <1>7, NumberedEdited DEF MessagesTyped
  <2> QED BY <1>1, <1>2, <1>5, <1>6, <1>7, <2>1 DEF MessagesTyped
<1>9. WireTyped'
  BY <1>1, <1>2 DEF WireTyped, None
<1>10. KeptTold'
  <2>1. Past' = Past /\ PastTurn' = PastTurn
    BY <1>1, <1>6, <1>7 DEF Past, PastTurn
  <2> QED BY <1>1, <1>2, <2>1 DEF KeptTold
<1>11. FilesReady' /\ HeardInv' /\ RoundInv'
  BY <1>1 DEF FilesReady, HeardInv, RoundInv
<1> QED BY <1>8, <1>9, <1>10, <1>11 DEF WireInv

LEMMA WireExpire == ASSUME WireInv, NEW id \in DOMAIN kept, Expire(id) PROVE WireInv'
<1>1. /\ step = "building" /\ step' = step /\ kept' = Restrict(kept, DOMAIN kept \ {id})
      /\ api' = api /\ gives' = gives /\ stores' = stores /\ messages' = messages /\ chain' = chain
      /\ phase' = phase /\ rounds' = rounds /\ found' = found /\ heard' = heard
      /\ files' = files /\ nextID' = nextID /\ last' = last
  BY DEF Expire, backend, turn, wire
<1>2. MessagesTyped /\ WireTyped /\ KeptTold /\ RoundInv
  BY DEF WireInv
<1>3. DOMAIN kept' \subseteq DOMAIN kept /\ \A k \in DOMAIN kept' : kept'[k] = kept[k]
  BY <1>1 DEF Restrict
<1>4. TurnNumber' = TurnNumber
  BY <1>1 DEF TurnNumber
<1>5. MessagesTyped'
  BY <1>1, <1>2, <1>4 DEF MessagesTyped, Numbered
<1>6. WireTyped'
  BY <1>1, <1>2, <1>3 DEF WireTyped
<1>7. Past' = Past /\ PastTurn' = PastTurn
  BY <1>1, <1>4 DEF Past, PastTurn
<1>8. KeptTold'
  BY <1>1, <1>2, <1>3, <1>7 DEF KeptTold
<1>9. FilesReady' /\ HeardInv'
  BY <1>1 DEF FilesReady, HeardInv
<1>10. Conversation' = Conversation
  BY <1>1 DEF Conversation, Converted, WithQuery, Form, ChatForm, ResponsesForm, ClaudeForm,
              GeminiForm, RoleOf, Item
<1>11. RoundInv'
  <2>1. HeardFirst' <=> HeardFirst
    BY <1>1, <1>4, <1>10 DEF HeardFirst
  <2> QED BY <1>1, <1>2, <1>3, <1>4, <2>1 DEF RoundInv
<1> QED BY <1>5, <1>6, <1>8, <1>9, <1>11 DEF WireInv

\* Results that come into a message take nothing from it.
LEMMA ToldEdited ==
    ASSUME NEW a, NEW h, NEW ms \in Seq(Messages), ms # <<>>, Tells(a, h, ms), h \in Seq(Items),
           NEW P \in SUBSET PartNames, P \ {"results"} \subseteq ms[Len(ms)].parts
    PROVE  Tells(a, h, Edited(ms, P))
<1> DEFINE l == Len(ms)
           es == Edited(ms, P)
<1>1. /\ es \in Seq(Messages) /\ Len(es) = l
      /\ \A i \in 1 .. l - 1 : es[i] = ms[i]
      /\ es[l].role = ms[l].role /\ es[l].of = ms[l].of /\ es[l].parts = P
  BY LastEdited
<1>2. l \in Nat /\ Len(h) \in Nat /\ DOMAIN h = 1 .. Len(h)
  OBVIOUS
<1> HIDE DEF es
<1>3. ASSUME NEW j \in DOMAIN h, h[j].kind = "message"
      PROVE  StandsFor(a, h[j], es[Spoken(h, j)])
  <2> DEFINE k == Spoken(h, j)
  <2>1. StandsFor(a, h[j], ms[k])
    BY <1>3 DEF Tells
  <2>2. k \in 1 .. l
    BY <1>2, <1>3, SpokenGrows DEF Tells
  <2> HIDE DEF k
  <2>3. CASE k \in 1 .. l - 1
    BY <1>1, <2>1, <2>3 DEF k
  <2>4. CASE k = l
    <3>1. es[l].parts \ {"blank", "results"} \subseteq ms[l].parts \ {"blank", "results"}
      BY <1>1
    <3> QED BY <1>1, <2>1, <2>4, <3>1 DEF StandsFor, RoleIn, k
  <2> QED BY <1>2, <2>2, <2>3, <2>4
<1>4. Tells(a, h, es)
  BY <1>1, <1>3 DEF Tells
<1> QED BY <1>4 DEF es

LEMMA WireAnswer == ASSUME WireInv, Answer PROVE WireInv'
<1> DEFINE l == Len(messages)
           t == TurnNumber
           m == Message("assistant", t, {"text"})
           P == messages[l].parts \cup (IF found /\ phase # "toolFree" THEN {"results"} ELSE {})
           es == Edited(messages, P)
<1>1. /\ step = "waiting" /\ step' = "idle" /\ messages' = Append(es, m)
      /\ Respond(<<Converted(m)>>) /\ last' = ResponseID
      /\ api' = api /\ gives' = gives /\ stores' = stores /\ chain' = chain /\ phase' = phase
      /\ rounds' = rounds /\ found' = found /\ files' = files
  BY DEF Answer, backend, wire, Edited
<1>2. /\ MessagesTyped /\ WireTyped /\ KeptTold /\ HeardInv /\ t \in Nat /\ api \in APIs
      /\ messages \in Seq(Messages) /\ messages # <<>> /\ messages[l].role = "user"
  BY <1>1, APIKnown, TurnIsNat DEF WireInv, MessagesTyped, Numbered
<1>3. l \in Nat \ {0} /\ l \in 1 .. l /\ messages[l] \in Messages
  BY <1>2, LastMessage
<1>4. P \in SUBSET PartNames
  BY <1>3, WordsArePart DEF Messages
<1>5. P \ {"results"} \subseteq messages[l].parts
  OBVIOUS
<1>6. m \in Messages /\ m.role = "assistant" /\ m.of = t /\ m.parts = {"text"}
  BY <1>2, WordsArePart DEF Message, Messages
<1> HIDE DEF P, m
<1>7. /\ es \in Seq(Messages) /\ Len(es) = l /\ Numbered(es, t)
      /\ es[l].of = t
  <2>1. messages[l].of = t
    BY <1>2 DEF TurnNumber
  <2> QED BY <1>2, <1>4, <2>1, LastEdited, NumberedEdited DEF MessagesTyped
<1> HIDE DEF es
<1>8. /\ messages' \in Seq(Messages) /\ messages' # <<>> /\ Len(messages') = l + 1
      /\ DOMAIN messages' = 1 .. l + 1 /\ DOMAIN es = 1 .. l
      /\ \A i \in 1 .. l : messages'[i] = es[i]
      /\ messages'[l + 1] = m
  <2>1. /\ Append(es, m) \in Seq(Messages) /\ Append(es, m) # <<>>
        /\ Len(Append(es, m)) = Len(es) + 1
        /\ \A i \in 1 .. Len(es) : Append(es, m)[i] = es[i]
        /\ Append(es, m)[Len(es) + 1] = m
    BY <1>6, <1>7, AppendProperties
  <2>2. DOMAIN messages' = 1 .. Len(messages') /\ DOMAIN es = 1 .. l
    BY <1>1, <1>7, <2>1, LenProperties
  <2> QED BY <1>1, <1>7, <2>1, <2>2
<1>9. TurnNumber' = t
  BY <1>6, <1>8 DEF TurnNumber
<1>10. MessagesTyped'
  <2>1. \A i \in 1 .. l + 1 : i \in 1 .. l \/ i = l + 1
    BY <1>3
  <2>2. \A i \in 1 .. l + 1 : /\ messages'[i].of <= t
                              /\ "results" \in messages'[i].parts => messages'[i].role = "user"
    <3>1. t <= t
      BY <1>2
    <3> QED BY <1>6, <1>7, <1>8, <2>1, <3>1 DEF Numbered
  <2>3. ASSUME NEW i \in 1 .. l + 1, NEW j \in 1 .. l + 1,
               messages'[i].role = "user", messages'[j].role = "user",
               messages'[i].of = messages'[j].of
        PROVE  i = j
    <3>1. i \in 1 .. l /\ j \in 1 .. l
      BY <1>6, <1>8, <2>1, <2>3
    <3> QED BY <1>7, <1>8, <2>3, <3>1 DEF Numbered
  <2>4. Numbered(messages', t)
    BY <1>8, <2>2, <2>3 DEF Numbered
  <2> QED BY <1>1, <1>9, <2>4 DEF MessagesTyped
<1>11. /\ nextID' = nextID + 1
       /\ stores /\ gives => /\ DOMAIN kept' = DOMAIN kept \cup {nextID}
                             /\ kept'[nextID] = heard \o <<Converted(m)>>
                             /\ \A id \in DOMAIN kept : kept'[id] = kept[id]
       /\ ~(stores /\ gives) => kept' = kept /\ DOMAIN kept = {}
       /\ DOMAIN kept' \subseteq 1 .. nextID' - 1
  BY <1>1, <1>2, KeptAfter
<1>12. /\ nextID \in Nat \ {0} /\ chain \in 0 .. nextID - 1
       /\ gives \in BOOLEAN /\ stores \in BOOLEAN
       /\ (stores /\ gives => api = "responses")
  BY <1>2 DEF WireTyped
<1>13. WireTyped'
  <2>1. nextID' \in Nat \ {0} /\ chain' \in 0 .. nextID' - 1
    BY <1>1, <1>11, <1>12
  <2>2. last' \in 0 .. nextID' - 1
    BY <1>1, <1>11, <1>12 DEF ResponseID, None
  <2>3. DOMAIN kept' # {} => stores' /\ gives'
    BY <1>1, <1>11
  <2> QED BY <1>1, <1>2, <1>11, <2>1, <2>2, <2>3 DEF WireTyped
<1>14. KeptTold'
  <2>1. Past' = messages' /\ PastTurn' = t
    BY <1>1, <1>9 DEF Past, PastTurn
  <2>2. SUFFICES ASSUME last' \in DOMAIN kept' PROVE Reading(api, kept'[last'], messages', t)
    BY <1>1, <2>1 DEF KeptTold
  <2>3. stores /\ gives
    BY <1>11, <2>2
  <2>4. last' = nextID /\ kept'[nextID] = heard \o <<Converted(m)>>
    BY <1>1, <1>11, <2>3 DEF ResponseID
  <2>5. Reading(api, heard, messages, t)
    BY <1>1, <1>2, <1>12, <2>3 DEF HeardInv, Plain
  <2>6. Reading(api, heard, es, t)
    BY <1>2, <1>4, <1>5, <2>5, ToldEdited DEF Reading, es
  <2>7. /\ Converted(m) \in Items /\ Converted(m).kind = "message"
        /\ StandsFor(api, Converted(m), m)
        /\ "results" \notin Parts(Converted(m))
    BY <1>2, <1>6, ConvertedItem
  <2>8. t <= m.of
    BY <1>2, <1>6
  <2>9. Reading(api, heard \o <<Converted(m)>>, Append(es, m), m.of)
    BY <1>2, <1>6, <1>7, <2>6, <2>7, <2>8, ReadMessage
  <2> QED BY <1>1, <1>6, <2>4, <2>9
<1>15. FilesReady' /\ HeardInv' /\ RoundInv'
  BY <1>1 DEF FilesReady, HeardInv, RoundInv
<1> QED BY <1>10, <1>13, <1>14, <1>15 DEF WireInv

LEMMA WireStutters == ASSUME WireInv, UNCHANGED wireVars PROVE WireInv'
<1>1. /\ api' = api /\ gives' = gives /\ stores' = stores /\ messages' = messages /\ chain' = chain
      /\ phase' = phase /\ rounds' = rounds /\ found' = found /\ heard' = heard /\ step' = step
      /\ files' = files /\ kept' = kept /\ nextID' = nextID /\ last' = last
  BY DEF wireVars, backend, turn, wire, server
<1>2. TurnNumber' = TurnNumber
  BY <1>1 DEF TurnNumber
<1>3. Conversation' = Conversation /\ NeededFiles' = NeededFiles
  BY <1>1 DEF Conversation, NeededFiles, Converted, WithQuery, Form, ChatForm, ResponsesForm,
              ClaudeForm, GeminiForm, RoleOf, Item
<1>4. Past' = Past /\ PastTurn' = PastTurn
  BY <1>1, <1>2 DEF Past, PastTurn
<1>5. MessagesTyped' /\ WireTyped'
  BY <1>1, <1>2 DEF WireInv, MessagesTyped, WireTyped
<1>6. KeptTold' /\ FilesReady'
  BY <1>1, <1>3, <1>4 DEF WireInv, KeptTold, FilesReady
<1>7. HeardFirst' <=> HeardFirst
  BY <1>1, <1>2, <1>3 DEF HeardFirst
<1>8. HeardInv' /\ RoundInv'
  BY <1>1, <1>2, <1>7 DEF WireInv, HeardInv, RoundInv, Plain
<1> QED BY <1>5, <1>6, <1>8 DEF WireInv

LEMMA WireKept == WireInv /\ [WireNext]_wireVars => WireInv'
<1> SUFFICES ASSUME WireInv, [WireNext]_wireVars PROVE WireInv'
  OBVIOUS
<1>1. ASSUME NEW content \in Contents[api], Begin(content) PROVE WireInv'
  BY <1>1, WireBegin
<1>2. CASE Upload
  <2>1. PICK state \in {"processing", "active", "failed"} :
            /\ files' = Append(files, state)
            /\ step' = IF state = "failed" THEN "failed" ELSE step
    BY <1>2 DEF Upload
  <2>2. files \in Seq({"processing", "active", "failed"})
    BY DEF WireInv, WireTyped
  <2>3. files' \in Seq({"processing", "active", "failed"})
    BY <2>1, <2>2, AppendProperties
  <2> QED BY <1>2, <2>1, <2>3, WireQuiet DEF Upload, wire
<1>3. CASE Poll
  <2>1. files \in Seq({"processing", "active", "failed"}) /\ files # <<>>
    BY <1>3 DEF WireInv, WireTyped, Poll
  <2>2. CASE \E state \in {"active", "failed"} :
                /\ files' = [files EXCEPT ![Len(files)] = state]
                /\ step' = IF state = "failed" THEN "failed" ELSE step
    <3>1. PICK state \in {"active", "failed"} :
              /\ files' = [files EXCEPT ![Len(files)] = state]
              /\ step' = IF state = "failed" THEN "failed" ELSE step
      BY <2>2
    <3>2. Len(files) \in 1 .. Len(files)
      BY <2>1, EmptySeq
    <3>3. files' \in Seq({"processing", "active", "failed"})
      BY <2>1, <3>1, <3>2, ExceptSeq
    <3> QED BY <1>3, <3>1, <3>3, WireQuiet DEF Poll, wire
  <2>3. CASE step' = "failed" /\ UNCHANGED files
    BY <1>3, <2>1, <2>3, WireQuiet DEF Poll, wire
  <2> QED BY <1>3, <2>2, <2>3 DEF Poll
<1>4. CASE Submit
  BY <1>4, WireSubmit
<1>5. ASSUME NEW n \in 1 .. MaxCalls, CallTools(n) PROVE WireInv'
  BY <1>5, WireCallTools
<1>6. CASE WithoutTools
  BY <1>6, WireWithoutTools
<1>7. CASE Answer
  BY <1>7, WireAnswer
<1>8. CASE RetryStateless
  BY <1>8, WireRetry
<1>9. ASSUME NEW id \in DOMAIN kept, Expire(id) PROVE WireInv'
  BY <1>9, WireExpire
<1>10. CASE UNCHANGED wireVars
  BY <1>10, WireStutters
<1> QED BY <1>1, <1>2, <1>3, <1>4, <1>5, <1>6, <1>7, <1>8, <1>9, <1>10 DEF WireNext

LEMMA WireInvariant == WireSpec => []WireInv
BY WireBegins, WireKept, PTL DEF WireSpec

\* A follow-up's reading starts with what was read before (response.go:674):
\* the request repeats it, or names the response that keeps it.
THEOREM FollowUpExtends == WireSpec => PrefixKept
<1>1. WireInv /\ [WireNext]_wireVars => [PrefixStep]_wireVars
  <2> SUFFICES ASSUME WireInv, [WireNext]_wireVars,
                      step = "building", step' = "waiting", phase = "forced"
               PROVE  IsPrefix(heard, heard')
    BY DEF PrefixStep
  <2>1. Submit
    BY DEF WireNext, Begin, Upload, Poll, Submit, CallTools, WithoutTools, Answer, RetryStateless,
           Expire, wireVars
  <2>2. PICK n \in Nat \ {0}, b \in {0, 1}, s \in Seq(Items) :
            Round(s, TurnNumber, n, b) /\ heard' = heard \o s
    BY <2>1, ReadForced
  <2>3. heard \in Seq(Items)
    BY <2>1, ReadForced
  <2>4. /\ Len(heard) \in Nat /\ heard' \in Seq(Items) /\ Len(heard) <= Len(heard')
        /\ \A i \in 1 .. Len(heard) : heard'[i] = heard[i]
    <3>1. Len(heard) \in Nat /\ Len(s) \in Nat
      BY <2>3
    <3>2. heard' \in Seq(Items) /\ Len(heard') = Len(heard) + Len(s)
      BY <2>2, <2>3, ConcatProperties
    <3>3. \A i \in 1 .. Len(heard) + Len(s) :
              heard'[i] = IF i <= Len(heard) THEN heard[i] ELSE s[i - Len(heard)]
      BY <2>2, <2>3, ConcatProperties
    <3> QED BY <3>1, <3>2, <3>3
  <2>5. SubSeq(heard, 1, Len(heard)) = Restrict(heard, 1 .. Len(heard))
        /\ SubSeq(heard', 1, Len(heard)) = Restrict(heard', 1 .. Len(heard))
    <3>1. Len(heard) \in 0 .. Len(heard) /\ Len(heard) \in 0 .. Len(heard')
      BY <2>4
    <3> QED BY <2>3, <2>4, <3>1, SubSeqRestrict
  <2>6. Restrict(heard, 1 .. Len(heard)) = Restrict(heard', 1 .. Len(heard))
    BY <2>4 DEF Restrict
  <2> QED BY <2>4, <2>5, <2>6 DEF IsPrefix
<1> QED BY <1>1, WireInvariant, PTL DEF PrefixKept, WireSpec

\* Unless what is cached is sent again, the model reads the whole conversation
\* once, every call with its output and what a search found in one form, for
\* whatever contents, calls and turns (responses.go:406; tool_rounds.go:79;
\* response.go:845).
THEOREM ConversationReadOnce == WireSpec => [](Plain => ReadOnce)
<1>1. ASSUME WireInv, Plain PROVE ReadOnce
  <2>1. /\ MessagesTyped /\ WireTyped /\ FilesReady /\ HeardInv /\ TurnNumber \in Nat
    BY <1>1, TurnIsNat DEF WireInv, MessagesTyped, Numbered
  <2>2. WireTypes
    <3>1. ToSet(files) \subseteq {"processing", "active", "failed"}
      <4>1. \A i \in DOMAIN files : files[i] \in {"processing", "active", "failed"}
        BY <2>1 DEF WireTyped
      <4> QED BY <4>1 DEF ToSet
    <3>2. Len(rounds) <= 1
      <4>1. CASE rounds = <<>>
        <5>1. Len(<<>>) = 0
          OBVIOUS
        <5> QED BY <4>1, <5>1
      <4>2. CASE Len(rounds) = 1
        BY <4>2
      <4> QED BY <2>1, <4>1, <4>2 DEF WireTyped
    <3> QED BY <2>1, <3>1, <3>2 DEF WireTypes, WireTyped
  <2>3. SUFFICES ASSUME step = "waiting" PROVE HeardWhole /\ CallsPaired /\ ResultsReadOnce
    BY <2>2 DEF ReadOnce, HeardWhole, CallsPaired, ResultsReadOnce
  <2>4. /\ Reading(api, heard, messages, TurnNumber)
        /\ phase # "first" => \E j \in DOMAIN heard : Finds(heard[j], TurnNumber)
    BY <1>1, <2>1, <2>3 DEF HeardInv
  <2>5. heard \in Seq(Items) /\ Tells(api, heard, messages) /\ Paired(heard) /\ FoundOnce(heard)
    BY <2>4 DEF Reading
  <2>6. HeardWhole
    <3>1. \A x, m : StandsFor(api, x, m) => IsOf(x, m)
      BY DEF StandsFor, IsOf, RoleIn, RoleOf
    <3> QED BY <2>1, <2>3, <2>5, <3>1 DEF HeardWhole, Tells, FilesReady
  <2>7. CallsPaired
    <3>1. ASSUME NEW i \in DOMAIN heard, heard[i].kind = "call"
          PROVE  Cardinality({j \in DOMAIN heard :
                                 heard[j].kind = "output" /\ heard[j].of = heard[i].of}) = 1
      <4>1. PICK j \in DOMAIN heard : heard[j].kind = "output" /\ heard[j].of = heard[i].of
        BY <2>5, <3>1 DEF Paired
      <4>2. {k \in DOMAIN heard : heard[k].kind = "output" /\ heard[k].of = heard[i].of} = {j}
        BY <2>5, <4>1 DEF Paired
      <4> QED BY <4>2, FS_Singleton
    <3> QED BY <2>5, <3>1 DEF CallsPaired, Paired
  <2>8. ResultsReadOnce
    <3>1. \A t : TimesRead(t) = Cardinality({i \in DOMAIN heard : Finds(heard[i], t)})
      BY DEF TimesRead, Finds
    <3>2. ASSUME NEW t \in Nat, NEW i \in DOMAIN heard, Finds(heard[i], t) PROVE TimesRead(t) = 1
      <4>1. {k \in DOMAIN heard : Finds(heard[k], t)} = {i}
        BY <2>5, <3>2 DEF FoundOnce
      <4> QED BY <3>1, <4>1, FS_Singleton
    <3>3. ASSUME NEW t \in Nat PROVE TimesRead(t) <= 1
      <4>1. CASE \E i \in DOMAIN heard : Finds(heard[i], t)
        BY <3>2, <3>3, <4>1
      <4>2. CASE ~\E i \in DOMAIN heard : Finds(heard[i], t)
        <5>1. {k \in DOMAIN heard : Finds(heard[k], t)} = {}
          BY <4>2
        <5> QED BY <3>1, <5>1, FS_EmptySet
      <4> QED BY <4>1, <4>2
    <3> QED BY <2>1, <2>4, <3>2, <3>3 DEF ResultsReadOnce
  <2> QED BY <2>6, <2>7, <2>8
<1> QED BY <1>1, WireInvariant, PTL
=============================================================================
