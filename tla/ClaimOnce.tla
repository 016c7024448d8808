------------------------------ MODULE ClaimOnce ------------------------------
(***************************************************************************)
(* What deduplication promises (README.md, "a duplicate delivery of the    *)
(* same event never produces a second response"): an instance of the bot   *)
(* handles a message again only when Window ticks have passed since it     *)
(* handled it last.                                                        *)
(***************************************************************************)
EXTENDS Integers

CONSTANTS
    Instances,
    Messages,
    Window      \* messageSeenWindow, in ticks

VARIABLE age    \* per instance and message: ticks since it was handled last,
                \* at most Window

Init == age = [i \in Instances |-> [m \in Messages |-> Window]]

Claim(i, m) ==
    /\ age[i][m] = Window
    /\ age' = [age EXCEPT ![i][m] = 0]

Tick ==
    age' = [i \in Instances |->
               [m \in Messages |-> IF age[i][m] = Window THEN Window ELSE age[i][m] + 1]]

Next == Tick \/ \E i \in Instances, m \in Messages : Claim(i, m)

Spec == Init /\ [][Next]_age
=============================================================================
