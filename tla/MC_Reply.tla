------------------------------ MODULE MC_Reply ------------------------------
(***************************************************************************)
(* Instances of Reply: two texts, so that an attempt can differ from the   *)
(* one before; one has an iili.io url, and both have tables where tables   *)
(* are the question.                                                       *)
(***************************************************************************)
EXTENDS Reply

CONSTANTS a, b
One == {a}
Two == {a, b}
None == {}
=============================================================================
