--------------------------- MODULE MC_MessageDedup ---------------------------
(***************************************************************************)
(* An instance of MessageDedup: two messages, two instances that share     *)
(* Redis and one without it, four deliveries and a map with room for one.  *)
(***************************************************************************)
EXTENDS MessageDedup, TLC

CONSTANTS m1, m2, a, b, c, d1, d2, d3, d4

Two == {m1, m2}
Cluster == {a, b}
AndOne == {a, b, c}
Four == {d1, d2, d3, d4}

Symmetry == Permutations(Two) \cup Permutations(Cluster) \cup Permutations(Four)
=============================================================================
