------------------------ MODULE MC_HistoryPersistence ------------------------
(***************************************************************************)
(* Instances of HistoryPersistence: one or two ids, one or two turns, and  *)
(* backends that start empty or hold the first id's row.                   *)
(***************************************************************************)
EXTENDS HistoryPersistence

CONSTANTS t1, t2

Ids1 == {1}
Ids2 == {1, 2}
One == {t1}
Two == {t1, t2}
Writes == {"write"}
WriteEvict == {"write", "evict"}
Empty == {NoRow}
FirstRow == {[i \in Ids |-> IF i = 1 THEN 1 ELSE 0]}
=============================================================================
