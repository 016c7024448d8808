---------------------------- MODULE MC_NodeStore ----------------------------
(***************************************************************************)
(* An instance of NodeStore: three goroutines over two ids and room for    *)
(* one node, so that evictions overlap each other, the lookups and the     *)
(* replies.                                                                *)
(***************************************************************************)
EXTENDS NodeStore

CONSTANTS h1, h2, h3

Ids2 == {1, 2}
Three == {h1, h2, h3}
All == {"lookup", "reply", "discard"}
=============================================================================
