----------------------------- MODULE MC_BotState -----------------------------
(***************************************************************************)
(* Instances of BotState: two commands, rows that are missing or hold a    *)
(* model and a maintenance channel selected in an earlier life.            *)
(***************************************************************************)
EXTENDS BotState

One == {2}
Stored == {[f \in Fields |-> 1]}
=============================================================================
