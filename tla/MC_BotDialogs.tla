--------------------------- MODULE MC_BotDialogs ---------------------------
(* Instances of BotDialogs for TLC. *)
EXTENDS BotDialogs

CONSTANTS p1, p2
=============================================================================
