-------------------------- MODULE MC_OutboxWorker --------------------------
(* Instances of OutboxWorker for TLC. *)
EXTENDS OutboxWorker

CONSTANTS e1, e2, e3, w1, w2
=============================================================================
