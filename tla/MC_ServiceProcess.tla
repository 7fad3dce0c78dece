-------------------------- MODULE MC_ServiceProcess --------------------------
(* Instances of ServiceProcess for TLC. *)
EXTENDS ServiceProcess

CONSTANTS c1, c2, c3
=============================================================================
