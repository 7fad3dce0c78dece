-------------------------- MODULE MC_ServiceCalls --------------------------
(* Instances of ServiceCalls for TLC; calls are interchangeable. *)
EXTENDS ServiceCalls, TLC

CONSTANTS c1, c2, p1
Symmetry == Permutations(Calls)
=============================================================================
