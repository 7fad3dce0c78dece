-------------------------- MODULE MC_OrderService --------------------------
(***************************************************************************)
(* Instances of OrderService for TLC: "a9" is an amount as a client types  *)
(* it and "a1" the same amount as NUMERIC(14,2) prints it.                 *)
(***************************************************************************)
EXTENDS OrderService, TLC

CONSTANTS c1, c2, c3, o1, o2, p1, p2

StoredText == [a \in Audited |-> IF a = "a9" THEN "a1" ELSE a]

Interchangeable == Permutations(Calls) \union Permutations(Performers)
                   \union Permutations(OrderIds)
CallsOnly == Permutations(Calls)
=============================================================================
