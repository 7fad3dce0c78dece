-------------------------- MODULE MC_OrderListing --------------------------
(* Instances of OrderListing for TLC. *)
EXTENDS OrderListing

ThreeInstants == 0..2
ThreeIds == 1..3
=============================================================================
