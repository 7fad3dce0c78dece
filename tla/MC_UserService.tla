--------------------------- MODULE MC_UserService ---------------------------
(* Instances of UserService for TLC. *)
EXTENDS UserService, TLC

CONSTANTS c1, c2, c3, u1, u2, t1, t2, k1

Interchangeable == Permutations(Calls) \union Permutations(Users)
                   \union Permutations(Chats)
=============================================================================
