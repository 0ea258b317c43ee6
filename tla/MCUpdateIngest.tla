---------------------------- MODULE MCUpdateIngest ----------------------------
(* Small instances of UpdateIngest for TLC. *)
EXTENDS UpdateIngest, TLC

Symmetric == Permutations(Keys) \cup Permutations(Requests)
=============================================================================
