------------------------------ MODULE MCKVStore ------------------------------
(* TLC instances of KVStore. *)
EXTENDS KVStore, TLC

Symmetry == Permutations(Calls) \cup Permutations(AllHosts) \cup Permutations(Keys)
=============================================================================
