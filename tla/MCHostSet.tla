------------------------------ MODULE MCHostSet ------------------------------
(* TLC instances of HostSet. *)
EXTENDS HostSet, TLC

Symmetry == Permutations(Hosts) \cup Permutations(Workers)
=============================================================================
