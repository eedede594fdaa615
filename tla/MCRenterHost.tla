----------------------------- MODULE MCRenterHost -----------------------------
(* TLC instances of RenterHost. *)
EXTENDS RenterHost, TLC

Symmetry == Permutations(Sessions) \cup Permutations(Sectors)
=============================================================================
