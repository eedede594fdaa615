----------------------------- MODULE MCPseudoFS -----------------------------
(* Small instances of PseudoFS for TLC.                                        *)
EXTENDS PseudoFS

Symmetry == Permutations(Names)
=============================================================================
