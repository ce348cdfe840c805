------------------------------- MODULE MCCAFiles -------------------------------
(* CAFiles for TLC. *)
EXTENDS CAFiles, TLC

Symmetry == Permutations(Starts)
=============================================================================
