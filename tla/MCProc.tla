------------------------------- MODULE MCProc -------------------------------
(* Instances of Proc for TLC. *)
EXTENDS Proc, TLC

Symmetry == Permutations(Proc \ {InitProc}) \cup Permutations(CPU)
=============================================================================
