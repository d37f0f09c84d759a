------------------------------ MODULE MCBcache ------------------------------
(* An instance of Bcache for TLC. *)
EXTENDS Bcache, TLC

Symmetry == Permutations(Proc) \cup Permutations(Buf) \cup Permutations(Block)
=============================================================================
