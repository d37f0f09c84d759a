------------------------------ MODULE MCBlocks ------------------------------
(* An instance of Blocks for TLC: a file on each of two inodes. *)
EXTENDS Blocks, TLC

CONSTANTS f1, f2, i1, i2
MCIpOf == f1 :> i1 @@ f2 :> i2

Symmetry == Permutations(Proc)
=============================================================================
