----------------------------- MODULE MCMemory -----------------------------
(* Memory on an instance: two processes, address spaces of eight pages of     *)
(* two units with tables of two entries, sizes at and off page boundaries.    *)
EXTENDS Memory

MCDeltas == {-3, 3}
MCPrograms == {<<1>>, <<1, 3>>}
MCArgs == {1}
=============================================================================
