-------------------------------- MODULE MCLog -------------------------------
(* Instances of Log for TLC. *)
EXTENDS Log

CONSTANT Watched        \* the blocks whose contents are told apart

MCValues == [b \in Blocks |-> IF b \in Watched THEN {0, 1} ELSE {0}]
=============================================================================
