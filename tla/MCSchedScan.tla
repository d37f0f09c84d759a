----------------------------- MODULE MCSchedScan ----------------------------
(* Instances of SchedScan for TLC. *)
EXTENDS SchedScan

CONSTANT MaxNext                \* bound on the enqueues

Bound == next <= MaxNext
=============================================================================
