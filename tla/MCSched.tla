------------------------------- MODULE MCSched ------------------------------
(* Instances of Sched, with its observers, for TLC. *)
EXTENDS SchedStats, SchedRefinement

CONSTANTS MaxTicks, MaxNext     \* bounds on the clock and on the enqueues

Slices == <<1, 2, 8, 16>>       \* the array of proc.c
MCslices == [k \in Queues |-> Slices[k + 1]]

Bound == ticks <= MaxTicks /\ next <= MaxNext
=============================================================================
