--------------------------- MODULE SchedRefinement --------------------------
(***************************************************************************)
(* The MLFQ scheduler of Sched implements the FIFO queues of RunQueues:    *)
(* the queue of level k is the ready processes of that level, sorted by    *)
(* their sequence numbers.                                                 *)
(***************************************************************************)
EXTENDS Sched, SequencesExt

QueueOf(k) ==
    SetToSortSeq({p \in Runnable : queue[p] = k}, LAMBDA p, q : sequence[p] < sequence[q])

RQ == INSTANCE RunQueues WITH
          rq <- [k \in Queues |-> QueueOf(k)],
          chan <- [p \in Procs |-> IF state[p] = "SLEEPING" THEN chan[p] ELSE "none"],
          level <- queue,
          used <- slice_ticks,
          clock <- ticks % BoostPeriod

\* The sequence numbers "give FIFO order inside each queue": every step of
\* the MLFQ kernel is a step of the queues.
ImplementsRunQueues ==
    /\ policy = "MLFQ" => RQ!Init
    /\ [][policy = "MLFQ" => RQ!Next]_(RQ!vars)
=============================================================================
