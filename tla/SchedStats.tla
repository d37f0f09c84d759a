----------------------------- MODULE SchedStats -----------------------------
(***************************************************************************)
(* What the schedstats() system call reports about a process: the fields   *)
(* arrival, first_run, ticks and waiting of struct proc, which allocproc   *)
(* and freeproc reset, scheduler() and clockintr() update, and no decision *)
(* of the scheduler reads.  The fields of one slot are followed, and, as a *)
(* history variable, the processes that the round-robin scheduler switched *)
(* to since the process of that slot became ready.                         *)
(***************************************************************************)
EXTENDS Sched

CONSTANT Slot               \* the slot that is followed

ASSUME SlotAssumption == Slot \in Procs

VARIABLES arrival, first_run, started, cputicks, waiting, passed

statvars == <<arrival, first_run, started, cputicks, waiting, passed>>
allvars == <<vars, statvars>>

StatsInit ==
    /\ Init
    /\ arrival = 0 /\ first_run = 0 /\ started = FALSE
    /\ cputicks = 0 /\ waiting = 0
    /\ passed = {}

\* allocproc() or freeproc() of the slot.
Reset == state'[Slot] = "UNUSED" \/ state[Slot] = "UNUSED"

\* scheduler(): the first time the process is switched to.
FirstRun == state'[Slot] = "RUNNING" /\ ~started

\* Mutant: everything that is alive waits.
Waits_All == Slot \in Live

\* clockintr(): the tick goes to the process on the CPU and to the ready ones.
Tick == ticks' # ticks
Waits == state[Slot] = "RUNNABLE"

\* The process switched to by the step, if any.
Dispatched == {q \in Procs : state[q] # "RUNNING" /\ state'[q] = "RUNNING"}
StaysReady == state[Slot] = "RUNNABLE" /\ state'[Slot] = "RUNNABLE"

StatsNext ==
    /\ Next
    /\ IF Reset
       THEN /\ arrival' = IF state'[Slot] = "UNUSED" THEN 0 ELSE ticks
            /\ first_run' = 0 /\ started' = FALSE
            /\ cputicks' = 0 /\ waiting' = 0
       ELSE /\ first_run' = IF FirstRun THEN ticks ELSE first_run
            /\ started' = (started \/ FirstRun)
            /\ cputicks' = IF Tick /\ Slot = cur THEN cputicks + 1 ELSE cputicks
            /\ waiting' = IF Tick /\ Waits THEN waiting + 1 ELSE waiting
            /\ UNCHANGED arrival
    /\ passed' = IF policy = "RR" /\ StaysReady THEN passed \cup Dispatched ELSE {}

StatsSpec == StatsInit /\ [][StatsNext]_allvars

-----------------------------------------------------------------------------
\* clockintr() charges a tick to a process as CPU time or as waiting time,
\* never as both, and only within its life.
TicksAccounted == Slot \in Live => arrival + cputicks + waiting <= ticks

\* A process is ready all the time until it first runs: the response time
\* that schedulertest prints (first_run - arrival) is part of the waiting
\* time, and is all of it when the process is switched to.
ResponseIsWaiting ==
    Slot \in Live =>
        IF started
        THEN arrival <= first_run /\ first_run - arrival <= waiting
        ELSE arrival + waiting = ticks

\* The scan of the round-robin scheduler goes on where it stopped: no process
\* is switched to twice while another one stays ready ("every runnable
\* process receives regular CPU access").
BoundedBypass == [][StaysReady => passed \cap Dispatched = {}]_allvars
=============================================================================
