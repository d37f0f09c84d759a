------------------------------ MODULE SchedScan -----------------------------
(***************************************************************************)
(* scheduler() of xv6/kernel/proc.c on several CPUs, at the level of the   *)
(* process locks.  The MLFQ and FCFS scans keep the lock of the best       *)
(* process found so far while they acquire the locks behind it, and other  *)
(* CPUs run processes, wake them and boost them in the meantime.  FCFS is  *)
(* the case of one level.                                                  *)
(***************************************************************************)
EXTENDS Naturals, FiniteSets

CONSTANTS NPROC, NCPU, MLFQ_LEVELS

ASSUME ScanAssumption == NPROC \in Nat \ {0} /\ NCPU \in Nat \ {0} /\ MLFQ_LEVELS \in Nat \ {0}

Procs == 0..(NPROC - 1)
NoProc == NPROC
CPUs == 0..(NCPU - 1)
NoCPU == NCPU
Queues == 0..(MLFQ_LEVELS - 1)

VARIABLES
    pstate, queue, sequence, next,
    lock,           \* the CPU holding p->lock across steps
    mode,           \* per CPU: "scan", "run" a process, or "switch" away from it
    cur,            \* cpus[c].proc
    k, i, selected, \* per CPU: scheduler()'s locals queue, p and selected
    boosting,       \* the slot mlfq_boost() on CPU 0 is at, NPROC outside of it
    stable          \* history, per CPU: the processes that have been ready at
                    \* the same place of queue k since the pass over it began

procvars == <<pstate, queue, sequence, next>>
scanvars == <<k, i, selected>>
allvars == <<procvars, lock, mode, cur, scanvars, boosting, stable>>

Ready(q) == {p \in Procs : pstate[p] = "RUNNABLE" /\ queue[p] = q}

\* The history variable for a step that may also begin a pass on CPU c.
KeepStable(passBegins(_)) ==
    stable' = [c \in CPUs |->
        IF passBegins(c) THEN {p \in Procs : pstate'[p] = "RUNNABLE" /\ queue'[p] = k'[c]}
        ELSE {p \in stable[c] : pstate'[p] = "RUNNABLE" /\ queue'[p] = queue[p]
                                /\ sequence'[p] = sequence[p]}]

\* init is ready in queue 0; the other processes wait for something.
ScanInit ==
    /\ pstate = [p \in Procs |-> IF p = 0 THEN "RUNNABLE" ELSE "SLEEPING"]
    /\ queue = [p \in Procs |-> 0]
    /\ sequence = [p \in Procs |-> p]
    /\ next = NPROC
    /\ lock = [p \in Procs |-> NoCPU]
    /\ mode = [c \in CPUs |-> "scan"]
    /\ cur = [c \in CPUs |-> NoProc]
    /\ k = [c \in CPUs |-> 0]
    /\ i = [c \in CPUs |-> 0]
    /\ selected = [c \in CPUs |-> NoProc]
    /\ boosting = NPROC
    /\ stable = [c \in CPUs |-> Ready(0)]

\* CPU 0 does nothing else while it is in mlfq_boost().
Free(c) == c = 0 => boosting = NPROC

\* Mutant: the numbers are not compared.
Better_Last(c, p) == pstate[p] = "RUNNABLE" /\ queue[p] = k[c]

\* p is to replace the process selected so far.
Better(c, p) ==
    /\ pstate[p] = "RUNNABLE" /\ queue[p] = k[c]
    /\ selected[c] # NoProc => sequence[p] < sequence[selected[c]]

\* Mutant: the lock of the selected process is released like the others.
LocksAfter_NotKept(c, p) == lock

\* The lock of the process selected before p is released, that of p is kept.
LocksAfter(c, p) ==
    [q \in Procs |-> IF q = p THEN c ELSE IF q = selected[c] THEN NoCPU ELSE lock[q]]

\* One round of the inner loop: acquire(&p->lock) and compare.
ScanVisit(c) ==
    LET p == i[c]
    IN  /\ mode[c] = "scan" /\ Free(c)
        /\ p < NPROC
        /\ lock[p] = NoCPU
        /\ IF Better(c, p)
           THEN selected' = [selected EXCEPT ![c] = p] /\ lock' = LocksAfter(c, p)
           ELSE UNCHANGED <<selected, lock>>
        /\ i' = [i EXCEPT ![c] = p + 1]
        /\ UNCHANGED <<procvars, mode, cur, k, boosting>>
        /\ KeepStable(LAMBDA d : FALSE)

\* The end of a pass that found a process: it runs, and releases its lock.
ScanRun(c) ==
    /\ mode[c] = "scan" /\ Free(c)
    /\ i[c] = NPROC /\ selected[c] # NoProc
    /\ pstate' = [pstate EXCEPT ![selected[c]] = "RUNNING"]
    /\ cur' = [cur EXCEPT ![c] = selected[c]]
    /\ lock' = [lock EXCEPT ![selected[c]] = NoCPU]
    /\ selected' = [selected EXCEPT ![c] = NoProc]
    /\ mode' = [mode EXCEPT ![c] = "run"]
    /\ UNCHANGED <<queue, sequence, next, k, i, boosting>>
    /\ KeepStable(LAMBDA d : FALSE)

\* The end of a pass that found none: the next queue, or wfi and start over.
ScanNextQueue(c) ==
    /\ mode[c] = "scan" /\ Free(c)
    /\ i[c] = NPROC /\ selected[c] = NoProc
    /\ k' = [k EXCEPT ![c] = (@ + 1) % MLFQ_LEVELS]
    /\ i' = [i EXCEPT ![c] = 0]
    /\ UNCHANGED <<procvars, lock, mode, cur, selected, boosting>>
    /\ KeepStable(LAMBDA d : d = c)

Lower(q) == IF q < MLFQ_LEVELS - 1 THEN q + 1 ELSE q

\* yield() and sleep() up to the switch: the lock stays held.  The demotion
\* by the slice count (see Sched) may or may not happen.
Leave(c) ==
    LET p == cur[c] IN
    /\ mode[c] = "run" /\ Free(c)
    /\ lock[p] = NoCPU
    /\ \/ /\ pstate' = [pstate EXCEPT ![p] = "RUNNABLE"]
          /\ queue' \in {queue, [queue EXCEPT ![p] = Lower(@)]}
          /\ sequence' = [sequence EXCEPT ![p] = next]
          /\ next' = next + 1
       \/ /\ pstate' = [pstate EXCEPT ![p] = "SLEEPING"]
          /\ UNCHANGED <<queue, sequence, next>>
    /\ lock' = [lock EXCEPT ![p] = c]
    /\ mode' = [mode EXCEPT ![c] = "switch"]
    /\ UNCHANGED <<cur, scanvars, boosting>>
    /\ KeepStable(LAMBDA d : FALSE)

\* scheduler() after swtch(): release the lock and look at queue 0 again.
Resume(c) ==
    /\ mode[c] = "switch"
    /\ lock' = [lock EXCEPT ![cur[c]] = NoCPU]
    /\ cur' = [cur EXCEPT ![c] = NoProc]
    /\ mode' = [mode EXCEPT ![c] = "scan"]
    /\ k' = [k EXCEPT ![c] = 0]
    /\ i' = [i EXCEPT ![c] = 0]
    /\ UNCHANGED <<procvars, selected, boosting>>
    /\ KeepStable(LAMBDA d : d = c)

\* Interrupts are enabled while a process runs and before a scan begins.
Interruptible(c) == Free(c) /\ (mode[c] = "run" \/ (mode[c] = "scan" /\ k[c] = 0 /\ i[c] = 0))

\* wakeup() by a process or an interrupt handler, for one sleeper.
Wake(p) ==
    /\ \E c \in CPUs : Interruptible(c)
    /\ pstate[p] = "SLEEPING" /\ lock[p] = NoCPU
    /\ pstate' = [pstate EXCEPT ![p] = "RUNNABLE"]
    /\ sequence' = [sequence EXCEPT ![p] = next]
    /\ next' = next + 1
    /\ UNCHANGED <<queue, lock, mode, cur, scanvars, boosting>>
    /\ KeepStable(LAMBDA d : FALSE)

\* clockintr() on CPU 0 enters mlfq_boost().
BoostBegin ==
    /\ Interruptible(0)
    /\ boosting' = 0
    /\ UNCHANGED <<procvars, lock, mode, cur, scanvars>>
    /\ KeepStable(LAMBDA d : FALSE)

BoostVisit ==
    /\ boosting < NPROC
    /\ lock[boosting] = NoCPU
    /\ queue' = [queue EXCEPT ![boosting] = 0]
    /\ IF pstate[boosting] = "RUNNABLE"
       THEN /\ sequence' = [sequence EXCEPT ![boosting] = next]
            /\ next' = next + 1
       ELSE UNCHANGED <<sequence, next>>
    /\ boosting' = boosting + 1
    /\ UNCHANGED <<pstate, lock, mode, cur, scanvars>>
    /\ KeepStable(LAMBDA d : FALSE)

CPUStep(c) == ScanVisit(c) \/ ScanRun(c) \/ ScanNextQueue(c) \/ Resume(c)

ScanNext ==
    \/ \E c \in CPUs : CPUStep(c) \/ Leave(c)
    \/ \E p \in Procs : Wake(p)
    \/ BoostBegin \/ BoostVisit

ScanSpec == ScanInit /\ [][ScanNext]_allvars

-----------------------------------------------------------------------------
ScanTypeOK ==
    /\ pstate \in [Procs -> {"SLEEPING", "RUNNABLE", "RUNNING"}]
    /\ queue \in [Procs -> Queues]
    /\ sequence \in [Procs -> Nat]
    /\ next \in Nat
    /\ lock \in [Procs -> CPUs \cup {NoCPU}]
    /\ mode \in [CPUs -> {"scan", "run", "switch"}]
    /\ cur \in [CPUs -> Procs \cup {NoProc}]
    /\ k \in [CPUs -> Queues]
    /\ i \in [CPUs -> 0..NPROC]
    /\ selected \in [CPUs -> Procs \cup {NoProc}]
    /\ boosting \in 0..NPROC
    /\ stable \in [CPUs -> SUBSET Procs]

\* Two scans never give one process to two CPUs.
OneCPUPerProcess ==
    \A p \in Procs :
        /\ Cardinality({c \in CPUs : cur[c] = p}) <= 1
        /\ pstate[p] = "RUNNING" => \E c \in CPUs : cur[c] = p /\ mode[c] = "run"

\* While a CPU waits for a process lock in the scan, it holds at most one and
\* only one of a lower slot; no cycle of CPUs waiting for each other can form.
ScanLockOrder ==
    \A c \in CPUs : mode[c] = "scan" =>
        \A p \in Procs : lock[p] = c => p = selected[c] /\ p < i[c]

\* What a pass picks is not younger than any process that was ready in that
\* queue during the whole pass, whatever other CPUs did meanwhile.
PicksTheOldest ==
    \A c \in CPUs : mode[c] = "scan" /\ i[c] = NPROC =>
        /\ selected[c] # NoProc =>
            \A p \in stable[c] : sequence[selected[c]] <= sequence[p]
        /\ selected[c] = NoProc => stable[c] = {}
=============================================================================
