-------------------------------- MODULE Sched -------------------------------
(***************************************************************************)
(* The three schedulers of the xv6 kernel (xv6/kernel/proc.c) on one CPU,  *)
(* the build's default (CPUS := 1), driven by the clock interrupt of       *)
(* trap.c.  Interrupts are off in scheduler(), in clockintr() and while a  *)
(* process lock is held, so each of these is one step here; clockintr(),   *)
(* the boost, the wakeup of the tick sleepers and yield() follow each      *)
(* other without any other step in between (variable phase).               *)
(* A slot's parent, and the locking of kwait and kfork, are in module      *)
(* Proc; what schedstats() reports is in module SchedStats.                *)
(***************************************************************************)
EXTENDS Naturals, FiniteSets

CONSTANTS
    NPROC,          \* slots of the process table
    Builds,         \* the kernels looked at, by the Makefile's SCHEDULER
    MLFQ_LEVELS,
    slices,         \* ticks of a slice, per queue
    BoostPeriod,    \* 48 in clockintr()
    Killable        \* the processes that kill() is called for

ASSUME SchedAssumption ==
    /\ NPROC \in Nat \ {0}
    /\ Builds \subseteq {"RR", "FCFS", "MLFQ"}
    /\ MLFQ_LEVELS \in Nat \ {0}
    /\ slices \in [0..(MLFQ_LEVELS - 1) -> Nat \ {0}]
    /\ BoostPeriod \in Nat \ {0}
    /\ Killable \subseteq 0..(NPROC - 1)

Procs == 0..(NPROC - 1)
NoProc == NPROC             \* c->proc = 0
Queues == 0..(MLFQ_LEVELS - 1)

VARIABLES
    policy,                 \* the scheduler the kernel is built with
    state, chan, killed,    \* p->state, what p sleeps for, p->killed
    queue, slice_ticks,     \* MLFQ
    sequence, next,         \* MLFQ and FCFS
    ticks,
    cur,                    \* cpus[0].proc
    scan,                   \* RR: the slot scheduler()'s loop looks at next
    phase,                  \* where the clock interrupt is
    due                     \* the timer may fire before the next dispatch

runvars == <<state, chan, killed, cur, scan, phase, due>>
mlfqvars == <<queue, slice_ticks>>
seqvars == <<sequence, next>>
vars == <<policy, runvars, mlfqvars, seqvars, ticks>>

Runnable == {p \in Procs : state[p] = "RUNNABLE"}
Live == {p \in Procs : state[p] \notin {"UNUSED", "ZOMBIE"}}

Rank(p, S) == Cardinality({q \in S : q < p})

\* Mutant: no new number.
enqueue_Never(S) == UNCHANGED seqvars

\* enqueue_locked() for each process of S, in the order of the table.  The
\* round-robin kernel is built without it.
enqueue(S) ==
    IF policy = "RR" THEN UNCHANGED seqvars
    ELSE /\ sequence' = [p \in Procs |-> IF p \in S THEN next + Rank(p, S) ELSE sequence[p]]
         /\ next' = next + Cardinality(S)

\* userinit() has put init into slot 0.
Init ==
    /\ policy \in Builds
    /\ state = [p \in Procs |-> IF p = 0 THEN "RUNNABLE" ELSE "UNUSED"]
    /\ chan = [p \in Procs |-> "none"]
    /\ killed = [p \in Procs |-> FALSE]
    /\ queue = [p \in Procs |-> 0]
    /\ slice_ticks = [p \in Procs |-> 0]
    /\ sequence = [p \in Procs |-> 0]
    /\ next = (IF policy = "RR" THEN 0 ELSE 1)
    /\ ticks = 0
    /\ cur = NoProc
    /\ scan = 0
    /\ phase = "run"
    /\ due = TRUE

-----------------------------------------------------------------------------
(* scheduler()                                                             *)

Dispatch(p) ==
    /\ state' = [state EXCEPT ![p] = "RUNNING"]
    /\ cur' = p
    /\ due' = TRUE
    /\ UNCHANGED <<chan, killed, phase, mlfqvars, seqvars, ticks>>

\* One pass over the table that keeps the smallest sequence number of S.
First(S) == CHOOSE p \in S : \A q \in S : sequence[p] <= sequence[q]

\* The queues are looked at from 0 until one has a runnable process.
ScheduleMLFQ ==
    /\ policy = "MLFQ" /\ cur = NoProc /\ phase = "run"
    /\ \E k \in Queues :
        LET S == {p \in Runnable : queue[p] = k}
        IN  /\ S # {}
            /\ \A p \in Runnable : queue[p] >= k
            /\ Dispatch(First(S))
    /\ UNCHANGED scan

ScheduleFCFS ==
    /\ policy = "FCFS" /\ cur = NoProc /\ phase = "run"
    /\ Runnable # {}
    /\ Dispatch(First(Runnable))
    /\ UNCHANGED scan

\* Mutant: every dispatch starts again at the first slot.
ScheduleRR_Restart ==
    /\ policy = "RR" /\ cur = NoProc /\ phase = "run"
    /\ \E p \in Runnable :
        /\ \A q \in Runnable : p <= q
        /\ Dispatch(p)
    /\ UNCHANGED scan

\* The scan of the table goes on behind the process that ran last.
ScheduleRR ==
    /\ policy = "RR" /\ cur = NoProc /\ phase = "run"
    /\ \E p \in Runnable :
        /\ p >= scan
        /\ \A q \in Runnable : q >= scan => p <= q
        /\ Dispatch(p)
        /\ scan' = p + 1

\* The end of the table: interrupts are enabled, then the next pass begins.
ScanEnd ==
    /\ policy = "RR" /\ cur = NoProc /\ phase = "run"
    /\ scan > 0
    /\ \A p \in Runnable : p < scan
    /\ scan' = 0
    /\ UNCHANGED <<state, chan, killed, cur, phase, due, mlfqvars, seqvars, ticks>>

-----------------------------------------------------------------------------
(* The timer interrupt: clockintr(), mlfq_boost(), wakeup(&ticks), yield() *)

\* Interrupts are enabled while a process runs and before a pass of
\* scheduler(), not between two processes of a round-robin pass.
intr_on == cur # NoProc \/ policy # "RR" \/ scan = 0

\* Timer interrupts are a tick apart and a pass of scheduler() is shorter, so
\* at most one comes between two dispatches, unless the CPU is idle.
clockintr ==
    /\ phase = "run" /\ intr_on
    /\ due \/ (cur = NoProc /\ Runnable = {})
    /\ due' = FALSE
    /\ ticks' = ticks + 1
    /\ slice_ticks' = IF policy = "MLFQ" /\ cur # NoProc
                      THEN [slice_ticks EXCEPT ![cur] = @ + 1] ELSE slice_ticks
    /\ phase' = IF policy = "MLFQ" /\ ticks' % BoostPeriod = 0 THEN "boost" ELSE "wakeup"
    /\ UNCHANGED <<state, chan, killed, cur, scan, queue, seqvars>>

mlfq_boost ==
    /\ phase = "boost"
    /\ queue' = [p \in Procs |-> IF p \in Live THEN 0 ELSE queue[p]]
    /\ slice_ticks' = [p \in Procs |-> IF p \in Live THEN 0 ELSE slice_ticks[p]]
    /\ enqueue(Runnable)
    /\ phase' = "wakeup"
    /\ UNCHANGED <<state, chan, killed, cur, scan, due, ticks>>

\* wakeup(ch), the loop over the table.
wakeup(ch) ==
    LET W == {p \in Procs : chan[p] = ch}
        S == {p \in W : state[p] = "SLEEPING"}
    IN  /\ chan' = [p \in Procs |-> IF p \in W THEN "none" ELSE chan[p]]
        /\ state' = [p \in Procs |-> IF p \in S THEN "RUNNABLE" ELSE state[p]]
        /\ enqueue(S)

\* The end of clockintr().  usertrap() yields unless the process is killed;
\* kerneltrap() yields if there is a process.
ClockWakeup ==
    /\ phase = "wakeup"
    /\ wakeup("ticks")
    /\ \/ cur # NoProc /\ phase' = "yield"
       \/ (cur # NoProc => killed[cur]) /\ phase' = "run"
    /\ UNCHANGED <<killed, cur, scan, due, mlfqvars, ticks>>

Lower(k) == IF k < MLFQ_LEVELS - 1 THEN k + 1 ELSE k

\* The part of yield() for a process that has used its slice up.
Demote(p) ==
    IF slice_ticks[p] >= slices[queue[p]]
    THEN /\ queue' = [queue EXCEPT ![p] = Lower(@)]
         /\ slice_ticks' = [slice_ticks EXCEPT ![p] = 0]
    ELSE UNCHANGED mlfqvars

yield ==
    /\ phase = "yield"
    /\ IF policy = "MLFQ" THEN Demote(cur) /\ enqueue({cur})
       ELSE UNCHANGED <<mlfqvars, seqvars>>
    /\ state' = [state EXCEPT ![cur] = "RUNNABLE"]
    /\ cur' = NoProc
    /\ phase' = "run"
    /\ UNCHANGED <<chan, killed, scan, due, ticks>>

-----------------------------------------------------------------------------
(* What the running process does, and device interrupts.                   *)

\* kfork: allocproc() takes the first free slot and resets it, the child is
\* enqueued.
kfork ==
    /\ phase = "run" /\ cur # NoProc
    /\ \E p \in Procs :
        /\ state[p] = "UNUSED"
        /\ \A q \in Procs : state[q] = "UNUSED" => p <= q
        /\ state' = [state EXCEPT ![p] = "RUNNABLE"]
        /\ queue' = [queue EXCEPT ![p] = 0]
        /\ slice_ticks' = [slice_ticks EXCEPT ![p] = 0]
        /\ enqueue({p})
    /\ UNCHANGED <<chan, killed, cur, scan, due, phase, ticks>>

\* sleep_prepare(ch) ... sleep(): a pause() or a wait for anything else.
sleep(ch) ==
    /\ phase = "run" /\ cur # NoProc
    /\ state' = [state EXCEPT ![cur] = "SLEEPING"]
    /\ chan' = [chan EXCEPT ![cur] = ch]
    /\ cur' = NoProc
    /\ UNCHANGED <<killed, scan, due, phase, mlfqvars, seqvars, ticks>>

\* A wakeup by a device interrupt or by the running process.
Wakeup ==
    /\ phase = "run" /\ intr_on
    /\ \E p \in Procs : chan[p] = "other" /\ state[p] = "SLEEPING"
    /\ wakeup("other")
    /\ UNCHANGED <<killed, cur, scan, due, phase, mlfqvars, ticks>>

kexit ==
    /\ phase = "run" /\ cur \in Procs \ {0}
    /\ state' = [state EXCEPT ![cur] = "ZOMBIE"]
    /\ cur' = NoProc
    /\ UNCHANGED <<chan, killed, scan, due, phase, mlfqvars, seqvars, ticks>>

\* kwait by the running process: freeproc() of a zombie.
kwait ==
    /\ phase = "run" /\ cur # NoProc
    /\ \E z \in Procs :
        /\ state[z] = "ZOMBIE"
        /\ state' = [state EXCEPT ![z] = "UNUSED"]
        /\ chan' = [chan EXCEPT ![z] = "none"]
        /\ killed' = [killed EXCEPT ![z] = FALSE]
        /\ queue' = [queue EXCEPT ![z] = 0]
        /\ slice_ticks' = [slice_ticks EXCEPT ![z] = 0]
        /\ sequence' = [sequence EXCEPT ![z] = 0]
    /\ UNCHANGED <<cur, scan, due, phase, next, ticks>>

\* kkill makes a sleeper runnable without enqueue_locked().
kkill ==
    /\ phase = "run" /\ cur # NoProc
    /\ \E p \in Killable :
        /\ state[p] # "UNUSED"
        /\ killed' = [killed EXCEPT ![p] = TRUE]
        /\ state' = [state EXCEPT ![p] = IF @ = "SLEEPING" THEN "RUNNABLE" ELSE @]
    /\ UNCHANGED <<chan, cur, scan, due, phase, mlfqvars, seqvars, ticks>>

Next ==
    /\ UNCHANGED policy
    /\ \/ ScheduleMLFQ \/ ScheduleFCFS \/ ScheduleRR \/ ScanEnd
       \/ clockintr \/ mlfq_boost \/ ClockWakeup \/ yield
       \/ kfork \/ sleep("ticks") \/ sleep("other") \/ Wakeup
       \/ kexit \/ kwait \/ kkill

Spec == Init /\ [][Next]_vars
-----------------------------------------------------------------------------
(* Properties.                                                             *)

TypeOK ==
    /\ policy \in Builds
    /\ state \in [Procs -> {"UNUSED", "SLEEPING", "RUNNABLE", "RUNNING", "ZOMBIE"}]
    /\ chan \in [Procs -> {"none", "ticks", "other"}]
    /\ killed \in [Procs -> BOOLEAN]
    /\ queue \in [Procs -> Queues]
    /\ slice_ticks \in [Procs -> Nat]
    /\ sequence \in [Procs -> Nat]
    /\ next \in Nat
    /\ ticks \in Nat
    /\ cur \in Procs \cup {NoProc}
    /\ scan \in 0..NPROC
    /\ phase \in {"run", "boost", "wakeup", "yield"}
    /\ due \in BOOLEAN

\* The process on the CPU is the only RUNNING one.
OneRunning == \A p \in Procs : state[p] = "RUNNING" <=> p = cur

\* The numbers that stand for queue positions never collide, also when kkill
\* leaves an old one in place or a slot is used again, so the order that
\* scheduler() picks by is total.
DistinctPositions ==
    policy # "RR" =>
        /\ \A p \in Live : sequence[p] < next
        /\ \A p, q \in Live : p # q => sequence[p] # sequence[q]

\* The demotion of yield() and the reset of mlfq_boost() leave no process off
\* the CPU with a slice that is used up ("A process that uses its complete
\* slice moves to the next lower queue").  A killed process goes to kexit
\* without yielding.
SliceLeft ==
    policy = "MLFQ" =>
        \A p \in Live : p # cur /\ ~killed[p] => slice_ticks[p] < slices[queue[p]]

\* First come, first served: the process on the CPU became ready before every
\* other ready process.  A process made runnable by kkill is an exception.
FirstCome ==
    policy = "FCFS" /\ cur # NoProc =>
        \A q \in Runnable : ~killed[q] => sequence[cur] < sequence[q]
=============================================================================
