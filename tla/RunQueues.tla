------------------------------ MODULE RunQueues -----------------------------
(***************************************************************************)
(* What the MLFQ scheduler promises (report.md): one FIFO queue per level, *)
(* the head of the first non-empty queue runs, a process that used its     *)
(* slice goes to the tail of the next queue, one that slept to the tail of *)
(* its own, and every BoostPeriod ticks all are moved to queue 0.  The     *)
(* queues are sequences here; module Sched has only numbers in the process *)
(* table, and SchedRefinement shows that they amount to these queues.      *)
(***************************************************************************)
EXTENDS Naturals, Sequences, SequencesExt

CONSTANTS
    NPROC, MLFQ_LEVELS, slices, BoostPeriod,
    Killable        \* the processes that kill() is called for

Procs == 0..(NPROC - 1)
NoProc == NPROC
Queues == 0..(MLFQ_LEVELS - 1)

VARIABLES
    rq,             \* the ready processes of each level, in order
    state,
    chan,           \* what a sleeper waits for
    level, used,    \* the queue of a process, the ticks used of its slice
    cur,            \* the process on the CPU
    clock,          \* ticks since the last boost
    phase,
    due,            \* a tick may come before the next Pick
    killed

vars == <<rq, state, chan, level, used, cur, clock, phase, due, killed>>

Present == {p \in Procs : state[p] \notin {"UNUSED", "ZOMBIE"}}
InTableOrder(S) == SetToSortSeq(S, <)

\* The processes of S go to the tail of their queue.
Enqueue(S) == rq' = [k \in Queues |-> rq[k] \o InTableOrder({p \in S : level'[p] = k})]

Init ==
    /\ state = [p \in Procs |-> IF p = 0 THEN "RUNNABLE" ELSE "UNUSED"]
    /\ rq = [k \in Queues |-> IF k = 0 THEN <<0>> ELSE <<>>]
    /\ chan = [p \in Procs |-> "none"]
    /\ level = [p \in Procs |-> 0]
    /\ used = [p \in Procs |-> 0]
    /\ cur = NoProc
    /\ clock = 0
    /\ phase = "run"
    /\ due = TRUE
    /\ killed = [p \in Procs |-> FALSE]

\* The head of the first non-empty queue gets the CPU.
Pick ==
    /\ cur = NoProc /\ phase = "run"
    /\ \E k \in Queues :
        /\ rq[k] # <<>>
        /\ \A j \in Queues : j < k => rq[j] = <<>>
        /\ cur' = Head(rq[k])
        /\ rq' = [rq EXCEPT ![k] = Tail(@)]
    /\ state' = [state EXCEPT ![cur'] = "RUNNING"]
    /\ due' = TRUE
    /\ UNCHANGED <<chan, level, used, clock, phase, killed>>

Tick ==
    /\ phase = "run"
    /\ due \/ (cur = NoProc /\ \A k \in Queues : rq[k] = <<>>)
    /\ due' = FALSE
    /\ clock' = (clock + 1) % BoostPeriod
    /\ used' = IF cur = NoProc THEN used ELSE [used EXCEPT ![cur] = @ + 1]
    /\ phase' = IF clock' = 0 THEN "boost" ELSE "wakeup"
    /\ UNCHANGED <<rq, state, chan, level, cur, killed>>

\* All ready processes line up in queue 0, in the order of the table.
Boost ==
    /\ phase = "boost"
    /\ level' = [p \in Procs |-> IF p \in Present THEN 0 ELSE level[p]]
    /\ used' = [p \in Procs |-> IF p \in Present THEN 0 ELSE used[p]]
    /\ rq' = [k \in Queues |->
                 IF k = 0 THEN InTableOrder({p \in Procs : state[p] = "RUNNABLE"}) ELSE <<>>]
    /\ phase' = "wakeup"
    /\ UNCHANGED <<state, chan, cur, clock, due, killed>>

Wake(ch) ==
    LET S == {p \in Procs : chan[p] = ch /\ state[p] = "SLEEPING"}
    IN  /\ chan' = [p \in Procs |-> IF p \in S THEN "none" ELSE chan[p]]
        /\ state' = [p \in Procs |-> IF p \in S THEN "RUNNABLE" ELSE state[p]]
        /\ UNCHANGED level
        /\ Enqueue(S)

\* A process that is killed may be on its way to exit and is not preempted.
WakeTickSleepers ==
    /\ phase = "wakeup"
    /\ Wake("ticks")
    /\ \/ cur # NoProc /\ phase' = "yield"
       \/ (cur # NoProc => killed[cur]) /\ phase' = "run"
    /\ UNCHANGED <<used, cur, clock, due, killed>>

\* The process on the CPU goes to the tail of its queue, or of the next one
\* when its slice is used up.
Preempt ==
    /\ phase = "yield"
    /\ LET done == used[cur] >= slices[level[cur]]
           last == level[cur] = MLFQ_LEVELS - 1
       IN  /\ level' = [level EXCEPT ![cur] = IF done /\ ~last THEN @ + 1 ELSE @]
           /\ used' = [used EXCEPT ![cur] = IF done THEN 0 ELSE @]
    /\ Enqueue({cur})
    /\ state' = [state EXCEPT ![cur] = "RUNNABLE"]
    /\ cur' = NoProc
    /\ phase' = "run"
    /\ UNCHANGED <<chan, clock, due, killed>>

Sleep(ch) ==
    /\ phase = "run" /\ cur # NoProc
    /\ state' = [state EXCEPT ![cur] = "SLEEPING"]
    /\ chan' = [chan EXCEPT ![cur] = ch]
    /\ cur' = NoProc
    /\ UNCHANGED <<rq, level, used, clock, phase, due, killed>>

Wakeup ==
    /\ phase = "run"
    /\ \E p \in Procs : chan[p] = "other" /\ state[p] = "SLEEPING"
    /\ Wake("other")
    /\ UNCHANGED <<used, cur, clock, phase, due, killed>>

\* A new process enters at the tail of queue 0.
Fork ==
    /\ phase = "run" /\ cur # NoProc
    /\ \E p \in Procs :
        /\ state[p] = "UNUSED"
        /\ state' = [state EXCEPT ![p] = "RUNNABLE"]
        /\ level' = [level EXCEPT ![p] = 0]
        /\ used' = [used EXCEPT ![p] = 0]
        /\ Enqueue({p})
    /\ UNCHANGED <<chan, cur, clock, phase, due, killed>>

Exit ==
    /\ phase = "run" /\ cur \in Procs \ {0}
    /\ state' = [state EXCEPT ![cur] = "ZOMBIE"]
    /\ cur' = NoProc
    /\ UNCHANGED <<rq, chan, level, used, clock, phase, due, killed>>

Reap ==
    /\ phase = "run" /\ cur # NoProc
    /\ \E z \in Procs :
        /\ state[z] = "ZOMBIE"
        /\ state' = [state EXCEPT ![z] = "UNUSED"]
        /\ level' = [level EXCEPT ![z] = 0]
        /\ used' = [used EXCEPT ![z] = 0]
        /\ killed' = [killed EXCEPT ![z] = FALSE]
    /\ UNCHANGED <<rq, chan, cur, clock, phase, due>>

\* A sleeper that is killed enters its queue, not always at the tail.
Kill ==
    /\ phase = "run" /\ cur # NoProc
    /\ \E p \in Killable :
        /\ state[p] # "UNUSED"
        /\ killed' = [killed EXCEPT ![p] = TRUE]
        /\ IF state[p] = "SLEEPING"
           THEN /\ state' = [state EXCEPT ![p] = "RUNNABLE"]
                /\ chan' = [chan EXCEPT ![p] = "none"]
                /\ \E i \in 1..(Len(rq[level[p]]) + 1) :
                       rq' = [rq EXCEPT ![level[p]] = InsertAt(@, i, p)]
           ELSE UNCHANGED <<state, chan, rq>>
    /\ UNCHANGED <<level, used, cur, clock, phase, due>>

Next ==
    \/ Pick \/ Tick \/ Boost \/ WakeTickSleepers \/ Preempt
    \/ Sleep("ticks") \/ Sleep("other") \/ Wakeup
    \/ Fork \/ Exit \/ Reap \/ Kill

Spec == Init /\ [][Next]_vars
=============================================================================
