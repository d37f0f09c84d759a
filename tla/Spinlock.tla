------------------------------ MODULE Spinlock ------------------------------
(* Interrupts and spin locks of a CPU: kernel/spinlock.c, and what sched()    *)
(* and scheduler() of kernel/proc.c do to them.                              *)
(* A CPU is a record of the fields noff and intena of struct cpu, and the     *)
(* SIE bit of its sstatus.                                                   *)
EXTENDS Naturals

\* scheduler() between two processes: it lets interrupts in
Looking == [noff |-> 0, intena |-> TRUE, sie |-> TRUE]

push_off(c) == [noff |-> c.noff + 1, intena |-> IF c.noff = 0 THEN c.sie ELSE c.intena, sie |-> FALSE]

pop_off(c) == [c EXCEPT !.noff = @ - 1, !.sie = c.noff = 1 /\ c.intena]

\* Mutant: the interrupts stay on.
acquire_On(c) == [c EXCEPT !.noff = @ + 1, !.intena = IF c.noff = 0 THEN c.sie ELSE @]

acquire(c) == push_off(c)

release(c) == pop_off(c)

\* A thread that has called sched() with its intena goes on at CPU c: the
\* scheduler has turned interrupts off and has its lock, which it releases.
Resumed(c, intena) ==
    LET held == push_off([c EXCEPT !.sie = FALSE])
    IN  release([held EXCEPT !.intena = intena])
=============================================================================
