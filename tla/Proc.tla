-------------------------------- MODULE Proc --------------------------------
(***************************************************************************)
(* The life of a process in the xv6 kernel (xv6/kernel/proc.c, trap.c):    *)
(* fork, exit, wait, kill, the sleep_prepare/sleep/wakeup protocol on the  *)
(* wait channel, and the hand-over of a process between CPUs.              *)
(*                                                                         *)
(* A step is one critical section of the code.  p->lock is visible only    *)
(* where it is held across a context switch (plock[p] = c from the switch  *)
(* out of p in sched() until the scheduler on CPU c releases it); every    *)
(* other use of p->lock is one step.  wait_lock is held over several       *)
(* steps.  Which runnable process a free CPU picks is left open here, so   *)
(* the results hold for all three schedulers; module Sched models them.    *)
(***************************************************************************)
EXTENDS Naturals, FiniteSets

CONSTANTS
    Proc,       \* the slots of the process table proc[NPROC]
    InitProc,   \* the slot of the first user process
    CPU,        \* the harts
    Null,       \* the null pointer
    KillPids,   \* the arguments programs pass to kill()
    MaxPid      \* bound of the model: no fork succeeds after this pid

ASSUME ProcAssumption ==
    /\ InitProc \in Proc
    /\ Null \notin Proc \cup CPU
    /\ MaxPid \in Nat \ {0}
    /\ KillPids \subseteq Nat

VARIABLES
    state,      \* p->state
    pid,        \* p->pid
    parent,     \* p->parent, protected by wait_lock
    chan,       \* p->chan
    killed,     \* p->killed
    pc,         \* where the kernel thread of p is
    np,         \* the local np of a kfork in progress
    cpu,        \* cpus[c].proc
    plock,      \* the CPU that holds p->lock over a context switch
    wait_lock,  \* the process holding wait_lock
    nextpid,
    panicked

vars == <<state, pid, parent, chan, killed, pc, np, cpu, plock, wait_lock,
          nextpid, panicked>>

procstate == {"UNUSED", "USED", "SLEEPING", "RUNNABLE", "RUNNING", "ZOMBIE"}

\* Kernel positions inside kwait, inside kexit, and the others.
WaitPc == {"wacquire", "wscan", "wkilled", "wprepare", "wrelease", "wsleep"}
ExitPc == {"exit", "xreparent", "xwakeup", "xzombie"}
Pc == {"user", "ret", "fork", "fparent", "frun", "kill", "dead"} \cup WaitPc \cup ExitPc

\* The process whose code CPU c executes, once it has dropped its own lock.
Executing(p, c) == cpu[c] = p /\ plock[p] = Null
At(p, l) == pc[p] = l /\ \E c \in CPU : Executing(p, c)

Goto(p, l) == pc' = [pc EXCEPT ![p] = l]

(***************************************************************************)
(* Initially userinit() has made InitProc runnable and every CPU is in     *)
(* scheduler().                                                            *)
(***************************************************************************)
Init ==
    /\ state = [p \in Proc |-> IF p = InitProc THEN "RUNNABLE" ELSE "UNUSED"]
    /\ pid = [p \in Proc |-> IF p = InitProc THEN 1 ELSE 0]
    /\ parent = [p \in Proc |-> Null]
    /\ chan = [p \in Proc |-> Null]
    /\ killed = [p \in Proc |-> FALSE]
    /\ pc = [p \in Proc |-> "user"]
    /\ np = [p \in Proc |-> Null]
    /\ cpu = [c \in CPU |-> Null]
    /\ plock = [p \in Proc |-> Null]
    /\ wait_lock = Null
    /\ nextpid = 2
    /\ panicked = FALSE

-----------------------------------------------------------------------------
(* Context switches.                                                       *)

\* scheduler() picks p, marks it RUNNING and switches to it; p then releases
\* its own lock (in forkret, yield or sleep).
scheduler(c, p) ==
    /\ cpu[c] = Null
    /\ plock[p] = Null
    /\ state[p] = "RUNNABLE"
    /\ state' = [state EXCEPT ![p] = "RUNNING"]
    /\ cpu' = [cpu EXCEPT ![c] = p]
    /\ UNCHANGED <<pid, parent, chan, killed, pc, np, plock, wait_lock,
                   nextpid, panicked>>

\* sched(): p leaves CPU c in state s, holding its lock across the switch.
sched(p, c, s) ==
    /\ Executing(p, c)
    /\ state' = [state EXCEPT ![p] = s]
    /\ plock' = [plock EXCEPT ![p] = c]
    /\ UNCHANGED cpu

\* Back in scheduler() on CPU c after swtch: c->proc = 0 and the lock of the
\* process that left is released.
SchedulerResume(c) ==
    /\ cpu[c] # Null
    /\ plock[cpu[c]] = c
    /\ plock' = [plock EXCEPT ![cpu[c]] = Null]
    /\ cpu' = [cpu EXCEPT ![c] = Null]
    /\ UNCHANGED <<state, pid, parent, chan, killed, pc, np, wait_lock,
                   nextpid, panicked>>

\* A timer interrupt makes p give up the CPU.  Interrupts are off while p
\* holds wait_lock.  usertrap() looks at killed before it yields.
yield(p) ==
    /\ pc[p] # "dead" /\ wait_lock # p
    /\ pc[p] = "user" => ~killed[p]
    /\ \E c \in CPU : sched(p, c, "RUNNABLE")
    /\ UNCHANGED <<pid, parent, chan, killed, pc, np, wait_lock, nextpid, panicked>>

-----------------------------------------------------------------------------
(* Entering and leaving the kernel.                                        *)

\* usertrap() for a system call: a killed process exits instead.
Syscall(p) ==
    /\ At(p, "user")
    /\ IF killed[p]
       THEN Goto(p, "exit")
       ELSE \E l \in {"fork", "wacquire", "kill", "exit"} :
                /\ p = InitProc => l # "exit"
                /\ Goto(p, l)
    /\ UNCHANGED <<state, pid, parent, chan, killed, np, cpu, plock,
                   wait_lock, nextpid, panicked>>

\* The end of usertrap(): a killed process exits, any other returns.
ReturnToUser(p) ==
    /\ At(p, "ret")
    /\ Goto(p, IF killed[p] THEN "exit" ELSE "user")
    /\ UNCHANGED <<state, pid, parent, chan, killed, np, cpu, plock,
                   wait_lock, nextpid, panicked>>

\* An unexpected trap from user space: setkilled(p), then kexit(-1).
\* init's program is taken not to fault.
Fault(p) ==
    /\ At(p, "user")
    /\ p # InitProc
    /\ killed' = [killed EXCEPT ![p] = TRUE]
    /\ Goto(p, "exit")
    /\ UNCHANGED <<state, pid, parent, chan, np, cpu, plock, wait_lock,
                   nextpid, panicked>>

-----------------------------------------------------------------------------
(* kfork                                                                   *)

\* freeproc(q) leaves the parent pointer alone.
freeproc(q) ==
    /\ state' = [state EXCEPT ![q] = "UNUSED"]
    /\ pid' = [pid EXCEPT ![q] = 0]
    /\ chan' = [chan EXCEPT ![q] = Null]
    /\ killed' = [killed EXCEPT ![q] = FALSE]

\* allocproc() and the copying of the parent, all under np->lock.
\* allocproc does not touch killed or chan.
ForkAlloc(p) ==
    /\ At(p, "fork")
    /\ nextpid <= MaxPid
    /\ \E q \in Proc :
        /\ state[q] = "UNUSED" /\ plock[q] = Null
        /\ state' = [state EXCEPT ![q] = "USED"]
        /\ pid' = [pid EXCEPT ![q] = nextpid]
        /\ np' = [np EXCEPT ![p] = q]
        /\ pc' = [pc EXCEPT ![p] = "fparent", ![q] = "user"]
    /\ nextpid' = nextpid + 1
    /\ UNCHANGED <<parent, chan, killed, cpu, plock, wait_lock, panicked>>

\* No free slot, or kalloc()/uvmcopy() failed and the slot was freed again.
ForkFail(p) ==
    /\ At(p, "fork")
    /\ \/ /\ \A q \in Proc : state[q] # "UNUSED"
          /\ UNCHANGED <<state, pid, chan, killed, nextpid>>
       \/ \E q \in Proc :
            /\ state[q] = "UNUSED" /\ plock[q] = Null
            /\ freeproc(q)
            /\ nextpid' = IF nextpid <= MaxPid THEN nextpid + 1 ELSE nextpid
    /\ Goto(p, "ret")
    /\ UNCHANGED <<parent, np, cpu, plock, wait_lock, panicked>>

ForkParent(p) ==
    /\ At(p, "fparent")
    /\ wait_lock = Null
    /\ parent' = [parent EXCEPT ![np[p]] = p]
    /\ Goto(p, "frun")
    /\ UNCHANGED <<state, pid, chan, killed, np, cpu, plock, wait_lock,
                   nextpid, panicked>>

ForkRun(p) ==
    /\ At(p, "frun")
    /\ plock[np[p]] = Null
    /\ state' = [state EXCEPT ![np[p]] = "RUNNABLE"]
    /\ np' = [np EXCEPT ![p] = Null]
    /\ Goto(p, "ret")
    /\ UNCHANGED <<pid, parent, chan, killed, cpu, plock, wait_lock,
                   nextpid, panicked>>

-----------------------------------------------------------------------------
(* wakeup: only one process ever waits on the address of a struct proc, so *)
(* the one critical section of the loop that has an effect is one step.    *)

wakeup(ch) ==
    /\ \A q \in Proc : chan[q] = ch => plock[q] = Null
    /\ chan' = [q \in Proc |-> IF chan[q] = ch THEN Null ELSE chan[q]]
    /\ state' = [q \in Proc |-> IF chan[q] = ch /\ state[q] = "SLEEPING"
                                THEN "RUNNABLE" ELSE state[q]]

-----------------------------------------------------------------------------
(* kexit                                                                   *)

\* panic("init exiting"), or the files are closed and wait_lock acquired.
ExitStart(p) ==
    /\ At(p, "exit")
    /\ \/ p = InitProc /\ panicked' = TRUE /\ UNCHANGED <<pc, wait_lock>>
       \/ /\ p # InitProc /\ wait_lock = Null
          /\ wait_lock' = p
          /\ Goto(p, "xreparent")
          /\ UNCHANGED panicked
    /\ UNCHANGED <<state, pid, parent, chan, killed, np, cpu, plock, nextpid>>

\* One round of reparent()'s loop for a child, or the end of the loop.
reparent(p) ==
    /\ At(p, "xreparent")
    /\ \/ \E q \in Proc :
            /\ parent[q] = p
            /\ parent' = [parent EXCEPT ![q] = InitProc]
            /\ wakeup(InitProc)
            /\ UNCHANGED pc
       \/ /\ \A q \in Proc : parent[q] # p
          /\ Goto(p, "xwakeup")
          /\ UNCHANGED <<parent, chan, state>>
    /\ UNCHANGED <<pid, killed, np, cpu, plock, wait_lock, nextpid, panicked>>

ExitWakeup(p) ==
    /\ At(p, "xwakeup")
    /\ wakeup(parent[p])
    /\ Goto(p, "xzombie")
    /\ UNCHANGED <<pid, parent, killed, np, cpu, plock, wait_lock, nextpid, panicked>>

\* p->state = ZOMBIE, release(&wait_lock), sched().
ExitZombie(p) ==
    /\ pc[p] = "xzombie"
    /\ \E c \in CPU : sched(p, c, "ZOMBIE")
    /\ wait_lock' = Null
    /\ Goto(p, "dead")
    /\ UNCHANGED <<pid, parent, chan, killed, np, nextpid, panicked>>

-----------------------------------------------------------------------------
(* kwait                                                                   *)

WaitAcquire(p) ==
    /\ At(p, "wacquire")
    /\ wait_lock = Null
    /\ wait_lock' = p
    /\ Goto(p, "wscan")
    /\ UNCHANGED <<state, pid, parent, chan, killed, np, cpu, plock, nextpid, panicked>>

\* Mutant: kwait does not acquire the lock of the child that it frees.
WaitScan_NoLock(p) ==
    /\ At(p, "wscan")
    /\ \/ \E z \in Proc :
            /\ parent[z] = p /\ state[z] = "ZOMBIE"
            /\ \/ /\ parent' = [parent EXCEPT ![z] = Null]
                  /\ freeproc(z)
               \/ UNCHANGED <<state, pid, parent, chan, killed>>
            /\ wait_lock' = Null
            /\ Goto(p, "ret")
       \/ /\ \A q \in Proc : parent[q] # p
          /\ wait_lock' = Null
          /\ Goto(p, "ret")
          /\ UNCHANGED <<state, pid, parent, chan, killed>>
       \/ /\ \E q \in Proc : parent[q] = p
          /\ \A q \in Proc : parent[q] = p => state[q] # "ZOMBIE"
          /\ Goto(p, "wkilled")
          /\ UNCHANGED <<state, pid, parent, chan, killed, wait_lock>>
    /\ UNCHANGED <<np, cpu, plock, nextpid, panicked>>

\* The scan of the table.  No child becomes a zombie during it, because
\* kexit needs wait_lock; a zombie's lock is free once it has left its CPU.
WaitScan(p) ==
    /\ At(p, "wscan")
    /\ \/ \E z \in Proc :               \* found one: free it, or copyout() failed
            /\ parent[z] = p /\ state[z] = "ZOMBIE" /\ plock[z] = Null
            /\ \/ /\ parent' = [parent EXCEPT ![z] = Null]
                  /\ freeproc(z)
               \/ UNCHANGED <<state, pid, parent, chan, killed>>
            /\ wait_lock' = Null
            /\ Goto(p, "ret")
       \/ /\ \A q \in Proc : parent[q] # p
          /\ wait_lock' = Null
          /\ Goto(p, "ret")
          /\ UNCHANGED <<state, pid, parent, chan, killed>>
       \/ /\ \E q \in Proc : parent[q] = p
          /\ \A q \in Proc : parent[q] = p => state[q] # "ZOMBIE"
          /\ Goto(p, "wkilled")
          /\ UNCHANGED <<state, pid, parent, chan, killed, wait_lock>>
    /\ UNCHANGED <<np, cpu, plock, nextpid, panicked>>

\* Mutant: wait_lock is released before sleep_prepare.
WaitKilled_Release(p) ==
    /\ At(p, "wkilled")
    /\ Goto(p, IF killed[p] THEN "ret" ELSE "wprepare")
    /\ wait_lock' = Null
    /\ UNCHANGED <<state, pid, parent, chan, killed, np, cpu, plock, nextpid, panicked>>

WaitKilled(p) ==
    /\ At(p, "wkilled")
    /\ IF killed[p]
       THEN Goto(p, "ret") /\ wait_lock' = Null
       ELSE Goto(p, "wprepare") /\ UNCHANGED wait_lock
    /\ UNCHANGED <<state, pid, parent, chan, killed, np, cpu, plock, nextpid, panicked>>

sleep_prepare(p) ==
    /\ At(p, "wprepare")
    /\ chan' = [chan EXCEPT ![p] = p]
    /\ Goto(p, "wrelease")
    /\ UNCHANGED <<state, pid, parent, killed, np, cpu, plock, wait_lock,
                   nextpid, panicked>>

WaitRelease(p) ==
    /\ At(p, "wrelease")
    /\ wait_lock' = Null
    /\ Goto(p, "wsleep")
    /\ UNCHANGED <<state, pid, parent, chan, killed, np, cpu, plock, nextpid, panicked>>

\* sleep(): no sleep when the wakeup came first.
sleep(p) ==
    /\ At(p, "wsleep")
    /\ IF chan[p] # Null
       THEN \E c \in CPU : sched(p, c, "SLEEPING")
       ELSE UNCHANGED <<state, cpu, plock>>
    /\ Goto(p, "wacquire")
    /\ UNCHANGED <<pid, parent, chan, killed, np, wait_lock, nextpid, panicked>>

-----------------------------------------------------------------------------
(* kkill: the first slot whose pid matches; a sleeper is made runnable and *)
(* keeps its channel.                                                      *)

kkill(p) ==
    /\ At(p, "kill")
    /\ \E k \in KillPids :
        \/ \E t \in Proc :
            /\ pid[t] = k /\ plock[t] = Null
            /\ killed' = [killed EXCEPT ![t] = TRUE]
            /\ state' = [state EXCEPT ![t] = IF @ = "SLEEPING" THEN "RUNNABLE" ELSE @]
        \/ /\ \A t \in Proc : pid[t] # k
           /\ UNCHANGED <<killed, state>>
    /\ Goto(p, "ret")
    /\ UNCHANGED <<pid, parent, chan, np, cpu, plock, wait_lock, nextpid, panicked>>

-----------------------------------------------------------------------------
Step(p) ==
    \/ Syscall(p) \/ ReturnToUser(p) \/ Fault(p)
    \/ ForkAlloc(p) \/ ForkFail(p) \/ ForkParent(p) \/ ForkRun(p)
    \/ ExitStart(p) \/ reparent(p) \/ ExitWakeup(p) \/ ExitZombie(p)
    \/ WaitAcquire(p) \/ WaitScan(p) \/ WaitKilled(p)
    \/ sleep_prepare(p) \/ WaitRelease(p) \/ sleep(p)
    \/ kkill(p)

Next ==
    /\ ~panicked
    /\ \/ \E p \in Proc : Step(p) \/ yield(p)
       \/ \E c \in CPU : SchedulerResume(c) \/ \E p \in Proc : scheduler(c, p)

Spec == Init /\ [][Next]_vars
-----------------------------------------------------------------------------
(* Properties.                                                             *)

TypeOK ==
    /\ state \in [Proc -> procstate]
    /\ pid \in [Proc -> Nat]
    /\ parent \in [Proc -> Proc \cup {Null}]
    /\ chan \in [Proc -> Proc \cup {Null}]
    /\ killed \in [Proc -> BOOLEAN]
    /\ pc \in [Proc -> Pc]
    /\ np \in [Proc -> Proc \cup {Null}]
    /\ cpu \in [CPU -> Proc \cup {Null}]
    /\ plock \in [Proc -> CPU \cup {Null}]
    /\ wait_lock \in Proc \cup {Null}
    /\ nextpid \in Nat
    /\ panicked \in BOOLEAN

\* A kernel stack is used by one CPU at most, a process that executes is
\* RUNNING, and a slot that kwait has freed, or that is about to be freed,
\* is no longer the stack of any CPU: "make sure the child isn't still in
\* exit() or swtch()".
OneCPUPerStack ==
    /\ \A c, d \in CPU : cpu[c] # Null /\ cpu[c] = cpu[d] => c = d
    /\ \A c \in CPU : cpu[c] # Null =>
        /\ state[cpu[c]] \notin {"UNUSED", "USED"}
        /\ plock[cpu[c]] # c => state[cpu[c]] = "RUNNING"

\* kexit hands children to init before its own process can disappear: every
\* process that has been started has a parent that can still wait for it.
ParentCanWait ==
    \A p \in Proc \ {InitProc} :
        state[p] \notin {"UNUSED", "USED"} =>
            /\ parent[p] # Null
            /\ state[parent[p]] \notin {"UNUSED", "USED", "ZOMBIE"}

\* No exit is missed: while a process is registered on its own wait channel,
\* or asleep on it, none of its children is a zombie.
NoMissedExit ==
    \A p, z \in Proc :
        parent[z] = p /\ state[z] = "ZOMBIE" => chan[p] # p /\ state[p] # "SLEEPING"

\* A process finishes once and is freed once, by its parent and under
\* wait_lock; nothing brings a zombie back.
ZombieFreedByParent ==
    [][\A z \in Proc : state[z] = "ZOMBIE" /\ state'[z] # "ZOMBIE" =>
           /\ state'[z] = "UNUSED"
           /\ wait_lock = parent[z]
           /\ pc[parent[z]] = "wscan"]_vars

\* The flag kkill sets stays with the process it was meant for: a slot that
\* holds no process is not marked killed, so no fork inherits a kill.
NoKillOfFreeSlot == \A p \in Proc : state[p] = "UNUSED" => ~killed[p]
=============================================================================
