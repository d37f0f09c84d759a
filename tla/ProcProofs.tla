----------------------------- MODULE ProcProofs -----------------------------
(***************************************************************************)
(* Theorems about kernel/proc.c: module Proc for any number of slots, CPUs *)
(* and pids, and module SchedScan, the scans of scheduler(), for any       *)
(* number of processes, CPUs and queues.                                   *)
(***************************************************************************)
EXTENDS Proc, SchedScan, FiniteSetTheorems, TLAPS

USE ZenonT(6), SMTT(20)

(***************************************************************************)
(* The inductive invariant, in three layers.                               *)
(***************************************************************************)
Forking(p) == pc[p] \in {"fparent", "frun"}

\* CPUs, process locks and the child of a kfork in progress.
StackInv ==
    /\ \A c, d \in CPU : cpu[c] # Null /\ cpu[c] = cpu[d] => c = d
    /\ \A p \in Proc, c \in CPU :
        /\ cpu[c] = p => \/ plock[p] = c
                         \/ plock[p] = Null /\ state[p] = "RUNNING"
        /\ plock[p] = c => cpu[c] = p /\ state[p] \in {"RUNNABLE", "SLEEPING", "ZOMBIE"}
    /\ \A p \in Proc : Forking(p) => np[p] \in Proc /\ state[np[p]] = "USED"
    /\ \A p, q \in Proc : Forking(p) /\ Forking(q) /\ np[p] = np[q] => p = q

Alive == {"RUNNABLE", "RUNNING", "SLEEPING"}
HoldsWaitLock == {"wscan", "wkilled", "wprepare", "wrelease", "xreparent", "xwakeup", "xzombie"}
Exiting == {"xreparent", "xwakeup", "xzombie", "dead"}

\* Where a slot can be in the kernel in each state, who holds wait_lock, and
\* that parent pointers lead to processes that are alive.
LifeInv ==
    /\ \A p \in Proc :
        /\ state[p] = "ZOMBIE" => pc[p] = "dead"
        /\ state[p] = "USED" => pc[p] = "user"
        /\ state[p] = "UNUSED" => pc[p] \in {"user", "dead"} /\ parent[p] = Null
        /\ pc[p] \in HoldsWaitLock <=> wait_lock = p
        /\ pc[p] = "frun" => parent[np[p]] = p
        /\ state[p] \notin {"UNUSED", "USED"} /\ p # InitProc => parent[p] # Null
    /\ state[InitProc] \in Alive /\ pc[InitProc] \notin Exiting
    /\ \A p, q \in Proc :
        parent[q] = p => state[p] \in Alive /\ pc[p] \notin {"xwakeup", "xzombie"}

\* A process sleeps on its own channel only while no child is a zombie.
WaitInv ==
    /\ \A p \in Proc :
        /\ chan[p] \in {Null, p}
        /\ state[p] = "SLEEPING" => chan[p] = p
        /\ pc[p] = "xzombie" => chan[parent[p]] = Null
    /\ \A p, z \in Proc :
        parent[z] = p /\ state[z] = "ZOMBIE" =>
            chan[p] = Null /\ pc[p] \notin {"wkilled", "wprepare"}

-----------------------------------------------------------------------------
\* freeproc() leaves a slot with fields of their types.
LEMMA FreeprocType ==
    ASSUME TypeOK, NEW q \in Proc, freeproc(q)
    PROVE  /\ state' \in [Proc -> procstate] /\ pid' \in [Proc -> Nat]
           /\ chan' \in [Proc -> Proc \cup {Null}] /\ killed' \in [Proc -> BOOLEAN]
<1>1. killed' \in [Proc -> BOOLEAN]
  BY DEF TypeOK, freeproc
<1> QED
  BY <1>1 DEF TypeOK, freeproc, procstate

\* The fields of struct proc, the CPUs and the locks keep their types in
\* every operation of proc.c.
THEOREM TypeCorrect == Spec => []TypeOK
<1>1. Init => TypeOK
  <2> SUFFICES ASSUME Init PROVE TypeOK
    OBVIOUS
  <2>1. /\ state \in [Proc -> procstate] /\ pid \in [Proc -> Nat]
        /\ pc \in [Proc -> Pc]
    BY DEF Init, procstate, Pc
  <2>2. killed \in [Proc -> BOOLEAN] /\ panicked \in BOOLEAN
    BY Zenon DEF Init
  <2> QED
    BY <2>1, <2>2 DEF Init, TypeOK
<1>2. TypeOK /\ [Next]_vars => TypeOK'
  <2> SUFFICES ASSUME TypeOK, [Next]_vars PROVE TypeOK'
    OBVIOUS
  <2> USE DEF TypeOK, procstate, Pc, WaitPc, ExitPc, Goto, At
  <2>1. CASE UNCHANGED vars
    BY <2>1 DEF vars
  <2>2. ASSUME NEW p \in Proc, Step(p) PROVE TypeOK'
    <3>1. CASE Syscall(p)
      BY <3>1 DEF Syscall
    <3>2. CASE ReturnToUser(p)
      BY <3>2 DEF ReturnToUser
    <3>3. CASE Fault(p)
      BY <3>3 DEF Fault
    <3>4. CASE ForkAlloc(p)
      <4>1. PICK q \in Proc : /\ state' = [state EXCEPT ![q] = "USED"]
                              /\ pid' = [pid EXCEPT ![q] = nextpid]
                              /\ np' = [np EXCEPT ![p] = q]
                              /\ pc' = [pc EXCEPT ![p] = "fparent", ![q] = "user"]
        BY <3>4 DEF ForkAlloc
      <4> QED
        BY SMT, <3>4, <4>1 DEF ForkAlloc
    <3>5. CASE ForkFail(p)
      <4>1. CASE UNCHANGED <<state, pid, chan, killed, nextpid>>
        BY <3>5, <4>1 DEF ForkFail
      <4>2. CASE /\ \E q \in Proc : freeproc(q)
                 /\ nextpid' \in {nextpid, nextpid + 1}
        BY SMT, <3>5, <4>2, FreeprocType DEF ForkFail
      <4> QED
        BY <3>5, <4>1, <4>2 DEF ForkFail
    <3>6. CASE ForkParent(p)
      BY Zenon, <3>6 DEF ForkParent
    <3>7. CASE ForkRun(p)
      BY Zenon, <3>7 DEF ForkRun
    <3>8. CASE ExitStart(p)
      BY Zenon, <3>8 DEF ExitStart
    <3>9. CASE reparent(p)
      BY SMT, <3>9, ProcAssumption DEF reparent, wakeup
    <3>10. CASE ExitWakeup(p)
      BY <3>10 DEF ExitWakeup, wakeup
    <3>11. CASE ExitZombie(p)
      BY SMT, <3>11 DEF ExitZombie, sched
    <3>12. CASE WaitAcquire(p)
      BY <3>12 DEF WaitAcquire
    <3>13. CASE WaitScan(p)
      <4>1. CASE UNCHANGED <<state, pid, parent, chan, killed>>
        BY <3>13, <4>1 DEF WaitScan
      <4>2. CASE \E z \in Proc : /\ parent' = [parent EXCEPT ![z] = Null]
                                 /\ freeproc(z)
                                 /\ wait_lock' = Null
                                 /\ Goto(p, "ret")
        BY <3>13, <4>2, FreeprocType DEF WaitScan
      <4> QED
        BY <3>13, <4>1, <4>2 DEF WaitScan
    <3>14. CASE WaitKilled(p)
      BY <3>14 DEF WaitKilled
    <3>15. CASE sleep_prepare(p)
      BY <3>15 DEF sleep_prepare
    <3>16. CASE WaitRelease(p)
      BY <3>16 DEF WaitRelease
    <3>17. CASE sleep(p)
      BY <3>17 DEF sleep, sched
    <3>18. CASE kkill(p)
      BY Zenon, <3>18 DEF kkill
    <3> QED
      BY Zenon, <2>2, <3>1, <3>2, <3>3, <3>4, <3>5, <3>6, <3>7, <3>8, <3>9, <3>10,
         <3>11, <3>12, <3>13, <3>14, <3>15, <3>16, <3>17, <3>18 DEF Step
  <2>3. ASSUME NEW p \in Proc, yield(p) PROVE TypeOK'
    BY SMT, <2>3 DEF yield, sched
  <2>4. ASSUME NEW c \in CPU, SchedulerResume(c) PROVE TypeOK'
    BY <2>4 DEF SchedulerResume
  <2>5. ASSUME NEW c \in CPU, NEW p \in Proc, scheduler(c, p) PROVE TypeOK'
    BY <2>5 DEF scheduler
  <2> QED
    BY <2>1, <2>2, <2>3, <2>4, <2>5 DEF Next
<1> QED
  BY <1>1, <1>2, PTL DEF Spec
-----------------------------------------------------------------------------
\* scheduler(), sched() and the process locks keep a kernel stack on one CPU,
\* and no step but kfork's own touches the child of a kfork in progress.
LEMMA StackStep == TypeOK /\ StackInv /\ [Next]_vars => StackInv'
<1> SUFFICES ASSUME TypeOK, StackInv, [Next]_vars PROVE StackInv'
  OBVIOUS
<1> USE ProcAssumption DEF TypeOK, StackInv, Forking, Goto, At, Executing
<1>1. CASE UNCHANGED vars
  BY SMT, <1>1 DEF vars
<1>2. ASSUME NEW p \in Proc, Step(p) PROVE StackInv'
  <2>1. CASE Syscall(p)
    BY SMT, <2>1 DEF Syscall
  <2>2. CASE ReturnToUser(p)
    BY SMT, <2>2 DEF ReturnToUser
  <2>3. CASE Fault(p)
    BY SMT, <2>3 DEF Fault
  <2>4. CASE ForkAlloc(p)
    BY SMT, <2>4 DEF ForkAlloc
  <2>5. CASE ForkFail(p)
    BY SMT, <2>5 DEF ForkFail, freeproc
  <2>6. CASE ForkParent(p)
    BY SMT, <2>6 DEF ForkParent
  <2>7. CASE ForkRun(p)
    BY SMT, <2>7 DEF ForkRun
  <2>8. CASE ExitStart(p)
    BY SMT, <2>8 DEF ExitStart
  <2>9. CASE reparent(p)
    BY SMT, <2>9 DEF reparent, wakeup
  <2>10. CASE ExitWakeup(p)
    BY SMT, <2>10 DEF ExitWakeup, wakeup
  <2>11. CASE ExitZombie(p)
    BY SMT, <2>11 DEF ExitZombie, sched
  <2>12. CASE WaitAcquire(p)
    BY SMT, <2>12 DEF WaitAcquire
  <2>13. CASE WaitScan(p)
    BY SMT, <2>13 DEF WaitScan, freeproc
  <2>14. CASE WaitKilled(p)
    BY SMT, <2>14 DEF WaitKilled
  <2>15. CASE sleep_prepare(p)
    BY SMT, <2>15 DEF sleep_prepare
  <2>16. CASE WaitRelease(p)
    BY SMT, <2>16 DEF WaitRelease
  <2>17. CASE sleep(p)
    BY SMT, <2>17 DEF sleep, sched
  <2>18. CASE kkill(p)
    BY SMT, <2>18 DEF kkill
  <2> QED
    BY Zenon, <1>2, <2>1, <2>2, <2>3, <2>4, <2>5, <2>6, <2>7, <2>8, <2>9, <2>10, <2>11, <2>12, <2>13, <2>14, <2>15, <2>16, <2>17, <2>18 DEF Step
<1>3. ASSUME NEW p \in Proc, yield(p) PROVE StackInv'
  BY SMT, <1>3 DEF yield, sched
<1>4. ASSUME NEW c \in CPU, SchedulerResume(c) PROVE StackInv'
  BY SMT, <1>4 DEF SchedulerResume
<1>5. ASSUME NEW c \in CPU, NEW p \in Proc, scheduler(c, p) PROVE StackInv'
  BY SMT, <1>5 DEF scheduler
<1> QED
  BY <1>1, <1>2, <1>3, <1>4, <1>5 DEF Next
-----------------------------------------------------------------------------
\* kexit gives the children away before its process can disappear, and a slot
\* is freed only when no parent pointer leads to it.
LEMMA LifeStep == TypeOK /\ StackInv /\ LifeInv /\ [Next]_vars => LifeInv'
<1> SUFFICES ASSUME TypeOK, StackInv, LifeInv, [Next]_vars PROVE LifeInv'
  OBVIOUS
<1> USE ProcAssumption DEF TypeOK, StackInv, LifeInv, Forking, Goto, At, Executing, Alive, HoldsWaitLock, Exiting
<1>1. CASE UNCHANGED vars
  BY SMT, <1>1 DEF vars
<1>2. ASSUME NEW p \in Proc, Step(p) PROVE LifeInv'
  <2>1. CASE Syscall(p)
    BY SMT, <2>1 DEF Syscall
  <2>2. CASE ReturnToUser(p)
    BY SMT, <2>2 DEF ReturnToUser
  <2>3. CASE Fault(p)
    BY SMT, <2>3 DEF Fault
  <2>4. CASE ForkAlloc(p)
    BY SMT, <2>4 DEF ForkAlloc
  <2>5. CASE ForkFail(p)
    BY SMT, <2>5 DEF ForkFail, freeproc
  <2>6. CASE ForkParent(p)
    BY SMT, <2>6 DEF ForkParent
  <2>7. CASE ForkRun(p)
    BY SMT, <2>7 DEF ForkRun
  <2>8. CASE ExitStart(p)
    BY SMT, <2>8 DEF ExitStart
  <2>9. CASE reparent(p)
    BY SMT, <2>9 DEF reparent, wakeup
  <2>10. CASE ExitWakeup(p)
    BY SMT, <2>10 DEF ExitWakeup, wakeup
  <2>11. CASE ExitZombie(p)
    BY SMT, <2>11 DEF ExitZombie, sched
  <2>12. CASE WaitAcquire(p)
    BY SMT, <2>12 DEF WaitAcquire
  <2>13. CASE WaitScan(p)
    <3>1. ASSUME NEW z \in Proc, parent[z] = p, state[z] = "ZOMBIE", freeproc(z),
                 parent' = [parent EXCEPT ![z] = Null], wait_lock' = Null, Goto(p, "ret")
          PROVE LifeInv'
      <4>1. state' = [state EXCEPT ![z] = "UNUSED"] /\ np' = np /\ z # p /\ pc[z] = "dead"
        BY Zenon, <2>13, <3>1 DEF WaitScan, freeproc
      <4>2. \A q \in Proc : parent[q] # z
        BY SMT, <3>1
      <4> QED
        BY SMT, <2>13, <3>1, <4>1, <4>2 DEF WaitScan
    <3>2. CASE UNCHANGED <<state, parent>>
      BY SMT, <2>13, <3>2 DEF WaitScan
    <3> QED
      BY <2>13, <3>1, <3>2 DEF WaitScan
  <2>14. CASE WaitKilled(p)
    BY SMT, <2>14 DEF WaitKilled
  <2>15. CASE sleep_prepare(p)
    BY SMT, <2>15 DEF sleep_prepare
  <2>16. CASE WaitRelease(p)
    BY SMT, <2>16 DEF WaitRelease
  <2>17. CASE sleep(p)
    BY SMT, <2>17 DEF sleep, sched
  <2>18. CASE kkill(p)
    BY SMT, <2>18 DEF kkill
  <2> QED
    BY Zenon, <1>2, <2>1, <2>2, <2>3, <2>4, <2>5, <2>6, <2>7, <2>8, <2>9, <2>10,
       <2>11, <2>12, <2>13, <2>14, <2>15, <2>16, <2>17, <2>18 DEF Step
<1>3. ASSUME NEW p \in Proc, yield(p) PROVE LifeInv'
  BY SMT, <1>3 DEF yield, sched
<1>4. ASSUME NEW c \in CPU, SchedulerResume(c) PROVE LifeInv'
  BY SMT, <1>4 DEF SchedulerResume
<1>5. ASSUME NEW c \in CPU, NEW p \in Proc, scheduler(c, p) PROVE LifeInv'
  BY SMT, <1>5 DEF scheduler
<1> QED
  BY Zenon, <1>1, <1>2, <1>3, <1>4, <1>5 DEF Next
-----------------------------------------------------------------------------
\* wait_lock covers kwait's scan and sleep_prepare on one side, kexit's wakeup
\* and the change to ZOMBIE on the other.
LEMMA WaitStep == TypeOK /\ StackInv /\ LifeInv /\ WaitInv /\ [Next]_vars => WaitInv'
<1> SUFFICES ASSUME TypeOK, StackInv, LifeInv, WaitInv, [Next]_vars PROVE WaitInv'
  OBVIOUS
<1> USE ProcAssumption DEF TypeOK, StackInv, LifeInv, WaitInv, Goto, At, Executing, Alive, HoldsWaitLock, Exiting
<1>1. CASE UNCHANGED vars
  BY SMT, <1>1 DEF vars
<1>2. ASSUME NEW p \in Proc, Step(p) PROVE WaitInv'
  <2>1. CASE Syscall(p)
    BY SMT, <2>1 DEF Syscall
  <2>2. CASE ReturnToUser(p)
    BY SMT, <2>2 DEF ReturnToUser
  <2>3. CASE Fault(p)
    BY SMT, <2>3 DEF Fault
  <2>4. CASE ForkAlloc(p)
    BY SMT, <2>4 DEF ForkAlloc
  <2>5. CASE ForkFail(p)
    BY SMT, <2>5 DEF ForkFail, freeproc
  <2>6. CASE ForkParent(p)
    BY SMT, <2>6 DEF ForkParent, Forking
  <2>7. CASE ForkRun(p)
    BY SMT, <2>7 DEF ForkRun
  <2>8. CASE ExitStart(p)
    BY SMT, <2>8 DEF ExitStart
  <2>9. CASE reparent(p)
    BY SMT, <2>9 DEF reparent, wakeup
  <2>10. CASE ExitWakeup(p)
    BY SMT, <2>10 DEF ExitWakeup, wakeup
  <2>11. CASE ExitZombie(p)
    BY SMT, <2>11 DEF ExitZombie, sched
  <2>12. CASE WaitAcquire(p)
    BY SMT, <2>12 DEF WaitAcquire
  <2>13. CASE WaitScan(p)
    BY SMTT(30), <2>13 DEF WaitScan, freeproc
  <2>14. CASE WaitKilled(p)
    BY SMT, <2>14 DEF WaitKilled
  <2>15. CASE sleep_prepare(p)
    BY SMT, <2>15 DEF sleep_prepare
  <2>16. CASE WaitRelease(p)
    BY SMT, <2>16 DEF WaitRelease
  <2>17. CASE sleep(p)
    BY SMT, <2>17 DEF sleep, sched
  <2>18. CASE kkill(p)
    BY SMTT(30), <2>18 DEF kkill
  <2> QED
    BY Zenon, <1>2, <2>1, <2>2, <2>3, <2>4, <2>5, <2>6, <2>7, <2>8, <2>9, <2>10,
       <2>11, <2>12, <2>13, <2>14, <2>15, <2>16, <2>17, <2>18 DEF Step
<1>3. ASSUME NEW p \in Proc, yield(p) PROVE WaitInv'
  BY SMT, <1>3 DEF yield, sched
<1>4. ASSUME NEW c \in CPU, SchedulerResume(c) PROVE WaitInv'
  BY SMT, <1>4 DEF SchedulerResume
<1>5. ASSUME NEW c \in CPU, NEW p \in Proc, scheduler(c, p) PROVE WaitInv'
  BY SMT, <1>5 DEF scheduler
<1> QED
  BY Zenon, <1>1, <1>2, <1>3, <1>4, <1>5 DEF Next
-----------------------------------------------------------------------------
IInv == TypeOK /\ StackInv /\ LifeInv /\ WaitInv

\* The inductive invariant holds of every behaviour of proc.c's operations.
THEOREM Invariance == Spec => []IInv
<1>1. Init => StackInv /\ LifeInv /\ WaitInv
  BY SMT, ProcAssumption DEF Init, StackInv, LifeInv, WaitInv, Forking, Alive, HoldsWaitLock, Exiting
<1>2. TypeOK /\ StackInv /\ LifeInv /\ WaitInv /\ [Next]_vars
         => StackInv' /\ LifeInv' /\ WaitInv'
  BY StackStep, LifeStep, WaitStep
<1> QED
  BY <1>1, <1>2, TypeCorrect, PTL DEF Spec, IInv

\* No two CPUs run on one kernel stack, and kwait frees no stack that is still
\* in use by kexit or the switch into scheduler().
THEOREM StackSafety == Spec => []OneCPUPerStack
<1>1. IInv => OneCPUPerStack
  BY SMT, ProcAssumption DEF IInv, TypeOK, StackInv, OneCPUPerStack
<1> QED
  BY <1>1, Invariance, PTL

\* reparent() leaves no process with a parent that cannot wait for it.
THEOREM ParentSafety == Spec => []ParentCanWait
<1>1. IInv => ParentCanWait
  BY SMT DEF IInv, TypeOK, LifeInv, Alive, ParentCanWait
<1> QED
  BY <1>1, Invariance, PTL

\* A parent asleep in kwait has no zombie child: kexit's wakeup is not lost.
THEOREM ExitSafety == Spec => []NoMissedExit
<1>1. IInv => NoMissedExit
  BY ProcAssumption DEF IInv, TypeOK, WaitInv, NoMissedExit
<1> QED
  BY <1>1, Invariance, PTL

\* A zombie changes only by its parent's kwait, under wait_lock, into a free
\* slot.
THEOREM ZombieSafety == Spec => ZombieFreedByParent
<1>1. ASSUME IInv, [Next]_vars, NEW z \in Proc,
             state[z] = "ZOMBIE", state'[z] # "ZOMBIE"
      PROVE  state'[z] = "UNUSED" /\ wait_lock = parent[z] /\ pc[parent[z]] = "wscan"
  <2>0. /\ state \in [Proc -> procstate]
        /\ \A p \in Proc, c \in CPU : Executing(p, c) => state[p] = "RUNNING"
    BY SMT, <1>1, ProcAssumption DEF IInv, TypeOK, StackInv, Executing
  <2>1. PICK p \in Proc : Step(p) \/ yield(p) \/ \E c \in CPU : scheduler(c, p)
    BY Zenon, <1>1 DEF Next, vars, SchedulerResume
  <2>2. CASE yield(p) \/ \E c \in CPU : scheduler(c, p)
    BY <1>1, <2>0, <2>2 DEF yield, scheduler, sched
  <2>3. CASE WaitScan(p)
    <3>1. parent[z] = p /\ state'[z] = "UNUSED"
      BY Zenon, <1>1, <2>0, <2>3 DEF WaitScan, freeproc
    <3>2. pc[p] = "wscan" /\ wait_lock = p
      BY Zenon, <1>1, <2>3 DEF WaitScan, At, IInv, LifeInv, HoldsWaitLock
    <3> QED
      BY <3>1, <3>2
  <2>4. CASE reparent(p) \/ ExitWakeup(p)
    BY Zenon, <1>1, <2>0, <2>4 DEF reparent, ExitWakeup, wakeup
  <2>5. CASE kkill(p)
    BY Zenon, <1>1, <2>0, <2>5 DEF kkill
  <2>6. CASE ForkAlloc(p) \/ ForkFail(p)
    BY Zenon, <1>1, <2>0, <2>6 DEF ForkAlloc, ForkFail, freeproc
  <2>7. CASE ForkRun(p)
    <3>1. np[p] \in Proc /\ state[np[p]] = "USED"
      BY <1>1, <2>7 DEF ForkRun, At, IInv, StackInv, Forking
    <3> QED
      BY Zenon, <1>1, <2>0, <2>7, <3>1 DEF ForkRun
  <2>8. CASE ExitZombie(p) \/ sleep(p)
    BY Zenon, <1>1, <2>0, <2>8 DEF ExitZombie, sleep, sched
  <2>9. CASE \/ Syscall(p) \/ ReturnToUser(p) \/ Fault(p) \/ ForkParent(p) \/ ExitStart(p)
             \/ WaitAcquire(p) \/ WaitKilled(p) \/ sleep_prepare(p) \/ WaitRelease(p)
    BY Zenon, <1>1, <2>9
    DEF Syscall, ReturnToUser, Fault, ForkParent, ExitStart, WaitAcquire, WaitKilled,
        sleep_prepare, WaitRelease
  <2> QED
    BY Zenon, <2>1, <2>2, <2>3, <2>4, <2>5, <2>6, <2>7, <2>8, <2>9 DEF Step
<1>2. IInv /\ [Next]_vars =>
        [\A z \in Proc : state[z] = "ZOMBIE" /\ state'[z] # "ZOMBIE" =>
             /\ state'[z] = "UNUSED"
             /\ wait_lock = parent[z]
             /\ pc[parent[z]] = "wscan"]_vars
  BY Zenon, <1>1
<1> QED
  BY <1>2, Invariance, PTL DEF Spec, ZombieFreedByParent

-----------------------------------------------------------------------------
FreeSlotInv == \A p \in Proc : state[p] = "UNUSED" => pid[p] = 0 /\ ~killed[p]

\* As long as no program calls kill(0), the flag set by kkill stays with the
\* process it was meant for: the condition is the one that kkill, which does
\* not look at the state of the slot, leaves to its callers.
THEOREM KillSafety == ASSUME 0 \notin KillPids PROVE Spec => []NoKillOfFreeSlot
<1>1. Init => FreeSlotInv
  BY SMT DEF Init, FreeSlotInv
<1>2. ASSUME IInv, FreeSlotInv, [Next]_vars, NEW q \in Proc, state'[q] = "UNUSED"
      PROVE  pid'[q] = 0 /\ ~killed'[q]
  <2>0. /\ state \in [Proc -> procstate] /\ killed \in [Proc -> BOOLEAN]
        /\ pid \in [Proc -> Nat]
        /\ state[q] = "UNUSED" => pid[q] = 0 /\ ~killed[q]
    BY <1>2 DEF IInv, TypeOK, FreeSlotInv
  <2> USE ProcAssumption
  <2>1. CASE UNCHANGED vars
    BY <1>2, <2>0, <2>1 DEF vars
  <2>2. ASSUME NEW p \in Proc, yield(p) \/ \E c \in CPU : SchedulerResume(c) \/ scheduler(c, p)
        PROVE  pid'[q] = 0 /\ ~killed'[q]
    BY <1>2, <2>0, <2>2 DEF yield, SchedulerResume, scheduler, sched
  <2>3. ASSUME NEW p \in Proc, Step(p) PROVE pid'[q] = 0 /\ ~killed'[q]
    <3>1. CASE kkill(p)
      BY <1>2, <2>0, <3>1 DEF kkill
    <3>2. CASE WaitScan(p) \/ ForkFail(p)
      <4>1. \/ UNCHANGED <<state, pid, killed>>
            \/ \E x \in Proc : freeproc(x)
        BY Zenon, <3>2 DEF WaitScan, ForkFail
      <4> QED
        BY <1>2, <2>0, <4>1 DEF freeproc
    <3>7. CASE ForkAlloc(p)
      BY <1>2, <2>0, <3>7 DEF ForkAlloc
    <3>8. CASE ForkRun(p)
      BY <1>2, <2>0, <3>8 DEF ForkRun
    <3>3. CASE Fault(p)
      <4>1. UNCHANGED <<state, pid>> /\ killed' = [killed EXCEPT ![p] = TRUE]
            /\ state[p] = "RUNNING"
        BY SMTT(30), <1>2, <3>3 DEF Fault, At, Executing, IInv, StackInv
      <4> QED
        BY <1>2, <2>0, <4>1
    <3>4. CASE reparent(p) \/ ExitWakeup(p)
      <4>1. state[q] = "UNUSED" /\ pid' = pid /\ killed' = killed
        BY Zenon, <1>2, <2>0, <3>4 DEF reparent, ExitWakeup, wakeup
      <4> QED
        BY <1>2, <2>0, <4>1
    <3>5. CASE ExitZombie(p) \/ sleep(p)
      <4>1. state[q] = "UNUSED" /\ pid' = pid /\ killed' = killed
        BY Zenon, <1>2, <2>0, <3>5 DEF ExitZombie, sleep, sched
      <4> QED
        BY <1>2, <2>0, <4>1
    <3>6. CASE \/ Syscall(p) \/ ReturnToUser(p) \/ ForkParent(p) \/ ExitStart(p)
               \/ WaitAcquire(p) \/ WaitKilled(p) \/ sleep_prepare(p) \/ WaitRelease(p)
      <4>1. UNCHANGED <<state, pid, killed>>
        BY Zenon, <3>6 DEF Syscall, ReturnToUser, ForkParent, ExitStart, WaitAcquire, WaitKilled,
                    sleep_prepare, WaitRelease
      <4> QED
        BY <1>2, <2>0, <4>1
    <3> QED
      BY Zenon, <2>3, <3>1, <3>2, <3>3, <3>4, <3>5, <3>6, <3>7, <3>8 DEF Step
  <2> QED
    BY <1>2, <2>1, <2>2, <2>3 DEF Next
<1>3. IInv /\ FreeSlotInv /\ [Next]_vars => FreeSlotInv'
  BY <1>2 DEF FreeSlotInv
<1>4. FreeSlotInv => NoKillOfFreeSlot
  BY DEF FreeSlotInv, NoKillOfFreeSlot
<1> QED
  BY <1>1, <1>3, <1>4, Invariance, PTL DEF Spec

-----------------------------------------------------------------------------
(***************************************************************************)
(* SchedScan: the scans of several CPUs never select one process twice,    *)
(* acquire the process locks in slot order, and pick the oldest ready      *)
(* process.                                                                *)
(***************************************************************************)

\* Who holds which lock, and which process a CPU's locals refer to.
LockInv ==
    /\ \A c \in CPUs : mode[c] = "scan" =>
           /\ cur[c] = NoProc
           /\ selected[c] # NoProc =>
                  /\ lock[selected[c]] = c /\ selected[c] < i[c]
                  /\ pstate[selected[c]] = "RUNNABLE" /\ queue[selected[c]] = k[c]
    /\ \A c \in CPUs : mode[c] # "scan" => cur[c] # NoProc /\ selected[c] = NoProc
    /\ \A c \in CPUs : mode[c] = "run" => pstate[cur[c]] = "RUNNING"
    /\ \A c \in CPUs : mode[c] = "switch" => lock[cur[c]] = c /\ pstate[cur[c]] # "RUNNING"
    /\ \A p \in Procs : lock[p] # NoCPU =>
           \/ mode[lock[p]] = "scan" /\ selected[lock[p]] = p
           \/ mode[lock[p]] = "switch" /\ cur[lock[p]] = p
    /\ \A p \in Procs : pstate[p] = "RUNNING" => \E c \in CPUs : cur[c] = p /\ mode[c] = "run"
    /\ \A c, d \in CPUs : cur[c] # NoProc /\ cur[c] = cur[d] => c = d

\* What a pass has visited so far is not older than what it has selected.
PassInv ==
    \A c \in CPUs : mode[c] = "scan" => \A p \in stable[c] :
        /\ pstate[p] = "RUNNABLE" /\ queue[p] = k[c]
        /\ p < i[c] => selected[c] # NoProc /\ sequence[selected[c]] <= sequence[p]

ScanInv == ScanTypeOK /\ LockInv /\ PassInv

\* The slots, the CPUs and the queues are numbers, and the marks are outside.
LEMMA Ranges ==
    /\ \A p \in Procs : p \in Nat /\ p < NPROC /\ p # NoProc
    /\ \A c \in CPUs : c # NoCPU
    /\ NoProc = NPROC /\ NPROC \in Nat /\ NPROC > 0
    /\ 0 \in Procs /\ 0 \in Queues /\ 0 \in CPUs
  BY ScanAssumption DEF Procs, NoProc, CPUs, NoCPU, Queues

\* A slot number below NPROC is a slot, and the next number is at most NPROC.
LEMMA SlotStep ==
    ASSUME NEW p \in 0..NPROC, p < NPROC
    PROVE  p \in Procs /\ p + 1 \in 0..NPROC
  BY ScanAssumption DEF Procs

\* The queue after queue q, and the one a demotion leads to, exist.
LEMMA QueueStep ==
    ASSUME NEW q \in Queues
    PROVE  (q + 1) % MLFQ_LEVELS \in Queues /\ Lower(q) \in Queues
  BY ScanAssumption DEF Queues, Lower

\* The initial state has the invariant.
LEMMA InitInv == ScanInit => ScanInv
  <1> SUFFICES ASSUME ScanInit PROVE ScanInv
    OBVIOUS
  <1> USE Ranges DEF ScanInit
  <1>1. ScanTypeOK
    BY ScanAssumption DEF ScanTypeOK, Ready, Procs, Queues
  <1>2. LockInv
    BY DEF LockInv
  <1>3. PassInv
    BY SMT DEF PassInv, Ready
  <1> QED BY <1>1, <1>2, <1>3 DEF ScanInv

\* Every step of every CPU keeps the types.
LEMMA NextType == ScanTypeOK /\ LockInv /\ [ScanNext]_allvars => ScanTypeOK'
  <1> SUFFICES ASSUME ScanTypeOK, LockInv, [ScanNext]_allvars PROVE ScanTypeOK'
    OBVIOUS
  <1> USE Ranges DEF ScanTypeOK, KeepStable, procvars, scanvars
  <1>1. ASSUME NEW c \in CPUs, ScanVisit(c) PROVE ScanTypeOK'
    <2>1. i[c] \in Procs /\ i[c] + 1 \in 0..NPROC
      BY <1>1, SlotStep DEF ScanVisit
    <2>2. lock' \in [Procs -> CPUs \cup {NoCPU}]
      BY SMT, <1>1, <2>1 DEF ScanVisit, LocksAfter
    <2>3. stable' \in [CPUs -> SUBSET Procs]
      BY <1>1 DEF ScanVisit
    <2> QED BY <1>1, <2>1, <2>2, <2>3 DEF ScanVisit
  <1>2. ASSUME NEW c \in CPUs, ScanRun(c) PROVE ScanTypeOK'
    BY <1>2 DEF ScanRun
  <1>3. ASSUME NEW c \in CPUs, ScanNextQueue(c) PROVE ScanTypeOK'
    BY SMT, <1>3, QueueStep DEF ScanNextQueue
  <1>4. ASSUME NEW c \in CPUs, Resume(c) PROVE ScanTypeOK'
    <2>1. cur[c] \in Procs
      BY SMT, <1>4 DEF Resume, LockInv
    <2>2. 0 \in 0..NPROC
      BY SMT
    <2> QED BY <1>4, <2>1, <2>2 DEF Resume
  <1>5. ASSUME NEW c \in CPUs, Leave(c) PROVE ScanTypeOK'
    <2>1. cur[c] \in Procs
      BY SMT, <1>5 DEF Leave, LockInv
    <2> QED BY SMT, <1>5, <2>1, QueueStep DEF Leave
  <1>6. ASSUME NEW p \in Procs, Wake(p) PROVE ScanTypeOK'
    BY SMT, <1>6 DEF Wake
  <1>7. CASE BoostBegin
    BY SMT, <1>7 DEF BoostBegin
  <1>8. CASE BoostVisit
    <2>1. boosting \in Procs /\ boosting + 1 \in 0..NPROC
      BY <1>8, SlotStep DEF BoostVisit
    <2> QED BY SMT, <1>8, <2>1 DEF BoostVisit
  <1>9. CASE UNCHANGED allvars
    BY <1>9 DEF allvars
  <1> QED BY <1>1, <1>2, <1>3, <1>4, <1>5, <1>6, <1>7, <1>8, <1>9 DEF ScanNext, CPUStep

\* Every step of every CPU keeps the relation of locks and locals: a process
\* whose lock is held is changed by nobody else.
LEMMA NextLock == ScanTypeOK /\ LockInv /\ [ScanNext]_allvars => LockInv'
  <1> SUFFICES ASSUME ScanTypeOK, LockInv, [ScanNext]_allvars PROVE LockInv'
    OBVIOUS
  <1> USE Ranges DEF ScanTypeOK, procvars, scanvars
  <1>1. ASSUME NEW c \in CPUs, ScanVisit(c) PROVE LockInv'
    <2>1. i[c] \in Procs
      BY <1>1, SlotStep DEF ScanVisit
    <2>2. CASE Better(c, i[c])
      BY SMT, <1>1, <2>1, <2>2 DEF ScanVisit, LocksAfter, Better, LockInv
    <2>3. CASE ~Better(c, i[c])
      BY SMT, <1>1, <2>1, <2>3 DEF ScanVisit, LockInv
    <2> QED BY <2>2, <2>3
  <1>2. ASSUME NEW c \in CPUs, ScanRun(c) PROVE LockInv'
    BY SMT, <1>2 DEF ScanRun, LockInv
  <1>3. ASSUME NEW c \in CPUs, ScanNextQueue(c) PROVE LockInv'
    BY SMT, <1>3 DEF ScanNextQueue, LockInv
  <1>4. ASSUME NEW c \in CPUs, Resume(c) PROVE LockInv'
    BY SMT, <1>4 DEF Resume, LockInv
  <1>5. ASSUME NEW c \in CPUs, Leave(c) PROVE LockInv'
    BY SMTT(30), <1>5 DEF Leave, LockInv
  <1>6. ASSUME NEW p \in Procs, Wake(p) PROVE LockInv'
    BY SMT, <1>6 DEF Wake, LockInv
  <1>7. CASE BoostBegin
    BY SMT, <1>7 DEF BoostBegin, LockInv
  <1>8. CASE BoostVisit
    BY SMT, <1>8 DEF BoostVisit, LockInv
  <1>9. CASE UNCHANGED allvars
    BY SMT, <1>9 DEF allvars, LockInv
  <1> QED BY <1>1, <1>2, <1>3, <1>4, <1>5, <1>6, <1>7, <1>8, <1>9 DEF ScanNext, CPUStep

\* Every step of every CPU keeps what a pass knows about the processes that
\* stay where they are.
LEMMA NextPass == ScanInv /\ [ScanNext]_allvars => PassInv'
  <1> SUFFICES ASSUME ScanInv, [ScanNext]_allvars PROVE PassInv'
    OBVIOUS
  <1> USE Ranges DEF ScanInv, ScanTypeOK, PassInv, LockInv, KeepStable, procvars, scanvars
  <1>1. ASSUME NEW c \in CPUs, ScanVisit(c) PROVE PassInv'
    <2>1. i[c] \in Procs
      BY SMT, <1>1, SlotStep DEF ScanVisit
    <2>2. UNCHANGED <<pstate, queue, sequence, mode, k>>
      BY <1>1 DEF ScanVisit
    <2>3. \A d \in CPUs : stable'[d] \subseteq stable[d]
      BY <1>1 DEF ScanVisit
    <2>4. SUFFICES ASSUME NEW d \in CPUs, mode[d] = "scan", NEW p \in stable[d], p < i'[d]
                   PROVE  selected'[d] # NoProc /\ sequence[selected'[d]] <= sequence[p]
      BY SMT, <2>2, <2>3
    <2>5. p \in Procs /\ pstate[p] = "RUNNABLE" /\ queue[p] = k[d]
      BY SMT, <2>4
    <2>6. CASE d # c
      BY SMT, <1>1, <2>4, <2>6 DEF ScanVisit
    <2>7. CASE d = c
      <3>1. p < i[c] \/ p = i[c]
        <4>1. i'[d] = i[c] + 1
          BY SMT, <1>1, <2>7 DEF ScanVisit
        <4>2. p \in Nat /\ i[c] \in Nat
          BY <2>1, <2>5
        <4> HIDE DEF ScanTypeOK
        <4> QED BY SMT, <2>4, <4>1, <4>2
      <3>2. p < i[c] => selected[c] # NoProc /\ selected[c] \in Procs
                        /\ sequence[selected[c]] <= sequence[p]
        BY SMT, <2>4, <2>7
      <3>3. CASE Better(c, i[c])
        <4>1. selected'[d] = i[c]
          BY SMT, <1>1, <2>7, <3>3 DEF ScanVisit
        <4> QED BY SMT, <2>1, <2>5, <3>1, <3>2, <3>3, <4>1 DEF Better
      <3>4. CASE ~Better(c, i[c])
        <4>1. selected'[d] = selected[c]
          BY <1>1, <2>7, <3>4 DEF ScanVisit
        <4> QED BY SMT, <2>1, <2>5, <2>7, <3>1, <3>2, <3>4, <4>1 DEF Better
      <3> QED BY <3>3, <3>4
    <2> QED BY <2>6, <2>7
  <1>2. ASSUME NEW c \in CPUs, ScanRun(c) PROVE PassInv'
    BY SMT, <1>2 DEF ScanRun
  <1>3. ASSUME NEW c \in CPUs, ScanNextQueue(c) PROVE PassInv'
    BY SMT, <1>3, QueueStep DEF ScanNextQueue
  <1>4. ASSUME NEW c \in CPUs, Resume(c) PROVE PassInv'
    BY SMT, <1>4 DEF Resume
  <1>5. ASSUME NEW c \in CPUs, Leave(c) PROVE PassInv'
    BY SMT, <1>5 DEF Leave
  <1>6. ASSUME NEW p \in Procs, Wake(p) PROVE PassInv'
    BY SMT, <1>6 DEF Wake
  <1>7. CASE BoostBegin
    BY SMT, <1>7 DEF BoostBegin
  <1>8. CASE BoostVisit
    BY SMT, <1>8 DEF BoostVisit
  <1>9. CASE UNCHANGED allvars
    BY SMT, <1>9 DEF allvars
  <1> QED BY Zenon, <1>1, <1>2, <1>3, <1>4, <1>5, <1>6, <1>7, <1>8, <1>9 DEF ScanNext, CPUStep

\* ScanInv is an invariant of the scans of any number of CPUs.
THEOREM ScanInvariance == ScanSpec => []ScanInv
  <1>1. ScanInv /\ [ScanNext]_allvars => ScanInv'
    BY NextType, NextLock, NextPass DEF ScanInv
  <1> QED BY InitInv, <1>1, PTL DEF ScanSpec

\* Every variable of scheduler() and mlfq_boost() keeps its type.
THEOREM ScanTypeCorrect == ScanSpec => []ScanTypeOK
  <1>1. ScanInv => ScanTypeOK
    BY DEF ScanInv
  <1> QED BY ScanInvariance, <1>1, PTL

\* scheduler() on several CPUs never gives one process to two of them.
THEOREM ExclusionSafety == ScanSpec => []OneCPUPerProcess
  <1>1. ScanInv => OneCPUPerProcess
    <2> SUFFICES ASSUME ScanInv, NEW p \in Procs
                 PROVE  Cardinality({c \in CPUs : cur[c] = p}) <= 1
      BY DEF OneCPUPerProcess, ScanInv, LockInv
    <2> DEFINE S == {c \in CPUs : cur[c] = p}
    <2>1. CASE S = {}
      BY SMT, <2>1, FS_EmptySet
    <2>2. CASE S # {}
      <3>1. PICK c \in CPUs : c \in S
        BY <2>2
      <3>2. S = {c}
        BY SMT, <3>1, Ranges DEF ScanInv, LockInv
      <3>3. Cardinality({c}) = 1
        BY FS_Singleton
      <3> QED BY <3>2, <3>3
    <2> QED BY <2>1, <2>2
  <1> QED BY ScanInvariance, <1>1, PTL

\* While scheduler() waits for the lock of slot i, it holds at most the lock of
\* its selected process, which is a lower slot.
THEOREM LockOrderSafety == ScanSpec => []ScanLockOrder
  <1>1. ScanInv => ScanLockOrder
    BY SMT, Ranges DEF ScanInv, ScanTypeOK, LockInv, ScanLockOrder
  <1> QED BY ScanInvariance, <1>1, PTL

\* What a pass of scheduler() picks is not younger than any process that was
\* ready in that queue during the whole pass.
THEOREM OldestSafety == ScanSpec => []PicksTheOldest
  <1>1. ScanInv => PicksTheOldest
    BY SMT, Ranges DEF ScanInv, ScanTypeOK, PassInv, PicksTheOldest
  <1> QED BY ScanInvariance, <1>1, PTL
=============================================================================
