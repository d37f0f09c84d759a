---------------------------- MODULE SchedProofs -----------------------------
(***************************************************************************)
(* Theorems about Sched and SchedStats, for any number of slots and queues *)
(* and any ticks per slice and between boosts.                             *)
(***************************************************************************)
EXTENDS SchedStats, FiniteSetTheorems, WellFoundedInduction, TLAPS

\* The table is finite.
LEMMA FiniteTable ==
    ASSUME NEW S \in SUBSET Procs
    PROVE  /\ S \subseteq Nat /\ IsFiniteSet(S) /\ Cardinality(S) \in Nat
<1>1. IsFiniteSet(Procs) /\ Procs \subseteq Nat
  BY SchedAssumption, FS_Interval DEF Procs
<1> QED
  BY Zenon, <1>1, FS_Subset, FS_CardinalityType

\* Numbers handed out in the order of the table are different.
LEMMA RankIncreases ==
    ASSUME NEW S \in SUBSET Procs, NEW p \in S, NEW q \in S, p < q
    PROVE  Rank(p, S) < Rank(q, S)
<1> DEFINE Before(r) == {x \in S : x < r}
<1>1. /\ IsFiniteSet(Before(q)) /\ Cardinality(Before(q)) \in Nat
      /\ Cardinality(Before(p)) \in Nat
  BY FiniteTable
<1>2. Before(p) \in SUBSET Before(q) /\ Before(p) # Before(q)
  BY FiniteTable
<1>3. /\ Cardinality(Before(p)) <= Cardinality(Before(q))
      /\ Cardinality(Before(q)) = Cardinality(Before(p)) => Before(q) = Before(p)
  BY <1>1, <1>2, FS_Subset
<1> QED
  BY <1>1, <1>2, <1>3 DEF Rank

\* A loop over S uses as many numbers as S has members.
LEMMA RankBound ==
    ASSUME NEW S \in SUBSET Procs, NEW p \in S
    PROVE  Rank(p, S) \in Nat /\ Rank(p, S) < Cardinality(S)
<1> DEFINE Before == {x \in S : x < p}
<1>1. IsFiniteSet(S) /\ Cardinality(S) \in Nat /\ Cardinality(Before) \in Nat
  BY FiniteTable
<1>2. Before \in SUBSET S /\ Before # S
  BY FiniteTable
<1>3. Cardinality(Before) <= Cardinality(S) /\ (Cardinality(S) = Cardinality(Before) => S = Before)
  BY <1>1, <1>2, FS_Subset
<1> QED
  BY <1>1, <1>2, <1>3 DEF Rank

\* The pass over the table finds a process of S with the smallest number.
LEMMA FirstIsSmallest ==
    ASSUME TypeOK, NEW S \in SUBSET Procs, S # {}
    PROVE  First(S) \in S /\ \A q \in S : sequence[First(S)] <= sequence[q]
<1>1. \E p \in S : \A q \in S : sequence[p] <= sequence[q]
  <2> DEFINE N == {sequence[q] : q \in S}
  <2>1. N \in SUBSET Nat /\ N # {}
    BY DEF TypeOK
  <2> HIDE DEF N
  <2>2. \E n \in N : \A m \in N : n <= m
    <3>1. PICK n \in N : \A m \in N : <<m, n>> \notin OpToRel(<, Nat)
      BY Zenon, <2>1, NatLessThanWellFounded, WFMin
    <3>2. \A m \in N : ~(m < n)
      BY Zenon, <2>1, <3>1 DEF OpToRel
    <3>3. \A m \in N : n <= m
      <4> SUFFICES ASSUME NEW m \in N PROVE n <= m
        OBVIOUS
      <4>1. m \in Nat /\ n \in Nat
        BY <2>1
      <4> QED
        BY <3>2, <4>1
    <3> QED
      BY <3>3
  <2> QED
    BY <2>2 DEF N
<1> QED
  BY <1>1 DEF First

\* enqueue_locked() gives the processes of S new numbers, in the order of the
\* table, above all that were given before.
LEMMA Enqueued ==
    ASSUME TypeOK, NEW S \in SUBSET Procs, enqueue(S)
    PROVE  /\ sequence' \in [Procs -> Nat] /\ next' \in Nat
           /\ \A p \in Procs \ S : sequence'[p] = sequence[p]
           /\ policy # "RR" =>
               /\ next <= next'
               /\ \A p \in S : next <= sequence'[p] /\ sequence'[p] < next'
               /\ \A p, q \in S : p # q => sequence'[p] # sequence'[q]
<1>1. CASE policy = "RR"
  BY <1>1 DEF TypeOK, enqueue, seqvars
<1>2. CASE policy # "RR"
  <2>1. /\ sequence' = [p \in Procs |-> IF p \in S THEN next + Rank(p, S) ELSE sequence[p]]
        /\ next' = next + Cardinality(S)
    BY <1>2 DEF enqueue
  <2>2. Cardinality(S) \in Nat /\ \A p \in S : Rank(p, S) \in Nat /\ Rank(p, S) < Cardinality(S)
    BY FiniteTable, RankBound
  <2>3. \A p, q \in S : p # q => Rank(p, S) # Rank(q, S)
    <3> SUFFICES ASSUME NEW p \in S, NEW q \in S, p # q PROVE Rank(p, S) # Rank(q, S)
      OBVIOUS
    <3>1. p \in Nat /\ q \in Nat /\ (p < q \/ q < p)
      BY FiniteTable
    <3> QED
      BY <3>1, <2>2, RankIncreases
  <2> QED
    BY <2>1, <2>2, <2>3 DEF TypeOK
<1> QED
  BY <1>1, <1>2

\* scheduler() switches to a ready process when the CPU is free.
LEMMA Dispatches ==
    ASSUME TypeOK, ScheduleMLFQ \/ ScheduleFCFS \/ ScheduleRR
    PROVE  /\ cur = NoProc /\ phase = "run"
           /\ \E p \in Runnable :
               /\ Dispatch(p)
               /\ policy = "FCFS" => \A q \in Runnable : sequence[p] <= sequence[q]
<1>1. CASE ScheduleMLFQ
  <2>1. PICK S \in SUBSET Runnable : S # {} /\ Dispatch(First(S))
    BY <1>1 DEF ScheduleMLFQ
  <2> QED
    BY <1>1, <2>1, FirstIsSmallest DEF ScheduleMLFQ, Runnable
<1>2. CASE ScheduleFCFS
  BY <1>2, FirstIsSmallest DEF ScheduleFCFS, Runnable
<1>3. CASE ScheduleRR
  BY <1>3 DEF ScheduleRR
<1> QED
  BY <1>1, <1>2, <1>3
-----------------------------------------------------------------------------
RunInv ==
    /\ OneRunning
    /\ phase = "yield" => cur # NoProc

\* Types are kept by every operation, together with the agreement of cur and
\* the RUNNING state.
LEMMA TypeStep == TypeOK /\ RunInv /\ [Next]_vars => TypeOK' /\ RunInv'
<1> SUFFICES ASSUME TypeOK, RunInv, [Next]_vars PROVE TypeOK' /\ RunInv'
  OBVIOUS
<1> USE SchedAssumption DEF TypeOK, RunInv, OneRunning, NoProc, mlfqvars, seqvars
<1>0. Procs \subseteq Nat /\ NPROC \notin Procs
  BY DEF Procs
<1>1. CASE UNCHANGED vars
  BY <1>1 DEF vars, runvars
<1>2. CASE Next
  <2> USE <1>0
  <2>0. policy' \in Builds
    BY <1>2 DEF Next
  <2>1. CASE ScheduleMLFQ \/ ScheduleFCFS \/ ScheduleRR
    <3>1. PICK p \in Runnable : Dispatch(p)
      BY <2>1, Dispatches
    <3>2. cur = NoProc /\ phase = "run"
      BY Zenon, <2>1, Dispatches
    <3>3. scan' \in 0..NPROC
      <4>1. CASE ScheduleMLFQ \/ ScheduleFCFS
        BY <4>1 DEF ScheduleMLFQ, ScheduleFCFS
      <4>2. CASE ScheduleRR
        <5>1. PICK q \in Procs : scan' = q + 1
          BY <4>2 DEF ScheduleRR, Runnable
        <5> QED
          BY <5>1 DEF Procs
      <4> QED
        BY <2>1, <4>1, <4>2
    <3> QED
      BY Zenon, <2>0, <3>1, <3>2, <3>3 DEF Dispatch, Runnable
  <2>2. CASE ScanEnd
    BY <2>0, <2>2 DEF ScanEnd
  <2>3. CASE clockintr
    <3>1. slice_ticks' \in [Procs -> Nat]
      BY <2>3 DEF clockintr
    <3>2. phase' \in {"boost", "wakeup"} /\ ticks' \in Nat
      BY <2>3 DEF clockintr
    <3>3. due' \in BOOLEAN
      BY Zenon, <2>3 DEF clockintr
    <3> QED
      BY Zenon, <2>0, <2>3, <3>1, <3>2, <3>3 DEF clockintr
  <2>4. CASE mlfq_boost
    <3>1. sequence' \in [Procs -> Nat] /\ next' \in Nat
      BY Zenon, <2>4, Enqueued DEF mlfq_boost, Runnable
    <3> QED
      BY SMTT(30), <2>0, <2>4, <3>1 DEF mlfq_boost, Queues
  <2>5. ASSUME NEW ch, wakeup(ch)
        PROVE  /\ sequence' \in [Procs -> Nat] /\ next' \in Nat
               /\ chan' \in [Procs -> {"none", "ticks", "other"}]
               /\ state' \in [Procs -> {"UNUSED", "SLEEPING", "RUNNABLE", "RUNNING", "ZOMBIE"}]
               /\ \A p \in Procs : state'[p] = "RUNNING" <=> state[p] = "RUNNING"
    BY Zenon, <2>5, Enqueued DEF wakeup
  <2>6. CASE ClockWakeup
    BY Zenon, <2>0, <2>5, <2>6 DEF ClockWakeup
  <2>7. CASE yield
    <3>1. cur \in Procs
      BY <2>7 DEF yield
    <3>2. sequence' \in [Procs -> Nat] /\ next' \in Nat
      BY Zenon, <2>7, <3>1, Enqueued DEF yield
    <3>3. queue' \in [Procs -> Queues] /\ slice_ticks' \in [Procs -> Nat]
      <4>1. Lower(queue[cur]) \in Queues
        BY <3>1 DEF Lower, Queues
      <4>2. CASE policy = "MLFQ"
        <5>1. Demote(cur)
          BY <2>7, <4>2 DEF yield
        <5> QED
          BY SMTT(30), <3>1, <4>1, <5>1 DEF Demote
      <4>3. CASE policy # "MLFQ"
        BY <2>7, <4>3 DEF yield
      <4> QED
        BY <4>2, <4>3
    <3> QED
      BY Zenon, <2>0, <2>7, <3>1, <3>2, <3>3 DEF yield
  <2>8. CASE kfork
    <3>1. PICK p \in Procs :
            /\ state[p] = "UNUSED"
            /\ state' = [state EXCEPT ![p] = "RUNNABLE"]
            /\ queue' = [queue EXCEPT ![p] = 0]
            /\ slice_ticks' = [slice_ticks EXCEPT ![p] = 0]
            /\ enqueue({p})
      BY Zenon, <2>8 DEF kfork
    <3>2. sequence' \in [Procs -> Nat] /\ next' \in Nat
      BY Zenon, <3>1, Enqueued
    <3>3. queue' \in [Procs -> Queues] /\ slice_ticks' \in [Procs -> Nat]
      <4>1. 0 \in Queues
        BY DEF Queues
      <4> QED
        BY <3>1, <4>1
    <3>4. /\ state' \in [Procs -> {"UNUSED", "SLEEPING", "RUNNABLE", "RUNNING", "ZOMBIE"}]
          /\ \A q \in Procs : state'[q] = "RUNNING" <=> q = cur
      BY <3>1
    <3> QED
      BY Zenon, <2>0, <2>8, <3>2, <3>3, <3>4 DEF kfork
  <2>9. ASSUME NEW ch \in {"ticks", "other"}, sleep(ch) PROVE TypeOK' /\ RunInv'
    <3>1. /\ cur \in Procs
          /\ state' = [state EXCEPT ![cur] = "SLEEPING"]
          /\ chan' = [chan EXCEPT ![cur] = ch]
          /\ cur' = NoProc
      BY <2>9 DEF sleep
    <3>2. /\ state' \in [Procs -> {"UNUSED", "SLEEPING", "RUNNABLE", "RUNNING", "ZOMBIE"}]
          /\ chan' \in [Procs -> {"none", "ticks", "other"}]
          /\ \A q \in Procs : state'[q] = "RUNNING" <=> q = cur'
      BY <3>1
    <3> QED
      BY <2>0, <2>9, <3>1, <3>2 DEF sleep
  <2>10. CASE Wakeup
    BY Zenon, <2>0, <2>5, <2>10 DEF Wakeup
  <2>11. CASE kexit
    BY Zenon, <2>0, <2>11 DEF kexit
  <2>12. CASE kwait
    <3>1. PICK z \in Procs :
            /\ state[z] = "ZOMBIE"
            /\ state' = [state EXCEPT ![z] = "UNUSED"]
            /\ chan' = [chan EXCEPT ![z] = "none"]
            /\ killed' = [killed EXCEPT ![z] = FALSE]
            /\ queue' = [queue EXCEPT ![z] = 0]
            /\ slice_ticks' = [slice_ticks EXCEPT ![z] = 0]
            /\ sequence' = [sequence EXCEPT ![z] = 0]
      BY Zenon, <2>12 DEF kwait
    <3>2. killed' \in [Procs -> BOOLEAN]
      BY <3>1
    <3>3. /\ queue' \in [Procs -> Queues]
          /\ slice_ticks' \in [Procs -> Nat] /\ sequence' \in [Procs -> Nat]
      BY SMTT(30), <3>1 DEF Queues
    <3>4. /\ state' \in [Procs -> {"UNUSED", "SLEEPING", "RUNNABLE", "RUNNING", "ZOMBIE"}]
          /\ chan' \in [Procs -> {"none", "ticks", "other"}]
          /\ \A p \in Procs : state'[p] = "RUNNING" <=> p = cur
      BY <3>1
    <3> QED
      BY Zenon, <2>0, <2>12, <3>2, <3>3, <3>4 DEF kwait
  <2>13. CASE kkill
    BY SMTT(30), <2>0, <2>13 DEF kkill, Procs
  <2> QED
    BY Zenon, <1>2, <2>1, <2>2, <2>3, <2>4, <2>6, <2>7, <2>8, <2>9, <2>10, <2>11, <2>12, <2>13
    DEF Next
<1> QED
  BY Zenon, <1>1, <1>2

\* No step of Sched breaks its types: positions stay natural numbers, demotion
\* stops at the last queue, cur is a slot or none.
THEOREM TypeCorrect == Spec => [](TypeOK /\ RunInv)
<1>1. Init => TypeOK /\ RunInv
  BY SchedAssumption
  DEF Init, TypeOK, RunInv, OneRunning, Procs, NoProc, Queues
<1> QED
  BY <1>1, TypeStep, PTL DEF Spec

\* The process on the CPU is the only RUNNING one: scheduler() only switches
\* when the CPU is free, and whoever leaves the CPU changes its state first.
THEOREM RunningSafety == Spec => []OneRunning
BY TypeCorrect, PTL DEF RunInv
-----------------------------------------------------------------------------
\* What enqueue_locked() does keeps positions distinct, if nobody comes alive
\* who is not enqueued.
LEMMA EnqueueKeepsPositions ==
    ASSUME TypeOK, DistinctPositions, policy' = policy,
           NEW S \in SUBSET Procs, enqueue(S), Live' \subseteq Live \cup S
    PROVE  DistinctPositions'
<1> SUFFICES ASSUME policy # "RR"
             PROVE  /\ \A p \in Live' : sequence'[p] < next'
                    /\ \A p, q \in Live' : p # q => sequence'[p] # sequence'[q]
  BY DEF DistinctPositions
<1> DEFINE Old == Live \ S
<1>1. /\ sequence' \in [Procs -> Nat] /\ next' \in Nat /\ next <= next'
      /\ \A p \in S : next <= sequence'[p] /\ sequence'[p] < next'
      /\ \A p, q \in S : p # q => sequence'[p] # sequence'[q]
      /\ \A p \in Old : sequence'[p] = sequence[p]
  BY Enqueued DEF Live
<1>2. \A p \in Old : sequence'[p] \in Nat /\ sequence'[p] < next
  BY <1>1 DEF DistinctPositions, TypeOK, Live
<1>3. \A p, q \in Old : p # q => sequence'[p] # sequence'[q]
  BY <1>1 DEF DistinctPositions
<1>4. Live' \subseteq Old \cup S /\ S \subseteq Procs /\ next \in Nat
  BY DEF TypeOK
<1> HIDE DEF Old
<1>5. \A p \in Live' : sequence'[p] < next'
  BY <1>1, <1>2, <1>4
<1>6. ASSUME NEW p \in Old, NEW q \in S PROVE sequence'[p] # sequence'[q]
  BY <1>1, <1>2, <1>4
<1> QED
  BY <1>1, <1>3, <1>4, <1>5, <1>6

\* The same for a step that hands out no number.
LEMMA OthersKeepPositions ==
    ASSUME DistinctPositions, policy' = policy, next' = next, Live' \subseteq Live,
           \A p \in Live : sequence'[p] = sequence[p]
    PROVE  DistinctPositions'
BY DEF DistinctPositions

LEMMA PositionStep ==
    TypeOK /\ RunInv /\ DistinctPositions /\ [Next]_vars => DistinctPositions'
<1> SUFFICES ASSUME TypeOK, RunInv, DistinctPositions, [Next]_vars
             PROVE  DistinctPositions'
  OBVIOUS
<1>0. policy' = policy
  BY DEF Next, vars
<1>1. CASE UNCHANGED vars
  BY <1>0, <1>1, OthersKeepPositions DEF vars, runvars, seqvars, Live
<1>2. CASE Next
  <2>1. CASE ScheduleMLFQ \/ ScheduleFCFS \/ ScheduleRR
    <3>1. PICK p \in Runnable : Dispatch(p)
      BY <2>1, Dispatches
    <3>2. Live' \subseteq Live
      BY <3>1 DEF Dispatch, Live, Runnable, TypeOK
    <3> QED
      BY <1>0, <3>1, <3>2, OthersKeepPositions DEF Dispatch, seqvars
  <2>2. CASE ScanEnd
    BY <1>0, <2>2, OthersKeepPositions DEF ScanEnd, seqvars, Live
  <2>3. CASE clockintr
    BY <1>0, <2>3, OthersKeepPositions DEF clockintr, seqvars, Live
  <2>4. CASE mlfq_boost
    BY <1>0, <2>4, EnqueueKeepsPositions DEF mlfq_boost, Live, Runnable
  <2>5. ASSUME NEW ch, wakeup(ch) PROVE DistinctPositions'
    <3> DEFINE S == {p \in Procs : chan[p] = ch /\ state[p] = "SLEEPING"}
    <3>1. enqueue(S) /\ state' = [p \in Procs |-> IF p \in S THEN "RUNNABLE" ELSE state[p]]
      BY <2>5 DEF wakeup
    <3>2. Live' \subseteq Live \cup S
      BY <3>1 DEF Live
    <3> QED
      BY <1>0, <3>1, <3>2, EnqueueKeepsPositions
  <2>6. CASE ClockWakeup \/ Wakeup
    BY <2>5, <2>6 DEF ClockWakeup, Wakeup
  <2>7. CASE yield
    <3>1. cur \in Procs
      BY <2>7 DEF yield, TypeOK, RunInv
    <3>2. Live' \subseteq Live
      BY <2>7, <3>1 DEF yield, Live, TypeOK, RunInv, OneRunning
    <3>3. CASE policy = "MLFQ"
      BY <1>0, <2>7, <3>1, <3>2, <3>3, EnqueueKeepsPositions DEF yield
    <3>4. CASE policy # "MLFQ"
      BY <1>0, <2>7, <3>2, <3>4, OthersKeepPositions DEF yield, seqvars
    <3> QED
      BY <3>3, <3>4
  <2>8. CASE kfork
    <3>1. PICK p \in Procs : state' = [state EXCEPT ![p] = "RUNNABLE"] /\ enqueue({p})
      BY Zenon, <2>8 DEF kfork
    <3>2. Live' \subseteq Live \cup {p}
      BY <3>1 DEF Live, TypeOK
    <3> QED
      BY <1>0, <3>1, <3>2, EnqueueKeepsPositions
  <2>9. CASE sleep("ticks") \/ sleep("other")
    <3>1. Live' \subseteq Live
      BY <2>9 DEF sleep, Live, TypeOK, RunInv, OneRunning, NoProc
    <3> QED
      BY <1>0, <2>9, <3>1, OthersKeepPositions DEF sleep, seqvars
  <2>10. CASE kexit
    <3>1. Live' \subseteq Live
      BY <2>10 DEF kexit, Live, TypeOK
    <3> QED
      BY <1>0, <2>10, <3>1, OthersKeepPositions DEF kexit, seqvars
  <2>11. CASE kwait
    <3>1. PICK z \in Procs :
            /\ state[z] = "ZOMBIE"
            /\ state' = [state EXCEPT ![z] = "UNUSED"]
            /\ sequence' = [sequence EXCEPT ![z] = 0]
      BY Zenon, <2>11 DEF kwait
    <3>2. Live' \subseteq Live /\ \A p \in Live : sequence'[p] = sequence[p]
      BY <3>1 DEF Live, TypeOK
    <3> QED
      BY <1>0, <2>11, <3>2, OthersKeepPositions DEF kwait
  <2>12. CASE kkill
    <3>1. Live' \subseteq Live
      BY <2>12 DEF kkill, Live, TypeOK
    <3> QED
      BY <1>0, <2>12, <3>1, OthersKeepPositions DEF kkill, seqvars
  <2> QED
    BY <1>2, <2>1, <2>2, <2>3, <2>4, <2>6, <2>7, <2>8, <2>9, <2>10, <2>11, <2>12 DEF Next
<1> QED
  BY <1>1, <1>2

\* Queue positions never collide, for any table size: every number that
\* enqueue_locked() hands out is above all that live processes hold.
THEOREM PositionSafety == Spec => []DistinctPositions
<1>1. Init => DistinctPositions
  BY SchedAssumption DEF Init, DistinctPositions, Live, Procs
<1> QED
  BY <1>1, PositionStep, TypeCorrect, PTL DEF Spec
-----------------------------------------------------------------------------
\* New ready processes that enqueue_locked() numbers come behind the one that
\* runs.
LEMMA EnqueueKeepsFirst ==
    ASSUME TypeOK, OneRunning, DistinctPositions, FirstCome, policy' = policy, cur' = cur,
           NEW S \in SUBSET Procs, enqueue(S), cur \notin S, killed' = killed,
           Runnable' \subseteq Runnable \cup S
    PROVE  FirstCome'
<1> SUFFICES ASSUME policy = "FCFS", cur # NoProc,
                    NEW q \in Runnable', ~killed[q]
             PROVE  sequence'[cur] < sequence'[q]
  BY DEF FirstCome
<1>1. cur \in Procs /\ cur \in Live
  BY DEF TypeOK, OneRunning, Live
<1>2. sequence'[cur] = sequence[cur] /\ sequence[cur] < next
  BY <1>1, Enqueued DEF DistinctPositions
<1>3. CASE q \in S
  BY <1>1, <1>2, <1>3, Enqueued DEF TypeOK
<1>4. CASE q \notin S
  <2>1. q \in Runnable /\ q \in Procs
    BY <1>4 DEF Runnable
  <2> QED
    BY <1>2, <1>4, <2>1, Enqueued DEF FirstCome
<1> QED
  BY <1>3, <1>4

\* A step that neither switches nor hands out numbers, and makes nobody ready
\* but killed processes.
LEMMA OthersKeepFirst ==
    ASSUME FirstCome, policy' = policy, cur' = NoProc \/ cur' = cur,
           \A q \in Runnable' : ~killed'[q] => q \in Runnable /\ ~killed[q],
           \A q \in Runnable \cup {cur} : sequence'[q] = sequence[q]
    PROVE  FirstCome'
BY DEF FirstCome, NoProc

LEMMA FirstStep ==
    TypeOK /\ RunInv /\ DistinctPositions /\ FirstCome /\ [Next]_vars => FirstCome'
<1> SUFFICES ASSUME TypeOK, RunInv, DistinctPositions, FirstCome, [Next]_vars
             PROVE  FirstCome'
  OBVIOUS
<1>0. policy' = policy /\ OneRunning
  BY DEF Next, vars, RunInv
<1>1. CASE UNCHANGED vars
  BY <1>0, <1>1, OthersKeepFirst DEF vars, runvars, seqvars, Runnable
<1>2. CASE Next
  <2>1. CASE ScheduleMLFQ \/ ScheduleFCFS \/ ScheduleRR
    <3>1. PICK p \in Runnable :
            /\ Dispatch(p)
            /\ policy = "FCFS" => \A q \in Runnable : sequence[p] <= sequence[q]
      BY <2>1, Dispatches
    <3>2. p \in Procs /\ Runnable' \subseteq Runnable \ {p} /\ cur' = p /\ sequence' = sequence
      BY <3>1 DEF Dispatch, Runnable, TypeOK, seqvars
    <3>3. ASSUME policy = "FCFS", NEW q \in Runnable' PROVE sequence'[p] < sequence'[q]
      <4>1. q \in Runnable /\ q # p /\ q \in Procs
        BY <3>2, <3>3 DEF Runnable
      <4>2. sequence[p] <= sequence[q] /\ sequence[p] # sequence[q]
        BY <3>1, <3>3, <4>1 DEF DistinctPositions, Live, Runnable
      <4> QED
        BY <3>2, <4>1, <4>2 DEF TypeOK
    <3> QED
      BY <1>0, <3>2, <3>3 DEF FirstCome
  <2>2. CASE ScanEnd
    BY <1>0, <2>2, OthersKeepFirst DEF ScanEnd, seqvars, Runnable
  <2>3. CASE clockintr
    BY <1>0, <2>3, OthersKeepFirst DEF clockintr, seqvars, Runnable
  <2>4. CASE mlfq_boost
    <3>1. cur \notin Runnable /\ Runnable' \subseteq Runnable
      BY <1>0, <2>4 DEF mlfq_boost, Runnable, OneRunning
    <3> QED
      BY <1>0, <2>4, <3>1, EnqueueKeepsFirst DEF mlfq_boost, Runnable
  <2>5. ASSUME NEW ch, wakeup(ch), cur' = cur, killed' = killed PROVE FirstCome'
    <3> DEFINE S == {p \in Procs : chan[p] = ch /\ state[p] = "SLEEPING"}
    <3>1. enqueue(S) /\ state' = [p \in Procs |-> IF p \in S THEN "RUNNABLE" ELSE state[p]]
      BY <2>5 DEF wakeup
    <3>2. cur \notin S /\ Runnable' \subseteq Runnable \cup S
      BY <1>0, <3>1 DEF Runnable, OneRunning
    <3> QED
      BY <1>0, <2>5, <3>1, <3>2, EnqueueKeepsFirst
  <2>6. CASE ClockWakeup \/ Wakeup
    BY <2>5, <2>6 DEF ClockWakeup, Wakeup
  <2>7. CASE yield
    BY <2>7 DEF yield, FirstCome, NoProc
  <2>8. CASE kfork
    <3>1. PICK p \in Procs : /\ state[p] = "UNUSED"
                             /\ state' = [state EXCEPT ![p] = "RUNNABLE"]
                             /\ enqueue({p})
      BY Zenon, <2>8 DEF kfork
    <3>2. cur # p /\ Runnable' \subseteq Runnable \cup {p}
      BY <1>0, <3>1 DEF Runnable, TypeOK, OneRunning
    <3> QED
      BY <1>0, <2>8, <3>1, <3>2, EnqueueKeepsFirst DEF kfork
  <2>9. CASE sleep("ticks") \/ sleep("other") \/ kexit
    BY <2>9 DEF sleep, kexit, FirstCome, NoProc
  <2>10. CASE kwait
    <3>1. PICK z \in Procs :
            /\ state[z] = "ZOMBIE"
            /\ state' = [state EXCEPT ![z] = "UNUSED"]
            /\ killed' = [killed EXCEPT ![z] = FALSE]
            /\ sequence' = [sequence EXCEPT ![z] = 0]
      BY Zenon, <2>10 DEF kwait
    <3>2. \A q \in Runnable' : q \in Runnable /\ killed'[q] = killed[q]
      BY Zenon, <3>1 DEF Runnable, TypeOK
    <3>3. z \notin Runnable \cup {cur}
      BY <1>0, <3>1 DEF Runnable, OneRunning
    <3>4. \A q \in Runnable \cup {cur} : cur # NoProc => sequence'[q] = sequence[q]
      BY <3>1, <3>3 DEF Runnable, TypeOK
    <3> QED
      BY Zenon, <1>0, <2>10, <3>2, <3>4, OthersKeepFirst DEF kwait
  <2>11. CASE kkill
    <3>1. PICK p \in Procs :
            /\ killed' = [killed EXCEPT ![p] = TRUE]
            /\ state' = [state EXCEPT ![p] = IF @ = "SLEEPING" THEN "RUNNABLE" ELSE @]
      BY Zenon, <2>11, SchedAssumption DEF kkill, Procs
    <3>2. \A q \in Runnable' : ~killed'[q] => q \in Runnable /\ ~killed[q]
      BY <3>1 DEF Runnable, TypeOK
    <3> QED
      BY <1>0, <2>11, <3>2, OthersKeepFirst DEF kkill, seqvars
  <2> QED
    BY <1>2, <2>1, <2>2, <2>3, <2>4, <2>6, <2>7, <2>8, <2>9, <2>10, <2>11 DEF Next
<1> QED
  BY <1>1, <1>2

\* The FCFS kernel serves in the order in which processes became ready.
THEOREM FirstComeSafety == Spec => []FirstCome
<1>1. Init => FirstCome
  BY DEF Init, FirstCome
<1> QED
  BY <1>1, FirstStep, PositionSafety, TypeCorrect, PTL DEF Spec
-----------------------------------------------------------------------------
\* The process on the CPU may have used its slice up only from the tick that
\* used it up to the yield that follows.
SliceInv ==
    policy = "MLFQ" =>
        \A p \in Live : ~killed[p] /\ (p # cur \/ phase = "run")
                        => slice_ticks[p] < slices[queue[p]]

\* A step that charges nobody off the CPU, moves nobody, and spares the
\* process on the CPU or leaves it there.
LEMMA OthersKeepSlice ==
    ASSUME SliceInv, policy' = policy, UNCHANGED mlfqvars,
           \A p \in Live' : ~killed'[p] /\ (p # cur' \/ phase' = "run")
                           => p \in Live /\ ~killed[p] /\ (p # cur \/ phase = "run")
    PROVE  SliceInv'
BY DEF SliceInv, mlfqvars

LEMMA SliceStep == TypeOK /\ RunInv /\ SliceInv /\ [Next]_vars => SliceInv'
<1> SUFFICES ASSUME TypeOK, RunInv, SliceInv, [Next]_vars PROVE SliceInv'
  OBVIOUS
<1>0. policy' = policy /\ OneRunning
  BY DEF Next, vars, RunInv
<1>1. CASE UNCHANGED vars
  BY <1>0, <1>1, OthersKeepSlice DEF vars, runvars, Live
<1>2. CASE Next
  <2>1. CASE ScheduleMLFQ \/ ScheduleFCFS \/ ScheduleRR
    <3>1. PICK p \in Runnable : Dispatch(p) /\ phase = "run"
      BY <2>1, Dispatches
    <3>2. Live' \subseteq Live
      BY <3>1 DEF Dispatch, Live, Runnable, TypeOK
    <3> QED
      BY <1>0, <3>1, <3>2, OthersKeepSlice DEF Dispatch
  <2>2. CASE ScanEnd
    BY <1>0, <2>2, OthersKeepSlice DEF ScanEnd, Live
  <2>3. CASE clockintr
    <3>1. phase' # "run" /\ Live' = Live /\ UNCHANGED <<killed, cur, queue>>
      BY <2>3 DEF clockintr, Live
    <3>2. \A p \in Live : p # cur => slice_ticks'[p] = slice_ticks[p]
      BY <2>3 DEF clockintr, TypeOK, Live
    <3> QED
      BY <1>0, <3>1, <3>2 DEF SliceInv
  <2>4. CASE mlfq_boost
    <3>1. \A p \in Live' : queue'[p] = 0 /\ slice_ticks'[p] = 0
      BY <2>4 DEF mlfq_boost, Live
    <3>2. slices[0] \in Nat \ {0} /\ slices' = slices
      BY SchedAssumption
    <3> QED
      BY <1>0, <3>1, <3>2 DEF SliceInv
  <2>5. ASSUME NEW ch, wakeup(ch) PROVE Live' \subseteq Live
    BY <2>5 DEF wakeup, Live, TypeOK
  <2>6. CASE ClockWakeup
    <3>1. Live' \subseteq Live /\ Live' \subseteq Procs /\ NoProc \notin Procs
      BY <2>5, <2>6, SchedAssumption DEF ClockWakeup, Live, NoProc, Procs
    <3>2. \A p \in Live' : ~killed'[p] /\ (p # cur' \/ phase' = "run") => ~killed[p] /\ p # cur
      BY <2>6, <3>1 DEF ClockWakeup
    <3> QED
      BY <1>0, <2>6, <3>1, <3>2, OthersKeepSlice DEF ClockWakeup
  <2>7. CASE yield
    <3>1. cur \in Procs /\ cur' = NoProc /\ phase' = "run" /\ killed' = killed
      BY <2>7 DEF yield, TypeOK, RunInv
    <3>2. Live' \subseteq Live
      BY <2>7, <3>1 DEF yield, Live, TypeOK, OneRunning, RunInv
    <3>3. CASE policy = "MLFQ"
      <4>1. Demote(cur)
        BY <2>7, <3>3 DEF yield
      <4>2. /\ queue[cur] \in Queues /\ Lower(queue[cur]) \in Queues
            /\ slice_ticks[cur] \in Nat
        BY <3>1, SchedAssumption DEF TypeOK, Lower, Queues
      <4>3. \A k \in Queues : slices[k] \in Nat /\ 0 < slices[k]
        BY SchedAssumption DEF Queues
      <4>4. slice_ticks'[cur] < slices[queue'[cur]]
        BY <3>1, <4>1, <4>2, <4>3 DEF Demote, mlfqvars, TypeOK
      <4>5. \A p \in Live : p # cur => slice_ticks'[p] = slice_ticks[p] /\ queue'[p] = queue[p]
        BY <3>1, <4>1 DEF Demote, mlfqvars, TypeOK, Live
      <4> QED
        BY <1>0, <3>1, <3>2, <4>4, <4>5 DEF SliceInv
    <3> QED
      BY <1>0, <3>3 DEF SliceInv
  <2>8. CASE kfork
    <3>1. PICK p \in Procs :
            /\ state' = [state EXCEPT ![p] = "RUNNABLE"]
            /\ queue' = [queue EXCEPT ![p] = 0]
            /\ slice_ticks' = [slice_ticks EXCEPT ![p] = 0]
      BY Zenon, <2>8 DEF kfork
    <3>2. Live' \subseteq Live \cup {p}
      BY <3>1 DEF Live, TypeOK
    <3>3. queue'[p] = 0 /\ slice_ticks'[p] = 0 /\ 0 < slices[0]
      BY <3>1, SchedAssumption DEF TypeOK
    <3>4. \A q \in Live : q # p => slice_ticks'[q] = slice_ticks[q] /\ queue'[q] = queue[q]
      BY <3>1 DEF TypeOK, Live
    <3> QED
      BY <1>0, <2>8, <3>2, <3>3, <3>4 DEF SliceInv, kfork
  <2>9. CASE sleep("ticks") \/ sleep("other") \/ kexit
    <3>1. Live' \subseteq Live
      BY <1>0, <2>9 DEF sleep, kexit, Live, TypeOK, OneRunning, NoProc
    <3> QED
      BY <1>0, <2>9, <3>1, OthersKeepSlice DEF sleep, kexit
  <2>10. CASE Wakeup
    BY <1>0, <2>5, <2>10, OthersKeepSlice DEF Wakeup
  <2>11. CASE kwait
    <3>1. PICK z \in Procs :
            /\ state[z] = "ZOMBIE"
            /\ state' = [state EXCEPT ![z] = "UNUSED"]
            /\ killed' = [killed EXCEPT ![z] = FALSE]
            /\ queue' = [queue EXCEPT ![z] = 0]
            /\ slice_ticks' = [slice_ticks EXCEPT ![z] = 0]
      BY Zenon, <2>11 DEF kwait
    <3>2. \A p \in Live' : /\ p \in Live /\ killed'[p] = killed[p]
                           /\ slice_ticks'[p] = slice_ticks[p] /\ queue'[p] = queue[p]
      BY Zenon, <3>1 DEF Live, TypeOK
    <3> QED
      BY Zenon, <1>0, <2>11, <3>2 DEF SliceInv, kwait
  <2>12. CASE kkill
    <3>1. PICK p \in Procs :
            /\ killed' = [killed EXCEPT ![p] = TRUE]
            /\ state' = [state EXCEPT ![p] = IF @ = "SLEEPING" THEN "RUNNABLE" ELSE @]
      BY Zenon, <2>12, SchedAssumption DEF kkill, Procs
    <3>2. \A q \in Live' : q \in Live /\ (~killed'[q] => ~killed[q])
      BY <3>1 DEF Live, TypeOK
    <3> QED
      BY <1>0, <2>12, <3>2, OthersKeepSlice DEF kkill
  <2> QED
    BY <1>2, <2>1, <2>2, <2>3, <2>4, <2>6, <2>7, <2>8, <2>9, <2>10, <2>11, <2>12 DEF Next
<1> QED
  BY <1>1, <1>2

\* No process waits with a slice that is used up, for any slices and boost
\* period: the yield that follows the last tick of a slice demotes it.
THEOREM SliceSafety == Spec => []SliceLeft
<1>1. Init => SliceInv
  BY SchedAssumption DEF Init, SliceInv, Live, Queues, Procs
<1>2. SliceInv => SliceLeft
  BY DEF SliceInv, SliceLeft
<1> QED
  BY <1>1, <1>2, SliceStep, TypeCorrect, PTL DEF Spec

-----------------------------------------------------------------------------
(* Module SchedStats: what schedstats() reports adds up, and the           *)
(* round-robin scheduler passes nobody twice.                              *)

\* The moves between process states that the kernel makes, as far as the
\* statistics depend on them, and that a tick moves nobody.
LEMMA StateMoves ==
    ASSUME TypeOK, RunInv, [Next]_vars, NEW p \in Procs
    PROVE  /\ state[p] = "UNUSED" => state'[p] \in {"UNUSED", "RUNNABLE"}
           /\ state[p] = "ZOMBIE" => state'[p] \in {"ZOMBIE", "UNUSED"}
           /\ state[p] = "RUNNABLE" => state'[p] \in {"RUNNABLE", "RUNNING"}
           /\ ticks' # ticks => ticks' = ticks + 1 /\ state' = state
<1> USE DEF TypeOK
<1>1. CASE UNCHANGED vars
  BY <1>1 DEF vars, runvars
<1>2. CASE Next
  <2>1. CASE ScheduleMLFQ \/ ScheduleFCFS \/ ScheduleRR
    <3>1. PICK q \in Runnable : Dispatch(q)
      BY <2>1, Dispatches
    <3> QED
      BY <3>1 DEF Dispatch, Runnable
  <2>2. CASE ScanEnd \/ clockintr \/ mlfq_boost
    BY <2>2 DEF ScanEnd, clockintr, mlfq_boost
  <2>3. CASE ClockWakeup \/ Wakeup
    BY <2>3 DEF ClockWakeup, Wakeup, wakeup
  <2>4. CASE yield
    BY <2>4 DEF yield, RunInv, OneRunning
  <2>5. CASE kfork
    BY <2>5 DEF kfork
  <2>6. CASE sleep("ticks") \/ sleep("other") \/ kexit
    BY <2>6 DEF sleep, kexit, RunInv, OneRunning
  <2>7. CASE kwait
    BY <2>7 DEF kwait
  <2>8. CASE kkill
    BY <2>8 DEF kkill
  <2> QED
    BY <1>2, <2>1, <2>2, <2>3, <2>4, <2>5, <2>6, <2>7, <2>8 DEF Next
<1> QED
  BY <1>1, <1>2

\* The history and the statistics do not change what the kernel does.
LEMMA StatsImplySched == StatsSpec => Spec
<1>1. StatsInit => Init
  BY DEF StatsInit
<1>2. [StatsNext]_allvars => [Next]_vars
  BY DEF StatsNext, allvars
<1> QED
  BY <1>1, <1>2, PTL DEF StatsSpec, Spec
-----------------------------------------------------------------------------
StatsInv ==
    /\ arrival \in Nat /\ first_run \in Nat /\ cputicks \in Nat /\ waiting \in Nat
    /\ started \in BOOLEAN
    /\ TicksAccounted
    /\ ResponseIsWaiting
    /\ Slot \in Live /\ ~started => state[Slot] = "RUNNABLE"

LEMMA StatsStep == TypeOK /\ RunInv /\ StatsInv /\ [StatsNext]_allvars => StatsInv'
<1> SUFFICES ASSUME TypeOK, RunInv, StatsInv, [StatsNext]_allvars PROVE StatsInv'
  OBVIOUS
<1> USE SlotAssumption DEF StatsInv, TicksAccounted, ResponseIsWaiting
<1>1. CASE UNCHANGED allvars
  BY <1>1 DEF allvars, statvars, vars, runvars, Live
<1>2. CASE StatsNext
  <2>0. /\ state[Slot] = "UNUSED" => state'[Slot] \in {"UNUSED", "RUNNABLE"}
        /\ state[Slot] = "ZOMBIE" => state'[Slot] \in {"ZOMBIE", "UNUSED"}
        /\ state[Slot] = "RUNNABLE" => state'[Slot] \in {"RUNNABLE", "RUNNING"}
        /\ ticks' # ticks => ticks' = ticks + 1 /\ state' = state
    BY <1>2, StateMoves DEF StatsNext
  <2>1. ticks \in Nat /\ (Slot \in Live <=> state[Slot] \notin {"UNUSED", "ZOMBIE"})
        /\ (Slot \in Live' <=> state'[Slot] \notin {"UNUSED", "ZOMBIE"})
    BY DEF TypeOK, Live
  <2>2. CASE Reset
    <3>1. /\ arrival' = IF state'[Slot] = "UNUSED" THEN 0 ELSE ticks
          /\ first_run' = 0 /\ started' = FALSE /\ cputicks' = 0 /\ waiting' = 0
      BY <1>2, <2>2 DEF StatsNext
    <3>2. Slot \in Live' => state'[Slot] = "RUNNABLE" /\ ticks' = ticks
      BY <2>0, <2>1, <2>2 DEF Reset
    <3>3. ~started' /\ started' \in BOOLEAN
      BY Zenon, <3>1
    <3>4. arrival' \in Nat /\ first_run' \in Nat /\ cputicks' \in Nat /\ waiting' \in Nat
      BY <2>1, <3>1
    <3>5. Slot \in Live' => arrival' = ticks' /\ cputicks' = 0 /\ waiting' = 0 /\ ticks' \in Nat
      BY <2>1, <3>1, <3>2
    <3> QED
      BY <3>2, <3>3, <3>4, <3>5
  <2>3. CASE ~Reset
    <3>1. /\ first_run' = IF FirstRun THEN ticks ELSE first_run
          /\ started' = (started \/ FirstRun)
          /\ cputicks' = IF Tick /\ Slot = cur THEN cputicks + 1 ELSE cputicks
          /\ waiting' = IF Tick /\ Waits THEN waiting + 1 ELSE waiting
          /\ arrival' = arrival
      BY <1>2, <2>3 DEF StatsNext
    <3>2. Slot \in Live' => Slot \in Live
      BY <2>0, <2>1, <2>3 DEF Reset
    <3>3. started' \in BOOLEAN
      BY <3>1
    <3>4. (Slot \in Live' /\ ~started') => state'[Slot] = "RUNNABLE"
      BY Zenon, <2>0, <3>1, <3>2 DEF FirstRun
    <3>5. CASE Tick
      <4>1. ticks' = ticks + 1 /\ state' = state /\ ~(Slot = cur /\ Waits)
        BY <2>0, <3>5 DEF Tick, Waits, RunInv, OneRunning
      <4>2. Slot \in Live' => ~FirstRun
        BY <3>2, <4>1 DEF FirstRun
      <4>3. Slot \in Live' /\ ~started => Waits
        BY SMTT(30), <3>2 DEF Waits
      <4> QED
        BY <2>1, <3>1, <3>2, <3>3, <3>4, <3>5, <4>1, <4>2, <4>3
    <3>6. CASE ~Tick
      <4>1. ticks' = ticks /\ cputicks' = cputicks /\ waiting' = waiting
        BY <3>1, <3>6 DEF Tick
      <4>2. FirstRun => ~started
        BY DEF FirstRun
      <4> QED
        BY <2>1, <3>1, <3>2, <3>3, <3>4, <4>1, <4>2
    <3> QED
      BY <3>5, <3>6
  <2> QED
    BY <2>2, <2>3
<1> QED
  BY <1>1, <1>2

\* clockintr() charges every tick of a process's life at most once, to its CPU
\* time or to its waiting time, and the response time is waiting time.
THEOREM StatsSafety == StatsSpec => [](TicksAccounted /\ ResponseIsWaiting)
<1>1. StatsInit => StatsInv
  <2> SUFFICES ASSUME StatsInit PROVE StatsInv
    OBVIOUS
  <2>1. ~started /\ started \in BOOLEAN
    BY Zenon DEF StatsInit
  <2>2. arrival = 0 /\ first_run = 0 /\ cputicks = 0 /\ waiting = 0 /\ ticks = 0
    BY DEF StatsInit, Init
  <2>3. Slot \in Live => state[Slot] = "RUNNABLE"
    BY SlotAssumption DEF StatsInit, Init, Live
  <2> QED
    BY <2>1, <2>2, <2>3 DEF StatsInv, TicksAccounted, ResponseIsWaiting
<1>2. StatsInv => TicksAccounted /\ ResponseIsWaiting
  BY DEF StatsInv
<1> QED
  BY <1>1, <1>2, StatsStep, StatsImplySched, TypeCorrect, PTL DEF StatsSpec
-----------------------------------------------------------------------------
\* Whom the scan of the table has gone over since it went over Slot.
Behind(r) == IF scan > Slot THEN Slot < r /\ r < scan ELSE r < scan \/ r > Slot

PassInv ==
    /\ passed \subseteq Procs
    /\ passed # {} => policy = "RR" /\ state[Slot] = "RUNNABLE"
    /\ \A r \in passed : Behind(r)

\* Only scheduler() makes a process RUNNING, and only it moves the scan.
LEMMA OnlyScheduler ==
    ASSUME TypeOK, Next, ~ScheduleMLFQ, ~ScheduleFCFS, ~ScheduleRR
    PROVE  Dispatched = {} /\ (scan' = scan \/ ScanEnd)
<1> USE DEF TypeOK, Dispatched
<1>1. CASE ScanEnd
  BY <1>1 DEF ScanEnd
<1>2. CASE clockintr \/ mlfq_boost
  BY <1>2 DEF clockintr, mlfq_boost
<1>3. CASE ClockWakeup \/ Wakeup
  BY <1>3 DEF ClockWakeup, Wakeup, wakeup
<1>4. CASE yield
  BY <1>4 DEF yield
<1>5. CASE kfork
  BY <1>5 DEF kfork
<1>6. CASE sleep("ticks") \/ sleep("other") \/ kexit
  BY <1>6 DEF sleep, kexit
<1>7. CASE kwait
  BY <1>7 DEF kwait
<1>8. CASE kkill
  BY <1>8 DEF kkill
<1> QED
  BY <1>1, <1>2, <1>3, <1>4, <1>5, <1>6, <1>7, <1>8 DEF Next

LEMMA PassStep ==
    ASSUME TypeOK, PassInv, [StatsNext]_allvars
    PROVE  PassInv' /\ (StaysReady => passed \cap Dispatched = {})
<1> USE SlotAssumption, SchedAssumption DEF PassInv
<1>0. Procs \subseteq Nat /\ scan \in Nat /\ Slot \in Nat
  BY DEF Procs, TypeOK
<1>1. CASE UNCHANGED allvars
  BY SMTT(30), <1>1 DEF allvars, statvars, vars, runvars, Behind, Dispatched
<1>2. CASE StatsNext
  <2>0. /\ Next /\ policy' = policy
        /\ passed' = IF policy = "RR" /\ StaysReady THEN passed \cup Dispatched ELSE {}
    BY <1>2 DEF StatsNext, Next
  <2>1. CASE policy # "RR" \/ ~StaysReady
    BY <2>0, <2>1
  <2>2. CASE policy = "RR" /\ StaysReady
    <3>0. state[Slot] = "RUNNABLE" /\ state'[Slot] = "RUNNABLE" /\ Slot \in Runnable
      BY <2>2 DEF StaysReady, Runnable
    <3>1. CASE ScheduleRR
      <4>1. PICK p \in Runnable : /\ p >= scan
                                  /\ \A q \in Runnable : q >= scan => p <= q
                                  /\ state' = [state EXCEPT ![p] = "RUNNING"]
                                  /\ scan' = p + 1
        BY Zenon, <3>1 DEF ScheduleRR, Dispatch
      <4>2. Dispatched = {p} /\ p \in Procs /\ p # Slot
        BY <3>0, <4>1 DEF Dispatched, Runnable, TypeOK
      <4>3. passed' = passed \cup {p}
        BY SMTT(30), <2>0, <2>2, <4>2
      <4>4. CASE scan > Slot
        <5>1. p > Slot /\ scan' > Slot /\ p \notin passed
          BY <1>0, <4>1, <4>2, <4>4 DEF Behind
        <5>2. \A r \in passed' : Slot < r /\ r < scan'
          BY <1>0, <4>1, <4>2, <4>3, <4>4, <5>1 DEF Behind
        <5> QED
          BY Zenon, <2>0, <2>2, <3>0, <4>2, <4>3, <5>1, <5>2 DEF Behind
      <4>5. CASE ~(scan > Slot)
        <5>1. p < Slot /\ ~(scan' > Slot) /\ p \notin passed
          BY <1>0, <3>0, <4>1, <4>2, <4>5 DEF Behind
        <5>2. \A r \in passed' : r < scan' \/ r > Slot
          BY SMTT(30), <1>0, <4>1, <4>2, <4>3, <4>5, <5>1 DEF Behind
        <5> QED
          BY <2>0, <2>2, <3>0, <4>2, <4>3, <5>1, <5>2 DEF Behind
      <4> QED
        BY <4>4, <4>5
    <3>2. CASE ~ScheduleRR
      <4>1. Dispatched = {} /\ (scan' = scan \/ ScanEnd)
        BY <2>0, <2>2, <3>2, OnlyScheduler DEF ScheduleMLFQ, ScheduleFCFS
      <4>2. passed' = passed
        BY <2>0, <2>2, <4>1
      <4>3. CASE scan' = scan
        BY <2>0, <2>2, <3>0, <4>1, <4>2, <4>3 DEF Behind
      <4>4. CASE ScanEnd
        <5>1. scan > Slot /\ scan' = 0
          BY <1>0, <3>0, <4>4 DEF ScanEnd
        <5>2. \A r \in passed : r > Slot
          BY <1>0, <5>1 DEF Behind
        <5> QED
          BY <1>0, <2>0, <2>2, <3>0, <4>1, <4>2, <5>1, <5>2 DEF Behind
      <4> QED
        BY <4>1, <4>3, <4>4
    <3> QED
      BY <3>1, <3>2
  <2> QED
    BY <2>1, <2>2
<1> QED
  BY <1>1, <1>2

\* Under the round-robin scheduler nobody is switched to twice while another
\* process stays ready.
THEOREM BypassSafety == StatsSpec => BoundedBypass
<1>1. StatsInit => PassInv
  BY DEF StatsInit, PassInv
<1>2. TypeOK /\ PassInv /\ [StatsNext]_allvars
        => PassInv' /\ [StaysReady => passed \cap Dispatched = {}]_allvars
  BY PassStep
<1> QED
  BY <1>1, <1>2, StatsImplySched, TypeCorrect, PTL DEF StatsSpec, BoundedBypass
=============================================================================
