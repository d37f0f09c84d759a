---------------------------- MODULE BcacheProofs ----------------------------
(***************************************************************************)
(* Theorems about module Bcache, for any threads, buffers and blocks, any  *)
(* number of descriptors and any width of the ring indices: who uses a     *)
(* buffer, who has its lock, and whose descriptors are in use; then the    *)
(* rings between driver and device, what buffers and blocks hold, and who  *)
(* sleeps.                                                                 *)
(***************************************************************************)
EXTENDS Bcache, FiniteSetTheorems, TLAPS

\* The time the provers are given for a step.
USE ZenonT(20), SMTT(20)

-----------------------------------------------------------------------------
(* The cache: who uses a buffer, and who has its lock.                     *)

Labels == {"idle", "acquire", "rw", "io", "have", "brelse"}
Holding == {"rw", "io", "have"}
cache == <<pc, want, buf, op, blockno, valid, refcnt, lock, lru, pins>>

CacheType ==
    /\ pc \in [Proc -> Labels] /\ op \in [Proc -> {"read", "write"}]
    /\ want \in [Proc -> Block \cup {Null}] /\ buf \in [Proc -> Buf \cup {Null}]
    /\ blockno \in [Buf -> Block \cup {Null}] /\ refcnt \in [Buf -> Int]
    /\ lock \in [Buf -> Proc \cup {Null}] /\ valid \subseteq Buf
    /\ lru \in [Places -> Buf] /\ pins \subseteq Block

Users(b) == {p \in Proc : buf[p] = b}
Pinned(b) == IF blockno[b] \in pins THEN 1 ELSE 0

\* A thread beyond bget() has a buffer of its block, and no other buffer is of
\* that block.
HasInv ==
    /\ \A p \in Proc : pc[p] = "idle" <=> buf[p] = Null
    /\ \A p \in Proc : pc[p] # "idle" => want[p] \in Block /\ blockno[buf[p]] = want[p]
    /\ \A b, c \in Buf : blockno[b] = blockno[c] /\ blockno[b] # Null => b = c

\* refcnt counts the threads that use the buffer, and the pin of its block.
RefInv ==
    /\ \A b \in Buf : refcnt[b] = Cardinality(Users(b)) + Pinned(b)
    /\ \A k \in pins : \E b \in valid : blockno[b] = k

\* The lock of a buffer is that of the thread that works with it; a request is
\* a write just if the buffer has contents.
LockInv ==
    /\ \A p \in Proc : pc[p] \in Holding => lock[buf[p]] = p
    /\ \A b \in Buf : lock[b] # Null => pc[lock[b]] \in Holding /\ buf[lock[b]] = b
    /\ \A p \in Proc : pc[p] = "have" => buf[p] \in valid
    /\ \A p \in Proc : pc[p] \in {"rw", "io"} => (op[p] = "write" <=> buf[p] \in valid)

CacheInv == CacheType /\ HasInv /\ RefInv /\ LockInv

\* The steps that change the cache.
CacheSteps(p) ==
    \/ \E k \in Block : bget(p, k)
    \/ acquiresleep(p) /\ lock[buf[p]] = Null
    \/ RwReturns(p) \/ Change(p) \/ releasesleep(p) \/ brelse(p)
    \/ Submit(p) /\ UNCHANGED <<lru, pins>>

\* All others leave it alone.
LEMMA CacheChanges ==
    ASSUME [Next]_vars
    PROVE  UNCHANGED cache \/ \E p \in Proc : CacheSteps(p)
  <1>1. CASE UNCHANGED vars
    BY <1>1 DEF vars, threads, buffers, cache
  <1>2. CASE DeviceStep
    BY <1>2 DEF DeviceStep, Device, DeviceTakes, DeviceFinishes, threads, buffers, cache
  <1>3. CASE IntrStep
    BY <1>3 DEF IntrStep, Intr, virtio_disk_intr, IntrReap, IntrReturn, threads, buffers, cache
  <1>4. ASSUME NEW p \in Proc, Thread(p) PROVE UNCHANGED cache \/ CacheSteps(p)
    <2>1. CASE acquiresleep(p) /\ lock[buf[p]] # Null
      BY <2>1 DEF acquiresleep, cache
    <2>2. CASE (NoDescriptors(p) \/ StillBusy(p) \/ KillWakes(p)) /\ UNCHANGED <<lru, pins>>
      BY <2>2 DEF NoDescriptors, StillBusy, KillWakes, buffers, cache
    <2> QED BY <1>4, <2>1, <2>2 DEF Thread, Driver, Rw, CacheSteps
  <1> QED BY <1>1, <1>2, <1>3, <1>4 DEF Next

\* A thread that is not idle has a buffer, and its block.
LEMMA HasBuffer ==
    ASSUME CacheType, HasInv, NEW p \in Proc, pc[p] # "idle"
    PROVE  buf[p] \in Buf /\ want[p] \in Block /\ blockno[buf[p]] = want[p] /\ want[p] # Null
  BY TableAssumption DEF CacheType, HasInv

\* A buffer without references has no users, is not pinned and not locked.
LEMMA NoReferences ==
    ASSUME CacheInv, NEW b \in Buf, refcnt[b] = 0
    PROVE  /\ \A p \in Proc : buf[p] # b
           /\ blockno[b] \notin pins /\ lock[b] = Null
  <1>1. IsFiniteSet(Users(b)) /\ Cardinality(Users(b)) \in Nat
    BY TableAssumption, FS_Subset, FS_CardinalityType DEF Users
  <1>2. refcnt[b] = Cardinality(Users(b)) + Pinned(b) /\ Pinned(b) \in {0, 1}
    BY DEF CacheInv, RefInv, Pinned
  <1>3. Cardinality(Users(b)) = 0 /\ Pinned(b) = 0
    BY <1>1, <1>2
  <1>4. Users(b) = {}
    BY <1>1, <1>3, FS_EmptySet
  <1>5. lock[b] = Null
    BY SMT, <1>4 DEF CacheInv, CacheType, LockInv, Users
  <1> QED BY <1>3, <1>4, <1>5 DEF Users, Pinned

\* What bget() finds where the block is not cached.
LEMMA VictimIs ==
    ASSUME CacheInv, NEW b \in Victims
    PROVE  b \in Buf /\ refcnt[b] = 0
  BY DEF Victims, Unused, CacheInv, CacheType

\* The list stays one of buffers.
LEMMA MovedIs ==
    ASSUME CacheType, NEW b \in Buf
    PROVE  MoveToFront(b) \in [Places -> Buf]
  <1>1. Cardinality(Buf) \in Nat
    BY TableAssumption, FS_CardinalityType
  <1>2. \A i \in Places : i # 1 => i - 1 \in Places
    BY <1>1 DEF Places
  <1> QED BY <1>2 DEF MoveToFront, CacheType

\* The variables of the cache keep their types.
LEMMA CacheTypeStep == CacheInv /\ [Next]_vars => CacheType'
  <1> SUFFICES ASSUME CacheInv, [Next]_vars PROVE CacheType'
    OBVIOUS
  <1> USE DEF CacheInv
  <1>1. CASE UNCHANGED cache
    BY <1>1 DEF CacheType, cache
  <1>2. ASSUME NEW p \in Proc, NEW k \in Block, bget(p, k) PROVE CacheType'
    <2>1. ASSUME NEW b \in Cached(k), refcnt' = [refcnt EXCEPT ![b] = @ + 1], buf' = [buf EXCEPT ![p] = b],
                 UNCHANGED <<blockno, valid>>
          PROVE  CacheType'
      BY SMT, <1>2, <2>1 DEF bget, CacheType, Cached, Labels
    <2>2. ASSUME NEW b \in Victims, blockno' = [blockno EXCEPT ![b] = k], valid' = valid \ {b},
                 refcnt' = [refcnt EXCEPT ![b] = 1], buf' = [buf EXCEPT ![p] = b]
          PROVE  CacheType'
      <3>1. b \in Buf
        BY VictimIs
      <3> QED BY SMT, <1>2, <2>2, <3>1 DEF bget, CacheType, Labels
    <2> QED BY <1>2, <2>1, <2>2 DEF bget
  <1>3. ASSUME NEW p \in Proc, acquiresleep(p), lock[buf[p]] = Null PROVE CacheType'
    BY SMT, <1>3 DEF acquiresleep, CacheType, Labels
  <1>4. ASSUME NEW p \in Proc, RwReturns(p) PROVE CacheType'
    <2>1. buf[p] \in Buf
      BY <1>4, HasBuffer DEF RwReturns, Finish, At
    <2> QED BY SMT, <1>4, <2>1 DEF RwReturns, Finish, CacheType, Labels
  <1>5. ASSUME NEW p \in Proc, Change(p) PROVE CacheType'
    <2>1. buf[p] \in Buf /\ want[p] \in Block
      BY <1>5, HasBuffer DEF Change
    <2> QED BY SMT, <1>5, <2>1 DEF Change, CacheType, Labels
  <1>6. ASSUME NEW p \in Proc, releasesleep(p) PROVE CacheType'
    BY <1>6 DEF releasesleep, CacheType, Labels
  <1>7. ASSUME NEW p \in Proc, brelse(p) PROVE CacheType'
    <2>1. MoveToFront(buf[p]) \in [Places -> Buf] /\ Places' = Places
      BY <1>7, HasBuffer, MovedIs DEF brelse, Places
    <2>2. lru' \in [Places' -> Buf]
      BY <1>7, <2>1 DEF brelse, CacheType
    <2>3. refcnt' \in [Buf -> Int] /\ buf' \in [Proc -> Buf \cup {Null}] /\ want' \in [Proc -> Block \cup {Null}]
      <3>1. buf[p] \in Buf
        BY <1>7, HasBuffer DEF brelse
      <3> QED BY SMT, <1>7, <3>1 DEF brelse, CacheType
    <2>4. pc' \in [Proc -> Labels]
      BY <1>7 DEF brelse, CacheType, Labels
    <2> QED BY <1>7, <2>2, <2>3, <2>4 DEF brelse, CacheType
  <1>8. ASSUME NEW p \in Proc, Submit(p), UNCHANGED <<lru, pins>> PROVE CacheType'
    BY <1>8 DEF Submit, CacheType, Labels
  <1> QED BY <1>1, <1>2, <1>3, <1>4, <1>5, <1>6, <1>7, <1>8, CacheChanges DEF CacheSteps

\* A thread keeps its buffer until brelse(), and no other buffer gets its block.
LEMMA HasStep == CacheInv /\ [Next]_vars => HasInv'
  <1> SUFFICES ASSUME CacheInv, [Next]_vars PROVE HasInv'
    OBVIOUS
  <1> USE DEF CacheInv
  <1>0. Null \notin Buf /\ Null \notin Block
    BY TableAssumption
  <1>1. CASE UNCHANGED cache
    BY <1>1 DEF HasInv, cache
  <1>2. ASSUME NEW p \in Proc, NEW k \in Block, bget(p, k) PROVE HasInv'
    <2>1. ASSUME NEW b \in Cached(k), buf' = [buf EXCEPT ![p] = b], UNCHANGED blockno
          PROVE  HasInv'
      <3>1. b \in Buf /\ blockno[b] = k
        BY DEF Cached
      <3> QED BY <1>0, <1>2, <2>1, <3>1 DEF bget, CacheType, HasInv
    <2>2. ASSUME NEW b \in Victims, Cached(k) = {}, blockno' = [blockno EXCEPT ![b] = k],
                 buf' = [buf EXCEPT ![p] = b]
          PROVE  HasInv'
      <3>1. b \in Buf /\ \A q \in Proc : buf[q] # b
        BY VictimIs, NoReferences
      <3>2. \A c \in Buf : blockno[c] # k
        BY <2>2 DEF Cached
      <3>3. /\ pc' = [pc EXCEPT ![p] = "acquire"] /\ want' = [want EXCEPT ![p] = k]
        BY <1>2 DEF bget
      <3>4. \A c, d \in Buf : blockno'[c] = blockno'[d] /\ blockno'[c] # Null => c = d
        BY <2>2, <3>1, <3>2 DEF CacheType, HasInv
      <3>5. \A q \in Proc : pc'[q] = "idle" <=> buf'[q] = Null
        BY <1>0, <2>2, <3>1, <3>3 DEF CacheType, HasInv
      <3>6. \A q \in Proc : pc'[q] # "idle" => want'[q] \in Block /\ blockno'[buf'[q]] = want'[q]
        <4> SUFFICES ASSUME NEW q \in Proc, pc'[q] # "idle"
                     PROVE  want'[q] \in Block /\ blockno'[buf'[q]] = want'[q]
          OBVIOUS
        <4>1. CASE q = p
          BY <2>2, <3>1, <3>3, <4>1 DEF CacheType
        <4>2. CASE q # p
          <5>1. pc[q] # "idle" /\ buf'[q] = buf[q] /\ want'[q] = want[q]
            BY <2>2, <3>3, <4>2 DEF CacheType
          <5>2. buf[q] \in Buf /\ want[q] \in Block /\ blockno[buf[q]] = want[q]
            BY <5>1, HasBuffer
          <5>3. blockno'[buf[q]] = blockno[buf[q]]
            BY <2>2, <3>1, <5>2 DEF CacheType
          <5> QED BY <5>1, <5>2, <5>3
        <4> QED BY <4>1, <4>2
      <3> QED BY <3>4, <3>5, <3>6 DEF HasInv
    <2> QED BY <1>2, <2>1, <2>2 DEF bget
  <1>3. ASSUME NEW p \in Proc, pc[p] # "idle", \E l \in Labels \ {"idle"} : pc' = [pc EXCEPT ![p] = l] \/ pc' = pc,
               UNCHANGED <<buf, want, blockno>>
        PROVE  HasInv'
    BY <1>3 DEF CacheType, HasInv
  <1>4. ASSUME NEW p \in Proc, acquiresleep(p), lock[buf[p]] = Null PROVE HasInv'
    BY <1>3, <1>4 DEF acquiresleep, At, Labels
  <1>5. ASSUME NEW p \in Proc, RwReturns(p) \/ Change(p) \/ releasesleep(p) \/ Submit(p) PROVE HasInv'
    BY <1>3, <1>5 DEF RwReturns, Finish, Change, releasesleep, Submit, At, Labels
  <1>6. ASSUME NEW p \in Proc, brelse(p) PROVE HasInv'
    BY <1>6 DEF brelse, CacheType, HasInv
  <1> QED BY <1>1, <1>2, <1>4, <1>5, <1>6, CacheChanges DEF CacheSteps

\* acquiresleep() and releasesleep() pass the lock on.
LEMMA LockStep == CacheInv /\ [Next]_vars => LockInv'
  <1> SUFFICES ASSUME CacheInv, [Next]_vars PROVE LockInv'
    OBVIOUS
  <1> USE DEF CacheInv
  <1>0. Null \notin Buf /\ Null \notin Block /\ Null \notin Proc
    BY TableAssumption
  <1>1. CASE UNCHANGED cache
    BY <1>1 DEF LockInv, cache
  <1>2. ASSUME NEW p \in Proc, NEW k \in Block, bget(p, k) PROVE LockInv'
    <2>1. /\ pc[p] = "idle" /\ pc' = [pc EXCEPT ![p] = "acquire"] /\ UNCHANGED <<op, lock>>
          /\ \E b \in Buf : buf' = [buf EXCEPT ![p] = b] /\ (valid' = valid \/ (refcnt[b] = 0 /\ valid' = valid \ {b}))
      BY <1>2, VictimIs DEF bget, Cached
    <2>2. PICK b \in Buf : buf' = [buf EXCEPT ![p] = b] /\ (valid' = valid \/ (refcnt[b] = 0 /\ valid' = valid \ {b}))
      BY <2>1
    <2>3. \A q \in Proc : pc'[q] \in Holding =>
             pc'[q] = pc[q] /\ buf'[q] = buf[q] /\ (buf[q] \in valid' <=> buf[q] \in valid)
      BY SMT, <2>1, <2>2, NoReferences DEF CacheType, Holding
    <2>4. \A q \in Proc : pc[q] \in Holding => pc'[q] = pc[q] /\ buf'[q] = buf[q]
      BY <2>1, <2>2 DEF CacheType, Holding
    <2> QED BY SMT, <2>1, <2>3, <2>4 DEF CacheType, LockInv, Holding
  <1>3. ASSUME NEW p \in Proc, acquiresleep(p), lock[buf[p]] = Null PROVE LockInv'
    <2>1. /\ buf[p] \in Buf /\ pc[p] = "acquire" /\ lock' = [lock EXCEPT ![buf[p]] = p]
          /\ pc' = [pc EXCEPT ![p] = IF buf[p] \in valid THEN "have" ELSE "rw"]
          /\ op' = [op EXCEPT ![p] = "read"] /\ UNCHANGED <<buf, valid>>
      BY <1>3, HasBuffer DEF acquiresleep, At
    <2> QED BY SMT, <1>0, <1>3, <2>1 DEF CacheType, LockInv, Holding
  <1>4. ASSUME NEW p \in Proc, RwReturns(p) PROVE LockInv'
    <2>1. /\ buf[p] \in Buf /\ pc[p] = "io" /\ pc' = [pc EXCEPT ![p] = "have"] /\ valid' = valid \cup {buf[p]}
          /\ UNCHANGED <<buf, lock, op>>
      BY <1>4, HasBuffer DEF RwReturns, Finish, At
    <2> QED BY SMT, <2>1 DEF CacheType, LockInv, Holding
  <1>5. ASSUME NEW p \in Proc, Change(p) PROVE LockInv'
    <2>1. /\ pc[p] = "have" /\ UNCHANGED <<buf, lock, valid>>
          /\ \/ UNCHANGED <<pc, op>>
             \/ pc' = [pc EXCEPT ![p] = "rw"] /\ op' = [op EXCEPT ![p] = "write"]
      BY <1>5 DEF Change
    <2> QED BY SMT, <2>1 DEF CacheType, LockInv, Holding
  <1>6. ASSUME NEW p \in Proc, releasesleep(p) PROVE LockInv'
    <2>1. /\ buf[p] \in Buf /\ pc[p] = "have" /\ lock' = [lock EXCEPT ![buf[p]] = Null]
          /\ pc' = [pc EXCEPT ![p] = "brelse"] /\ UNCHANGED <<buf, valid, op>>
      BY <1>6, HasBuffer DEF releasesleep
    <2> QED BY SMT, <1>0, <2>1 DEF CacheType, LockInv, Holding
  <1>7. ASSUME NEW p \in Proc, brelse(p) PROVE LockInv'
    <2>1. /\ pc[p] = "brelse" /\ pc' = [pc EXCEPT ![p] = "idle"] /\ buf' = [buf EXCEPT ![p] = Null]
          /\ UNCHANGED <<valid, op, lock>>
      BY <1>7 DEF brelse
    <2> QED BY SMT, <1>0, <2>1 DEF CacheType, LockInv, Holding
  <1>8. ASSUME NEW p \in Proc, Submit(p) PROVE LockInv'
    <2>1. pc[p] = "rw" /\ pc' = [pc EXCEPT ![p] = "io"] /\ UNCHANGED <<buf, valid, op, lock>>
      BY <1>8 DEF Submit, At
    <2> QED BY SMT, <2>1 DEF CacheType, LockInv, Holding
  <1> QED BY <1>1, <1>2, <1>3, <1>4, <1>5, <1>6, <1>7, <1>8, CacheChanges DEF CacheSteps

\* One user more, or one less.
LEMMA UserJoins ==
    ASSUME NEW S \in SUBSET Proc, NEW p \in Proc
    PROVE  /\ Cardinality(S) \in Nat
           /\ p \notin S => Cardinality(S \cup {p}) = Cardinality(S) + 1
           /\ p \in S => Cardinality(S \ {p}) = Cardinality(S) - 1
  <1>1. IsFiniteSet(S)
    BY TableAssumption, FS_Subset
  <1> QED BY <1>1, FS_CardinalityType, FS_AddElement, FS_RemoveElement

\* References are counted.
LEMMA RefStep == CacheInv /\ [Next]_vars => RefInv'
  <1> SUFFICES ASSUME CacheInv, [Next]_vars PROVE RefInv'
    OBVIOUS
  <1> USE DEF CacheInv
  <1>0. Null \notin Buf /\ Null \notin Block /\ Null \notin Proc
    BY TableAssumption
  <1>1. ASSUME UNCHANGED <<buf, blockno, valid, refcnt, pins>> PROVE RefInv'
    BY <1>1 DEF RefInv, Users, Pinned
  <1>2. ASSUME NEW p \in Proc, NEW k \in Block, bget(p, k) PROVE RefInv'
    <2>0. pc[p] = "idle" /\ buf[p] = Null /\ pins' = pins
      BY <1>2 DEF bget, HasInv
    <2>1. ASSUME NEW b \in Cached(k), refcnt' = [refcnt EXCEPT ![b] = @ + 1], buf' = [buf EXCEPT ![p] = b],
                 UNCHANGED <<blockno, valid>>
          PROVE  RefInv'
      <3>1. b \in Buf
        BY DEF Cached
      <3>2. Users(b)' = Users(b) \cup {p} /\ p \notin Users(b) /\ Users(b) \in SUBSET Proc
        BY SMT, <1>0, <2>0, <2>1, <3>1 DEF Users, CacheType
      <3>3. \A c \in Buf : c # b => Users(c)' = Users(c)
        BY <1>0, <2>0, <2>1 DEF Users, CacheType
      <3>4. Cardinality(Users(b)') = Cardinality(Users(b)) + 1 /\ Cardinality(Users(b)) \in Nat
        BY <3>2, UserJoins
      <3>5. \A c \in Buf : Pinned(c)' = Pinned(c)
        BY <2>0, <2>1 DEF Pinned
      <3>6. ASSUME NEW c \in Buf PROVE refcnt'[c] = Cardinality(Users(c)') + Pinned(c)'
        <4>1. refcnt[c] = Cardinality(Users(c)) + Pinned(c) /\ Pinned(c) \in {0, 1}
          BY DEF RefInv, Pinned
        <4>2. refcnt'[c] = IF c = b THEN refcnt[b] + 1 ELSE refcnt[c]
          BY <2>1, <3>1 DEF CacheType
        <4>3. CASE c = b
          BY <3>4, <3>5, <4>1, <4>2, <4>3
        <4>4. CASE c # b
          BY <3>3, <3>5, <4>1, <4>2, <4>4
        <4> QED BY <4>3, <4>4
      <3> QED BY <2>0, <2>1, <3>6 DEF RefInv
    <2>2. ASSUME NEW b \in Victims, Cached(k) = {}, blockno' = [blockno EXCEPT ![b] = k], valid' = valid \ {b},
                 refcnt' = [refcnt EXCEPT ![b] = 1], buf' = [buf EXCEPT ![p] = b]
          PROVE  RefInv'
      <3>1. b \in Buf /\ (\A q \in Proc : buf[q] # b) /\ blockno[b] \notin pins
        BY VictimIs, NoReferences
      <3>2. \A j \in pins : \E c \in valid' : blockno'[c] = j
        BY SMT, <2>2, <3>1 DEF RefInv, CacheType
      <3>3. k \notin pins
        BY <2>2, <3>1 DEF RefInv, CacheType, Cached
      <3>4. Users(b)' = {p} /\ \A c \in Buf : c # b => Users(c)' = Users(c)
        BY SMT, <1>0, <2>0, <2>2, <3>1 DEF Users, CacheType
      <3>5. Pinned(b)' = 0 /\ \A c \in Buf : c # b => Pinned(c)' = Pinned(c)
        BY <2>0, <2>2, <3>1, <3>3 DEF Pinned, CacheType
      <3>6. Cardinality({p}) = 1
        BY FS_Singleton
      <3>7. ASSUME NEW c \in Buf PROVE refcnt'[c] = Cardinality(Users(c)') + Pinned(c)'
        <4>1. refcnt[c] = Cardinality(Users(c)) + Pinned(c)
          BY DEF RefInv
        <4>2. refcnt'[c] = IF c = b THEN 1 ELSE refcnt[c]
          BY <2>2, <3>1 DEF CacheType
        <4>3. CASE c = b
          BY <3>4, <3>5, <3>6, <4>2, <4>3
        <4>4. CASE c # b
          BY <3>4, <3>5, <4>1, <4>2, <4>4
        <4> QED BY <4>3, <4>4
      <3> QED BY <2>0, <3>2, <3>7 DEF RefInv
    <2> QED BY <1>2, <2>1, <2>2 DEF bget
  <1>3. ASSUME NEW p \in Proc, NEW k \in Block, k = want[p], pc[p] \in Holding, UNCHANGED <<buf, blockno>>,
               \/ k \in pins /\ pins' = pins \ {k} /\ refcnt' = [refcnt EXCEPT ![buf[p]] = @ - 1]
               \/ k \notin pins /\ pins' = pins \cup {k} /\ refcnt' = [refcnt EXCEPT ![buf[p]] = @ + 1],
               valid' = valid \cup {buf[p]}
        PROVE  RefInv'
    <2>1. buf[p] \in Buf /\ blockno[buf[p]] = k
      BY <1>3, HasBuffer DEF Holding
    <2>2. \A c \in Buf : Users(c)' = Users(c)
      BY <1>3 DEF Users
    <2>3. \A c \in Buf : Cardinality(Users(c)) \in Nat
      BY <1>3, UserJoins DEF Users
    <2>4. \A c \in Buf : c # buf[p] => blockno[c] # k
      BY <1>0, <2>1 DEF HasInv
    <2>5. \A c \in Buf : c # buf[p] => Pinned(c)' = Pinned(c)
      BY <1>3, <2>4 DEF Pinned, CacheType
    <2>6. \/ Pinned(buf[p]) = 1 /\ Pinned(buf[p])' = 0 /\ refcnt' = [refcnt EXCEPT ![buf[p]] = @ - 1]
          \/ Pinned(buf[p]) = 0 /\ Pinned(buf[p])' = 1 /\ refcnt' = [refcnt EXCEPT ![buf[p]] = @ + 1]
      BY <1>3, <2>1 DEF Pinned
    <2>7. ASSUME NEW c \in Buf PROVE refcnt'[c] = Cardinality(Users(c)') + Pinned(c)'
      <3>1. refcnt[c] = Cardinality(Users(c)) + Pinned(c) /\ Cardinality(Users(c)) \in Nat
        BY <2>3 DEF RefInv
      <3>2. CASE c # buf[p]
        <4>1. refcnt'[c] = refcnt[c]
          BY <2>6, <3>2 DEF CacheType
        <4> QED BY <2>2, <2>5, <3>1, <3>2, <4>1
      <3>3. CASE c = buf[p]
        <4>1. \/ Pinned(c) = 1 /\ Pinned(c)' = 0 /\ refcnt'[c] = refcnt[c] - 1
              \/ Pinned(c) = 0 /\ Pinned(c)' = 1 /\ refcnt'[c] = refcnt[c] + 1
          <5>1. UNCHANGED buf
            BY <1>3
          <5> QED BY <2>1, <2>6, <3>3, <5>1 DEF CacheType, Pinned
        <4> QED BY <2>2, <3>1, <4>1
      <3> QED BY <3>2, <3>3
    <2>8. \A j \in pins' : \E c \in valid' : blockno'[c] = j
      BY SMT, <1>3, <2>1 DEF RefInv, CacheType
    <2> QED BY <2>7, <2>8 DEF RefInv
  <1>4. ASSUME NEW p \in Proc, RwReturns(p) PROVE RefInv'
    <2>1. buf[p] \in Buf /\ want[p] \in Block /\ pc[p] \in Holding
      BY <1>4, HasBuffer DEF RwReturns, Finish, At, Holding
    <2>2. CASE op[p] = "write" /\ want[p] \in pins
      BY <1>3, <1>4, <2>1, <2>2 DEF RwReturns, Finish
    <2>3. CASE ~(op[p] = "write" /\ want[p] \in pins)
      <3>1. UNCHANGED <<buf, blockno, refcnt, pins>> /\ valid \subseteq valid'
        BY <1>4, <2>3 DEF RwReturns, Finish
      <3> QED BY <3>1 DEF RefInv, Users, Pinned
    <2> QED BY <2>2, <2>3
  <1>5. ASSUME NEW p \in Proc, Change(p) PROVE RefInv'
    <2>1. buf[p] \in Buf /\ want[p] \in Block /\ pc[p] \in Holding /\ buf[p] \in valid
      BY <1>5, HasBuffer DEF Change, Holding, LockInv
    <2>2. UNCHANGED <<buf, blockno, valid>> /\ valid' = valid \cup {buf[p]}
      BY <1>5, <2>1 DEF Change
    <2>3. CASE UNCHANGED <<pins, refcnt>>
      BY <1>1, <2>2, <2>3
    <2>4. CASE ~UNCHANGED <<pins, refcnt>>
      <3>1. want[p] \notin pins /\ pins' = pins \cup {want[p]} /\ refcnt' = [refcnt EXCEPT ![buf[p]] = @ + 1]
        BY <1>5, <2>4 DEF Change
      <3> QED BY <1>3, <2>1, <2>2, <3>1
    <2> QED BY <2>3, <2>4
  <1>6. ASSUME NEW p \in Proc, brelse(p) PROVE RefInv'
    <2>1. /\ buf[p] \in Buf /\ buf' = [buf EXCEPT ![p] = Null] /\ refcnt' = [refcnt EXCEPT ![buf[p]] = @ - 1]
          /\ UNCHANGED <<blockno, valid, pins>>
      BY <1>6, HasBuffer DEF brelse
    <2> DEFINE b == buf[p]
    <2>2. Users(b) \in SUBSET Proc /\ p \in Users(b)
      BY DEF Users
    <2>3. \A c \in Buf : Users(c)' = IF c = b THEN Users(c) \ {p} ELSE Users(c)
      BY <1>0, <2>1 DEF Users, CacheType
    <2>4. Cardinality(Users(b) \ {p}) = Cardinality(Users(b)) - 1 /\ Cardinality(Users(b)) \in Nat
      BY <2>2, UserJoins
    <2>5. \A c \in Buf : Pinned(c)' = Pinned(c)
      BY <2>1 DEF Pinned
    <2>6. ASSUME NEW c \in Buf PROVE refcnt'[c] = Cardinality(Users(c)') + Pinned(c)'
      <3>1. refcnt[c] = Cardinality(Users(c)) + Pinned(c) /\ Pinned(c) \in {0, 1}
        BY DEF RefInv, Pinned
      <3>2. refcnt'[c] = IF c = b THEN refcnt[b] - 1 ELSE refcnt[c]
        BY <2>1 DEF CacheType
      <3>3. CASE c = b
        <4>1. Users(c)' = Users(c) \ {p} /\ Pinned(c)' = Pinned(c)
          BY Zenon, <2>3, <2>5, <3>3
        <4>2. Cardinality(Users(c) \ {p}) = Cardinality(Users(c)) - 1 /\ Cardinality(Users(c)) \in Nat
          BY Zenon, <2>4, <3>3
        <4>3. Cardinality(Users(c)') = Cardinality(Users(c)) - 1
          BY Zenon, <4>1, <4>2
        <4>4. refcnt'[c] = refcnt[c] - 1
          BY <3>2, <3>3
        <4> QED BY SMT, <3>1, <4>1, <4>2, <4>3, <4>4
      <3>4. CASE c # b
        BY <2>3, <2>5, <3>1, <3>2, <3>4
      <3> QED BY <3>3, <3>4
    <2> QED BY <2>1, <2>6 DEF RefInv
  <1>7. ASSUME NEW p \in Proc, acquiresleep(p) \/ releasesleep(p) \/ (Submit(p) /\ UNCHANGED <<lru, pins>>)
        PROVE  RefInv'
    BY <1>1, <1>7 DEF acquiresleep, releasesleep, Submit
  <1>8. CASE UNCHANGED cache
    BY <1>1, <1>8 DEF cache
  <1> QED BY <1>2, <1>4, <1>5, <1>6, <1>7, <1>8, CacheChanges DEF CacheSteps

-----------------------------------------------------------------------------
(* Requests and their descriptors.                                         *)

Active == {p \in Proc : pc[p] = "io"}

DiskType ==
    /\ num \in Nums /\ free \subseteq Desc /\ head \in [Proc -> Desc \cup {Null}]
    /\ desc \in [Desc -> [addr : {"op", "status", Null} \cup Buf, next : Desc \cup {Null}]]
    /\ info \in [Desc -> Buf \cup {Null}] /\ ops \in [Desc -> Requests \cup {Null}]

\* The second and the third descriptor of a request.
Second(p) == desc[head[p]].next
Third(p) == desc[Second(p)].next

\* A request has three descriptors, which are not free and lead to its buffer.
Linked(p) ==
    /\ head[p] \in Desc /\ Second(p) \in Desc /\ Third(p) \in Desc
    /\ head[p] # Second(p) /\ head[p] # Third(p) /\ Second(p) # Third(p)
    /\ Chain(head[p]) \cap free = {}
    /\ info[head[p]] = buf[p] /\ desc[Second(p)].addr = buf[p]
    /\ ops[head[p]] \in {Null, [op |-> op[p], sector |-> want[p]]}

\* No two requests share a descriptor, and every descriptor that is not free
\* is of a request.
RequestInv ==
    /\ \A p \in Proc : head[p] # Null <=> pc[p] = "io"
    /\ \A p \in Active : Linked(p)
    /\ \A p, q \in Active : p # q => Chain(head[p]) \cap Chain(head[q]) = {}
    /\ \A d \in Desc \ free : \E p \in Active : d \in Chain(head[p])
    /\ 3 * Cardinality(Active) = Cardinality(Desc \ free)

\* The steps that neither start nor perform nor finish a request.
SameRequests ==
    /\ UNCHANGED <<head, num, free, desc, info, ops>> /\ Active' = Active
    /\ \A p \in Active : buf'[p] = buf[p] /\ op'[p] = op[p] /\ want'[p] = want[p]

\* The chain of a request is its three descriptors.
LEMMA ChainIs ==
    ASSUME NEW p
    PROVE  Chain(head[p]) = {head[p], Second(p), Third(p)}
  BY DEF Chain, Second, Third

\* Nor do the critical sections of the cache.
LEMMA SameOthers ==
    ASSUME CacheType, NEW p \in Proc,
           (\E k \in Block : bget(p, k)) \/ acquiresleep(p) \/ Change(p) \/ releasesleep(p) \/ brelse(p)
    PROVE  SameRequests
  <1>1. ASSUME pc[p] # "io", pc'[p] # "io", UNCHANGED <<head, num, free, desc, info, ops>>,
               \A q \in Proc : q # p => pc'[q] = pc[q] /\ buf'[q] = buf[q] /\ op'[q] = op[q] /\ want'[q] = want[q]
        PROVE  SameRequests
    BY <1>1 DEF SameRequests, Active
  <1>2. ASSUME NEW k \in Block, bget(p, k) PROVE SameRequests
    <2>1. /\ pc[p] # "io" /\ pc'[p] # "io" /\ UNCHANGED <<head, num, free, desc, info, ops>>
          /\ \A q \in Proc : q # p => pc'[q] = pc[q] /\ buf'[q] = buf[q] /\ op'[q] = op[q] /\ want'[q] = want[q]
      BY <1>2 DEF bget, disk, descriptors, CacheType
    <2> QED BY <1>1, <2>1
  <1>3. CASE acquiresleep(p)
    <2>1. /\ pc[p] # "io" /\ pc'[p] # "io" /\ UNCHANGED <<head, num, free, desc, info, ops>>
          /\ \A q \in Proc : q # p => pc'[q] = pc[q] /\ buf'[q] = buf[q] /\ op'[q] = op[q] /\ want'[q] = want[q]
      BY <1>3 DEF acquiresleep, At, disk, descriptors, CacheType
    <2> QED BY <1>1, <2>1
  <1>4. CASE Change(p)
    <2>1. /\ pc[p] # "io" /\ pc'[p] # "io" /\ UNCHANGED <<head, num, free, desc, info, ops>>
          /\ \A q \in Proc : q # p => pc'[q] = pc[q] /\ buf'[q] = buf[q] /\ op'[q] = op[q] /\ want'[q] = want[q]
      BY <1>4 DEF Change, descriptors, CacheType
    <2> QED BY <1>1, <2>1
  <1>5. CASE releasesleep(p) \/ brelse(p)
    <2>1. /\ pc[p] # "io" /\ pc'[p] # "io" /\ UNCHANGED <<head, num, free, desc, info, ops>>
          /\ \A q \in Proc : q # p => pc'[q] = pc[q] /\ buf'[q] = buf[q] /\ op'[q] = op[q] /\ want'[q] = want[q]
      BY <1>5 DEF releasesleep, brelse, disk, descriptors, CacheType
    <2> QED BY <1>1, <2>1
  <1> QED BY <1>2, <1>3, <1>4, <1>5

\* A step starts, performs or finishes a request, or none of these.
LEMMA RequestChanges ==
    ASSUME CacheType, [Next]_vars
    PROVE  \/ SameRequests
           \/ \E p \in Proc : Submit(p) \/ RwReturns(p)
           \/ \E i \in Desc : DeviceFinishes(i)
  <1>1. CASE UNCHANGED vars
    BY <1>1 DEF vars, threads, buffers, disk, descriptors, SameRequests, Active
  <1>2. CASE DeviceTakes \/ IntrStep
    BY <1>2 DEF DeviceTakes, IntrStep, Intr, virtio_disk_intr, IntrReap, IntrReturn, threads, buffers,
                descriptors, SameRequests, Active
  <1>3. ASSUME NEW p \in Proc, NoDescriptors(p) \/ StillBusy(p) \/ KillWakes(p) PROVE SameRequests
    BY <1>3 DEF NoDescriptors, StillBusy, KillWakes, buffers, descriptors, SameRequests, Active
  <1> QED BY <1>1, <1>2, <1>3, SameOthers DEF Next, Thread, Driver, Rw, DeviceStep, Device

\* Descriptors are numbered.
LEMMA DescIs ==
    ASSUME DiskType
    PROVE  /\ num \in Nat /\ num > 2 /\ Desc = 0 .. num - 1 /\ Null \notin Desc
           /\ IsFiniteSet(Desc) /\ Cardinality(Desc) = num
  <1>1. num \in Nat /\ num > 2
    BY SMT, RingAssumption DEF DiskType
  <1>2. Null \notin Desc
    BY <1>1, TableAssumption DEF Desc
  <1>3. IsFiniteSet(0 .. num - 1) /\ Cardinality(0 .. num - 1) = num
    BY <1>1, FS_Interval
  <1> QED BY <1>1, <1>2, <1>3 DEF Desc

\* Three elements more.
LEMMA ThreeMore ==
    ASSUME NEW S, IsFiniteSet(S), NEW i, NEW j, NEW k, i \notin S, j \notin S, k \notin S, i # j, i # k, j # k
    PROVE  Cardinality(S \cup {i, j, k}) = Cardinality(S) + 3 /\ Cardinality(S) \in Nat
  <1>1. Cardinality(S) \in Nat /\ IsFiniteSet(S \cup {i}) /\ Cardinality(S \cup {i}) = Cardinality(S) + 1
    BY FS_CardinalityType, FS_AddElement
  <1>2. /\ IsFiniteSet((S \cup {i}) \cup {j})
        /\ Cardinality((S \cup {i}) \cup {j}) = Cardinality(S \cup {i}) + 1
    BY <1>1, FS_AddElement
  <1>3. Cardinality(((S \cup {i}) \cup {j}) \cup {k}) = Cardinality((S \cup {i}) \cup {j}) + 1
    BY <1>2, FS_AddElement
  <1>4. ((S \cup {i}) \cup {j}) \cup {k} = S \cup {i, j, k}
    OBVIOUS
  <1> QED BY SMT, <1>1, <1>2, <1>3, <1>4

\* What a new request does to the descriptors.
Submitted(p, i, j, k) ==
    /\ i # j /\ i # k /\ j # k
    /\ free' = free \ {i, j, k}
    /\ ops' = [ops EXCEPT ![i] = [op |-> op[p], sector |-> want[p]]]
    /\ desc' = [desc EXCEPT ![i] = [addr |-> "op", next |-> j],
                            ![j] = [addr |-> buf[p], next |-> k],
                            ![k] = [addr |-> "status", next |-> Null]]
    /\ info' = [info EXCEPT ![i] = buf[p]]
    /\ avail' = [avail EXCEPT ![aidx % num] = i]
    /\ head' = [head EXCEPT ![p] = i]

\* It takes three descriptors that are free.
LEMMA SubmitIs ==
    ASSUME CacheType, HasInv, NEW p \in Proc, Submit(p)
    PROVE  \E i, j, k \in free : Submitted(p, i, j, k)
  <1>1. blockno[buf[p]] = want[p]
    BY HasBuffer DEF Submit, At
  <1>2. PICK i, j, k \in free :
             /\ alloc_desc(free, i) /\ alloc_desc(free \ {i}, j) /\ alloc_desc(free \ {i, j}, k)
             /\ free' = free \ {i, j, k}
             /\ ops' = [ops EXCEPT ![i] = [op |-> op[p], sector |-> blockno[buf[p]]]]
             /\ desc' = [desc EXCEPT ![i] = [addr |-> "op", next |-> j],
                                     ![j] = [addr |-> buf[p], next |-> k],
                                     ![k] = [addr |-> "status", next |-> Null]]
             /\ info' = [info EXCEPT ![i] = buf[p]]
             /\ avail' = [avail EXCEPT ![aidx % num] = i]
             /\ head' = [head EXCEPT ![p] = i]
    BY Zenon DEF Submit
  <1>3. i # j /\ i # k /\ j # k
    BY <1>2 DEF alloc_desc
  <1>4. Submitted(p, i, j, k)
    BY Zenon, <1>1, <1>2, <1>3 DEF Submitted
  <1> QED BY <1>4

\* The driver's variables keep their types.
LEMMA DiskTypeStep == CacheInv /\ DiskType /\ RequestInv /\ [Next]_vars => DiskType'
  <1> SUFFICES ASSUME CacheInv, DiskType, RequestInv, [Next]_vars PROVE DiskType'
    OBVIOUS
  <1>0. CacheType
    BY DEF CacheInv
  <1>1. CASE SameRequests
    BY <1>1 DEF SameRequests, DiskType, Desc
  <1>2. ASSUME NEW p \in Proc, Submit(p) PROVE DiskType'
    <2>1. PICK i, j, k \in free : Submitted(p, i, j, k)
      BY <1>2, SubmitIs DEF CacheInv
    <2>2. num' = num /\ Desc' = Desc
      BY <1>2 DEF Submit, Desc
    <2>3. i \in Desc /\ j \in Desc /\ k \in Desc /\ buf[p] \in Buf /\ want[p] \in Block /\ op[p] \in {"read", "write"}
      <3>1. pc[p] = "rw"
        BY <1>2 DEF Submit, At
      <3> QED BY <3>1, HasBuffer DEF DiskType, CacheInv, CacheType
    <2>4. ops' \in [Desc -> Requests \cup {Null}]
      BY <2>1, <2>3 DEF DiskType, Requests, Submitted
    <2>5. desc' \in [Desc -> [addr : {"op", "status", Null} \cup Buf, next : Desc \cup {Null}]]
      <3> DEFINE R == [addr : {"op", "status", Null} \cup Buf, next : Desc \cup {Null}]
      <3>1. /\ [addr |-> "op", next |-> j] \in R /\ [addr |-> buf[p], next |-> k] \in R
            /\ [addr |-> "status", next |-> Null] \in R
        BY <2>3
      <3>2. desc \in [Desc -> R]
        BY DEF DiskType
      <3> HIDE DEF R
      <3>3. desc' \in [Desc -> R]
        BY <2>1, <3>1, <3>2 DEF Submitted
      <3> QED BY <3>3 DEF R
    <2>6. info' \in [Desc -> Buf \cup {Null}] /\ head' \in [Proc -> Desc \cup {Null}] /\ free' \subseteq Desc
      BY <2>1, <2>3 DEF DiskType, Submitted
    <2> QED BY <2>2, <2>4, <2>5, <2>6 DEF DiskType
  <1>3. ASSUME NEW p \in Proc, RwReturns(p) PROVE DiskType'
    <2>1. /\ free' = free \cup Chain(head[p]) /\ info' = [info EXCEPT ![head[p]] = Null]
          /\ desc' = [i \in Desc |-> IF i \in Chain(head[p]) THEN NoDesc ELSE desc[i]]
          /\ head' = [head EXCEPT ![p] = Null] /\ num' = num /\ ops' = ops /\ p \in Active
      BY <1>3 DEF RwReturns, Finish, At, Active
    <2>2. Chain(head[p]) \subseteq Desc
      <3>1. Linked(p)
        BY <2>1 DEF RequestInv
      <3> QED BY <3>1, ChainIs DEF Linked
    <2>3. Desc' = Desc
      BY <2>1 DEF Desc
    <2>4. desc' \in [Desc -> [addr : {"op", "status", Null} \cup Buf, next : Desc \cup {Null}]]
      BY <2>1 DEF DiskType, NoDesc
    <2>5. info' \in [Desc -> Buf \cup {Null}] /\ head' \in [Proc -> Desc \cup {Null}] /\ free' \subseteq Desc
      BY <2>1, <2>2 DEF DiskType
    <2> QED BY <2>1, <2>3, <2>4, <2>5 DEF DiskType
  <1>4. ASSUME NEW i \in Desc, DeviceFinishes(i) PROVE DiskType'
    <2>1. ops' = [ops EXCEPT ![i] = Null] /\ UNCHANGED <<num, free, desc, info, head>>
      BY <1>4 DEF DeviceFinishes, threads
    <2> QED BY <2>1 DEF DiskType, Desc
  <1> QED BY <1>0, <1>1, <1>2, <1>3, <1>4, RequestChanges

\* A chain stays where none of its descriptors changes.
LEMMA ChainStays ==
    ASSUME NEW q \in Active, Linked(q), head'[q] = head[q], num' = num,
           \A d \in Chain(head[q]) : desc'[d] = desc[d]
    PROVE  /\ Second(q)' = Second(q) /\ Third(q)' = Third(q) /\ Chain(head[q])' = Chain(head[q])
  <1>1. desc'[head[q]] = desc[head[q]] /\ desc'[Second(q)] = desc[Second(q)]
    BY ChainIs
  <1>2. Second(q)' = Second(q)
    BY <1>1 DEF Second
  <1>3. Third(q)' = Third(q)
    BY <1>1, <1>2 DEF Third
  <1>4. Chain(head[q])' = {head[q], Second(q), Third(q)}
    BY <1>2, <1>3 DEF Chain, Second, Third
  <1> QED BY <1>2, <1>3, <1>4, ChainIs

\* No other chain is touched by a request that starts, or by one that is done.
LEMMA SubmitRequests ==
    ASSUME CacheInv, DiskType, RequestInv, NEW p \in Proc, Submit(p)
    PROVE  RequestInv'
  <1>1. PICK i, j, k \in free : Submitted(p, i, j, k)
    BY SubmitIs DEF CacheInv
  <1>2. /\ num' = num /\ Desc' = Desc /\ pc[p] = "rw" /\ pc' = [pc EXCEPT ![p] = "io"] /\ UNCHANGED <<buf, want, op>>
    BY DEF Submit, At, Desc
  <1>3. i \in Desc /\ j \in Desc /\ k \in Desc /\ i # j /\ i # k /\ j # k
    BY <1>1 DEF DiskType, Submitted
  <1>4. Active' = Active \cup {p} /\ p \notin Active
    BY <1>2 DEF Active, CacheInv, CacheType
  <1>5. /\ head'[p] = i /\ Second(p)' = j /\ Third(p)' = k /\ Chain(head[p])' = {i, j, k}
        /\ desc'[j].addr = buf[p] /\ info'[i] = buf[p] /\ ops'[i] = [op |-> op[p], sector |-> want[p]]
    <2>1. head'[p] = i /\ desc'[i].next = j /\ desc'[j] = [addr |-> buf[p], next |-> k]
      BY <1>1, <1>3 DEF Submitted, DiskType
    <2>2. info'[i] = buf[p] /\ ops'[i] = [op |-> op[p], sector |-> want[p]]
      BY <1>1, <1>3 DEF Submitted, DiskType
    <2> QED BY <2>1, <2>2 DEF Second, Third, Chain
  <1>6. ASSUME NEW q \in Active
        PROVE  /\ Linked(q)' /\ Chain(head[q])' = Chain(head[q]) /\ head'[q] = head[q]
               /\ Chain(head[q]) \cap {i, j, k} = {} /\ Chain(head[q]) \subseteq Desc /\ ops'[head[q]] = ops[head[q]]
    <2>1. Linked(q) /\ q # p /\ q \in Proc
      BY <1>4 DEF RequestInv, Active
    <2>2. Chain(head[q]) \cap {i, j, k} = {} /\ Chain(head[q]) \subseteq Desc /\ head[q] \in Chain(head[q])
      BY <2>1, ChainIs DEF Linked
    <2>3. \A d \in Desc : d \notin {i, j, k} => desc'[d] = desc[d] /\ info'[d] = info[d] /\ ops'[d] = ops[d]
      BY <1>1 DEF Submitted, DiskType
    <2>4. head'[q] = head[q]
      BY <1>1, <2>1 DEF Submitted, DiskType
    <2>5. Second(q)' = Second(q) /\ Third(q)' = Third(q) /\ Chain(head[q])' = Chain(head[q])
      BY <1>2, <2>1, <2>2, <2>3, <2>4, ChainStays
    <2>6. free' \subseteq free
      BY <1>1 DEF Submitted
    <2>7. /\ info'[head[q]] = info[head[q]] /\ ops'[head[q]] = ops[head[q]] /\ desc'[Second(q)] = desc[Second(q)]
      BY <2>2, <2>3, ChainIs
    <2>8. Linked(q)'
      BY <1>2, <2>1, <2>4, <2>5, <2>6, <2>7 DEF Linked
    <2> QED BY <2>2, <2>4, <2>5, <2>7, <2>8
  <1>7. Linked(p)'
    <2>1. Chain(head[p])' \cap free' = {}
      BY <1>1, <1>5 DEF Submitted
    <2>2. /\ info'[head'[p]] = buf'[p] /\ desc'[Second(p)'].addr = buf'[p]
          /\ ops'[head'[p]] = [op |-> op'[p], sector |-> want'[p]]
      BY <1>2, <1>5
    <2> QED BY <1>2, <1>3, <1>5, <2>1, <2>2 DEF Linked
  <1>8. \A q \in Proc : head'[q] # Null <=> pc'[q] = "io"
    <2>1. \A q \in Proc : head'[q] = IF q = p THEN i ELSE head[q]
      BY <1>1 DEF Submitted, DiskType
    <2>2. \A q \in Proc : pc'[q] = IF q = p THEN "io" ELSE pc[q]
      BY <1>2 DEF CacheInv, CacheType
    <2>3. i # Null
      BY <1>3, DescIs
    <2> QED BY <2>1, <2>2, <2>3 DEF RequestInv
  <1>9. \A q, r \in Active' : q # r => Chain(head[q])' \cap Chain(head[r])' = {}
    <2> SUFFICES ASSUME NEW q \in Active', NEW r \in Active', q # r
                 PROVE  Chain(head[q])' \cap Chain(head[r])' = {}
      OBVIOUS
    <2>1. CASE q = p
      BY SMT, <1>4, <1>5, <1>6, <2>1
    <2>2. CASE r = p
      BY <1>4, <1>5, <1>6, <2>2
    <2>3. CASE q # p /\ r # p
      <3>1. q \in Active /\ r \in Active
        BY <1>4, <2>3
      <3>2. Chain(head[q]) \cap Chain(head[r]) = {}
        BY <3>1 DEF RequestInv
      <3> QED BY <1>6, <3>1, <3>2
    <2> QED BY <2>1, <2>2, <2>3
  <1>10. Desc \ free' = (Desc \ free) \cup {i, j, k}
    BY <1>1, <1>3 DEF Submitted
  <1>11. \A d \in Desc' \ free' : \E q \in Active' : d \in Chain(head[q])'
    <2> SUFFICES ASSUME NEW d \in Desc' \ free' PROVE \E q \in Active' : d \in Chain(head[q])'
      OBVIOUS
    <2>1. d \in {i, j, k} \/ d \in Desc \ free
      BY <1>2, <1>10
    <2>2. CASE d \in {i, j, k}
      BY <1>4, <1>5, <2>2
    <2>3. CASE d \in Desc \ free
      <3>1. PICK q \in Active : d \in Chain(head[q])
        BY <2>3 DEF RequestInv
      <3> QED BY SMT, <1>4, <1>6, <3>1
    <2> QED BY <2>1, <2>2, <2>3
  <1>12. 3 * Cardinality(Active') = Cardinality(Desc' \ free')
    <2>1. Cardinality(Active \cup {p}) = Cardinality(Active) + 1 /\ Cardinality(Active) \in Nat
      BY <1>4, UserJoins DEF Active
    <2>2. IsFiniteSet(Desc \ free)
      BY DescIs, FS_Subset
    <2>3. Cardinality((Desc \ free) \cup {i, j, k}) = Cardinality(Desc \ free) + 3
      BY <1>1, <1>3, <2>2, ThreeMore
    <2>4. 3 * Cardinality(Active) = Cardinality(Desc \ free)
      BY DEF RequestInv
    <2>5. Cardinality(Active') = Cardinality(Active) + 1 /\ Cardinality(Desc' \ free') = Cardinality(Desc \ free) + 3
      BY Zenon, <1>2, <1>4, <1>10, <2>1, <2>3
    <2> QED BY SMT, <2>1, <2>4, <2>5
  <1> QED BY <1>4, <1>6, <1>7, <1>8, <1>9, <1>11, <1>12 DEF RequestInv

\* free_chain() frees the chain of its request and no other.
LEMMA FinishRequests ==
    ASSUME CacheInv, DiskType, RequestInv, NEW p \in Proc, RwReturns(p)
    PROVE  RequestInv'
  <1> DEFINE c == Chain(head[p])
  <1>1. /\ free' = free \cup c /\ info' = [info EXCEPT ![head[p]] = Null]
        /\ desc' = [i \in Desc |-> IF i \in c THEN NoDesc ELSE desc[i]]
        /\ head' = [head EXCEPT ![p] = Null] /\ num' = num /\ ops' = ops
        /\ pc[p] = "io" /\ pc' = [pc EXCEPT ![p] = "have"] /\ UNCHANGED <<buf, want, op>>
    BY DEF RwReturns, Finish, At
  <1>2. p \in Active /\ Active' = Active \ {p} /\ Desc' = Desc
    BY <1>1 DEF Active, CacheInv, CacheType, Desc
  <1>3. Linked(p) /\ c = {head[p], Second(p), Third(p)} /\ c \subseteq Desc /\ c \cap free = {}
    <2>1. Linked(p)
      BY <1>2 DEF RequestInv
    <2> QED BY <2>1, ChainIs DEF Linked
  <1> HIDE DEF c
  <1>4. ASSUME NEW q \in Active, q # p
        PROVE  Linked(q)' /\ Chain(head[q])' = Chain(head[q]) /\ Chain(head[q]) \cap c = {}
    <2>1. Linked(q) /\ q \in Proc /\ Chain(head[q]) \cap c = {}
      BY <1>2, <1>4 DEF RequestInv, Active, c
    <2>2. Chain(head[q]) \subseteq Desc /\ head[q] \in Chain(head[q]) /\ Second(q) \in Chain(head[q])
      BY <2>1, ChainIs DEF Linked
    <2>3. head'[q] = head[q] /\ \A d \in Chain(head[q]) : desc'[d] = desc[d]
      BY <1>1, <1>4, <2>1, <2>2 DEF DiskType
    <2>4. Second(q)' = Second(q) /\ Third(q)' = Third(q) /\ Chain(head[q])' = Chain(head[q])
      BY <1>1, <2>1, <2>3, ChainStays
    <2>5. Chain(head[q]) \cap free' = {}
      BY <1>1, <2>1 DEF Linked
    <2>6. info'[head[q]] = info[head[q]] /\ desc'[Second(q)] = desc[Second(q)]
      <3>1. head[q] # head[p]
        BY <1>3, <2>1, <2>2
      <3> QED BY <1>1, <2>1, <2>2, <2>3, <3>1 DEF Linked, DiskType
    <2>7. Linked(q)'
      <3>1. buf' = buf /\ op' = op /\ want' = want /\ ops' = ops
        BY <1>1
      <3> QED BY <1>2, <2>1, <2>3, <2>4, <2>5, <2>6, <3>1 DEF Linked
    <2> QED BY <2>1, <2>4, <2>7
  <1>5. \A q \in Proc : head'[q] # Null <=> pc'[q] = "io"
    BY <1>1 DEF DiskType, CacheInv, CacheType, RequestInv
  <1>6. \A q, r \in Active' : q # r => Chain(head[q])' \cap Chain(head[r])' = {}
    BY <1>2, <1>4 DEF RequestInv
  <1>7. Desc \ free = (Desc \ free') \cup c
    BY <1>1, <1>3
  <1>8. \A d \in Desc' \ free' : \E q \in Active' : d \in Chain(head[q])'
    <2> SUFFICES ASSUME NEW d \in Desc' \ free' PROVE \E q \in Active' : d \in Chain(head[q])'
      OBVIOUS
    <2>1. d \in Desc \ free /\ d \notin c
      BY <1>1, <1>2
    <2>2. PICK q \in Active : d \in Chain(head[q])
      BY <2>1 DEF RequestInv
    <2>3. q # p
      BY <2>1, <2>2 DEF c
    <2> QED BY <1>2, <1>4, <2>2, <2>3
  <1>9. 3 * Cardinality(Active') = Cardinality(Desc' \ free')
    <2>1. Cardinality(Active \ {p}) = Cardinality(Active) - 1 /\ Cardinality(Active) \in Nat
      BY <1>2, UserJoins DEF Active
    <2>2. IsFiniteSet(Desc \ free')
      BY DescIs, FS_Subset
    <2>3. /\ Cardinality((Desc \ free') \cup {head[p], Second(p), Third(p)}) = Cardinality(Desc \ free') + 3
          /\ Cardinality(Desc \ free') \in Nat
      <3>1. /\ head[p] \notin Desc \ free' /\ Second(p) \notin Desc \ free' /\ Third(p) \notin Desc \ free'
            /\ head[p] # Second(p) /\ head[p] # Third(p) /\ Second(p) # Third(p)
        BY <1>1, <1>3 DEF Linked
      <3> QED BY <2>2, <3>1, ThreeMore
    <2>4. 3 * Cardinality(Active) = Cardinality(Desc \ free)
      BY DEF RequestInv
    <2>5. Cardinality(Active') = Cardinality(Active) - 1 /\ Cardinality(Desc \ free) = Cardinality(Desc' \ free') + 3
      BY Zenon, <1>2, <1>3, <1>7, <2>1, <2>3
    <2>6. Cardinality(Desc' \ free') \in Nat
      BY Zenon, <1>2, <2>3
    <2> QED BY SMT, <2>1, <2>4, <2>5, <2>6
  <1> QED BY <1>2, <1>4, <1>5, <1>6, <1>8, <1>9 DEF RequestInv

\* Every step keeps the requests apart.
LEMMA RequestStep == CacheInv /\ DiskType /\ RequestInv /\ [Next]_vars => RequestInv'
  <1> SUFFICES ASSUME CacheInv, DiskType, RequestInv, [Next]_vars PROVE RequestInv'
    OBVIOUS
  <1>0. CacheType
    BY DEF CacheInv
  <1>1. CASE SameRequests
    <2>1. /\ UNCHANGED <<head, num, free, desc, info, ops>> /\ Active' = Active
          /\ \A p \in Active : buf'[p] = buf[p] /\ op'[p] = op[p] /\ want'[p] = want[p]
      BY <1>1 DEF SameRequests
    <2>2. Desc' = Desc /\ \A p \in Proc : /\ Chain(head[p])' = Chain(head[p])
                                          /\ Second(p)' = Second(p) /\ Third(p)' = Third(p)
      BY <2>1 DEF Chain, Second, Third, Desc
    <2>3. ASSUME NEW p \in Active PROVE Linked(p)'
      <3>1. Linked(p) /\ p \in Proc
        BY DEF RequestInv, Active
      <3> QED BY <2>1, <2>2, <3>1 DEF Linked
    <2>4. \A p \in Proc : pc'[p] = "io" <=> pc[p] = "io"
      BY <2>1 DEF Active
    <2>5. \A p \in Active : p \in Proc
      BY DEF Active
    <2>6. ASSUME NEW p \in Active', NEW q \in Active', p # q PROVE Chain(head[p])' \cap Chain(head[q])' = {}
      <3>1. p \in Active /\ q \in Active /\ p \in Proc /\ q \in Proc
        BY <2>1, <2>5
      <3>2. Chain(head[p]) \cap Chain(head[q]) = {}
        BY <2>6, <3>1 DEF RequestInv
      <3> QED BY <2>2, <3>1, <3>2
    <2>7. ASSUME NEW d \in Desc' \ free' PROVE \E p \in Active' : d \in Chain(head[p])'
      <3>1. d \in Desc \ free
        BY <2>1, <2>2
      <3>2. PICK p \in Active : d \in Chain(head[p])
        BY <3>1 DEF RequestInv
      <3> QED BY <2>1, <2>2, <2>5, <3>2
    <2>8. 3 * Cardinality(Active') = Cardinality(Desc' \ free')
      BY Zenon, <2>1, <2>2 DEF RequestInv
    <2>9. \A p \in Proc : head'[p] # Null <=> pc'[p] = "io"
      BY Zenon, <2>1, <2>4 DEF RequestInv
    <2>10. \A p \in Active' : Linked(p)'
      BY Zenon, <2>1, <2>3
    <2> QED BY Zenon, <2>6, <2>7, <2>8, <2>9, <2>10 DEF RequestInv
  <1>2. ASSUME NEW i \in Desc, DeviceFinishes(i) PROVE RequestInv'
    <2>1. ops' = [ops EXCEPT ![i] = Null] /\ UNCHANGED <<num, free, desc, info, head, pc, buf, want, op>>
      BY <1>2 DEF DeviceFinishes, threads
    <2>2. Active' = Active /\ Desc' = Desc /\ \A p \in Proc : Chain(head[p])' = Chain(head[p])
      BY <2>1 DEF Active, Desc, Chain
    <2>3. ASSUME NEW p \in Active PROVE Linked(p)'
      <3>1. Linked(p)
        BY DEF RequestInv
      <3>2. ops'[head[p]] \in {Null, ops[head[p]]}
        BY <2>1, <3>1 DEF Linked, DiskType
      <3>3. Second(p)' = Second(p) /\ Third(p)' = Third(p)
        BY <2>1 DEF Second, Third
      <3> QED BY <2>1, <2>2, <3>1, <3>2, <3>3 DEF Linked, Active
    <2>4. \A p \in Active : p \in Proc
      BY DEF Active
    <2>5. \A p \in Proc : head'[p] # Null <=> pc'[p] = "io"
      BY <2>1 DEF RequestInv
    <2>6. \A p, q \in Active' : p # q => Chain(head[p])' \cap Chain(head[q])' = {}
      BY <2>2, <2>4 DEF RequestInv
    <2>7. \A d \in Desc' \ free' : \E p \in Active' : d \in Chain(head[p])'
      BY SMT, <2>1, <2>2, <2>4 DEF RequestInv
    <2>8. 3 * Cardinality(Active') = Cardinality(Desc' \ free')
      BY <2>1, <2>2 DEF RequestInv
    <2> QED BY <2>2, <2>3, <2>5, <2>6, <2>7, <2>8 DEF RequestInv
  <1> QED BY <1>0, <1>1, <1>2, SubmitRequests, FinishRequests, RequestChanges

-----------------------------------------------------------------------------
(* The theorems.                                                           *)

CacheDiskInv == CacheInv /\ DiskType /\ RequestInv

\* No one uses a buffer or a descriptor at the start.
LEMMA InitCacheDisk == Init => CacheDiskInv
  <1> SUFFICES ASSUME Init PROVE CacheDiskInv
    OBVIOUS
  <1>1. /\ pc = [p \in Proc |-> "idle"] /\ op = [p \in Proc |-> "read"]
        /\ want = [p \in Proc |-> Null] /\ buf = want /\ head = want /\ pins = {} /\ valid = {}
        /\ blockno = [b \in Buf |-> Null] /\ refcnt = [b \in Buf |-> 0] /\ lock = blockno
        /\ lru \in [Places -> Buf]
    BY DEF Init, binit
  <1>2. /\ num \in Nums /\ free = Desc /\ desc = [i \in Desc |-> NoDesc] /\ info = [i \in Desc |-> Null]
        /\ ops = info
    BY DEF Init, DiskInit
  <1>3. Null \notin Buf /\ Null \notin Proc /\ Null \notin Block
    BY TableAssumption
  <1>4. CacheType /\ HasInv /\ LockInv
    BY SMT, <1>1, <1>3 DEF CacheType, HasInv, LockInv, Labels, Holding
  <1>5. RefInv
    <2>1. ASSUME NEW b \in Buf PROVE refcnt[b] = Cardinality(Users(b)) + Pinned(b)
      <3>1. Users(b) = {} /\ Pinned(b) = 0 /\ refcnt[b] = 0
        BY <1>1, <1>3 DEF Users, Pinned
      <3>2. Cardinality({}) = 0
        BY FS_EmptySet
      <3>3. Cardinality(Users(b)) = 0
        BY Zenon, <3>1, <3>2
      <3> QED BY <3>1, <3>3
    <2> QED BY <1>1, <2>1 DEF RefInv
  <1>6. DiskType
    BY <1>1, <1>2 DEF DiskType, NoDesc
  <1>7. Active = {}
    BY <1>1 DEF Active
  <1>8. RequestInv
    <2>1. Desc \ free = {}
      BY <1>2
    <2>2. Cardinality({}) = 0
      BY FS_EmptySet
    <2>3. Cardinality(Active) = 0 /\ Cardinality(Desc \ free) = 0
      BY Zenon, <1>7, <2>1, <2>2
    <2>4. 3 * Cardinality(Active) = Cardinality(Desc \ free)
      BY <2>3
    <2> QED BY <1>1, <1>7, <2>1, <2>4 DEF RequestInv
  <1> QED BY <1>4, <1>5, <1>6, <1>8 DEF CacheDiskInv, CacheInv

\* References, locks and requests are as the invariants say in every
\* reachable state.
THEOREM CacheDiskSafety == Spec => []CacheDiskInv
  <1>1. CacheDiskInv /\ [Next]_vars => CacheDiskInv'
    <2> SUFFICES ASSUME CacheDiskInv, [Next]_vars PROVE CacheDiskInv'
      OBVIOUS
    <2>1. CacheInv'
      BY CacheTypeStep, HasStep, LockStep, RefStep DEF CacheDiskInv, CacheInv
    <2>2. DiskType' /\ RequestInv'
      BY DiskTypeStep, RequestStep DEF CacheDiskInv
    <2> QED BY <2>1, <2>2 DEF CacheDiskInv
  <1> QED BY <1>1, InitCacheDisk, PTL DEF Spec

\* Every descriptor that is not free belongs to just one request in progress,
\* and every such request has three.
THEOREM DescriptorsSafety == Spec => []DescriptorsAccounted
  <1>1. CacheDiskInv => DescriptorsAccounted
    <2> SUFFICES ASSUME CacheDiskInv PROVE DescriptorsAccounted
      OBVIOUS
    <2>1. {p \in Proc : head[p] # Null} = Active
      BY DEF CacheDiskInv, RequestInv, Active
    <2>2. ASSUME NEW p \in Active PROVE Chain(head[p]) \subseteq Desc \ free
      <3>1. Linked(p)
        BY DEF CacheDiskInv, RequestInv
      <3>2. Chain(head[p]) = {head[p], Second(p), Third(p)}
        BY ChainIs
      <3> QED BY <3>1, <3>2 DEF Linked
    <2>3. UNION {Chain(head[p]) : p \in Active} = Desc \ free
      BY SMT, <2>2 DEF CacheDiskInv, RequestInv
    <2>4. 3 * Cardinality(Active) = Cardinality(Desc \ free)
      BY DEF CacheDiskInv, RequestInv
    <2> QED BY Zenon, <2>1, <2>3, <2>4 DEF DescriptorsAccounted
  <1> QED BY <1>1, CacheDiskSafety, PTL
-----------------------------------------------------------------------------
(* The rings: a queue of different entries, read at lo and written at hi.  *)

\* The entries number x to y - 1, counted without wrapping, are the members
\* of H, each once.
Holds(ring, n, x, y, H) ==
    /\ x <= y /\ y - x < n
    /\ \A i \in x .. y - 1 : ring[i % n] \in H
    /\ \A i, j \in x .. y - 1 : ring[i % n] = ring[j % n] => i = j
    /\ \A h \in H : \E i \in x .. y - 1 : ring[i % n] = h

Queue(ring, n, lo, hi, H) ==
    \E x, y \in Nat : /\ lo = x % (n * Laps) /\ hi = y % (n * Laps)
                      /\ Holds(ring, n, x, y, H)

\* A number is a multiple of P and its remainder.
LEMMA Quotient ==
    ASSUME NEW P \in Nat, P > 0, NEW a \in Nat
    PROVE  \E m \in Nat : a = P * m + (a % P) /\ (a % P) \in 0 .. P - 1
  <1>1. (a \div P) \in Nat /\ a = P * (a \div P) + (a % P) /\ (a % P) \in 0 .. P - 1
    OBVIOUS
  <1> QED BY <1>1

\* The remainder of a multiple of P and a rest.
LEMMA Remainder ==
    ASSUME NEW P \in Nat, P > 0, NEW m \in Nat, NEW r \in 0 .. P - 1
    PROVE  (P * m + r) % P = r
  OBVIOUS

\* Numbers less than P apart have different remainders.
LEMMA NearDiffer ==
    ASSUME NEW P \in Nat, P > 0, NEW a \in Nat, NEW b \in Nat, a < b, b < a + P
    PROVE  a % P # b % P
  <1> SUFFICES ASSUME a % P = b % P PROVE FALSE
    OBVIOUS
  <1>1. PICK r \in Nat : a = P * r + (a % P) /\ (a % P) \in 0 .. P - 1
    BY Quotient
  <1>2. PICK m \in Nat : b = P * m + (b % P) /\ (b % P) \in 0 .. P - 1
    BY Quotient
  <1>3. b - a = P * (m - r)
    BY <1>1, <1>2
  <1>4. m - r \in Int /\ P * (m - r) > 0 /\ P * (m - r) < P
    BY <1>3
  <1>5. m - r >= 1
    BY <1>4
  <1>6. P * (m - r) >= P
    BY <1>5
  <1> QED BY <1>4, <1>6

\* The remainder of a remainder.
LEMMA RemainderTwice ==
    ASSUME NEW n \in Nat, n > 0, NEW l \in Nat, l > 0, NEW a \in Nat
    PROVE  (a % (n * l)) % n = a % n /\ n * l \in Nat /\ n * l >= n
  <1> DEFINE U == n * l
  <1>1. U \in Nat /\ U >= n /\ U > 0
    OBVIOUS
  <1>2. PICK m \in Nat : a = U * m + (a % U) /\ (a % U) \in 0 .. U - 1
    BY <1>1, Quotient
  <1> DEFINE c == a % U
  <1>3. c \in Nat /\ a = U * m + c
    BY <1>2
  <1> HIDE DEF c
  <1>4. PICK r \in Nat : c = n * r + (c % n) /\ (c % n) \in 0 .. n - 1
    BY <1>3, Quotient
  <1> DEFINE e == c % n  t == l * m + r
  <1>5. e \in 0 .. n - 1 /\ c = n * r + e /\ t \in Nat
    BY <1>4
  <1>6. a = n * t + e
    <2>1. U * m = n * (l * m) /\ l * m \in Nat
      OBVIOUS
    <2>2. n * (l * m + r) = n * (l * m) + n * r
      BY <2>1
    <2> QED BY <1>3, <1>5, <2>1, <2>2
  <1> HIDE DEF t, e
  <1>7. a % n = e
    BY <1>5, <1>6, Remainder
  <1> QED BY <1>1, <1>7 DEF c, e

\* The next index is the wrapped next number.
LEMMA WrappedNext ==
    ASSUME NEW U \in Nat, U > 0, NEW a \in Nat
    PROVE  ((a % U) + 1) % U = (a + 1) % U
  <1>1. PICK m \in Nat : a = U * m + (a % U) /\ (a % U) \in 0 .. U - 1
    BY Quotient
  <1>r. \A t \in Nat, e \in 0 .. U - 1 : (U * t + e) % U = e
    BY Remainder
  <1>2. CASE (a % U) + 1 < U
    <2>1. (a % U) + 1 \in 0 .. U - 1 /\ a + 1 = U * m + ((a % U) + 1)
      BY <1>1, <1>2
    <2>2. (a + 1) % U = (a % U) + 1 /\ (U * 0 + ((a % U) + 1)) % U = (a % U) + 1
      BY <1>r, <2>1
    <2> QED BY <2>1, <2>2
  <1>3. CASE (a % U) + 1 = U
    <2>1. a + 1 = U * (m + 1) + 0 /\ (a % U) + 1 = U * 1 + 0
      BY <1>1, <1>3
    <2>2. m + 1 \in Nat /\ 1 \in Nat /\ 0 \in 0 .. U - 1
      OBVIOUS
    <2>3. (U * (m + 1) + 0) % U = 0 /\ (U * 1 + 0) % U = 0
      BY <1>r, <2>2
    <2> QED BY <2>1, <2>3
  <1> QED BY <1>1, <1>2, <1>3

\* A ring index, which wraps after Laps laps, points to its entry, and the
\* next index to the next one.
LEMMA Wrapped ==
    ASSUME NEW n \in Nat, n > 0, NEW a \in Nat
    PROVE  /\ n * Laps \in Nat /\ n * Laps >= n
           /\ (a % (n * Laps)) % n = a % n
           /\ ((a % (n * Laps)) + 1) % (n * Laps) = (a + 1) % (n * Laps)
  <1> DEFINE U == n * Laps
  <1>1. Laps \in Nat /\ Laps > 0
    BY RingAssumption
  <1>3. (a % U) % n = a % n /\ U \in Nat /\ U >= n
    BY Zenon, <1>1, RemainderTwice
  <1> HIDE DEF U
  <1>4. ((a % U) + 1) % U = (a + 1) % U
    <2>1. U > 0
      BY <1>3
    <2> QED BY Zenon, <1>3, <2>1, WrappedNext
  <1> QED BY <1>3, <1>4 DEF U

\* A queue of members of T is not longer than T.
LEMMA QueueRoom ==
    ASSUME NEW n \in Nat, n > 0, NEW ring, NEW x \in Nat, NEW y \in Nat, NEW H,
           Holds(ring, n, x, y, H), NEW T, H \subseteq T, IsFiniteSet(T)
    PROVE  y - x <= Cardinality(T)
  <1> DEFINE f == [i \in x .. y - 1 |-> ring[i % n]]
  <1>1. f \in Injection(x .. y - 1, T)
    BY DEF Holds, Injection, IsInjective
  <1>2. Cardinality(x .. y - 1) <= Cardinality(T)
    BY <1>1, FS_Injection
  <1>3. Cardinality(x .. y - 1) = IF x > y - 1 THEN 0 ELSE (y - 1) - x + 1
    BY SMT, FS_Interval
  <1>4. Cardinality(T) \in Nat
    BY FS_CardinalityType
  <1> QED BY SMT, <1>2, <1>3, <1>4 DEF Holds

\* An entry is written behind the last one, if the ring has room.
LEMMA QueueAppend ==
    ASSUME NEW n \in Nat, n > 0, NEW E, NEW ring \in [0 .. n - 1 -> E], NEW lo, NEW hi, NEW H,
           Queue(ring, n, lo, hi, H), NEW h, h \notin H,
           NEW T, H \cup {h} \subseteq T, IsFiniteSet(T), Cardinality(T) < n
    PROVE  Queue([ring EXCEPT ![hi % n] = h], n, lo, (hi + 1) % (n * Laps), H \cup {h})
  <1>1. PICK x, y \in Nat : /\ lo = x % (n * Laps) /\ hi = y % (n * Laps)
                            /\ Holds(ring, n, x, y, H)
    BY DEF Queue
  <1> DEFINE new == [ring EXCEPT ![y % n] = h]
  <1>2. /\ hi % n = y % n
        /\ (hi + 1) % (n * Laps) = (y + 1) % (n * Laps)
    <2>1. /\ n * Laps \in Nat /\ n * Laps >= n
          /\ (y % (n * Laps)) % n = y % n
          /\ ((y % (n * Laps)) + 1) % (n * Laps) = (y + 1) % (n * Laps)
      BY Wrapped
    <2> QED BY Zenon, <1>1, <2>1
  <1>3. Cardinality(T) = Cardinality(T \ {h}) + 1 /\ Cardinality(T \ {h}) \in Nat /\ IsFiniteSet(T \ {h})
    <2>1. h \in T /\ Cardinality(T) \in Nat
      BY FS_CardinalityType
    <2>2. IsFiniteSet(T \ {h}) /\ Cardinality(T \ {h}) = Cardinality(T) - 1
      BY <2>1, FS_RemoveElement
    <2>3. Cardinality(T \ {h}) \in Nat
      BY <2>2, FS_CardinalityType
    <2> QED BY <2>1, <2>2, <2>3
  <1>4. y - x <= Cardinality(T \ {h})
    BY <1>1, <1>3, QueueRoom
  <1>5. Cardinality(T) \in Nat /\ (y + 1) - x < n /\ x <= y
    BY SMT, <1>1, <1>3, <1>4 DEF Holds
  <1>6. y % n \in 0 .. n - 1 /\ \A i \in x .. y - 1 : i % n \in 0 .. n - 1
    BY SMT
  <1>7. \A i \in x .. y - 1 : i \in Nat /\ i % n # y % n
    <2> SUFFICES ASSUME NEW i \in x .. y - 1 PROVE i \in Nat /\ i % n # y % n
      OBVIOUS
    <2>1. i \in Nat /\ i < y /\ y < i + n
      BY <1>5
    <2> QED BY <2>1, NearDiffer
  <1>8. new[y % n] = h /\ \A i \in x .. y - 1 : new[i % n] = ring[i % n]
    BY <1>6, <1>7
  <1> HIDE DEF new
  <1>9. \A i \in x .. (y + 1) - 1 : i \in x .. y - 1 \/ i = y
    BY SMT
  <1>10. Holds(new, n, x, y + 1, H \cup {h})
    <2>1. \A i \in x .. (y + 1) - 1 : new[i % n] \in H \cup {h}
      BY <1>1, <1>8, <1>9 DEF Holds
    <2>2. \A i, j \in x .. (y + 1) - 1 : new[i % n] = new[j % n] => i = j
      BY <1>1, <1>8, <1>9 DEF Holds
    <2>3. \A g \in H \cup {h} : \E i \in x .. (y + 1) - 1 : new[i % n] = g
      <3> SUFFICES ASSUME NEW g \in H \cup {h} PROVE \E i \in x .. (y + 1) - 1 : new[i % n] = g
        OBVIOUS
      <3>1. CASE g = h
        <4>1. y \in x .. (y + 1) - 1
          BY <1>5
        <4> QED BY <1>8, <3>1, <4>1
      <3>2. CASE g \in H
        <4>1. PICK i \in x .. y - 1 : ring[i % n] = g
          BY <1>1, <3>2 DEF Holds
        <4>2. i \in x .. (y + 1) - 1
          BY SMT
        <4> QED BY <1>8, <4>1, <4>2
      <3> QED BY <3>1, <3>2
    <2>4. x <= y + 1 /\ (y + 1) - x < n
      BY <1>5
    <2> QED BY Zenon, <2>1, <2>2, <2>3, <2>4 DEF Holds
  <1>11. y + 1 \in Nat
    OBVIOUS
  <1> QED BY <1>1, <1>2, <1>10, <1>11 DEF Queue, new

\* The oldest entry is taken.
LEMMA QueueTake ==
    ASSUME NEW n \in Nat, n > 0, NEW E, NEW ring \in [0 .. n - 1 -> E], NEW lo, NEW hi, NEW H,
           Queue(ring, n, lo, hi, H), lo # hi, NEW e
    PROVE  /\ ring[lo % n] \in H
           /\ Queue([ring EXCEPT ![lo % n] = e], n, (lo + 1) % (n * Laps), hi, H \ {ring[lo % n]})
  <1>1. PICK x, y \in Nat : /\ lo = x % (n * Laps) /\ hi = y % (n * Laps)
                            /\ Holds(ring, n, x, y, H)
    BY DEF Queue
  <1> DEFINE new == [ring EXCEPT ![x % n] = e]
  <1>2. /\ lo % n = x % n
        /\ (lo + 1) % (n * Laps) = (x + 1) % (n * Laps)
    <2>1. /\ n * Laps \in Nat /\ n * Laps >= n
          /\ (x % (n * Laps)) % n = x % n
          /\ ((x % (n * Laps)) + 1) % (n * Laps) = (x + 1) % (n * Laps)
      BY Wrapped
    <2> QED BY Zenon, <1>1, <2>1
  <1>3. x < y /\ y - x < n
    BY SMT, <1>1 DEF Holds
  <1>4. x \in x .. y - 1 /\ \A i \in x + 1 .. y - 1 : i \in x .. y - 1 /\ i # x
    BY <1>3
  <1>5. ring[x % n] \in H
    BY <1>1, <1>4 DEF Holds
  <1>6. x % n \in 0 .. n - 1 /\ \A i \in x .. y - 1 : i % n \in 0 .. n - 1
    BY SMT
  <1>7. \A i \in x + 1 .. y - 1 : i % n # x % n
    <2> SUFFICES ASSUME NEW i \in x + 1 .. y - 1 PROVE i % n # x % n
      OBVIOUS
    <2>1. i \in Nat /\ x < i /\ i < x + n
      BY <1>3
    <2> QED BY <2>1, NearDiffer
  <1>8. \A i \in x + 1 .. y - 1 : new[i % n] = ring[i % n]
    BY <1>4, <1>6, <1>7
  <1> HIDE DEF new
  <1>9. Holds(new, n, x + 1, y, H \ {ring[x % n]})
    <2>1. \A i \in x + 1 .. y - 1 : new[i % n] \in H \ {ring[x % n]}
      BY <1>1, <1>4, <1>8 DEF Holds
    <2>2. \A i, j \in x + 1 .. y - 1 : new[i % n] = new[j % n] => i = j
      BY <1>1, <1>4, <1>8 DEF Holds
    <2>3. \A g \in H \ {ring[x % n]} : \E i \in x + 1 .. y - 1 : new[i % n] = g
      <3> SUFFICES ASSUME NEW g \in H \ {ring[x % n]} PROVE \E i \in x + 1 .. y - 1 : new[i % n] = g
        OBVIOUS
      <3>1. PICK i \in x .. y - 1 : ring[i % n] = g
        BY <1>1 DEF Holds
      <3>2. i \in x + 1 .. y - 1
        BY SMT, <3>1
      <3> QED BY <1>8, <3>1, <3>2
    <2>4. x + 1 <= y /\ y - (x + 1) < n
      BY <1>3
    <2> QED BY <2>1, <2>2, <2>3, <2>4 DEF Holds
  <1>10. x + 1 \in Nat
    OBVIOUS
  <1> QED BY <1>1, <1>2, <1>5, <1>9, <1>10 DEF Queue, new

\* A queue whose indices are equal is empty, and its members are entries.
LEMMA QueueMembers ==
    ASSUME NEW n \in Nat, n > 0, NEW ring, NEW lo, NEW hi, NEW H, Queue(ring, n, lo, hi, H)
    PROVE  /\ lo = hi => H = {}
           /\ \A h \in H : \E i \in 0 .. n - 1 : ring[i] = h
  <1>1. PICK x, y \in Nat : /\ lo = x % (n * Laps) /\ hi = y % (n * Laps)
                            /\ Holds(ring, n, x, y, H)
    BY DEF Queue
  <1>2. \A i \in x .. y - 1 : i % n \in 0 .. n - 1
    OBVIOUS
  <1>3. \A h \in H : \E i \in 0 .. n - 1 : ring[i] = h
    BY <1>1, <1>2 DEF Holds
  <1>4. ASSUME lo = hi PROVE H = {}
    <2>1. n * Laps \in Nat /\ n * Laps > 0 /\ n * Laps >= n /\ x <= y /\ y - x < n
      BY SMT, <1>1, Wrapped DEF Holds
    <2>2. ~(x < y)
      <3> SUFFICES ASSUME x < y PROVE FALSE
        OBVIOUS
      <3>1. y < x + n * Laps
        BY <2>1
      <3> QED BY <1>1, <1>4, <2>1, <3>1, NearDiffer
    <2>3. \A i \in x .. y - 1 : FALSE
      BY <2>1, <2>2
    <2> QED BY <1>1, <2>3 DEF Holds
  <1> QED BY <1>3, <1>4

-----------------------------------------------------------------------------
(* The rings, and the device.                                              *)

\* The requests that the device has not performed, and those that it has and
\* that no interrupt has reported.
Posted == {p \in Active : buf[p] \in busy /\ ops[head[p]] # Null}
Completed == {p \in Active : buf[p] \in busy /\ ops[head[p]] = Null}
Heads(S) == {head[p] : p \in S}

\* The avail ring holds the requests that the device has not taken, and the
\* used ring those that the driver has not seen completed.
RingInv ==
    /\ avail \in [Desc -> Desc \cup {Null}] /\ used \in [Desc -> Desc \cup {Null}]
    /\ work \subseteq Heads(Posted)
    /\ Queue(avail, num, seen, aidx, Heads(Posted) \ work)
    /\ Queue(used, num, used_idx, uidx, Heads(Completed))
    /\ \A p \in Active : buf[p] \notin busy => ops[head[p]] = Null

SameRings == UNCHANGED <<busy, rings, seen, work>>

\* The steps that use the rings.
LEMMA RingChanges ==
    ASSUME CacheType, [Next]_vars
    PROVE  \/ SameRequests /\ SameRings
           \/ \E p \in Proc : Submit(p) \/ (RwReturns(p) /\ SameRings)
           \/ DeviceTakes \/ IntrReap \/ \E i \in Desc : DeviceFinishes(i)
  <1>1. CASE UNCHANGED vars
    BY <1>1 DEF vars, threads, buffers, disk, descriptors, device, SameRequests, SameRings, Active
  <1>2. CASE virtio_disk_intr \/ IntrReturn
    BY <1>2 DEF virtio_disk_intr, IntrReturn, threads, buffers, descriptors, device, SameRequests, SameRings, Active
  <1>3. ASSUME NEW p \in Proc, Thread(p) PROVE (SameRequests /\ SameRings) \/ Submit(p) \/ (RwReturns(p) /\ SameRings)
    <2>1. CASE NoDescriptors(p) \/ StillBusy(p) \/ KillWakes(p)
      BY <2>1 DEF NoDescriptors, StillBusy, KillWakes, buffers, descriptors, device, SameRequests, SameRings, Active
    <2>2. CASE RwReturns(p)
      BY <2>2 DEF RwReturns, Finish, device, SameRings
    <2>3. CASE \E k \in Block : bget(p, k)
      BY <2>3, SameOthers DEF bget, disk, device, SameRings
    <2>4. CASE acquiresleep(p)
      BY <2>4, SameOthers DEF acquiresleep, disk, device, SameRings
    <2>5. CASE Change(p)
      BY <2>5, SameOthers DEF Change, SameRings
    <2>6. CASE releasesleep(p) \/ brelse(p)
      BY <2>6, SameOthers DEF releasesleep, brelse, disk, device, SameRings
    <2> QED BY <1>3, <2>1, <2>2, <2>3, <2>4, <2>5, <2>6 DEF Thread, Driver, Rw
  <1> QED BY <1>1, <1>2, <1>3 DEF Next, DeviceStep, Device, IntrStep, Intr

\* Two requests have different buffers and different chains.
LEMMA RequestsDiffer ==
    ASSUME CacheInv, RequestInv, NEW p \in Active, NEW q \in Active, p # q
    PROVE  /\ buf[p] # buf[q] /\ head[p] # head[q] /\ head[q] # Second(p)
  <1>1. pc[p] \in Holding /\ pc[q] \in Holding /\ p \in Proc /\ q \in Proc
    BY DEF Active, Holding
  <1>2. buf[p] # buf[q]
    BY <1>1 DEF CacheInv, LockInv
  <1>3. Chain(head[p]) \cap Chain(head[q]) = {}
    BY DEF RequestInv
  <1> QED BY <1>2, <1>3, ChainIs

\* A request that is performed is a request.
LEMMA HeadIs ==
    ASSUME DiskType, RequestInv, NEW p \in Active
    PROVE  p \in Proc /\ Linked(p) /\ head[p] \in Desc /\ Second(p) \in Desc /\ head[p] # Second(p) /\ head[p] \notin free
  <1>1. p \in Proc /\ Linked(p)
    BY DEF RequestInv, Active
  <1> QED BY <1>1, ChainIs DEF Linked

\* Desc without one is smaller than the rings.
LEMMA AllButOne ==
    ASSUME DiskType, NEW d \in Desc
    PROVE  IsFiniteSet(Desc \ {d}) /\ Cardinality(Desc \ {d}) < num
  <1>1. IsFiniteSet(Desc) /\ Cardinality(Desc) = num /\ num \in Nat
    BY DescIs
  <1>2. IsFiniteSet(Desc \ {d}) /\ Cardinality(Desc \ {d}) = num - 1
    BY <1>1, FS_RemoveElement
  <1> QED BY <1>1, <1>2

\* A new request leaves the others alone, and is not performed.
LEMMA SubmitKeeps ==
    ASSUME CacheInv, DiskType, RequestInv, NEW p \in Proc, Submit(p)
    PROVE  /\ p \notin Active /\ ops'[head'[p]] # Null
           /\ \A q \in Active : q # p /\ buf[q] # buf[p] /\ head'[q] = head[q] /\ ops'[head[q]] = ops[head[q]]
  <1>1. PICK i, j, k \in free : Submitted(p, i, j, k)
    BY SubmitIs DEF CacheInv
  <1>2. pc[p] = "rw" /\ i \in Desc
    BY <1>1 DEF Submit, At, DiskType
  <1>3. ASSUME NEW q \in Active
        PROVE  q # p /\ buf[q] # buf[p] /\ head'[q] = head[q] /\ ops'[head[q]] = ops[head[q]]
    <2>1. q # p /\ q \in Proc /\ head[q] \in Desc /\ head[q] \notin free
      BY <1>2, HeadIs DEF Active
    <2>2. buf[q] # buf[p]
      <3>1. lock[buf[q]] = q /\ lock[buf[p]] = p
        BY <1>2, <2>1 DEF CacheInv, LockInv, Holding, Active
      <3> QED BY <2>1, <3>1
    <2>3. head'[q] = head[q]
      BY <1>1, <2>1 DEF Submitted, DiskType
    <2>4. ops'[head[q]] = ops[head[q]]
      BY <1>1, <1>2, <2>1 DEF Submitted, DiskType
    <2> QED BY <2>1, <2>2, <2>3, <2>4
  <1>4. ops'[head'[p]] # Null
    <2>1. head'[p] = i /\ ops'[i] = [op |-> op[p], sector |-> want[p]]
      BY <1>1, <1>2 DEF Submitted, DiskType
    <2>2. [op |-> op[p], sector |-> want[p]] \in Requests
      BY <1>2, HasBuffer DEF CacheInv, CacheType, Requests
    <2> QED BY <2>1, <2>2, TableAssumption
  <1> QED BY <1>2, <1>3, <1>4 DEF Active

\* A new request is in the avail ring.
LEMMA SubmitRings ==
    ASSUME CacheInv, DiskType, RequestInv, RingInv, NEW p \in Proc, Submit(p)
    PROVE  RingInv'
  <1>1. PICK i, j, k \in free : Submitted(p, i, j, k)
    BY SubmitIs DEF CacheInv
  <1>2. /\ num' = num /\ Desc' = Desc /\ pc[p] = "rw" /\ pc' = [pc EXCEPT ![p] = "io"] /\ UNCHANGED <<buf, op, want>>
        /\ busy' = busy \cup {buf[p]} /\ aidx' = (aidx + 1) % (num * Laps)
        /\ UNCHANGED <<used, uidx, used_idx, seen, work>>
    BY DEF Submit, At, Desc, Inc, device
  <1>3. i \in Desc /\ j \in Desc /\ i # j /\ i \in free /\ j \in free
    BY <1>1 DEF DiskType, Submitted
  <1>4. Active' = Active \cup {p} /\ p \notin Active
    BY <1>2 DEF Active, CacheInv, CacheType
  <1>5. ASSUME NEW q \in Active
        PROVE  /\ q # p /\ buf[q] # buf[p] /\ head'[q] = head[q] /\ ops'[head[q]] = ops[head[q]]
               /\ head[q] # i /\ head[q] # j /\ head[q] \in Desc
    BY <1>3, HeadIs, SubmitKeeps
  <1>6. head'[p] = i /\ ops'[i] # Null
    <2>1. head'[p] = i
      BY <1>1 DEF Submitted, DiskType
    <2> QED BY <2>1, SubmitKeeps
  <1>7. Posted' = Posted \cup {p} /\ Completed' = Completed
    BY SMT, <1>2, <1>4, <1>5, <1>6 DEF Posted, Completed
  <1>8. Posted \subseteq Active /\ Completed \subseteq Active
    BY DEF Posted, Completed
  <1>9. Heads(Posted)' = Heads(Posted) \cup {i} /\ Heads(Completed)' = Heads(Completed)
    BY SMT, <1>5, <1>6, <1>7, <1>8 DEF Heads
  <1>10. i \notin Heads(Posted) /\ Heads(Posted) \subseteq Desc \ {j} /\ i \notin work
    BY SMT, <1>5, <1>8 DEF Heads, RingInv
  <1>11. avail' = [avail EXCEPT ![aidx % num] = i]
    BY <1>1 DEF Submitted
  <1>12. Queue(avail', num, seen, (aidx + 1) % (num * Laps), (Heads(Posted) \ work) \cup {i})
    <2>1. num \in Nat /\ num > 0 /\ avail \in [0 .. num - 1 -> Desc \cup {Null}]
      BY SMT, DescIs DEF RingInv
    <2>2. /\ IsFiniteSet(Desc \ {j}) /\ Cardinality(Desc \ {j}) < num
          /\ (Heads(Posted) \ work) \cup {i} \subseteq Desc \ {j} /\ i \notin Heads(Posted) \ work
      BY <1>3, <1>10, AllButOne
    <2>3. Queue(avail, num, seen, aidx, Heads(Posted) \ work)
      BY DEF RingInv
    <2> HIDE DEF Desc
    <2> QED BY Zenon, <1>11, <2>1, <2>2, <2>3, QueueAppend
  <1>13. Queue(avail, num, seen, aidx, Heads(Posted) \ work)'
    <2>1. (Heads(Posted) \cup {i}) \ work = (Heads(Posted) \ work) \cup {i}
      BY <1>10
    <2>2. seen' = seen /\ num' = num /\ aidx' = (aidx + 1) % (num * Laps)
          /\ Heads(Posted)' \ work' = (Heads(Posted) \ work) \cup {i}
      BY <1>2, <1>9, <2>1
    <2> QED BY <1>12, <2>2 DEF Queue
  <1>14. Queue(used, num, used_idx, uidx, Heads(Completed))'
    BY <1>2, <1>9 DEF RingInv, Queue
  <1>15. avail' \in [Desc' -> Desc' \cup {Null}] /\ used' \in [Desc' -> Desc' \cup {Null}] /\ work' \subseteq Heads(Posted)'
    BY <1>2, <1>3, <1>9, <1>11 DEF RingInv
  <1>16. \A q \in Active' : buf'[q] \notin busy' => ops'[head'[q]] = Null
    BY <1>2, <1>4, <1>5 DEF RingInv
  <1> QED BY <1>13, <1>14, <1>15, <1>16 DEF RingInv

\* Nothing about the requests changes.
LEMMA SameSets ==
    ASSUME SameRequests, busy' = busy
    PROVE  /\ Active' = Active /\ Posted' = Posted /\ Completed' = Completed
           /\ num' = num /\ Desc' = Desc
  <1>1. /\ UNCHANGED <<head, num, ops>> /\ Active' = Active /\ \A p \in Active : buf'[p] = buf[p]
    BY DEF SameRequests
  <1>2. Posted' = Posted
    BY <1>1 DEF Posted
  <1>3. Completed' = Completed
    BY <1>1 DEF Completed
  <1> QED BY <1>1, <1>2, <1>3 DEF Heads, Desc

\* The device takes a request from the avail ring.
LEMMA TakeRings ==
    ASSUME CacheInv, DiskType, RequestInv, RingInv, DeviceTakes
    PROVE  RingInv'
  <1> DEFINE e == avail[seen % num]
             H == Heads(Posted) \ work
  <1>1. /\ seen # aidx /\ work' = work \cup {e} /\ seen' = (seen + 1) % (num * Laps)
        /\ avail' = [avail EXCEPT ![seen % num] = Null]
        /\ UNCHANGED <<threads, buffers, descriptors, aidx, used, uidx, used_idx>>
    BY DEF DeviceTakes, Inc
  <1>2. /\ UNCHANGED <<pc, buf, op, want, head, num, free, desc, info, ops, busy>>
    BY <1>1 DEF threads, buffers, descriptors
  <1>3. Active' = Active /\ Desc' = Desc
    BY <1>2 DEF Active, Desc
  <1>4. Heads(Posted)' = Heads(Posted) /\ Heads(Completed)' = Heads(Completed)
    BY <1>2, <1>3 DEF Posted, Completed, Heads
  <1>5. num \in Nat /\ num > 0 /\ avail \in [0 .. num - 1 -> Desc \cup {Null}] /\ Queue(avail, num, seen, aidx, H)
    BY SMT, DescIs DEF RingInv
  <1> HIDE DEF H
  <1>6. e \in H /\ Queue(avail', num, (seen + 1) % (num * Laps), aidx, H \ {e})
    BY Zenon, <1>1, <1>5, QueueTake
  <1>7. Heads(Posted)' \ work' = H \ {e} /\ e \in Heads(Posted)
    BY <1>1, <1>4, <1>6 DEF H
  <1> HIDE DEF e
  <1>8. Queue(avail, num, seen, aidx, Heads(Posted) \ work)'
    BY <1>1, <1>2, <1>6, <1>7 DEF Queue
  <1>9. Queue(used, num, used_idx, uidx, Heads(Completed))'
    BY <1>1, <1>2, <1>4 DEF RingInv, Queue
  <1>10. avail' \in [Desc' -> Desc' \cup {Null}] /\ used' \in [Desc' -> Desc' \cup {Null}] /\ work' \subseteq Heads(Posted)'
    BY <1>1, <1>3, <1>4, <1>7 DEF RingInv
  <1>11. \A q \in Active' : buf'[q] \notin busy' => ops'[head'[q]] = Null
    BY <1>2, <1>3 DEF RingInv
  <1> QED BY <1>8, <1>9, <1>10, <1>11 DEF RingInv

\* The device performs a request that it has taken.
LEMMA Performs ==
    ASSUME RingInv, NEW i \in Desc, DeviceFinishes(i)
    PROVE  \E p \in Posted : head[p] = i
  BY DEF DeviceFinishes, RingInv, Heads

\* It moves to the used ring.
LEMMA PerformRings ==
    ASSUME CacheInv, DiskType, RequestInv, RingInv, NEW i \in Desc, DeviceFinishes(i)
    PROVE  RingInv'
  <1>1. PICK p \in Posted : head[p] = i
    BY Performs
  <1>2. /\ i \in work /\ ops' = [ops EXCEPT ![i] = Null] /\ used' = [used EXCEPT ![uidx % num] = i]
        /\ uidx' = (uidx + 1) % (num * Laps) /\ work' = work \ {i}
        /\ UNCHANGED <<pc, buf, op, want, head, num, free, desc, info, busy, avail, aidx, used_idx, seen>>
    BY DEF DeviceFinishes, Inc, threads
  <1>3. Active' = Active /\ Desc' = Desc /\ p \in Active /\ buf[p] \in busy
    BY <1>1, <1>2 DEF Active, Desc, Posted
  <1>4. \A q \in Active : head[q] \in Desc /\ (q # p => head[q] # i /\ head[q] # Second(p))
    BY <1>1, <1>3, RequestsDiffer, HeadIs
  <1>5. \A q \in Active : ops'[head[q]] = IF q = p THEN Null ELSE ops[head[q]]
    BY <1>1, <1>2, <1>4 DEF DiskType
  <1>6. Posted' = Posted \ {p} /\ Completed' = Completed \cup {p}
    BY <1>2, <1>3, <1>5 DEF Posted, Completed
  <1>7. Posted \subseteq Active /\ Completed \subseteq Active /\ p \notin Completed
    BY <1>1 DEF Posted, Completed
  <1>8. Heads(Posted)' = Heads(Posted) \ {i} /\ Heads(Completed)' = Heads(Completed) \cup {i}
    BY <1>1, <1>2, <1>4, <1>6, <1>7 DEF Heads
  <1>9. Heads(Posted)' \ work' = Heads(Posted) \ work /\ work' \subseteq Heads(Posted)'
    BY <1>2, <1>8 DEF RingInv
  <1>10. Queue(avail, num, seen, aidx, Heads(Posted) \ work)'
    BY <1>2, <1>9 DEF RingInv, Queue
  <1>11. Queue(used', num, used_idx, (uidx + 1) % (num * Laps), Heads(Completed) \cup {i})
    <2>1. num \in Nat /\ num > 0 /\ used \in [0 .. num - 1 -> Desc \cup {Null}]
      BY SMT, DescIs DEF RingInv
    <2>2. Second(p) \in Desc /\ i # Second(p)
      BY <1>1, <1>3, HeadIs
    <2>3. /\ i \notin Heads(Completed) /\ Heads(Completed) \cup {i} \subseteq Desc \ {Second(p)}
      BY <1>4, <1>7, <2>2 DEF Heads
    <2>4. IsFiniteSet(Desc \ {Second(p)}) /\ Cardinality(Desc \ {Second(p)}) < num
      BY <2>2, AllButOne
    <2>5. Queue(used, num, used_idx, uidx, Heads(Completed))
      BY DEF RingInv
    <2> QED BY Zenon, <1>2, <2>1, <2>3, <2>4, <2>5, QueueAppend
  <1>12. Queue(used, num, used_idx, uidx, Heads(Completed))'
    BY <1>2, <1>8, <1>11 DEF Queue
  <1>13. avail' \in [Desc' -> Desc' \cup {Null}] /\ used' \in [Desc' -> Desc' \cup {Null}]
    BY <1>2, <1>3 DEF RingInv
  <1>14. \A q \in Active' : buf'[q] \notin busy' => ops'[head'[q]] = Null
    BY <1>2, <1>3, <1>5 DEF RingInv
  <1> QED BY <1>9, <1>10, <1>12, <1>13, <1>14 DEF RingInv

\* The request that an interrupt reports next.
LEMMA Reports ==
    ASSUME DiskType, RequestInv, RingInv, IntrReap
    PROVE  \E p \in Completed : /\ head[p] = used[used_idx % num] /\ info[head[p]] = buf[p]
                                /\ Queue(used', num, (used_idx + 1) % (num * Laps), uidx, Heads(Completed) \ {head[p]})
  <1> DEFINE e == used[used_idx % num]
             H == Heads(Completed)
  <1>1. used_idx # uidx /\ used' = [used EXCEPT ![used_idx % num] = Null]
    BY DEF IntrReap
  <1>2. num \in Nat /\ num > 0 /\ used \in [0 .. num - 1 -> Desc \cup {Null}] /\ Queue(used, num, used_idx, uidx, H)
    BY SMT, DescIs DEF RingInv
  <1> HIDE DEF H
  <1>3. e \in H /\ Queue(used', num, (used_idx + 1) % (num * Laps), uidx, H \ {e})
    BY Zenon, <1>1, <1>2, QueueTake
  <1>4. PICK p \in Completed : head[p] = e
    BY <1>3 DEF H, Heads
  <1>5. info[head[p]] = buf[p]
    BY HeadIs DEF Completed, Linked
  <1> HIDE DEF e
  <1> QED BY Zenon, <1>3, <1>4, <1>5 DEF H, e

\* virtio_disk_intr() takes it from the used ring, and it is done.
LEMMA ReapRings ==
    ASSUME CacheInv, DiskType, RequestInv, RingInv, IntrReap
    PROVE  RingInv'
  <1>1. PICK p \in Completed : /\ head[p] = used[used_idx % num] /\ info[head[p]] = buf[p]
                               /\ Queue(used', num, (used_idx + 1) % (num * Laps), uidx, Heads(Completed) \ {head[p]})
    BY Reports
  <1>2. /\ busy' = busy \ {buf[p]} /\ used' = [used EXCEPT ![used_idx % num] = Null]
        /\ used_idx' = (used_idx + 1) % (num * Laps)
        /\ UNCHANGED <<pc, buf, op, want, head, num, free, desc, info, ops, avail, aidx, uidx, seen, work>>
    BY <1>1 DEF IntrReap, Inc, descriptors, device
  <1>3. Active' = Active /\ Desc' = Desc /\ p \in Active /\ buf[p] \in busy /\ ops[head[p]] = Null
    BY <1>1, <1>2 DEF Active, Desc, Completed
  <1>4. \A q \in Active : q # p => buf[q] # buf[p] /\ head[q] # head[p]
    BY <1>3, RequestsDiffer
  <1>5. Posted' = Posted /\ Completed' = Completed \ {p}
    BY <1>2, <1>3, <1>4 DEF Posted, Completed
  <1>6. Completed \subseteq Active
    BY DEF Completed
  <1>7. Heads(Posted)' = Heads(Posted) /\ Heads(Completed)' = Heads(Completed) \ {head[p]}
    BY <1>1, <1>2, <1>4, <1>5, <1>6 DEF Heads
  <1>8. Queue(avail, num, seen, aidx, Heads(Posted) \ work)'
    BY <1>2, <1>7 DEF RingInv, Queue
  <1>9. Queue(used, num, used_idx, uidx, Heads(Completed))'
    BY <1>1, <1>2, <1>7 DEF Queue
  <1>10. avail' \in [Desc' -> Desc' \cup {Null}] /\ used' \in [Desc' -> Desc' \cup {Null}] /\ work' \subseteq Heads(Posted)'
    BY <1>2, <1>3, <1>7 DEF RingInv
  <1>11. \A q \in Active' : buf'[q] \notin busy' => ops'[head'[q]] = Null
    BY <1>2, <1>3, <1>4 DEF RingInv
  <1> QED BY <1>8, <1>9, <1>10, <1>11 DEF RingInv

\* free_chain() is for a request that is in no ring any more.
LEMMA FinishRings ==
    ASSUME CacheInv, DiskType, RequestInv, RingInv, NEW p \in Proc, RwReturns(p), SameRings
    PROVE  RingInv'
  <1>1. /\ head' = [head EXCEPT ![p] = Null] /\ buf[p] \notin busy
        /\ pc[p] = "io" /\ pc' = [pc EXCEPT ![p] = "have"] /\ UNCHANGED <<buf, want, op, num, ops>>
    BY DEF RwReturns, Finish, At
  <1>2. UNCHANGED <<busy, avail, aidx, used, uidx, used_idx, seen, work>>
    BY DEF SameRings, rings
  <1>3. Active' = Active \ {p} /\ Desc' = Desc
    BY <1>1 DEF Active, CacheInv, CacheType, Desc
  <1>4. \A q \in Active : q # p => head'[q] = head[q]
    BY <1>1 DEF Active, DiskType
  <1>5. Posted' = Posted /\ Completed' = Completed /\ p \notin Posted /\ p \notin Completed
    BY <1>1, <1>2, <1>3, <1>4 DEF Posted, Completed
  <1>6. Heads(Posted)' = Heads(Posted) /\ Heads(Completed)' = Heads(Completed)
    BY SMT, <1>4, <1>5 DEF Heads, Posted, Completed
  <1> QED BY <1>1, <1>2, <1>3, <1>4, <1>6 DEF RingInv, Queue

\* Every step keeps the rings.
LEMMA RingStep == CacheInv /\ DiskType /\ RequestInv /\ RingInv /\ [Next]_vars => RingInv'
  <1> SUFFICES ASSUME CacheInv, DiskType, RequestInv, RingInv, [Next]_vars PROVE RingInv'
    OBVIOUS
  <1>1. CASE SameRequests /\ SameRings
    <2>1. UNCHANGED <<busy, avail, aidx, used, uidx, used_idx, seen, work, head, num, ops>>
      BY <1>1 DEF SameRings, SameRequests, rings
    <2>2. /\ Active' = Active /\ Posted' = Posted /\ Completed' = Completed /\ Desc' = Desc
          /\ \A p \in Active : buf'[p] = buf[p]
      BY <1>1, <2>1, SameSets DEF SameRequests
    <2>3. Heads(Posted)' = Heads(Posted) /\ Heads(Completed)' = Heads(Completed)
      BY <2>1, <2>2 DEF Heads
    <2> QED BY <2>1, <2>2, <2>3 DEF RingInv, Queue
  <1>2. CacheType
    BY DEF CacheInv
  <1> QED BY <1>1, <1>2, RingChanges, SubmitRings, TakeRings, PerformRings, ReapRings, FinishRings

-----------------------------------------------------------------------------
(* What buffers and blocks hold.                                           *)

Contents == Block \X {"current", "stale"}

\* The device has performed the request of p.
Performed(p) == pc[p] = "io" /\ ops[head[p]] = Null

\* Thread p is to write block k.
Writes(p, k) == pc[p] \in {"rw", "io"} /\ op[p] = "write" /\ want[p] = k

\* A valid buffer has the latest contents of its block, and so has the block,
\* unless it is pinned or about to be written.
DataInv ==
    /\ data \in [Buf -> Contents \cup {Null}] /\ blocks \in [Block -> Contents]
    /\ \A b \in valid : data[b] = Current(blockno[b])
    /\ \A k \in Block : blocks[k] \in {Current(k), Stale(k)}
    /\ \A k \in Block : blocks[k] = Current(k) \/ k \in pins \/ \E p \in Proc : Writes(p, k)
    /\ \A p \in Proc : Performed(p) => /\ op[p] = "read" => data[buf[p]] = Current(want[p])
                                       /\ op[p] = "write" => blocks[want[p]] = Current(want[p])

\* Steps that change no contents keep it, if no valid buffer, no writer and no
\* performed request appears or changes.
LEMMA DataKept ==
    ASSUME DataInv, UNCHANGED <<data, blocks, pins>>,
           \A b \in valid' : b \in valid /\ blockno'[b] = blockno[b],
           \A q \in Proc : \A k \in Block : Writes(q, k) => Writes(q, k)',
           \A q \in Proc : Performed(q)' => Performed(q) /\ op'[q] = op[q] /\ buf'[q] = buf[q] /\ want'[q] = want[q]
    PROVE  DataInv'
  BY DEF DataInv, Current, Stale

\* Two threads that work with buffers work with different blocks.
LEMMA BlocksDiffer ==
    ASSUME CacheInv, NEW p \in Proc, NEW q \in Proc, p # q, pc[p] \in Holding, pc[q] \in Holding
    PROVE  buf[p] # buf[q] /\ want[p] # want[q]
  <1>1. /\ buf[p] \in Buf /\ want[p] \in Block /\ blockno[buf[p]] = want[p] /\ want[p] # Null
        /\ buf[q] \in Buf /\ want[q] \in Block /\ blockno[buf[q]] = want[q]
    BY HasBuffer DEF CacheInv, Holding
  <1>2. lock[buf[p]] = p /\ lock[buf[q]] = q
    BY DEF CacheInv, LockInv
  <1>3. buf[p] # buf[q]
    BY <1>2
  <1> QED BY <1>1, <1>3 DEF CacheInv, HasInv

\* The thread whose request is done has the contents it asked for.
LEMMA FinishData ==
    ASSUME CacheInv, RequestInv, RingInv, DataInv, NEW p \in Proc, RwReturns(p)
    PROVE  DataInv'
  <1>1. /\ pc[p] = "io" /\ pc' = [pc EXCEPT ![p] = "have"] /\ buf[p] \notin busy /\ valid' = valid \cup {buf[p]}
        /\ head' = [head EXCEPT ![p] = Null]
        /\ UNCHANGED <<buf, want, op, ops, blockno, data, blocks>>
        /\ pins' = IF op[p] = "write" /\ want[p] \in pins THEN pins \ {want[p]} ELSE pins
    BY DEF RwReturns, Finish, At, device
  <1>2. buf[p] \in Buf /\ want[p] \in Block /\ blockno[buf[p]] = want[p] /\ op[p] \in {"read", "write"}
    BY <1>1, HasBuffer DEF CacheInv, CacheType
  <1>3. Performed(p)
    BY <1>1 DEF RingInv, Active, Performed
  <1>4. \A b \in valid' : data'[b] = Current(blockno[b])
    BY SMT, <1>1, <1>2, <1>3 DEF DataInv, CacheInv, LockInv
  <1>5. op[p] = "write" => blocks[want[p]] = Current(want[p])
    BY <1>3 DEF DataInv
  <1>6. \A q \in Proc : q # p => pc'[q] = pc[q]
    BY <1>1 DEF CacheInv, CacheType
  <1>7. ASSUME NEW k \in Block PROVE blocks[k] = Current(k) \/ k \in pins' \/ \E q \in Proc : Writes(q, k)'
    <2>1. CASE op[p] = "write" /\ want[p] = k
      BY <1>5, <2>1
    <2>2. CASE ~(op[p] = "write" /\ want[p] = k)
      <3>1. k \in pins => k \in pins'
        BY <1>1, <2>2
      <3>2. \A q \in Proc : Writes(q, k) => Writes(q, k)'
        BY <1>1, <1>6, <2>2 DEF Writes
      <3> QED BY <3>1, <3>2 DEF DataInv
    <2> QED BY <2>1, <2>2
  <1>8. \A q \in Proc : Performed(q)' => Performed(q)
    <2>1. \A q \in Proc : q # p => head'[q] = head[q]
      BY <1>1
    <2>2. pc'[p] # "io"
      BY <1>1 DEF CacheInv, CacheType
    <2> QED BY <1>1, <1>6, <2>1, <2>2 DEF Performed
  <1> QED BY <1>1, <1>4, <1>7, <1>8 DEF DataInv, Current, Stale

\* New contents of one block make none of another out of date.
LEMMA ChangeData ==
    ASSUME CacheInv, DataInv, NEW p \in Proc, Change(p)
    PROVE  DataInv'
  <1> DEFINE b == buf[p]
             k == want[p]
  <1>1. /\ pc[p] = "have" /\ lock[b] = p
        /\ data' = [c \in Buf |-> IF c = b THEN Current(k) ELSE Outdated(data[c], k)]
        /\ blocks' = [j \in Block |-> Outdated(blocks[j], k)]
        /\ UNCHANGED <<want, buf, head, blockno, valid, ops>>
    BY DEF Change, descriptors
  <1>2. \/ pins' = pins \cup {k} /\ UNCHANGED <<pc, op>>
        \/ pc' = [pc EXCEPT ![p] = "rw"] /\ op' = [op EXCEPT ![p] = "write"] /\ pins' = pins
    BY DEF Change
  <1>3. b \in Buf /\ k \in Block /\ blockno[b] = k /\ k # Null
    BY <1>1, HasBuffer DEF CacheInv
  <1>4. \A j : j # k => Current(j) # Current(k) /\ Outdated(Current(j), k) = Current(j)
    BY DEF Current, Outdated
  <1>5. ASSUME NEW j \in Block
        PROVE  blocks'[j] = IF j = k THEN Stale(k) ELSE blocks[j]
    <2>1. blocks'[j] = Outdated(blocks[j], k)
      BY <1>1
    <2>2. blocks[j] \in {Current(j), Stale(j)} /\ Stale(j) # Current(k)
      BY DEF DataInv, Stale, Current
    <2> QED BY <1>4, <2>1, <2>2 DEF Outdated
  <1>6. ASSUME NEW c \in valid' PROVE data'[c] = Current(blockno'[c])
    <2>1. c \in Buf /\ data[c] = Current(blockno[c])
      BY <1>1 DEF DataInv, CacheInv, CacheType
    <2>2. c # b => blockno[c] # k
      BY <1>3, <2>1 DEF CacheInv, HasInv
    <2> QED BY <1>1, <1>3, <1>4, <2>1, <2>2
  <1>7. \A q \in Proc : q # p => pc'[q] = pc[q] /\ op'[q] = op[q]
    BY <1>2 DEF CacheInv, CacheType
  <1>8. ASSUME NEW j \in Block PROVE blocks'[j] = Current(j) \/ j \in pins' \/ \E q \in Proc : Writes(q, j)'
    <2>1. CASE j = k
      <3>1. CASE pins' = pins \cup {k}
        BY <2>1, <3>1
      <3>2. CASE pc' = [pc EXCEPT ![p] = "rw"] /\ op' = [op EXCEPT ![p] = "write"]
        <4>1. Writes(p, j)'
          BY <1>1, <2>1, <3>2 DEF Writes, CacheInv, CacheType
        <4> QED BY <4>1
      <3> QED BY <1>2, <3>1, <3>2
    <2>2. CASE j # k
      <3>1. \A q \in Proc : Writes(q, j) => Writes(q, j)'
        BY <1>1, <1>7 DEF Writes
      <3> QED BY <1>2, <1>5, <2>2, <3>1 DEF DataInv
    <2> QED BY <2>1, <2>2
  <1>9. ASSUME NEW q \in Proc, Performed(q)'
        PROVE  /\ op'[q] = "read" => data'[buf'[q]] = Current(want'[q])
               /\ op'[q] = "write" => blocks'[want'[q]] = Current(want'[q])
    <2>1. q # p /\ Performed(q) /\ op'[q] = op[q]
      BY <1>1, <1>2, <1>7, <1>9 DEF Performed, CacheInv, CacheType
    <2>2. buf[q] # b /\ want[q] # k /\ buf[q] \in Buf /\ want[q] \in Block
      BY <1>1, <2>1, BlocksDiffer, HasBuffer DEF Performed, Holding, CacheInv
    <2>3. /\ op[q] = "read" => data[buf[q]] = Current(want[q])
          /\ op[q] = "write" => blocks[want[q]] = Current(want[q])
      BY <2>1 DEF DataInv
    <2> QED BY <1>1, <1>4, <1>5, <2>1, <2>2, <2>3
  <1>10. data' \in [Buf -> Contents \cup {Null}] /\ blocks' \in [Block -> Contents]
    BY <1>1, <1>3 DEF DataInv, Outdated, Contents, Current, Stale
  <1>11. \A j \in Block : blocks'[j] \in {Current(j), Stale(j)}
    BY <1>5 DEF DataInv
  <1> QED BY <1>6, <1>8, <1>9, <1>10, <1>11 DEF DataInv, Current, Stale

\* What the device moves between a buffer and its block.
LEMMA PerformData ==
    ASSUME CacheInv, DiskType, RequestInv, RingInv, DataInv, NEW i \in Desc, DeviceFinishes(i), pins' = pins
    PROVE  DataInv'
  <1>1. PICK p \in Posted : head[p] = i
    BY Performs
  <1> DEFINE b == buf[p]
             k == want[p]
  <1>2. p \in Active /\ p \in Proc /\ Linked(p) /\ pc[p] = "io" /\ pc[p] \in Holding /\ ops[i] # Null
    BY <1>1, HeadIs DEF Posted, Active, Holding
  <1>3. desc[desc[i].next].addr = b /\ ops[i] = [op |-> op[p], sector |-> k]
    BY <1>1, <1>2 DEF Linked, Second
  <1>4. b \in Buf /\ k \in Block /\ blockno[b] = k /\ k # Null /\ op[p] \in {"read", "write"}
    BY <1>2, HasBuffer DEF CacheInv, CacheType, Holding
  <1>5. \/ op[p] = "write" /\ blocks' = [blocks EXCEPT ![k] = data[b]] /\ data' = data
        \/ op[p] = "read" /\ data' = [data EXCEPT ![b] = blocks[k]] /\ blocks' = blocks
    <2> DEFINE a == desc[desc[i].next].addr
               s == ops[i].sector
    <2>1. \/ ops[i].op = "write" /\ blocks' = [blocks EXCEPT ![s] = data[a]] /\ data' = data
          \/ ops[i].op = "read" /\ data' = [data EXCEPT ![a] = blocks[s]] /\ blocks' = blocks
      BY DEF DeviceFinishes
    <2>2. a = b /\ s = k /\ ops[i].op = op[p]
      BY <1>3
    <2> QED BY <2>1, <2>2
  <1>6. /\ ops' = [ops EXCEPT ![i] = Null] /\ UNCHANGED <<pc, buf, op, want, head, blockno, valid>>
    BY DEF DeviceFinishes, threads
  <1>7. op[p] = "write" <=> b \in valid
    BY <1>2 DEF CacheInv, LockInv
  <1>8. op[p] = "write" => data[b] = Current(k)
    BY <1>4, <1>7 DEF DataInv
  <1>9. op[p] = "read" => blocks[k] = Current(k)
    <2> SUFFICES ASSUME op[p] = "read" PROVE blocks[k] = Current(k)
      OBVIOUS
    <2>1. k \notin pins
      <3> SUFFICES ASSUME k \in pins PROVE FALSE
        OBVIOUS
      <3>1. PICK c \in valid : blockno[c] = k
        BY DEF CacheInv, RefInv
      <3>2. c \in Buf /\ c # b
        BY <1>7 DEF CacheInv, CacheType
      <3> QED BY <1>4, <3>1, <3>2 DEF CacheInv, HasInv
    <2>2. \A q \in Proc : ~Writes(q, k)
      <3> SUFFICES ASSUME NEW q \in Proc, Writes(q, k) PROVE FALSE
        OBVIOUS
      <3>1. q # p /\ pc[q] \in Holding /\ want[q] = k
        BY DEF Writes, Holding
      <3> QED BY <1>2, <3>1, BlocksDiffer
    <2> QED BY <1>4, <2>1, <2>2 DEF DataInv
  <1> HIDE DEF b, k
  <1>10. \A j \in Block : blocks'[j] = IF op[p] = "write" /\ j = k THEN Current(k) ELSE blocks[j]
    BY <1>4, <1>5, <1>8 DEF DataInv
  <1>11. \A c \in Buf : data'[c] = IF op[p] = "read" /\ c = b THEN Current(k) ELSE data[c]
    BY <1>4, <1>5, <1>9 DEF DataInv
  <1>12. data' \in [Buf -> Contents \cup {Null}] /\ blocks' \in [Block -> Contents]
    <2>1. Current(k) \in Contents
      BY <1>4 DEF Current, Contents
    <2> QED BY <1>4, <1>5, <1>8, <1>9, <2>1 DEF DataInv
  <1>13. \A c \in valid' : data'[c] = Current(blockno'[c])
    BY <1>4, <1>6, <1>7, <1>11 DEF DataInv, CacheInv, CacheType
  <1>14. \A j \in Block : blocks'[j] \in {Current(j), Stale(j)}
    BY <1>10 DEF DataInv
  <1>15. \A j \in Block : blocks'[j] = Current(j) \/ j \in pins \/ \E q \in Proc : Writes(q, j)'
    BY <1>6, <1>10 DEF DataInv, Writes
  <1>16. ASSUME NEW q \in Proc, Performed(q)'
         PROVE  /\ op[q] = "read" => data'[buf[q]] = Current(want[q])
                /\ op[q] = "write" => blocks'[want[q]] = Current(want[q])
    <2>1. CASE q = p
      BY <1>4, <1>10, <1>11, <2>1 DEF b, k
    <2>2. CASE q # p
      <3>1. pc[q] = "io" /\ q \in Active /\ pc[q] \in Holding
        BY <1>6, <1>16 DEF Performed, Active, Holding
      <3>2. head[q] # i /\ buf[q] # b /\ want[q] # k
        BY <1>1, <1>2, <2>2, <3>1, RequestsDiffer, BlocksDiffer DEF b, k
      <3>3. ops'[head[q]] = ops[head[q]]
        BY <1>6, <3>1, <3>2, HeadIs DEF DiskType
      <3>4. Performed(q)
        BY <1>6, <1>16, <3>1, <3>3 DEF Performed
      <3>5. buf[q] \in Buf /\ want[q] \in Block
        BY <3>1, HasBuffer DEF CacheInv
      <3> QED BY <1>10, <1>11, <3>2, <3>4, <3>5 DEF DataInv
    <2> QED BY <2>1, <2>2
  <1> QED BY <1>6, <1>12, <1>13, <1>14, <1>15, <1>16 DEF DataInv, Current, Stale

\* Every step keeps what buffers and blocks hold.
LEMMA DataStep == CacheInv /\ DiskType /\ RequestInv /\ RingInv /\ DataInv /\ [Next]_vars => DataInv'
  <1> SUFFICES ASSUME CacheInv, DiskType, RequestInv, RingInv, DataInv, [Next]_vars PROVE DataInv'
    OBVIOUS
  <1>0. CacheType
    BY DEF CacheInv
  <1>1. ASSUME UNCHANGED <<pc, op, want, buf, head, ops, blockno, valid, pins, data, blocks>> PROVE DataInv'
    BY <1>1 DEF DataInv, Writes, Performed, Current, Stale
  <1>2. CASE UNCHANGED vars \/ (DeviceTakes /\ UNCHANGED <<lru, pins>>) \/ IntrStep
    BY <1>1, <1>2 DEF vars, disk, DeviceTakes, IntrStep, Intr, virtio_disk_intr, IntrReap, IntrReturn, threads,
                      buffers, descriptors, device
  <1>3. ASSUME NEW p \in Proc, (NoDescriptors(p) \/ StillBusy(p) \/ KillWakes(p)) /\ UNCHANGED <<lru, pins>> PROVE DataInv'
    BY <1>1, <1>3 DEF NoDescriptors, StillBusy, KillWakes, buffers, descriptors, device
  <1>4. ASSUME NEW p \in Proc, pc[p] \notin {"rw", "io"}, pc'[p] # "io",
               UNCHANGED <<data, blocks, pins, head, ops>>,
               \A b \in valid' : b \in valid /\ blockno'[b] = blockno[b],
               \A q \in Proc : q # p => pc'[q] = pc[q] /\ op'[q] = op[q] /\ buf'[q] = buf[q] /\ want'[q] = want[q]
        PROVE  DataInv'
    <2>1. \A q \in Proc : \A k \in Block : Writes(q, k) => Writes(q, k)'
      BY <1>4 DEF Writes
    <2>2. \A q \in Proc : Performed(q)' => Performed(q) /\ op'[q] = op[q] /\ buf'[q] = buf[q] /\ want'[q] = want[q]
      BY <1>4 DEF Performed
    <2> QED BY <1>4, <2>1, <2>2, DataKept
  <1>5. ASSUME NEW p \in Proc, NEW k \in Block, bget(p, k) PROVE DataInv'
    <2>1. /\ pc[p] = "idle" /\ pc'[p] = "acquire" /\ UNCHANGED <<data, blocks, pins, head, ops>>
          /\ \A q \in Proc : q # p => pc'[q] = pc[q] /\ op'[q] = op[q] /\ buf'[q] = buf[q] /\ want'[q] = want[q]
      BY <1>0, <1>5 DEF bget, disk, descriptors, device, CacheType
    <2>2. \A b \in valid' : b \in valid /\ blockno'[b] = blockno[b]
      BY <1>0, <1>5 DEF bget, CacheType
    <2> QED BY <1>4, <2>1, <2>2
  <1>6. ASSUME NEW p \in Proc, acquiresleep(p) \/ releasesleep(p) \/ brelse(p) PROVE DataInv'
    <2>1. /\ pc[p] \notin {"rw", "io"} /\ pc'[p] # "io" /\ UNCHANGED <<data, blocks, pins, head, ops, valid, blockno>>
          /\ \A q \in Proc : q # p => pc'[q] = pc[q] /\ op'[q] = op[q] /\ buf'[q] = buf[q] /\ want'[q] = want[q]
      BY <1>0, <1>6 DEF acquiresleep, releasesleep, brelse, At, disk, descriptors, device, CacheType
    <2> QED BY <1>4, <2>1
  <1>7. ASSUME NEW p \in Proc, Submit(p), UNCHANGED <<lru, pins>> PROVE DataInv'
    <2>1. /\ pc[p] = "rw" /\ pc' = [pc EXCEPT ![p] = "io"] /\ UNCHANGED <<buf, op, want, blockno, valid, data, blocks>>
      BY <1>7 DEF Submit, At, device
    <2>2. \A q \in Proc : \A k \in Block : Writes(q, k) => Writes(q, k)'
      BY <1>0, <2>1 DEF Writes, CacheType
    <2>3. \A q \in Proc : Performed(q)' => Performed(q)
      BY <1>0, <1>7, <2>1, SubmitKeeps DEF Performed, CacheType, Active
    <2> QED BY <1>7, <2>1, <2>2, <2>3, DataKept
  <1>8. ASSUME NEW i \in Desc, DeviceFinishes(i), UNCHANGED <<lru, pins>> PROVE DataInv'
    BY <1>8, PerformData
  <1>9. ASSUME NEW p \in Proc, Thread(p) PROVE DataInv'
    BY <1>3, <1>5, <1>6, <1>7, <1>9, FinishData, ChangeData DEF Thread, Driver, Rw
  <1> QED BY <1>2, <1>8, <1>9 DEF Next, DeviceStep, Device

-----------------------------------------------------------------------------
(* Sleepers.                                                               *)

Channels == {Awake, FreeChan} \cup {IoOf(b) : b \in Buf} \cup {LockOf(b) : b \in Buf}

\* Who sleeps waits at its place for what is not there yet, ...
Waits(p) ==
    \/ pc[p] = "rw" /\ chan[p] = FreeChan /\ Cardinality(free) < 3
    \/ pc[p] = "io" /\ chan[p] = IoOf(buf[p]) /\ buf[p] \in busy
    \/ pc[p] = "acquire" /\ chan[p] = LockOf(buf[p]) /\ lock[buf[p]] # Null

\* ... and entries of the used ring are still to be reported.
SleepInv ==
    /\ chan \in [Proc -> Channels]
    /\ \A p \in Proc : chan[p] # Awake => Waits(p)
    /\ uidx # used_idx => irq \/ vlock

\* A channel is one of them.
LEMMA ChannelIs ==
    /\ Awake \in Channels /\ FreeChan \in Channels
    /\ \A b \in Buf : IoOf(b) \in Channels /\ LockOf(b) \in Channels
  BY DEF Channels

\* A thread whose place is not one to sleep at is awake.
LEMMA AwakeIs ==
    ASSUME SleepInv, NEW p \in Proc, pc[p] \notin {"rw", "io", "acquire"}
    PROVE  chan[p] = Awake
  BY DEF SleepInv, Waits

\* wakeup() makes no one sleep.
LEMMA WakeupIs ==
    ASSUME SleepInv, NEW c
    PROVE  /\ wakeup(c) \in [Proc -> Channels]
           /\ \A q \in Proc : wakeup(c)[q] # Awake => chan[q] # c /\ wakeup(c)[q] = chan[q]
  <1>1. wakeup(c) = [q \in Proc |-> IF chan[q] = c THEN Awake ELSE chan[q]]
    BY DEF wakeup
  <1> QED BY <1>1, ChannelIs DEF SleepInv

\* The steps of a thread: the others wait for what they waited for.
LEMMA SleepThread ==
    ASSUME CacheInv, DiskType, SleepInv, NEW p \in Proc, Thread(p)
    PROVE  SleepInv'
  <1>0. CacheType /\ HasInv
    BY DEF CacheInv
  <1>1. UNCHANGED <<uidx, used_idx, irq, vlock>>
    BY DEF Thread, Driver, Rw, bget, acquiresleep, RwReturns, Finish, Change, releasesleep, brelse, Submit,
           NoDescriptors, StillBusy, KillWakes, disk, rings, device
  <1>2. ASSUME chan' \in [Proc -> Channels], \A q \in Proc : chan'[q] # Awake => Waits(q)' PROVE SleepInv'
    BY <1>1, <1>2 DEF SleepInv, Channels, Awake, FreeChan, IoOf, LockOf
  <1>3. ASSUME NEW k \in Block, bget(p, k) PROVE SleepInv'
    <2>1. /\ pc[p] = "idle" /\ UNCHANGED <<chan, lock, busy, free>>
          /\ \A q \in Proc : q # p => pc'[q] = pc[q] /\ buf'[q] = buf[q]
      BY <1>0, <1>3 DEF bget, CacheType, disk, descriptors
    <2>2. \A q \in Proc : chan'[q] # Awake => Waits(q)'
      BY <2>1, AwakeIs DEF SleepInv, Waits, FreeChan, IoOf, LockOf
    <2> QED BY <1>2, <2>1, <2>2 DEF SleepInv
  <1>4. CASE acquiresleep(p)
    <2>1. /\ pc[p] = "acquire" /\ chan[p] = Awake /\ UNCHANGED <<buf, busy, free>> /\ buf[p] \in Buf
          /\ \/ lock[buf[p]] = Null /\ lock' = [lock EXCEPT ![buf[p]] = p] /\ chan' = chan
             \/ /\ lock[buf[p]] # Null /\ chan' = [chan EXCEPT ![p] = LockOf(buf[p])] /\ UNCHANGED <<lock, pc>>
          /\ \A q \in Proc : q # p => pc'[q] = pc[q]
      BY <1>0, <1>4, HasBuffer DEF acquiresleep, At, CacheType, disk, descriptors
    <2>2. \A c \in Buf : lock[c] # Null => lock'[c] # Null
      BY <1>0, <2>1 DEF CacheType
    <2>3. \A q \in Proc : pc[q] = "acquire" => buf[q] \in Buf
      BY <1>0, HasBuffer
    <2>4. ASSUME NEW q \in Proc, chan'[q] # Awake PROVE Waits(q)'
      BY SMT, <2>1, <2>2, <2>3, <2>4 DEF SleepInv, Waits, FreeChan, IoOf, LockOf
    <2>5. chan' \in [Proc -> Channels]
      BY <2>1, ChannelIs DEF SleepInv
    <2> QED BY <1>2, <2>4, <2>5
  <1>5. CASE RwReturns(p)
    <2>1. /\ pc[p] = "io" /\ chan[p] = Awake /\ chan' = wakeup(FreeChan) /\ UNCHANGED <<buf, busy, lock>>
          /\ \A q \in Proc : q # p => pc'[q] = pc[q]
      BY <1>0, <1>5 DEF RwReturns, Finish, At, CacheType
    <2>2. ASSUME NEW q \in Proc, chan'[q] # Awake PROVE Waits(q)'
      <3>1. chan[q] # Awake /\ chan[q] # FreeChan /\ chan'[q] = chan[q] /\ q # p
        BY SMT, <2>1, <2>2, WakeupIs
      <3> QED BY <2>1, <3>1 DEF SleepInv, Waits, FreeChan, IoOf, LockOf
    <2> QED BY <1>2, <2>1, <2>2, WakeupIs
  <1>6. CASE Change(p)
    <2>1. /\ pc[p] = "have" /\ UNCHANGED <<chan, buf, lock, busy, free>>
          /\ \A q \in Proc : q # p => pc'[q] = pc[q]
      BY <1>0, <1>6 DEF Change, CacheType, descriptors
    <2>2. \A q \in Proc : chan'[q] # Awake => Waits(q)'
      BY <2>1, AwakeIs DEF SleepInv, Waits, FreeChan, IoOf, LockOf
    <2> QED BY <1>2, <2>1, <2>2 DEF SleepInv
  <1>7. CASE releasesleep(p)
    <2>1. /\ pc[p] = "have" /\ chan' = wakeup(LockOf(buf[p])) /\ UNCHANGED <<buf, busy, free>> /\ buf[p] \in Buf
          /\ lock' = [lock EXCEPT ![buf[p]] = Null] /\ \A q \in Proc : q # p => pc'[q] = pc[q]
      BY <1>0, <1>7, HasBuffer DEF releasesleep, CacheType, disk, descriptors
    <2>2. ASSUME NEW q \in Proc, chan'[q] # Awake PROVE Waits(q)'
      <3>1. chan[q] # Awake /\ chan[q] # LockOf(buf[p]) /\ chan'[q] = chan[q]
        BY <2>1, <2>2, WakeupIs
      <3>2. q # p
        BY <2>1, <3>1, AwakeIs
      <3>3. \A c \in Buf : c # buf[p] => lock'[c] = lock[c]
        BY <1>0, <2>1 DEF CacheType
      <3>4. pc[q] = "acquire" => buf[q] \in Buf
        BY <1>0, HasBuffer
      <3> QED BY SMT, <2>1, <3>1, <3>2, <3>3, <3>4 DEF SleepInv, Waits, FreeChan, IoOf, LockOf
    <2> QED BY <1>2, <2>1, <2>2, WakeupIs
  <1>8. CASE brelse(p)
    <2>1. /\ pc[p] = "brelse" /\ UNCHANGED <<chan, lock, busy, free>>
          /\ \A q \in Proc : q # p => pc'[q] = pc[q] /\ buf'[q] = buf[q]
      BY <1>0, <1>8 DEF brelse, CacheType, disk, descriptors
    <2>2. \A q \in Proc : chan'[q] # Awake => Waits(q)'
      BY <2>1, AwakeIs DEF SleepInv, Waits, FreeChan, IoOf, LockOf
    <2> QED BY <1>2, <2>1, <2>2 DEF SleepInv
  <1>9. CASE Submit(p)
    <2>1. /\ pc[p] = "rw" /\ pc' = [pc EXCEPT ![p] = "io"] /\ chan' = [chan EXCEPT ![p] = IoOf(buf[p])]
          /\ busy' = busy \cup {buf[p]} /\ UNCHANGED <<buf, lock>> /\ buf[p] \in Buf
      BY <1>0, <1>9, HasBuffer DEF Submit, At
    <2>2. PICK i, j, k \in free : Submitted(p, i, j, k)
      BY <1>0, <1>9, SubmitIs
    <2>3. Cardinality(free') <= Cardinality(free) /\ Cardinality(free) \in Nat /\ Cardinality(free') \in Nat
      <3>1. IsFiniteSet(free) /\ free' \subseteq free
        BY <2>2, DescIs, FS_Subset DEF DiskType, Submitted
      <3> QED BY <3>1, FS_Subset, FS_CardinalityType
    <2>4. ASSUME NEW q \in Proc, chan'[q] # Awake PROVE Waits(q)'
      <3>1. CASE q = p
        BY <1>0, <2>1, <3>1 DEF Waits, SleepInv, CacheType, IoOf
      <3>2. CASE q # p
        <4>1. chan'[q] = chan[q] /\ pc'[q] = pc[q] /\ buf'[q] = buf[q] /\ Waits(q)
          BY <1>0, <2>1, <2>4, <3>2 DEF SleepInv, CacheType
        <4>2. Cardinality(free) < 3 => Cardinality(free') < 3
          BY <2>3
        <4> QED BY <2>1, <4>1, <4>2 DEF Waits, FreeChan, IoOf, LockOf
      <3> QED BY <3>1, <3>2
    <2>5. chan' \in [Proc -> Channels]
      BY <2>1, ChannelIs DEF SleepInv
    <2> QED BY <1>2, <2>4, <2>5
  <1>10. CASE NoDescriptors(p)
    <2>1. /\ pc[p] = "rw" /\ Cardinality(free) < 3 /\ UNCHANGED <<pc, buf, lock, busy, free>>
          /\ chan' = [IF free = {} THEN chan ELSE wakeup(FreeChan) EXCEPT ![p] = FreeChan]
      BY <1>10 DEF NoDescriptors, At, buffers, descriptors
    <2> DEFINE C == IF free = {} THEN chan ELSE wakeup(FreeChan)
    <2>2. C \in [Proc -> Channels] /\ \A q \in Proc : C[q] # Awake => C[q] = chan[q]
      BY WakeupIs DEF SleepInv
    <2>3. chan' = [C EXCEPT ![p] = FreeChan]
      BY <2>1
    <2> HIDE DEF C
    <2>4. chan'[p] = FreeChan /\ \A q \in Proc : q # p /\ chan'[q] # Awake => chan'[q] = chan[q]
      BY <2>2, <2>3
    <2>5. ASSUME NEW q \in Proc, chan'[q] # Awake PROVE Waits(q)'
      BY <2>1, <2>4, <2>5 DEF SleepInv, Waits, FreeChan, IoOf, LockOf
    <2>6. chan' \in [Proc -> Channels]
      BY <2>2, <2>3, ChannelIs
    <2> QED BY <1>2, <2>5, <2>6
  <1>11. CASE StillBusy(p) \/ KillWakes(p)
    <2>1. /\ UNCHANGED <<pc, buf, lock, busy, free>>
          /\ \/ pc[p] = "io" /\ buf[p] \in busy /\ chan' = [chan EXCEPT ![p] = IoOf(buf[p])] /\ buf[p] \in Buf
             \/ chan' = [chan EXCEPT ![p] = Awake]
      BY <1>0, <1>11, HasBuffer DEF StillBusy, KillWakes, At, buffers, descriptors
    <2>2. ASSUME NEW q \in Proc, chan'[q] # Awake PROVE Waits(q)'
      BY <2>1, <2>2 DEF SleepInv, Waits, FreeChan, IoOf, LockOf
    <2>3. chan' \in [Proc -> Channels]
      BY <2>1, ChannelIs DEF SleepInv
    <2> QED BY <1>2, <2>2, <2>3
  <1> QED BY <1>3, <1>4, <1>5, <1>6, <1>7, <1>8, <1>9, <1>10, <1>11 DEF Thread, Driver, Rw

\* Every step leaves those asleep that still have to wait, and no others.
LEMMA SleepStep == CacheInv /\ DiskType /\ SleepInv /\ [Next]_vars => SleepInv'
  <1> SUFFICES ASSUME CacheInv, DiskType, SleepInv, [Next]_vars PROVE SleepInv'
    OBVIOUS
  <1>1. ASSUME UNCHANGED <<pc, chan, buf, lock, busy, free>>, uidx' # used_idx' => irq' \/ vlock' PROVE SleepInv'
    BY <1>1 DEF SleepInv, Waits, Channels, Awake, FreeChan, IoOf, LockOf
  <1>2. CASE UNCHANGED vars \/ DeviceTakes \/ virtio_disk_intr \/ IntrReturn
    <2>1. UNCHANGED <<pc, chan, buf, lock, busy, free, uidx, used_idx>>
      BY <1>2 DEF vars, disk, DeviceTakes, virtio_disk_intr, IntrReturn, threads, buffers, descriptors, rings
    <2>2. uidx' # used_idx' => irq' \/ vlock'
      BY <1>2, <2>1 DEF vars, disk, DeviceTakes, virtio_disk_intr, IntrReturn, device, SleepInv
    <2> QED BY <1>1, <2>1, <2>2
  <1>3. ASSUME NEW i \in Desc, DeviceFinishes(i) PROVE SleepInv'
    BY <1>1, <1>3 DEF DeviceFinishes, threads
  <1>4. CASE IntrReap
    <2> DEFINE b == info[used[used_idx % num]]
    <2>1. /\ busy' = busy \ {b} /\ chan' = wakeup(IoOf(b)) /\ vlock /\ UNCHANGED <<pc, buf, lock, free, vlock>>
      BY <1>4 DEF IntrReap, descriptors
    <2> HIDE DEF b
    <2>2. ASSUME NEW q \in Proc, chan'[q] # Awake PROVE Waits(q)'
      <3>1. chan[q] # Awake /\ chan[q] # IoOf(b) /\ chan'[q] = chan[q]
        BY <2>1, <2>2, WakeupIs
      <3> QED BY <2>1, <3>1 DEF SleepInv, Waits, FreeChan, IoOf, LockOf
    <2>3. chan' \in [Proc -> Channels]
      BY <2>1, WakeupIs
    <2> QED BY <2>1, <2>2, <2>3 DEF SleepInv, Channels, Awake, FreeChan, IoOf, LockOf
  <1> QED BY <1>2, <1>3, <1>4, SleepThread DEF Next, DeviceStep, Device, IntrStep, Intr

-----------------------------------------------------------------------------
(* The theorems.                                                           *)

\* An empty ring is an empty queue.
LEMMA EmptyQueue ==
    ASSUME NEW n \in Nat, n > 0, NEW ring
    PROVE  Queue(ring, n, 0, 0, {})
  <1>1. n * Laps \in Nat /\ n * Laps > 0
    BY Wrapped
  <1>2. 0 % (n * Laps) = 0
    BY <1>1
  <1>3. Holds(ring, n, 0, 0, {})
    BY DEF Holds
  <1> QED BY Zenon, <1>2, <1>3 DEF Queue

\* All of it holds at the start.
LEMMA InitData == Init => RingInv /\ DataInv /\ SleepInv
  <1> SUFFICES ASSUME Init PROVE RingInv /\ DataInv /\ SleepInv
    OBVIOUS
  <1>1. /\ pc = [p \in Proc |-> "idle"] /\ chan = [p \in Proc |-> Awake] /\ pins = {} /\ valid = {}
        /\ data = [b \in Buf |-> Null]
    BY DEF Init, binit
  <1>2. /\ info = [i \in Desc |-> Null] /\ avail = info /\ used = info /\ aidx = 0 /\ uidx = 0 /\ used_idx = 0
        /\ seen = 0 /\ blocks = [k \in Block |-> Current(k)] /\ work = {}
    BY DEF Init, DiskInit
  <1>6. DiskType
    BY InitCacheDisk DEF CacheDiskInv
  <1>7. Active = {}
    BY <1>1 DEF Active
  <1>9. RingInv
    <2>1. Heads(Posted) = {} /\ Heads(Completed) = {} /\ Heads(Posted) \ work = {}
      BY <1>7 DEF Heads, Posted, Completed
    <2>2. Queue(avail, num, 0, 0, {}) /\ Queue(used, num, 0, 0, {})
      BY SMT, <1>6, DescIs, EmptyQueue
    <2>3. Queue(avail, num, seen, aidx, Heads(Posted) \ work) /\ Queue(used, num, used_idx, uidx, Heads(Completed))
      BY Zenon, <1>2, <2>1, <2>2
    <2> QED BY <1>2, <1>7, <2>3 DEF RingInv
  <1>10. DataInv
    BY <1>1, <1>2 DEF DataInv, Contents, Current, Stale, Performed
  <1>11. SleepInv
    BY <1>1, <1>2, ChannelIs DEF SleepInv
  <1> QED BY <1>9, <1>10, <1>11

\* The inductive invariant.
DataSleepInv == RingInv /\ DataInv /\ SleepInv

\* It holds in every reachable state.
THEOREM BcacheSafety == Spec => [](CacheDiskInv /\ DataSleepInv)
  <1>1. Init => DataSleepInv
    BY InitData DEF DataSleepInv
  <1>2. CacheDiskInv /\ DataSleepInv /\ [Next]_vars => DataSleepInv'
    BY RingStep, DataStep, SleepStep DEF CacheDiskInv, DataSleepInv
  <1> QED BY <1>1, <1>2, CacheDiskSafety, PTL DEF Spec

\* bread() returns the locked buffer of the block it was asked for, with the
\* contents that its last holder left there.
THEOREM ReadsLatestSafety == Spec => []ReadsLatest
  <1>1. CacheDiskInv /\ DataSleepInv => ReadsLatest
    <2> SUFFICES ASSUME CacheDiskInv, DataSleepInv, NEW p \in Proc, pc[p] = "have"
                 PROVE  blockno[buf[p]] = want[p] /\ lock[buf[p]] = p /\ data[buf[p]] = Current(want[p])
      BY DEF ReadsLatest
    <2>1. blockno[buf[p]] = want[p]
      BY HasBuffer DEF CacheDiskInv, DataSleepInv, CacheInv
    <2>2. lock[buf[p]] = p /\ buf[p] \in valid
      BY DEF CacheDiskInv, DataSleepInv, CacheInv, LockInv, Holding
    <2> QED BY <2>1, <2>2 DEF CacheDiskInv, DataSleepInv, DataInv
  <1> QED BY <1>1, BcacheSafety, PTL

\* Who sleeps in the driver or on a buffer's lock has a wakeup to come.
THEOREM WakeupSafety == Spec => []NoLostWakeup
  <1>1. CacheDiskInv /\ DataSleepInv => NoLostWakeup
    <2> SUFFICES ASSUME CacheDiskInv, DataSleepInv, NEW p \in Proc, pc[p] = "io", chan[p] = IoOf(buf[p]), buf[p] \in busy
                 PROVE  \/ head[p] \in work \/ \E i \in Desc : avail[i] = head[p]
                        \/ (\E i \in Desc : used[i] = head[p]) /\ (irq \/ vlock)
      BY DEF NoLostWakeup, DataSleepInv, SleepInv, Waits
    <2>1. p \in Active /\ num \in Nat /\ num > 0 /\ Desc = 0 .. num - 1
      BY DescIs DEF Active, CacheDiskInv
    <2>2. CASE p \in Posted
      <3>1. head[p] \in work \/ head[p] \in Heads(Posted) \ work
        BY <2>2 DEF Heads
      <3>2. Queue(avail, num, seen, aidx, Heads(Posted) \ work)
        BY DEF CacheDiskInv, DataSleepInv, RingInv
      <3>3. \A h \in Heads(Posted) \ work : \E i \in 0 .. num - 1 : avail[i] = h
        BY <2>1, <3>2, QueueMembers
      <3> QED BY <2>1, <3>1, <3>3
    <2>3. CASE p \in Completed
      <3>1. head[p] \in Heads(Completed)
        BY <2>3 DEF Heads
      <3>2. Queue(used, num, used_idx, uidx, Heads(Completed))
        BY DEF CacheDiskInv, DataSleepInv, RingInv
      <3>3. used_idx # uidx /\ \A h \in Heads(Completed) : \E i \in 0 .. num - 1 : used[i] = h
        BY <2>1, <3>1, <3>2, QueueMembers
      <3> QED BY <2>1, <3>1, <3>3 DEF CacheDiskInv, DataSleepInv, SleepInv
    <2> QED BY <2>1, <2>2, <2>3 DEF Posted, Completed
  <1> QED BY <1>1, BcacheSafety, PTL
=============================================================================
