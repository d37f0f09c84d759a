----------------------------- MODULE PipeProofs -----------------------------
(***************************************************************************)
(* The pipes of the kernel and those of a pipeline.  First, the pipe of    *)
(* module Pipe is a bounded queue, for any ring size, any counter width    *)
(* that is a multiple of it, and any readers and writers.  Then, execute() *)
(* of module Pipeline closes its ends of all pipes, and its processes end  *)
(* unless an inherited end keeps one from the end of its input, for        *)
(* pipelines of any length with any redirections.                          *)
(***************************************************************************)
EXTENDS Pipe, Pipeline, Integers, Sequences, WellFoundedInduction, TLAPS

USE ZenonT(20), SMTT(20)

-----------------------------------------------------------------------------
(* Sequences.                                                              *)

\* The elements of a sequence.
LEMMA SeqElement ==
    ASSUME NEW S, NEW q \in Seq(S), NEW m \in 1 .. Len(q)
    PROVE  q[m] \in S
  OBVIOUS

\* The length of a sequence, and its places.
LEMMA SeqLength ==
    ASSUME NEW S, NEW q \in Seq(S)
    PROVE  Len(q) \in Nat /\ q \in [1 .. Len(q) -> S] /\ DOMAIN q = 1 .. Len(q)
  OBVIOUS

\* A function on 1 .. m is a sequence.
LEMMA SeqMade ==
    ASSUME NEW S, NEW m \in Nat, NEW f \in [1 .. m -> S]
    PROVE  f \in Seq(S) /\ Len(f) = m
  OBVIOUS

\* Sequences are equal that agree at every place.
LEMMA SeqAgree ==
    ASSUME NEW S, NEW q \in Seq(S), NEW s \in Seq(S), Len(q) = Len(s), \A j \in 1 .. Len(q) : q[j] = s[j]
    PROVE  q = s
  OBVIOUS

\* The first element, and the others.
LEMMA SeqFirst ==
    ASSUME NEW S, NEW q \in Seq(S), q # <<>>
    PROVE  /\ Head(q) \in S /\ Head(q) = q[1] /\ Tail(q) \in Seq(S) /\ Len(Tail(q)) = Len(q) - 1
           /\ \A j \in 1 .. Len(Tail(q)) : Tail(q)[j] = q[j + 1]
  OBVIOUS

-----------------------------------------------------------------------------
(* Remainders.                                                             *)

\* A number is a multiple of P and its remainder.
LEMMA Quotient ==
    ASSUME NEW P \in Nat, P > 0, NEW a \in Nat
    PROVE  \E m \in Nat : a = P * m + (a % P) /\ (a % P) \in 0..(P - 1)
  <1>1. (a \div P) \in Nat /\ a = P * (a \div P) + (a % P) /\ (a % P) \in 0..(P - 1)
    OBVIOUS
  <1> QED BY <1>1

\* The remainder of a multiple of P and a rest.
LEMMA Remainder ==
    ASSUME NEW P \in Nat, P > 0, NEW m \in Nat, NEW r \in 0..(P - 1)
    PROVE  (P * m + r) % P = r
  OBVIOUS

\* A number below the modulus is its own remainder; one below twice the
\* modulus loses it once.
LEMMA SmallRemainder ==
    ASSUME NEW P \in Nat, P > 0, NEW a \in Nat, a < 2 * P
    PROVE  a % P = IF a < P THEN a ELSE a - P
  <1>1. CASE a < P
    BY <1>1
  <1>2. CASE a >= P
    BY <1>2
  <1> QED BY <1>1, <1>2

\* A multiple of P added changes no remainder.
LEMMA AddMultiple ==
    ASSUME NEW P \in Nat, P > 0, NEW U \in Nat, U % P = 0, NEW a \in Nat
    PROVE  (a + U) % P = a % P
  <1>1. PICK m \in Nat : U = P * m
    BY SMT, Quotient
  <1>2. PICK r \in Nat : a = P * r + (a % P) /\ (a % P) \in 0..(P - 1)
    BY Quotient
  <1>3. a + U = P * (r + m) + (a % P)
    BY <1>1, <1>2
  <1>4. \A t \in Nat, e \in 0..(P - 1) : (P * t + e) % P = e
    BY Remainder
  <1>5. r + m \in Nat
    OBVIOUS
  <1> QED BY Zenon, <1>2, <1>3, <1>4, <1>5

\* Numbers less than P apart have different remainders.
LEMMA NearDiffer ==
    ASSUME NEW P \in Nat, P > 0, NEW a \in Nat, NEW b \in Nat, a < b, b < a + P
    PROVE  a % P # b % P
  <1> SUFFICES ASSUME a % P = b % P PROVE FALSE
    OBVIOUS
  <1>1. PICK r \in Nat : a = P * r + (a % P) /\ (a % P) \in 0..(P - 1)
    BY Zenon, Quotient
  <1>2. PICK m \in Nat : b = P * m + (b % P) /\ (b % P) \in 0..(P - 1)
    BY Zenon, Quotient
  <1>3. b - a = P * (m - r)
    BY <1>1, <1>2
  <1>4. m - r \in Int /\ P * (m - r) > 0 /\ P * (m - r) < P
    BY <1>3
  <1>5. m - r >= 1
    BY <1>4
  <1>6. P * (m - r) >= P
    BY <1>5
  <1> QED BY <1>4, <1>6

-----------------------------------------------------------------------------
(* The ring.                                                               *)

Counters == 0..(UintSize - 1)

\* The constants as numbers.
LEMMA Sizes ==
    /\ PIPESIZE \in Nat /\ PIPESIZE > 0
    /\ UintSize \in Nat /\ UintSize > PIPESIZE /\ UintSize % PIPESIZE = 0
    /\ MaxCount \in Nat /\ MaxCount > 0
  BY SMT, PipeAssumption

\* The distance of two counters, without a remainder.
LEMMA Distance ==
    ASSUME NEW r \in Counters, NEW w \in Counters
    PROVE  /\ (w + UintSize - r) % UintSize = IF w >= r THEN w - r ELSE w + UintSize - r
           /\ (w + UintSize - r) % UintSize \in Counters
  <1> DEFINE a == w + UintSize - r
  <1>1. a \in Nat /\ a < 2 * UintSize
    BY Sizes DEF Counters
  <1>2. a % UintSize = IF a < UintSize THEN a ELSE a - UintSize
    BY SMT, <1>1, Sizes, SmallRemainder
  <1> QED BY <1>1, <1>2, Sizes DEF Counters

\* The number of bytes in the pipe.
LEMMA CountIs ==
    ASSUME nread \in Counters, nwrite \in Counters
    PROVE  /\ Count = IF nwrite >= nread THEN nwrite - nread ELSE nwrite + UintSize - nread
           /\ Count \in Counters
  BY Distance DEF Count

\* The place behind the last byte is the one nwrite points to.
LEMMA TailPlace ==
    ASSUME nread \in Counters, nwrite \in Counters
    PROVE  (nread + Count) % PIPESIZE = nwrite % PIPESIZE
  <1>1. CASE nwrite >= nread
    BY <1>1, CountIs DEF Counters
  <1>2. CASE nwrite < nread
    <2>1. nread + Count = nwrite + UintSize
      BY <1>2, CountIs, Sizes DEF Counters
    <2>2. nwrite \in Nat
      BY Sizes DEF Counters
    <2>3. (nwrite + UintSize) % PIPESIZE = nwrite % PIPESIZE
      BY Zenon, <2>2, AddMultiple, Sizes
    <2> QED BY <2>1, <2>3
  <1> QED BY <1>1, <1>2, Sizes DEF Counters

\* Full is what it says as long as the pipe holds at most PIPESIZE bytes.
LEMMA FullIs ==
    ASSUME nread \in Counters, nwrite \in Counters, Count <= PIPESIZE
    PROVE  Full <=> Count = PIPESIZE
  <1>1. (nread + PIPESIZE) % UintSize
            = IF nread + PIPESIZE < UintSize THEN nread + PIPESIZE
              ELSE nread + PIPESIZE - UintSize
    BY SMT, Sizes, SmallRemainder DEF Counters
  <1> QED BY <1>1, CountIs, Sizes DEF Full, Counters

\* The pipe as a sequence of bytes.
LEMMA QueueIs ==
    ASSUME data \in [0..(PIPESIZE - 1) -> Bytes], nread \in Counters, nwrite \in Counters
    PROVE  Queue \in Seq(Bytes) /\ Len(Queue) = Count
  <1>1. Count \in Nat
    BY CountIs DEF Counters
  <1>2. \A m \in 1..Count : (nread + m - 1) % PIPESIZE \in 0..(PIPESIZE - 1)
    BY SMT, <1>1, Sizes DEF Counters
  <1>3. Queue \in [1..Count -> Bytes]
    BY <1>2 DEF Queue
  <1>4. Queue \in Seq(Bytes)
    BY <1>1, <1>3, SeqMade
  <1> QED BY <1>1, <1>3, <1>4, SeqLength

-----------------------------------------------------------------------------
(* The invariant.                                                          *)

\* A process inside a call has its end open, an end is open while
\* somebody has it open, and the pipe holds at most PIPESIZE bytes.
PipeInv ==
    /\ TypeOK
    /\ Count <= PIPESIZE
    /\ \A p \in Procs : pc[p] # "idle" => p \in open
    /\ \A p \in Procs : pc[p] = "write" => p \in Writers
    /\ \A p \in Procs : pc[p] \in {"wait", "read"} => p \in Readers
    /\ writeopen <=> open \cap Writers # {}
    /\ readopen <=> open \cap Readers # {}

\* A new pipe has the invariant and is an empty queue.
LEMMA InitInv == Init => PipeInv /\ F!Init
  <1> SUFFICES ASSUME Init PROVE PipeInv /\ F!Init
    OBVIOUS
  <1>1. TypeOK
    BY SMT, Sizes DEF Init, TypeOK
  <1>2. Count = 0
    BY <1>1, CountIs, Sizes DEF Init, Counters
  <1>3. Queue = << >>
    BY <1>2 DEF Queue
  <1>4. Procs \cap Writers # {} /\ Procs \cap Readers # {}
    BY PipeAssumption DEF Procs
  <1> QED BY <1>1, <1>2, <1>3, <1>4, Sizes DEF Init, PipeInv, F!Init

-----------------------------------------------------------------------------
(* The steps.                                                              *)

Positions == {"idle", "acquire", "write", "wait", "read", "sleep"}

\* The steps that touch neither the ring nor the ends of the pipe.
Quiet(p) ==
    \/ Call(p) \/ Acquire(p) \/ sleep(p) \/ kkill(p)
    \/ WriteFails(p) \/ WriteFull(p) \/ WriteEnds(p)
    \/ ReadWaits(p) \/ ReadStarts(p) \/ ReadEnds(p)

\* They leave the queue alone and keep the invariant.
LEMMA QuietStep ==
    ASSUME PipeInv, NEW p \in Procs, Quiet(p)
    PROVE  PipeInv' /\ UNCHANGED <<Queue, readopen, writeopen>>
  <1> USE DEF Goto, Return, wakeup, ring, ends, locals
  <1>1. UNCHANGED <<data, nread, nwrite, readopen, writeopen, open>>
    BY DEF Quiet, Call, Acquire, sleep, kkill, WriteFails, WriteFull, WriteEnds,
           ReadWaits, ReadStarts, ReadEnds
  <1>2. UNCHANGED <<Count, Queue>>
    BY <1>1 DEF Count, Queue
  <1>3. TypeOK /\ p \in Procs
    BY DEF PipeInv
  <1>4. /\ pc' \in [Procs -> Positions]
        /\ \A r \in Procs : r # p => pc'[r] = pc[r]
        /\ pc'[p] # "idle" => p \in open
        /\ pc'[p] = "write" => p \in Writers
        /\ pc'[p] \in {"wait", "read"} => p \in Readers
    <2> USE DEF PipeInv, TypeOK, Positions
    <2>1. CASE Call(p) \/ sleep(p) \/ kkill(p)
      BY Zenon, <2>1 DEF Call, sleep, kkill
    <2>2. CASE Acquire(p)
      BY <2>2 DEF Acquire, Procs
    <2>3. CASE WriteFails(p) \/ WriteFull(p) \/ WriteEnds(p)
      BY ZenonT(30), <2>3 DEF WriteFails, WriteFull, WriteEnds
    <2>4. CASE ReadWaits(p) \/ ReadStarts(p) \/ ReadEnds(p)
      BY ZenonT(30), <2>4 DEF ReadWaits, ReadStarts, ReadEnds
    <2> QED BY <2>1, <2>2, <2>3, <2>4 DEF Quiet
  <1>5. n' \in [Procs -> 0..MaxCount] /\ i' \in [Procs -> 0..MaxCount]
    <2> USE Sizes DEF PipeInv, TypeOK
    <2>1. CASE Call(p)
      BY SMT, <2>1 DEF Call
    <2>2. CASE Acquire(p) \/ sleep(p) \/ kkill(p) \/ WriteFull(p) \/ ReadStarts(p)
      BY <2>2 DEF Acquire, sleep, kkill, WriteFull, ReadStarts
    <2>3. CASE WriteFails(p) \/ WriteEnds(p) \/ ReadWaits(p) \/ ReadEnds(p)
      <3>1. \/ UNCHANGED <<n, i>>
            \/ n' = [n EXCEPT ![p] = 0] /\ i' = [i EXCEPT ![p] = 0]
        BY <2>3 DEF WriteFails, WriteEnds, ReadWaits, ReadEnds
      <3>2. n \in [Procs -> 0..MaxCount] /\ i \in [Procs -> 0..MaxCount] /\ 0 \in 0..MaxCount
        BY SMT
      <3> HIDE DEF PipeInv, TypeOK
      <3> QED BY <3>1, <3>2
    <2> QED BY Zenon, <2>1, <2>2, <2>3 DEF Quiet
  <1>6. lock' \in Procs \cup {None} /\ chan' \in [Procs -> {"none", "nread", "nwrite"}]
    <2> USE DEF PipeInv, TypeOK
    <2>1. CASE Call(p) \/ Acquire(p) \/ WriteFails(p) \/ ReadStarts(p)
      BY <2>1 DEF Call, Acquire, WriteFails, ReadStarts
    <2>2. CASE ReadWaits(p)
      BY Zenon, <2>2 DEF ReadWaits
    <2>3. CASE WriteFull(p) \/ WriteEnds(p) \/ ReadEnds(p)
      BY SMT, <2>3 DEF WriteFull, WriteEnds, ReadEnds
    <2>4. CASE sleep(p) \/ kkill(p)
      BY <2>4 DEF sleep, kkill
    <2> QED BY <2>1, <2>2, <2>3, <2>4 DEF Quiet
  <1>7. asleep' \in [Procs -> BOOLEAN] /\ killed' \in [Procs -> BOOLEAN]
    <2> USE DEF PipeInv, TypeOK
    <2>1. CASE Call(p) \/ Acquire(p) \/ WriteFails(p) \/ ReadWaits(p) \/ ReadStarts(p)
      BY <2>1 DEF Call, Acquire, WriteFails, ReadWaits, ReadStarts
    <2>2. CASE WriteFull(p) \/ WriteEnds(p) \/ ReadEnds(p)
      <3>1. \/ asleep' = [r \in Procs |-> asleep[r] /\ chan[r] # "nread"]
            \/ asleep' = [r \in Procs |-> asleep[r] /\ chan[r] # "nwrite"]
        BY <2>2 DEF WriteFull, WriteEnds, ReadEnds
      <3>2. killed' = killed
        BY <2>2 DEF WriteFull, WriteEnds, ReadEnds
      <3>3. asleep' \in [Procs -> BOOLEAN]
        BY ZenonT(30), <3>1
      <3> QED BY <3>2, <3>3
    <2>3. CASE sleep(p)
      BY <2>3 DEF sleep
    <2>4. CASE kkill(p)
      BY <2>4 DEF kkill
    <2> QED BY <2>1, <2>2, <2>3, <2>4 DEF Quiet
  <1>8. TypeOK'
    BY Zenon, <1>1, <1>3, <1>4, <1>5, <1>6, <1>7 DEF TypeOK, Positions
  <1> QED BY <1>1, <1>2, <1>4, <1>8 DEF PipeInv

\* A byte put into the ring is appended to the queue.
LEMMA PutStep ==
    ASSUME PipeInv, NEW p \in Procs, WriteByte(p)
    PROVE  PipeInv' /\ F!Put
  <1>1. TypeOK /\ nread \in Counters /\ nwrite \in Counters /\ Count <= PIPESIZE
    BY Zenon DEF PipeInv, TypeOK, Counters
  <1>2. PICK b \in Bytes : data' = [data EXCEPT ![nwrite % PIPESIZE] = b]
    BY Zenon DEF WriteByte
  <1>3. nread' = nread /\ nwrite' = (nwrite + 1) % UintSize
    BY DEF WriteByte
  <1>4. nwrite' = IF nwrite + 1 < UintSize THEN nwrite + 1 ELSE 0
    BY SMT, <1>1, <1>3, Sizes, SmallRemainder DEF Counters
  <1>5. nread' \in Counters /\ nwrite' \in Counters
    BY <1>1, <1>3, <1>4, Sizes DEF Counters
  <1>6. Count < PIPESIZE /\ Count \in Nat
    BY SMT, <1>1, CountIs, FullIs, Sizes DEF WriteByte, Counters
  <1>7. Count' = IF nwrite' >= nread' THEN nwrite' - nread' ELSE nwrite' + UintSize - nread'
    BY <1>5, Distance DEF Count
  <1>8. Count' = Count + 1
    BY <1>1, <1>3, <1>4, <1>6, <1>7, CountIs, Sizes DEF Counters
  <1>9. nwrite % PIPESIZE \in 0..(PIPESIZE - 1)
    BY <1>1, Sizes DEF Counters
  <1>10. data' \in [0..(PIPESIZE - 1) -> Bytes]
    BY Zenon, <1>1, <1>2 DEF TypeOK
  <1>11. PipeInv'
    <2>1. i' \in [Procs -> 0..MaxCount]
      <3>1. i[p] < n[p] /\ i[p] \in 0..MaxCount /\ n[p] \in 0..MaxCount
        BY <1>1 DEF WriteByte, TypeOK
      <3>2. i[p] + 1 \in 0..MaxCount
        BY <3>1, Sizes
      <3> QED BY <1>1, <3>2 DEF WriteByte, TypeOK
    <2>2. UNCHANGED <<readopen, writeopen, open, lock, pc, n, chan, asleep, killed>>
      BY DEF WriteByte, ends
    <2>3. TypeOK'
      BY <1>1, <1>5, <1>10, <2>1, <2>2 DEF TypeOK, Counters
    <2>4. Count' <= PIPESIZE
      BY <1>6, <1>8, Sizes
    <2> QED BY <2>2, <2>3, <2>4 DEF PipeInv
  <1>12. readopen /\ writeopen /\ UNCHANGED <<readopen, writeopen>>
    BY DEF WriteByte, ends, PipeInv, Procs
  <1>13. Queue \in Seq(Bytes) /\ Len(Queue) = Count
    BY <1>1, QueueIs DEF TypeOK
  <1>14. \A m \in 1..Count : (nread + m - 1) % PIPESIZE # nwrite % PIPESIZE
    <2> SUFFICES ASSUME NEW m \in 1..Count
                 PROVE  (nread + m - 1) % PIPESIZE # nwrite % PIPESIZE
      OBVIOUS
    <2>1. /\ nread + m - 1 \in Nat /\ nread + Count \in Nat
          /\ nread + m - 1 < nread + Count /\ nread + Count < (nread + m - 1) + PIPESIZE
      BY <1>1, <1>6, Sizes DEF Counters
    <2>2. (nread + m - 1) % PIPESIZE # (nread + Count) % PIPESIZE
      BY Zenon, <2>1, NearDiffer, Sizes
    <2> QED BY <1>1, <2>2, TailPlace
  <1>15. Queue' = [m \in 1..(Count + 1) |-> data'[(nread + m - 1) % PIPESIZE]]
    BY <1>3, <1>8 DEF Queue
  <1>16. \A m \in 1..Count : (nread + m - 1) % PIPESIZE \in 0..(PIPESIZE - 1)
    BY <1>1, <1>6, Sizes DEF Counters
  <1>17. \A m \in 1..(Count + 1) : Queue'[m] = IF m = Count + 1 THEN b ELSE Queue[m]
    <2> SUFFICES ASSUME NEW m \in 1..(Count + 1)
                 PROVE  Queue'[m] = IF m = Count + 1 THEN b ELSE Queue[m]
      OBVIOUS
    <2>1. CASE m = Count + 1
      <3>1. (nread + m - 1) % PIPESIZE = nwrite % PIPESIZE
        <4>1. nread + m - 1 = nread + Count
          BY <1>1, <1>6, <2>1 DEF Counters
        <4> QED BY <1>1, <4>1, TailPlace
      <3> QED BY <1>1, <1>2, <1>9, <1>15, <2>1, <3>1 DEF TypeOK
    <2>2. CASE m # Count + 1
      <3>1. m \in 1..Count
        BY <1>6, <2>2
      <3> QED BY Zenon, <1>1, <1>2, <1>14, <1>15, <1>16, <2>2, <3>1 DEF TypeOK, Queue
    <2> QED BY <2>1, <2>2
  <1>18. Queue' = Append(Queue, b)
    <2>1. /\ Append(Queue, b) \in Seq(Bytes) /\ Len(Append(Queue, b)) = Count + 1
          /\ \A m \in 1..(Count + 1) :
                 Append(Queue, b)[m] = IF m = Count + 1 THEN b ELSE Queue[m]
      BY <1>6, <1>13
    <2>2. Queue' \in [1..(Count + 1) -> Bytes]
      <3>1. \A m \in 1..Count : Queue[m] \in Bytes
        BY <1>13, SeqElement
      <3>2. \A m \in 1..(Count + 1) : m \in 1..Count \/ m = Count + 1
        BY <1>6
      <3>3. \A m \in 1..(Count + 1) : Queue'[m] \in Bytes
        BY <1>17, <3>1, <3>2
      <3> QED BY <1>15, <3>3
    <2>3. Queue' \in Seq(Bytes) /\ Len(Queue') = Count + 1
      BY <1>6, <2>2
    <2> QED BY <1>17, <2>1, <2>3, SeqAgree
  <1> QED BY <1>6, <1>11, <1>12, <1>13, <1>18 DEF F!Put

\* A byte taken from the ring is the head of the queue.
LEMMA GetStep ==
    ASSUME PipeInv, NEW p \in Procs, ReadByte(p)
    PROVE  PipeInv' /\ F!Get
  <1>1. TypeOK /\ nread \in Counters /\ nwrite \in Counters /\ Count <= PIPESIZE
    BY Zenon DEF PipeInv, TypeOK, Counters
  <1>2. data' = data /\ nwrite' = nwrite /\ nread' = (nread + 1) % UintSize
    BY DEF ReadByte
  <1>3. nread' = IF nread + 1 < UintSize THEN nread + 1 ELSE 0
    BY SMT, <1>1, <1>2, Sizes, SmallRemainder DEF Counters
  <1>4. nread' \in Counters /\ nwrite' \in Counters
    BY <1>1, <1>2, <1>3, Sizes DEF Counters
  <1>5. Count \in Nat /\ Count > 0
    BY <1>1, CountIs, Sizes DEF ReadByte, Empty, Counters
  <1>6. Count' = IF nwrite' >= nread' THEN nwrite' - nread' ELSE nwrite' + UintSize - nread'
    BY <1>4, Distance DEF Count
  <1>7. Count' = Count - 1
    BY <1>1, <1>2, <1>3, <1>5, <1>6, CountIs, Sizes DEF Counters
  <1>8. PipeInv'
    <2>1. i' \in [Procs -> 0..MaxCount]
      <3>1. i[p] < n[p] /\ i[p] \in 0..MaxCount /\ n[p] \in 0..MaxCount
        BY <1>1 DEF ReadByte, TypeOK
      <3>2. i[p] + 1 \in 0..MaxCount
        BY <3>1, Sizes
      <3> QED BY <1>1, <3>2 DEF ReadByte, TypeOK
    <2>2. UNCHANGED <<data, readopen, writeopen, open, lock, pc, n, chan, asleep, killed>>
      BY DEF ReadByte, ends
    <2>3. TypeOK'
      BY <1>1, <1>4, <2>1, <2>2 DEF TypeOK, Counters
    <2>4. Count' <= PIPESIZE
      BY <1>1, <1>5, <1>7, Sizes
    <2> QED BY <2>2, <2>3, <2>4 DEF PipeInv
  <1>9. readopen /\ UNCHANGED <<readopen, writeopen>>
    BY DEF ReadByte, ends, PipeInv, Procs
  <1>10. Queue \in Seq(Bytes) /\ Len(Queue) = Count
    BY <1>1, QueueIs DEF TypeOK
  <1>11. Queue' = [m \in 1..(Count - 1) |-> data[(nread' + m - 1) % PIPESIZE]]
    BY <1>2, <1>7 DEF Queue
  <1>12. \A m \in 1..(Count - 1) : Queue'[m] = Queue[m + 1]
    <2> SUFFICES ASSUME NEW m \in 1..(Count - 1) PROVE Queue'[m] = Queue[m + 1]
      OBVIOUS
    <2>1. m \in Nat /\ m + 1 \in 1..Count /\ nread + (m + 1) - 1 = nread + m
      BY <1>1, <1>5 DEF Counters
    <2>2. (nread' + m - 1) % PIPESIZE = (nread + m) % PIPESIZE
      <3>1. CASE nread + 1 < UintSize
        <4>1. nread' + m - 1 = nread + m
          BY <1>1, <1>3, <2>1, <3>1 DEF Counters
        <4> QED BY <4>1
      <3>2. CASE ~(nread + 1 < UintSize)
        <4>1. nread + m = (m - 1) + UintSize /\ nread' + m - 1 = m - 1 /\ m - 1 \in Nat
          BY <1>1, <1>3, <2>1, <3>2, Sizes DEF Counters
        <4>2. ((m - 1) + UintSize) % PIPESIZE = (m - 1) % PIPESIZE
          BY Zenon, <4>1, AddMultiple, Sizes
        <4> QED BY <4>1, <4>2
      <3> QED BY <3>1, <3>2
    <2>3. Queue[m + 1] = data[(nread + m) % PIPESIZE]
      BY <2>1 DEF Queue
    <2> QED BY <1>11, <2>2, <2>3
  <1>13. Queue # << >>
    BY <1>5, <1>10
  <1>14. Queue' = Tail(Queue)
    <2>1. /\ Tail(Queue) \in Seq(Bytes) /\ Len(Tail(Queue)) = Count - 1
          /\ \A m \in 1..(Count - 1) : Tail(Queue)[m] = Queue[m + 1]
      BY <1>10, <1>13, SeqFirst
    <2>2. Queue' \in [1..(Count - 1) -> Bytes]
      <3>1. \A m \in 1..(Count - 1) : Queue[m + 1] \in Bytes
        BY <1>5, <1>10, SeqElement
      <3> QED BY <1>11, <1>12, <3>1
    <2>3. Queue' \in Seq(Bytes) /\ Len(Queue') = Count - 1
      BY <1>5, <2>2
    <2> QED BY <1>12, <2>1, <2>3, SeqAgree
  <1> QED BY <1>8, <1>9, <1>13, <1>14 DEF F!Get

\* pipeclose() closes at most one end, and that once.
LEMMA CloseStep ==
    ASSUME PipeInv, NEW p \in Procs, pipeclose(p)
    PROVE  PipeInv' /\ (F!CloseRead \/ F!CloseWrite \/ UNCHANGED F!vars)
  <1>1. /\ UNCHANGED <<data, nread, nwrite, lock, pc, n, i, killed>>
        /\ open' = open \ {p} /\ pc[p] = "idle"
    BY DEF pipeclose, ring, locals
  <1>2. UNCHANGED <<Count, Queue>>
    BY <1>1 DEF Count, Queue
  <1>3. /\ writeopen' = (writeopen /\ open' \cap Writers # {})
        /\ readopen' = (readopen /\ open' \cap Readers # {})
    BY DEF pipeclose
  <1>4. /\ writeopen' \in BOOLEAN /\ (writeopen' <=> open' \cap Writers # {})
        /\ readopen' \in BOOLEAN /\ (readopen' <=> open' \cap Readers # {})
    BY Zenon, <1>1, <1>3 DEF PipeInv
  <1>5. chan' \in [Procs -> {"none", "nread", "nwrite"}] /\ asleep' \in [Procs -> BOOLEAN]
    <2>1. TypeOK
      BY DEF PipeInv
    <2>2. CASE UNCHANGED <<chan, asleep>>
      BY <2>1, <2>2 DEF TypeOK
    <2>3. CASE wakeup("nread", {}, "none") \/ wakeup("nwrite", {}, "none")
      <3>1. chan' \in [Procs -> {"none", "nread", "nwrite"}]
        BY SMT, <2>1, <2>3 DEF TypeOK, wakeup
      <3>2. \/ asleep' = [r \in Procs |-> asleep[r] /\ chan[r] # "nread"]
            \/ asleep' = [r \in Procs |-> asleep[r] /\ chan[r] # "nwrite"]
        BY Zenon, <2>3 DEF wakeup
      <3>3. asleep' \in [Procs -> BOOLEAN]
        BY Zenon, <3>2
      <3> QED BY <3>1, <3>3
    <2> QED BY <2>2, <2>3 DEF pipeclose
  <1>6. TypeOK'
    BY Zenon, <1>1, <1>4, <1>5 DEF PipeInv, TypeOK
  <1>7. PipeInv'
    BY <1>1, <1>2, <1>4, <1>6 DEF PipeInv
  <1>8. writeopen' = writeopen \/ readopen' = readopen
    <2>1. p \notin Writers \/ p \notin Readers
      BY PipeAssumption
    <2>2. open' \cap Writers = open \cap Writers \/ open' \cap Readers = open \cap Readers
      BY <1>1, <2>1
    <2> QED BY SMT, <1>4, <2>2 DEF PipeInv, TypeOK
  <1>9. (writeopen' = writeopen \/ (writeopen /\ writeopen' = FALSE))
        /\ (readopen' = readopen \/ (readopen /\ readopen' = FALSE))
    BY <1>3, <1>4 DEF PipeInv, TypeOK
  <1> QED BY <1>2, <1>7, <1>8, <1>9 DEF F!CloseRead, F!CloseWrite, F!vars

\* Every step keeps the invariant and is a step of the queue, or none.
LEMMA NextStep == PipeInv /\ [Next]_vars => PipeInv' /\ [F!Next]_(F!vars)
  <1> SUFFICES ASSUME PipeInv, [Next]_vars PROVE PipeInv' /\ [F!Next]_(F!vars)
    OBVIOUS
  <1>1. ASSUME NEW p \in Procs, Quiet(p) PROVE PipeInv' /\ [F!Next]_(F!vars)
    BY <1>1, QuietStep DEF F!vars
  <1>2. ASSUME NEW p \in Procs, WriteByte(p) PROVE PipeInv' /\ [F!Next]_(F!vars)
    BY <1>2, PutStep DEF F!Next
  <1>3. ASSUME NEW p \in Procs, ReadByte(p) PROVE PipeInv' /\ [F!Next]_(F!vars)
    BY <1>3, GetStep DEF F!Next
  <1>4. ASSUME NEW p \in Procs, pipeclose(p) PROVE PipeInv' /\ [F!Next]_(F!vars)
    BY <1>4, CloseStep DEF F!Next
  <1>5. CASE UNCHANGED vars
    BY <1>5 DEF vars, ring, ends, locals, PipeInv, TypeOK, Count, Queue, F!vars
  <1> QED BY <1>1, <1>2, <1>3, <1>4, <1>5 DEF Next, Going, Quiet

\* PipeInv is an invariant: a process inside piperead() or pipewrite() holds
\* its end open, and the counters are never more than PIPESIZE apart.
THEOREM Invariance == Spec => []PipeInv
  BY InitInv, NextStep, PTL DEF Spec

\* Every variable of the pipe keeps its type.
THEOREM TypeCorrect == Spec => []TypeOK
  <1>1. PipeInv => TypeOK
    BY DEF PipeInv
  <1> QED BY Invariance, <1>1, PTL

\* piperead(), pipewrite() and pipeclose() implement a bounded queue of bytes.
THEOREM Refinement == Spec => ImplementsFifo
  BY InitInv, NextStep, PTL DEF Spec, ImplementsFifo, F!Spec

-----------------------------------------------------------------------------
(* The pipes of a pipeline (module Pipeline).                              *)

\* The ends the shell may hold at each point of stage c: what it keeps from
\* the stage before, and what it has opened for this one.
MayHold ==
    /\ at \in {"pipe", "feeder", "writer", "cmd"} =>
           fds[Shell] \subseteq
               UNION {Both(Sync),
                      IF c <= line.n THEN {R(Fd(c - 1))} ELSE {},
                      IF at # "pipe" /\ c < line.n THEN Both(Fd(c)) ELSE {},
                      IF at \in {"writer", "cmd"} /\ line.files[c] = Many THEN Both(In(c)) ELSE {},
                      IF at = "cmd" THEN Both(Out(c)) ELSE {}}
    /\ c <= line.n + 1
    /\ at \in {"feeder", "writer", "cmd", "failed"} => c <= line.n
    /\ at = "done" => fds[Shell] = {}
    /\ at = "failed" => fds[Shell] \subseteq {R(Fd(c - 1))} \cup Both(Fd(c))

\* The processes that execute() has forked.
Forked ==
    \A d \in Stages :
        /\ st[Cmd(d)] # "none" <=> d < c
        /\ st[Cmd(d)] = "gated" => line.bg
        /\ st[Feeder(d)] # "none" =>
               /\ line.files[d] = Many /\ st[Feeder(d)] \in {"run", "done"}
               /\ d < c \/ (d = c /\ at \in {"writer", "cmd"})
        /\ st[Writer(d)] # "none" =>
               /\ line.out[d] = Many /\ st[Writer(d)] \in {"run", "done"}
               /\ d < c \/ (d = c /\ at = "cmd")

\* What a process has from the shell that forked it.
Inherited(d) == {R(Fd(d - 1))} \cup Both(Fd(d))
FeedersPipe(d) == IF line.files[d] = Many THEN Both(In(d)) ELSE {}
MayKeep(p) ==
    LET d == p[2] IN
    CASE p[1] = "feeder" -> Both(Sync) \cup Inherited(d) \cup {W(In(d))}
      [] p[1] = "writer" -> Both(Sync) \cup Inherited(d) \cup FeedersPipe(d) \cup {R(Out(d))}
      [] OTHER -> {R(Sync)} \cup Inherited(d) \cup Both(In(d)) \cup Both(Out(d))

\* The ends that the children may hold, and those that a command holds when
\* it runs.
Holders ==
    /\ \A p \in Children : /\ fds[p] \subseteq MayKeep(p)
                           /\ st[p] \in {"none", "done"} => fds[p] = {}
    /\ \A d \in Stages : st[Cmd(d)] = "run" => fds[Cmd(d)] = Stdin(d) \cup Stdout(d)

PipelineInv == PipelineTypeOK /\ MayHold /\ Forked /\ Holders

\* The numbers of stages, and the names of processes and pipes.
LEMMA Names ==
    /\ MaxStages \in Nat /\ MaxStages >= 1 /\ Stages = 1..MaxStages
    /\ Shell \in Processes /\ Shell \notin Children /\ Children \subseteq Processes
    /\ \A d \in Stages : /\ Cmd(d) \in Children /\ Feeder(d) \in Children /\ Writer(d) \in Children
                         /\ Fd(d) \in Pipes /\ In(d) \in Pipes /\ Out(d) \in Pipes
    /\ Sync \in Pipes
  BY PipelineAssumption DEF Stages, Shell, Processes, Children, Cmd, Feeder, Writer,
                            Fd, In, Out, Pipes, Sync

\* The two ends of a pipe are ends.
LEMMA Ends ==
    ASSUME NEW pipe \in Pipes
    PROVE  Both(pipe) \subseteq Pipes \X {"read", "write"}
           /\ R(pipe) \in Pipes \X {"read", "write"} /\ W(pipe) \in Pipes \X {"read", "write"}
  BY DEF Both, R, W

\* The processes are told apart by what they are and by their stage.
LEMMA ProcessesDiffer ==
    /\ \A p \in Children : \E d \in Stages : p = Cmd(d) \/ p = Feeder(d) \/ p = Writer(d)
    /\ \A d \in Stages, e \in Stages :
           /\ Cmd(d) # Feeder(e) /\ Cmd(d) # Writer(e) /\ Feeder(d) # Writer(e)
           /\ Cmd(d) = Cmd(e) => d = e
           /\ Feeder(d) = Feeder(e) => d = e
           /\ Writer(d) = Writer(e) => d = e
  BY DEF Children, Cmd, Feeder, Writer

\* MayKeep for each kind of process.
LEMMA KeepIs ==
    ASSUME NEW d \in Stages
    PROVE  /\ MayKeep(Feeder(d)) = Both(Sync) \cup Inherited(d) \cup {W(In(d))}
           /\ MayKeep(Writer(d)) = Both(Sync) \cup Inherited(d) \cup FeedersPipe(d) \cup {R(Out(d))}
           /\ MayKeep(Cmd(d)) = {R(Sync)} \cup Inherited(d) \cup Both(In(d)) \cup Both(Out(d))
  BY DEF MayKeep, Cmd, Feeder, Writer

\* Before the first stage the shell holds sync_pipe at most, and there are no
\* other processes.
LEMMA PipelineInitInv == PipelineInit => PipelineInv
  <1> SUFFICES ASSUME PipelineInit PROVE PipelineInv
    OBVIOUS
  <1>1. PipelineTypeOK
    BY SMT, Names, Ends DEF PipelineInit, PipelineTypeOK, Stages
  <1>2. MayHold
    <2>1. line.n \in Nat /\ line.n >= 1 /\ line.bg \in BOOLEAN
      BY SMT, Names DEF PipelineInit, Lines
    <2>2. fds[Shell] \subseteq Both(Sync)
      BY Names DEF PipelineInit
    <2> QED BY <2>1, <2>2 DEF PipelineInit, MayHold
  <1>3. \A p \in Children : fds[p] = {} /\ st[p] = "none"
    BY Names DEF PipelineInit
  <1>4. Forked
    <2>1. c = 1
      BY DEF PipelineInit
    <2> QED BY SMT, Names, <1>3, <2>1 DEF Forked
  <1>5. Holders
    BY Names, <1>3 DEF Holders
  <1> QED BY <1>1, <1>2, <1>4, <1>5 DEF PipelineInv

\* Every step keeps the types.
LEMMA PipelineNextType == PipelineInv /\ [PipelineNext]_pipelineVars => PipelineTypeOK'
  <1> SUFFICES ASSUME PipelineInv, [PipelineNext]_pipelineVars PROVE PipelineTypeOK'
    OBVIOUS
  <1>n. /\ line.n \in Nat /\ line.n >= 1 /\ line.n <= MaxStages /\ c \in Nat /\ c >= 1
        /\ PipelineTypeOK /\ MayHold
        /\ (c <= line.n => c \in Stages)
    BY SMTT(30), Names DEF PipelineInv, PipelineTypeOK, Lines
  <1> USE Names DEF PipelineTypeOK
  <1>1. CASE StagePipe
    <2>1. fds' = [fds EXCEPT ![Shell] = @ \cup (IF c < line.n THEN Both(Fd(c)) ELSE {})]
      BY <1>1 DEF StagePipe, Open
    <2>2. Both(Fd(c)) \subseteq Pipes \X {"read", "write"}
      BY <1>1, <1>n, Ends DEF StagePipe
    <2>3. fds' \in [Processes -> SUBSET (Pipes \X {"read", "write"})]
      BY <1>n, <2>1, <2>2
    <2> QED BY <1>1, <1>n, <2>3 DEF StagePipe
  <1>2. CASE ExecuteFails
    BY <1>2, <1>n DEF ExecuteFails
  <1>3. CASE ForkFeeder
    <2>1. c \in Stages
      BY <1>3, <1>n DEF ForkFeeder, MayHold
    <2>2. Both(In(c)) \subseteq Pipes \X {"read", "write"} /\ W(In(c)) \in Pipes \X {"read", "write"}
      BY <2>1, Ends
    <2>3. fds' \in [Processes -> SUBSET (Pipes \X {"read", "write"})]
      BY SMT, <1>3, <1>n, <2>1, <2>2 DEF ForkFeeder
    <2> QED BY <1>3, <1>n, <2>3 DEF ForkFeeder
  <1>4. CASE ForkWriter
    <2>1. c \in Stages
      BY <1>4, <1>n DEF ForkWriter, MayHold
    <2>2. Both(Out(c)) \subseteq Pipes \X {"read", "write"} /\ R(Out(c)) \in Pipes \X {"read", "write"}
      BY <2>1, Ends
    <2>3. fds' \in [Processes -> SUBSET (Pipes \X {"read", "write"})]
      BY SMT, <1>4, <1>n, <2>1, <2>2 DEF ForkWriter
    <2> QED BY <1>4, <1>n, <2>3 DEF ForkWriter
  <1>5. CASE ForkCmd
    <2>1. c \in Stages /\ c + 1 \in 1..(MaxStages + 1)
      BY SMT, <1>5, <1>n DEF ForkCmd, MayHold
    <2>2. fds' \in [Processes -> SUBSET (Pipes \X {"read", "write"})]
      BY <1>5, <1>n, <2>1 DEF ForkCmd, ParentKeeps
    <2>3. st' \in [Children -> {"none", "gated", "start", "run", "done"}]
      BY <1>5, <1>n, <2>1 DEF ForkCmd
    <2> QED BY <1>5, <1>n, <2>1, <2>2, <2>3 DEF ForkCmd
  <1>6. CASE ExecuteEnds
    BY <1>6, <1>n DEF ExecuteEnds
  <1>7. ASSUME NEW d \in Stages, PassGate(d) PROVE PipelineTypeOK'
    BY <1>7, <1>n DEF PassGate
  <1>8. ASSUME NEW d \in Stages, Wire(d) PROVE PipelineTypeOK'
    <2>1. Stdin(d) \cup Stdout(d) \subseteq Pipes \X {"read", "write"}
      <3>1. d > 1 => d - 1 \in Stages
        BY DEF Stages
      <3>2. d > 1 => R(Fd(d - 1)) \in Pipes \X {"read", "write"}
        BY <3>1, Ends
      <3>3. {R(In(d)), W(Out(d)), W(Fd(d))} \subseteq Pipes \X {"read", "write"}
        BY Ends
      <3> QED BY <3>2, <3>3 DEF Stdin, Stdout
    <2>2. fds' \in [Processes -> SUBSET (Pipes \X {"read", "write"})]
      BY <1>8, <1>n, <2>1 DEF Wire
    <2> QED BY <1>8, <1>n, <2>2 DEF Wire
  <1>9. ASSUME NEW p \in Children, End(p) PROVE PipelineTypeOK'
    BY <1>9, <1>n DEF End
  <1>10. CASE UNCHANGED pipelineVars
    BY <1>10, <1>n DEF pipelineVars
  <1> QED BY <1>1, <1>2, <1>3, <1>4, <1>5, <1>6, <1>7, <1>8, <1>9, <1>10 DEF PipelineNext

\* Every step of execute() keeps the account of the shell's ends; the steps of
\* the children do not touch them.
LEMMA NextHold == PipelineInv /\ [PipelineNext]_pipelineVars => MayHold'
  <1> SUFFICES ASSUME PipelineInv, [PipelineNext]_pipelineVars PROVE MayHold'
    OBVIOUS
  <1>n. /\ line.n \in Nat /\ line.n >= 1 /\ c \in Nat /\ c >= 1
        /\ fds \in [Processes -> SUBSET (Pipes \X {"read", "write"})] /\ MayHold
    BY SMT, Names DEF PipelineInv, PipelineTypeOK, Lines
  <1> USE Names
  <1>1. CASE StagePipe
    BY SMT, <1>1, <1>n DEF StagePipe, Open, MayHold
  <1>2. CASE ExecuteFails
    BY SMT, <1>2, <1>n DEF ExecuteFails, MayHold
  <1>3. CASE ForkFeeder
    BY SMT, <1>3, <1>n DEF ForkFeeder, MayHold
  <1>4. CASE ForkWriter
    BY SMT, <1>4, <1>n DEF ForkWriter, MayHold
  <1>5. CASE ForkCmd
    <2>1. c <= line.n /\ (c + 1) - 1 = c
      BY SMT, <1>5, <1>n DEF ForkCmd, MayHold
    <2>2. fds[Shell] \subseteq
              UNION {Both(Sync), {R(Fd(c - 1))}, IF c < line.n THEN Both(Fd(c)) ELSE {},
                     Both(In(c)), Both(Out(c))}
      <3>1. at = "cmd"
        BY <1>5 DEF ForkCmd
      <3> QED BY <1>n, <2>1, <3>1 DEF MayHold
    <2>3. fds'[Shell] = ParentKeeps
      BY <1>5, <1>n DEF ForkCmd
    <2>4. fds'[Shell] \subseteq Both(Sync) \cup (IF c < line.n THEN {R(Fd(c))} ELSE {})
      BY SMT, <2>2, <2>3 DEF ParentKeeps, Both
    <2> QED BY SMT, <1>5, <1>n, <2>1, <2>4 DEF ForkCmd, MayHold
  <1>6. CASE ExecuteEnds
    <2>1. fds[Shell] \subseteq Both(Sync)
      BY SMT, <1>6, <1>n DEF ExecuteEnds, MayHold
    <2> QED BY <1>6, <1>n, <2>1 DEF ExecuteEnds, MayHold
  <1>7. ASSUME NEW d \in Stages, PassGate(d) PROVE MayHold'
    BY <1>7, <1>n DEF PassGate, MayHold
  <1>8. ASSUME NEW d \in Stages, Wire(d) PROVE MayHold'
    <2>1. fds'[Shell] = fds[Shell] /\ UNCHANGED <<line, c, at>>
      BY <1>8, <1>n DEF Wire
    <2> QED BY <1>n, <2>1 DEF MayHold
  <1>9. ASSUME NEW p \in Children, End(p) PROVE MayHold'
    <2>1. fds'[Shell] = fds[Shell] /\ UNCHANGED <<line, c, at>>
      BY <1>9, <1>n DEF End
    <2> QED BY <1>n, <2>1 DEF MayHold
  <1>10. CASE UNCHANGED pipelineVars
    BY <1>10, <1>n DEF pipelineVars, MayHold
  <1> QED BY <1>1, <1>2, <1>3, <1>4, <1>5, <1>6, <1>7, <1>8, <1>9, <1>10 DEF PipelineNext

\* Every step keeps the account of the processes that are forked.
LEMMA NextForked == PipelineInv /\ [PipelineNext]_pipelineVars => Forked'
  <1> SUFFICES ASSUME PipelineInv, [PipelineNext]_pipelineVars PROVE Forked'
    OBVIOUS
  <1>n. /\ line.n \in Nat /\ c \in Nat /\ c >= 1 /\ c <= line.n + 1
        /\ st \in [Children -> {"none", "gated", "start", "run", "done"}]
        /\ Forked /\ (at \in {"feeder", "writer", "cmd"} => c \in Stages)
    BY SMT, Names DEF PipelineInv, PipelineTypeOK, Lines, MayHold
  <1> USE Names, ProcessesDiffer
  <1>1. CASE StagePipe \/ ExecuteFails \/ ExecuteEnds
    BY <1>1, <1>n DEF StagePipe, ExecuteFails, ExecuteEnds, Forked
  <1>2. CASE ForkFeeder
    <2> SUFFICES ASSUME NEW d \in Stages PROVE Forked!(d)'
      BY DEF Forked
    <2> QED BY <1>2, <1>n DEF ForkFeeder, Forked
  <1>3. CASE ForkWriter
    <2> SUFFICES ASSUME NEW d \in Stages PROVE Forked!(d)'
      BY DEF Forked
    <2> QED BY <1>3, <1>n DEF ForkWriter, Forked
  <1>4. CASE ForkCmd
    <2> SUFFICES ASSUME NEW d \in Stages PROVE Forked!(d)'
      BY DEF Forked
    <2> QED BY SMT, <1>4, <1>n DEF ForkCmd, Forked
  <1>5. ASSUME NEW e \in Stages, PassGate(e) \/ Wire(e) PROVE Forked'
    <2> SUFFICES ASSUME NEW d \in Stages PROVE Forked!(d)'
      BY DEF Forked
    <2> QED BY SMT, <1>5, <1>n DEF PassGate, Wire, Forked
  <1>6. ASSUME NEW p \in Children, End(p) PROVE Forked'
    <2> SUFFICES ASSUME NEW d \in Stages PROVE Forked!(d)'
      BY DEF Forked
    <2> QED BY <1>6, <1>n DEF End, CanEnd, Forked
  <1>7. CASE UNCHANGED pipelineVars
    BY <1>7, <1>n DEF pipelineVars, Forked
  <1> QED BY <1>1, <1>2, <1>3, <1>4, <1>5, <1>6, <1>7 DEF PipelineNext

\* Every step keeps the account of the ends that the children hold: a process
\* starts with those of the shell.
LEMMA NextHolders == PipelineInv /\ [PipelineNext]_pipelineVars => Holders'
  <1> SUFFICES ASSUME PipelineInv, [PipelineNext]_pipelineVars PROVE Holders'
    OBVIOUS
  <1>n. /\ line.n \in Nat /\ c \in Nat /\ c >= 1
        /\ st \in [Children -> {"none", "gated", "start", "run", "done"}]
        /\ fds \in [Processes -> SUBSET (Pipes \X {"read", "write"})]
        /\ Holders /\ (at \in {"feeder", "writer", "cmd"} => c \in Stages)
    BY SMT, Names DEF PipelineInv, PipelineTypeOK, Lines, MayHold
  <1>l. line' = line /\ \A p : MayKeep(p)' = MayKeep(p)
    <2>1. line' = line
      BY DEF PipelineNext, StagePipe, ExecuteFails, ForkFeeder, ForkWriter, ForkCmd, ExecuteEnds,
             PassGate, Wire, End, pipelineVars
    <2> QED BY <2>1 DEF MayKeep, FeedersPipe
  <1>k. \A d \in Stages : Stdin(d)' = Stdin(d) /\ Stdout(d)' = Stdout(d)
    BY <1>l DEF Stdin, Stdout
  <1> USE Names, ProcessesDiffer
  \* A step that changes what one child holds, and its state.
  <1>0. ASSUME NEW p \in Children,
               \A q \in Children \ {p} : fds'[q] = fds[q] /\ st'[q] = st[q],
               fds'[p] \subseteq MayKeep(p),
               st'[p] \in {"none", "done"} => fds'[p] = {},
               \A d \in Stages : p = Cmd(d) /\ st'[p] = "run" => fds'[p] = Stdin(d) \cup Stdout(d)
        PROVE  Holders'
    <2>1. ASSUME NEW q \in Children
          PROVE  fds'[q] \subseteq MayKeep(q) /\ (st'[q] \in {"none", "done"} => fds'[q] = {})
      BY <1>0, <1>n DEF Holders
    <2>2. ASSUME NEW d \in Stages, st'[Cmd(d)] = "run"
          PROVE  fds'[Cmd(d)] = Stdin(d) \cup Stdout(d)
      BY <1>0, <1>n, <2>2 DEF Holders
    <2> QED BY <1>l, <1>k, <2>1, <2>2 DEF Holders
  <1>1. CASE StagePipe \/ ExecuteFails \/ ExecuteEnds \/ UNCHANGED pipelineVars
    <2>1. \A q \in Children : fds'[q] = fds[q] /\ st'[q] = st[q]
      BY <1>1, <1>n DEF StagePipe, Open, ExecuteFails, ExecuteEnds, pipelineVars
    <2> QED BY <1>l, <1>k, <1>n, <2>1 DEF Holders
  <1>2. CASE ForkFeeder
    <2>1. CASE line.files[c] = Many
      <3>1. /\ at = "feeder" /\ c \in Stages
            /\ fds' = [fds EXCEPT ![Shell] = @ \cup Both(In(c)), ![Feeder(c)] = fds[Shell] \cup {W(In(c))}]
            /\ st' = [st EXCEPT ![Feeder(c)] = "run"]
        BY <1>2, <1>n, <2>1 DEF ForkFeeder
      <3>2. fds'[Feeder(c)] = fds[Shell] \cup {W(In(c))} /\ st'[Feeder(c)] = "run"
        BY <1>n, <3>1
      <3>3. fds[Shell] \subseteq Both(Sync) \cup Inherited(c)
        BY SMT, <1>n, <3>1 DEF PipelineInv, MayHold, Inherited
      <3>4. fds'[Feeder(c)] \subseteq MayKeep(Feeder(c))
        <4>1. MayKeep(Feeder(c)) = Both(Sync) \cup Inherited(c) \cup {W(In(c))}
          BY <3>1, KeepIs
        <4> QED BY <3>2, <3>3, <4>1
      <3>5. \A q \in Children \ {Feeder(c)} : fds'[q] = fds[q] /\ st'[q] = st[q]
        BY <1>n, <3>1
      <3>6. Feeder(c) \in Children /\ \A d \in Stages : Feeder(c) # Cmd(d)
        BY <3>1
      <3> QED BY <1>0, <3>2, <3>4, <3>5, <3>6
    <2>2. CASE line.files[c] # Many
      <3>1. UNCHANGED <<fds, st>>
        BY <1>2, <2>2 DEF ForkFeeder
      <3> QED BY <1>l, <1>k, <1>n, <3>1 DEF Holders
    <2> QED BY <2>1, <2>2
  <1>3. CASE ForkWriter
    <2>1. CASE line.out[c] = Many
      <3>1. /\ at = "writer" /\ c \in Stages
            /\ fds' = [fds EXCEPT ![Shell] = @ \cup Both(Out(c)), ![Writer(c)] = fds[Shell] \cup {R(Out(c))}]
            /\ st' = [st EXCEPT ![Writer(c)] = "run"]
        BY <1>3, <1>n, <2>1 DEF ForkWriter
      <3>2. fds'[Writer(c)] = fds[Shell] \cup {R(Out(c))} /\ st'[Writer(c)] = "run"
        BY <1>n, <3>1
      <3>3. fds[Shell] \subseteq Both(Sync) \cup Inherited(c) \cup FeedersPipe(c)
        BY SMT, <1>n, <3>1 DEF PipelineInv, MayHold, Inherited, FeedersPipe
      <3>4. fds'[Writer(c)] \subseteq MayKeep(Writer(c))
        <4>1. MayKeep(Writer(c)) = Both(Sync) \cup Inherited(c) \cup FeedersPipe(c) \cup {R(Out(c))}
          BY <3>1, KeepIs
        <4> QED BY <3>2, <3>3, <4>1
      <3>5. \A q \in Children \ {Writer(c)} : fds'[q] = fds[q] /\ st'[q] = st[q]
        BY <1>n, <3>1
      <3>6. Writer(c) \in Children /\ \A d \in Stages : Writer(c) # Cmd(d)
        BY <3>1
      <3> QED BY <1>0, <3>2, <3>4, <3>5, <3>6
    <2>2. CASE line.out[c] # Many
      <3>1. UNCHANGED <<fds, st>>
        BY <1>3, <2>2 DEF ForkWriter
      <3> QED BY <1>l, <1>k, <1>n, <3>1 DEF Holders
    <2> QED BY <2>1, <2>2
  <1>4. CASE ForkCmd
    <2>1. /\ at = "cmd" /\ c \in Stages
          /\ fds' = [fds EXCEPT ![Cmd(c)] = fds[Shell] \ {W(Sync)}, ![Shell] = ParentKeeps]
          /\ st' = [st EXCEPT ![Cmd(c)] = IF line.bg THEN "gated" ELSE "start"]
      BY <1>4, <1>n DEF ForkCmd
    <2>2. fds'[Cmd(c)] = fds[Shell] \ {W(Sync)} /\ st'[Cmd(c)] \in {"gated", "start"}
      BY SMT, <1>n, <2>1
    <2>3. fds[Shell] \subseteq Both(Sync) \cup Inherited(c) \cup Both(In(c)) \cup Both(Out(c))
      BY SMT, <1>n, <2>1 DEF PipelineInv, MayHold, Inherited
    <2>4. fds'[Cmd(c)] \subseteq MayKeep(Cmd(c))
      <3>1. MayKeep(Cmd(c)) = {R(Sync)} \cup Inherited(c) \cup Both(In(c)) \cup Both(Out(c))
        BY <2>1, KeepIs
      <3> QED BY <2>2, <2>3, <3>1 DEF Both
    <2>5. \A q \in Children \ {Cmd(c)} : fds'[q] = fds[q] /\ st'[q] = st[q]
      BY <1>n, <2>1
    <2> QED BY <1>0, <2>1, <2>2, <2>4, <2>5
  <1>5. ASSUME NEW e \in Stages, PassGate(e) PROVE Holders'
    <2>1. /\ \A q \in Children : fds'[q] = fds[q]
          /\ \A q \in Children \ {Cmd(e)} : st'[q] = st[q]
          /\ st[Cmd(e)] = "gated" /\ st'[Cmd(e)] = "start"
      BY <1>5, <1>n DEF PassGate
    <2> QED BY <1>0, <1>n, <2>1 DEF Holders
  <1>6. ASSUME NEW e \in Stages, Wire(e) PROVE Holders'
    <2>1. /\ \A q \in Children \ {Cmd(e)} : fds'[q] = fds[q] /\ st'[q] = st[q]
          /\ fds'[Cmd(e)] = Stdin(e) \cup Stdout(e) /\ st'[Cmd(e)] = "run"
      BY <1>6, <1>n DEF Wire
    <2>2. Stdin(e) \cup Stdout(e) \subseteq MayKeep(Cmd(e))
      BY SMT, KeepIs DEF Stdin, Stdout, Inherited, Both
    <2> QED BY <1>0, <2>1, <2>2
  <1>7. ASSUME NEW p \in Children, End(p) PROVE Holders'
    <2>1. /\ \A q \in Children \ {p} : fds'[q] = fds[q] /\ st'[q] = st[q]
          /\ fds'[p] = {} /\ st'[p] = "done"
      BY <1>7, <1>n DEF End
    <2> QED BY <1>0, <2>1
  <1> QED BY <1>1, <1>2, <1>3, <1>4, <1>5, <1>6, <1>7 DEF PipelineNext

\* The ends of the pipes are told apart by their pipe and their direction.
LEMMA EndsDiffer ==
    /\ \A x, y : R(x) # W(y) /\ (R(x) = R(y) => x = y) /\ (W(x) = W(y) => x = y)
    /\ \A d, e : /\ Sync # Fd(d) /\ Sync # In(d) /\ Sync # Out(d)
                 /\ Fd(d) # In(e) /\ Fd(d) # Out(e) /\ In(d) # Out(e)
                 /\ (Fd(d) = Fd(e) => d = e) /\ (In(d) = In(e) => d = e) /\ (Out(d) = Out(e) => d = e)
  BY DEF R, W, Sync, Fd, In, Out

\* A nonempty set of stages has a first one.
LEMMA FirstStage ==
    ASSUME NEW S \in SUBSET Stages, S # {}
    PROVE  \E d \in S : \A e \in S : ~(e < d)
  <1>1. S \subseteq Nat
    BY Names
  <1>2. \E d \in S : \A e \in S : ~(<<e, d>> \in OpToRel(<, Nat))
    BY Zenon, <1>1, NatLessThanWellFounded, WFMin
  <1> QED BY Zenon, <1>1, <1>2 DEF OpToRel

\* The processes that may hold the ends that somebody waits for.
Waited(q, d) ==
    /\ W(Sync) \in fds[q] => \E e \in Stages : q = Feeder(e) \/ q = Writer(e)
    /\ W(Fd(d)) \in fds[q] => q = Cmd(d) \/ q = Feeder(d) \/ q = Writer(d)
    /\ W(In(d)) \in fds[q] => q = Cmd(d) \/ q = Feeder(d) \/ (q = Writer(d) /\ line.files[d] = Many)
    /\ R(In(d)) \in fds[q] => q = Cmd(d) \/ (q = Writer(d) /\ line.files[d] = Many)
    /\ W(Out(d)) \in fds[q] => q = Cmd(d)

LEMMA WhoHolds ==
    ASSUME PipelineInv, at \in {"done", "failed"}, NEW d \in Stages, d < c, NEW q \in Processes
    PROVE  Waited(q, d)
  <1>1. CASE q = Shell
    <2>1. fds[q] \subseteq {R(Fd(c - 1))} \cup Both(Fd(c))
      BY <1>1 DEF PipelineInv, MayHold
    <2>2. d # c
      BY SMT, Names DEF PipelineInv, PipelineTypeOK
    <2> QED BY SMT, <2>1, <2>2, EndsDiffer DEF Both, Waited
  <1>2. CASE q \in Children
    <2>1. fds[q] \subseteq MayKeep(q)
      BY <1>2 DEF PipelineInv, Holders
    <2>2. PICK e \in Stages : q = Cmd(e) \/ q = Feeder(e) \/ q = Writer(e)
      BY <1>2, ProcessesDiffer
    <2>3. CASE q = Feeder(e)
      <3>1. fds[q] \subseteq Both(Sync) \cup Inherited(e) \cup {W(In(e))}
        BY <2>1, <2>3, KeepIs
      <3> QED BY SMT, <2>3, <3>1, EndsDiffer DEF Both, Inherited, Waited
    <2>4. CASE q = Writer(e)
      <3>1. fds[q] \subseteq Both(Sync) \cup Inherited(e) \cup FeedersPipe(e) \cup {R(Out(e))}
        BY <2>1, <2>4, KeepIs
      <3> QED BY SMT, <2>4, <3>1, EndsDiffer DEF Both, Inherited, FeedersPipe, Waited
    <2>5. CASE q = Cmd(e)
      <3>1. fds[q] \subseteq {R(Sync)} \cup Inherited(e) \cup Both(In(e)) \cup Both(Out(e))
        BY <2>1, <2>5, KeepIs
      <3> QED BY SMT, <2>5, <3>1, EndsDiffer DEF Both, Inherited, Waited
    <2> QED BY <2>2, <2>3, <2>4, <2>5
  <1> QED BY <1>1, <1>2 DEF Processes

\* When nobody can go on and no inherited end is in the way, everybody has
\* ended: feeders first, then the gates, then the commands from the first on,
\* each with its writer.
LEMMA StuckHeld == PipelineInv => StuckOnlyWhenHeldOpen
  <1> SUFFICES ASSUME PipelineInv, Stuck, ~HeldOpen, NEW p \in Children, st[p] \notin {"none", "done"}
               PROVE  FALSE
    BY DEF StuckOnlyWhenHeldOpen
  <1>0. /\ at \in {"done", "failed"} /\ Forked /\ line.n \in Nat /\ c \in Nat
        /\ \A q \in Children : st[q] \in {"none", "done"} => fds[q] = {}
        /\ \A q \in Children : st[q] \in {"none", "gated", "start", "run", "done"}
    BY SMT, Names DEF PipelineInv, PipelineTypeOK, Holders, Stuck, Lines
  <1>h. ASSUME NEW d \in Stages, d < c
        PROVE  /\ ~(line.files[d] = Many /\ line.out[d] = Many)
               /\ ~(line.bg /\ line.out[d] = Many)
               /\ ~(line.bg /\ line.files[d] = Many /\ line.big)
    <2>1. d <= line.n
      BY SMT, <1>h, <1>0, Names DEF PipelineInv, MayHold
    <2> QED BY <2>1 DEF HeldOpen
  <1>w. ASSUME NEW d \in Stages, st[Writer(d)] # "none" PROVE d < c /\ line.out[d] = Many
    BY <1>w, <1>0 DEF Forked
  <1>1. ASSUME NEW d \in Stages, st[Feeder(d)] \notin {"none", "done"} PROVE FALSE
    <2>1. st[Feeder(d)] = "run" /\ d < c /\ line.files[d] = Many /\ Feeder(d) \in Children
      BY <1>0, <1>1, Names DEF Forked
    <2>2. ~CanEnd(Feeder(d)) /\ Feeder(d)[1] = "feeder" /\ Feeder(d)[2] = d
      BY <2>1 DEF Stuck, Feeder
    <2>3. line.big /\ st[Cmd(d)] # "run" /\ \E q \in Processes : R(In(d)) \in fds[q]
      BY <2>1, <2>2 DEF CanEnd
    <2>4. PICK q \in Processes : R(In(d)) \in fds[q]
      BY <2>3
    <2>5. q = Cmd(d) \/ q = Writer(d)
      BY <2>1, <2>4, <1>0, WhoHolds DEF Waited
    <2>6. st[Cmd(d)] = "done"
      <3>1. st[Cmd(d)] \notin {"none", "start"}
        BY <2>1, <1>0 DEF Forked, Stuck
      <3>2. st[Cmd(d)] # "gated"
        BY <2>1, <2>3, <1>0, <1>h DEF Forked
      <3> QED BY <2>3, <3>1, <3>2, <1>0, Names
    <2>7. q = Writer(d) /\ st[q] # "none"
      BY <2>4, <2>5, <2>6, <1>0, Names
    <2> QED BY <2>1, <2>7, <1>h, <1>w
  <1>2. ASSUME NEW d \in Stages PROVE st[Cmd(d)] # "gated"
    <2> SUFFICES ASSUME st[Cmd(d)] = "gated" PROVE FALSE
      OBVIOUS
    <2>1. line.bg /\ d < c
      BY <1>0 DEF Forked
    <2>2. PICK q \in Processes : W(Sync) \in fds[q]
      BY DEF Stuck, EndOfFile
    <2>3. PICK e \in Stages : q = Feeder(e) \/ q = Writer(e)
      BY <2>1, <2>2, <1>0, WhoHolds DEF Waited
    <2>4. st[q] \notin {"none", "done"}
      BY <2>2, <2>3, <1>0, Names
    <2>5. q = Writer(e)
      BY <2>3, <2>4, <1>1
    <2> QED BY <2>1, <2>4, <2>5, <1>h, <1>w
  <1>3. ASSUME NEW d \in Stages, st[Cmd(d)] \in {"none", "done"} PROVE st[Writer(d)] \in {"none", "done"}
    <2> SUFFICES ASSUME st[Writer(d)] \notin {"none", "done"} PROVE FALSE
      OBVIOUS
    <2>1. st[Writer(d)] = "run" /\ d < c /\ Writer(d) \in Children
      BY <1>0, <1>w, Names DEF Forked
    <2>2. ~CanEnd(Writer(d)) /\ Writer(d)[1] = "writer" /\ Writer(d)[2] = d
      BY <2>1 DEF Stuck, Writer
    <2>3. ~EndOfFile(Out(d))
      BY <2>1, <2>2 DEF CanEnd
    <2>4. PICK q \in Processes : W(Out(d)) \in fds[q]
      BY <2>3 DEF EndOfFile
    <2>5. q = Cmd(d)
      BY <2>1, <2>4, <1>0, WhoHolds DEF Waited
    <2> QED BY <2>4, <2>5, <1>0, <1>3, Names
  <1> DEFINE S == {d \in Stages : st[Cmd(d)] \notin {"none", "done"}}
  <1>4. S = {}
    <2> SUFFICES ASSUME S # {} PROVE FALSE
      OBVIOUS
    <2>1. PICK d \in S : \A e \in S : ~(e < d)
      BY FirstStage
    <2>2. d \in Stages /\ d < c /\ st[Cmd(d)] = "run" /\ Cmd(d) \in Children
      BY <1>0, <1>2, Names DEF Forked, Stuck
    <2>3. ~CanEnd(Cmd(d)) /\ Cmd(d)[1] = "cmd"
      BY <2>2 DEF Stuck, Cmd
    <2>4. PICK pipe \in Pipes : R(pipe) \in fds[Cmd(d)] /\ ~EndOfFile(pipe)
      BY <2>2, <2>3 DEF CanEnd
    <2>5. PICK q \in Processes : W(pipe) \in fds[q]
      BY <2>4 DEF EndOfFile
    <2>6. fds[Cmd(d)] = Stdin(d) \cup Stdout(d)
      BY <2>2 DEF PipelineInv, Holders
    <2>7. R(pipe) \in Stdin(d)
      BY <2>4, <2>6, EndsDiffer DEF Stdout
    <2>8. CASE pipe = In(d) /\ line.files[d] = Many
      <3>1. q = Cmd(d) \/ q = Feeder(d) \/ q = Writer(d)
        BY <2>2, <2>5, <2>8, <1>0, WhoHolds DEF Waited
      <3>2. W(pipe) \notin fds[Cmd(d)]
        BY <2>6, <2>8, EndsDiffer DEF Stdin, Stdout
      <3>3. st[q] \notin {"none", "done"}
        BY <2>2, <2>5, <3>1, <1>0, Names
      <3>4. q = Writer(d)
        BY <2>2, <2>5, <3>1, <3>2, <3>3, <1>1
      <3> QED BY <2>2, <2>8, <3>3, <3>4, <1>h, <1>w
    <2>9. CASE pipe = Fd(d - 1) /\ d > 1
      <3>1. d - 1 \in Stages /\ d - 1 < d /\ d - 1 < c
        <4>1. d \in 1..MaxStages /\ MaxStages \in Nat /\ c \in Nat /\ d < c /\ d > 1
          BY <2>2, <2>9, <1>0, Names
        <4>2. d - 1 \in 1..MaxStages /\ d - 1 < d /\ d - 1 < c
          BY <4>1
        <4> QED BY <4>2, Names
      <3>2. q = Cmd(d - 1) \/ q = Feeder(d - 1) \/ q = Writer(d - 1)
        BY <2>5, <2>9, <3>1, <1>0, WhoHolds DEF Waited
      <3>3. st[q] \notin {"none", "done"}
        BY <2>5, <3>1, <3>2, <1>0, Names
      <3>4. st[Cmd(d - 1)] \in {"none", "done"}
        BY <2>1, <3>1
      <3> QED BY <3>1, <3>2, <3>3, <3>4, <1>1, <1>3
    <2> QED BY <2>7, <2>8, <2>9, EndsDiffer DEF Stdin
  <1>5. PICK d \in Stages : p = Cmd(d) \/ p = Feeder(d) \/ p = Writer(d)
    BY ProcessesDiffer
  <1> QED BY <1>1, <1>3, <1>4, <1>5

\* PipelineInv is an invariant of one execute() call and its children.
THEOREM PipelineInvariance == PipelineSpec => []PipelineInv
  <1>1. PipelineInv /\ [PipelineNext]_pipelineVars => PipelineInv'
    BY PipelineNextType, NextHold, NextForked, NextHolders DEF PipelineInv
  <1> QED BY PipelineInitInv, <1>1, PTL DEF PipelineSpec

\* Every variable of execute() and its children keeps its type.
THEOREM PipelineTypeCorrect == PipelineSpec => []PipelineTypeOK
  <1>1. PipelineInv => PipelineTypeOK
    BY DEF PipelineInv
  <1> QED BY PipelineInvariance, <1>1, PTL

\* An execute() call that succeeds leaves no pipe end open in the shell.
THEOREM ClosedSafety == PipelineSpec => []ShellClosesPipes
  <1>1. PipelineInv => ShellClosesPipes
    BY DEF PipelineInv, MayHold, ShellClosesPipes
  <1> QED BY PipelineInvariance, <1>1, PTL

\* A pipeline ends, every process of it, unless an inherited end is held open:
\* the shell's own ends, and those its commands close, block nobody.
THEOREM StuckSafety == PipelineSpec => []StuckOnlyWhenHeldOpen
  BY PipelineInvariance, StuckHeld, PTL
=============================================================================
