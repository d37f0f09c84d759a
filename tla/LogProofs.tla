----------------------------- MODULE LogProofs ------------------------------
(***************************************************************************)
(* Proofs about the log: for any number of processes, blocks and log       *)
(* blocks, and crashes at any point, it implements AtomicDisk, sync() is   *)
(* durable, and the reservations of begin_op() are enough.                 *)
(***************************************************************************)
EXTENDS Log, FiniteSetTheorems, TLAPS

Distinct(s) == \A m, n \in 1..Len(s) : s[m] = s[n] => m = n

\* Which positions of processes, commit() and recovery go together, and with
\* which headers in memory and on disk.
ControlInv ==
    /\ IsFiniteSet(Active) /\ outstanding = Cardinality(Active)
    /\ committer = None <=> step = "none"
    /\ committer # None => pc[committer] = "commit" /\ Active = {}
    /\ boot # "up" => committer = None /\ \A p \in Procs : pc[p] = "idle"
    /\ boot = "up" /\ committer = None /\ Active = {} => lh = << >>
    /\ boot = "read" => lh = << >>
    /\ boot = "install" => lh = head /\ lh # << >>
    /\ boot = "clear" => lh = head
    /\ boot = "up" /\ step \in {"none", "write_log", "write_head", "done"} => head = << >>
    /\ step \in {"install", "clear"} => head = lh
    /\ step \in {"write_log", "write_head", "install", "clear"} => lh # << >>
    /\ step = "done" => lh = << >>
    /\ IF step \in {"write_log", "install"} \/ boot = "install"
       THEN tail <= Len(lh) ELSE tail = 1
    /\ Distinct(lh) /\ Len(lh) <= LOGBLOCKS
    /\ Distinct(head) /\ Len(head) <= LOGBLOCKS

\* What is on the disk and in the log at each point of commit() and recovery.
DataInv ==
    /\ boot = "up" /\ ~panicked => \A b \in Blocks \ BlocksOf(lh) : cache[b] = disk[b]
    /\ boot # "up" => cache = disk
    /\ step = "write_log" => \A m \in 1..(tail - 1) : logged[m] = cache[lh[m]]
    /\ step \in {"write_head", "install", "clear"} =>
           \A m \in 1..Len(lh) : logged[m] = cache[lh[m]]
    /\ step = "install" \/ boot = "install" =>
           \A m \in 1..(tail - 1) : disk[lh[m]] = logged[m]
    /\ step = "clear" \/ boot = "clear" => \A m \in 1..Len(lh) : disk[lh[m]] = logged[m]

IInv == TypeOK /\ ControlInv /\ DataInv

-----------------------------------------------------------------------------
(* Sequences.                                                              *)

\* The elements of a sequence.
LEMMA SeqElement ==
    ASSUME NEW S, NEW q \in Seq(S), NEW n \in 1 .. Len(q)
    PROVE  q[n] \in S
  OBVIOUS

\* The length of a sequence, and its places.
LEMMA SeqLength ==
    ASSUME NEW S, NEW q \in Seq(S)
    PROVE  Len(q) \in Nat /\ q \in [1 .. Len(q) -> S] /\ DOMAIN q = 1 .. Len(q)
  OBVIOUS

\* The empty sequence is the one of length 0.
LEMMA SeqEmpty ==
    ASSUME NEW S
    PROVE  /\ <<>> \in Seq(S) /\ Len(<<>>) = 0
           /\ \A q \in Seq(S) : q # <<>> => Len(q) \in Nat \ {0}
  OBVIOUS

\* A sequence with one more element.
LEMMA SeqAppend ==
    ASSUME NEW S, NEW q \in Seq(S), NEW x \in S
    PROVE  /\ Append(q, x) \in Seq(S) /\ Append(q, x) # <<>> /\ Len(Append(q, x)) = Len(q) + 1
           /\ \A i \in 1 .. Len(q) : Append(q, x)[i] = q[i]
           /\ Append(q, x)[Len(q) + 1] = x
  OBVIOUS

-----------------------------------------------------------------------------
(* Sequences of blocks.                                                    *)

\* The constants as numbers.
LEMMA Sizes ==
    /\ LOGBLOCKS \in Nat /\ LOGBLOCKS > 0
    /\ MAXOPBLOCKS \in Nat /\ MAXOPBLOCKS > 0
    /\ MaxWrites \in Nat /\ MaxWrites > 0 /\ MaxWrites <= MAXOPBLOCKS
    /\ None \notin Procs
  BY LogAssumption

\* A header that is not empty has a first block.
LEMMA NonEmpty ==
    ASSUME NEW s \in Seq(Blocks), s # << >>
    PROVE  Len(s) \in Nat /\ Len(s) >= 1
  BY SeqEmpty

\* log_write() adds a block to the header once.
LEMMA AppendDistinct ==
    ASSUME NEW s \in Seq(Blocks), NEW b \in Blocks, Distinct(s), b \notin BlocksOf(s)
    PROVE  /\ Append(s, b) \in Seq(Blocks) /\ Len(Append(s, b)) = Len(s) + 1
           /\ Distinct(Append(s, b))
           /\ BlocksOf(Append(s, b)) = BlocksOf(s) \cup {b}
           /\ Append(s, b) # << >>
  <1>1. Len(s) \in Nat
    BY SeqLength
  <1>2. /\ Append(s, b) \in Seq(Blocks) /\ Len(Append(s, b)) = Len(s) + 1
        /\ Append(s, b) # << >>
        /\ \A m \in 1..Len(s) : Append(s, b)[m] = s[m]
        /\ Append(s, b)[Len(s) + 1] = b
    BY SeqAppend
  <1>3. \A m \in 1..(Len(s) + 1) : m \in 1..Len(s) \/ m = Len(s) + 1
    BY <1>1
  <1>4. Distinct(Append(s, b))
    BY <1>1, <1>2, <1>3 DEF Distinct, BlocksOf
  <1>5. BlocksOf(Append(s, b)) = BlocksOf(s) \cup {b}
    <2>1. 1..Len(Append(s, b)) = 1..Len(s) \cup {Len(s) + 1}
      BY <1>1, <1>2
    <2> QED BY <1>2, <2>1 DEF BlocksOf
  <1> QED BY <1>2, <1>4, <1>5

\* What recovery writes: the log blocks to the blocks of the header.
LEMMA RecoverIs ==
    ASSUME NEW h \in Seq(Blocks), Distinct(h), NEW l, NEW d
    PROVE  /\ \A b \in Blocks \ BlocksOf(h) : Recover(h, l, d)[b] = d[b]
           /\ \A m \in 1..Len(h) : h[m] \in Blocks /\ Recover(h, l, d)[h[m]] = l[m]
  <1>1. \A b \in Blocks \ BlocksOf(h) : Recover(h, l, d)[b] = d[b]
    BY DEF Recover
  <1>2. ASSUME NEW m \in 1..Len(h)
        PROVE  h[m] \in Blocks /\ Recover(h, l, d)[h[m]] = l[m]
    <2>1. h[m] \in Blocks /\ h[m] \in BlocksOf(h)
      BY SeqElement DEF BlocksOf
    <2>2. (CHOOSE j \in 1..Len(h) : h[j] = h[m]) = m
      BY DEF Distinct
    <2> QED BY Zenon, <2>1, <2>2 DEF Recover
  <1> QED BY <1>1, <1>2

\* Two functions on the blocks are equal when they agree in and outside of a
\* header.
LEMMA SameBlocks ==
    ASSUME NEW h \in Seq(Blocks), Distinct(h), NEW l, NEW d,
           NEW f \in [Blocks -> AnyValue],
           \A b \in Blocks \ BlocksOf(h) : f[b] = d[b],
           \A m \in 1..Len(h) : f[h[m]] = l[m]
    PROVE  Recover(h, l, d) = f
  <1>1. ASSUME NEW b \in Blocks PROVE Recover(h, l, d)[b] = f[b]
    <2>1. CASE b \notin BlocksOf(h)
      BY <2>1, RecoverIs
    <2>2. CASE b \in BlocksOf(h)
      <3>1. PICK m \in 1..Len(h) : h[m] = b
        BY <2>2 DEF BlocksOf
      <3> QED BY <3>1, RecoverIs
    <2> QED BY <2>1, <2>2
  <1>2. Recover(h, l, d) = [b \in Blocks |-> Recover(h, l, d)[b]]
    BY DEF Recover
  <1> QED BY <1>1, <1>2

\* With an empty header, recovery leaves the disk alone.
LEMMA RecoverNothing ==
    ASSUME NEW l, NEW d \in [Blocks -> AnyValue]
    PROVE  Recover(<< >>, l, d) = d
  BY DEF Recover, BlocksOf

-----------------------------------------------------------------------------
(* The invariant holds initially and is kept by every step.                *)

\* A disk with an empty log header has the invariant.
LEMMA InitInv == Init => IInv
  <1> SUFFICES ASSUME Init PROVE IInv
    OBVIOUS
  <1>1. << >> \in Seq(Blocks) /\ Len(<< >>) = 0 /\ Distinct(<< >>)
    BY SeqEmpty DEF Distinct
  <1>2. TypeOK
    <2>1. disk \in [Blocks -> AnyValue] /\ cache \in [Blocks -> AnyValue]
      BY DEF Init, Contents
    <2>2. logged \in [1..LOGBLOCKS -> AnyValue]
      BY DEF Init
    <2>3. 1 \in 1..LOGBLOCKS
      BY Sizes
    <2> QED BY Zenon, <1>1, <2>1, <2>2, <2>3 DEF Init, TypeOK
  <1>3. ControlInv
    <2>1. Active = {}
      BY DEF Init, Active
    <2> QED BY <1>1, <2>1, FS_EmptySet, Sizes DEF Init, ControlInv
  <1>4. DataInv
    BY DEF Init, DataInv
  <1> QED BY <1>2, <1>3, <1>4 DEF IInv

\* Every step keeps the types.
LEMMA NextType == TypeOK /\ ControlInv /\ [Next]_vars => TypeOK'
  <1> SUFFICES ASSUME TypeOK, ControlInv, [Next]_vars PROVE TypeOK'
    OBVIOUS
  <1> USE Sizes DEF TypeOK, diskvars, commitvars, procvars
  <1>1. ASSUME NEW p \in Procs, BeginCall(p) PROVE TypeOK'
    BY <1>1 DEF BeginCall
  <1>2. ASSUME NEW p \in Procs, begin_op(p) PROVE TypeOK'
    BY <1>2 DEF begin_op
  <1>3. ASSUME NEW p \in Procs, end_op(p) PROVE TypeOK'
    <2>1. outstanding > 0
      <3>1. p \in Active
        BY <1>3 DEF end_op, Active
      <3> QED BY <3>1, FS_EmptySet DEF ControlInv
    <2>2. outstanding' \in Nat
      BY <1>3, <2>1 DEF end_op
    <2>3. panicked' \in BOOLEAN
      BY <1>3 DEF end_op
    <2>4. /\ committer' \in Procs \cup {None} /\ tail' \in 1..LOGBLOCKS
          /\ step' \in {"none", "write_log", "write_head", "install", "clear", "done"}
          /\ pc' \in [Procs -> {"idle", "begin", "in", "commit", "sync"}]
      <3>1. 1 \in 1..LOGBLOCKS
        OBVIOUS
      <3>2. CASE outstanding = 1
        BY Zenon, <1>3, <3>1, <3>2 DEF end_op
      <3>3. CASE outstanding # 1
        BY Zenon, <1>3, <3>3 DEF end_op
      <3> QED BY <3>2, <3>3
    <2> QED BY <1>3, <2>2, <2>3, <2>4 DEF end_op
  <1>4. ASSUME NEW p \in Procs, NEW b \in Blocks, NEW v \in Values[b], log_write(p, b, v)
        PROVE  TypeOK'
    <2>1. v \in AnyValue
      BY DEF AnyValue
    <2>2. lh' \in Seq(Blocks)
      <3>1. Append(lh, b) \in Seq(Blocks)
        BY SeqAppend
      <3> QED BY Zenon, <1>4, <3>1 DEF log_write
    <2>3. cache' \in [Blocks -> AnyValue]
      BY <1>4, <2>1 DEF log_write
    <2> QED BY Zenon, <1>4, <2>2, <2>3 DEF log_write
  <1>5. ASSUME NEW m \in 1..LOGBLOCKS, NEW s \in Seq(Blocks), m <= Len(s), NEW f \in [Blocks -> AnyValue]
        PROVE  f[s[m]] \in AnyValue /\ s[m] \in Blocks
    BY <1>5, SeqElement, SeqLength
  <1>6. CASE write_log
    <2>1. tail <= Len(lh) /\ Len(lh) <= LOGBLOCKS /\ Len(lh) \in Nat
      BY <1>6, SeqLength DEF write_log, ControlInv
    <2>2. logged' \in [1..LOGBLOCKS -> AnyValue]
      BY <1>5, <1>6, <2>1 DEF write_log
    <2>3. tail' \in 1..LOGBLOCKS
      BY <1>6, <2>1 DEF write_log
    <2> QED BY <1>6, <2>2, <2>3 DEF write_log
  <1>7. CASE write_head
    BY <1>7 DEF write_head
  <1>8. CASE install_trans
    <2>1. tail <= Len(lh) /\ Len(lh) <= LOGBLOCKS /\ Len(lh) \in Nat
      BY <1>8, SeqLength DEF install_trans, ControlInv
    <2>2. lh[tail] \in Blocks /\ logged[tail] \in AnyValue
      BY <1>5, <2>1
    <2>3. disk' \in [Blocks -> AnyValue] /\ cache' \in [Blocks -> AnyValue]
      BY <1>8, <2>2 DEF install_trans, Install
    <2>4. tail' \in 1..LOGBLOCKS
      BY <1>8, <2>1 DEF install_trans
    <2> QED BY <1>8, <2>3, <2>4 DEF install_trans
  <1>9. CASE ClearHead
    BY <1>9, SeqEmpty DEF ClearHead
  <1>10. CASE CommitDone
    <2>1. committer \in Procs
      BY <1>10 DEF CommitDone, ControlInv
    <2>2. left' \in [Procs -> Nat]
      BY <1>10 DEF CommitDone
    <2> QED BY <1>10, <2>1, <2>2 DEF CommitDone
  <1>11. CASE read_head
    BY <1>11 DEF read_head
  <1>12. CASE RecoverInstall
    <2>1. tail <= Len(lh) /\ Len(lh) <= LOGBLOCKS /\ Len(lh) \in Nat
      BY <1>12, SeqLength DEF RecoverInstall, ControlInv
    <2>2. lh[tail] \in Blocks /\ logged[tail] \in AnyValue
      BY <1>5, <2>1
    <2>3. disk' \in [Blocks -> AnyValue] /\ cache' \in [Blocks -> AnyValue]
      BY <1>12, <2>2 DEF RecoverInstall, Install
    <2>4. tail' \in 1..LOGBLOCKS
      BY <1>12, <2>1 DEF RecoverInstall
    <2> QED BY <1>12, <2>3, <2>4 DEF RecoverInstall
  <1>13. CASE RecoverClear
    BY <1>13, SeqEmpty DEF RecoverClear
  <1>14. CASE Crash
    BY <1>14, SeqEmpty DEF Crash
  <1>15. ASSUME NEW p \in Procs, sys_sync(p) PROVE TypeOK'
    <2>1. Uncommitted \in BOOLEAN
      BY DEF Uncommitted
    <2>2. owed' \in [Procs -> BOOLEAN]
      BY <1>15, <2>1 DEF sys_sync
    <2>3. left' \in [Procs -> Nat] /\ pc' \in [Procs -> {"idle", "begin", "in", "commit", "sync"}]
      <3>1. CASE committing \/ outstanding > 0
        <4>1. left' = [left EXCEPT ![p] = 1] /\ pc' = [pc EXCEPT ![p] = "sync"]
          BY <1>15, <3>1 DEF sys_sync
        <4>2. left \in [Procs -> Nat] /\ pc \in [Procs -> {"idle", "begin", "in", "commit", "sync"}]
          OBVIOUS
        <4> HIDE DEF TypeOK
        <4> QED BY <4>1, <4>2
      <3>2. CASE ~(committing \/ outstanding > 0)
        BY <1>15, <3>2 DEF sys_sync
      <3> QED BY <3>1, <3>2
    <2> QED BY <1>15, <2>2, <2>3 DEF sys_sync
  <1>16. ASSUME NEW p \in Procs, SyncReturns(p) PROVE TypeOK'
    BY <1>16 DEF SyncReturns
  <1>17. CASE UNCHANGED vars
    BY <1>17 DEF vars
  <1> QED BY Zenon, <1>1, <1>2, <1>3, <1>4, <1>6, <1>7, <1>8, <1>9, <1>10, <1>11, <1>12, <1>13, <1>14,
             <1>15, <1>16, <1>17 DEF Next, Calls, CommitStep, RecoveryStep

\* Every step keeps commit(), recovery and the two headers in agreement.
LEMMA NextControl == TypeOK /\ ControlInv /\ [Next]_vars => ControlInv'
  <1> SUFFICES ASSUME TypeOK, ControlInv, [Next]_vars PROVE ControlInv'
    OBVIOUS
  <1> USE Sizes DEF TypeOK, diskvars, commitvars, procvars
  <1>e. << >> \in Seq(Blocks) /\ Len(<< >>) = 0 /\ Distinct(<< >>)
    BY SeqEmpty DEF Distinct
  <1>l. Len(lh) \in Nat /\ Len(head) \in Nat
        /\ (lh # << >> => Len(lh) >= 1) /\ (head # << >> => Len(head) >= 1)
    BY NonEmpty, SeqLength
  <1>1. ASSUME NEW p \in Procs, BeginCall(p) \/ sys_sync(p) \/ SyncReturns(p) PROVE ControlInv'
    <2>1. UNCHANGED <<Active, head, lh, outstanding, commitvars, boot>>
      BY Zenon, <1>1 DEF BeginCall, sys_sync, SyncReturns, Active
    <2>2. committer # None => pc'[committer] = pc[committer]
      BY <1>1 DEF BeginCall, sys_sync, SyncReturns, ControlInv
    <2>3. boot # "up" => pc' = pc
      BY <1>1 DEF BeginCall, sys_sync, SyncReturns, ControlInv
    <2> QED BY <2>1, <2>2, <2>3 DEF ControlInv
  <1>2. ASSUME NEW p \in Procs, begin_op(p) PROVE ControlInv'
    <2>1. Active' = Active \cup {p} /\ p \notin Active
      BY <1>2 DEF begin_op, Active
    <2>2. IsFiniteSet(Active') /\ outstanding' = Cardinality(Active')
      BY Zenon, <1>2, <2>1, FS_AddElement DEF begin_op, ControlInv
    <2>3. committer = None /\ boot = "up"
      BY Zenon, <1>2 DEF begin_op, committing, ControlInv
    <2> QED BY <1>2, <2>1, <2>2, <2>3 DEF begin_op, ControlInv
  <1>3. ASSUME NEW p \in Procs, end_op(p) PROVE ControlInv'
    <2>1. p \in Active /\ committer = None /\ boot = "up" /\ tail = 1 /\ step = "none"
      BY <1>3 DEF end_op, Active, ControlInv
    <2>2. Active' = Active \ {p}
      <3>1. CASE outstanding = 1
        BY <1>3, <3>1 DEF end_op, Active
      <3>2. CASE outstanding # 1
        BY <1>3, <3>2 DEF end_op, Active
      <3> QED BY <3>1, <3>2
    <2>3. IsFiniteSet(Active') /\ outstanding' = Cardinality(Active')
      BY Zenon, <1>3, <2>1, <2>2, FS_RemoveElement DEF end_op, ControlInv
    <2>4. CASE outstanding = 1
      <3>1. Active' = {}
        BY <1>3, <2>3, <2>4, FS_EmptySet DEF end_op
      <3> QED BY <1>3, <1>l, <2>1, <2>3, <2>4, <3>1 DEF end_op, ControlInv
    <2>5. CASE outstanding # 1
      <3>1. Active' # {}
        <4>1. outstanding' # 0
          BY <1>3, <2>5 DEF end_op
        <4> HIDE DEF TypeOK
        <4> QED BY <2>3, <4>1, FS_EmptySet
      <3> QED BY <1>3, <2>1, <2>3, <2>5, <3>1 DEF end_op, ControlInv
    <2> QED BY <2>4, <2>5
  <1>4. ASSUME NEW p \in Procs, NEW b \in Blocks, NEW v \in Values[b], log_write(p, b, v)
        PROVE  ControlInv'
    <2>1. p \in Active /\ committer = None /\ boot = "up" /\ step = "none"
      BY Zenon, <1>4 DEF log_write, Active, ControlInv
    <2>2. UNCHANGED <<Active, head, outstanding, commitvars, pc, boot>>
      BY Zenon, <1>4 DEF log_write, Active
    <2>3. Distinct(lh') /\ Len(lh') <= LOGBLOCKS
      <3>1. CASE lh' = lh
        BY Zenon, <3>1 DEF ControlInv
      <3>2. CASE lh' = Append(lh, b) /\ b \notin BlocksOf(lh) /\ Len(lh) < LOGBLOCKS
        <4>1. lh \in Seq(Blocks) /\ Distinct(lh)
          BY DEF ControlInv
        <4>2. Distinct(Append(lh, b)) /\ Len(Append(lh, b)) = Len(lh) + 1
          BY <3>2, <4>1, AppendDistinct
        <4> HIDE DEF TypeOK
        <4> QED BY <1>l, <3>2, <4>2
      <3> QED BY SMTT(30), <1>4, <1>l, <3>1, <3>2 DEF log_write
    <2> QED BY Zenon, <2>1, <2>2, <2>3 DEF ControlInv
  <1>5. CASE write_log
    <2>1. UNCHANGED <<Active, outstanding, committer, pc, head, lh, boot>>
      BY <1>5 DEF write_log, Active
    <2> QED BY <1>5, <1>l, <2>1 DEF write_log, ControlInv
  <1>6. CASE write_head
    <2>1. UNCHANGED <<Active, outstanding, committer, pc, lh, tail, boot>>
      BY <1>6 DEF write_head, Active
    <2> QED BY <1>6, <1>l, <2>1 DEF write_head, ControlInv
  <1>7. CASE install_trans
    <2>1. UNCHANGED <<Active, outstanding, committer, pc, head, lh, boot>>
      BY <1>7 DEF install_trans, Active
    <2> QED BY <1>7, <1>l, <2>1 DEF install_trans, ControlInv
  <1>8. CASE ClearHead
    <2>1. UNCHANGED <<Active, outstanding, committer, pc, tail, boot>>
      BY <1>8 DEF ClearHead, Active
    <2> QED BY <1>8, <1>e, <2>1 DEF ClearHead, ControlInv
  <1>9. CASE CommitDone
    <2>1. committer \in Procs /\ pc[committer] = "commit" /\ boot = "up"
      BY <1>9 DEF CommitDone, ControlInv
    <2>2. UNCHANGED <<Active, outstanding, tail, head, lh, boot>>
      BY <1>9, <2>1 DEF CommitDone, Active
    <2> QED BY <1>9, <2>1, <2>2 DEF CommitDone, ControlInv
  <1>10. CASE RecoveryStep
    <2>1. UNCHANGED <<Active, outstanding, committer, step, pc>>
      BY <1>10 DEF RecoveryStep, read_head, RecoverInstall, RecoverClear, Active
    <2>2. committer = None /\ step = "none"
      BY <1>10 DEF RecoveryStep, read_head, RecoverInstall, RecoverClear, ControlInv
    <2>3. CASE read_head
      BY <1>l, <2>1, <2>2, <2>3 DEF read_head, ControlInv
    <2>4. CASE RecoverInstall
      BY <1>l, <2>1, <2>2, <2>4 DEF RecoverInstall, ControlInv
    <2>5. CASE RecoverClear
      BY <1>e, <2>1, <2>2, <2>5 DEF RecoverClear, ControlInv
    <2> QED BY <1>10, <2>3, <2>4, <2>5 DEF RecoveryStep
  <1>11. CASE Crash
    <2>1. Active' = {}
      BY <1>11 DEF Crash, Active
    <2> QED BY <1>11, <1>e, <2>1, FS_EmptySet DEF Crash, ControlInv
  <1>12. CASE UNCHANGED vars
    BY <1>12 DEF vars, ControlInv, Active
  <1> QED BY <1>1, <1>2, <1>3, <1>4, <1>5, <1>6, <1>7, <1>8, <1>9, <1>10, <1>11, <1>12
          DEF Next, Calls, CommitStep

\* A header block is written once: installing it changes no other block of
\* the header.
LEMMA InstallOne ==
    ASSUME NEW h \in Seq(Blocks), Distinct(h), NEW t \in 1..Len(h),
           NEW f \in [Blocks -> AnyValue], NEW v \in AnyValue
    PROVE  /\ h[t] \in Blocks
           /\ \A m \in 1..Len(h) :
                  [f EXCEPT ![h[t]] = v][h[m]] = IF m = t THEN v ELSE f[h[m]]
           /\ \A b \in Blocks \ BlocksOf(h) : [f EXCEPT ![h[t]] = v][b] = f[b]
  <1>1. h[t] \in Blocks /\ \A m \in 1..Len(h) : h[m] \in Blocks
    BY SeqElement
  <1>2. \A m \in 1..Len(h) : [f EXCEPT ![h[t]] = v][h[m]] = IF m = t THEN v ELSE f[h[m]]
    BY <1>1 DEF Distinct
  <1>3. \A b \in Blocks \ BlocksOf(h) : [f EXCEPT ![h[t]] = v][b] = f[b]
    BY <1>1 DEF BlocksOf
  <1> QED BY <1>1, <1>2, <1>3

\* Every step keeps what the log and the disk hold at each point of a commit.
LEMMA NextData == IInv /\ [Next]_vars => DataInv'
  <1> SUFFICES ASSUME IInv, [Next]_vars PROVE DataInv'
    OBVIOUS
  <1>t. TypeOK /\ ControlInv /\ DataInv
    BY DEF IInv
  <1>l. /\ lh \in Seq(Blocks) /\ Distinct(lh) /\ Len(lh) \in Nat /\ Len(lh) <= LOGBLOCKS
        /\ tail \in Nat /\ tail >= 1
        /\ cache \in [Blocks -> AnyValue] /\ disk \in [Blocks -> AnyValue]
        /\ logged \in [1..LOGBLOCKS -> AnyValue]
    BY <1>t, SeqLength, Sizes DEF TypeOK, ControlInv
  <1>i. \A m \in 1..Len(lh) : lh[m] \in Blocks /\ lh[m] \in BlocksOf(lh) /\ m \in 1..LOGBLOCKS
    BY <1>l, SeqElement, Sizes DEF BlocksOf
  <1>e. BlocksOf(<< >>) = {}
    BY DEF BlocksOf
  <1> USE DEF diskvars, commitvars, procvars
  <1>1. CASE UNCHANGED <<disk, logged, cache, lh, step, tail, boot, panicked>>
    BY <1>1, <1>t DEF DataInv
  <1>2. ASSUME NEW p \in Procs, end_op(p) PROVE DataInv'
    <2>1. step = "none" /\ boot = "up" /\ ~committing
      BY <1>2, <1>t DEF end_op, ControlInv, Active, committing
    <2>2. UNCHANGED <<disk, logged, cache, lh, boot>> /\ (~panicked' => ~panicked)
      BY Zenon, <1>2 DEF end_op
    <2>3. step' \in {"none", "done", "write_log"} /\ (step' = "write_log" => tail' = 1)
      BY <1>2, <2>1 DEF end_op
    <2> QED BY <1>t, <2>1, <2>2, <2>3 DEF DataInv
  <1>3. ASSUME NEW p \in Procs, NEW b \in Blocks, NEW v \in Values[b], log_write(p, b, v)
        PROVE  DataInv'
    <2>1. step = "none" /\ boot = "up"
      BY Zenon, <1>3, <1>t DEF log_write, ControlInv, Active
    <2>2. UNCHANGED <<disk, logged, step, boot>> /\ cache' = [cache EXCEPT ![b] = v]
      BY <1>3 DEF log_write
    <2>3. ~panicked' => ~panicked /\ BlocksOf(lh') = BlocksOf(lh) \cup {b}
      <3>1. b \notin BlocksOf(lh) => BlocksOf(Append(lh, b)) = BlocksOf(lh) \cup {b}
        BY <1>l, AppendDistinct
      <3> QED BY Zenon, <1>3, <3>1 DEF log_write
    <2> QED BY Zenon, <1>l, <1>t, <2>1, <2>2, <2>3 DEF DataInv
  <1>4. CASE write_log
    <2>1. boot = "up" /\ tail <= Len(lh)
      BY <1>4, <1>t DEF write_log, ControlInv
    <2>2. UNCHANGED <<disk, cache, lh, boot, panicked>> /\ step' \in {"write_log", "write_head"}
      BY Zenon, <1>4 DEF write_log
    <2>3. \A m \in 1..tail : logged'[m] = cache[lh[m]]
      BY <1>4, <1>t, <1>l, <2>1, Sizes DEF write_log, DataInv
    <2>4. step' = "write_log" => tail' - 1 = tail
      BY <1>4, <1>l DEF write_log
    <2>5. step' = "write_head" => tail = Len(lh)
      BY <1>4, <1>l, <2>1 DEF write_log
    <2> QED BY <1>4, <1>t, <2>1, <2>2, <2>3, <2>4, <2>5 DEF DataInv
  <1>5. CASE write_head
    <2>1. boot = "up" /\ tail = 1
      BY <1>5, <1>t DEF write_head, ControlInv
    <2> QED BY <1>5, <1>t, <2>1 DEF write_head, DataInv
  <1>6. CASE install_trans
    <2>1. boot = "up" /\ tail <= Len(lh) /\ tail \in 1..Len(lh)
      BY <1>6, <1>t, <1>l DEF install_trans, ControlInv
    <2>2. logged[tail] = cache[lh[tail]] /\ logged[tail] \in AnyValue
      BY <1>6, <1>t, <1>l, <1>i, <2>1 DEF install_trans, DataInv
    <2>3. cache' = cache
      BY <1>6, <1>l, <1>i, <2>1, <2>2 DEF install_trans, Install
    <2>4. /\ \A m \in 1..Len(lh) : disk'[lh[m]] = IF m = tail THEN logged[tail] ELSE disk[lh[m]]
          /\ \A b \in Blocks \ BlocksOf(lh) : disk'[b] = disk[b]
      <3>1. disk' = [disk EXCEPT ![lh[tail]] = logged[tail]]
        BY <1>6 DEF install_trans, Install
      <3> QED BY <1>l, <2>1, <2>2, <3>1, InstallOne
    <2>5. \A m \in 1..tail : m \in 1..Len(lh) /\ disk'[lh[m]] = logged[m]
      BY SMTT(30), <1>6, <1>t, <1>l, <2>1, <2>4 DEF install_trans, DataInv
    <2>6. UNCHANGED <<logged, lh, boot, panicked>> /\ step' \in {"install", "clear"}
      BY <1>6 DEF install_trans
    <2>7. step' = "install" => tail' - 1 = tail
      BY <1>6, <1>l DEF install_trans
    <2>8. step' = "clear" => tail = Len(lh)
      BY <1>6, <1>l, <2>1 DEF install_trans
    <2> QED BY SMTT(30), <1>6, <1>t, <2>1, <2>3, <2>4, <2>5, <2>6, <2>7, <2>8 DEF install_trans, DataInv
  <1>7. CASE ClearHead
    <2>1. boot = "up" /\ \A m \in 1..Len(lh) : cache[lh[m]] = disk[lh[m]]
      BY Zenon, <1>7, <1>t DEF ClearHead, ControlInv, DataInv
    <2>2. \A b \in BlocksOf(lh) : cache[b] = disk[b]
      BY <2>1 DEF BlocksOf
    <2> QED BY <1>7, <1>e, <1>t, <2>1, <2>2 DEF ClearHead, DataInv
  <1>8. CASE CommitDone
    <2>1. boot = "up"
      BY <1>8, <1>t DEF CommitDone, ControlInv
    <2> QED BY Zenon, <1>8, <1>t, <2>1 DEF CommitDone, DataInv
  <1>9. CASE RecoveryStep
    <2>1. step = "none" /\ boot # "up" /\ step' = "none"
      BY <1>9, <1>t DEF RecoveryStep, read_head, RecoverInstall, RecoverClear, ControlInv
    <2>2. CASE read_head
      <3>1. tail = 1 /\ boot = "read" /\ (head = << >> => Len(head) = 0)
        BY <1>t, <2>1, <2>2, SeqEmpty DEF read_head, ControlInv
      <3> QED BY SMTT(30), <1>t, <2>1, <2>2, <3>1 DEF read_head, DataInv
    <2>3. CASE RecoverInstall
      <3>1. tail <= Len(lh) /\ tail \in 1..Len(lh) /\ logged[tail] \in AnyValue
        BY <1>t, <1>l, <1>i, <2>3 DEF RecoverInstall, ControlInv
      <3>2. disk' = [disk EXCEPT ![lh[tail]] = logged[tail]] /\ cache' = disk'
        BY <1>t, <2>1, <2>3 DEF RecoverInstall, Install, DataInv
      <3>3. \A m \in 1..Len(lh) : disk'[lh[m]] = IF m = tail THEN logged[tail] ELSE disk[lh[m]]
        BY <1>l, <3>1, <3>2, InstallOne
      <3>4. \A m \in 1..tail : m \in 1..Len(lh) /\ disk'[lh[m]] = logged[m]
        BY SMTT(30), <1>t, <1>l, <2>3, <3>1, <3>3 DEF RecoverInstall, DataInv
      <3>5. UNCHANGED <<logged, lh, step, panicked>> /\ boot' \in {"install", "clear"}
        BY <2>3 DEF RecoverInstall
      <3>6. boot' = "install" => tail' - 1 = tail
        BY <1>l, <2>3 DEF RecoverInstall
      <3>7. boot' = "clear" => tail = Len(lh)
        BY <1>l, <2>3, <3>1 DEF RecoverInstall
      <3> QED BY <2>1, <3>2, <3>4, <3>5, <3>6, <3>7 DEF DataInv
    <2>4. CASE RecoverClear
      BY <1>t, <2>1, <2>4 DEF RecoverClear, DataInv
    <2> QED BY <1>9, <2>2, <2>3, <2>4 DEF RecoveryStep
  <1>10. CASE Crash
    BY <1>10 DEF Crash, DataInv
  <1>11. ASSUME NEW p \in Procs, BeginCall(p) \/ begin_op(p) \/ sys_sync(p) \/ SyncReturns(p)
         PROVE  UNCHANGED <<disk, logged, cache, lh, step, tail, boot, panicked>>
    BY <1>11 DEF BeginCall, begin_op, sys_sync, SyncReturns
  <1>12. CASE UNCHANGED vars
    BY <1>1, <1>12 DEF vars
  <1> QED BY Zenon, <1>1, <1>2, <1>3, <1>4, <1>5, <1>6, <1>7, <1>8, <1>9, <1>10, <1>11, <1>12
          DEF Next, Calls, CommitStep

\* IInv is an invariant of the log, with crashes between any two disk writes.
THEOREM Invariance == Spec => []IInv
  <1>1. IInv /\ [Next]_vars => IInv'
    BY NextType, NextControl, NextData DEF IInv
  <1> QED BY InitInv, <1>1, PTL DEF Spec

\* Every variable of the log keeps its type.
THEOREM TypeCorrect == Spec => []TypeOK
  <1>1. IInv => TypeOK
    BY DEF IInv
  <1> QED BY Invariance, <1>1, PTL

-----------------------------------------------------------------------------
(* The log implements AtomicDisk.                                          *)

\* A change to blocks of the header only does not change what recovery makes
\* of the disk.
LEMMA InstallKeeps ==
    ASSUME NEW h \in Seq(Blocks), NEW l, NEW d, NEW e,
           \A b \in Blocks \ BlocksOf(h) : e[b] = d[b]
    PROVE  Recover(h, l, e) = Recover(h, l, d)
  BY DEF Recover

\* The initial states.
LEMMA InitRefines == Init => AD!Init
  <1> SUFFICES ASSUME Init PROVE AD!Init
    OBVIOUS
  <1>1. disk \in [Blocks -> AnyValue]
    BY DEF Init, Contents
  <1>2. Recover(<< >>, logged, disk) = disk
    BY <1>1, RecoverNothing
  <1> QED BY Zenon, <1>1, <1>2 DEF Init, AD!Init, Now, Active, Recovered

\* A step of the log is a step of AtomicDisk or changes nothing there: the
\* write of the header is the commit.
LEMMA NextRefines == IInv /\ [Next]_vars => [AD!Next]_(AD!vars)
  <1> SUFFICES ASSUME IInv, [Next]_vars PROVE [AD!Next]_(AD!vars)
    OBVIOUS
  <1>t. TypeOK /\ ControlInv /\ DataInv
    BY DEF IInv
  <1>l. /\ lh \in Seq(Blocks) /\ Distinct(lh) /\ Len(lh) \in Nat /\ tail \in Nat /\ tail >= 1
        /\ head \in Seq(Blocks) /\ Distinct(head)
        /\ cache \in [Blocks -> AnyValue] /\ disk \in [Blocks -> AnyValue]
    BY <1>t, SeqLength, Sizes DEF TypeOK, ControlInv
  <1> USE DEF diskvars, commitvars, procvars
  <1>1. ASSUME UNCHANGED <<Recovered, cache, boot, Active>> PROVE UNCHANGED AD!vars
    BY <1>1 DEF AD!vars, Now
  <1>2. ASSUME NEW p \in Procs, BeginCall(p) \/ sys_sync(p) \/ SyncReturns(p)
        PROVE  UNCHANGED AD!vars
    <2>1. Active' = Active
      BY <1>2, <1>t DEF BeginCall, sys_sync, SyncReturns, Active, TypeOK
    <2>2. UNCHANGED <<diskvars, cache, boot>>
      BY <1>2 DEF BeginCall, sys_sync, SyncReturns
    <2> QED BY <1>1, <2>1, <2>2 DEF Recovered
  <1>3. ASSUME NEW p \in Procs, begin_op(p) PROVE AD!Begin(p)
    BY <1>3, <1>t DEF begin_op, Recovered, Active, Now, AD!Begin, TypeOK
  <1>4. ASSUME NEW p \in Procs, end_op(p) PROVE AD!End(p)
    <2>1. Active' = Active \ {p}
      <3>1. CASE outstanding = 1
        BY <1>4, <1>t, <3>1 DEF end_op, Active, TypeOK
      <3>2. CASE outstanding # 1
        BY <1>4, <1>t, <3>2 DEF end_op, Active, TypeOK
      <3> QED BY <3>1, <3>2
    <2> QED BY <1>4, <2>1 DEF end_op, Recovered, Active, Now, AD!End
  <1>5. ASSUME NEW p \in Procs, NEW b \in Blocks, NEW v \in Values[b], log_write(p, b, v)
        PROVE  AD!Write(p)
    <2>1. v \in AnyValue
      BY DEF AnyValue
    <2>2. boot = "up" /\ boot' = "up" /\ cache' = [cache EXCEPT ![b] = v]
          /\ UNCHANGED <<Recovered, Active>> /\ p \in Active
      BY Zenon, <1>5, <1>t DEF log_write, ControlInv, Recovered, Active
    <2> QED BY Zenon, <2>1, <2>2 DEF Now, AD!Write
  <1>6. ASSUME write_log PROVE UNCHANGED AD!vars
    <2>1. boot = "up" /\ head = << >> /\ UNCHANGED <<disk, head, cache, boot, Active>>
      BY <1>6, <1>t DEF write_log, ControlInv, Active
    <2>2. Recovered = disk /\ Recovered' = disk
      BY <1>l, <2>1, RecoverNothing DEF Recovered
    <2> QED BY <1>1, <2>1, <2>2
  <1>7. ASSUME write_head, ~panicked PROVE AD!Commit
    <2>1. boot = "up" /\ Active = {} /\ head' = lh
          /\ UNCHANGED <<disk, logged, cache, boot, Active>>
      BY <1>7, <1>t DEF write_head, ControlInv, Active
    <2>2. /\ \A b \in Blocks \ BlocksOf(lh) : cache[b] = disk[b]
          /\ \A m \in 1..Len(lh) : cache[lh[m]] = logged[m]
      BY Zenon, <1>7, <1>t, <2>1 DEF write_head, DataInv
    <2>3. Recover(lh, logged, disk) = cache
      BY SMTT(30), <1>l, <2>2, SameBlocks
    <2> QED BY <2>1, <2>3 DEF Recovered, Now, AD!Commit
  <1>8. ASSUME install_trans PROVE UNCHANGED AD!vars
    <2>1. head = lh /\ tail \in 1..Len(lh) /\ logged[tail] = cache[lh[tail]]
      BY SMTT(30), <1>8, <1>t, <1>l DEF install_trans, ControlInv, DataInv
    <2>2. /\ disk' = [disk EXCEPT ![lh[tail]] = logged[tail]]
          /\ cache' = [cache EXCEPT ![lh[tail]] = logged[tail]]
          /\ UNCHANGED <<head, logged, boot, Active>>
      BY <1>8 DEF install_trans, Install, Active
    <2>3. cache' = cache
      BY <1>l, <2>1, <2>2
    <2>4. Recover(lh, logged, disk') = Recover(lh, logged, disk)
      <3>1. \A b \in Blocks \ BlocksOf(lh) : disk'[b] = disk[b]
        BY <1>l, <2>1, <2>2 DEF BlocksOf
      <3> QED BY SMTT(30), <1>l, <3>1, InstallKeeps
    <2>5. Recovered' = Recovered
      BY <2>1, <2>2, <2>4 DEF Recovered
    <2> QED BY <1>1, <2>2, <2>3, <2>5
  <1>9. ASSUME ClearHead \/ RecoverClear
        PROVE  Recovered = disk /\ Recovered' = disk /\ UNCHANGED <<cache, Active>>
    <2>1. head = lh /\ \A m \in 1..Len(lh) : disk[lh[m]] = logged[m]
      BY Zenon, <1>9, <1>t DEF ClearHead, RecoverClear, ControlInv, DataInv
    <2>2. Recover(lh, logged, disk) = disk
      BY <1>l, <2>1, SameBlocks
    <2>3. Recovered' = disk /\ UNCHANGED <<cache, Active>>
      BY <1>9, <1>l, RecoverNothing DEF ClearHead, RecoverClear, Recovered, Active
    <2> QED BY Zenon, <2>1, <2>2, <2>3 DEF Recovered
  <1>10. ASSUME ClearHead PROVE UNCHANGED AD!vars
    BY <1>1, <1>9, <1>10 DEF ClearHead
  <1>11. ASSUME RecoverClear PROVE UNCHANGED AD!vars
    BY Zenon, <1>9, <1>11, <1>t DEF RecoverClear, DataInv, Now, AD!vars
  <1>12. ASSUME CommitDone PROVE UNCHANGED AD!vars
    <2>1. committer \in Procs /\ pc[committer] = "commit"
      BY Zenon, <1>12, <1>t DEF CommitDone, ControlInv, TypeOK
    <2>2. UNCHANGED <<diskvars, cache, boot, Active>>
      BY <1>12, <1>t, <2>1 DEF CommitDone, Active, TypeOK
    <2> QED BY <1>1, <2>2 DEF Recovered
  <1>13. ASSUME read_head PROVE UNCHANGED AD!vars
    BY <1>13 DEF read_head, Recovered, Active, Now, AD!vars
  <1>14. ASSUME RecoverInstall PROVE UNCHANGED AD!vars
    <2>1. head = lh /\ tail \in 1..Len(lh) /\ boot # "up" /\ boot' # "up"
      BY <1>14, <1>t, <1>l DEF RecoverInstall, ControlInv
    <2>2. /\ disk' = [disk EXCEPT ![lh[tail]] = logged[tail]]
          /\ UNCHANGED <<head, logged, Active>>
      BY <1>14 DEF RecoverInstall, Install, Active
    <2>3. Recover(lh, logged, disk') = Recover(lh, logged, disk)
      <3>1. \A b \in Blocks \ BlocksOf(lh) : disk'[b] = disk[b]
        BY <1>l, <2>1, <2>2 DEF BlocksOf
      <3> QED BY SMTT(30), <1>l, <3>1, InstallKeeps
    <2>4. Recovered' = Recovered
      BY <2>1, <2>2, <2>3 DEF Recovered
    <2> QED BY <2>1, <2>2, <2>4 DEF Now, AD!vars
  <1>15. ASSUME Crash PROVE AD!Crash
    BY <1>15 DEF Crash, Recovered, Active, Now, AD!Crash
  <1>16. CASE UNCHANGED vars
    BY <1>1, <1>16 DEF vars, Recovered, Active
  <1>17. CASE Next
    <2>1. CASE \E p \in Procs : BeginCall(p) \/ begin_op(p) \/ end_op(p)
      BY <1>2, <1>3, <1>4, <2>1 DEF AD!Next
    <2>2. CASE \E p \in Procs, b \in Blocks : \E v \in Values[b] : log_write(p, b, v)
      BY Zenon, <1>5, <2>2 DEF AD!Next
    <2>3. CASE CommitStep
      BY <1>6, <1>7, <1>8, <1>10, <1>12, <1>17, <2>3 DEF Next, CommitStep, AD!Next
    <2>4. CASE RecoveryStep
      BY <1>11, <1>13, <1>14, <2>4 DEF RecoveryStep
    <2>5. CASE Crash
      BY <1>15, <2>5 DEF AD!Next
    <2>6. CASE \E p \in Procs : sys_sync(p) \/ SyncReturns(p)
      BY <1>2, <2>6
    <2> QED BY Zenon, <1>17, <2>1, <2>2, <2>3, <2>4, <2>5, <2>6 DEF Next, Calls
  <1> QED BY <1>16, <1>17

\* Crash atomicity of the log: with crashes between any two disk writes of
\* commit() and recover_from_log(), the file system calls take effect on the
\* disk all at once.
THEOREM Refinement == Spec => ImplementsAtomicDisk
  BY InitRefines, NextRefines, Invariance, PTL DEF Spec, ImplementsAtomicDisk, AD!Spec

-----------------------------------------------------------------------------
(* sync() is durable.                                                      *)

\* A sync() that is owed a commit is waiting, and that commit is yet to come.
SyncInv == \A p \in Procs : owed[p] => pc[p] = "sync" /\ left[p] > 0 /\ Uncommitted

\* Every step keeps SyncInv: a sync() that need not wait finds the log empty.
LEMMA NextSync == IInv /\ SyncInv /\ [Next]_vars => SyncInv'
  <1> SUFFICES ASSUME IInv, SyncInv, [Next]_vars PROVE SyncInv'
    OBVIOUS
  <1>t. TypeOK /\ ControlInv
    BY DEF IInv
  <1> USE <1>t DEF TypeOK, SyncInv, diskvars, commitvars, procvars
  <1>1. ASSUME NEW p \in Procs, BeginCall(p) \/ begin_op(p) \/ SyncReturns(p) PROVE SyncInv'
    BY SMTT(30), <1>1 DEF BeginCall, begin_op, SyncReturns, Uncommitted
  <1>2. ASSUME NEW p \in Procs, end_op(p) PROVE SyncInv'
    <2>1. UNCHANGED <<owed, left, lh>> /\ \A r \in Procs : r # p => pc'[r] = pc[r]
      BY <1>2 DEF end_op
    <2>2. pc[p] # "sync" /\ (lh # << >> => step' \in {step, "write_log"})
      BY <1>2 DEF end_op
    <2> QED BY <2>1, <2>2 DEF Uncommitted
  <1>3. ASSUME NEW p \in Procs, NEW b \in Blocks, NEW v \in Values[b], log_write(p, b, v)
        PROVE  SyncInv'
    <2>1. UNCHANGED <<owed, left, pc, step>>
      BY Zenon, <1>3 DEF log_write
    <2>2. lh # << >> => lh' # << >>
      BY SMTT(30), <1>3, SeqAppend DEF log_write
    <2> QED BY Zenon, <2>1, <2>2 DEF Uncommitted
  <1>4. CASE write_log
    BY <1>4 DEF write_log, Uncommitted
  <1>5. CASE write_head \/ Crash
    BY <1>5 DEF write_head, Crash
  <1>6. CASE install_trans \/ ClearHead \/ CommitDone
    <2>1. \A r \in Procs : ~owed[r]
      BY Zenon, <1>6 DEF install_trans, ClearHead, CommitDone, Uncommitted
    <2> QED BY Zenon, <1>6, <2>1 DEF install_trans, ClearHead, CommitDone
  <1>7. CASE RecoveryStep
    <2>1. \A r \in Procs : ~owed[r]
      BY Zenon, <1>7 DEF RecoveryStep, read_head, RecoverInstall, RecoverClear, ControlInv
    <2> QED BY Zenon, <1>7, <2>1 DEF RecoveryStep, read_head, RecoverInstall, RecoverClear
  <1>8. ASSUME NEW p \in Procs, sys_sync(p) PROVE SyncInv'
    <2>1. UNCHANGED <<lh, step>> /\ owed' = [owed EXCEPT ![p] = Uncommitted] /\ boot = "up"
      BY <1>8 DEF sys_sync
    <2>2. CASE committing \/ outstanding > 0
      BY <1>8, <2>1, <2>2 DEF sys_sync, Uncommitted
    <2>3. CASE ~(committing \/ outstanding > 0)
      <3>1. committer = None /\ Active = {}
        BY SMTT(30), <2>3, FS_EmptySet DEF committing, ControlInv
      <3>2. ~Uncommitted
        BY Zenon, <2>1, <3>1 DEF ControlInv, Uncommitted
      <3>3. \A r \in Procs : ~owed[r] /\ ~owed'[r]
        BY <2>1, <3>2
      <3> QED BY Zenon, <3>3
    <2> QED BY Zenon, <2>2, <2>3
  <1>9. CASE UNCHANGED vars
    BY <1>9 DEF vars, Uncommitted
  <1> QED BY Zenon, <1>1, <1>2, <1>3, <1>4, <1>5, <1>6, <1>7, <1>8, <1>9 DEF Next, Calls, CommitStep

\* sys_sync() returns only when what was logged before it is committed.
THEOREM SyncSafety == Spec => []SyncIsDurable
  <1>1. Init => SyncInv
    BY DEF Init, SyncInv
  <1>2. SyncInv => SyncIsDurable
    BY DEF SyncInv, SyncIsDurable
  <1> QED BY <1>1, <1>2, NextSync, Invariance, PTL DEF Spec

-----------------------------------------------------------------------------
(* The reservations of begin_op() are enough.                              *)

\* The blocks that the active calls may still add to the log.
Reserved == {s \in Active \X (1..MAXOPBLOCKS) : s[2] > Cardinality(wrote[s[1]])}

SpaceInv ==
    /\ ~panicked
    /\ \A p \in Active : /\ IsFiniteSet(wrote[p]) /\ Cardinality(wrote[p]) <= MaxWrites
                         /\ wrote[p] \subseteq BlocksOf(lh)
    /\ boot = "up" /\ committer = None => Len(lh) + Cardinality(Reserved) <= LOGBLOCKS

\* A reservation is never larger than MAXOPBLOCKS for each call.
ReservedSmall ==
    /\ IsFiniteSet(Reserved) /\ Cardinality(Reserved) \in Nat
    /\ Cardinality(Reserved) <= outstanding * MAXOPBLOCKS

\* begin_op() takes the sum of the reservations to be at most that.
LEMMA ReservedBound == IInv => ReservedSmall
  <1> SUFFICES ASSUME IInv PROVE ReservedSmall
    OBVIOUS
  <1>1. IsFiniteSet(Active) /\ outstanding = Cardinality(Active) /\ outstanding \in Nat
    BY DEF IInv, ControlInv, TypeOK
  <1>2. IsFiniteSet(1..MAXOPBLOCKS) /\ Cardinality(1..MAXOPBLOCKS) = MAXOPBLOCKS
    BY FS_Interval, Sizes
  <1>3. /\ IsFiniteSet(Active \X (1..MAXOPBLOCKS))
        /\ Cardinality(Active \X (1..MAXOPBLOCKS)) = outstanding * MAXOPBLOCKS
    BY Zenon, <1>1, <1>2, FS_Product
  <1>4. Reserved \in SUBSET (Active \X (1..MAXOPBLOCKS))
    BY DEF Reserved
  <1>5. IsFiniteSet(Reserved) /\ Cardinality(Reserved) <= outstanding * MAXOPBLOCKS
    BY <1>3, <1>4, FS_Subset
  <1> QED BY <1>5, FS_CardinalityType DEF ReservedSmall

\* A call that has reserved space and not used it up finds a log block.
LEMMA WriteFits ==
    ASSUME IInv, SpaceInv, MaxWrites < MAXOPBLOCKS,
           NEW p \in Procs, NEW b \in Blocks, NEW v \in Values[b], log_write(p, b, v)
    PROVE  SpaceInv'
  <1>1. /\ p \in Active /\ committer = None /\ boot = "up" /\ outstanding >= 1
        /\ UNCHANGED <<Active, committer, boot>>
    <2>1. p \in Active /\ UNCHANGED <<Active, committer, boot>>
      BY Zenon DEF log_write, Active, commitvars
    <2>2. IsFiniteSet(Active) /\ Active # {} /\ outstanding = Cardinality(Active)
          /\ outstanding \in Nat
      BY Zenon, <2>1 DEF IInv, ControlInv, TypeOK
    <2>3. outstanding # 0
      BY <2>2, FS_EmptySet
    <2> QED BY SMTT(30), <2>1, <2>2, <2>3 DEF log_write, IInv, ControlInv
  <1>2. /\ lh \in Seq(Blocks) /\ Distinct(lh) /\ Len(lh) \in Nat
        /\ wrote \in [Procs -> SUBSET Blocks]
    BY Zenon, SeqLength DEF IInv, TypeOK, ControlInv
  <1>3. IsFiniteSet(Reserved) /\ Cardinality(Reserved) \in Nat
    BY Zenon, ReservedBound DEF ReservedSmall
  <1>4. /\ IsFiniteSet(wrote[p]) /\ Cardinality(wrote[p]) \in Nat
        /\ Cardinality(wrote[p]) <= MaxWrites /\ wrote[p] \subseteq BlocksOf(lh)
    BY Zenon, <1>1, FS_CardinalityType DEF SpaceInv
  <1>5. Cardinality(Reserved) > 0
    <2>1. <<p, MAXOPBLOCKS>> \in Reserved
      BY SMTT(30), <1>1, <1>4, Sizes DEF Reserved
    <2>2. Cardinality(Reserved) # 0
      BY <1>3, <2>1, FS_EmptySet
    <2> QED BY SMTT(30), <1>3, <2>2
  <1>6. Len(lh) + Cardinality(Reserved) <= LOGBLOCKS
    BY Zenon, <1>1 DEF SpaceInv
  <1>7. Len(lh) < LOGBLOCKS
    BY SMTT(30), <1>2, <1>3, <1>5, <1>6, Sizes
  <1>8. lh' = (IF b \in BlocksOf(lh) THEN lh ELSE Append(lh, b)) /\ panicked' = panicked
    BY SMTT(30), <1>1, <1>2, <1>7, Sizes DEF log_write, IInv, TypeOK
  <1>9. wrote' = [wrote EXCEPT ![p] = @ \cup {b}] /\ Cardinality(wrote[p] \cup {b}) <= MaxWrites
    BY Zenon DEF log_write
  <1>10. BlocksOf(lh') = BlocksOf(lh) \cup {b}
    BY Zenon, <1>2, <1>8, AppendDistinct
  <1>11. IsFiniteSet(wrote[p] \cup {b})
         /\ Cardinality(wrote[p] \cup {b})
              = IF b \in wrote[p] THEN Cardinality(wrote[p]) ELSE Cardinality(wrote[p]) + 1
    BY Zenon, <1>4, FS_AddElement
  <1>12. \A r \in Active' : /\ IsFiniteSet(wrote'[r]) /\ Cardinality(wrote'[r]) <= MaxWrites
                            /\ wrote'[r] \subseteq BlocksOf(lh')
    <2> SUFFICES ASSUME NEW r \in Active
                 PROVE  /\ IsFiniteSet(wrote'[r]) /\ Cardinality(wrote'[r]) <= MaxWrites
                        /\ wrote'[r] \subseteq BlocksOf(lh')
      BY Zenon, <1>1
    <2>1. CASE r = p
      BY Zenon, <1>2, <1>4, <1>9, <1>10, <1>11, <2>1
    <2>2. CASE r # p
      BY Zenon, <1>2, <1>9, <1>10, <2>2 DEF SpaceInv, Active
    <2> QED BY Zenon, <2>1, <2>2
  <1>13. Len(lh') + Cardinality(Reserved') <= LOGBLOCKS
    <2>1. CASE b \in wrote[p]
      <3>1. lh' = lh /\ wrote' = wrote
        BY Zenon, <1>2, <1>4, <1>8, <1>9, <2>1
      <3>2. Reserved' = Reserved
        BY <1>1, <3>1 DEF Reserved
      <3> QED BY <1>6, <3>1, <3>2
    <2>2. CASE b \notin wrote[p]
      <3> DEFINE e == <<p, Cardinality(wrote[p]) + 1>>
      <3>1. Cardinality(wrote'[p]) = Cardinality(wrote[p]) + 1
            /\ \A r \in Active : r # p => wrote'[r] = wrote[r]
        BY Zenon, <1>2, <1>9, <1>11, <2>2 DEF Active
      <3>2. e \in Reserved
        BY SMTT(30), <1>1, <1>4, <1>9, <1>11, <2>2, Sizes DEF Reserved
      <3>3. Reserved' = Reserved \ {e}
        <4>1. \A k \in 1..MAXOPBLOCKS :
                  k > Cardinality(wrote[p]) + 1
                      <=> k > Cardinality(wrote[p]) /\ k # Cardinality(wrote[p]) + 1
          BY SMTT(30), <1>4
        <4> QED BY SMTT(30), <1>1, <3>1, <4>1 DEF Reserved
      <3>4. Cardinality(Reserved') = Cardinality(Reserved) - 1
        BY Zenon, <1>3, <3>2, <3>3, FS_RemoveElement
      <3>5. Len(lh') \in Nat /\ Len(lh') <= Len(lh) + 1
        BY <1>2, <1>8, SeqAppend
      <3> QED BY <1>2, <1>3, <1>6, <3>4, <3>5, Sizes
    <2> QED BY Zenon, <2>1, <2>2
  <1> QED BY Zenon, <1>1, <1>8, <1>12, <1>13 DEF SpaceInv

\* Every step keeps the reservations within the log, if no call writes
\* MAXOPBLOCKS different blocks: log_write() looks for a full log before it
\* looks whether the block is already there.
LEMMA NextSpace ==
    ASSUME MaxWrites < MAXOPBLOCKS
    PROVE  IInv /\ IInv' /\ SpaceInv /\ [Next]_vars => SpaceInv'
  <1> SUFFICES ASSUME IInv, IInv', SpaceInv, [Next]_vars PROVE SpaceInv'
    OBVIOUS
  <1>t. TypeOK /\ ControlInv
    BY DEF IInv
  <1>r. ReservedSmall /\ (IInv' => ReservedSmall')
    BY ReservedBound, PTL
  <1>l. Len(lh) \in Nat /\ Len(<< >>) = 0 /\ outstanding \in Nat
    BY <1>t, SeqLength, SeqEmpty DEF TypeOK
  <1> USE DEF diskvars, commitvars, procvars
  <1>1. ASSUME NEW p \in Procs, BeginCall(p) \/ sys_sync(p) \/ SyncReturns(p) PROVE SpaceInv'
    <2>1. Active' = Active
      BY <1>1, <1>t DEF BeginCall, sys_sync, SyncReturns, Active, TypeOK
    <2>2. UNCHANGED <<lh, wrote, committer, boot, panicked>>
      BY <1>1 DEF BeginCall, sys_sync, SyncReturns
    <2>3. Reserved' = Reserved
      BY <2>1, <2>2 DEF Reserved
    <2> QED BY <2>1, <2>2, <2>3 DEF SpaceInv
  <1>2. ASSUME NEW p \in Procs, begin_op(p) PROVE SpaceInv'
    <2>1. Active' = Active \cup {p}
      BY <1>2, <1>t DEF begin_op, Active, TypeOK
    <2>2. wrote'[p] = {} /\ \A r \in Active : r # p => wrote'[r] = wrote[r]
      BY <1>2, <1>t DEF begin_op, Active, TypeOK
    <2>3. Len(lh) + outstanding' * MAXOPBLOCKS <= LOGBLOCKS /\ outstanding' \in Nat
      BY <1>2, <1>l DEF begin_op, Room
    <2>4. Cardinality(Reserved') \in Nat /\ Cardinality(Reserved') <= outstanding' * MAXOPBLOCKS
      BY <1>r DEF ReservedSmall
    <2>5. Len(lh) + Cardinality(Reserved') <= LOGBLOCKS
      <3>1. outstanding' * MAXOPBLOCKS \in Nat
        <4>1. \A x, y \in Nat : x * y \in Nat
          OBVIOUS
        <4> QED BY Zenon, <2>3, <4>1, Sizes
      <3> QED BY <1>l, <2>3, <2>4, <3>1, Sizes
    <2>6. \A r \in Active' : /\ IsFiniteSet(wrote'[r]) /\ Cardinality(wrote'[r]) <= MaxWrites
                             /\ wrote'[r] \subseteq BlocksOf(lh)
      <3> SUFFICES ASSUME NEW r \in Active'
                   PROVE  /\ IsFiniteSet(wrote'[r]) /\ Cardinality(wrote'[r]) <= MaxWrites
                          /\ wrote'[r] \subseteq BlocksOf(lh)
        OBVIOUS
      <3>1. CASE r = p
        <4>1. Cardinality({}) = 0 /\ IsFiniteSet({})
          BY FS_EmptySet
        <4> QED BY <2>2, <3>1, <4>1, Sizes
      <3>2. CASE r # p
        BY <2>1, <2>2, <3>2 DEF SpaceInv
      <3> QED BY <3>1, <3>2
    <2> QED BY Zenon, <1>2, <2>5, <2>6 DEF begin_op, SpaceInv
  <1>3. ASSUME NEW p \in Procs, end_op(p) PROVE SpaceInv'
    <2>1. Active' \subseteq Active /\ committer = None /\ boot = "up"
          /\ UNCHANGED <<lh, wrote, boot>>
      BY Zenon, <1>3, <1>t DEF end_op, Active, TypeOK, ControlInv
    <2>2. ~panicked'
      BY Zenon, <1>3, <2>1 DEF end_op, committing, SpaceInv
    <2>3. Reserved' \in SUBSET Reserved
      BY <2>1 DEF Reserved
    <2>4. Cardinality(Reserved') <= Cardinality(Reserved)
      BY <1>r, <2>3, FS_Subset DEF ReservedSmall
    <2>5. Len(lh) + Cardinality(Reserved') <= LOGBLOCKS
      <3>1. Cardinality(Reserved) \in Nat /\ Cardinality(Reserved') \in Nat
            /\ Len(lh) + Cardinality(Reserved) <= LOGBLOCKS
        BY Zenon, <1>r, <2>1 DEF ReservedSmall, SpaceInv
      <3> QED BY <1>l, <2>4, <3>1, Sizes
    <2> QED BY Zenon, <2>1, <2>2, <2>5 DEF SpaceInv
  <1>4. ASSUME NEW p \in Procs, NEW b \in Blocks, NEW v \in Values[b], log_write(p, b, v)
        PROVE  SpaceInv'
    BY Zenon, <1>4, WriteFits
  <1>5. ASSUME Active' = {}, ~panicked', boot' = "up" /\ committer' = None => lh' = << >>
        PROVE  SpaceInv'
    <2>1. Reserved' = {}
      BY <1>5 DEF Reserved
    <2> QED BY SMTT(30), <1>5, <1>l, <2>1, FS_EmptySet, Sizes DEF SpaceInv
  <1>6. CASE CommitStep
    <2>1. committer # None /\ committer \in Procs /\ pc[committer] = "commit" /\ Active = {}
      BY Zenon, <1>6, <1>t DEF CommitStep, write_log, write_head, install_trans, ClearHead, CommitDone,
                        ControlInv, TypeOK
    <2>2. Active' = {} /\ ~panicked'
      BY SMTT(30), <1>6, <1>t, <2>1 DEF CommitStep, write_log, write_head, install_trans, ClearHead,
                              CommitDone, Active, TypeOK, SpaceInv
    <2>3. committer' = None => lh' = << >>
      BY Zenon, <1>6, <1>t, <2>1 DEF CommitStep, write_log, write_head, install_trans, ClearHead,
                              CommitDone, ControlInv
    <2> QED BY <1>5, <2>2, <2>3
  <1>7. CASE RecoveryStep \/ Crash
    <2>1. Active' = {} /\ ~panicked'
      BY SMTT(30), <1>7, <1>t DEF RecoveryStep, read_head, RecoverInstall, RecoverClear, Crash, Active,
                        ControlInv, SpaceInv
    <2>2. boot' = "up" => lh' = << >>
      BY <1>7 DEF RecoveryStep, read_head, RecoverInstall, RecoverClear, Crash
    <2> QED BY SMTT(30), <1>5, <2>1, <2>2
  <1>8. CASE UNCHANGED vars
    BY Zenon, <1>8 DEF vars, SpaceInv, Active, Reserved
  <1> QED BY Zenon, <1>1, <1>2, <1>3, <1>4, <1>6, <1>7, <1>8 DEF Next, Calls

\* The reservations of begin_op() are enough, for any log and any number of
\* calls: log_write() never panics for a full log or outside of a call, nor
\* end_op() for a commit going on, if a call writes fewer than MAXOPBLOCKS
\* different blocks.
THEOREM SpaceSafety ==
    ASSUME MaxWrites < MAXOPBLOCKS
    PROVE  Spec => []NoPanic
  <1>1. Init => SpaceInv
    <2> SUFFICES ASSUME Init PROVE SpaceInv
      OBVIOUS
    <2>1. Active = {}
      BY DEF Init, Active
    <2> QED BY <2>1 DEF Init, SpaceInv
  <1>2. SpaceInv => NoPanic
    BY Zenon DEF SpaceInv, NoPanic
  <1>3. IInv /\ IInv' /\ SpaceInv /\ [Next]_vars => SpaceInv'
    BY NextSpace
  <1> QED BY <1>1, <1>2, <1>3, Invariance, PTL DEF Spec
=============================================================================
