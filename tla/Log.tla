--------------------------------- MODULE Log --------------------------------
(***************************************************************************)
(* The write-ahead log of the xv6 file system (xv6/kernel/log.c) and       *)
(* crashes.  A step is a critical section under log.lock or one block      *)
(* written to the disk; a crash may come between any two, also during      *)
(* recovery.  The disk writes a block as a whole.  log_write() pins the    *)
(* blocks it records, so the buffer cache appears only as the current      *)
(* contents of each block.  A process waiting on &log is in "begin" or     *)
(* "sync" and looks again when it can go on: that the sleep_prepare/sleep/ *)
(* wakeup protocol loses no wakeup is the subject of module Proc.          *)
(***************************************************************************)
EXTENDS Naturals, FiniteSets, Sequences

CONSTANTS
    Procs, Blocks,
    Values,         \* what each block can hold
    MAXOPBLOCKS, LOGBLOCKS,
    MaxWrites,      \* the different blocks a call really writes, at most
    None

ASSUME LogAssumption ==
    /\ MAXOPBLOCKS \in Nat \ {0}
    /\ LOGBLOCKS \in Nat \ {0}
    /\ MAXOPBLOCKS <= LOGBLOCKS
    /\ MaxWrites \in 1..MAXOPBLOCKS
    /\ None \notin Procs

VARIABLES
    disk, head, logged,     \* on disk: home blocks, log header, log blocks
    cache,                  \* the blocks as the kernel sees them
    lh, outstanding,
    committer, step, tail,  \* the process in commit(), where, and at which block
    pc, wrote,              \* per process: position, blocks of its call
    left,                   \* sync's n - log.ncommit: the commits it still waits for
    boot,                   \* recovery: "read", "install", "clear", then "up"
    owed,                   \* history: sync() was called before a commit of blocks
    panicked                \* that were logged by then

diskvars == <<disk, head, logged>>
commitvars == <<committer, step, tail>>
procvars == <<pc, wrote, left>>
vars == <<diskvars, cache, lh, outstanding, commitvars, procvars, boot, owed, panicked>>

committing == committer # None

\* Blocks are filled with what their user puts there.
AnyValue == UNION {Values[b] : b \in Blocks}
Contents == {f \in [Blocks -> AnyValue] : \A b \in Blocks : f[b] \in Values[b]}

BlocksOf(s) == {s[i] : i \in 1..Len(s)}

Init ==
    /\ disk \in Contents
    /\ head = <<>>
    /\ \E v \in AnyValue : logged = [i \in 1..LOGBLOCKS |-> v]
    /\ cache = disk
    /\ lh = <<>> /\ outstanding = 0
    /\ committer = None /\ step = "none" /\ tail = 1
    /\ pc = [p \in Procs |-> "idle"]
    /\ wrote = [p \in Procs |-> {}]
    /\ left = [p \in Procs |-> 0]
    /\ boot = "read"
    /\ owed = [p \in Procs |-> FALSE]
    /\ panicked = FALSE

-----------------------------------------------------------------------------
(* A file system call.                                                     *)

BeginCall(p) ==
    /\ boot = "up" /\ pc[p] = "idle"
    /\ pc' = [pc EXCEPT ![p] = "begin"]
    /\ UNCHANGED <<diskvars, cache, lh, outstanding, commitvars, wrote, left, boot,
                   owed, panicked>>

\* Mutant: the calls that are already active are not counted.
Room_OneCall == Len(lh) + MAXOPBLOCKS <= LOGBLOCKS

Room == Len(lh) + (outstanding + 1) * MAXOPBLOCKS <= LOGBLOCKS

begin_op(p) ==
    /\ pc[p] = "begin"
    /\ ~committing /\ Room
    /\ outstanding' = outstanding + 1
    /\ pc' = [pc EXCEPT ![p] = "in"]
    /\ wrote' = [wrote EXCEPT ![p] = {}]
    /\ UNCHANGED <<diskvars, cache, lh, commitvars, left, boot, owed, panicked>>

\* A call changes a locked buffer and calls log_write().
log_write(p, b, v) ==
    /\ pc[p] = "in"
    /\ Cardinality(wrote[p] \cup {b}) <= MaxWrites
    /\ wrote' = [wrote EXCEPT ![p] = @ \cup {b}]
    /\ cache' = [cache EXCEPT ![b] = v]
    /\ IF Len(lh) >= LOGBLOCKS \/ outstanding < 1
       THEN panicked' = TRUE /\ UNCHANGED lh
       ELSE /\ lh' = IF b \in BlocksOf(lh) THEN lh ELSE Append(lh, b)
            /\ UNCHANGED panicked
    /\ UNCHANGED <<diskvars, outstanding, commitvars, pc, left, boot, owed>>

\* Mutant: every call commits when it ends.
end_op_Each(p) ==
    /\ pc[p] = "in" /\ ~committing
    /\ outstanding' = outstanding - 1
    /\ committer' = p
    /\ step' = IF lh = <<>> THEN "done" ELSE "write_log"
    /\ tail' = 1
    /\ pc' = [pc EXCEPT ![p] = "commit"]
    /\ UNCHANGED <<diskvars, cache, lh, wrote, left, boot, owed, panicked>>

\* The last call to end commits.
end_op(p) ==
    /\ pc[p] = "in"
    /\ outstanding' = outstanding - 1
    /\ panicked' = (panicked \/ committing)
    /\ IF outstanding = 1
       THEN /\ committer' = p
            /\ step' = IF lh = <<>> THEN "done" ELSE "write_log"
            /\ tail' = 1
            /\ pc' = [pc EXCEPT ![p] = "commit"]
       ELSE pc' = [pc EXCEPT ![p] = "idle"] /\ UNCHANGED commitvars
    /\ UNCHANGED <<diskvars, cache, lh, wrote, left, boot, owed>>

-----------------------------------------------------------------------------
(* commit()                                                                *)

\* Mutant: the loop starts over at its end.
write_log_Again ==
    /\ step = "write_log"
    /\ logged' = [logged EXCEPT ![tail] = cache[lh[tail]]]
    /\ tail' = IF tail < Len(lh) THEN tail + 1 ELSE 1
    /\ UNCHANGED <<disk, head, cache, lh, outstanding, committer, step, procvars, boot,
                   owed, panicked>>

write_log ==
    /\ step = "write_log"
    /\ logged' = [logged EXCEPT ![tail] = cache[lh[tail]]]
    /\ IF tail < Len(lh) THEN tail' = tail + 1 /\ UNCHANGED step
       ELSE tail' = 1 /\ step' = "write_head"
    /\ UNCHANGED <<disk, head, cache, lh, outstanding, committer, procvars, boot,
                   owed, panicked>>

\* "the true point at which the current transaction commits"
write_head ==
    /\ step = "write_head"
    /\ head' = lh
    /\ step' = "install"
    /\ owed' = [p \in Procs |-> FALSE]
    /\ UNCHANGED <<disk, logged, cache, lh, outstanding, committer, tail, procvars,
                   boot, panicked>>

\* One block of install_trans(), during commit() or recovery.
Install ==
    /\ disk' = [disk EXCEPT ![lh[tail]] = logged[tail]]
    /\ cache' = [cache EXCEPT ![lh[tail]] = logged[tail]]

install_trans ==
    /\ step = "install"
    /\ Install
    /\ IF tail < Len(lh) THEN tail' = tail + 1 /\ UNCHANGED step
       ELSE tail' = 1 /\ step' = "clear"
    /\ UNCHANGED <<head, logged, lh, outstanding, committer, procvars, boot, owed,
                   panicked>>

ClearHead ==
    /\ step = "clear"
    /\ lh' = <<>> /\ head' = <<>>
    /\ step' = "done"
    /\ UNCHANGED <<disk, logged, cache, outstanding, committer, tail, procvars, boot,
                   owed, panicked>>

CommitDone ==
    /\ step = "done"
    /\ committer' = None /\ step' = "none"
    /\ left' = [p \in Procs |-> IF left[p] > 0 THEN left[p] - 1 ELSE 0]
    /\ pc' = [pc EXCEPT ![committer] = "idle"]
    /\ UNCHANGED <<diskvars, cache, lh, outstanding, tail, wrote, boot, owed, panicked>>

-----------------------------------------------------------------------------
(* sys_sync()                                                              *)

\* Blocks are logged whose commit has not happened yet.
Uncommitted == lh # <<>> /\ step \in {"none", "write_log", "write_head"}

\* Mutant: sync() waits only for a commit that has begun.
sys_sync_Begun(p) ==
    /\ boot = "up" /\ pc[p] = "idle"
    /\ owed' = [owed EXCEPT ![p] = Uncommitted]
    /\ IF committing
       THEN /\ left' = [left EXCEPT ![p] = 1]
            /\ pc' = [pc EXCEPT ![p] = "sync"]
       ELSE UNCHANGED <<left, pc>>
    /\ UNCHANGED <<diskvars, cache, lh, outstanding, commitvars, wrote, boot, panicked>>

sys_sync(p) ==
    /\ boot = "up" /\ pc[p] = "idle"
    /\ owed' = [owed EXCEPT ![p] = Uncommitted]
    /\ IF committing \/ outstanding > 0
       THEN /\ left' = [left EXCEPT ![p] = 1]
            /\ pc' = [pc EXCEPT ![p] = "sync"]
       ELSE UNCHANGED <<left, pc>>
    /\ UNCHANGED <<diskvars, cache, lh, outstanding, commitvars, wrote, boot, panicked>>

SyncReturns(p) ==
    /\ pc[p] = "sync" /\ left[p] = 0
    /\ pc' = [pc EXCEPT ![p] = "idle"]
    /\ UNCHANGED <<diskvars, cache, lh, outstanding, commitvars, wrote, left, boot, owed,
                   panicked>>

-----------------------------------------------------------------------------
(* Crash and recovery: everything in memory is lost.                       *)

Crash ==
    /\ cache' = disk
    /\ lh' = <<>> /\ outstanding' = 0
    /\ committer' = None /\ step' = "none" /\ tail' = 1
    /\ pc' = [p \in Procs |-> "idle"]
    /\ wrote' = [p \in Procs |-> {}]
    /\ left' = [p \in Procs |-> 0]
    /\ boot' = "read"
    /\ owed' = [p \in Procs |-> FALSE]
    /\ UNCHANGED <<diskvars, panicked>>

read_head ==
    /\ boot = "read"
    /\ lh' = head
    /\ boot' = IF head = <<>> THEN "clear" ELSE "install"
    /\ UNCHANGED <<diskvars, cache, outstanding, commitvars, procvars, owed, panicked>>

RecoverInstall ==
    /\ boot = "install"
    /\ Install
    /\ IF tail < Len(lh) THEN tail' = tail + 1 /\ UNCHANGED boot
       ELSE tail' = 1 /\ boot' = "clear"
    /\ UNCHANGED <<head, logged, lh, outstanding, committer, step, procvars, owed,
                   panicked>>

RecoverClear ==
    /\ boot = "clear"
    /\ lh' = <<>> /\ head' = <<>>
    /\ boot' = "up"
    /\ UNCHANGED <<disk, logged, cache, outstanding, commitvars, procvars, owed, panicked>>

-----------------------------------------------------------------------------
CommitStep == write_log \/ write_head \/ install_trans \/ ClearHead \/ CommitDone
RecoveryStep == read_head \/ RecoverInstall \/ RecoverClear

Calls ==
    \/ \E p \in Procs : BeginCall(p) \/ begin_op(p) \/ end_op(p)
    \/ \E p \in Procs, b \in Blocks : \E v \in Values[b] : log_write(p, b, v)
    \/ CommitStep \/ RecoveryStep

Next ==
    /\ ~panicked
    /\ Calls \/ Crash \/ \E p \in Procs : sys_sync(p) \/ SyncReturns(p)

Spec == Init /\ [][Next]_vars

\* Processes run, calls end, and log.lock is handed out fairly.
FairSpec ==
    /\ Spec
    /\ WF_vars(CommitStep) /\ WF_vars(RecoveryStep)
    /\ \A p \in Procs : SF_vars(begin_op(p)) /\ WF_vars(end_op(p))

-----------------------------------------------------------------------------
(* Properties.                                                             *)

TypeOK ==
    /\ disk \in [Blocks -> AnyValue] /\ cache \in [Blocks -> AnyValue]
    /\ logged \in [1..LOGBLOCKS -> AnyValue]
    /\ head \in Seq(Blocks) /\ lh \in Seq(Blocks)
    /\ outstanding \in Nat
    /\ committer \in Procs \cup {None}
    /\ step \in {"none", "write_log", "write_head", "install", "clear", "done"}
    /\ tail \in 1..LOGBLOCKS
    /\ pc \in [Procs -> {"idle", "begin", "in", "commit", "sync"}]
    /\ wrote \in [Procs -> SUBSET Blocks]
    /\ left \in [Procs -> Nat]
    /\ boot \in {"up", "read", "install", "clear"}
    /\ owed \in [Procs -> BOOLEAN]
    /\ panicked \in BOOLEAN

\* begin_op()'s reservation is enough: no log_write() finds the log full and
\* no end_op() finds a commit going on.
NoPanic == ~panicked

\* When sync() has returned, whatever was logged before it was called is
\* committed.
SyncIsDurable == \A p \in Procs : pc[p] = "idle" => ~owed[p]

\* A call that waits for log space or for a commit does not wait for ever:
\* it gets in, unless the machine crashes.
CallsGetIn == \A p \in Procs : pc[p] = "begin" ~> pc[p] # "begin"

\* What recovery makes of a disk d, with header h and log blocks l.
Recover(h, l, d) ==
    [b \in Blocks |-> IF b \in BlocksOf(h) THEN l[CHOOSE i \in 1..Len(h) : h[i] = b] ELSE d[b]]

Recovered == Recover(head, logged, disk)

Now == IF boot = "up" THEN cache ELSE Recovered
Active == {p \in Procs : pc[p] = "in"}

AD == INSTANCE AtomicDisk WITH
          Values <- AnyValue, now <- Now, safe <- Recovered, active <- Active

\* "there is never any reasoning required about whether a commit might write
\* an uncommitted system call's updates to disk": with crashes at any point,
\* calls take effect on the disk all at once and together.
ImplementsAtomicDisk == AD!Spec
=============================================================================
