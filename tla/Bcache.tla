------------------------------- MODULE Bcache -------------------------------
(* The buffer cache (kernel/bio.c) with its sleep locks (kernel/sleeplock.c) *)
(* over the disk driver.                                                     *)
(*                                                                           *)
(* A step is a critical section of bcache.lock or of a sleep lock's own      *)
(* spinlock.  Threads use buffers as the file system and the log do: a       *)
(* block that was changed is written, or pinned and written later, before    *)
(* its buffer is unpinned (log_write, install_trans).                        *)
EXTENDS VirtioDisk

CONSTANT MaxPins   \* blocks a transaction may pin

VARIABLES
    lru,      \* the list from bcache.head.next (most recent) on
    pins      \* blocks of the running transaction

disk == <<descriptors, rings, vlock, device>>
vars == <<threads, buffers, disk, lru, pins>>

Places == 1 .. Cardinality(Buf)

\* the buffers are linked in some order
binit ==
    /\ lru \in [Places -> Buf] /\ \A i, j \in Places : lru[i] = lru[j] => i = j
    /\ blockno = [b \in Buf |-> Null] /\ refcnt = [b \in Buf |-> 0]
    /\ lock = blockno /\ data = blockno /\ valid = {} /\ busy = {}

Init ==
    /\ binit /\ DiskInit
    /\ pc = [p \in Proc |-> "idle"] /\ chan = [p \in Proc |-> Awake]
    /\ op = [p \in Proc |-> "read"]
    /\ want = [p \in Proc |-> Null] /\ buf = want /\ head = want
    /\ pins = {}

Cached(k) == {b \in Buf : blockno[b] = k}

\* Mutant: a pinned buffer whose holder is gone may be recycled.
Unused_Pinned == {i \in Places : \/ refcnt[lru[i]] = 0
                                 \/ blockno[lru[i]] \in pins /\ refcnt[lru[i]] = 1}

\* The least recently used buffer that nobody uses.  bget panics if there is
\* none; what begin_op admits leaves one (the guard of bget below).
Unused == {i \in Places : refcnt[lru[i]] = 0}
Victims == {lru[i] : i \in {j \in Unused : \A l \in Unused : l <= j}}

\* bget, the critical section of bcache.lock
bget(p, k) ==
    /\ pc[p] = "idle"
    /\ \/ \E b \in Cached(k) :
            /\ refcnt' = [refcnt EXCEPT ![b] = @ + 1]
            /\ buf' = [buf EXCEPT ![p] = b]
            /\ UNCHANGED <<blockno, valid>>
       \/ \E b \in Victims :
            /\ Cached(k) = {}
            /\ blockno' = [blockno EXCEPT ![b] = k]
            /\ valid' = valid \ {b}
            /\ refcnt' = [refcnt EXCEPT ![b] = 1]
            /\ buf' = [buf EXCEPT ![p] = b]
    /\ pc' = [pc EXCEPT ![p] = "acquire"]
    /\ want' = [want EXCEPT ![p] = k]
    /\ UNCHANGED <<chan, op, head, lock, data, busy, disk, lru, pins>>

\* One round of acquiresleep's loop; with the lock, bread looks whether the
\* buffer is valid, and calls virtio_disk_rw(b, 0) if not.
acquiresleep(p) ==
    LET b == buf[p]
    IN  /\ At(p, "acquire")
        /\ \/ /\ lock[b] = Null
              /\ lock' = [lock EXCEPT ![b] = p]
              /\ pc' = [pc EXCEPT ![p] = IF b \in valid THEN "have" ELSE "rw"]
              /\ op' = [op EXCEPT ![p] = "read"]
              /\ UNCHANGED chan
           \/ /\ lock[b] # Null
              /\ chan' = [chan EXCEPT ![p] = LockOf(b)]
              /\ UNCHANGED <<lock, pc, op>>
        /\ UNCHANGED <<want, buf, head, blockno, valid, refcnt, data, busy, disk, lru, pins>>

\* virtio_disk_rw returns: bread sets valid, install_trans unpins
RwReturns(p) ==
    LET b == buf[p]  unpin == op[p] = "write" /\ want[p] \in pins
    IN  /\ Finish(p)
        /\ valid' = valid \cup {b}
        /\ refcnt' = IF unpin THEN [refcnt EXCEPT ![b] = @ - 1] ELSE refcnt
        /\ pins' = IF unpin THEN pins \ {want[p]} ELSE pins
        /\ UNCHANGED <<blockno, lock, data, busy, lru>>

\* contents d once block k has got new ones elsewhere
Outdated(d, k) == IF d = Current(k) THEN Stale(k) ELSE d

\* the holder changes the block and writes it (bwrite), or pins it (bpin)
Change(p) ==
    LET b == buf[p]  k == want[p]
    IN  /\ pc[p] = "have" /\ lock[b] = p
        /\ data' = [c \in Buf |-> IF c = b THEN Current(k) ELSE Outdated(data[c], k)]
        /\ blocks' = [j \in Block |-> Outdated(blocks[j], k)]
        /\ \/ /\ k \in pins \/ Cardinality(pins) < MaxPins
              /\ pins' = pins \cup {k}
              /\ refcnt' = IF k \in pins THEN refcnt ELSE [refcnt EXCEPT ![b] = @ + 1]
              /\ UNCHANGED <<pc, op>>
           \/ /\ pc' = [pc EXCEPT ![p] = "rw"]
              /\ op' = [op EXCEPT ![p] = "write"]
              /\ UNCHANGED <<pins, refcnt>>
        /\ UNCHANGED <<chan, want, buf, head, blockno, valid, lock, busy,
                       descriptors, rings, vlock, seen, work, irq, lru>>

\* brelse, first half: releasesleep
releasesleep(p) ==
    LET b == buf[p]
    IN  /\ pc[p] = "have" /\ lock[b] = p
        /\ lock' = [lock EXCEPT ![b] = Null]
        /\ chan' = wakeup(LockOf(b))
        /\ pc' = [pc EXCEPT ![p] = "brelse"]
        /\ UNCHANGED <<want, buf, op, head, blockno, valid, refcnt, data, busy, disk, lru, pins>>

\* the list with buffer b unlinked and inserted at its head
MoveToFront(b) ==
    [i \in Places |-> IF i = 1 THEN b
                      ELSE IF \E j \in Places : j >= i /\ lru[j] = b THEN lru[i - 1]
                      ELSE lru[i]]

\* brelse, second half: drop the reference, to the front of the list if last
brelse(p) ==
    LET b == buf[p]
    IN  /\ pc[p] = "brelse"
        /\ refcnt' = [refcnt EXCEPT ![b] = @ - 1]
        /\ lru' = IF refcnt[b] = 1 THEN MoveToFront(b) ELSE lru
        /\ pc' = [pc EXCEPT ![p] = "idle"]
        /\ buf' = [buf EXCEPT ![p] = Null]
        /\ want' = [want EXCEPT ![p] = Null]
        /\ UNCHANGED <<chan, op, head, blockno, valid, lock, data, busy, disk, pins>>

Driver(p) == (Rw(p) \/ KillWakes(p)) /\ UNCHANGED <<lru, pins>>
DeviceStep == Device /\ UNCHANGED <<lru, pins>>
IntrStep == Intr /\ UNCHANGED <<lru, pins>>

Thread(p) ==
    \/ \E k \in Block : bget(p, k)
    \/ acquiresleep(p) \/ RwReturns(p)
    \/ Change(p)
    \/ releasesleep(p) \/ brelse(p) \/ Driver(p)

Next == (\E p \in Proc : Thread(p)) \/ DeviceStep \/ IntrStep

Spec == Init /\ [][Next]_vars
-----------------------------------------------------------------------------
\* bread returns a locked buffer that holds the block it was asked for, with
\* what its last holder put there, whatever was recycled, pinned or written
\* in between.
ReadsLatest ==
    \A p \in Proc : pc[p] = "have" =>
        blockno[buf[p]] = want[p] /\ lock[buf[p]] = p /\ data[buf[p]] = Current(want[p])

\* Who sleeps, or is about to, has a reason that a wakeup is still to end: too
\* few descriptors, a lock that is held, or a request that the device still
\* has or that an interrupt is still to report.
NoLostWakeup ==
    \A p \in Proc : chan[p] # Awake =>
        \/ chan[p] = FreeChan /\ Cardinality(free) < 3
        \/ /\ chan[p] = IoOf(buf[p]) /\ buf[p] \in busy
           /\ \/ head[p] \in work \/ \E i \in Desc : avail[i] = head[p]
              \/ (\E i \in Desc : used[i] = head[p]) /\ (irq \/ vlock)
        \/ chan[p] = LockOf(buf[p]) /\ lock[buf[p]] # Null

\* The descriptors that are not free are the chains of the requests in
\* progress, three each and none shared: no error path or completion loses one.
DescriptorsAccounted ==
    LET active == {p \in Proc : head[p] # Null}
    IN  /\ UNION {Chain(head[p]) : p \in active} = Desc \ free
        /\ 3 * Cardinality(active) = Cardinality(Desc \ free)
=============================================================================
