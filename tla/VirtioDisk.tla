----------------------------- MODULE VirtioDisk -----------------------------
(* The virtio block driver (kernel/virtio_disk.c) between kernel threads     *)
(* that read and write buffers and a device that works on its own.           *)
(*                                                                           *)
(* A step is what the driver does under disk.vdisk_lock.  The interrupt      *)
(* handler holds that lock over several steps, because the device goes on    *)
(* filling the used ring meanwhile.  A thread whose chan is not Awake sleeps, *)
(* or is between sleep_prepare() and sleep(); a wakeup lets it go on at pc.  *)
(* Ring entries that were consumed are set to Null: their contents are       *)
(* garbage, and nothing may read them again.                                 *)
(* The contents of a block are a pair: of which block they are, and whether  *)
(* they are what was last put into it.                                       *)
EXTENDS Integers, FiniteSets

CONSTANTS Proc, Buf, Block, Null,
          Nums,    \* values of NUM: descriptors, and entries of each ring
          Laps     \* ring indices are uint16 and wrap after this many laps

ASSUME RingAssumption == Nums \subseteq Nat \ 0 .. 2 /\ Laps \in Nat \ {0}

\* what a request asks for
Requests == [op : {"read", "write"}, sector : Block]

ASSUME TableAssumption ==
    IsFiniteSet(Proc) /\ IsFiniteSet(Buf) /\ Null \notin Proc \cup Buf \cup Block \cup Nat \cup Requests

VARIABLES
    pc, chan, want, buf, op, head,              \* per thread: where it is, what it sleeps on, its
                                                \* block, buffer, read or write, idx[0]
    blockno, valid, refcnt, lock, data, busy,   \* struct buf: the fields, and the buffers with
                                                \* valid, and with disk, set
    num, free, desc, info, ops,                 \* struct disk: NUM, the free descriptors, ...
    avail, aidx, used, uidx, used_idx,          \* ... and the rings shared with the device
    vlock,                                      \* the interrupt handler holds vdisk_lock
    blocks, seen, work, irq                     \* the device: its blocks, next avail entry,
                                                \* chains in work, interrupt

threads == <<pc, chan, want, buf, op, head>>
buffers == <<blockno, valid, refcnt, lock, data, busy>>
descriptors == <<num, free, desc, info, ops>>
rings == <<avail, aidx, used, uidx, used_idx>>
device == <<blocks, seen, work, irq>>

\* what a thread may sleep on: nothing, &disk.free[0], a buffer, its lock
Awake == <<"none", Null>>
FreeChan == <<"free", Null>>
IoOf(b) == <<"io", b>>
LockOf(b) == <<"lock", b>>

Current(k) == <<k, "current">>
Stale(k) == <<k, "stale">>

Desc == 0 .. num - 1
Inc(idx) == (idx + 1) % (num * Laps)

NoDesc == [addr |-> Null, next |-> Null]

DiskInit ==
    /\ num \in Nums
    /\ free = Desc
    /\ desc = [i \in Desc |-> NoDesc]
    /\ info = [i \in Desc |-> Null] /\ ops = info /\ avail = info /\ used = info
    /\ aidx = 0 /\ uidx = 0 /\ used_idx = 0
    /\ vlock = FALSE
    /\ blocks = [k \in Block |-> Current(k)] /\ seen = 0 /\ work = {} /\ irq = FALSE

\* wakeup(): whoever registered on channel c goes on
wakeup(c) == [p \in Proc |-> IF chan[p] = c THEN Awake ELSE chan[p]]

\* thread p is at label l, and neither asleep nor about to sleep
At(p, l) == pc[p] = l /\ chan[p] = Awake

\* kkill() makes a sleeper runnable.  (It leaves p->chan set, which is of no
\* consequence: sleep() is never called without a sleep_prepare() before it.)
KillWakes(p) ==
    /\ chan[p] # Awake
    /\ chan' = [chan EXCEPT ![p] = Awake]
    /\ UNCHANGED <<pc, want, buf, op, head, buffers, descriptors, rings, vlock, device>>
-----------------------------------------------------------------------------
(* virtio_disk_rw *)

\* the descriptors of a chain, from its head on
Chain(i) == {i, desc[i].next, desc[desc[i].next].next}

\* the first free descriptor
alloc_desc(f, i) == i \in f /\ \A j \in f : i <= j

\* alloc3_desc(): the three lowest free descriptors; format them, publish the
\* head in the avail ring, notify, and wait for the interrupt
Submit(p) ==
    LET b == buf[p]
    IN  /\ At(p, "rw") /\ ~vlock
        /\ \E i, j, k \in free :
             /\ alloc_desc(free, i) /\ alloc_desc(free \ {i}, j) /\ alloc_desc(free \ {i, j}, k)
             /\ free' = free \ {i, j, k}
             /\ ops' = [ops EXCEPT ![i] = [op |-> op[p], sector |-> blockno[b]]]
             /\ desc' = [desc EXCEPT ![i] = [addr |-> "op", next |-> j],
                                     ![j] = [addr |-> b, next |-> k],
                                     ![k] = [addr |-> "status", next |-> Null]]
             /\ info' = [info EXCEPT ![i] = b]
             /\ avail' = [avail EXCEPT ![aidx % num] = i]
             /\ head' = [head EXCEPT ![p] = i]
        /\ aidx' = Inc(aidx)
        /\ busy' = busy \cup {b}
        /\ pc' = [pc EXCEPT ![p] = "io"]
        /\ chan' = [chan EXCEPT ![p] = IoOf(b)]
        /\ UNCHANGED <<want, buf, op, blockno, valid, refcnt, lock, data,
                       num, used, uidx, used_idx, vlock, device>>

\* alloc3_desc() fails: the descriptors it took are freed again, which wakes
\* whoever else waits for descriptors
NoDescriptors(p) ==
    /\ At(p, "rw") /\ ~vlock /\ Cardinality(free) < 3
    /\ chan' = [IF free = {} THEN chan ELSE wakeup(FreeChan) EXCEPT ![p] = FreeChan]
    /\ UNCHANGED <<pc, want, buf, op, head, buffers, descriptors, rings, vlock, device>>

\* while(b->disk == 1)
StillBusy(p) ==
    /\ At(p, "io") /\ ~vlock /\ buf[p] \in busy
    /\ chan' = [chan EXCEPT ![p] = IoOf(buf[p])]
    /\ UNCHANGED <<pc, want, buf, op, head, buffers, descriptors, rings, vlock, device>>

\* Mutant: only the head of the chain is freed.
Finish_Head(p) ==
    /\ At(p, "io") /\ ~vlock /\ buf[p] \notin busy
    /\ free' = free \cup {head[p]}
    /\ desc' = [desc EXCEPT ![head[p]] = NoDesc]
    /\ info' = [info EXCEPT ![head[p]] = Null]
    /\ pc' = [pc EXCEPT ![p] = "have"]
    /\ chan' = wakeup(FreeChan)
    /\ head' = [head EXCEPT ![p] = Null]
    /\ UNCHANGED <<want, buf, op, num, ops, rings, vlock, device>>

\* the request is done: free_chain().  Its caller goes on with the buffer,
\* which is valid now (bread), and which a commit unpins (install_trans).
Finish(p) ==
    LET c == Chain(head[p])
    IN  /\ At(p, "io") /\ ~vlock /\ buf[p] \notin busy
        /\ free' = free \cup c
        /\ desc' = [i \in Desc |-> IF i \in c THEN NoDesc ELSE desc[i]]
        /\ info' = [info EXCEPT ![head[p]] = Null]
        /\ pc' = [pc EXCEPT ![p] = "have"]
        /\ chan' = wakeup(FreeChan)
        /\ head' = [head EXCEPT ![p] = Null]
        /\ UNCHANGED <<want, buf, op, num, ops, rings, vlock, device>>
-----------------------------------------------------------------------------
(* The device: takes chains in the order of the avail ring, finishes them in *)
(* any order.                                                                *)
DeviceTakes ==
    /\ seen # aidx
    /\ work' = work \cup {avail[seen % num]}
    /\ seen' = Inc(seen)
    /\ avail' = [avail EXCEPT ![seen % num] = Null]
    /\ UNCHANGED <<threads, buffers, descriptors, aidx, used, uidx, used_idx, vlock, blocks, irq>>

DeviceFinishes(i) ==
    LET b == desc[desc[i].next].addr  k == ops[i].sector
    IN  /\ i \in work
        /\ \/ /\ ops[i].op = "write"
              /\ blocks' = [blocks EXCEPT ![k] = data[b]]
              /\ UNCHANGED data
           \/ /\ ops[i].op = "read"
              /\ data' = [data EXCEPT ![b] = blocks[k]]
              /\ UNCHANGED blocks
        /\ ops' = [ops EXCEPT ![i] = Null]
        /\ used' = [used EXCEPT ![uidx % num] = i]
        /\ uidx' = Inc(uidx)
        /\ work' = work \ {i}
        /\ irq' = TRUE
        /\ UNCHANGED <<threads, blockno, valid, refcnt, lock, busy, num, free, desc, info,
                       avail, aidx, used_idx, vlock, seen>>

\* virtio_disk_intr: acquire, acknowledge
virtio_disk_intr ==
    /\ irq /\ ~vlock
    /\ vlock' = TRUE
    /\ irq' = FALSE
    /\ UNCHANGED <<threads, buffers, descriptors, rings, blocks, seen, work>>

\* one round of while(used_idx != used->idx)
IntrReap ==
    LET b == info[used[used_idx % num]]
    IN  /\ vlock /\ used_idx # uidx
        /\ busy' = busy \ {b}
        /\ chan' = wakeup(IoOf(b))
        /\ used' = [used EXCEPT ![used_idx % num] = Null]
        /\ used_idx' = Inc(used_idx)
        /\ UNCHANGED <<pc, want, buf, op, head, blockno, valid, refcnt, lock, data,
                       descriptors, avail, aidx, uidx, vlock, device>>

\* Mutant: what came in since the interrupt is left for the next one.
IntrReturn_Early ==
    /\ vlock
    /\ vlock' = FALSE
    /\ UNCHANGED <<threads, buffers, descriptors, rings, device>>

IntrReturn ==
    /\ vlock /\ used_idx = uidx
    /\ vlock' = FALSE
    /\ UNCHANGED <<threads, buffers, descriptors, rings, device>>

Rw(p) == Submit(p) \/ NoDescriptors(p) \/ StillBusy(p)
Device == DeviceTakes \/ \E i \in Desc : DeviceFinishes(i)
Intr == virtio_disk_intr \/ IntrReap \/ IntrReturn
=============================================================================
