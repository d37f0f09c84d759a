-------------------------------- MODULE Pipe --------------------------------
(***************************************************************************)
(* A pipe of the xv6 kernel (xv6/kernel/pipe.c) with several readers and   *)
(* writers.  The loops that copy a byte at a time hold pi->lock, but the   *)
(* killed flag they look at can be set between two bytes.  sleep_prepare,  *)
(* sleep and wakeup are those of proc.c.                                   *)
(***************************************************************************)
EXTENDS Naturals, FiniteSets

CONSTANTS
    Readers, Writers, Bytes,
    PIPESIZE,
    UintSize,       \* nread and nwrite count modulo this (2^32)
    MaxCount,       \* bound: bytes of a read() or write()
    Killable,       \* processes that kill() is called for
    None

ASSUME PipeAssumption ==
    /\ PIPESIZE \in Nat \ {0}
    /\ UintSize \in Nat /\ UintSize > PIPESIZE /\ UintSize % PIPESIZE = 0
    /\ MaxCount \in Nat \ {0}
    /\ Readers # {} /\ Writers # {}
    /\ Readers \cap Writers = {} /\ None \notin Readers \cup Writers

Procs == Readers \cup Writers

VARIABLES
    data, nread, nwrite, readopen, writeopen,
    lock,               \* the holder of pi->lock
    pc, n, i,           \* per process: position, and the locals n and i
    chan, asleep, killed,
    open                \* the processes that have their end of the pipe open

ring == <<data, nread, nwrite>>
ends == <<readopen, writeopen, open>>
locals == <<n, i>>
vars == <<ring, ends, lock, pc, locals, chan, asleep, killed>>

Init ==
    /\ data \in [0..(PIPESIZE - 1) -> Bytes]
    /\ nread = 0 /\ nwrite = 0
    /\ readopen = TRUE /\ writeopen = TRUE
    /\ lock = None
    /\ pc = [p \in Procs |-> "idle"]
    /\ n = [p \in Procs |-> 0] /\ i = [p \in Procs |-> 0]
    /\ chan = [p \in Procs |-> "none"]
    /\ asleep = [p \in Procs |-> FALSE]
    /\ killed = [p \in Procs |-> FALSE]
    /\ open = Procs

Goto(p, l) == pc' = [pc EXCEPT ![p] = l]

\* Back from the system call: its locals are gone.
Return(p) ==
    /\ Goto(p, "idle")
    /\ n' = [n EXCEPT ![p] = 0]
    /\ i' = [i EXCEPT ![p] = 0]

Empty == nread = nwrite
\* Mutant: room for one byte too many.
Full_Late == nwrite = (nread + PIPESIZE + 1) % UintSize

Full == nwrite = (nread + PIPESIZE) % UintSize

\* wakeup(ch), then sleep_prepare by the processes of S.
wakeup(ch, S, own) ==
    /\ chan' = [p \in Procs |-> IF p \in S THEN own
                                ELSE IF chan[p] = ch THEN "none" ELSE chan[p]]
    /\ asleep' = [p \in Procs |-> asleep[p] /\ chan[p] # ch]

-----------------------------------------------------------------------------
\* write() or read() of some bytes.  A killed process returns to user space
\* no more.
Call(p) ==
    /\ pc[p] = "idle" /\ p \in open /\ ~killed[p]
    /\ \E k \in 1..MaxCount : n' = [n EXCEPT ![p] = k]
    /\ Goto(p, "acquire")
    /\ UNCHANGED <<ring, ends, lock, i, chan, asleep, killed>>

Acquire(p) ==
    /\ pc[p] = "acquire" /\ ~asleep[p]
    /\ lock = None
    /\ lock' = p
    /\ Goto(p, IF p \in Writers THEN "write" ELSE "wait")
    /\ UNCHANGED <<ring, ends, locals, chan, asleep, killed>>

\* pipewrite's loop: the reader is gone, or this process is killed.  What it
\* has written so far stays in the pipe, and nobody is woken.
WriteFails(p) ==
    /\ pc[p] = "write" /\ i[p] < n[p]
    /\ ~readopen \/ killed[p]
    /\ lock' = None
    /\ Return(p)
    /\ UNCHANGED <<ring, ends, chan, asleep, killed>>

WriteFull(p) ==
    /\ pc[p] = "write" /\ i[p] < n[p]
    /\ readopen /\ ~killed[p] /\ Full
    /\ wakeup("nread", {p}, "nwrite")
    /\ lock' = None
    /\ Goto(p, "sleep")
    /\ UNCHANGED <<ring, ends, locals, killed>>

WriteByte(p) ==
    /\ pc[p] = "write" /\ i[p] < n[p]
    /\ readopen /\ ~killed[p] /\ ~Full
    /\ \E b \in Bytes : data' = [data EXCEPT ![nwrite % PIPESIZE] = b]
    /\ nwrite' = (nwrite + 1) % UintSize
    /\ i' = [i EXCEPT ![p] = @ + 1]
    /\ UNCHANGED <<nread, ends, lock, pc, n, chan, asleep, killed>>

\* Mutant: no wakeup at the end of a write.
WriteEnds_Quiet(p) ==
    /\ pc[p] = "write"
    /\ i[p] = n[p] \/ (readopen /\ ~killed[p] /\ ~Full)
    /\ lock' = None
    /\ Return(p)
    /\ UNCHANGED <<ring, ends, chan, asleep, killed>>

\* All is written, or copyin() fails.
WriteEnds(p) ==
    /\ pc[p] = "write"
    /\ i[p] = n[p] \/ (readopen /\ ~killed[p] /\ ~Full)
    /\ wakeup("nread", {}, "none")
    /\ lock' = None
    /\ Return(p)
    /\ UNCHANGED <<ring, ends, killed>>

-----------------------------------------------------------------------------
\* piperead waits while the pipe is empty and has a writer.
ReadWaits(p) ==
    /\ pc[p] = "wait" /\ Empty /\ writeopen
    /\ lock' = None
    /\ IF killed[p]
       THEN Return(p) /\ UNCHANGED chan
       ELSE /\ Goto(p, "sleep") /\ chan' = [chan EXCEPT ![p] = "nread"]
            /\ UNCHANGED locals
    /\ UNCHANGED <<ring, ends, asleep, killed>>

ReadStarts(p) ==
    /\ pc[p] = "wait" /\ ~(Empty /\ writeopen)
    /\ Goto(p, "read")
    /\ UNCHANGED <<ring, ends, lock, locals, chan, asleep, killed>>

ReadByte(p) ==
    /\ pc[p] = "read" /\ i[p] < n[p] /\ ~Empty
    /\ nread' = (nread + 1) % UintSize
    /\ i' = [i EXCEPT ![p] = @ + 1]
    /\ UNCHANGED <<data, nwrite, ends, lock, pc, n, chan, asleep, killed>>

\* The buffer is full, the pipe is empty, or copyout() fails.
ReadEnds(p) ==
    /\ pc[p] = "read"
    /\ wakeup("nwrite", {}, "none")
    /\ lock' = None
    /\ Return(p)
    /\ UNCHANGED <<ring, ends, killed>>

-----------------------------------------------------------------------------
\* sleep() after sleep_prepare() and release().
sleep(p) ==
    /\ pc[p] = "sleep"
    /\ asleep' = [asleep EXCEPT ![p] = chan[p] # "none"]
    /\ Goto(p, "acquire")
    /\ UNCHANGED <<ring, ends, lock, locals, chan, killed>>

\* kkill(): it does not take pi->lock.
kkill(p) ==
    /\ p \in Killable /\ ~killed[p]
    /\ killed' = [killed EXCEPT ![p] = TRUE]
    /\ asleep' = [asleep EXCEPT ![p] = FALSE]
    /\ UNCHANGED <<ring, ends, lock, pc, locals, chan>>

\* close(), or exit of a killed process; the last one closes the end.
pipeclose(p) ==
    /\ pc[p] = "idle" /\ p \in open
    /\ lock = None
    /\ open' = open \ {p}
    /\ writeopen' = (writeopen /\ open' \cap Writers # {})
    /\ readopen' = (readopen /\ open' \cap Readers # {})
    /\ IF writeopen' # writeopen THEN wakeup("nread", {}, "none")
       ELSE IF readopen' # readopen THEN wakeup("nwrite", {}, "none")
       ELSE UNCHANGED <<chan, asleep>>
    /\ UNCHANGED <<ring, lock, pc, locals, killed>>

\* A process inside a call, or killed and on its way out.
Going(p) ==
    \/ Acquire(p) \/ sleep(p)
    \/ WriteFails(p) \/ WriteFull(p) \/ WriteByte(p) \/ WriteEnds(p)
    \/ ReadWaits(p) \/ ReadStarts(p) \/ ReadByte(p) \/ ReadEnds(p)
    \/ killed[p] /\ pipeclose(p)

Next == \E p \in Procs : Going(p) \/ Call(p) \/ kkill(p) \/ pipeclose(p)

Spec == Init /\ [][Next]_vars

\* Processes run, and a lock that is free again and again is got.
FairSpec == Spec /\ \A p \in Procs : SF_vars(Going(p))

-----------------------------------------------------------------------------
(* Properties.                                                             *)

TypeOK ==
    /\ data \in [0..(PIPESIZE - 1) -> Bytes]
    /\ nread \in 0..(UintSize - 1) /\ nwrite \in 0..(UintSize - 1)
    /\ readopen \in BOOLEAN /\ writeopen \in BOOLEAN
    /\ lock \in Procs \cup {None}
    /\ pc \in [Procs -> {"idle", "acquire", "write", "wait", "read", "sleep"}]
    /\ n \in [Procs -> 0..MaxCount] /\ i \in [Procs -> 0..MaxCount]
    /\ chan \in [Procs -> {"none", "nread", "nwrite"}]
    /\ asleep \in [Procs -> BOOLEAN] /\ killed \in [Procs -> BOOLEAN]
    /\ open \subseteq Procs

\* The bytes between nread and nwrite, also when the counters have wrapped.
Count == (nwrite + UintSize - nread) % UintSize
Queue == [k \in 1..Count |-> data[(nread + k - 1) % PIPESIZE]]
F == INSTANCE Fifo WITH q <- Queue, Size <- PIPESIZE

\* The ring of data[] and the two counters are a bounded queue: no byte is
\* lost, doubled, reordered or overwritten, whoever reads, writes, closes or
\* is killed.
ImplementsFifo == F!Spec

Calling(p) == pc[p] # "idle"
CanGoOn(p) == IF p \in Readers THEN ~(Empty /\ writeopen) ELSE ~(Full /\ readopen)

\* No reader sleeps on while the pipe has bytes for it or no writer is left,
\* and no writer while the pipe has room or the reader is gone.  The exception
\* is a writer that is killed while another one keeps the pipe open: it does
\* not announce the bytes it has written.
SleepersAreWoken ==
    \A p \in Procs :
        Calling(p) /\ CanGoOn(p)
            ~> \/ ~Calling(p) \/ ~CanGoOn(p)
               \/ p \in Readers /\ writeopen /\ \E w \in Writers : killed[w]
=============================================================================
