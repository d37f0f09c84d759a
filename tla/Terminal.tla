------------------------------ MODULE Terminal ------------------------------
(* The console: kernel/console.c and kernel/uart.c, with the interrupts that  *)
(* drive them (kernel/trap.c, kernel/plic.c) and the threads that wait for    *)
(* them, on several CPUs.  The device and the keyboard are external.          *)
(* A critical section of cons.lock is one step after the one that acquires    *)
(* the lock.  One process writes at a time (the others wait for tx_lock).     *)
EXTENDS Spinlock, Integers, FiniteSets, Sequences

CONSTANTS
    Readers, Writer, CPU, None,
    Mixes,           \* threads that use the console together, and the n keys that are typed
    INPUT_BUF_SIZE,
    UintSize,        \* r, w and e count modulo this (2^32)
    Start,           \* what r, w and e have counted up to
    MaxCount, MaxDisturb      \* bounds: characters of a call, kills and timer interrupts

Threads == Readers \cup {Writer}

ASSUME TerminalAssumption ==
    /\ INPUT_BUF_SIZE \in Nat \ {0} /\ UintSize \in Nat
    /\ UintSize % INPUT_BUF_SIZE = 0 /\ UintSize > INPUT_BUF_SIZE
    /\ Start \in 0 .. UintSize - 1 /\ MaxCount \in Nat
    /\ Writer \notin Readers /\ None \notin Threads /\ None \notin CPU
    /\ \A m \in Mixes : m.who \subseteq Threads /\ m.keys \subseteq {"x", "cr", "eof", "erase", "kill"}

VARIABLES
    cons,    \* buf, r, w, e
    lock,    \* the CPU that has cons.lock
    cpu,     \* per CPU: noff, intena, sie
    run,     \* per CPU: its thread
    intr,    \* per CPU: how far uartintr() is
    th,      \* per thread: pc, n, got (n < target), chan, asleep, intena, trap
    killed,
    rx, tx,  \* characters in the FIFOs of the uart
    txint,   \* the uart has become idle
    mix,     \* the threads and the keys of this behaviour
    typed, disturbed

device == <<rx, tx, txint, typed>>
vars == <<cons, lock, cpu, run, intr, th, killed, device, mix, disturbed>>

Init ==
    /\ mix \in Mixes
    /\ cons = [buf |-> [i \in 0 .. INPUT_BUF_SIZE - 1 |-> "nl"], r |-> Start, w |-> Start, e |-> Start]
    /\ lock = None
    /\ cpu = [c \in CPU |-> Looking] /\ run = [c \in CPU |-> None]
    /\ intr = [c \in CPU |-> "no"]
    /\ th = [t \in Threads |-> [pc |-> "idle", n |-> 0, got |-> FALSE, chan |-> "none",
                                asleep |-> FALSE, intena |-> TRUE, trap |-> FALSE]]
    /\ killed = {}
    /\ rx = <<>> /\ tx = 0 /\ txint = FALSE /\ typed = 0 /\ disturbed = 0

Wrap(i) == (i + UintSize) % UintSize
Ahead(i, j) == Wrap(i - j)
At(i) == cons.buf[i % INPUT_BUF_SIZE]

\* the characters from index i to index j
Text(i, j) == [k \in 1 .. Ahead(j, i) |-> At(Wrap(i + k - 1))]

\* wakeup: the threads that are registered at the channel
wakeup(ch, T) ==
    [t \in Threads |-> IF T[t].chan = ch THEN [T[t] EXCEPT !.chan = "none", !.asleep = FALSE] ELSE T[t]]

\* Thread t runs on CPU c, and no interrupt has taken it over.
On(c, t) == run[c] = t /\ intr[c] = "no" /\ ~th[t].trap
Idle(t) == [th[t] EXCEPT !.pc = "idle", !.n = 0, !.got = FALSE]
-----------------------------------------------------------------------------
(* Scheduling.  A thread in the kernel has interrupts on unless it holds a lock. *)

\* scheduler(), and the rest of sched() and yield() or sleep()
Dispatch(c, t) ==
    /\ run[c] = None /\ intr[c] = "no"
    /\ t \in mix.who /\ \A d \in CPU : run[d] # t
    /\ ~th[t].asleep /\ (t \in killed => th[t].pc # "idle")
    /\ run' = [run EXCEPT ![c] = t]
    /\ cpu' = [cpu EXCEPT ![c] = Resumed(@, th[t].intena)]
    /\ UNCHANGED <<cons, lock, intr, th, killed, device, disturbed, mix>>

\* the thread's trap is over: kerneltrap restores sstatus
Sret(c, t) ==
    /\ run[c] = t /\ intr[c] = "no" /\ th[t].trap
    /\ th' = [th EXCEPT ![t].trap = FALSE]
    /\ cpu' = [cpu EXCEPT ![c].sie = TRUE]
    /\ UNCHANGED <<cons, lock, run, intr, killed, device, disturbed, mix>>

\* sched(): with interrupts off and one lock, that of the process
GiveUp(c, t, T) ==
    LET held == acquire(cpu[c])
    IN  /\ held.noff = 1
        /\ th' = [T EXCEPT ![t].intena = held.intena]
        /\ run' = [run EXCEPT ![c] = None]
        /\ cpu' = [cpu EXCEPT ![c] = Looking]

\* a timer interrupt: kerneltrap and yield, with interrupts off
Preempt(c, t) ==
    /\ On(c, t) /\ cpu[c].sie
    /\ disturbed < MaxDisturb /\ disturbed' = disturbed + 1
    /\ th' = [th EXCEPT ![t].intena = FALSE, ![t].trap = TRUE]
    /\ run' = [run EXCEPT ![c] = None]
    /\ cpu' = [cpu EXCEPT ![c] = Looking]
    /\ UNCHANGED <<cons, lock, intr, killed, device, mix>>

\* sleep(): unless a wakeup has come since sleep_prepare()
sleep(c, t) ==
    /\ On(c, t) /\ th[t].pc = "sleep"
    /\ LET T == [th EXCEPT ![t].pc = IF t = Writer THEN "prepare" ELSE "acquire"]
       IN  IF th[t].chan = "none" THEN th' = T /\ UNCHANGED <<run, cpu>>
           ELSE GiveUp(c, t, [T EXCEPT ![t].asleep = TRUE])
    /\ UNCHANGED <<cons, lock, intr, killed, device, disturbed, mix>>

kkill(t) ==
    /\ disturbed < MaxDisturb /\ t \in mix.who \ killed
    /\ killed' = killed \cup {t} /\ disturbed' = disturbed + 1
    /\ th' = [th EXCEPT ![t].asleep = FALSE]
    /\ UNCHANGED <<cons, lock, cpu, run, intr, device, mix>>
-----------------------------------------------------------------------------
(* consoleread *)

Read(c, t) ==
    /\ On(c, t) /\ t \in Readers /\ th[t].pc = "idle" /\ t \notin killed
    /\ \E n \in 1 .. MaxCount : th' = [th EXCEPT ![t].n = n, ![t].pc = "acquire"]
    /\ UNCHANGED <<cons, lock, cpu, run, intr, killed, device, disturbed, mix>>

AcquireCons(c, t) ==
    /\ On(c, t) /\ th[t].pc = "acquire" /\ lock = None
    /\ lock' = c
    /\ cpu' = [cpu EXCEPT ![c] = acquire(@)]
    /\ th' = [th EXCEPT ![t].pc = "locked"]
    /\ UNCHANGED <<cons, run, intr, killed, device, disturbed, mix>>

\* How many characters of q a read of n takes: up to the end of a line; an end
\* of file is left for the next read if there is anything before it.
Taken(q, n, got) ==
    LET m == IF Len(q) < n THEN Len(q) ELSE n
        alone(j) == ~got /\ j = 1
    IN  {j \in 0 .. m :
            /\ \A i \in 1 .. j - 1 : q[i] \notin {"nl", "eof"}
            /\ j > 0 /\ q[j] = "eof" => alone(j)
            /\ \/ j = m
               \/ j > 0 /\ q[j] \in {"nl", "eof"}
               \/ q[j + 1] = "eof" /\ ~alone(j + 1)}

\* The loop with the lock, until the read is done, or copyout fails after k
\* characters, or there is nothing left and the reader waits.
consoleread(c, t) ==
    /\ On(c, t) /\ th[t].pc = "locked"
    /\ LET q == Text(cons.r, cons.w)
       IN  \E j \in Taken(q, th[t].n, th[t].got) :
             LET rest == th[t].n - j
                 waits == j = Len(q) /\ rest > 0 /\ (j > 0 => q[j] \notin {"nl", "eof"})
             IN  \/ /\ cons' = [cons EXCEPT !.r = Wrap(@ + j)]
                    /\ th' = IF waits /\ t \notin killed
                             THEN [th EXCEPT ![t].n = rest, ![t].got = @ \/ j > 0, ![t].chan = "cons", ![t].pc = "sleep"]
                             ELSE [th EXCEPT ![t] = Idle(t)]
                 \/ \E k \in 1 .. j :
                      /\ q[k] # "eof"
                      /\ cons' = [cons EXCEPT !.r = Wrap(@ + k)]
                      /\ th' = [th EXCEPT ![t] = Idle(t)]
    /\ lock' = None
    /\ cpu' = [cpu EXCEPT ![c] = release(@)]
    /\ UNCHANGED <<run, intr, killed, device, disturbed, mix>>
-----------------------------------------------------------------------------
(* consolewrite and uartwrite *)

Write(c) ==
    /\ On(c, Writer) /\ th[Writer].pc = "idle" /\ Writer \notin killed
    /\ \E n \in 1 .. MaxCount : th' = [th EXCEPT ![Writer].n = n, ![Writer].pc = "prepare"]
    /\ UNCHANGED <<cons, lock, cpu, run, intr, killed, device, disturbed, mix>>

sleep_prepare(c) ==
    /\ On(c, Writer) /\ th[Writer].pc = "prepare"
    /\ th' = [th EXCEPT ![Writer].chan = "tx", ![Writer].pc = "lsr"]
    /\ UNCHANGED <<cons, lock, cpu, run, intr, killed, device, disturbed, mix>>

ReadLSR(c) ==
    /\ On(c, Writer) /\ th[Writer].pc = "lsr"
    /\ th' = [th EXCEPT ![Writer].pc = IF tx = 0 THEN "thr" ELSE "sleep"]
    /\ UNCHANGED <<cons, lock, cpu, run, intr, killed, device, disturbed, mix>>

WriteTHR(c) ==
    /\ On(c, Writer) /\ th[Writer].pc = "thr"
    /\ tx' = tx + 1
    /\ th' = IF th[Writer].n = 1 THEN [th EXCEPT ![Writer] = Idle(Writer)]
             ELSE [th EXCEPT ![Writer].n = @ - 1, ![Writer].pc = "prepare"]
    /\ UNCHANGED <<cons, lock, cpu, run, intr, killed, rx, txint, typed, disturbed, mix>>
-----------------------------------------------------------------------------
(* Interrupts.  The PLIC lets one CPU serve the uart at a time. *)

\* devintr: plic_claim; uartintr reads ISR, which ends the transmit interrupt
Claim(c) ==
    /\ cpu[c].sie /\ \A d \in CPU : intr[d] = "no"
    /\ txint \/ rx # <<>>
    /\ intr' = [intr EXCEPT ![c] = "tx"]
    /\ cpu' = [cpu EXCEPT ![c].sie = FALSE]
    /\ txint' = FALSE
    /\ UNCHANGED <<cons, lock, run, th, killed, rx, tx, typed, disturbed, mix>>

TxIdle(c) ==
    /\ intr[c] = "tx"
    /\ th' = IF tx = 0 THEN wakeup("tx", th) ELSE th
    /\ intr' = [intr EXCEPT ![c] = "rx"]
    /\ UNCHANGED <<cons, lock, cpu, run, killed, device, disturbed, mix>>

\* uartgetc has nothing: plic_complete, and back to what was interrupted
Complete(c) ==
    /\ intr[c] = "rx" /\ rx = <<>>
    /\ intr' = [intr EXCEPT ![c] = "no"]
    /\ cpu' = [cpu EXCEPT ![c].sie = TRUE]
    /\ UNCHANGED <<cons, lock, run, th, killed, device, disturbed, mix>>

\* Mutant: the ring is full one character too late.
Fits_Late == Ahead(cons.e, cons.r) <= INPUT_BUF_SIZE

Fits == Ahead(cons.e, cons.r) < INPUT_BUF_SIZE

\* consoleintr's switch: the new cons
Key(k) ==
    LET line == Text(cons.w, cons.e)
        nls == {i \in 1 .. Len(line) : line[i] = "nl"}
        keep == IF nls = {} THEN 0 ELSE CHOOSE i \in nls : \A j \in nls : j <= i
        ch == IF k = "cr" THEN "nl" ELSE k
        e == Wrap(cons.e + 1)
    IN  CASE k = "kill" -> [cons EXCEPT !.e = Wrap(cons.w + keep)]
          [] k = "erase" -> [cons EXCEPT !.e = IF @ # cons.w THEN Wrap(@ - 1) ELSE @]
          [] OTHER -> IF ~Fits THEN cons
                      ELSE [cons EXCEPT !.buf[cons.e % INPUT_BUF_SIZE] = ch, !.e = e,
                              !.w = IF ch \in {"nl", "eof"} \/ Ahead(e, cons.r) = INPUT_BUF_SIZE THEN e ELSE @]

\* Mutant: readers are not told of a ring that is full.
Announced_Lines(new) == new.w # cons.w /\ new.buf[(new.w - 1) % INPUT_BUF_SIZE] \in {"nl", "eof"}

Announced(new) == new.w # cons.w

\* consoleintr: with cons.lock; an echo waits until the uart is idle
consoleintr(c) ==
    /\ intr[c] = "rx" /\ rx # <<>> /\ lock = None
    /\ LET new == Key(Head(rx))
       IN  /\ cons' = new
           /\ th' = IF Announced(new) THEN wakeup("cons", th) ELSE th
           /\ IF new.e = cons.e THEN UNCHANGED <<tx, txint>>
              ELSE /\ tx = 0 /\ tx' = 1
                   /\ txint' = (txint \/ Head(rx) \in {"kill", "erase"})     \* several characters
    /\ rx' = Tail(rx)
    /\ UNCHANGED <<lock, cpu, run, intr, killed, typed, disturbed, mix>>

\* the device
Transmit ==
    /\ tx > 0
    /\ tx' = tx - 1 /\ txint' = (txint \/ tx = 1)
    /\ UNCHANGED <<cons, lock, cpu, run, intr, th, killed, rx, typed, disturbed, mix>>

TypeKey ==
    /\ typed < mix.n /\ rx = <<>>
    /\ typed' = typed + 1
    /\ \E k \in mix.keys : rx' = <<k>>
    /\ UNCHANGED <<cons, lock, cpu, run, intr, th, killed, tx, txint, disturbed, mix>>

ReaderStep(c, t) == AcquireCons(c, t) \/ consoleread(c, t)
WriterStep(c) == sleep_prepare(c) \/ ReadLSR(c) \/ WriteTHR(c)
Interrupt(c) == Claim(c) \/ TxIdle(c) \/ Complete(c) \/ consoleintr(c)

Next ==
    \/ \E c \in CPU :
         \/ \E t \in Threads : Dispatch(c, t) \/ Sret(c, t) \/ Preempt(c, t) \/ sleep(c, t)
         \/ \E t \in Readers : Read(c, t) \/ ReaderStep(c, t)
         \/ Write(c) \/ WriterStep(c) \/ Interrupt(c)
    \/ \E t \in Threads : kkill(t)
    \/ Transmit \/ TypeKey

Spec == Init /\ [][Next]_vars
-----------------------------------------------------------------------------
Queue == Text(cons.r, cons.w)      \* complete lines
Line == Text(cons.w, cons.e)       \* the line that is typed

L == INSTANCE LineEditor WITH
         Size <- INPUT_BUF_SIZE, Chars <- {"x", "nl", "eof"}, queue <- Queue, line <- Line

\* The ring with its three indices is a line editor: keys are edited until
\* their line is complete, lines are read in the order in which they were
\* typed, none twice, and a read never goes on to the next line.
ImplementsLineEditor == L!Spec

\* No lost wakeup: a reader that sleeps has nothing to read; when the writer
\* sleeps, the uart is busy or its interrupt is still to be served.
SleepersHaveReason ==
    /\ \A t \in Readers : th[t].asleep => cons.r = cons.w
    /\ th[Writer].asleep =>
           tx > 0 \/ txint \/ \E c \in CPU : intr[c] = "tx"

\* Interrupts are off on a CPU that holds a lock, so that no handler waits for
\* a lock of the CPU that it has interrupted; and they are on again as soon as
\* the last lock is released, on whatever CPU the thread has come to.
InterruptsMatchLocks ==
    \A c \in CPU :
        /\ lock = c => ~cpu[c].sie /\ intr[c] = "no"
        /\ cpu[c].noff = (IF lock = c THEN 1 ELSE 0)
        /\ \A t \in Threads : On(c, t) /\ cpu[c].noff = 0 => cpu[c].sie
=============================================================================
