# Verification of the shell and the xv6 kernel

TLA+ modules for the two programs of this repository: `c-shell/`, a shell with
job control, and `xv6/`, the xv6-riscv teaching kernel with three schedulers
(round robin, FCFS, MLFQ) selected at build time, and its user programs. TLC
checks the modules on small instances. TLAPS proves the main safety properties
of the process table, the schedulers, the log, the buffer cache and its disk driver,
the blocks of files, pipes, the console, and the shell's job table and pipelines for
every size.

`PROJECT.json` lists the components, the runs, the source lines behind each
definition (`map`), the hazards and the theorems.

Run a check with `tlc -config MCProc.cfg MCProc` (module and configuration of
each run are in the table below) and a proof with `tlapm ProcProofs.tla`.

## The system and its parts

**Kernel** (`xv6/kernel/`)

| part | source | state | concurrent with | modules |
|---|---|---|---|---|
| process life cycle | proc.c, trap.c | `proc[]`, `cpus[]`, `wait_lock` | other CPUs | Proc |
| schedulers | proc.c, trap.c | `state`, `queue`, `slice_ticks`, `sequence` | timer, device interrupts | Sched, RunQueues, SchedRefinement |
| table scan with locks | proc.c | process locks, locals of scheduler() | the same on other CPUs | SchedScan |
| statistics | proc.c, trap.c | `arrival`, `first_run`, `ticks`, `waiting` | as the schedulers | SchedStats |
| log | log.c | header, log and home blocks, `outstanding` | other calls, crashes | Log, AtomicDisk |
| buffer cache, sleep locks | bio.c, sleeplock.c | buffers, the LRU list | other threads | Bcache |
| disk driver | virtio_disk.c | descriptors, the two rings | the device, interrupts | VirtioDisk |
| inodes, directories | fs.c, sysfile.c | `itable`, inodes on disk | other processes, crashes | Inodes, Files |
| file table | file.c, sysfile.c | `ftable`, `ofile[]` | other processes | Files |
| blocks of files | fs.c, file.c, mkfs.c | free map, block addresses, sizes | other processes | Blocks |
| memory, exec | kalloc.c, vm.c, exec.c, proc.c | free pages, page tables, `sz` | others that take pages | Memory |
| pipes | pipe.c | ring, counters, open flags | readers, writers, kills | Pipe, Fifo |
| console, uart, spin locks | console.c, uart.c, spinlock.c, trap.c | input ring, LSR, `noff`, `intena` | interrupts, other CPUs | Terminal, Spinlock, LineEditor |
| string functions | string.c, printk.c | none | nothing | Strings |

**User programs** (`xv6/user/`): the shell's parser (Sh) and runcmd (ShRun), grep
(Grep), malloc and free (Umalloc), the string library (Strings).

**Shell** (`c-shell/src/`)

| part | source | state | concurrent with | modules |
|---|---|---|---|---|
| job control | activities.c, execution.c, main.c | `jobs[]`, `prs[]`, `timed_out` | children, SIGCHLD, SIGALRM | Jobs |
| pipelines, redirections | execution.c | pipe ends held by each process | the children | Pipeline |
| parser | lexer.c, grammar.c, main.c, execution.c | none | nothing | ShellText |

How they interact: the shell's children are processes of a POSIX kernel, not of
xv6, so the two programs share nothing. Inside the kernel, Proc leaves open which
runnable process a CPU picks, so its results hold for all schedulers; Sched models
the pick and leaves out parents and wait_lock; SchedScan cuts the pick into single
lock operations on several CPUs. Inodes builds on what Log is proved to implement
(AtomicDisk), not on Log itself; Blocks counts the blocks of each transaction, which
is the assumption Log's space theorem rests on. Bcache runs on top of VirtioDisk in
one state space, Files on top of Inodes, Terminal on top of Spinlock. Commands
composes the parser of c-shell with Pipeline: the line that is typed is the pipeline
that is run.

## Modules and how they correspond to the code

**Proc.** One step per critical section. `p->lock` appears only where it is held
across a context switch (`plock`), `wait_lock` is held over several steps. `pc`
is the position of a process's kernel thread; kernel entry and exit look at
`killed` as usertrap() does. `ForkAlloc`..`ForkRun`, `ExitStart`..`ExitZombie`
and `WaitAcquire`..`sleep` are kfork, kexit and kwait cut at their lock
boundaries; `scheduler`, `sched`, `SchedulerResume` are the switch.

**Sched.** One CPU, the Makefile's default. scheduler(), clockintr() and each
critical section run with interrupts off and are single steps; `phase` keeps
clockintr, boost, wakeup and yield together as the code does. `policy` is the
build's scheduler, constant in a behaviour. `due` says that timer interrupts are
further apart than a pass of scheduler(). **SchedStats** adds the statistics of one
slot, **SchedRefinement** the mapping to **RunQueues**, the FIFO queues that
`report.md` describes. **MCSched** puts the three together.

**SchedScan.** Several CPUs, one step per process lock acquired. `stable` is a
history variable used by `PicksTheOldest`. FCFS is the case of one level.

**Log.** A step is a critical section under log.lock or one block written to disk,
and `Crash` may come between any two steps, also during recovery. sync's
`n - log.ncommit` is one variable, `left`: the counter's overflow after 2^31 commits
is left out. **AtomicDisk** is what the log promises: the writes of calls reach the
disk all at once.

**VirtioDisk.** Descriptor chains of three, the available and the used ring with
their 16-bit indices (`Laps` rounds of them here), `virtio_disk_rw` cut where it sleeps,
`virtio_disk_intr` one used entry per step because the device goes on meanwhile. The
device takes and finishes requests in any order. **Bcache** adds `bget` with its two scans, the
sleep lock of each buffer, `brelse`, and pins as the log uses them. A block's contents
are "the latest or not", which is all that `ReadsLatest` tells apart.

**Inodes** has `iget`, `idup`, `ilock`, `iput` with the window in which it has dropped
itable.lock, `ialloc`, `ifree`, `dirlink`, `dirlookup` and the path walk; **Files** has the
system calls as sequences of steps that end wherever a sleep lock is awaited, the
file table, fork and exit, and `Crash` followed by `ireclaim`. A crash leaves what the
last commit left, so crashing in states without a transaction reaches all disks.

**Blocks.** An image as mkfs writes it; `balloc` a free-map scan, `bmap` with direct
and indirect addresses, `writei` one round per block with the copy that may fail,
`filewrite`'s chunks, `itrunc`. Each unit of data says where it belongs, so a block
that two files share, or a stale one, is seen by `ReadsBack`. A copy that fails has
written any part of what it was to write (`either_copyin`). `BlockAt` numbers the places
at which an inode refers to a block, the indirect block and its entries included;
`BitmapExact` says that each block in use is at exactly one place of one inode. Indirect
blocks have as many entries as blocks have units, sizes of the image leave room for its
indirect block, and MAXOPBLOCKS is at least 4 (`BlocksAssumption`): with less, the limit
that filewrite() computes for a chunk would be negative.

**Memory.** Pages are alike, so the free list is a number; a page table is the set of
the tables and leaves it has. Each call (fork, exec, sbrk, page fault, copy, exit)
is a step that may run out of memory at each of its allocations: other CPUs'
allocations are a choice made before it. All error exits of kexec and kfork are there.

**Terminal.** `consoleread`, `uartwrite`, `consoleintr`, `uartintr` and the traps that
lead to them, per CPU; `Spinlock` has push_off, pop_off, acquire, release, and what
sched() does to `intena`. Ring indices are modulo `UintSize`. **LineEditor** is what
the console promises: a line that can be edited until it is complete, complete lines
read in order. The mapping takes the text between `r` and `w` for the queue and that
between `w` and `e` for the line.

**Pipe.** The byte loops with the look at `killed` before each byte, counters modulo
`UintSize`, sleep_prepare/sleep/wakeup of proc.c. **Fifo** is the bounded queue it
implements.

**Jobs.** The kernel's view of each child (`os`, and `report`: a status change
nobody has waited for), the shell's table, and the shell's position. The SIGCHLD
handler may run between any two steps. `status` after a failed waitpid() is an
uninitialised variable in the code and any status here.

**Pipeline.** The pipe ends each process of one execute() call holds: what a fork
inherits, what dup2 and close leave, with the early returns.

**ShellText** has convert(), check() and the two splits as functions of a line;
**Sh** the recursive-descent parser of xv6's shell, **ShRun** its runcmd with the
processes, pipe ends and waits; **Grep**, **Umalloc** and **Strings** the programs
named so. **Commands** starts a behaviour with one of their inputs and checks each
result against a separate definition of what it is to be: the meaning the line was
written from, the tree, a declarative matcher, the value of a number.

## Runs

| run | module, cfg | question |
|---|---|---|
| proc | MCProc, MCProc.cfg | stacks and missed exits of fork, exit, wait, kill on two CPUs |
| sched | MCSched, MCSched.cfg | FIFO refinement, bypass and statistics of the three schedulers |
| sched_scan | MCSchedScan, MCSchedScan.cfg | exclusion and choice with concurrent scans, no deadlock |
| log | MCLog, MCLog.cfg | crash atomicity, sync, log space, progress |
| disk | MCBcache, MCBcache.cfg | latest contents, wakeups, descriptors; no deadlock |
| files | MCFiles, MCFiles.cfg | link and reference counts, orphans, lock cycles |
| blocks | MCBlocks, MCBlocks.cfg | free map, contents, size of transactions |
| memory | MCMemory, MCMemory.cfg | pages, panics and undo when memory runs out |
| pipe | Pipe, MCPipe.cfg | FIFO refinement, no lost wakeup |
| terminal | MCTerminal, MCTerminal.cfg | line editor refinement, no lost wakeup, interrupts and locks |
| jobs | Jobs, MCJobs.cfg | the job table against signals and handlers |
| commands | MCCommands, MCCommands.cfg | both parsers, pipe ends, grep, heap, strings |

All of them pass. Deadlock is checked except where the system may really stop: a
shell that has exited (jobs), a command that has ended (commands), a pipe whose ends
are closed or whose other side is idle (pipe), a console nobody types at (terminal).

### Bounds

- proc: three slots, two CPUs, pids up to 4, so a slot is reused and an orphan, its
  dead parent and init meet. Slots other than init, and CPUs, are symmetric.
- sched: three slots, two queues with the first two slices of the code (1 and 2
  ticks), a boost every 4 ticks, 4 ticks and 6 enqueues: demotion, the last queue, a
  boost, a kill and a slot reuse all happen.
- sched_scan: three processes, two CPUs, two levels, four enqueues more.
- log: two calls at a time fill the log; two blocks have contents that differ.
- disk: two threads, two buffers and three blocks, so buffers are recycled and
  contended; 4 descriptors (one request at a time, the other waits) and 6 (two);
  ring indices wrap after one round. Threads, buffers and blocks are symmetric: no operator
  tells them apart, and the list of buffers may start in any order.
- files: two processes, three inodes, two names, directories inside directories, a
  file table of one entry, descriptor tables of two, a link limit of two. `MCMixes` are three
  mixes of calls and paths: names and links, directories, open files.
- blocks: two direct blocks and an indirect one of two entries, five blocks for two files,
  so that the disk fills up at each of the allocations; writes at aligned and odd offsets.
- memory: two processes, 14 pages, three-level tables of two entries, sizes on and off page
  boundaries; memory runs out at each allocation of each call.
- pipe: a ring of two bytes, counters modulo 4, writes of up to two bytes, two
  writers of whom one may be killed.
- terminal: a ring of two characters with indices modulo 4, up to four keys, two CPUs,
  two readers or a writer, one kill or timer interrupt (`MaxDisturb`).
- jobs: two children: one pipeline, two jobs, or a job and a helper process.
- commands: pipelines of up to three stages with 0, 1 or several redirections of each
  kind; all token sequences up to five; words over letters, quotes, blanks and operators of
  up to three characters; trees of xv6 commands two levels deep; texts and patterns of a few
  characters around a grep buffer of five; a heap of eleven units.

Counters that the code lets grow (ticks, sequence numbers, pids) are bounded by
`MaxTicks`, `MaxNext` and `MaxPid`; those that wrap in the code wrap in the model.

### Fairness

- log: the commit and recovery go on and calls end (weak); begin_op is let in if it
  could go on infinitely often (strong: woken sleepers contend for log.lock).
- pipe: strong fairness of each process inside a call, for the same reason.

No other run needs fairness: their "wakes up" properties say that no state has a
sleeper whose reason to sleep is gone.

## Proofs

All constants are arbitrary, subject to the `ASSUME` of each module, which TLC
evaluates on each instance.

**ProcProofs.** None of the properties of Proc is inductive alone. `IInv` has three
layers above the types. `StackInv`: a CPU's process is RUNNING or still holds its
lock on that CPU, and kernel threads in kfork own distinct USED slots. `LifeInv`:
which positions go with which state, that exactly the positions inside the wait_lock
sections hold wait_lock, and that parent pointers lead to live processes that have not
passed reparent. `WaitInv`: while a child is a zombie its parent's channel is clear and
it is not between its scan and sleep_prepare. Each layer is preserved given the ones
before. From `IInv`: `StackSafety`, `ParentSafety`, `ExitSafety`, `ZombieSafety` (an
action property); `KillSafety` also assumes that 0 is not passed to kill().

For SchedScan (second part of the module), `LockInv` says which locks a scanning CPU holds (that of the best
process so far, or none) and `PassInv` that no process of `stable` behind the scan is older
than the best. Exclusion, the lock order and `OldestSafety` follow.

**SchedProofs.** `RunInv` ties `cur` to the RUNNING state. `PositionSafety` rests on
lemmas about enqueue (`RankIncreases`, `RankBound`, `Enqueued`): new numbers are
distinct and above all earlier ones. `FirstComeSafety` needs these, the lemma that
the pass finds the minimum (`FirstIsSmallest`) and `OneRunning`. `SliceSafety`
strengthens `SliceLeft` to the process on the CPU outside of a clock interrupt
(`SliceInv`), which is what sleep() and yield() rely on.

For SchedStats (second part of the module), `StatsInv` adds that a process that has not
run yet is ready; `PassInv` places the processes that were passed over behind the scan, in cyclic order
seen from the followed slot, from which `BypassSafety` follows.

**LogProofs.** `ControlInv` ties `outstanding`, `committing` and the positions of the calls
together and says that a commit runs alone; `DataInv` says what home blocks, log and header hold
at each point of commit, crash and recovery. With the latter every step is one of
AtomicDisk or a stutter (`Refinement`). `SyncInv` adds what a waiting sync() still
waits for. `SpaceInv` counts reserved blocks; `SpaceSafety` assumes that a call writes fewer than
MAXOPBLOCKS blocks, because log_write looks for a full log before it looks for absorption.

**PipeProofs.** `PipeInv` keeps `nwrite - nread` (modulo the counter width) at most PIPESIZE and
the queue of Fifo equal to the ring between the two; lemmas about remainders carry
it across the wrap-around.

For Pipeline (second part of the module), `MayHold` bounds the ends the shell can have at
each point of a stage; at the end nothing is left (`ClosedSafety`). `Forked` says which
processes there are and `Holders` which ends each of them may have from the shell that forked it.
From these, `StuckSafety`: once execute() is over and no inherited end is in the way, a
feeder that runs can go on, so there is none; then the gate of a background pipeline is at
its end of file; then the first command that runs has its end of file, since the commands before it
and their writers are gone (`FirstStage`), so that there is no such command.

**BcacheProofs.** The invariant is built in layers. `CacheInv` is about the
buffers: every block is in at most one, `refcnt` is the number of threads that use a buffer, plus one
if it is pinned (so that a victim is nobody's), and who is past acquiresleep() has the lock.
`RequestInv` is about descriptors: the chain of a request has three that are not free and lead
to its buffer, chains are disjoint, and every descriptor that is not free is in one. Together they are
`CacheDiskInv`, from which `DescriptorsSafety` follows. `RingInv` says that a ring holds between its
wrapping indices exactly the heads that were put there and not yet taken, each once, and that every
request is posted, in work or completed; lemmas about remainders and queues (`QueueAppend`,
`QueueTake`) carry it across the wrap-around, and a ring cannot overflow because it has an entry for
each descriptor. `DataInv` says that a valid buffer holds the latest
contents of its block, that the disk does too unless the block is pinned or a write of it is in
progress, and what a request that the device has performed has left in its buffer or on the disk.
`SleepInv` gives each sleeper its reason. `ReadsLatestSafety` and `WakeupSafety` follow.

**TerminalProofs.** `IInv` has five parts: types; `Counting` (a read or write under way
still has bytes to go); `LockInv` (which thread or handler holds which lock on which
CPU, and that `noff`, `intena` and the interrupt bit fit); `RingInv` (`r`, `w` and `e` are in order
and at most one ring apart); `SleepInv` (a registered or sleeping
thread has a reason, or its wakeup is on the way). `Interrupts`, `Sleepers` and `Editor`, the
refinement of LineEditor, follow. The lemmas about `Ahead` and `TextOf` say what one more, one
fewer and one taken character do to the text between two indices.

**BlocksProofs.** `BlocksInv` says that the free map and the addresses agree (`Exact`: no block is
at two places, every one in place is marked, every marked one is in place, and indirect blocks
hold block numbers), that every file reads back up to its size, and,
of each call of filewrite() in progress, `CallInv`: it has the inode's lock inside writei, its
offset is at most the size, what is beyond the size has been written up to its position, and its
transaction has logged at most two blocks for each block it has finished, one more for the
block it began in, and the indirect block and its free-map block. The last is what makes `OpFits`
inductive: the number of blocks logged alone does not bound what the next round may add. The lemmas
follow the code (balloc, the two halves of bmap, bmap, one round of the loop, itrunc), so
that the actions only apply them. `FreeMapExact`, `ReadsWhatWasWritten` and `WritesFit` follow;
the last is the assumption of the log's `SpaceSafety`, for file writes.

**JobsProofs.** `PidsInv`: process ids are given out in order and no two jobs share one. `CmdInv`:
the processes that wait at the gate are those of the background pipeline being
started, so none of them can change before it is in the table; the foreground job that is waited for
is in the table, and the processes before the current one are dead unless the wait was cut short.
`EntriesInv`: an entry tells what its process is as soon as no status of it is outstanding, an
entry that says "done" is never wrong, even with a status outstanding, and a job is
active if and only if one of its entries is not done. `BackgroundJobsAccurate`, `HangupComplete` and
`ForegroundIsWaitedFor` follow.

Only model-checked: liveness (log, pipe), since fairness and ENABLED are beyond the prover;
the refinement of RunQueues, which is stated with a sorting operator the prover does not
have; the recursive functions of Commands (parsers, grep, strings), which would need
induction over data; ShRun and Umalloc, which recur over trees and lists; Memory, whose
accounting is a sum over page tables folded over sequences; and Files and Inodes.

## What the code does that may surprise

Met while modelling; the models have them, and no property claims the opposite.

1. `kill(0)` matches free slots, whose pid is 0, and marks one as killed
   (`kernel/proc.c`, kkill). No other argument does: `KillSafety`.
2. kkill wakes a sleeper without a new queue position, unlike wakeup(); report.md
   describes new positions for woken processes. Positions still never collide
   (`PositionSafety`), and the refinement of RunQueues has the exception.
3. The boost renumbers the ready processes in table order; with more of them than
   ticks between boosts the last may never run, although report.md says that the boost
   prevents starvation.
4. `timed_out` is reset only by a resume with a timeout, so after one time-out a resume
   without one also "times out".
5. A writer killed after it has put bytes into a pipe does not announce them; if another
   writer keeps the pipe open a reader may sleep on (`SleepersAreWoken` excepts this).
6. Feeder and writer processes of a pipeline inherit write ends and keep them
   (`HeldOpen` in Pipeline).
7. log_write would panic for a call that uses its whole reservation and then writes one of its
   blocks again; `OpFits` shows that file writes never use it all.

## Not modelled

- **Directory commands of c-shell** (hop, reveal, peek, locate, the prompt): they print
  what the file system and the terminal return; hop's history is a file that is
  read and written back whole at each call, and two shells may lose each other's entries.
- **spy and snoop**: they print /proc and what ptrace reports of one child.
- **Boot, trap entry, system call dispatch**: straight-line set-up and tables.
- **Test and demonstration programs**: their calls are the environment of the kernel modules.
- Formatting and wording everywhere, except where digits are computed (`printint`).
- In modelled parts: sys_pause and uptime, filestat, the undo path of sys_pipe, device
  numbers, the register handshake of virtio_disk_init, Ctrl-P, the wait for tx_lock; in the
  shell, stages that are redirections only, full tables, pid reuse, lines of more than 256
  tokens, and quoted words that look like operators. mkfs's rounding of the root
  directory's size is left out of Blocks, since it changes no free block.
