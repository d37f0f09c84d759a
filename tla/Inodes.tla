------------------------------- MODULE Inodes -------------------------------
(* Inodes, directories, the file table and the system calls on them          *)
(* (kernel/fs.c, kernel/file.c, kernel/sysfile.c) between several processes  *)
(* and crashes.                                                              *)
(*                                                                           *)
(* A step ends where a call may have to wait for a sleep lock, and at each   *)
(* critical section of itable.lock in iput.  Transactions are those of       *)
(* module AtomicDisk: what a crash leaves is the disk of the last commit.    *)
(* It loses all else; so what follows a crash during a transaction is what   *)
(* follows a crash right after that commit, and Crash is a step of the       *)
(* states without a transaction only.                                        *)
(* The contents of files and the blocks of directories are left out          *)
(* (module Blocks): dirlink may find no block for its entry at any time.     *)
EXTENDS Naturals, FiniteSets, Sequences, FiniteSetsExt

CONSTANTS Proc, Name, Null,
          NInode,      \* inodes of the disk
          NINODE,      \* entries of itable
          NFILE, NOFILE, NLINK_MAX,
          Mixes        \* what the programs of a behaviour use: system calls and paths

ASSUME InodesAssumption == NInode \in Nat \ {0} /\ NINODE >= NInode

VARIABLES
    disk,         \* inodes and directories, as cached
    itab,         \* itable: inum, ref, valid, lock, type, nlink
    ftab,         \* ftable: ref, ip
    proc,         \* per process: cwd, ofile, and where it is in which call
    outstanding,  \* log.outstanding
    mix           \* the system calls and paths in use

vars == <<disk, itab, ftab, proc, outstanding, mix>>

Root == 1
Inum == 1 .. NInode
Slot == 1 .. NINODE
File == 1 .. NFILE
Fd == 0 .. NOFILE - 1

FreeInode == [type |-> Null, nlink |-> 0, dd |-> 0, ents |-> [n \in Name |-> 0]]
FreeSlot == [inum |-> 0, ref |-> 0, valid |-> FALSE, lock |-> Null, type |-> Null, nlink |-> 0]
FreeFile == [ref |-> 0, ip |-> Null]

\* A process outside any call.  In a call: path is what namex has still to
\* walk, ip, dp and lp are inodes it holds references to (lp: the inode that
\* link has counted already), puts the iputs still to do, last and num those
\* of the iput at work; k is ireclaim's loop.
Idle(cwd, ofile) ==
    [pc |-> "idle", then |-> "idle", call |-> Null, path |-> <<>>, nm |-> Null,
     ip |-> Null, dp |-> Null, lp |-> Null, puts |-> <<>>, last |-> "no", num |-> 0, k |-> 1,
     cwd |-> cwd, ofile |-> ofile]
Dead == [Idle(Null, [f \in Fd |-> Null]) EXCEPT !.pc = "dead"]

\* userinit, then fsinit: the first process starts in / and runs ireclaim
BootItab == [s \in Slot |-> IF s = 1 THEN [FreeSlot EXCEPT !.inum = Root, !.ref = 1] ELSE FreeSlot]
BootProc(p) ==
    [q \in Proc |-> IF q = p THEN [Idle(1, [f \in Fd |-> Null]) EXCEPT !.pc = "boot", !.then = "boot"]
                    ELSE Dead]

\* mkfs: an empty root directory
Mkfs == [i \in Inum |-> IF i = Root THEN [FreeInode EXCEPT !.type = "dir", !.nlink = 1, !.dd = Root]
                        ELSE FreeInode]

Init ==
    /\ disk = Mkfs
    /\ itab = BootItab /\ ftab = [f \in File |-> FreeFile]
    /\ \E p \in Proc : proc = BootProc(p)
    /\ outstanding = 0
    /\ mix \in Mixes
-----------------------------------------------------------------------------
(* The inode table *)

\* iget: the entry of inode i in table t, and the table with one more reference
iget(t, i) ==
    LET hit == {s \in Slot : t[s].ref > 0 /\ t[s].inum = i}
        empty == {s \in Slot : t[s].ref = 0}
        s == IF hit # {} THEN Min(hit) ELSE Min(empty)
    IN  [slot |-> s,
         itab |-> [t EXCEPT ![s] = IF hit # {} THEN [@ EXCEPT !.ref = @ + 1]
                                   ELSE [@ EXCEPT !.inum = i, !.ref = 1, !.valid = FALSE]]]

idup(t, s) == [t EXCEPT ![s].ref = @ + 1]

\* ilock: entry s once p has its lock, read from the disk if necessary
ilock(d, t, s, p) ==
    LET e == t[s]  i == d[e.inum]
    IN  [t EXCEPT ![s] = IF e.valid THEN [e EXCEPT !.lock = p]
                         ELSE [e EXCEPT !.lock = p, !.valid = TRUE, !.type = i.type, !.nlink = i.nlink]]

\* ref--.  What a free entry still holds is left out: iget sets all anew.
drop(t, s) == [t EXCEPT ![s] = IF @.ref = 1 THEN FreeSlot ELSE [@ EXCEPT !.ref = @ - 1]]

iunlock(t, s) == [t EXCEPT ![s].lock = Null]

\* iupdate: disk d with the in-memory inode of entry s
iupdate(d, t, s) == [d EXCEPT ![t[s].inum].type = t[s].type, ![t[s].inum].nlink = t[s].nlink]

\* dirlookup in directory i: 0 if there is no such entry
dirlookup(i, n) == CASE n = "." -> i [] n = ".." -> disk[i].dd [] OTHER -> disk[i].ents[n]

isdirempty(i) == \A n \in Name : disk[i].ents[n] = 0

\* ialloc: the first free inode
FreeInums == {i \in Inum : disk[i].type = Null}
-----------------------------------------------------------------------------
(* Transactions, and iput *)

Ready(p) == proc[p].puts = <<>> /\ proc[p].last = "no"

\* end_op: the last call to end commits, that is, the disk of a state with
\* outstanding = 0 is what is on the disk after a crash
end_op(p) ==
    LET c == proc[p]
    IN  /\ c.pc = "end" /\ Ready(p)
        /\ outstanding' = outstanding - 1
        /\ proc' = [proc EXCEPT ![p] =
             IF c.then = "exit" /\ c.cwd = Null THEN Dead
             ELSE [Idle(c.cwd, c.ofile) EXCEPT !.pc = c.then, !.then = c.then, !.k = c.k]]
        /\ UNCHANGED <<disk, itab, ftab>>

Put(s) == [s |-> s, unlock |-> FALSE]
UnlockPut(s) == [s |-> s, unlock |-> TRUE]

\* iput, first critical section, after the iunlock of an iunlockput.  The last
\* reference of an unlinked inode keeps its lock for itrunc.
iput(p) ==
    LET s == Head(proc[p].puts).s
        t == IF Head(proc[p].puts).unlock THEN iunlock(itab, s) ELSE itab
        i == t[s].inum
    IN  /\ proc[p].puts # <<>> /\ proc[p].last = "no"
        /\ IF t[s].ref = 1 /\ t[s].valid /\ t[s].nlink = 0
           THEN /\ t[s].lock = Null
                /\ itab' = [t EXCEPT ![s].lock = p]
                /\ disk' = iupdate([disk EXCEPT ![i].dd = 0, ![i].ents = FreeInode.ents], t, s)
                /\ proc' = [proc EXCEPT ![p].last = "trunc", ![p].num = i]
           ELSE /\ itab' = drop(t, s)
                /\ proc' = [proc EXCEPT ![p].puts = Tail(@)]
                /\ UNCHANGED disk
        /\ UNCHANGED <<ftab, outstanding>>

\* iput, second critical section
IputDrop(p) ==
    LET s == Head(proc[p].puts).s
    IN  /\ proc[p].last = "trunc"
        /\ itab' = drop([itab EXCEPT ![s].valid = FALSE, ![s].lock = Null], s)
        /\ proc' = [proc EXCEPT ![p].last = "free"]
        /\ UNCHANGED <<disk, ftab, outstanding>>

\* Mutant: the inode number is taken from the entry, after it was given up;
\* it may be in use for another inode by then.
ifree_Late(p) ==
    /\ proc[p].last = "free"
    /\ LET e == itab[Head(proc[p].puts).s]
       IN  disk' = [disk EXCEPT ![IF e.ref = 0 THEN proc[p].num ELSE e.inum].type = Null]
    /\ proc' = [proc EXCEPT ![p].last = "no", ![p].num = 0, ![p].puts = Tail(@)]
    /\ UNCHANGED <<itab, ftab, outstanding>>

ifree(p) ==
    /\ proc[p].last = "free"
    /\ disk' = [disk EXCEPT ![proc[p].num].type = Null]
    /\ proc' = [proc EXCEPT ![p].last = "no", ![p].num = 0, ![p].puts = Tail(@)]
    /\ UNCHANGED <<itab, ftab, outstanding>>
-----------------------------------------------------------------------------
(* namex *)

\* nameiparent
Parent(c) == c.lp # Null \/ c.call.op \in {"create", "unlink"}

\* where a call goes on when namex fails, and when it has found its inode
Failed(c) == IF c.lp # Null THEN "bad" ELSE "end"
Found(c) == IF c.lp # Null THEN "linkdir" ELSE c.call.op

\* c fails, and gives up its inode ip or dp
FailIp(c, put) == [c EXCEPT !.pc = Failed(c), !.call = Null, !.puts = <<put>>, !.path = <<>>, !.ip = Null]
FailDp(c) == [c EXCEPT !.pc = Failed(c), !.call = Null, !.puts = <<UnlockPut(c.dp)>>, !.dp = Null, !.nm = Null]

\* c at the top of namex's loop
Loop(c) ==
    IF c.path # <<>> THEN [c EXCEPT !.pc = "walk"]
    ELSE IF Parent(c) THEN [FailIp(c, Put(c.ip)) EXCEPT !.puts = c.puts \o @]
    ELSE [c EXCEPT !.pc = Found(c)]

\* namex begins, at the root or at the current directory
namex(t, c, path) ==
    LET g == IF path.abs THEN iget(t, Root) ELSE [slot |-> c.cwd, itab |-> idup(t, c.cwd)]
    IN  [itab |-> g.itab, c |-> Loop([c EXCEPT !.ip = g.slot, !.path = path.elems])]

\* the lock that a process at a label acquires next
Wants(c) == CASE c.pc \in {"create", "unlink", "linkdir"} -> c.dp
              [] c.pc = "bad" -> c.lp
              [] c.pc \in {"walk", "open", "exists", "unlink_ip", "link", "chdir"} -> c.ip
              [] OTHER -> Null

\* ilock succeeds, at label l
Locks(p, l) == proc[p].pc = l /\ Ready(p) /\ itab[Wants(proc[p])].lock = Null

\* namex goes on from an inode only if it is a directory that still has a name
Searchable(e) == e.type = "dir" /\ e.nlink # 0

\* one round of namex's loop, up to its iunlockput
Walk(p) ==
    LET c == proc[p]
        t == ilock(disk, itab, c.ip, p)
        next == dirlookup(t[c.ip].inum, Head(c.path))
        g == iget(t, next)
    IN  /\ Locks(p, "walk")
        /\ IF ~Searchable(t[c.ip])
           THEN itab' = t /\ proc' = [proc EXCEPT ![p] = FailIp(c, UnlockPut(c.ip))]
           ELSE IF Parent(c) /\ Len(c.path) = 1
           THEN /\ itab' = iunlock(t, c.ip)
                /\ proc' = [proc EXCEPT ![p] = [c EXCEPT !.pc = Found(c), !.dp = c.ip, !.ip = Null,
                                                         !.nm = Head(c.path), !.path = <<>>]]
           ELSE IF next = 0
           THEN itab' = t /\ proc' = [proc EXCEPT ![p] = FailIp(c, UnlockPut(c.ip))]
           ELSE /\ itab' = g.itab
                /\ proc' = [proc EXCEPT ![p] = Loop([c EXCEPT !.ip = g.slot, !.path = Tail(@),
                                                              !.puts = <<UnlockPut(c.ip)>>])]
        /\ UNCHANGED <<disk, ftab, outstanding>>

\* A call begins: begin_op, and the start of namex
Call(p, path, call) ==
    LET n == namex(itab, [proc[p] EXCEPT !.call = call], path)
    IN  /\ proc[p].pc = "idle"
        /\ itab' = n.itab
        /\ proc' = [proc EXCEPT ![p] = n.c]
        /\ outstanding' = outstanding + 1
        /\ UNCHANGED <<disk, ftab>>
-----------------------------------------------------------------------------
(* Crashes, and ireclaim, which the first process runs before it does anything *)

Crash ==
    /\ outstanding = 0
    /\ itab' = BootItab
    /\ ftab' = [f \in File |-> FreeFile]
    /\ \E p \in Proc : proc' = BootProc(p)
    /\ UNCHANGED <<disk, outstanding>>

Orphans(k) == {i \in Inum : i >= k /\ disk[i].type # Null /\ disk[i].nlink = 0}

\* Mutant: the inode is not locked, and so not read, before it is put.
ireclaim_Unread(p) ==
    LET o == Orphans(proc[p].k)
        g == iget(itab, Min(o))
    IN  /\ proc[p].pc = "boot"
        /\ IF o = {}
           THEN /\ proc' = [proc EXCEPT ![p].pc = "idle", ![p].then = "idle", ![p].k = 1]
                /\ UNCHANGED <<itab, outstanding>>
           ELSE /\ itab' = g.itab
                /\ proc' = [proc EXCEPT ![p].pc = "end", ![p].puts = <<Put(g.slot)>>, ![p].k = Min(o) + 1]
                /\ outstanding' = outstanding + 1
        /\ UNCHANGED <<disk, ftab>>

ireclaim(p) ==
    LET o == Orphans(proc[p].k)
        g == iget(itab, Min(o))
    IN  /\ proc[p].pc = "boot"
        /\ IF o = {}
           THEN /\ proc' = [proc EXCEPT ![p].pc = "idle", ![p].then = "idle", ![p].k = 1]
                /\ UNCHANGED <<itab, outstanding>>
           ELSE /\ itab' = iunlock(ilock(disk, g.itab, g.slot, p), g.slot)
                /\ proc' = [proc EXCEPT ![p].pc = "end", ![p].puts = <<Put(g.slot)>>, ![p].k = Min(o) + 1]
                /\ outstanding' = outstanding + 1
        /\ UNCHANGED <<disk, ftab>>
=============================================================================
