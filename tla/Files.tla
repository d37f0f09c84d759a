-------------------------------- MODULE Files -------------------------------
(* The system calls on files and directories (kernel/sysfile.c) and the file *)
(* table (kernel/file.c), over the inodes of module Inodes.                  *)
EXTENDS Inodes

Returns(p, c) == proc' = [proc EXCEPT ![p] = c]

CreateRefused(e, type) == e.nlink = 0 \/ (type = "dir" /\ e.nlink >= NLINK_MAX)

\* Mutant: dp stays locked.
CreateFound_Holds(c, s) == [c EXCEPT !.pc = "exists", !.ip = s, !.nm = Null]

\* the name is there, as entry s
CreateFound(c, s) ==
    [c EXCEPT !.pc = "exists", !.puts = <<UnlockPut(c.dp)>>, !.ip = s, !.dp = Null, !.nm = Null]

\* The new inode i, entered as c.nm into directory d (entry c.dp of t): the
\* table and the disk, when all goes well and when dirlink has no block.
CreateNew(c, t, d, i, p) ==
    LET dir == c.call.type = "dir"
        d1 == [disk EXCEPT ![i] = [FreeInode EXCEPT !.type = c.call.type]]
        s == iget(t, i).slot
        failed == ilock(d1, iget(t, i).itab, s, p)
        linked == [failed EXCEPT ![s].nlink = 1]
        new == IF dir THEN [linked EXCEPT ![c.dp].nlink = @ + 1] ELSE linked
        d2 == [iupdate(d1, new, s) EXCEPT ![i].dd = IF dir THEN d ELSE 0, ![d].ents[c.nm] = i]
    IN  [slot |-> s, itab |-> new, disk |-> IF dir THEN iupdate(d2, new, c.dp) ELSE d2,
         failed |-> failed, faildisk |-> iupdate(d1, failed, s)]

\* create, with dp locked
create(p) ==
    LET c == proc[p]
        t == ilock(disk, itab, c.dp, p)
        d == t[c.dp].inum
        found == dirlookup(d, c.nm)
        n == CreateNew(c, t, d, Min(FreeInums), p)
        done == [c EXCEPT !.dp = Null, !.nm = Null, !.puts = <<UnlockPut(c.dp)>>]
    IN  /\ Locks(p, "create")
        /\ IF CreateRefused(t[c.dp], c.call.type) \/ (found = 0 /\ FreeInums = {})
           THEN itab' = t /\ Returns(p, FailDp(c)) /\ UNCHANGED disk
           ELSE IF found # 0
           THEN itab' = iget(t, found).itab /\ Returns(p, CreateFound(c, iget(t, found).slot)) /\ UNCHANGED disk
           ELSE \/ /\ itab' = n.itab /\ disk' = n.disk
                   /\ Returns(p, IF c.call.type = "file" THEN [done EXCEPT !.pc = "opened", !.ip = n.slot]
                                 ELSE [done EXCEPT !.pc = "end", !.call = Null,
                                                   !.puts = @ \o <<UnlockPut(n.slot)>>])
                \/ /\ itab' = n.failed /\ disk' = n.faildisk
                   /\ Returns(p, [done EXCEPT !.pc = "end", !.call = Null,
                                              !.puts = <<UnlockPut(n.slot)>> \o @])
        /\ UNCHANGED <<ftab, outstanding>>

\* create, when the name is there: a file or device is as good as a new file
CreateExists(p) ==
    LET c == proc[p]
        t == ilock(disk, itab, c.ip, p)
    IN  /\ Locks(p, "exists")
        /\ itab' = t
        /\ Returns(p, IF c.call.type = "file" /\ t[c.ip].type # "dir" THEN [c EXCEPT !.pc = "opened"]
                      ELSE FailIp(c, UnlockPut(c.ip)))
        /\ UNCHANGED <<disk, ftab, outstanding>>

\* sys_open without O_CREATE
sys_open(p) ==
    LET c == proc[p]
        t == ilock(disk, itab, c.ip, p)
    IN  /\ Locks(p, "open")
        /\ itab' = t
        /\ Returns(p, IF t[c.ip].type = "dir" /\ ~c.call.rdonly THEN FailIp(c, UnlockPut(c.ip))
                      ELSE [c EXCEPT !.pc = "opened"])
        /\ UNCHANGED <<disk, ftab, outstanding>>

filealloc == {f \in File : ftab[f].ref = 0}
fdalloc(c) == {f \in Fd : c.ofile[f] = Null}

\* sys_open with its inode locked: a file and a descriptor, or neither
OpenFile(p) ==
    LET c == proc[p]  f == Min(filealloc)  fd == Min(fdalloc(c))
    IN  /\ c.pc = "opened" /\ Ready(p)
        /\ \/ /\ filealloc = {} \/ fdalloc(c) = {} \/ itab[c.ip].type = "dev"   \* no such device
              /\ Returns(p, FailIp(c, UnlockPut(c.ip)))
              /\ UNCHANGED <<itab, ftab>>
           \/ /\ filealloc # {} /\ fdalloc(c) # {}
              /\ ftab' = [ftab EXCEPT ![f] = [ref |-> 1, ip |-> c.ip]]
              /\ itab' = iunlock(itab, c.ip)
              /\ Returns(p, [c EXCEPT !.pc = "end", !.call = Null, !.ip = Null, !.ofile[fd] = f])
        /\ UNCHANGED <<disk, outstanding>>

\* sys_unlink, with dp locked: ip is found
sys_unlink(p) ==
    LET c == proc[p]
        t == ilock(disk, itab, c.dp, p)
        i == dirlookup(t[c.dp].inum, c.nm)
    IN  /\ Locks(p, "unlink")
        /\ IF c.nm \in {".", ".."} \/ i = 0
           THEN itab' = t /\ Returns(p, FailDp(c))
           ELSE /\ itab' = iget(t, i).itab
                /\ Returns(p, [c EXCEPT !.pc = "unlink_ip", !.call = Null, !.ip = iget(t, i).slot])
        /\ UNCHANGED <<disk, ftab, outstanding>>

\* with ip locked as well: the entry is erased, and dp given up
UnlinkEntry(p) ==
    LET c == proc[p]
        t == ilock(disk, itab, c.ip, p)
        dir == t[c.ip].type = "dir"
        t1 == IF dir THEN [t EXCEPT ![c.dp].nlink = @ - 1] ELSE t
        d1 == [disk EXCEPT ![t[c.dp].inum].ents[c.nm] = 0]
        c1 == [c EXCEPT !.dp = Null, !.nm = Null]
    IN  /\ Locks(p, "unlink_ip")
        /\ IF dir /\ ~isdirempty(t[c.ip].inum)
           THEN /\ itab' = t
                /\ Returns(p, [c1 EXCEPT !.pc = "end", !.call = Null, !.ip = Null,
                                         !.puts = <<UnlockPut(c.ip), UnlockPut(c.dp)>>])
                /\ UNCHANGED disk
           ELSE /\ itab' = t1
                /\ disk' = IF dir THEN iupdate(d1, t1, c.dp) ELSE d1
                /\ Returns(p, [c1 EXCEPT !.pc = "unlinked", !.puts = <<UnlockPut(c.dp)>>])
        /\ UNCHANGED <<ftab, outstanding>>

\* the link count of ip follows
UnlinkInode(p) ==
    LET c == proc[p]
        t == [itab EXCEPT ![c.ip].nlink = @ - 1]
    IN  /\ c.pc = "unlinked" /\ Ready(p)
        /\ itab' = t
        /\ disk' = iupdate(disk, t, c.ip)
        /\ Returns(p, [c EXCEPT !.pc = "end", !.call = Null, !.ip = Null, !.puts = <<UnlockPut(c.ip)>>])
        /\ UNCHANGED <<ftab, outstanding>>

\* sys_link: count the new link first, then look for its directory
sys_link(p) ==
    LET c == proc[p]
        t == ilock(disk, itab, c.ip, p)
        t1 == [iunlock(t, c.ip) EXCEPT ![c.ip].nlink = @ + 1]
        n == namex(t1, [c EXCEPT !.lp = c.ip, !.ip = Null, !.call = Null], c.call.new)
    IN  /\ Locks(p, "link")
        /\ IF t[c.ip].type = "dir" \/ t[c.ip].nlink >= NLINK_MAX
           THEN itab' = t /\ Returns(p, FailIp(c, UnlockPut(c.ip))) /\ UNCHANGED disk
           ELSE itab' = n.itab /\ Returns(p, n.c) /\ disk' = iupdate(disk, t1, c.ip)
        /\ UNCHANGED <<ftab, outstanding>>

\* Mutant: dp may have been removed since nameiparent looked.
LinkRefused_No(e) == FALSE

LinkRefused(e) == e.nlink = 0

\* with dp locked: dirlink
LinkEntry(p) ==
    LET c == proc[p]
        t == ilock(disk, itab, c.dp, p)
        d == t[c.dp].inum
        found == dirlookup(d, c.nm)
        g == iget(t, found)
    IN  /\ Locks(p, "linkdir")
        /\ \/ /\ LinkRefused(t[c.dp]) \/ found = 0     \* or dirlink finds no block
              /\ itab' = t
              /\ Returns(p, FailDp(c))
              /\ UNCHANGED disk
           \/ /\ ~LinkRefused(t[c.dp]) /\ found # 0
              /\ itab' = g.itab
              /\ Returns(p, [FailDp(c) EXCEPT !.puts = <<Put(g.slot)>> \o @])
              /\ UNCHANGED disk
           \/ /\ ~LinkRefused(t[c.dp]) /\ found = 0
              /\ itab' = t
              /\ disk' = [disk EXCEPT ![d].ents[c.nm] = t[c.lp].inum]
              /\ Returns(p, [c EXCEPT !.pc = "end", !.call = Null, !.puts = <<UnlockPut(c.dp), Put(c.lp)>>,
                                      !.dp = Null, !.lp = Null, !.nm = Null])
        /\ UNCHANGED <<ftab, outstanding>>

\* bad: take the count back
LinkBad(p) ==
    LET c == proc[p]
        t == [ilock(disk, itab, c.lp, p) EXCEPT ![c.lp].nlink = @ - 1]
    IN  /\ Locks(p, "bad")
        /\ itab' = t
        /\ disk' = iupdate(disk, t, c.lp)
        /\ Returns(p, [c EXCEPT !.pc = "end", !.call = Null, !.lp = Null, !.puts = <<UnlockPut(c.lp)>>])
        /\ UNCHANGED <<ftab, outstanding>>

sys_chdir(p) ==
    LET c == proc[p]
        t == ilock(disk, itab, c.ip, p)
    IN  /\ Locks(p, "chdir")
        /\ IF t[c.ip].type # "dir"
           THEN itab' = t /\ Returns(p, FailIp(c, UnlockPut(c.ip)))
           ELSE /\ itab' = iunlock(t, c.ip)
                /\ Returns(p, [c EXCEPT !.pc = "end", !.call = Null, !.cwd = c.ip, !.ip = Null, !.puts = <<Put(c.cwd)>>])
        /\ UNCHANGED <<disk, ftab, outstanding>>
-----------------------------------------------------------------------------
(* Descriptors *)

\* fileclose of descriptor fd; the last one puts the inode, in a transaction
fileclose(p, fd) ==
    LET f == proc[p].ofile[fd]
        c == [proc[p] EXCEPT !.ofile[fd] = Null]
    IN  /\ f # Null
        /\ IF ftab[f].ref > 1
           THEN /\ ftab' = [ftab EXCEPT ![f].ref = @ - 1]
                /\ Returns(p, c)
                /\ UNCHANGED outstanding
           ELSE /\ ftab' = [ftab EXCEPT ![f] = FreeFile]
                /\ Returns(p, [c EXCEPT !.pc = "end", !.call = Null, !.puts = <<Put(ftab[f].ip)>>])
                /\ outstanding' = outstanding + 1
        /\ UNCHANGED <<disk, itab>>

sys_close(p) == proc[p].pc = "idle" /\ \E fd \in Fd : fileclose(p, fd)

sys_dup(p) ==
    LET c == proc[p]
    IN  /\ c.pc = "idle" /\ fdalloc(c) # {}
        /\ \E fd \in Fd :
             /\ c.ofile[fd] # Null
             /\ ftab' = [ftab EXCEPT ![c.ofile[fd]].ref = @ + 1]
             /\ Returns(p, [c EXCEPT !.ofile[Min(fdalloc(c))] = c.ofile[fd]])
        /\ UNCHANGED <<disk, itab, outstanding>>

\* kfork: the child shares the files and the current directory
kfork(p, q) ==
    LET c == proc[p]
    IN  /\ c.pc = "idle" /\ proc[q].pc = "dead"
        /\ ftab' = [f \in File |-> [ftab[f] EXCEPT !.ref = @ + Cardinality({fd \in Fd : c.ofile[fd] = f})]]
        /\ itab' = idup(itab, c.cwd)
        /\ proc' = [proc EXCEPT ![q] = Idle(c.cwd, c.ofile)]
        /\ UNCHANGED <<disk, outstanding>>

\* kexit (not by the last process: init does not exit)
kexit(p) ==
    /\ proc[p].pc = "idle"
    /\ \E q \in Proc \ {p} : proc[q].pc \notin {"dead", "exit"} /\ proc[q].then # "exit"
    /\ proc' = [proc EXCEPT ![p].pc = "exit", ![p].then = "exit"]
    /\ UNCHANGED <<disk, itab, ftab, outstanding>>

\* ... closes all files, then puts the current directory
ExitFiles(p) ==
    LET c == proc[p]  open == {fd \in Fd : c.ofile[fd] # Null}
    IN  /\ c.pc = "exit"
        /\ IF open # {} THEN fileclose(p, Min(open))
           ELSE /\ Returns(p, [c EXCEPT !.pc = "end", !.call = Null, !.cwd = Null, !.puts = <<Put(c.cwd)>>])
                /\ outstanding' = outstanding + 1
                /\ UNCHANGED <<disk, itab, ftab>>
-----------------------------------------------------------------------------
Calls ==
    [op : {"open"} \cap mix.calls, rdonly : BOOLEAN]
    \cup {[op |-> "create", type |-> t[2]] :
            t \in {x \in {<<"O_CREATE", "file">>, <<"mkdir", "dir">>, <<"mknod", "dev">>} : x[1] \in mix.calls}}
    \cup [op : {"unlink", "chdir"} \cap mix.calls]
    \cup [op : {"link"} \cap mix.calls, new : mix.paths]

Kernel(p) ==
    \/ end_op(p) \/ iput(p) \/ IputDrop(p) \/ ifree(p) \/ Walk(p)
    \/ create(p) \/ CreateExists(p) \/ sys_open(p) \/ OpenFile(p)
    \/ sys_unlink(p) \/ UnlinkEntry(p) \/ UnlinkInode(p)
    \/ sys_link(p) \/ LinkEntry(p) \/ LinkBad(p)
    \/ sys_chdir(p) \/ ExitFiles(p) \/ ireclaim(p)

User(p) ==
    \/ \E path \in mix.paths, c \in Calls : Call(p, path, c)
    \/ sys_close(p)
    \/ "dup" \in mix.calls /\ sys_dup(p)
    \/ "fork" \in mix.calls /\ (kexit(p) \/ \E q \in Proc : kfork(p, q))

Next == (Crash \/ \E p \in Proc : Kernel(p) \/ User(p)) /\ UNCHANGED mix

Spec == Init /\ [][Next]_vars
-----------------------------------------------------------------------------
Dirs == {i \in Inum : disk[i].type = "dir" /\ disk[i].nlink > 0}

\* What is on the disk after a crash at any time, before any repair: every
\* entry of a directory names an allocated inode, and the link count of an
\* inode is the number of its names and of the ".." of its subdirectories
\* (the root is its own).
LinksExact ==
    outstanding = 0 =>
        \A i \in Inum : disk[i].type # Null =>
            /\ \A n \in Name : disk[i].ents[n] # 0 => disk[disk[i].ents[n]].type # Null
            /\ disk[i].nlink = Cardinality({e \in Dirs \X Name : disk[e[1]].ents[e[2]] = i})
                               + Cardinality({d \in Dirs : disk[d].dd = i})

\* the references to entry s that process p has
Held(p, s) ==
    LET c == proc[p]
        puts == {j \in DOMAIN c.puts : c.puts[j].s = s /\ ~(j = 1 /\ c.last = "free")}
    IN  Cardinality(puts) + Cardinality({x \in {"ip", "dp", "lp", "cwd"} : c[x] = s})

\* Reference counts are exact: no call, on success or on any error path, loses
\* or duplicates a reference to an inode or to a file.  And what somebody can
\* still refer to is not free on the disk.
RefsExact ==
    /\ \A s \in Slot :
         /\ itab[s].ref = Cardinality({f \in File : ftab[f].ref > 0 /\ ftab[f].ip = s})
                          + MapThenSumSet(LAMBDA p : Held(p, s), Proc)
         /\ itab[s].ref > 0 => disk[itab[s].inum].type # Null
    /\ \A f \in File : ftab[f].ref = Cardinality({x \in Proc \X Fd : proc[x[1]].ofile[x[2]] = f})

\* An allocated inode without a name is in use, or on its way out: once the
\* first process has gone through ireclaim, none is left from before a crash.
OrphansHeld ==
    (\A p \in Proc : proc[p].then # "boot") =>
        \A i \in Orphans(1) : \/ \E s \in Slot : itab[s].ref > 0 /\ itab[s].inum = i
                              \/ \E p \in Proc : proc[p].num = i

\* No cycle of processes that wait for each other's inode locks, and no
\* process finds the lock taken that iput acquires under a spinlock.
NoLockCycle ==
    LET Holder(p) == IF Ready(p) /\ Wants(proc[p]) # Null THEN itab[Wants(proc[p])].lock ELSE Null
    IN  /\ \A S \in SUBSET Proc \ {{}} : \E p \in S : Holder(p) \notin S
        /\ \A p \in Proc : proc[p].puts # <<>> /\ proc[p].last = "no" =>
             LET h == Head(proc[p].puts)
                 e == itab[h.s]
             IN  e.ref = 1 /\ e.valid /\ e.nlink = 0 => e.lock = IF h.unlock THEN p ELSE Null
=============================================================================
