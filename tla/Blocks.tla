------------------------------- MODULE Blocks -------------------------------
(* The blocks of files (kernel/fs.c: balloc .. writei, kernel/file.c:        *)
(* fileread, filewrite) on a disk image written by mkfs.                     *)
(*                                                                           *)
(* A block has BSIZE units, each a word of data or a block number.  A unit   *)
(* of data tells where it belongs, <<inode, offset>>; a block number b is    *)
(* <<Null, b>>.  Several processes write and truncate; a step is one round   *)
(* of writei's loop, which has the lock of the inode but shares the free map *)
(* with the other inodes.                                                    *)
EXTENDS Naturals, FiniteSets, FiniteSetsExt

CONSTANTS Proc, Inode, File, Null,
          IpOf,        \* the inode each open file is on
          NBlocks, BSIZE, NDIRECT, BPB, MAXOPBLOCKS,
          Sizes,       \* sizes of the first file that mkfs puts on the disk
          Offs,        \* where files are read up to first
          Counts       \* how many units a write asks for

NINDIRECT == BSIZE
MAXFILE == NDIRECT + NINDIRECT

DivUp(x, y) == (x + y - 1) \div y

\* The first file of the image has room for its blocks and an indirect block.
ASSUME BlocksAssumption ==
    /\ NBlocks \in Nat /\ BSIZE \in Nat \ {0} /\ NDIRECT \in Nat \ {0} /\ BPB \in Nat \ {0}
    /\ MAXOPBLOCKS \in Nat /\ MAXOPBLOCKS >= 4
    /\ Null \notin Inode /\ Null \notin File /\ Null \notin Proc /\ IpOf \in [File -> Inode]
    /\ \A s \in Sizes : s \in Nat /\ s <= MAXFILE * BSIZE /\ DivUp(s, BSIZE) < NBlocks
    /\ Offs \subseteq Nat /\ Counts \subseteq Nat \ {0}

VARIABLES
    used,    \* the free map: blocks marked in use
    data,    \* contents of the blocks
    ino,     \* per inode: size, addrs, lock
    off,     \* f->off
    wr       \* per process: pc, f, and of filewrite n, i, n1, of writei tot; logged

vars == <<used, data, ino, off, wr>>

Block == 1 .. NBlocks
Number(b) == <<Null, b>>
Zeroes == [u \in 0 .. BSIZE - 1 |-> Number(0)]
NoAddrs == [k \in 0 .. NDIRECT |-> 0]
NoCall == [pc |-> "idle", f |-> Null, n |-> 0, i |-> 0, n1 |-> 0, tot |-> 0, logged |-> {}]

\* the blocks that the log sees
Data(b) == <<"data", b>>
BBLOCK(b) == <<"bitmap", b \div BPB>>
IBLOCK(i) == <<"inode", i>>
-----------------------------------------------------------------------------
(* mkfs: iappend takes blocks in order, the indirect block when it is needed *)

Image(size) ==
    LET nb == DivUp(size, BSIZE)
        direct == [k \in 0 .. NDIRECT - 1 |-> IF k < nb THEN k + 1 ELSE 0]
        ind == IF nb > NDIRECT THEN NDIRECT + 1 ELSE 0
    IN  [addrs |-> [k \in 0 .. NDIRECT |-> IF k = NDIRECT THEN ind ELSE direct[k]],
         freeblock |-> IF ind = 0 THEN nb + 1 ELSE nb + 2,
         indirect |-> [k \in 0 .. NINDIRECT - 1 |-> Number(IF NDIRECT + k < nb THEN ind + k + 1 ELSE 0)],
         bn |-> [b \in Block |-> IF b <= NDIRECT THEN b - 1 ELSE b - 2]]

Init ==
    \E first \in Inode, size \in Sizes :
        LET im == Image(size)
            Filled(b) == [u \in 0 .. BSIZE - 1 |->
                          LET o == im.bn[b] * BSIZE + u IN IF o < size THEN <<first, o>> ELSE Number(0)]
        IN  /\ used = {b \in Block : b < im.freeblock}
            /\ data = [b \in Block |-> IF b >= im.freeblock THEN Zeroes
                                       ELSE IF b = im.addrs[NDIRECT] THEN im.indirect ELSE Filled(b)]
            /\ ino = [i \in Inode |->
                        [size |-> IF i = first THEN size ELSE 0, lock |-> Null,
                         addrs |-> IF i = first THEN im.addrs ELSE NoAddrs]]
            /\ off \in [File -> {o \in Offs : o <= size}]
            /\ wr = [p \in Proc |-> NoCall]
-----------------------------------------------------------------------------
(* Block allocation.  A state of the disk is passed on as                    *)
(* [used, data, log], log being the blocks given to log_write.               *)

\* balloc: the first free block; b = 0 if there is none
balloc(s) ==
    LET free == Block \ s.used
        b == Min(free)
    IN  IF free = {} THEN [s EXCEPT !.b = 0]
        ELSE [used |-> s.used \cup {b}, data |-> [s.data EXCEPT ![b] = Zeroes], addrs |-> s.addrs,
              log |-> s.log \cup {BBLOCK(b), Data(b)}, b |-> b]

\* addrs[k], allocated if necessary; b = 0 if there is no room
Slot(s, k) ==
    LET t == balloc(s)
    IN  IF s.addrs[k] # 0 THEN [s EXCEPT !.b = s.addrs[k]]
        ELSE IF t.b = 0 THEN t ELSE [t EXCEPT !.addrs[k] = t.b]

\* entry k of the indirect block a, likewise
Entry(s, a, k) ==
    LET t == balloc(s)
    IN  IF s.data[a][k][2] # 0 THEN [s EXCEPT !.b = s.data[a][k][2]]
        ELSE IF t.b = 0 THEN t
        ELSE [used |-> t.used, data |-> [t.data EXCEPT ![a][k] = Number(t.b)], addrs |-> t.addrs,
              log |-> t.log \cup {Data(a)}, b |-> t.b]

\* bmap: block bn of an inode, allocated if necessary; b = 0 if there is no room
bmap(s, bn) ==
    LET t == Slot(s, NDIRECT)
    IN  IF bn < NDIRECT THEN Slot(s, bn) ELSE IF t.b = 0 THEN t ELSE Entry(t, t.b, bn - NDIRECT)

\* the block that an inode refers to at place k: those of addrs come first,
\* those of the indirect block follow
Place == 0 .. MAXFILE
BlockAt(i, k) ==
    LET a == ino[i].addrs
    IN  IF k <= NDIRECT THEN a[k]
        ELSE IF a[NDIRECT] = 0 THEN 0 ELSE data[a[NDIRECT]][k - NDIRECT - 1][2]

\* What is left of the contents of a free block: block numbers stay, data are
\* nobody's any more.
Junk(d) == [u \in 0 .. BSIZE - 1 |-> IF d[u][1] = Null THEN d[u] ELSE Number(0)]

\* Mutant: only direct blocks are freed.
itrunc_Direct(i) == {b \in Block : \E k \in 0 .. NDIRECT - 1 : ino[i].addrs[k] = b}

\* itrunc: the blocks it frees
itrunc(i) == {b \in Block : \E k \in Place : BlockAt(i, k) = b}
-----------------------------------------------------------------------------
(* Calls *)

\* open with O_TRUNC; other open files on the inode keep their offsets
Trunc(i) ==
    /\ ino[i].lock = Null /\ ino[i].addrs # NoAddrs
    /\ used' = used \ itrunc(i)
    /\ data' = [b \in Block |-> IF b \in itrunc(i) THEN Junk(data[b]) ELSE data[b]]
    /\ ino' = [ino EXCEPT ![i].size = 0, ![i].addrs = NoAddrs]
    /\ UNCHANGED <<off, wr>>

\* the file is closed, and opened again
Reopen(f) ==
    /\ off[f] # 0 /\ \A q \in Proc : wr[q].f # f
    /\ off' = [off EXCEPT ![f] = 0]
    /\ UNCHANGED <<used, data, ino, wr>>

\* Mutant: the blocks for allocation are not counted.
WriteMax_All == (MAXOPBLOCKS - 1 - 1 - 2) * BSIZE

WriteMax == ((MAXOPBLOCKS - 1 - 1 - 2) \div 2) * BSIZE

\* Mutant: a write may start beyond the end.
WriteRefused_Hole(o, n1, size) == o + n1 > MAXFILE * BSIZE

\* the checks of writei
WriteRefused(o, n1, size) == o > size \/ o + n1 > MAXFILE * BSIZE

\* c, a call of filewrite, begins a transaction: begin_op, ilock, writei
Chunk(p, c) ==
    LET i == IpOf[c.f]
        n1 == Min({c.n - c.i, WriteMax})
    IN  /\ ino[i].lock = Null
        /\ IF WriteRefused(off[c.f], n1, ino[i].size)
           THEN wr' = [wr EXCEPT ![p] = NoCall] /\ UNCHANGED ino
           ELSE /\ wr' = [wr EXCEPT ![p] = [c EXCEPT !.pc = "loop", !.n1 = n1]]
                /\ ino' = [ino EXCEPT ![i].lock = p]
        /\ UNCHANGED <<used, data, off>>

Write(p, f, n) == wr[p].pc = "idle" /\ Chunk(p, [NoCall EXCEPT !.f = f, !.n = n])
WriteMore(p) == wr[p].pc = "chunk" /\ Chunk(p, wr[p])

\* The blocks after n units are copied to the block that bmap found, if any, for
\* offset o of inode i on.
either_copyin(s, i, o, n) ==
    LET u0 == o % BSIZE
        d == s.data[s.b]
    IN  IF s.b = 0 THEN s.data
        ELSE [s.data EXCEPT ![s.b] =
                [u \in 0 .. BSIZE - 1 |-> IF u \in u0 .. u0 + n - 1 THEN <<i, o - u0 + u>> ELSE d[u]]]

\* one round of writei's loop
Loop(p) ==
    LET c == wr[p]  i == IpOf[c.f]
        o == off[c.f] + c.tot
        m == Min({c.n1 - c.tot, BSIZE - (o % BSIZE)})
        s == bmap([used |-> used, data |-> data, addrs |-> ino[i].addrs, log |-> c.logged, b |-> 0],
                  o \div BSIZE)
    IN  /\ c.pc = "loop" /\ c.tot < c.n1
        /\ used' = s.used
        /\ ino' = [ino EXCEPT ![i].addrs = s.addrs]
        /\ \/ /\ s.b # 0
              /\ data' = either_copyin(s, i, o, m)
              /\ wr' = [wr EXCEPT ![p].tot = @ + m, ![p].logged = s.log \cup {Data(s.b)}]
           \* out of blocks, or copyin fails after n units
           \/ /\ \E n \in 0 .. m - 1 : data' = either_copyin(s, i, o, n)
              /\ wr' = [wr EXCEPT ![p].pc = "end", ![p].logged = s.log \cup {Data(b) : b \in {s.b} \ {0}}]
        /\ UNCHANGED off

\* the rest of writei, and of filewrite's loop
LoopEnd(p) ==
    LET c == wr[p]  i == IpOf[c.f]
        o == off[c.f] + c.tot
    IN  /\ c.pc = "end" \/ (c.pc = "loop" /\ c.tot = c.n1)
        /\ ino' = [ino EXCEPT ![i].size = Max({@, o}), ![i].lock = Null]
        /\ off' = [off EXCEPT ![c.f] = o]
        /\ wr' = [wr EXCEPT ![p] = IF c.tot # c.n1 \/ c.i + c.tot = c.n THEN NoCall
                                   ELSE [c EXCEPT !.pc = "chunk", !.i = @ + c.tot, !.n1 = 0, !.tot = 0,
                                                  !.logged = {}]]
        /\ UNCHANGED <<used, data>>

Next ==
    \/ \E i \in Inode : Trunc(i)
    \/ \E p \in Proc, f \in File, n \in Counts : Write(p, f, n)
    \/ \E f \in File : Reopen(f)
    \/ \E p \in Proc : WriteMore(p) \/ Loop(p) \/ LoopEnd(p)

Spec == Init /\ [][Next]_vars
-----------------------------------------------------------------------------
\* The free map is exact, also in the middle of a write, after a disk that was
\* full and after a failed copy: a block is in use if and only if one inode
\* refers to it, and it does so once.
BitmapExact ==
    \A b \in Block : Cardinality({e \in Inode \X Place : BlockAt(e[1], e[2]) = b}) = IF b \in used THEN 1 ELSE 0

\* readi, at offset o
ReadAt(i, o) ==
    LET a == ino[i].addrs  bn == o \div BSIZE
        b == IF bn < NDIRECT THEN a[bn] ELSE data[a[NDIRECT]][bn - NDIRECT][2]
    IN  IF b = 0 THEN Number(0) ELSE data[b][o % BSIZE]

\* Up to its size a file reads as what was written to it there, whatever was
\* allocated, freed or written to other files since.
ReadsBack == \A i \in Inode : \A o \in 0 .. ino[i].size - 1 : ReadAt(i, o) = <<i, o>>

\* A transaction of filewrite logs no more blocks than begin_op has reserved.
OpFits == \A p \in Proc : Cardinality(wr[p].logged \cup {IBLOCK(IpOf[f]) : f \in {wr[p].f} \ {Null}}) <= MAXOPBLOCKS
=============================================================================
