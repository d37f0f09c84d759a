---------------------------- MODULE BlocksProofs ----------------------------
(***************************************************************************)
(* Theorems about module Blocks, for any number of blocks, any block size, *)
(* number of direct addresses and size of a transaction, any processes,    *)
(* files and inodes: the free map is exact, files read back as they were   *)
(* written, and a write fits in its transaction.                           *)
(*                                                                         *)
(* The lemmas follow the code: balloc, the two halves of bmap, bmap, one   *)
(* round of writei's loop, then the actions.  They are about the disk as a *)
(* value, before and after; the actions only apply them.                   *)
(***************************************************************************)
EXTENDS Blocks, FiniteSetTheorems, WellFoundedInduction, TLAPS

\* The time the provers are given for a step.
USE ZenonT(10), SMTT(20)

(* The blocks of files: D are the contents of the blocks, A the addrs of the *)
(* inodes, U the blocks marked in use.                                       *)
Units == 0 .. BSIZE - 1
Unit == (Inode \X Nat) \cup ({Null} \X (0 .. NBlocks))
Slots == 0 .. NDIRECT

At(D, A, i, k) ==
    IF k <= NDIRECT THEN A[i][k]
    ELSE IF A[i][NDIRECT] = 0 THEN 0 ELSE D[A[i][NDIRECT]][k - NDIRECT - 1][2]

\* Block bn of a file is at this place.
PlaceOf(bn) == IF bn < NDIRECT THEN bn ELSE bn + 1

DiskType(U, D, A) ==
    /\ U \subseteq Block
    /\ D \in [Block -> [Units -> Unit]]
    /\ A \in [Inode -> [Slots -> 0 .. NBlocks]]

\* An indirect block holds block numbers.
Indirects(D, A) ==
    \A i \in Inode : A[i][NDIRECT] # 0 => \A u \in Units : D[A[i][NDIRECT]][u] \in {Null} \X (0 .. NBlocks)

\* The free map is exact.
Exact(U, D, A) ==
    /\ DiskType(U, D, A) /\ Indirects(D, A)
    /\ \A i \in Inode, k \in Place : At(D, A, i, k) # 0 => At(D, A, i, k) \in U
    /\ \A b \in U : \E i \in Inode, k \in Place : At(D, A, i, k) = b
    /\ \A i, j \in Inode : \A k, m \in Place :
           At(D, A, i, k) = At(D, A, j, m) /\ At(D, A, i, k) # 0 => i = j /\ k = m

\* Inode i reads at offset o as what was written there, and up to offset e.
ReadsAt(D, A, i, o) ==
    LET b == At(D, A, i, PlaceOf(o \div BSIZE))
    IN  o \div BSIZE < MAXFILE /\ b # 0 /\ D[b][o % BSIZE] = <<i, o>>
Reads(D, A, i, e) == \A o \in 0 .. e - 1 : ReadsAt(D, A, i, o)

Addrs == [i \in Inode |-> ino[i].addrs]

Calls == [pc : {"idle", "chunk", "loop", "end"}, f : File \cup {Null}, n : Nat, i : Nat, n1 : Nat, tot : Nat,
          logged : SUBSET ({"data", "bitmap"} \X Nat)]

Room == (MAXOPBLOCKS - 1 - 1 - 2) \div 2

\* The blocks logged for the indirect block, and those that a call has logged
\* besides.
ForIndirect(a) == IF a = 0 THEN {} ELSE {Data(a), BBLOCK(a)}
Other(L, a) == L \ ForIndirect(a)
Extra(c, A) == Other(c.logged, A[IpOf[c.f]][NDIRECT])

BlocksType ==
    /\ ino \in [Inode -> [size : Nat, addrs : [Slots -> 0 .. NBlocks], lock : Proc \cup {Null}]]
    /\ off \in [File -> Nat]
    /\ wr \in [Proc -> Calls]

\* A call c of process p, with size z and lock l of the inode and offset g.  In
\* writei it has the lock, and j blocks have been written in full.
Writing(c) == c.pc \in {"loop", "end"}
InWritei(p, c, D, A, z, l, g) ==
    LET i == IpOf[c.f]
    IN  /\ l = p /\ g <= z
        /\ c.tot <= c.n1 /\ c.i + c.n1 <= c.n /\ c.n1 <= Room * BSIZE /\ g + c.n1 <= MAXFILE * BSIZE
        /\ Reads(D, A, i, g + c.tot)
        /\ IsFiniteSet(c.logged) /\ Cardinality(Extra(c, A)) <= 2 * Room + 1
InLoop(c, A, g) ==
    /\ c.tot # 0 => (g + c.tot) % BSIZE = 0
    /\ c.tot = 0 => c.logged = {}
    /\ \E j \in Nat : j * BSIZE <= c.tot /\ Cardinality(Extra(c, A)) <= 2 * j + 1
CallOK(p, c, D, A, z, l, g) ==
    /\ c.pc # "idle" => c.f \in File /\ c.i < c.n
    /\ ~Writing(c) => c.logged = {} /\ c.tot = 0
    /\ Writing(c) => InWritei(p, c, D, A, z, l, g)
    /\ c.pc = "loop" /\ c.tot < c.n1 => InLoop(c, A, g)
CallInv(p) ==
    LET i == IpOf[wr[p].f] IN CallOK(p, wr[p], data, Addrs, ino[i].size, ino[i].lock, off[wr[p].f])

BlocksInv ==
    /\ BlocksType
    /\ Exact(used, data, Addrs)
    /\ \A i \in Inode : Reads(data, Addrs, i, ino[i].size)
    /\ \A p \in Proc : CallInv(p)
-----------------------------------------------------------------------------
LEMMA Widths ==
    /\ NBlocks \in Nat /\ BSIZE \in Nat /\ BSIZE >= 1 /\ NDIRECT \in Nat /\ NDIRECT >= 1
    /\ MAXFILE = NDIRECT + BSIZE /\ MAXFILE \in Nat /\ Place = 0 .. NDIRECT + BSIZE
    /\ 0 \notin Block /\ NDIRECT \in Slots /\ NDIRECT \in Place /\ Slots \subseteq Place
  BY BlocksAssumption, SMT DEF MAXFILE, NINDIRECT, Place, Block, Slots

\* Division by the block size.
LEMMA DivMod ==
    ASSUME NEW o \in Nat
    PROVE  \E q \in Nat, r \in Units : q = o \div BSIZE /\ r = o % BSIZE /\ o = q * BSIZE + r
  <1>1. BSIZE \in Nat /\ BSIZE > 0
    BY BlocksAssumption, SMT
  <1>2. o % BSIZE \in Nat /\ o % BSIZE < BSIZE
    BY <1>1, SMT
  <1>3. o \div BSIZE \in Int
    BY <1>1, SMT
  <1>5. o \div BSIZE >= 0
    BY <1>1, SMT
  <1>4. \A q, r \in Nat : q = o \div BSIZE /\ r = o % BSIZE => o = BSIZE * q + r
    BY <1>1, SMT
  <1>6. \A q \in Nat : BSIZE * q = q * BSIZE
    BY <1>1, SMT
  <1>7. o \div BSIZE \in Nat /\ o % BSIZE \in Units
    BY <1>1, <1>2, <1>3, <1>5, SMT DEF Units
  <1>8. PICK q \in Nat, r \in Nat : q = o \div BSIZE /\ r = o % BSIZE
    BY Zenon, <1>2, <1>7
  <1>9. o = q * BSIZE + r
    BY Zenon, <1>4, <1>6, <1>8
  <1> QED BY Zenon, <1>7, <1>8, <1>9

LEMMA DivUnique ==
    ASSUME NEW o \in Nat, NEW q \in Nat, NEW r \in Units, o = q * BSIZE + r
    PROVE  o \div BSIZE = q /\ o % BSIZE = r
  <1>1. BSIZE \in Nat /\ BSIZE > 0
    BY BlocksAssumption, SMT
  <1> QED BY <1>1, SMT DEF Units

LEMMA TimesMono ==
    ASSUME NEW m \in Nat, NEW n \in Nat
    PROVE  /\ m * BSIZE < n * BSIZE => m < n
           /\ m < n => (m + 1) * BSIZE <= n * BSIZE
           /\ (m + 1) * BSIZE = m * BSIZE + BSIZE /\ m * BSIZE \in Nat
  <1>1. BSIZE \in Nat /\ BSIZE > 0
    BY BlocksAssumption, SMT
  <1> QED BY <1>1, SMT

\* An offset below n * BSIZE is in a block before n, and the other way round.
LEMMA DivBelow ==
    ASSUME NEW o \in Nat, NEW n \in Nat
    PROVE  o < n * BSIZE <=> o \div BSIZE < n
  <1>1. PICK q \in Nat, r \in Units : q = o \div BSIZE /\ r = o % BSIZE /\ o = q * BSIZE + r
    BY DivMod
  <1>2. q = o \div BSIZE /\ o = q * BSIZE + r
    BY <1>1
  <1>3. BSIZE \in Nat /\ BSIZE > 0
    BY BlocksAssumption, SMT
  <1>4. r \in Nat /\ r < BSIZE
    BY <1>3, SMT DEF Units
  <1>5. q < n => (q + 1) * BSIZE <= n * BSIZE /\ (q + 1) * BSIZE = q * BSIZE + BSIZE
    BY TimesMono
  <1>6. n <= q => n * BSIZE <= q * BSIZE
    BY <1>3, SMT
  <1>7. q * BSIZE \in Nat /\ n * BSIZE \in Nat
    BY TimesMono
  <1>8. PICK x \in Nat, y \in Nat : x = q * BSIZE /\ y = n * BSIZE
    BY <1>7
  <1> QED BY <1>2, <1>3, <1>4, <1>5, <1>6, <1>8, SMT

LEMMA LeastOf ==
    ASSUME NEW S \in SUBSET Nat, S # {}
    PROVE  Min(S) \in S /\ \A n \in S : Min(S) <= n
  <1>1. PICK x \in S : \A y \in S : ~(<<y, x>> \in OpToRel(<, Nat))
    BY Zenon, NatLessThanWellFounded, WFMin
  <1>2. \A y \in S : ~(y < x)
    BY Zenon, <1>1 DEF OpToRel
  <1>3. \A y \in S : x <= y
    BY <1>2, SMT
  <1> QED BY <1>3 DEF Min
-----------------------------------------------------------------------------
\* Blocks and places.
LEMMA AtIs ==
    ASSUME NEW U, NEW D, NEW A, Exact(U, D, A), NEW i \in Inode, NEW k \in Place
    PROVE  /\ At(D, A, i, k) \in 0 .. NBlocks
           /\ At(D, A, i, k) # 0 => At(D, A, i, k) \in U /\ At(D, A, i, k) \in Block
  <1>1. At(D, A, i, k) # 0 => At(D, A, i, k) \in U /\ At(D, A, i, k) \in Block
    BY DEF Exact, DiskType
  <1>2. 0 \in 0 .. NBlocks /\ Block \subseteq 0 .. NBlocks
    BY Widths, SMT DEF Block
  <1> QED BY <1>1, <1>2

LEMMA IndirectIs ==
    ASSUME NEW U, NEW D, NEW A, Exact(U, D, A), NEW i \in Inode, A[i][NDIRECT] # 0
    PROVE  /\ A[i][NDIRECT] \in U /\ A[i][NDIRECT] \in Block
           /\ A[i][NDIRECT] = At(D, A, i, NDIRECT)
  <1>1. A[i][NDIRECT] = At(D, A, i, NDIRECT) /\ NDIRECT \in Place
    BY Widths, SMT DEF At
  <1> QED BY <1>1, AtIs

LEMMA ZeroesIs == Zeroes \in [Units -> Unit] /\ \A u \in Units : Zeroes[u] = <<Null, 0>>
  BY Widths, SMT DEF Zeroes, Units, Unit, Number

\* Block b zeroed, entered in place k of addrs, entered in the indirect block a.
Zeroed(D, b) == [D EXCEPT ![b] = Zeroes]
WithSlot(A, i, k, b) == [A EXCEPT ![i] = [A[i] EXCEPT ![k] = b]]
WithEntry(D, a, u, b) == [[D EXCEPT ![b] = Zeroes] EXCEPT ![a] = [D[a] EXCEPT ![u] = Number(b)]]

\* Place k of inode i has got block b.
Grown(D, A, i, k, b, D2, A2) ==
    \A j \in Inode, m \in Place : At(D2, A2, j, m) = IF j = i /\ m = k THEN b ELSE At(D, A, j, m)

LEMMA GrowExact ==
    ASSUME NEW U, NEW D, NEW A, Exact(U, D, A), NEW D2, NEW A2,
           NEW b \in Block, b \notin U, NEW i \in Inode, NEW k \in Place, At(D, A, i, k) = 0,
           DiskType(U \cup {b}, D2, A2), Indirects(D2, A2), Grown(D, A, i, k, b, D2, A2)
    PROVE  Exact(U \cup {b}, D2, A2)
  <1>0. \A j \in Inode, m \in Place : At(D2, A2, j, m) = IF j = i /\ m = k THEN b ELSE At(D, A, j, m)
    BY DEF Grown
  <1>1. \A j \in Inode, m \in Place : At(D2, A2, j, m) # 0 => At(D2, A2, j, m) \in U \cup {b}
    BY <1>0, SMT DEF Exact
  <1>2. \A d \in U \cup {b} : \E j \in Inode, m \in Place : At(D2, A2, j, m) = d
    <2>1. At(D2, A2, i, k) = b
      BY <1>0
    <2>2. ASSUME NEW d \in U PROVE \E j \in Inode, m \in Place : At(D2, A2, j, m) = d
      <3>1. PICK j \in Inode, m \in Place : At(D, A, j, m) = d
        BY DEF Exact
      <3>2. d # 0
        BY Widths DEF Exact, DiskType
      <3>3. At(D2, A2, j, m) = d
        BY <1>0, <3>1, <3>2
      <3> QED BY <3>3
    <2> QED BY <2>1, <2>2
  <1>3. ASSUME NEW j \in Inode, NEW l \in Inode, NEW m \in Place, NEW n \in Place,
               At(D2, A2, j, m) = At(D2, A2, l, n), At(D2, A2, j, m) # 0
        PROVE  j = l /\ m = n
    <2>1. CASE j = i /\ m = k
      BY <1>0, <1>3, <2>1, SMT DEF Exact
    <2>2. CASE l = i /\ n = k
      BY <1>0, <1>3, <2>2, SMT DEF Exact
    <2>3. CASE ~(j = i /\ m = k) /\ ~(l = i /\ n = k)
      BY <1>0, <1>3, <2>3, SMT DEF Exact
    <2> QED BY <2>1, <2>2, <2>3
  <1> QED BY <1>1, <1>2, <1>3, SMT DEF Exact

\* bmap enters a new block in addrs.
LEMMA AllocSlot ==
    ASSUME NEW U, NEW D, NEW A, Exact(U, D, A), NEW i \in Inode, NEW k \in Slots, A[i][k] = 0,
           NEW b \in Block, b \notin U,
           NEW D2, D2 = Zeroed(D, b), NEW A2, A2 = WithSlot(A, i, k, b)
    PROVE  /\ Exact(U \cup {b}, D2, A2)
           /\ Grown(D, A, i, k, b, D2, A2)
  <1>1. /\ D \in [Block -> [Units -> Unit]] /\ A \in [Inode -> [Slots -> 0 .. NBlocks]] /\ U \subseteq Block
        /\ b \in 0 .. NBlocks
    BY SMT DEF Exact, DiskType, Block
  <1>2. /\ \A j \in Inode, m \in Slots : A2[j][m] = IF j = i /\ m = k THEN b ELSE A[j][m]
        /\ A2 \in [Inode -> [Slots -> 0 .. NBlocks]]
    BY <1>1 DEF WithSlot
  <1>3. \A d \in Block : D2[d] = IF d = b THEN Zeroes ELSE D[d]
    BY <1>1 DEF Zeroed
  <1>4. D2 \in [Block -> [Units -> Unit]]
    BY <1>1, ZeroesIs DEF Zeroed
  <1>5. DiskType(U \cup {b}, D2, A2)
    BY <1>1, <1>2, <1>4 DEF DiskType
  <1>6. ASSUME NEW j \in Inode, A2[j][NDIRECT] # 0, NEW u \in Units
        PROVE  /\ D2[A2[j][NDIRECT]][u] \in {Null} \X (0 .. NBlocks)
               /\ D2[A2[j][NDIRECT]][u][2] = IF A[j][NDIRECT] = 0 THEN 0 ELSE D[A[j][NDIRECT]][u][2]
    <2>1. CASE j = i /\ k = NDIRECT
      <3>1. A2[j][NDIRECT] = b /\ A[j][NDIRECT] = 0
        BY <1>2, <2>1, Widths
      <3>2. D2[A2[j][NDIRECT]][u] = <<Null, 0>>
        BY <1>3, <3>1, ZeroesIs
      <3>3. <<Null, 0>>[2] = 0 /\ <<Null, 0>> \in {Null} \X (0 .. NBlocks)
        BY Widths, SMT
      <3> QED BY <3>1, <3>2, <3>3
    <2>2. CASE ~(j = i /\ k = NDIRECT)
      <3>1. A2[j][NDIRECT] = A[j][NDIRECT]
        BY <1>2, <2>2, Widths
      <3>2. A[j][NDIRECT] \in U /\ A[j][NDIRECT] \in Block
        BY <1>6, <3>1, IndirectIs
      <3>3. D2[A2[j][NDIRECT]] = D[A[j][NDIRECT]]
        BY <1>3, <3>1, <3>2
      <3> QED BY <1>6, <3>1, <3>3 DEF Exact, Indirects
    <2> QED BY <2>1, <2>2
  <1>7. ASSUME NEW j \in Inode, NEW m \in Place
        PROVE  At(D2, A2, j, m) = IF j = i /\ m = k THEN b ELSE At(D, A, j, m)
    <2>1. CASE m <= NDIRECT
      <3>1. m \in Slots
        BY <2>1, Widths, SMT DEF Slots
      <3> QED BY <1>2, <2>1, <3>1 DEF At
    <2>2. CASE ~(m <= NDIRECT)
      <3>1. m # k /\ m - NDIRECT - 1 \in Units
        BY <2>2, Widths, SMT DEF Slots, Units
      <3>2. CASE A2[j][NDIRECT] = 0
        <4>1. A[j][NDIRECT] = 0
          BY <1>2, <3>2, Widths
        <4> QED BY <2>2, <3>1, <3>2, <4>1 DEF At
      <3>3. CASE A2[j][NDIRECT] # 0
        BY <1>6, <2>2, <3>1, <3>3 DEF At
      <3> QED BY <3>2, <3>3
    <2> QED BY <2>1, <2>2
  <1>8. At(D, A, i, k) = 0 /\ k \in Place
    BY Widths, SMT DEF At, Slots
  <1>9. Indirects(D2, A2)
    BY <1>6 DEF Indirects
  <1>10. Grown(D, A, i, k, b, D2, A2)
    BY <1>7 DEF Grown
  <1> QED BY Zenon, <1>5, <1>8, <1>9, <1>10, GrowExact
-----------------------------------------------------------------------------
\* What has a block keeps it, and the contents of its blocks.
Kept(D, A, D2, A2) ==
    \A j \in Inode, m \in Place : At(D, A, j, m) # 0 =>
        /\ At(D2, A2, j, m) = At(D, A, j, m)
        /\ m # NDIRECT => D2[At(D, A, j, m)] = D[At(D, A, j, m)]

LEMMA KeptTwice ==
    ASSUME NEW D, NEW A, NEW D2, NEW A2, NEW D3, NEW A3, Kept(D, A, D2, A2), Kept(D2, A2, D3, A3)
    PROVE  Kept(D, A, D3, A3)
  BY DEF Kept

LEMMA PlaceOfIs ==
    ASSUME NEW bn \in Nat, bn < MAXFILE
    PROVE  PlaceOf(bn) \in Place /\ PlaceOf(bn) # NDIRECT
  BY Widths, SMT DEF PlaceOf

LEMMA ReadsKept ==
    ASSUME NEW D, NEW A, NEW D2, NEW A2, Kept(D, A, D2, A2), NEW j \in Inode, NEW e \in Nat, Reads(D, A, j, e)
    PROVE  Reads(D2, A2, j, e)
  <1> SUFFICES ASSUME NEW o \in 0 .. e - 1
               PROVE  /\ o \div BSIZE < MAXFILE /\ At(D2, A2, j, PlaceOf(o \div BSIZE)) # 0
                      /\ D2[At(D2, A2, j, PlaceOf(o \div BSIZE))][o % BSIZE] = <<j, o>>
    BY DEF Reads, ReadsAt
  <1>1. PICK k : k = PlaceOf(o \div BSIZE)
    OBVIOUS
  <1>2. o \div BSIZE < MAXFILE /\ At(D, A, j, k) # 0 /\ D[At(D, A, j, k)][o % BSIZE] = <<j, o>>
    BY <1>1 DEF Reads, ReadsAt
  <1>3. o \div BSIZE \in Nat
    BY DivMod, SMT
  <1>4. k \in Place /\ k # NDIRECT
    BY <1>1, <1>2, <1>3, PlaceOfIs
  <1>5. At(D2, A2, j, k) = At(D, A, j, k) /\ D2[At(D, A, j, k)] = D[At(D, A, j, k)]
    BY <1>2, <1>4 DEF Kept
  <1> QED BY <1>1, <1>2, <1>5

LEMMA SlotKept ==
    ASSUME NEW U, NEW D, NEW A, Exact(U, D, A), NEW i \in Inode, NEW k \in Slots, A[i][k] = 0,
           NEW b \in Block, b \notin U,
           NEW D2, D2 = Zeroed(D, b), NEW A2, A2 = WithSlot(A, i, k, b)
    PROVE  Exact(U \cup {b}, D2, A2) /\ Kept(D, A, D2, A2) /\ At(D2, A2, i, k) = b
  <1>1. Exact(U \cup {b}, D2, A2) /\ Grown(D, A, i, k, b, D2, A2)
    BY AllocSlot
  <1>2. At(D, A, i, k) = 0 /\ k \in Place
    BY Widths, SMT DEF At, Slots
  <1>3. \A d \in Block : d # b => D2[d] = D[d]
    BY DEF Exact, DiskType, Zeroed
  <1>4. \A j \in Inode, m \in Place : At(D, A, j, m) # 0 => At(D, A, j, m) \in U /\ At(D, A, j, m) \in Block
    BY AtIs
  <1> QED BY <1>1, <1>2, <1>3, <1>4 DEF Kept, Grown

\* bmap enters a new block in the indirect block.
LEMMA AllocEntry ==
    ASSUME NEW U, NEW D, NEW A, Exact(U, D, A), NEW i \in Inode, NEW u \in Units, NEW a, a = A[i][NDIRECT], a # 0,
           D[a][u][2] = 0, NEW b \in Block, b \notin U,
           NEW D2, D2 = WithEntry(D, a, u, b), NEW k, k = NDIRECT + 1 + u
    PROVE  /\ Exact(U \cup {b}, D2, A) /\ Kept(D, A, D2, A) /\ At(D2, A, i, k) = b
           /\ D2[b] = Zeroes
  <1>1. /\ D \in [Block -> [Units -> Unit]] /\ A \in [Inode -> [Slots -> 0 .. NBlocks]] /\ U \subseteq Block
        /\ b \in 0 .. NBlocks
    BY SMT DEF Exact, DiskType, Block
  <1>2. a \in U /\ a \in Block /\ a # b
    BY IndirectIs
  <1>3. Number(b) \in Unit /\ Number(b) \in {Null} \X (0 .. NBlocks) /\ Number(b)[2] = b
    BY <1>1 DEF Number, Unit
  <1>4. /\ \A d \in Block : d # a /\ d # b => D2[d] = D[d]
        /\ D2[b] = Zeroes /\ D2[a] = [D[a] EXCEPT ![u] = Number(b)]
    BY <1>1, <1>2 DEF WithEntry
  <1>5. /\ D2[a] \in [Units -> Unit]
        /\ \A v \in Units : D2[a][v] = IF v = u THEN Number(b) ELSE D[a][v]
    <2>1. D[a] \in [Units -> Unit]
      BY <1>1, <1>2
    <2> QED BY <1>3, <1>4, <2>1
  <1>6. D2 \in [Block -> [Units -> Unit]]
    BY <1>1, <1>2, <1>3, ZeroesIs DEF WithEntry
  <1>7. DiskType(U \cup {b}, D2, A)
    BY <1>1, <1>6 DEF DiskType
  <1>8. \A j \in Inode : j # i /\ A[j][NDIRECT] # 0 => A[j][NDIRECT] # a /\ D2[A[j][NDIRECT]] = D[A[j][NDIRECT]]
    <2> SUFFICES ASSUME NEW j \in Inode, j # i, A[j][NDIRECT] # 0
                 PROVE  A[j][NDIRECT] # a /\ D2[A[j][NDIRECT]] = D[A[j][NDIRECT]]
      OBVIOUS
    <2>1. /\ A[j][NDIRECT] = At(D, A, j, NDIRECT) /\ a = At(D, A, i, NDIRECT) /\ NDIRECT \in Place
          /\ A[j][NDIRECT] \in U /\ A[j][NDIRECT] \in Block
      BY IndirectIs, Widths
    <2>2. A[j][NDIRECT] # a
      BY <2>1, SMT DEF Exact
    <2> QED BY <1>4, <2>1, <2>2
  <1>9. Indirects(D2, A)
    <2> SUFFICES ASSUME NEW j \in Inode, A[j][NDIRECT] # 0, NEW v \in Units
                 PROVE  D2[A[j][NDIRECT]][v] \in {Null} \X (0 .. NBlocks)
      BY DEF Indirects
    <2>1. D[A[j][NDIRECT]][v] \in {Null} \X (0 .. NBlocks)
      BY DEF Exact, Indirects
    <2>2. CASE j # i
      BY <1>8, <2>1, <2>2
    <2>3. CASE j = i
      BY <1>3, <1>5, <2>1, <2>3
    <2> QED BY <2>2, <2>3
  <1>10. ASSUME NEW j \in Inode, NEW m \in Place
         PROVE  At(D2, A, j, m) = IF j = i /\ m = NDIRECT + 1 + u THEN b ELSE At(D, A, j, m)
    <2>1. CASE m <= NDIRECT
      BY <2>1, Widths, SMT DEF At, Units
    <2>2. CASE ~(m <= NDIRECT) /\ A[j][NDIRECT] = 0
      <3>1. j # i
        BY <2>2
      <3> QED BY <2>2, <3>1 DEF At
    <2>3. CASE ~(m <= NDIRECT) /\ A[j][NDIRECT] # 0
      <3>1. m - NDIRECT - 1 \in Units
        BY <2>3, Widths, SMT DEF Units
      <3>4. m - NDIRECT - 1 = u <=> m = NDIRECT + 1 + u
        BY <2>3, Widths, SMT DEF Units
      <3>2. CASE j # i
        <4>1. /\ At(D2, A, j, m) = D2[A[j][NDIRECT]][m - NDIRECT - 1][2]
              /\ At(D, A, j, m) = D[A[j][NDIRECT]][m - NDIRECT - 1][2]
          BY <2>3 DEF At
        <4> QED BY <1>8, <2>3, <3>2, <4>1
      <3>3. CASE j = i
        <4>1. At(D2, A, j, m) = D2[a][m - NDIRECT - 1][2] /\ At(D, A, j, m) = D[a][m - NDIRECT - 1][2]
          BY <2>3, <3>3 DEF At
        <4>2. CASE m - NDIRECT - 1 = u
          BY <1>3, <1>5, <3>1, <3>3, <3>4, <4>1, <4>2
        <4>3. CASE m - NDIRECT - 1 # u
          BY <1>5, <3>1, <3>4, <4>1, <4>3
        <4> QED BY <4>2, <4>3
      <3> QED BY <3>2, <3>3
    <2> QED BY <2>1, <2>2, <2>3
  <1>11. At(D, A, i, NDIRECT + 1 + u) = 0 /\ NDIRECT + 1 + u \in Place
    <2>1. PICK m : m = NDIRECT + 1 + u
      OBVIOUS
    <2>2. ~(m <= NDIRECT) /\ m - NDIRECT - 1 = u /\ m \in Place
      BY <2>1, Widths, SMT DEF Units
    <2>3. At(D, A, i, m) = D[a][m - NDIRECT - 1][2]
      BY <2>2 DEF At
    <2> QED BY <2>1, <2>2, <2>3
  <1>12. Grown(D, A, i, NDIRECT + 1 + u, b, D2, A)
    BY <1>10 DEF Grown
  <1>13. Exact(U \cup {b}, D2, A)
    BY Zenon, <1>7, <1>9, <1>11, <1>12, GrowExact
  <1>14. Kept(D, A, D2, A)
    <2> SUFFICES ASSUME NEW j \in Inode, NEW m \in Place, At(D, A, j, m) # 0
                 PROVE  /\ At(D2, A, j, m) = At(D, A, j, m)
                        /\ m # NDIRECT => D2[At(D, A, j, m)] = D[At(D, A, j, m)]
      BY DEF Kept
    <2>1. At(D, A, j, m) \in U /\ At(D, A, j, m) \in Block
      BY AtIs
    <2>2. m # NDIRECT => At(D, A, j, m) # a
      <3>1. a = At(D, A, i, NDIRECT) /\ NDIRECT \in Place
        BY IndirectIs, Widths
      <3> QED BY <3>1, SMT DEF Exact
    <2> QED BY <1>4, <1>10, <1>11, <2>1, <2>2
  <1> QED BY <1>4, <1>10, <1>11, <1>13, <1>14
-----------------------------------------------------------------------------
\* What balloc and bmap return.
Disk(U, D, a, L, b) == [used |-> U, data |-> D, addrs |-> a, log |-> L, b |-> b]

\* Block b allocated, entered in addrs, entered in the indirect block d.
Fresh(U, D, a, L, b) == Disk(U \cup {b}, [D EXCEPT ![b] = Zeroes], a, L \cup {BBLOCK(b), Data(b)}, b)
FreshSlot(U, D, a, L, b, k) ==
    Disk(U \cup {b}, [D EXCEPT ![b] = Zeroes], [a EXCEPT ![k] = b], L \cup {BBLOCK(b), Data(b)}, b)
FreshEntry(U, D, a, L, b, d, u) ==
    Disk(U \cup {b}, [[D EXCEPT ![b] = Zeroes] EXCEPT ![d] = [D[d] EXCEPT ![u] = Number(b)]], a,
         L \cup {BBLOCK(b), Data(b)} \cup {Data(d)}, b)

LEMMA BallocIs ==
    ASSUME NEW U, U \subseteq Block, NEW D, NEW a, NEW L, NEW x
    PROVE  \/ balloc(Disk(U, D, a, L, x)) = Disk(U, D, a, L, 0)
           \/ \E b \in Block \ U : balloc(Disk(U, D, a, L, x)) = Fresh(U, D, a, L, b)
  <1>1. CASE Block \ U = {}
    BY <1>1 DEF balloc, Disk
  <1>2. CASE Block \ U # {}
    <2>1. PICK b : b = Min(Block \ U)
      OBVIOUS
    <2>2. Block \ U \subseteq Nat
      BY SMT DEF Block
    <2>3. b \in Block \ U
      BY <1>2, <2>1, <2>2, LeastOf
    <2>4. balloc(Disk(U, D, a, L, x)) = Fresh(U, D, a, L, b)
      BY <1>2, <2>1 DEF balloc, Disk, Fresh
    <2> QED BY <2>3, <2>4
  <1> QED BY <1>1, <1>2

LEMMA SlotIs ==
    ASSUME NEW U, NEW D, NEW A, Exact(U, D, A), NEW i \in Inode, NEW k \in Slots, NEW L, NEW x
    PROVE  \/ A[i][k] # 0 /\ Slot(Disk(U, D, A[i], L, x), k) = Disk(U, D, A[i], L, A[i][k])
           \/ A[i][k] = 0 /\ Slot(Disk(U, D, A[i], L, x), k) = Disk(U, D, A[i], L, 0)
           \/ A[i][k] = 0 /\ \E b \in Block \ U : Slot(Disk(U, D, A[i], L, x), k) = FreshSlot(U, D, A[i], L, b, k)
  <1>0. PICK s : s = Disk(U, D, A[i], L, x)
    OBVIOUS
  <1>1. /\ s.addrs = A[i] /\ [s EXCEPT !.b = s.addrs[k]] = Disk(U, D, A[i], L, A[i][k])
    BY <1>0, SMT DEF Disk
  <1>2. CASE A[i][k] # 0
    BY <1>0, <1>1, <1>2 DEF Slot
  <1>3. CASE A[i][k] = 0
    <2>1. U \subseteq Block
      BY DEF Exact, DiskType
    <2>2. CASE balloc(s) = Disk(U, D, A[i], L, 0)
      <3>1. balloc(s).b = 0
        BY <2>2, SMT DEF Disk
      <3>2. Slot(s, k) = balloc(s)
        BY <1>1, <1>3, <3>1 DEF Slot
      <3> QED BY <1>0, <1>3, <2>2, <3>2
    <2>3. ASSUME NEW b \in Block \ U, balloc(s) = Fresh(U, D, A[i], L, b)
          PROVE  Slot(s, k) = FreshSlot(U, D, A[i], L, b, k)
      <3>1. PICK D2, L2 : D2 = [D EXCEPT ![b] = Zeroes] /\ L2 = L \cup {BBLOCK(b), Data(b)}
        OBVIOUS
      <3>2. PICK t : t = balloc(s)
        OBVIOUS
      <3>3. t = [used |-> U \cup {b}, data |-> D2, addrs |-> A[i], log |-> L2, b |-> b]
        BY <2>3, <3>1, <3>2 DEF Disk, Fresh
      <3>4. t.b = b /\ b # 0
        BY <3>3, Widths
      <3>5. Slot(s, k) = [t EXCEPT !.addrs[k] = t.b]
        BY <1>1, <1>3, <3>2, <3>4 DEF Slot
      <3>6. [t EXCEPT !.addrs[k] = t.b] = [used |-> U \cup {b}, data |-> D2, addrs |-> [A[i] EXCEPT ![k] = b],
                                          log |-> L2, b |-> b]
        BY <3>3, SMT
      <3> QED BY <3>1, <3>5, <3>6 DEF Disk, FreshSlot
    <2>4. \/ balloc(s) = Disk(U, D, A[i], L, 0)
          \/ \E b \in Block \ U : balloc(s) = Fresh(U, D, A[i], L, b)
      BY <1>0, <2>1, BallocIs, SMT
    <2> QED BY <1>0, <1>3, <2>2, <2>3, <2>4
  <1> QED BY <1>2, <1>3

LEMMA EntryIs ==
    ASSUME NEW U, NEW D, NEW A, Exact(U, D, A), NEW i \in Inode, NEW a, a = A[i][NDIRECT], a # 0,
           NEW u \in Units, NEW L, NEW x, NEW e, e = D[a][u][2]
    PROVE  \/ e # 0 /\ Entry(Disk(U, D, A[i], L, x), a, u) = Disk(U, D, A[i], L, e)
           \/ e = 0 /\ Entry(Disk(U, D, A[i], L, x), a, u) = Disk(U, D, A[i], L, 0)
           \/ e = 0 /\ \E b \in Block \ U : Entry(Disk(U, D, A[i], L, x), a, u) = FreshEntry(U, D, A[i], L, b, a, u)
  <1>0. PICK s : s = Disk(U, D, A[i], L, x)
    OBVIOUS
  <1>1. /\ s.data[a][u][2] = e /\ [s EXCEPT !.b = s.data[a][u][2]] = Disk(U, D, A[i], L, e)
    BY <1>0, SMT DEF Disk
  <1>2. CASE e # 0
    BY <1>0, <1>1, <1>2 DEF Entry
  <1>3. CASE e = 0
    <2>1. U \subseteq Block /\ D \in [Block -> [Units -> Unit]] /\ a \in Block /\ a \in U
      BY IndirectIs DEF Exact, DiskType
    <2>2. CASE balloc(s) = Disk(U, D, A[i], L, 0)
      <3>1. balloc(s).b = 0
        BY <2>2, SMT DEF Disk
      <3>2. Entry(s, a, u) = balloc(s)
        BY <1>1, <1>3, <3>1 DEF Entry
      <3> QED BY <1>0, <1>3, <2>2, <3>2
    <2>3. ASSUME NEW b \in Block \ U, balloc(s) = Fresh(U, D, A[i], L, b)
          PROVE  Entry(s, a, u) = FreshEntry(U, D, A[i], L, b, a, u)
      <3>1. PICK D2, L2 : D2 = [D EXCEPT ![b] = Zeroes] /\ L2 = L \cup {BBLOCK(b), Data(b)}
        OBVIOUS
      <3>2. PICK t : t = balloc(s)
        OBVIOUS
      <3>3. t = [used |-> U \cup {b}, data |-> D2, addrs |-> A[i], log |-> L2, b |-> b]
        BY <2>3, <3>1, <3>2 DEF Disk, Fresh
      <3>4. t.b = b /\ b # 0
        BY <3>3, Widths
      <3>5. Entry(s, a, u) = [used |-> t.used, data |-> [t.data EXCEPT ![a][u] = Number(t.b)], addrs |-> t.addrs,
                              log |-> t.log \cup {Data(a)}, b |-> t.b]
        BY <1>1, <1>3, <3>2, <3>4 DEF Entry
      <3>6. /\ t.used = U \cup {b} /\ t.data = D2 /\ t.addrs = A[i] /\ t.log = L2 /\ t.b = b
        BY <3>3
      <3>7. [D2 EXCEPT ![a][u] = Number(b)] = [D2 EXCEPT ![a] = [D[a] EXCEPT ![u] = Number(b)]]
        <4>1. D2[a] = D[a]
          BY <2>1, <3>1
        <4> QED BY <4>1
      <3> QED BY <3>1, <3>5, <3>6, <3>7 DEF Disk, FreshEntry
    <2>4. \/ balloc(s) = Disk(U, D, A[i], L, 0)
          \/ \E b \in Block \ U : balloc(s) = Fresh(U, D, A[i], L, b)
      BY <1>0, <2>1, BallocIs, SMT
    <2> QED BY <1>0, <1>3, <2>2, <2>3, <2>4
  <1> QED BY <1>2, <1>3
-----------------------------------------------------------------------------
LogItems == {"data", "bitmap"} \X Nat

\* Disk t is disk U, D, A, L after bmap has looked up place k of inode i: beyond
\* the blocks for the indirect block it has logged the new block, if any.
Mapped(U, D, A, L, i, k, t) ==
    LET A2 == [A EXCEPT ![i] = t.addrs]
    IN  /\ Exact(t.used, t.data, A2) /\ Kept(D, A, t.data, A2)
        /\ t.b # 0 => t.b = At(t.data, A2, i, k)
        /\ At(D, A, i, k) # 0 => t.b = At(D, A, i, k) /\ t.log = L /\ t.addrs = A[i]
        /\ t.log \ ForIndirect(t.addrs[NDIRECT])
             \subseteq (L \ ForIndirect(A[i][NDIRECT])) \cup (IF t.b = 0 THEN {} ELSE {Data(t.b), BBLOCK(t.b)})
        /\ L \subseteq LogItems /\ IsFiniteSet(L) => t.log \subseteq LogItems /\ IsFiniteSet(t.log)

LEMMA LogItemsAre == \A b \in Block : Data(b) \in LogItems /\ BBLOCK(b) \in LogItems
  <1> SUFFICES ASSUME NEW b \in Block PROVE Data(b) \in LogItems /\ BBLOCK(b) \in LogItems
    OBVIOUS
  <1>1. b \in Nat /\ BPB \in Nat /\ BPB > 0
    BY BlocksAssumption, SMT DEF Block
  <1>2. b \div BPB \in Int /\ b \div BPB >= 0
    BY <1>1, SMT
  <1> QED BY <1>1, <1>2, SMT DEF Data, BBLOCK, LogItems

LEMMA MoreFinite ==
    ASSUME NEW L, IsFiniteSet(L), NEW x, NEW y, NEW z
    PROVE  IsFiniteSet(L \cup {x, y}) /\ IsFiniteSet(L \cup {x, y} \cup {z})
  <1>1. IsFiniteSet(L \cup {x}) /\ IsFiniteSet((L \cup {x}) \cup {y}) /\ IsFiniteSet(((L \cup {x}) \cup {y}) \cup {z})
    BY FS_AddElement
  <1>2. (L \cup {x}) \cup {y} = L \cup {x, y} /\ ((L \cup {x}) \cup {y}) \cup {z} = L \cup {x, y} \cup {z}
    OBVIOUS
  <1> QED BY <1>1, <1>2

\* A place that has a block, or gets none.
LEMMA MapsNothing ==
    ASSUME NEW U, NEW D, NEW A, Exact(U, D, A), NEW i \in Inode, NEW k \in Place, NEW L, NEW b,
           b = At(D, A, i, k)
    PROVE  Mapped(U, D, A, L, i, k, Disk(U, D, A[i], L, b))
  <1>1. PICK t : t = Disk(U, D, A[i], L, b)
    OBVIOUS
  <1>2. t.used = U /\ t.data = D /\ t.addrs = A[i] /\ t.log = L /\ t.b = b
    BY <1>1 DEF Disk
  <1>3. [A EXCEPT ![i] = A[i]] = A
    BY DEF Exact, DiskType
  <1>4. Kept(D, A, D, A)
    BY DEF Kept
  <1> QED BY <1>1, <1>2, <1>3, <1>4 DEF Mapped

LEMMA SlotMaps ==
    ASSUME NEW U, NEW D, NEW A, Exact(U, D, A), NEW i \in Inode, NEW k \in Slots, NEW L, NEW x
    PROVE  Mapped(U, D, A, L, i, k, Slot(Disk(U, D, A[i], L, x), k))
  <1>1. k \in Place /\ At(D, A, i, k) = A[i][k]
    BY Widths, SMT DEF At, Slots
  <1>2. CASE Slot(Disk(U, D, A[i], L, x), k) = Disk(U, D, A[i], L, A[i][k])
    BY <1>1, <1>2, MapsNothing
  <1>3. ASSUME NEW b \in Block \ U, A[i][k] = 0
        PROVE  Mapped(U, D, A, L, i, k, FreshSlot(U, D, A[i], L, b, k))
    <2>1. PICK t, D2, A2 : /\ t = FreshSlot(U, D, A[i], L, b, k) /\ D2 = Zeroed(D, b)
                           /\ A2 = WithSlot(A, i, k, b)
      OBVIOUS
    <2>2. /\ t.used = U \cup {b} /\ t.data = D2 /\ t.addrs = [A[i] EXCEPT ![k] = b]
          /\ t.log = L \cup {BBLOCK(b), Data(b)} /\ t.b = b /\ b # 0
      BY <2>1, Widths DEF FreshSlot, Disk, Zeroed
    <2>3. Exact(U \cup {b}, D2, A2) /\ Kept(D, A, D2, A2) /\ At(D2, A2, i, k) = b
      BY <1>3, <2>1, SlotKept, SMT
    <2>4. t.log \ ForIndirect(t.addrs[NDIRECT])
             \subseteq (L \ ForIndirect(A[i][NDIRECT])) \cup {Data(b), BBLOCK(b)}
      <3>1. A[i] \in [Slots -> 0 .. NBlocks]
        BY DEF Exact, DiskType
      <3>2. k # NDIRECT => t.addrs[NDIRECT] = A[i][NDIRECT]
        BY <2>2, <3>1, SMT
      <3>3. k = NDIRECT => ForIndirect(A[i][NDIRECT]) = {}
        BY <1>3 DEF ForIndirect
      <3> QED BY <2>2, <3>2, <3>3
    <2>5. L \subseteq LogItems /\ IsFiniteSet(L) => t.log \subseteq LogItems /\ IsFiniteSet(t.log)
      <3>1. IsFiniteSet(L) => IsFiniteSet(L \cup {BBLOCK(b), Data(b)})
        BY MoreFinite
      <3>2. Data(b) \in LogItems /\ BBLOCK(b) \in LogItems
        BY LogItemsAre
      <3> QED BY <2>2, <3>1, <3>2
    <2>6. [A EXCEPT ![i] = t.addrs] = A2
      BY <2>1, <2>2 DEF WithSlot
    <2>7. Mapped(U, D, A, L, i, k, t)
      BY <1>1, <1>3, <2>2, <2>3, <2>4, <2>5, <2>6 DEF Mapped
    <2> QED BY <2>1, <2>7
  <1>4. \/ Slot(Disk(U, D, A[i], L, x), k) = Disk(U, D, A[i], L, A[i][k])
        \/ A[i][k] = 0 /\ \E b \in Block \ U : Slot(Disk(U, D, A[i], L, x), k) = FreshSlot(U, D, A[i], L, b, k)
    BY SlotIs, SMT
  <1> QED BY <1>2, <1>3, <1>4

LEMMA EntryMaps ==
    ASSUME NEW U, NEW D, NEW A, Exact(U, D, A), NEW i \in Inode, NEW a, a = A[i][NDIRECT], a # 0,
           NEW u \in Units, NEW k, k = NDIRECT + 1 + u, NEW L, NEW x
    PROVE  Mapped(U, D, A, L, i, k, Entry(Disk(U, D, A[i], L, x), a, u))
  <1>1. k \in Place /\ At(D, A, i, k) = D[a][u][2] /\ k # NDIRECT
    <2>1. k \in Place /\ ~(k <= NDIRECT) /\ k - NDIRECT - 1 = u /\ k # NDIRECT
      BY Widths, SMT DEF Units
    <2> QED BY <2>1 DEF At
  <1>2. CASE Entry(Disk(U, D, A[i], L, x), a, u) = Disk(U, D, A[i], L, D[a][u][2])
    BY <1>1, <1>2, MapsNothing
  <1>3. ASSUME NEW b \in Block \ U, D[a][u][2] = 0
        PROVE  Mapped(U, D, A, L, i, k, FreshEntry(U, D, A[i], L, b, a, u))
    <2>1. PICK t, D2 : t = FreshEntry(U, D, A[i], L, b, a, u) /\ D2 = WithEntry(D, a, u, b)
      OBVIOUS
    <2>2. /\ t.used = U \cup {b} /\ t.data = D2 /\ t.addrs = A[i]
          /\ t.log = L \cup {BBLOCK(b), Data(b)} \cup {Data(a)} /\ t.b = b /\ b # 0
      BY <2>1, Widths DEF FreshEntry, Disk, WithEntry
    <2>3. Exact(U \cup {b}, D2, A) /\ Kept(D, A, D2, A) /\ At(D2, A, i, k) = b
      BY <1>3, <2>1, AllocEntry, SMT
    <2>4. t.log \ ForIndirect(t.addrs[NDIRECT])
             \subseteq (L \ ForIndirect(A[i][NDIRECT])) \cup {Data(b), BBLOCK(b)}
      BY <2>2 DEF ForIndirect
    <2>5. L \subseteq LogItems /\ IsFiniteSet(L) => t.log \subseteq LogItems /\ IsFiniteSet(t.log)
      <3>1. IsFiniteSet(L) => IsFiniteSet(L \cup {BBLOCK(b), Data(b)} \cup {Data(a)})
        BY MoreFinite
      <3>2. Data(b) \in LogItems /\ BBLOCK(b) \in LogItems /\ Data(a) \in LogItems
        BY LogItemsAre, IndirectIs
      <3> QED BY <2>2, <3>1, <3>2
    <2>6. [A EXCEPT ![i] = t.addrs] = A
      BY <2>2 DEF Exact, DiskType
    <2>7. Mapped(U, D, A, L, i, k, t)
      BY <1>1, <1>3, <2>2, <2>3, <2>4, <2>5, <2>6 DEF Mapped
    <2> QED BY <2>1, <2>7
  <1>4. \/ Entry(Disk(U, D, A[i], L, x), a, u) = Disk(U, D, A[i], L, D[a][u][2])
        \/ /\ D[a][u][2] = 0
           /\ \E b \in Block \ U : Entry(Disk(U, D, A[i], L, x), a, u) = FreshEntry(U, D, A[i], L, b, a, u)
    BY EntryIs, SMT
  <1> QED BY <1>2, <1>3, <1>4

\* The indirect block is mapped first, then the entry in it.
LEMMA MappedTwice ==
    ASSUME NEW U, NEW D, NEW A, Exact(U, D, A), NEW i \in Inode, NEW k \in Place, ~(k <= NDIRECT), NEW L,
           NEW t, Mapped(U, D, A, L, i, NDIRECT, t), t.b # 0,
           NEW A1, A1 = [A EXCEPT ![i] = t.addrs],
           NEW r, Mapped(t.used, t.data, A1, t.log, i, k, r)
    PROVE  Mapped(U, D, A, L, i, k, r)
  <1>1. A \in [Inode -> [Slots -> 0 .. NBlocks]] /\ NDIRECT \in Place
    BY Widths DEF Exact, DiskType
  <1>2. A1[i] = t.addrs /\ [A1 EXCEPT ![i] = r.addrs] = [A EXCEPT ![i] = r.addrs]
    BY <1>1
  <1>3. PICK A2 : A2 = [A EXCEPT ![i] = r.addrs]
    OBVIOUS
  <1>4. /\ Exact(t.used, t.data, A1) /\ Kept(D, A, t.data, A1) /\ t.b = At(t.data, A1, i, NDIRECT)
        /\ At(D, A, i, NDIRECT) # 0 => t.log = L /\ t.addrs = A[i]
        /\ t.log \ ForIndirect(t.addrs[NDIRECT])
             \subseteq (L \ ForIndirect(A[i][NDIRECT])) \cup {Data(t.b), BBLOCK(t.b)}
        /\ L \subseteq LogItems /\ IsFiniteSet(L) => t.log \subseteq LogItems /\ IsFiniteSet(t.log)
    BY DEF Mapped
  <1>5. /\ Exact(r.used, r.data, A2) /\ Kept(t.data, A1, r.data, A2)
        /\ r.b # 0 => r.b = At(r.data, A2, i, k)
        /\ At(t.data, A1, i, k) # 0 => r.b = At(t.data, A1, i, k) /\ r.log = t.log /\ r.addrs = A1[i]
        /\ r.log \ ForIndirect(r.addrs[NDIRECT])
             \subseteq (t.log \ ForIndirect(A1[i][NDIRECT])) \cup (IF r.b = 0 THEN {} ELSE {Data(r.b), BBLOCK(r.b)})
        /\ t.log \subseteq LogItems /\ IsFiniteSet(t.log) => r.log \subseteq LogItems /\ IsFiniteSet(r.log)
    BY <1>2, <1>3 DEF Mapped
  <1>6. Kept(D, A, r.data, A2)
    BY <1>4, <1>5, KeptTwice, SMT
  <1>7. At(D, A, i, k) # 0 => r.b = At(D, A, i, k) /\ r.log = L /\ r.addrs = A[i]
    <2> SUFFICES ASSUME At(D, A, i, k) # 0 PROVE r.b = At(D, A, i, k) /\ r.log = L /\ r.addrs = A[i]
      OBVIOUS
    <2>1. At(D, A, i, NDIRECT) # 0
      BY Widths, SMT DEF At
    <2>2. At(t.data, A1, i, k) = At(D, A, i, k)
      BY <1>4 DEF Kept
    <2> QED BY <1>2, <1>4, <1>5, <2>1, <2>2
  <1>8. t.log \ ForIndirect(A1[i][NDIRECT]) \subseteq L \ ForIndirect(A[i][NDIRECT])
    <2>0. NDIRECT <= NDIRECT
      BY Widths, SMT
    <2>1. A1[i][NDIRECT] = t.b
      BY <1>4, <2>0 DEF At
    <2>2. ForIndirect(A1[i][NDIRECT]) = {Data(t.b), BBLOCK(t.b)}
      BY <2>1 DEF ForIndirect
    <2> QED BY <1>2, <1>4, <2>2
  <1> QED BY <1>3, <1>4, <1>5, <1>6, <1>7, <1>8 DEF Mapped

LEMMA BmapMaps ==
    ASSUME NEW U, NEW D, NEW A, Exact(U, D, A), NEW i \in Inode, NEW bn \in Nat, bn < MAXFILE, NEW L, NEW x
    PROVE  Mapped(U, D, A, L, i, PlaceOf(bn), bmap(Disk(U, D, A[i], L, x), bn))
  <1>1. PICK s, t : s = Disk(U, D, A[i], L, x) /\ t = Slot(s, NDIRECT)
    OBVIOUS
  <1>2. CASE bn < NDIRECT
    <2>1. bn \in Slots /\ PlaceOf(bn) = bn /\ bmap(s, bn) = Slot(s, bn)
      BY <1>2, Widths, SMT DEF Slots, PlaceOf, bmap
    <2> QED BY <1>1, <2>1, SlotMaps
  <1>3. CASE ~(bn < NDIRECT)
    <2>1. PICK k : k = PlaceOf(bn)
      OBVIOUS
    <2>2. /\ k = bn + 1 /\ k \in Place /\ ~(k <= NDIRECT) /\ bn - NDIRECT \in Units
          /\ k = NDIRECT + 1 + (bn - NDIRECT)
      BY <1>3, <2>1, Widths, SMT DEF PlaceOf, Units
    <2>3. Mapped(U, D, A, L, i, NDIRECT, t)
      BY <1>1, SlotMaps, Widths
    <2>4. bmap(s, bn) = IF t.b = 0 THEN t ELSE Entry(t, t.b, bn - NDIRECT)
      BY <1>1, <1>3 DEF bmap
    <2>5. CASE t.b = 0
      <3>1. At(D, A, i, NDIRECT) = 0
        BY <2>3, <2>5 DEF Mapped
      <3>2. At(D, A, i, k) = 0
        BY <2>2, <3>1, Widths, SMT DEF At
      <3>3. Mapped(U, D, A, L, i, k, t)
        BY <2>3, <2>5, <3>2 DEF Mapped
      <3> QED BY <1>1, <2>1, <2>4, <2>5, <3>3
    <2>6. CASE t.b # 0
      <3>1. PICK A1 : A1 = [A EXCEPT ![i] = t.addrs]
        OBVIOUS
      <3>2. A1[i] = t.addrs
        BY <3>1 DEF Exact, DiskType
      <3>3. Exact(t.used, t.data, A1) /\ t.b = At(t.data, A1, i, NDIRECT)
        BY <2>3, <2>6, <3>1 DEF Mapped
      <3>4. t.b = A1[i][NDIRECT]
        BY <3>3, Widths, SMT DEF At
      <3>5. t = Disk(t.used, t.data, A1[i], t.log, t.b)
        <4>0. \/ t = Disk(U, D, A[i], L, A[i][NDIRECT]) \/ t = Disk(U, D, A[i], L, 0)
              \/ \E b \in Block \ U : t = FreshSlot(U, D, A[i], L, b, NDIRECT)
          BY SMT, <1>1, SlotIs, Widths
        <4>1. \E U1, D1, a1, L1, b1 : t = Disk(U1, D1, a1, L1, b1)
          BY <4>0, Zenon DEF FreshSlot
        <4> QED BY <3>2, <4>1 DEF Disk
      <3>6. Mapped(t.used, t.data, A1, t.log, i, k, Entry(t, t.b, bn - NDIRECT))
        BY <2>2, <2>6, <3>3, <3>4, <3>5, EntryMaps
      <3>7. Mapped(U, D, A, L, i, k, Entry(t, t.b, bn - NDIRECT))
        BY <2>2, <2>3, <2>6, <3>1, <3>6, MappedTwice
      <3> QED BY <1>1, <2>1, <2>4, <2>6, <3>7
    <2> QED BY <2>5, <2>6
  <1> QED BY <1>2, <1>3
-----------------------------------------------------------------------------
\* writei puts data in a block of the file, itrunc takes all blocks away.
WithBlock(D, b, w) == [D EXCEPT ![b] = w]
BlocksOf(D, A, i) == {b \in Block : \E k \in Place : At(D, A, i, k) = b}
Emptied(D, T) == [b \in Block |-> IF b \in T THEN Junk(D[b]) ELSE D[b]]
Without(A, i) == [A EXCEPT ![i] = NoAddrs]

LEMMA WriteExact ==
    ASSUME NEW U, NEW D, NEW A, Exact(U, D, A), NEW i \in Inode, NEW k \in Place, k # NDIRECT, NEW b,
           b = At(D, A, i, k), b # 0, NEW w \in [Units -> Unit], NEW D2, D2 = WithBlock(D, b, w)
    PROVE  /\ Exact(U, D2, A) /\ \A j \in Inode, m \in Place : At(D2, A, j, m) = At(D, A, j, m)
           /\ D2[b] = w /\ \A d \in Block : d # b => D2[d] = D[d]
  <1>1. /\ D \in [Block -> [Units -> Unit]] /\ A \in [Inode -> [Slots -> 0 .. NBlocks]] /\ U \subseteq Block
        /\ b \in Block
    BY AtIs DEF Exact, DiskType
  <1>2. D2 \in [Block -> [Units -> Unit]] /\ D2[b] = w /\ \A d \in Block : d # b => D2[d] = D[d]
    BY <1>1 DEF WithBlock
  <1>3. \A j \in Inode : A[j][NDIRECT] # 0 => D2[A[j][NDIRECT]] = D[A[j][NDIRECT]]
    <2> SUFFICES ASSUME NEW j \in Inode, A[j][NDIRECT] # 0 PROVE D2[A[j][NDIRECT]] = D[A[j][NDIRECT]]
      OBVIOUS
    <2>1. A[j][NDIRECT] = At(D, A, j, NDIRECT) /\ NDIRECT \in Place /\ A[j][NDIRECT] \in Block
      BY IndirectIs, Widths
    <2>2. A[j][NDIRECT] # b
      BY <2>1, SMT DEF Exact
    <2> QED BY <1>2, <2>1, <2>2
  <1>4. \A j \in Inode, m \in Place : At(D2, A, j, m) = At(D, A, j, m)
    BY <1>3 DEF At
  <1>5. Indirects(D2, A)
    BY <1>3 DEF Exact, Indirects
  <1>6. DiskType(U, D2, A)
    BY <1>1, <1>2 DEF DiskType
  <1>7. /\ \A j \in Inode, m \in Place : At(D2, A, j, m) # 0 => At(D2, A, j, m) \in U
        /\ \A d \in U : \E j \in Inode, m \in Place : At(D2, A, j, m) = d
        /\ \A j, l \in Inode : \A m, n \in Place :
               At(D2, A, j, m) = At(D2, A, l, n) /\ At(D2, A, j, m) # 0 => j = l /\ m = n
    <2>1. /\ \A j \in Inode, m \in Place : At(D, A, j, m) # 0 => At(D, A, j, m) \in U
          /\ \A d \in U : \E j \in Inode, m \in Place : At(D, A, j, m) = d
          /\ \A j, l \in Inode : \A m, n \in Place :
                 At(D, A, j, m) = At(D, A, l, n) /\ At(D, A, j, m) # 0 => j = l /\ m = n
      BY DEF Exact
    <2>2. \A j \in Inode, m \in Place : At(D2, A, j, m) # 0 => At(D2, A, j, m) \in U
      BY <1>4, <2>1, SMT
    <2>3. \A d \in U : \E j \in Inode, m \in Place : At(D2, A, j, m) = d
      BY <1>4, <2>1, SMT
    <2>4. ASSUME NEW j \in Inode, NEW l \in Inode, NEW m \in Place, NEW n \in Place,
                 At(D2, A, j, m) = At(D2, A, l, n), At(D2, A, j, m) # 0
          PROVE  j = l /\ m = n
      BY <1>4, <2>1, <2>4, SMT
    <2> QED BY <2>2, <2>3, <2>4, SMT
  <1>8. Exact(U, D2, A)
    BY <1>5, <1>6, <1>7 DEF Exact
  <1> QED BY <1>2, <1>4, <1>8

\* Contents d of a block, after n units from unit u on were written, for
\* offset o of inode i.
WrittenTo(d, i, o, u, n) == [v \in Units |-> IF v \in u .. u + n - 1 THEN <<i, o - u + v>> ELSE d[v]]

LEMMA WrittenIs ==
    ASSUME NEW d \in [Units -> Unit], NEW i \in Inode, NEW o \in Nat, NEW u \in Units, u <= o, NEW n \in Nat
    PROVE  WrittenTo(d, i, o, u, n) \in [Units -> Unit]
  <1> SUFFICES ASSUME NEW v \in Units
               PROVE  (IF v \in u .. u + n - 1 THEN <<i, o - u + v>> ELSE d[v]) \in Unit
    BY DEF WrittenTo
  <1>1. o - u + v \in Nat
    BY Widths, SMT DEF Units
  <1> QED BY <1>1 DEF Unit

\* Block b, for block q of inode i, was written.
OneWritten(D, A, D2, i, q, b, w) ==
    /\ q < MAXFILE /\ b = At(D, A, i, PlaceOf(q)) /\ b # 0 /\ w \in [Units -> Unit]
    /\ D2 = WithBlock(D, b, w)

LEMMA OneWrittenIs ==
    ASSUME NEW U, NEW D, NEW A, Exact(U, D, A), NEW i \in Inode, NEW q \in Nat, NEW b, NEW w, NEW D2,
           OneWritten(D, A, D2, i, q, b, w)
    PROVE  /\ Exact(U, D2, A) /\ \A j \in Inode, m \in Place : At(D2, A, j, m) = At(D, A, j, m)
           /\ D2[b] = w /\ \A d \in Block : d # b => D2[d] = D[d]
  <1>1. PlaceOf(q) \in Place /\ PlaceOf(q) # NDIRECT
    BY PlaceOfIs DEF OneWritten
  <1> QED BY <1>1, WriteExact, SMT DEF OneWritten

\* Offset o is unit u of block q of a file.
Splits(o, q, u) == o = q * BSIZE + u

LEMMA ReadsOne ==
    ASSUME NEW U, NEW D, NEW A, Exact(U, D, A), NEW i \in Inode, NEW o \in Nat,
           NEW q \in Nat, NEW u \in Units, Splits(o, q, u), NEW n \in Nat, NEW b, NEW w, NEW D2,
           OneWritten(D, A, D2, i, q, b, w), w = WrittenTo(D[b], i, o, u, n),
           NEW j \in Inode, NEW x \in Nat, ReadsAt(D, A, j, x)
    PROVE  ReadsAt(D2, A, j, x)
  <1>1. PICK y \in Nat, v \in Units : y = x \div BSIZE /\ v = x % BSIZE /\ x = y * BSIZE + v
    BY DivMod
  <1>2. PICK d : d = At(D, A, j, PlaceOf(y))
    OBVIOUS
  <1>3. y < MAXFILE /\ d # 0 /\ D[d][v] = <<j, x>>
    BY <1>1, <1>2 DEF ReadsAt
  <1>4. PlaceOf(y) \in Place /\ PlaceOf(q) \in Place /\ q < MAXFILE /\ d \in Block
    BY <1>2, <1>3, PlaceOfIs, AtIs DEF OneWritten
  <1>5. D2[b] = w /\ (d # b => D2[d] = D[d]) /\ At(D2, A, j, PlaceOf(y)) = d
    BY <1>2, <1>4, OneWrittenIs, SMT
  <1>6. D2[d][v] = <<j, x>>
    <2>1. CASE d # b
      BY <1>3, <1>5, <2>1
    <2>2. CASE d = b
      <3>1. i = j /\ PlaceOf(y) = PlaceOf(q)
        <4>1. At(D, A, i, PlaceOf(q)) = At(D, A, j, PlaceOf(y)) /\ At(D, A, i, PlaceOf(q)) # 0
          BY <1>2, <1>3, <2>2 DEF OneWritten
        <4> QED BY <1>4, <4>1, SMT DEF Exact
      <3>2. y = q
        BY <3>1, Widths, SMT DEF PlaceOf
      <3>3. q * BSIZE \in Nat /\ u \in Nat /\ v \in Nat
        BY TimesMono, Widths, SMT DEF Units
      <3>4. o - u + v = x
        BY <1>1, <3>2, <3>3, SMT DEF Splits
      <3>5. w[v] = <<j, x>>
        BY <1>3, <2>2, <3>1, <3>4 DEF WrittenTo
      <3> QED BY <1>5, <2>2, <3>5
    <2> QED BY <2>1, <2>2
  <1> QED BY <1>1, <1>3, <1>5, <1>6 DEF ReadsAt

LEMMA ReadsNew ==
    ASSUME NEW U, NEW D, NEW A, Exact(U, D, A), NEW i \in Inode, NEW o \in Nat,
           NEW q \in Nat, NEW u \in Units, Splits(o, q, u), NEW n \in Nat, u + n <= BSIZE, NEW b, NEW w, NEW D2,
           OneWritten(D, A, D2, i, q, b, w), w = WrittenTo(D[b], i, o, u, n),
           NEW x \in Nat, o <= x, x < o + n
    PROVE  ReadsAt(D2, A, i, x)
  <1>1. q * BSIZE \in Nat /\ u \in Nat
    BY TimesMono, Widths, SMT DEF Units
  <1>2. PICK v : v = u + (x - o)
    OBVIOUS
  <1>3. v \in Units /\ x = q * BSIZE + v /\ v \in u .. u + n - 1 /\ o - u + v = x
    BY <1>1, <1>2, Widths, SMT DEF Units, Splits
  <1>4. x \div BSIZE = q /\ x % BSIZE = v
    BY <1>3, DivUnique
  <1>5. w[v] = <<i, x>>
    BY <1>3 DEF WrittenTo
  <1>6. q < MAXFILE /\ b # 0 /\ b = At(D, A, i, PlaceOf(q)) /\ PlaceOf(q) \in Place
    BY PlaceOfIs DEF OneWritten
  <1>7. D2[b] = w /\ At(D2, A, i, PlaceOf(q)) = b
    BY <1>6, OneWrittenIs, SMT
  <1> QED BY <1>4, <1>5, <1>6, <1>7 DEF ReadsAt

CopiedTo(U, D, A, D2, i, o, q, u, n, b) ==
    /\ Exact(U, D, A) /\ Splits(o, q, u) /\ u + n <= BSIZE
    /\ OneWritten(D, A, D2, i, q, b, WrittenTo(D[b], i, o, u, n))

LEMMA ReadsWritten ==
    ASSUME NEW U, NEW D, NEW A, NEW D2, NEW i \in Inode, NEW o \in Nat, NEW q \in Nat, NEW u \in Units, NEW n \in Nat,
           NEW b, CopiedTo(U, D, A, D2, i, o, q, u, n, b)
    PROVE  /\ \A j \in Inode, e \in Nat : Reads(D, A, j, e) => Reads(D2, A, j, e)
           /\ Reads(D, A, i, o) => Reads(D2, A, i, o + n)
  <1>0. PICK w : w = WrittenTo(D[b], i, o, u, n)
    OBVIOUS
  <1>. Exact(U, D, A) /\ Splits(o, q, u) /\ u + n <= BSIZE /\ OneWritten(D, A, D2, i, q, b, w)
    BY <1>0 DEF CopiedTo
  <1>1. ASSUME NEW j \in Inode, NEW e \in Nat, Reads(D, A, j, e) PROVE Reads(D2, A, j, e)
    <2>1. \A x \in 0 .. e - 1 : x \in Nat /\ ReadsAt(D, A, j, x)
      BY <1>1, SMT DEF Reads
    <2>2. \A x \in 0 .. e - 1 : ReadsAt(D2, A, j, x)
      BY <1>0, <2>1, ReadsOne, SMT
    <2> QED BY <2>2 DEF Reads
  <1>2. ASSUME Reads(D, A, i, o) PROVE Reads(D2, A, i, o + n)
    <2>1. ASSUME NEW x \in 0 .. o + n - 1 PROVE ReadsAt(D2, A, i, x)
      <3>1. x \in Nat /\ (x \in 0 .. o - 1 \/ (o <= x /\ x < o + n))
        BY SMT
      <3>2. CASE x \in 0 .. o - 1
        <4>1. ReadsAt(D, A, i, x)
          BY <1>2, <3>2 DEF Reads
        <4> QED BY <1>0, <3>1, <4>1, ReadsOne, SMT
      <3>3. CASE o <= x /\ x < o + n
        BY <1>0, <3>1, <3>3, ReadsNew
      <3> QED BY <3>1, <3>2, <3>3
    <2> QED BY <2>1, SMT DEF Reads
  <1> QED BY <1>1, <1>2
-----------------------------------------------------------------------------
LEMMA NoPlaces == \A k \in Slots : NoAddrs[k] = 0
  BY DEF NoAddrs, Slots

\* itrunc takes the blocks of inode i away.
LEMMA TruncExact ==
    ASSUME NEW U, NEW D, NEW A, Exact(U, D, A), NEW i \in Inode,
           NEW T, T = BlocksOf(D, A, i),
           NEW D2, D2 = Emptied(D, T), NEW A2, A2 = Without(A, i)
    PROVE  /\ Exact(U \ T, D2, A2)
           /\ \A j \in Inode, e \in Nat : j # i /\ Reads(D, A, j, e) => Reads(D2, A2, j, e)
  <1>1. /\ D \in [Block -> [Units -> Unit]] /\ A \in [Inode -> [Slots -> 0 .. NBlocks]] /\ U \subseteq Block
        /\ Indirects(D, A) /\ NDIRECT \in Slots /\ NDIRECT \in Place /\ Slots \subseteq Place
    BY Widths DEF Exact, DiskType
  <1>2. D2 \in [Block -> [Units -> Unit]]
    <2>1. ASSUME NEW b \in Block PROVE Junk(D[b]) \in [Units -> Unit]
      <3>1. ASSUME NEW u \in Units PROVE (IF D[b][u][1] = Null THEN D[b][u] ELSE Number(0)) \in Unit
        <4>1. Number(0) \in Unit
          BY Widths, SMT DEF Unit, Number
        <4> QED BY <1>1, <4>1
      <3> QED BY <3>1 DEF Junk, Units
    <2> QED BY <1>1, <2>1 DEF Emptied
  <1>3. A2 \in [Inode -> [Slots -> 0 .. NBlocks]] /\ A2[i] = NoAddrs /\ \A j \in Inode \ {i} : A2[j] = A[j]
    <2>1. NoAddrs \in [Slots -> 0 .. NBlocks]
      BY Widths, SMT DEF NoAddrs, Slots
    <2> QED BY <1>1, <2>1 DEF Without
  <1>4. \A j \in Inode \ {i}, k \in Place : At(D, A, j, k) \notin T
    <2> SUFFICES ASSUME NEW j \in Inode \ {i}, NEW k \in Place, At(D, A, j, k) \in T PROVE FALSE
      OBVIOUS
    <2>1. PICK m \in Place : At(D, A, i, m) = At(D, A, j, k) /\ At(D, A, j, k) \in Block
      BY DEF BlocksOf
    <2>2. At(D, A, i, m) # 0
      BY <2>1, Widths
    <2> QED BY <2>1, <2>2, SMT DEF Exact
  <1>5. \A j \in Inode \ {i}, k \in Place : At(D2, A2, j, k) = At(D, A, j, k)
    <2> SUFFICES ASSUME NEW j \in Inode \ {i}, NEW k \in Place PROVE At(D2, A2, j, k) = At(D, A, j, k)
      OBVIOUS
    <2>1. A2[j] = A[j]
      BY <1>3
    <2>2. A[j][NDIRECT] # 0 => D2[A[j][NDIRECT]] = D[A[j][NDIRECT]]
      <3> SUFFICES ASSUME A[j][NDIRECT] # 0 PROVE D2[A[j][NDIRECT]] = D[A[j][NDIRECT]]
        OBVIOUS
      <3>1. A[j][NDIRECT] \in Block /\ A[j][NDIRECT] = At(D, A, j, NDIRECT)
        BY IndirectIs
      <3> QED BY <1>1, <1>4, <3>1 DEF Emptied
    <2> QED BY <2>1, <2>2 DEF At
  <1>6. \A k \in Place : At(D2, A2, i, k) = 0
    <2> SUFFICES ASSUME NEW k \in Place PROVE At(D2, A2, i, k) = 0
      OBVIOUS
    <2>1. A2[i][NDIRECT] = 0 /\ (k <= NDIRECT => A2[i][k] = 0)
      BY <1>1, <1>3, NoPlaces, Widths, SMT DEF Slots
    <2> QED BY <2>1 DEF At
  <1>7. Indirects(D2, A2)
    <2> SUFFICES ASSUME NEW j \in Inode, A2[j][NDIRECT] # 0, NEW u \in Units
                 PROVE  D2[A2[j][NDIRECT]][u] \in {Null} \X (0 .. NBlocks)
      BY DEF Indirects
    <2>1. j # i
      BY <1>1, <1>3, NoPlaces
    <2>2. A2[j] = A[j] /\ A[j][NDIRECT] \in Block /\ A[j][NDIRECT] = At(D, A, j, NDIRECT)
      BY <1>3, <2>1, IndirectIs
    <2>3. D2[A[j][NDIRECT]] = D[A[j][NDIRECT]]
      BY <1>1, <1>4, <2>1, <2>2 DEF Emptied
    <2> QED BY <1>1, <2>2, <2>3 DEF Indirects
  <1>8. Exact(U \ T, D2, A2)
    <2>1. DiskType(U \ T, D2, A2)
      BY <1>1, <1>2, <1>3 DEF DiskType
    <2>2. ASSUME NEW j \in Inode, NEW k \in Place, At(D2, A2, j, k) # 0 PROVE At(D2, A2, j, k) \in U \ T
      <3>1. j # i
        BY <1>6, <2>2
      <3> QED BY <1>4, <1>5, <2>2, <3>1, SMT DEF Exact
    <2>3. ASSUME NEW b \in U \ T PROVE \E j \in Inode, k \in Place : At(D2, A2, j, k) = b
      <3>1. PICK j \in Inode, k \in Place : At(D, A, j, k) = b
        BY DEF Exact
      <3>2. j # i
        BY <1>1, <3>1 DEF BlocksOf
      <3> QED BY <1>5, <3>1, <3>2
    <2>4. ASSUME NEW j \in Inode, NEW l \in Inode, NEW k \in Place, NEW m \in Place,
                 At(D2, A2, j, k) = At(D2, A2, l, m), At(D2, A2, j, k) # 0
          PROVE  j = l /\ k = m
      <3>1. j # i /\ l # i
        BY <1>6, <2>4
      <3>2. At(D, A, j, k) = At(D, A, l, m) /\ At(D, A, j, k) # 0
        BY <1>5, <2>4, <3>1
      <3> QED BY <3>2, SMT DEF Exact
    <2>5. /\ \A j \in Inode, k \in Place : At(D2, A2, j, k) # 0 => At(D2, A2, j, k) \in U \ T
          /\ \A b \in U \ T : \E j \in Inode, k \in Place : At(D2, A2, j, k) = b
      BY <2>2, <2>3
    <2>6. \A j, l \in Inode : \A k, m \in Place :
              At(D2, A2, j, k) = At(D2, A2, l, m) /\ At(D2, A2, j, k) # 0 => j = l /\ k = m
      BY <2>4, SMT
    <2>7. ASSUME NEW V, DiskType(V, D2, A2),
                 \A j \in Inode, k \in Place : At(D2, A2, j, k) # 0 => At(D2, A2, j, k) \in V,
                 \A b \in V : \E j \in Inode, k \in Place : At(D2, A2, j, k) = b
          PROVE  Exact(V, D2, A2)
      BY <1>7, <2>6, <2>7 DEF Exact
    <2> QED BY <2>1, <2>5, <2>7
  <1>9. ASSUME NEW j \in Inode, NEW e \in Nat, j # i, Reads(D, A, j, e) PROVE Reads(D2, A2, j, e)
    <2> SUFFICES ASSUME NEW x \in 0 .. e - 1 PROVE ReadsAt(D2, A2, j, x)
      BY DEF Reads
    <2>1. PICK y \in Nat : y = x \div BSIZE
      BY SMT, DivMod
    <2>2. PICK b : b = At(D, A, j, PlaceOf(y))
      OBVIOUS
    <2>3. y < MAXFILE /\ b # 0 /\ D[b][x % BSIZE] = <<j, x>>
      BY <1>9, <2>1, <2>2 DEF Reads, ReadsAt
    <2>4. PlaceOf(y) \in Place /\ b \in Block
      BY <2>2, <2>3, PlaceOfIs, AtIs
    <2>5. At(D2, A2, j, PlaceOf(y)) = b /\ D2[b] = D[b]
      BY <1>1, <1>4, <1>5, <1>9, <2>2, <2>4 DEF Emptied
    <2> QED BY <2>1, <2>3, <2>5 DEF ReadsAt
  <1> QED BY <1>8, <1>9
-----------------------------------------------------------------------------
(* One round of writei's loop: block q of inode i is mapped, and n units are  *)
(* copied to it.                                                             *)
RoundData(s, i, o, u, n) ==
    IF s.b = 0 THEN s.data ELSE WithBlock(s.data, s.b, WrittenTo(s.data[s.b], i, o, u, n))
WithAddrs(A, i, s) == [A EXCEPT ![i] = s.addrs]
RoundLogged(s) == s.log \cup {Data(b) : b \in {s.b} \ {0}}

RoundTo(U, D, A, L, i, o, q, u, n, s, D2, A2) ==
    /\ Exact(U, D, A) /\ q < MAXFILE /\ Splits(o, q, u) /\ u + n <= BSIZE /\ Mapped(U, D, A, L, i, PlaceOf(q), s)
    /\ A2 = WithAddrs(A, i, s) /\ D2 = RoundData(s, i, o, u, n)
RoundDone(D, A, i, o, n, s, D2, A2) ==
    /\ Exact(s.used, D2, A2)
    /\ \A j \in Inode, e \in Nat : Reads(D, A, j, e) => Reads(D2, A2, j, e)
    /\ s.b # 0 /\ Reads(D, A, i, o) => Reads(D2, A2, i, o + n)

LEMMA RoundDisk ==
    ASSUME NEW U, NEW D, NEW A, NEW L, NEW i \in Inode, NEW o \in Nat, NEW q \in Nat, NEW u \in Units, NEW n \in Nat,
           NEW s, NEW D2, NEW A2, RoundTo(U, D, A, L, i, o, q, u, n, s, D2, A2)
    PROVE  RoundDone(D, A, i, o, n, s, D2, A2)
  <1>. /\ Exact(U, D, A) /\ q < MAXFILE /\ Splits(o, q, u) /\ u + n <= BSIZE /\ Mapped(U, D, A, L, i, PlaceOf(q), s)
       /\ A2 = WithAddrs(A, i, s) /\ D2 = RoundData(s, i, o, u, n)
    BY DEF RoundTo
  <1>1. /\ Exact(s.used, s.data, A2) /\ Kept(D, A, s.data, A2)
        /\ s.b # 0 => s.b = At(s.data, A2, i, PlaceOf(q))
    BY DEF Mapped, WithAddrs
  <1>2. \A j \in Inode, e \in Nat : Reads(D, A, j, e) => Reads(s.data, A2, j, e)
    BY <1>1, ReadsKept
  <1>3. CASE s.b = 0
    BY <1>1, <1>2, <1>3 DEF RoundData, RoundDone
  <1>4. CASE s.b # 0
    <2>1. PICK b, d, w : b = s.b /\ d = s.data /\ w = WrittenTo(d[b], i, o, u, n)
      OBVIOUS
    <2>2. PlaceOf(q) \in Place /\ q * BSIZE \in Nat /\ u \in Nat
      BY PlaceOfIs, TimesMono, Widths, SMT DEF Units
    <2>3. b \in Block
      BY <1>1, <1>4, <2>1, <2>2, AtIs
    <2>4. d[b] \in [Units -> Unit] /\ u <= o
      BY <1>1, <2>1, <2>2, <2>3, SMT DEF Exact, DiskType, Splits
    <2>5. w \in [Units -> Unit]
      BY <2>1, <2>4, WrittenIs
    <2>6. D2 = WithBlock(d, b, w)
      BY <1>4, <2>1 DEF RoundData
    <2>7. OneWritten(d, A2, D2, i, q, b, w) /\ Exact(s.used, d, A2)
      BY <1>1, <1>4, <2>1, <2>5, <2>6 DEF OneWritten
    <2>8. Exact(s.used, D2, A2)
      BY <2>7, OneWrittenIs
    <2>9. /\ \A j \in Inode, e \in Nat : Reads(d, A2, j, e) => Reads(D2, A2, j, e)
          /\ Reads(d, A2, i, o) => Reads(D2, A2, i, o + n)
      <3>1. CopiedTo(s.used, d, A2, D2, i, o, q, u, n, b)
        BY <2>1, <2>7 DEF CopiedTo
      <3> QED BY <3>1, ReadsWritten, SMT
    <2> QED BY <1>2, <2>1, <2>8, <2>9 DEF RoundDone
  <1> QED BY <1>3, <1>4

LEMMA AddTwo ==
    ASSUME NEW S, IsFiniteSet(S), NEW x, NEW y, NEW T, T = S \cup {x, y}
    PROVE  IsFiniteSet(T) /\ Cardinality(T) \in Nat /\ Cardinality(S) \in Nat /\ Cardinality(T) <= Cardinality(S) + 2
  <1>1. PICK W, V : W = S \cup {x} /\ V = W \cup {y}
    OBVIOUS
  <1>2. IsFiniteSet(W) /\ Cardinality(S) \in Nat /\ Cardinality(W) <= Cardinality(S) + 1
    <2>1. IsFiniteSet(W) /\ (Cardinality(W) = Cardinality(S) \/ Cardinality(W) = Cardinality(S) + 1)
      BY <1>1, FS_AddElement
    <2>2. Cardinality(S) \in Nat
      BY FS_CardinalityType
    <2> QED BY <2>1, <2>2, SMT
  <1>3. IsFiniteSet(V) /\ Cardinality(W) \in Nat /\ Cardinality(V) \in Nat /\ Cardinality(V) <= Cardinality(W) + 1
    <2>1. IsFiniteSet(V) /\ (Cardinality(V) = Cardinality(W) \/ Cardinality(V) = Cardinality(W) + 1)
      BY <1>1, <1>2, FS_AddElement
    <2>2. Cardinality(W) \in Nat
      BY <1>2, FS_CardinalityType
    <2> QED BY <2>1, <2>2, SMT
  <1>4. IsFiniteSet(T) /\ Cardinality(T) = Cardinality(V)
    <2>1. T = V
      BY <1>1
    <2> QED BY <1>3, <2>1
  <1> QED BY <1>2, <1>3, <1>4, SMT

LogGrows(D, A, L, i, k, s, E, E2) ==
    /\ RoundLogged(s) \subseteq LogItems /\ IsFiniteSet(RoundLogged(s))
    /\ Cardinality(E) \in Nat /\ Cardinality(E2) \in Nat /\ Cardinality(E2) <= Cardinality(E) + 2
    /\ L = {} /\ At(D, A, i, k) # 0 => Cardinality(E2) <= 1

LEMMA RoundLog ==
    ASSUME NEW U, NEW D, NEW A, NEW L, L \subseteq LogItems, IsFiniteSet(L), NEW i, NEW k, NEW s,
           Mapped(U, D, A, L, i, k, s), s.b \in 0 .. NBlocks,
           NEW E, E = Other(L, A[i][NDIRECT]),
           NEW E2, E2 = Other(RoundLogged(s), s.addrs[NDIRECT])
    PROVE  LogGrows(D, A, L, i, k, s, E, E2)
  <1>1. /\ s.log \subseteq LogItems /\ IsFiniteSet(s.log)
        /\ s.log \ ForIndirect(s.addrs[NDIRECT]) \subseteq E \cup (IF s.b = 0 THEN {} ELSE {Data(s.b), BBLOCK(s.b)})
        /\ At(D, A, i, k) # 0 => s.log = L
    BY DEF Mapped, Other
  <1>2. PICK d : d = {Data(b) : b \in {s.b} \ {0}}
    OBVIOUS
  <1>3. IF s.b = 0 THEN d = {} ELSE d = {Data(s.b)} /\ Data(s.b) \in LogItems
    <2>1. CASE s.b = 0
      BY <1>2, <2>1
    <2>2. CASE s.b # 0
      <3>1. s.b \in Block
        BY <2>2, Widths, SMT DEF Block
      <3> QED BY <1>2, <2>2, <3>1, LogItemsAre
    <2> QED BY <2>1, <2>2
  <1>4. RoundLogged(s) = s.log \cup d
    BY <1>2 DEF RoundLogged
  <1>5. IsFiniteSet(d) /\ d \subseteq {Data(s.b)}
    BY <1>3, FS_EmptySet, FS_Singleton
  <1>6. RoundLogged(s) \subseteq LogItems /\ IsFiniteSet(RoundLogged(s))
    <2>1. IsFiniteSet(s.log \cup d)
      BY <1>1, <1>5, FS_Union
    <2>2. d \subseteq LogItems
      BY <1>3
    <2> QED BY <1>1, <1>4, <2>1, <2>2
  <1>7. IsFiniteSet(E)
    BY FS_Subset DEF Other
  <1>8. E2 \subseteq E \cup {Data(s.b), BBLOCK(s.b)}
    BY <1>1, <1>4, <1>5 DEF Other
  <1>9. L = {} /\ At(D, A, i, k) # 0 => Cardinality(E2) <= 1
    <2> SUFFICES ASSUME L = {}, At(D, A, i, k) # 0 PROVE Cardinality(E2) <= 1
      OBVIOUS
    <2>1. E2 \subseteq {Data(s.b)}
      BY <1>1, <1>4, <1>5 DEF Other
    <2>2. PICK V : V = {Data(s.b)}
      OBVIOUS
    <2>3. IsFiniteSet(V) /\ Cardinality(V) = 1
      BY <2>2, FS_Singleton
    <2>4. Cardinality(E2) <= Cardinality(V)
      BY <2>1, <2>2, <2>3, FS_Subset
    <2> QED BY <2>3, <2>4
  <1>10. Cardinality(E) \in Nat /\ Cardinality(E2) \in Nat /\ Cardinality(E2) <= Cardinality(E) + 2
    <2>1. PICK S, T : S = E /\ T = S \cup {Data(s.b), BBLOCK(s.b)}
      OBVIOUS
    <2>2. IsFiniteSet(T) /\ Cardinality(T) \in Nat /\ Cardinality(S) \in Nat /\ Cardinality(T) <= Cardinality(S) + 2
      BY <1>7, <2>1, AddTwo
    <2>3. E2 \subseteq T
      BY <1>8, <2>1
    <2>4. IsFiniteSet(E2) /\ Cardinality(E2) <= Cardinality(T)
      BY <2>2, <2>3, FS_Subset
    <2>5. Cardinality(E2) \in Nat
      BY <2>4, FS_CardinalityType
    <2>6. Cardinality(E) = Cardinality(S)
      BY <2>1
    <2> QED BY <2>2, <2>4, <2>5, <2>6, SMT
  <1> QED BY <1>6, <1>9, <1>10 DEF LogGrows

\* A process that is not in the step keeps its call.
ReadsStay(D, A, D2, A2, i) == \A e \in Nat : Reads(D, A, i, e) => Reads(D2, A2, i, e)

LEMMA CallKept ==
    ASSUME NEW p, NEW c \in Calls, NEW D, NEW A, NEW z, NEW l, NEW g \in Nat, CallOK(p, c, D, A, z, l, g), Writing(c),
           NEW D2, NEW A2, NEW i, i = IpOf[c.f], A2[i] = A[i], ReadsStay(D, A, D2, A2, i)
    PROVE  CallOK(p, c, D2, A2, z, l, g)
  <1>1. g + c.tot \in Nat
    BY SMT DEF Calls
  <1>2. Extra(c, A2) = Extra(c, A)
    BY DEF Extra
  <1>3. InWritei(p, c, D2, A2, z, l, g)
    <2>1. InWritei(p, c, D, A, z, l, g)
      BY DEF CallOK
    <2> QED BY <1>1, <1>2, <2>1 DEF InWritei, ReadsStay
  <1>4. c.pc = "loop" /\ c.tot < c.n1 => InLoop(c, A2, g)
    BY <1>2 DEF CallOK, InLoop
  <1> QED BY <1>3, <1>4 DEF CallOK
-----------------------------------------------------------------------------
LEMMA Constants ==
    /\ Null \notin Inode /\ Null \notin File /\ Null \notin Proc /\ IpOf \in [File -> Inode]
    /\ Room \in Nat /\ 2 * Room + 4 <= MAXOPBLOCKS /\ WriteMax = Room * BSIZE /\ Room * BSIZE \in Nat
  <1>1. MAXOPBLOCKS \in Nat /\ MAXOPBLOCKS >= 4
    BY BlocksAssumption
  <1>2. Room \in Nat /\ 2 * Room + 4 <= MAXOPBLOCKS
    BY <1>1, SMT DEF Room
  <1>3. WriteMax = Room * BSIZE /\ Room * BSIZE \in Nat
    BY <1>2, TimesMono DEF WriteMax, Room
  <1> QED BY <1>2, <1>3, BlocksAssumption

LEMMA GreatestOf == ASSUME NEW x \in Nat, NEW y \in Nat PROVE Max({x, y}) \in {x, y} /\ x <= Max({x, y}) /\ y <= Max({x, y})
  BY SMT DEF Max

LEMMA LeastOfTwo ==
    ASSUME NEW x \in Nat, NEW y \in Nat
    PROVE  Min({x, y}) \in {x, y} /\ Min({x, y}) <= x /\ Min({x, y}) <= y
  BY LeastOf

LEMMA ReadsLess ==
    ASSUME NEW D, NEW A, NEW i, NEW d \in Nat, NEW e \in Nat, d <= e, Reads(D, A, i, e)
    PROVE  Reads(D, A, i, d)
  BY SMT DEF Reads

LEMMA AddrsAre ==
    ASSUME BlocksInv
    PROVE  /\ \A i \in Inode : Addrs[i] = ino[i].addrs /\ ino[i].size \in Nat
           /\ \A p \in Proc : wr[p] \in Calls /\ CallInv(p) /\ (wr[p].pc # "idle" => wr[p].f \in File /\ IpOf[wr[p].f] \in Inode)
           /\ \A f \in File : off[f] \in Nat
           /\ Exact(used, data, Addrs) /\ \A i \in Inode : Reads(data, Addrs, i, ino[i].size)
  <1>1. BlocksType /\ \A p \in Proc : CallInv(p)
    BY DEF BlocksInv
  <1>2. \A i \in Inode : Addrs[i] = ino[i].addrs /\ ino[i].size \in Nat
    BY <1>1 DEF BlocksType, Addrs
  <1>3. \A p \in Proc : wr[p] \in Calls
    BY <1>1 DEF BlocksType
  <1>4. \A p \in Proc : wr[p].pc # "idle" => wr[p].f \in File
    BY <1>1 DEF CallInv, CallOK
  <1> QED BY <1>1, <1>2, <1>3, <1>4, Constants DEF BlocksInv, BlocksType

\* Whoever is in writei has the lock.
LEMMA WriterHasLock ==
    ASSUME BlocksInv, NEW p \in Proc, Writing(wr[p])
    PROVE  wr[p].f \in File /\ IpOf[wr[p].f] \in Inode /\ ino[IpOf[wr[p].f]].lock = p /\ p # Null
  <1>1. wr[p].pc # "idle"
    BY DEF Writing
  <1>2. ino[IpOf[wr[p].f]].lock = p
    BY AddrsAre DEF CallInv, CallOK, InWritei
  <1> QED BY <1>1, <1>2, AddrsAre, Constants

\* A process whose call does not change, and whose inode, if it is in writei,
\* stays as it is.
LEMMA OthersKept ==
    ASSUME BlocksInv, NEW p \in Proc, wr'[p] = wr[p],
           Writing(wr[p]) => /\ ino'[IpOf[wr[p].f]] = ino[IpOf[wr[p].f]] /\ off'[wr[p].f] = off[wr[p].f]
                             /\ \A e \in Nat : Reads(data, Addrs, IpOf[wr[p].f], e)
                                               => Reads(data', Addrs', IpOf[wr[p].f], e)
    PROVE  CallInv(p)'
  <1>1. PICK c, i, z, l, g, z2, l2, g2 :
           /\ c = wr[p] /\ i = IpOf[c.f] /\ z = ino[i].size /\ l = ino[i].lock /\ g = off[c.f]
           /\ z2 = ino'[i].size /\ l2 = ino'[i].lock /\ g2 = off'[c.f]
    OBVIOUS
  <1>2. c \in Calls /\ CallOK(p, c, data, Addrs, z, l, g)
    BY <1>1, AddrsAre DEF CallInv
  <1>3. CallOK(p, c, data', Addrs', z2, l2, g2)
    <2>1. CASE ~Writing(c)
      BY <1>2, <2>1 DEF CallOK, Writing
    <2>2. CASE Writing(c)
      <3>1. g \in Nat /\ i \in Inode
        BY <1>1, <2>2, AddrsAre, WriterHasLock
      <3>2. z2 = z /\ l2 = l /\ g2 = g
        BY <1>1, <2>2
      <3>3. Addrs'[i] = Addrs[i]
        BY <1>1, <2>2, <3>1 DEF Addrs
      <3>4. \A e \in Nat : Reads(data, Addrs, i, e) => Reads(data', Addrs', i, e)
        BY <1>1, <2>2
      <3>5. ReadsStay(data, Addrs, data', Addrs', i)
        BY <3>4 DEF ReadsStay
      <3>6. CallOK(p, c, data', Addrs', z, l, g)
        BY <1>1, <1>2, <2>2, <3>1, <3>3, <3>5, CallKept
      <3> QED BY <3>2, <3>6
    <2> QED BY <2>1, <2>2
  <1> QED BY <1>1, <1>3 DEF CallInv

LEMMA IdleOK == \A p, D, A, z, l, g : CallOK(p, NoCall, D, A, z, l, g) /\ NoCall \in Calls
  <1>1. NoCall \in Calls
    BY DEF NoCall, Calls
  <1> QED BY <1>1 DEF CallOK, NoCall, Writing
-----------------------------------------------------------------------------
LEMMA TruncStep == ASSUME BlocksInv, NEW i \in Inode, Trunc(i) PROVE BlocksInv'
  <1>1. PICK T : T = itrunc(i)
    OBVIOUS
  <1>2. /\ used' = used \ T /\ data' = Emptied(data, T)
        /\ ino' = [ino EXCEPT ![i].size = 0, ![i].addrs = NoAddrs] /\ ino[i].lock = Null /\ off' = off /\ wr' = wr
    BY <1>1 DEF Trunc, Emptied
  <1>3. ino \in [Inode -> [size : Nat, addrs : [Slots -> 0 .. NBlocks], lock : Proc \cup {Null}]]
    BY DEF BlocksInv, BlocksType
  <1>4. NoAddrs \in [Slots -> 0 .. NBlocks]
    BY Widths, SMT DEF NoAddrs, Slots
  <1>5. ino' \in [Inode -> [size : Nat, addrs : [Slots -> 0 .. NBlocks], lock : Proc \cup {Null}]]
    BY <1>2, <1>3, <1>4
  <1>6. BlocksType'
    BY <1>2, <1>5 DEF BlocksInv, BlocksType
  <1>7. Addrs' = Without(Addrs, i)
    BY <1>2, <1>3 DEF Without, Addrs
  <1>8. T = BlocksOf(data, Addrs, i)
    BY <1>1, AddrsAre DEF itrunc, BlockAt, At, BlocksOf
  <1>9. /\ Exact(used', data', Addrs')
        /\ \A j \in Inode, e \in Nat : j # i /\ Reads(data, Addrs, j, e) => Reads(data', Addrs', j, e)
    <2>1. Exact(used, data, Addrs)
      BY AddrsAre
    <2> QED BY <1>2, <1>7, <1>8, <2>1, TruncExact, SMT
  <1>10. ASSUME NEW j \in Inode PROVE Reads(data', Addrs', j, ino'[j].size)
    <2>1. CASE j = i
      <3>1. ino'[j].size = 0
        BY <1>2, <1>3, <2>1
      <3> QED BY <3>1, SMT DEF Reads
    <2>2. CASE j # i
      <3>1. ino'[j].size = ino[j].size
        BY <1>2, <1>3, <2>2
      <3> QED BY <1>9, <2>2, <3>1, AddrsAre
    <2> QED BY <2>1, <2>2
  <1>11. ASSUME NEW p \in Proc PROVE CallInv(p)'
    <2>1. PICK j : j = IpOf[wr[p].f]
      OBVIOUS
    <2>2. Writing(wr[p]) => j \in Inode /\ j # i /\ ino'[j] = ino[j]
      BY <1>2, <1>3, <2>1, WriterHasLock
    <2>3. Writing(wr[p]) => \A e \in Nat : Reads(data, Addrs, j, e) => Reads(data', Addrs', j, e)
      BY <1>9, <2>2
    <2> QED BY <1>2, <2>1, <2>2, <2>3, OthersKept
  <1> QED BY <1>6, <1>9, <1>10, <1>11 DEF BlocksInv

LEMMA ReopenStep == ASSUME BlocksInv, NEW f \in File, Reopen(f) PROVE BlocksInv'
  <1>1. /\ used' = used /\ data' = data /\ ino' = ino /\ wr' = wr /\ off' = [off EXCEPT ![f] = 0]
        /\ \A q \in Proc : wr[q].f # f
    BY DEF Reopen
  <1>2. Addrs' = Addrs
    BY <1>1 DEF Addrs
  <1>3. BlocksType'
    BY <1>1 DEF BlocksInv, BlocksType
  <1>4. ASSUME NEW p \in Proc PROVE CallInv(p)'
    <2>1. Writing(wr[p]) => off'[wr[p].f] = off[wr[p].f]
      <3>1. off \in [File -> Nat]
        BY DEF BlocksInv, BlocksType
      <3> QED BY <1>1, <3>1, WriterHasLock
    <2> QED BY <1>1, <1>2, <2>1, OthersKept
  <1> QED BY <1>1, <1>2, <1>3, <1>4 DEF BlocksInv

\* What a call is to be before it begins a transaction.
Ready(c) == c \in Calls /\ c.f \in File /\ c.i < c.n /\ c.tot = 0 /\ c.logged = {}

LEMMA BeginsOK ==
    ASSUME NEW p, NEW c, Ready(c), NEW D, NEW A, NEW z \in Nat, NEW g \in Nat, NEW n1, n1 = Min({c.n - c.i, WriteMax}),
           ~WriteRefused(g, n1, z), Reads(D, A, IpOf[c.f], z), NEW d, d = [c EXCEPT !.pc = "loop", !.n1 = n1]
    PROVE  d \in Calls /\ CallOK(p, d, D, A, z, p, g)
  <1>1. c \in Calls /\ c.n \in Nat /\ c.i \in Nat /\ c.n - c.i \in Nat /\ WriteMax \in Nat
    BY Constants, SMT DEF Ready, Calls
  <1>2. n1 \in Nat /\ n1 <= c.n - c.i /\ n1 <= WriteMax
    BY <1>1, LeastOfTwo
  <1>3. /\ d.pc = "loop" /\ d.f = c.f /\ d.n = c.n /\ d.i = c.i /\ d.n1 = n1 /\ d.tot = 0 /\ d.logged = {}
        /\ d \in Calls
    BY <1>1, <1>2 DEF Ready, Calls
  <1>4. Extra(d, A) = {}
    BY <1>3 DEF Extra, Other
  <1>5. Cardinality(Extra(d, A)) = 0 /\ IsFiniteSet(d.logged)
    BY <1>3, <1>4, FS_EmptySet
  <1>6. g <= z /\ g + n1 <= MAXFILE * BSIZE
    <2>1. MAXFILE * BSIZE \in Nat
      BY Widths, TimesMono
    <2> QED BY <1>2, <2>1, SMT DEF WriteRefused
  <1>7. Reads(D, A, IpOf[d.f], g + d.tot)
    <2>1. g + d.tot = g
      BY <1>3, SMT
    <2> QED BY <1>3, <1>6, <2>1, ReadsLess
  <1>8. InWritei(p, d, D, A, z, p, g)
    <2>1. d.tot <= d.n1 /\ d.i + d.n1 <= d.n
      BY <1>1, <1>2, <1>3, SMT
    <2>2. d.n1 <= Room * BSIZE /\ Cardinality(Extra(d, A)) <= 2 * Room + 1
      BY <1>2, <1>3, <1>5, Constants, SMT
    <2> QED BY <1>3, <1>5, <1>6, <1>7, <2>1, <2>2 DEF InWritei
  <1>9. InLoop(d, A, g)
    <2>1. 0 * BSIZE <= d.tot /\ Cardinality(Extra(d, A)) <= 2 * 0 + 1
      BY <1>3, <1>5, Widths, SMT
    <2> QED BY <1>3, <2>1, SMT DEF InLoop
  <1>10. d.f \in File /\ d.i < d.n
    BY <1>3 DEF Ready
  <1> QED BY <1>3, <1>8, <1>9, <1>10 DEF CallOK, Writing

LEMMA ChunkStep == ASSUME BlocksInv, NEW p \in Proc, NEW c, Ready(c), Chunk(p, c), ~Writing(wr[p]) PROVE BlocksInv'
  <1>1. PICK i, n1, d : i = IpOf[c.f] /\ n1 = Min({c.n - c.i, WriteMax}) /\ d = [c EXCEPT !.pc = "loop", !.n1 = n1]
    OBVIOUS
  <1>2. /\ ino[i].lock = Null /\ used' = used /\ data' = data /\ off' = off
        /\ \/ wr' = [wr EXCEPT ![p] = NoCall] /\ ino' = ino
           \/ /\ ~WriteRefused(off[c.f], n1, ino[i].size)
              /\ wr' = [wr EXCEPT ![p] = d] /\ ino' = [ino EXCEPT ![i].lock = p]
    BY <1>1 DEF Chunk
  <1>3. /\ ino \in [Inode -> [size : Nat, addrs : [Slots -> 0 .. NBlocks], lock : Proc \cup {Null}]]
        /\ off \in [File -> Nat] /\ wr \in [Proc -> Calls] /\ c.f \in File /\ i \in Inode
    BY <1>1, Constants DEF BlocksInv, BlocksType, Ready
  <1>4. PICK e \in Calls, l \in Proc \cup {Null} :
           /\ wr' = [wr EXCEPT ![p] = e] /\ ino' = [ino EXCEPT ![i].lock = l]
           /\ \/ e = NoCall
              \/ e = d /\ l = p /\ CallOK(p, d, data, Addrs, ino[i].size, p, off[c.f])
    <2>1. CASE wr' = [wr EXCEPT ![p] = NoCall] /\ ino' = ino
      <3>1. ino' = [ino EXCEPT ![i].lock = Null]
        BY <1>2, <1>3, <2>1
      <3> QED BY <2>1, <3>1, IdleOK
    <2>2. CASE /\ ~WriteRefused(off[c.f], n1, ino[i].size)
               /\ wr' = [wr EXCEPT ![p] = d] /\ ino' = [ino EXCEPT ![i].lock = p]
      <3>1. off[c.f] \in Nat /\ ino[i].size \in Nat /\ Reads(data, Addrs, IpOf[c.f], ino[i].size)
        BY <1>1, <1>3, AddrsAre
      <3>2. d \in Calls /\ CallOK(p, d, data, Addrs, ino[i].size, p, off[c.f])
        BY <1>1, <2>2, <3>1, BeginsOK
      <3> QED BY <2>2, <3>2
    <2> QED BY <1>2, <2>1, <2>2
  <1>5. Addrs' = Addrs /\ \A j \in Inode : ino'[j].size = ino[j].size /\ (j # i => ino'[j] = ino[j])
    BY <1>3, <1>4 DEF Addrs
  <1>6. BlocksType'
    BY <1>2, <1>3, <1>4, SMT DEF BlocksType
  <1>7. ASSUME NEW q \in Proc PROVE CallInv(q)'
    <2>1. CASE q # p
      <3>1. wr'[q] = wr[q]
        BY <1>3, <1>4, <2>1
      <3>2. Writing(wr[q]) => ino'[IpOf[wr[q].f]] = ino[IpOf[wr[q].f]]
        BY <1>2, <1>5, WriterHasLock, SMT
      <3> QED BY <1>2, <1>5, <3>1, <3>2, OthersKept
    <2>2. CASE q = p /\ e = NoCall
      BY <1>3, <1>4, <2>2, IdleOK DEF CallInv
    <2>3. CASE q = p /\ e = d /\ l = p /\ CallOK(p, d, data, Addrs, ino[i].size, p, off[c.f])
      <3>1. wr'[q] = d /\ d.f = c.f
        <4>1. wr'[q] = d
          BY <1>3, <1>4, <2>3
        <4> QED BY <1>1, <4>1 DEF Ready, Calls
      <3>2. ino'[i].lock = p
        BY <1>3, <1>4, <2>3
      <3>3. IpOf[d.f] = i /\ off'[d.f] = off[c.f] /\ data' = data /\ ino'[i].size = ino[i].size
        BY <1>1, <1>2, <1>3, <1>5, <3>1
      <3> QED BY <1>5, <2>3, <3>1, <3>2, <3>3 DEF CallInv
    <2> QED BY <1>4, <2>1, <2>2, <2>3
  <1>8. Exact(used, data, Addrs)' /\ \A j \in Inode : Reads(data', Addrs', j, ino'[j].size)
    BY <1>2, <1>5, AddrsAre
  <1> QED BY <1>6, <1>7, <1>8 DEF BlocksInv

LEMMA WriteStep == ASSUME BlocksInv, NEW p \in Proc, NEW f \in File, NEW n \in Counts, Write(p, f, n) PROVE BlocksInv'
  <1>1. PICK c : c = [NoCall EXCEPT !.f = f, !.n = n]
    OBVIOUS
  <1>2. n \in Nat /\ 0 < n
    BY BlocksAssumption, SMT
  <1>3. Ready(c)
    BY <1>1, <1>2, IdleOK DEF Ready, NoCall, Calls
  <1>4. Chunk(p, c) /\ ~Writing(wr[p])
    BY <1>1 DEF Write, Writing
  <1> QED BY <1>3, <1>4, ChunkStep

LEMMA WriteMoreStep == ASSUME BlocksInv, NEW p \in Proc, WriteMore(p) PROVE BlocksInv'
  <1>1. Chunk(p, wr[p]) /\ wr[p].pc = "chunk" /\ ~Writing(wr[p])
    BY DEF WriteMore, Writing
  <1>2. Ready(wr[p])
    BY <1>1, AddrsAre DEF Ready, CallInv, CallOK
  <1> QED BY <1>1, <1>2, ChunkStep

LEMMA LoopEndStep == ASSUME BlocksInv, NEW p \in Proc, LoopEnd(p) PROVE BlocksInv'
  <1>1. PICK c, i, o, e, z :
           /\ c = wr[p] /\ i = IpOf[c.f] /\ o = off[c.f] + c.tot /\ z = Max({ino[i].size, o})
           /\ e = IF c.tot # c.n1 \/ c.i + c.tot = c.n THEN NoCall
                  ELSE [c EXCEPT !.pc = "chunk", !.i = @ + c.tot, !.n1 = 0, !.tot = 0, !.logged = {}]
    OBVIOUS
  <1>2. Writing(c)
    BY <1>1 DEF LoopEnd, Writing
  <1>3. /\ ino \in [Inode -> [size : Nat, addrs : [Slots -> 0 .. NBlocks], lock : Proc \cup {Null}]]
        /\ off \in [File -> Nat] /\ wr \in [Proc -> Calls] /\ c.f \in File /\ i \in Inode /\ c \in Calls
        /\ ino[i].lock = p
    BY <1>1, <1>2, WriterHasLock, AddrsAre DEF BlocksInv, BlocksType
  <1>4. InWritei(p, c, data, Addrs, ino[i].size, ino[i].lock, off[c.f])
    BY <1>1, <1>2, AddrsAre DEF CallInv, CallOK
  <1>5. o \in Nat /\ z \in Nat /\ (z = ino[i].size \/ z = o)
    <2>1. off[c.f] \in Nat /\ c.tot \in Nat /\ ino[i].size \in Nat
      BY <1>3 DEF Calls
    <2>2. o \in Nat
      BY <1>1, <2>1, SMT
    <2>3. z = Max({ino[i].size, o})
      BY <1>1
    <2>4. z \in {ino[i].size, o}
      BY <2>1, <2>2, <2>3, GreatestOf
    <2> QED BY <2>1, <2>2, <2>4
  <1>6. /\ used' = used /\ data' = data /\ wr' = [wr EXCEPT ![p] = e] /\ off' = [off EXCEPT ![c.f] = o]
        /\ ino' = [ino EXCEPT ![i].size = z, ![i].lock = Null]
    BY <1>1, <1>3 DEF LoopEnd
  <1>7. e \in Calls /\ (e.pc = "chunk" => e.f \in File /\ e.i < e.n) /\ e.logged = {} /\ e.tot = 0 /\ ~Writing(e)
        /\ e.pc \in {"idle", "chunk"}
    <2>1. CASE e = NoCall
      BY <2>1, IdleOK DEF NoCall, Writing
    <2>2. CASE /\ c.tot = c.n1 /\ c.i + c.tot # c.n
               /\ e = [c EXCEPT !.pc = "chunk", !.i = @ + c.tot, !.n1 = 0, !.tot = 0, !.logged = {}]
      <3>1. c.tot \in Nat /\ c.i \in Nat /\ c.n \in Nat /\ c.n1 \in Nat /\ c.i + c.n1 <= c.n
        BY <1>3, <1>4 DEF Calls, InWritei
      <3>2. /\ e.pc = "chunk" /\ e.f = c.f /\ e.n = c.n /\ e.i = c.i + c.tot /\ e.n1 = 0 /\ e.tot = 0 /\ e.logged = {}
            /\ e \in Calls
        <4>1. PICK x : x = c.i + c.tot
          OBVIOUS
        <4>2. x \in Nat
          BY SMT, <3>1, <4>1
        <4>3. e = [c EXCEPT !.pc = "chunk", !.i = x, !.n1 = 0, !.tot = 0, !.logged = {}]
          BY <1>3, <2>2, <4>1 DEF Calls
        <4> QED BY <1>3, <4>1, <4>2, <4>3 DEF Calls
      <3>3. c.i + c.tot < c.n
        BY <2>2, <3>1, SMT
      <3> QED BY <1>3, <3>2, <3>3 DEF Writing
    <2> QED BY <1>1, <2>1, <2>2
  <1>8. ino' \in [Inode -> [size : Nat, addrs : [Slots -> 0 .. NBlocks], lock : Proc \cup {Null}]]
    BY <1>3, <1>5, <1>6
  <1>9. BlocksType'
    BY <1>3, <1>5, <1>6, <1>7, <1>8 DEF BlocksType
  <1>10. Addrs' = Addrs /\ ino'[i].size = z /\ \A j \in Inode : j # i => ino'[j] = ino[j]
    BY <1>3, <1>6 DEF Addrs
  <1>11. ASSUME NEW j \in Inode PROVE Reads(data', Addrs', j, ino'[j].size)
    <2>1. CASE j # i
      BY <1>6, <1>10, <2>1, AddrsAre
    <2>2. CASE j = i
      <3>1. Reads(data, Addrs, i, ino[i].size) /\ Reads(data, Addrs, i, o)
        BY <1>1, <1>3, <1>4, AddrsAre DEF InWritei
      <3> QED BY <1>5, <1>6, <1>10, <2>2, <3>1
    <2> QED BY <2>1, <2>2
  <1>12. ASSUME NEW q \in Proc PROVE CallInv(q)'
    <2>1. CASE q # p
      <3>1. wr'[q] = wr[q]
        BY <1>3, <1>6, <2>1
      <3>2. Writing(wr[q]) => /\ ino'[IpOf[wr[q].f]] = ino[IpOf[wr[q].f]]
                              /\ off'[wr[q].f] = off[wr[q].f]
        <4> SUFFICES ASSUME Writing(wr[q])
                     PROVE  /\ ino'[IpOf[wr[q].f]] = ino[IpOf[wr[q].f]]
                            /\ off'[wr[q].f] = off[wr[q].f]
          OBVIOUS
        <4>1. wr[q].f \in File /\ IpOf[wr[q].f] \in Inode /\ IpOf[wr[q].f] # i
          BY <1>3, <2>1, WriterHasLock
        <4>2. wr[q].f # c.f
          BY <1>1, <4>1
        <4> QED BY <1>3, <1>6, <1>10, <4>1, <4>2
      <3> QED BY <1>6, <1>10, <3>1, <3>2, OthersKept
    <2>2. CASE q = p
      <3>1. wr'[q] = e
        BY <1>3, <1>6, <2>2
      <3> QED BY <1>7, <3>1 DEF CallInv, CallOK
    <2> QED BY <2>1, <2>2
  <1>13. Exact(used, data, Addrs)'
    BY <1>6, <1>10, AddrsAre
  <1> QED BY <1>9, <1>11, <1>12, <1>13 DEF BlocksInv
-----------------------------------------------------------------------------
\* The block in which a write begins in the middle is there already.
LEMMA FirstThere ==
    ASSUME NEW D, NEW A, NEW i, NEW z \in Nat, Reads(D, A, i, z), NEW o \in Nat, o <= z,
           NEW q \in Nat, NEW u \in Units, o = q * BSIZE + u, u # 0
    PROVE  At(D, A, i, PlaceOf(q)) # 0
  <1>1. PICK x, v : x = o - 1 /\ v = u - 1
    OBVIOUS
  <1>2. q * BSIZE \in Nat /\ u \in Nat
    BY TimesMono, Widths, SMT DEF Units
  <1>3. x \in Nat /\ x < z /\ v \in Units /\ x = q * BSIZE + v
    BY <1>1, <1>2, Widths, SMT DEF Units
  <1>4. x \div BSIZE = q
    BY <1>3, DivUnique
  <1>5. ReadsAt(D, A, i, x)
    BY <1>3, SMT DEF Reads
  <1> QED BY <1>4, <1>5 DEF ReadsAt

\* In a round of writei's loop m units are to be copied; C blocks were logged
\* before and C2 after it.
Counted(g, tot, n1, q, u, m, C, C2) ==
    /\ tot < n1 /\ n1 <= Room * BSIZE /\ g + tot = q * BSIZE + u /\ m = Min({n1 - tot, BSIZE - u})
    /\ C2 <= C + 2 /\ (tot # 0 => u = 0) /\ (u # 0 => C2 <= 1)
    /\ \E j \in Nat : j * BSIZE <= tot /\ C <= 2 * j + 1
Fits(g, tot, n1, u, m, C2) ==
    /\ m \in Nat /\ 0 < m /\ u + m <= BSIZE /\ tot + m <= n1 /\ C2 <= 2 * Room + 1
    /\ tot + m < n1 => /\ (g + (tot + m)) % BSIZE = 0
                       /\ \E k \in Nat : k * BSIZE <= tot + m /\ C2 <= 2 * k + 1

LEMMA RoundCounts ==
    ASSUME NEW g \in Nat, NEW tot \in Nat, NEW n1 \in Nat, NEW q \in Nat, NEW u \in Units, NEW m,
           NEW C \in Nat, NEW C2 \in Nat, Counted(g, tot, n1, q, u, m, C, C2)
    PROVE  Fits(g, tot, n1, u, m, C2)
  <1>. /\ tot < n1 /\ n1 <= Room * BSIZE /\ g + tot = q * BSIZE + u /\ m = Min({n1 - tot, BSIZE - u})
       /\ C2 <= C + 2 /\ (tot # 0 => u = 0) /\ (u # 0 => C2 <= 1)
    BY DEF Counted
  <1>0. PICK j \in Nat : j * BSIZE <= tot /\ C <= 2 * j + 1
    BY DEF Counted
  <1>1. u \in Nat /\ u < BSIZE /\ BSIZE \in Nat /\ Room \in Nat /\ Room * BSIZE \in Nat
    BY Constants, Widths, SMT DEF Units
  <1>2. n1 - tot \in Nat /\ BSIZE - u \in Nat /\ 0 < n1 - tot /\ 0 < BSIZE - u
    BY <1>1, SMT
  <1>3. /\ m = n1 - tot \/ m = BSIZE - u
        /\ m <= n1 - tot /\ m <= BSIZE - u
    BY <1>2, LeastOfTwo
  <1>4. m \in Nat /\ 0 < m /\ u + m <= BSIZE /\ tot + m <= n1
    BY <1>1, <1>2, <1>3, SMT
  <1>5. PICK y : y = j * BSIZE
    OBVIOUS
  <1>6. y \in Nat /\ y <= tot /\ (j + 1) * BSIZE = y + BSIZE /\ (y < Room * BSIZE => j < Room)
    BY <1>0, <1>1, <1>5, TimesMono
  <1>7. j < Room
    BY <1>1, <1>6, SMT
  <1>8. C2 <= 2 * Room + 1
    BY <1>0, <1>1, <1>7, SMT
  <1>9. ASSUME tot + m < n1 PROVE (g + (tot + m)) % BSIZE = 0
    <2>1. m = BSIZE - u
      BY <1>2, <1>3, <1>4, <1>9, SMT
    <2>2. PICK x : x = q * BSIZE
      OBVIOUS
    <2>3. x \in Nat /\ (q + 1) * BSIZE = x + BSIZE /\ q + 1 \in Nat /\ g + tot = x + u
      BY SMT, <2>2, TimesMono
    <2>4. g + (tot + m) = (q + 1) * BSIZE + 0 /\ g + (tot + m) \in Nat /\ 0 \in Units
      BY <1>1, <1>4, <2>1, <2>3, SMT DEF Units
    <2> QED BY <2>3, <2>4, DivUnique, SMT
  <1>10. ASSUME tot + m < n1 PROVE \E k \in Nat : k * BSIZE <= tot + m /\ C2 <= 2 * k + 1
    <2>1. m = BSIZE - u
      BY <1>2, <1>3, <1>4, <1>10, SMT
    <2>2. CASE u = 0
      <3>1. (j + 1) * BSIZE <= tot + m /\ C2 <= 2 * (j + 1) + 1 /\ j + 1 \in Nat
        BY <1>0, <1>1, <1>6, <2>1, <2>2, SMT
      <3> QED BY <3>1
    <2>3. CASE u # 0
      <3>1. 0 * BSIZE <= tot + m /\ C2 <= 2 * 0 + 1
        BY SMT, <1>1, <1>4, <2>3
      <3> QED BY <3>1
    <2> QED BY <2>2, <2>3
  <1> QED BY <1>4, <1>8, <1>9, <1>10 DEF Fits

\* What a round makes of call c: all m units were copied, or writei leaves the loop.
RoundCall(c, s, m, n, e) ==
    \/ s.b # 0 /\ n = m /\ e = [c EXCEPT !.tot = c.tot + m, !.logged = RoundLogged(s)]
    \/ n < m /\ e = [c EXCEPT !.pc = "end", !.logged = RoundLogged(s)]

\* Call c of process p is in writei's loop and goes on with unit u of block q.
InRound(p, c, U, D, A, z, g, i, q, u) ==
    /\ Exact(U, D, A) /\ Reads(D, A, i, z) /\ i = IpOf[c.f] /\ i \in Inode
    /\ c \in Calls /\ c.pc = "loop" /\ c.tot < c.n1 /\ CallOK(p, c, D, A, z, p, g)
    /\ g + c.tot = q * BSIZE + u

LEMMA RoundBounds ==
    ASSUME NEW p, NEW c, NEW U, NEW D, NEW A, NEW z \in Nat, NEW g \in Nat, NEW i, NEW q \in Nat, NEW u \in Units,
           InRound(p, c, U, D, A, z, g, i, q, u), NEW s, Mapped(U, D, A, c.logged, i, PlaceOf(q), s),
           NEW m, m = Min({c.n1 - c.tot, BSIZE - u}),
           NEW A2, A2 = WithAddrs(A, i, s), NEW L2, L2 = RoundLogged(s), NEW E2, E2 = Other(L2, A2[i][NDIRECT])
    PROVE  q < MAXFILE /\ L2 \subseteq LogItems /\ IsFiniteSet(L2) /\ Fits(g, c.tot, c.n1, u, m, Cardinality(E2))
  <1>1. /\ Exact(U, D, A) /\ Reads(D, A, i, z) /\ i = IpOf[c.f] /\ i \in Inode
        /\ c.pc = "loop" /\ c.tot < c.n1 /\ c.tot \in Nat /\ c.n1 \in Nat /\ c.logged \subseteq LogItems
        /\ g + c.tot = q * BSIZE + u
    BY DEF InRound, Calls, LogItems
  <1>2. InWritei(p, c, D, A, z, p, g) /\ InLoop(c, A, g)
    BY DEF InRound, CallOK, Writing
  <1>3. /\ g <= z /\ c.n1 <= Room * BSIZE /\ g + c.n1 <= MAXFILE * BSIZE /\ IsFiniteSet(c.logged)
        /\ c.tot # 0 => (g + c.tot) % BSIZE = 0
        /\ c.tot = 0 => c.logged = {}
    BY <1>2 DEF InWritei, InLoop
  <1>4. (g + c.tot) \div BSIZE = q /\ (g + c.tot) % BSIZE = u /\ g + c.tot \in Nat
    <2>1. PICK o : o = g + c.tot
      OBVIOUS
    <2>2. o \in Nat /\ o = q * BSIZE + u
      BY <1>1, <2>1, SMT
    <2>3. o \div BSIZE = q /\ o % BSIZE = u
      BY <2>2, DivUnique
    <2> QED BY <2>1, <2>2, <2>3
  <1>5. q < MAXFILE
    <2>1. PICK o : o = g + c.tot
      OBVIOUS
    <2>2. MAXFILE \in Nat /\ MAXFILE * BSIZE \in Nat
      BY Widths, TimesMono
    <2>3. o \in Nat /\ o < MAXFILE * BSIZE /\ o \div BSIZE = q
      BY <1>1, <1>3, <1>4, <2>1, <2>2, SMT
    <2> QED BY <2>2, <2>3, DivBelow
  <1>6. A2[i] = s.addrs /\ Exact(s.used, s.data, A2) /\ (s.b # 0 => s.b = At(s.data, A2, i, PlaceOf(q)))
    <2>1. A2[i] = s.addrs
      BY <1>1 DEF WithAddrs, Exact, DiskType
    <2> QED BY <2>1 DEF Mapped, WithAddrs
  <1>7. s.b \in 0 .. NBlocks
    <2>1. CASE s.b = 0
      BY <2>1, Widths, SMT
    <2>2. CASE s.b # 0
      BY <1>1, <1>5, <1>6, <2>2, PlaceOfIs, AtIs, SMT
    <2> QED BY <2>1, <2>2
  <1>8. PICK E : E = Other(c.logged, A[i][NDIRECT])
    OBVIOUS
  <1>9. /\ L2 \subseteq LogItems /\ IsFiniteSet(L2)
        /\ Cardinality(E) \in Nat /\ Cardinality(E2) \in Nat /\ Cardinality(E2) <= Cardinality(E) + 2
        /\ c.logged = {} /\ At(D, A, i, PlaceOf(q)) # 0 => Cardinality(E2) <= 1
    <2>1. E2 = Other(RoundLogged(s), s.addrs[NDIRECT])
      BY <1>6
    <2>2. LogGrows(D, A, c.logged, i, PlaceOf(q), s, E, E2)
      BY <1>1, <1>3, <1>7, <1>8, <2>1, RoundLog
    <2> QED BY <2>2 DEF LogGrows
  <1>10. PICK j \in Nat : j * BSIZE <= c.tot /\ Cardinality(E) <= 2 * j + 1
    BY <1>1, <1>2, <1>8 DEF InLoop, Extra
  <1>11. c.tot # 0 => u = 0
    BY <1>3, <1>4
  <1>12. u # 0 => Cardinality(E2) <= 1
    <2> SUFFICES ASSUME u # 0 PROVE Cardinality(E2) <= 1
      OBVIOUS
    <2>1. c.tot = 0 /\ c.logged = {} /\ g = q * BSIZE + u
      BY <1>1, <1>3, <1>11, SMT
    <2>2. At(D, A, i, PlaceOf(q)) # 0
      BY <1>1, <1>3, <2>1, FirstThere
    <2> QED BY <1>9, <2>1, <2>2
  <1>13. PICK tot, n1, C, C2 : tot = c.tot /\ n1 = c.n1 /\ C = Cardinality(E) /\ C2 = Cardinality(E2)
    OBVIOUS
  <1>14. Fits(g, tot, n1, u, m, C2)
    <2>1. tot \in Nat /\ n1 \in Nat /\ tot < n1 /\ n1 <= Room * BSIZE /\ g + tot = q * BSIZE + u
      BY <1>1, <1>3, <1>13
    <2>2. m = Min({n1 - tot, BSIZE - u})
      BY <1>13
    <2>3. C \in Nat /\ C2 \in Nat /\ C2 <= C + 2 /\ (u # 0 => C2 <= 1)
      BY <1>9, <1>12, <1>13
    <2>4. j * BSIZE <= tot /\ C <= 2 * j + 1 /\ (tot # 0 => u = 0)
      BY <1>10, <1>11, <1>13
    <2>5. Counted(g, tot, n1, q, u, m, C, C2)
      BY <2>1, <2>2, <2>3, <2>4 DEF Counted
    <2> QED BY <2>1, <2>3, <2>5, RoundCounts
  <1> QED BY <1>5, <1>9, <1>13, <1>14

RoundResult(p, c, e, D, A, s, z, g, D2, A2) ==
    /\ Exact(s.used, D2, A2) /\ \A j \in Inode, x \in Nat : Reads(D, A, j, x) => Reads(D2, A2, j, x)
    /\ e \in Calls /\ e.f = c.f /\ CallOK(p, e, D2, A2, z, p, g)

LEMMA RoundOK ==
    ASSUME NEW p, NEW c, NEW U, NEW D, NEW A, NEW z \in Nat, NEW g \in Nat, NEW i, NEW q \in Nat, NEW u \in Units,
           InRound(p, c, U, D, A, z, g, i, q, u), NEW s, Mapped(U, D, A, c.logged, i, PlaceOf(q), s),
           NEW m, m = Min({c.n1 - c.tot, BSIZE - u}), NEW n \in Nat, NEW e, RoundCall(c, s, m, n, e),
           NEW A2, A2 = WithAddrs(A, i, s), NEW D2, D2 = RoundData(s, i, g + c.tot, u, n)
    PROVE  RoundResult(p, c, e, D, A, s, z, g, D2, A2)
  <1>1. /\ Exact(U, D, A) /\ i = IpOf[c.f] /\ i \in Inode /\ c \in Calls /\ c.tot \in Nat /\ c.n1 \in Nat
        /\ g + c.tot = q * BSIZE + u
    BY DEF InRound, Calls
  <1>2. InWritei(p, c, D, A, z, p, g) /\ c.f \in File /\ c.i < c.n /\ c.pc = "loop"
    BY DEF InRound, CallOK, Writing
  <1>3. PICK L2, E2 : L2 = RoundLogged(s) /\ E2 = Other(L2, A2[i][NDIRECT])
    OBVIOUS
  <1>4. /\ q < MAXFILE /\ L2 \subseteq LogItems /\ IsFiniteSet(L2)
        /\ m \in Nat /\ 0 < m /\ u + m <= BSIZE /\ c.tot + m <= c.n1 /\ Cardinality(E2) <= 2 * Room + 1
        /\ c.tot + m < c.n1 => /\ (g + (c.tot + m)) % BSIZE = 0
                               /\ \E k \in Nat : k * BSIZE <= c.tot + m /\ Cardinality(E2) <= 2 * k + 1
    <2>1. q < MAXFILE /\ L2 \subseteq LogItems /\ IsFiniteSet(L2) /\ Fits(g, c.tot, c.n1, u, m, Cardinality(E2))
      BY <1>3, RoundBounds
    <2> QED BY <2>1 DEF Fits
  <1>5. n <= m /\ u + n <= BSIZE
    <2>1. n = m \/ n < m
      BY DEF RoundCall
    <2> QED BY <1>4, <2>1, Widths, SMT DEF Units
  <1>6. PICK o : o = g + c.tot
    OBVIOUS
  <1>7. o \in Nat /\ Splits(o, q, u) /\ D2 = RoundData(s, i, o, u, n)
    BY <1>1, <1>6, SMT DEF Splits
  <1>8. /\ Exact(s.used, D2, A2)
        /\ \A j \in Inode, x \in Nat : Reads(D, A, j, x) => Reads(D2, A2, j, x)
        /\ s.b # 0 /\ Reads(D, A, i, o) => Reads(D2, A2, i, o + n)
    <2>1. RoundTo(U, D, A, c.logged, i, o, q, u, n, s, D2, A2)
      BY <1>1, <1>4, <1>5, <1>7 DEF RoundTo
    <2>2. RoundDone(D, A, i, o, n, s, D2, A2)
      BY <1>1, <1>7, <2>1, RoundDisk
    <2> QED BY <2>2 DEF RoundDone
  <1>9. Reads(D, A, i, o)
    BY <1>1, <1>2, <1>6 DEF InWritei
  <1>10. CASE s.b # 0 /\ n = m /\ e = [c EXCEPT !.tot = c.tot + m, !.logged = RoundLogged(s)]
    <2>1. PICK t : t = c.tot + m
      OBVIOUS
    <2>2. t \in Nat /\ 0 < t /\ t <= c.n1 /\ o + n = g + t
      BY SMT, <1>1, <1>4, <1>6, <1>10, <2>1
    <2>3. /\ e.pc = "loop" /\ e.f = c.f /\ e.n = c.n /\ e.i = c.i /\ e.n1 = c.n1 /\ e.tot = t /\ e.logged = L2
          /\ e \in Calls
      <3>1. e = [c EXCEPT !.tot = t, !.logged = L2]
        BY <1>3, <1>10, <2>1
      <3> QED BY <1>1, <1>2, <1>4, <2>2, <3>1 DEF Calls, LogItems
    <2>4. Extra(e, A2) = E2
      BY <1>1, <1>3, <2>3 DEF Extra
    <2>5. Reads(D2, A2, i, g + t)
      BY <1>8, <1>9, <1>10, <2>2
    <2>6. InWritei(p, e, D2, A2, z, p, g)
      BY <1>1, <1>2, <1>4, <2>2, <2>3, <2>4, <2>5 DEF InWritei
    <2>7. e.tot < e.n1 => InLoop(e, A2, g)
      <3>1. e.tot # 0
        BY SMT, <2>2, <2>3
      <3> QED BY <1>4, <2>1, <2>3, <2>4, <3>1 DEF InLoop
    <2>8. CallOK(p, e, D2, A2, z, p, g)
      BY <1>2, <2>3, <2>6, <2>7 DEF CallOK, Writing
    <2> QED BY <1>8, <2>3, <2>8 DEF RoundResult
  <1>11. CASE n < m /\ e = [c EXCEPT !.pc = "end", !.logged = RoundLogged(s)]
    <2>1. /\ e.pc = "end" /\ e.f = c.f /\ e.n = c.n /\ e.i = c.i /\ e.n1 = c.n1 /\ e.tot = c.tot /\ e.logged = L2
          /\ e \in Calls
      BY <1>1, <1>3, <1>4, <1>11 DEF Calls, LogItems
    <2>2. Extra(e, A2) = E2
      BY <1>1, <1>3, <2>1 DEF Extra
    <2>3. Reads(D2, A2, i, g + e.tot)
      BY <1>1, <1>6, <1>7, <1>8, <1>9, <2>1
    <2>4. InWritei(p, e, D2, A2, z, p, g)
      BY <1>1, <1>2, <1>4, <2>1, <2>2, <2>3 DEF InWritei
    <2>5. CallOK(p, e, D2, A2, z, p, g)
      BY <1>2, <2>1, <2>4 DEF CallOK, Writing
    <2> QED BY <1>8, <2>1, <2>5 DEF RoundResult
  <1> QED BY <1>10, <1>11 DEF RoundCall

LoopDone(p, i, o, m, s) ==
    /\ used' = s.used /\ off' = off /\ ino' = [ino EXCEPT ![i].addrs = s.addrs]
    /\ \/ /\ s.b # 0 /\ data' = either_copyin(s, i, o, m)
          /\ wr' = [wr EXCEPT ![p].tot = @ + m, ![p].logged = s.log \cup {Data(s.b)}]
       \/ /\ \E n \in 0 .. m - 1 : data' = either_copyin(s, i, o, n)
          /\ wr' = [wr EXCEPT ![p].pc = "end", ![p].logged = s.log \cup {Data(b) : b \in {s.b} \ {0}}]

LEMMA LoopIs ==
    ASSUME NEW p, Loop(p), NEW c, c = wr[p], NEW i, i = IpOf[c.f], NEW o, o = off[c.f] + c.tot, 
           NEW m, m = Min({c.n1 - c.tot, BSIZE - (o % BSIZE)}),
           NEW s, s = bmap([used |-> used, data |-> data, addrs |-> ino[i].addrs, log |-> c.logged, b |-> 0], o \div BSIZE)
    PROVE  LoopDone(p, i, o, m, s)
  BY Zenon DEF Loop, LoopDone

LEMMA LoopStep == ASSUME BlocksInv, NEW p \in Proc, Loop(p) PROVE BlocksInv'
  <1>1. PICK c, i, g, o, z : c = wr[p] /\ i = IpOf[c.f] /\ g = off[c.f] /\ o = g + c.tot /\ z = ino[i].size
    OBVIOUS
  <1>2. c.pc = "loop" /\ c.tot < c.n1 /\ Writing(c)
    BY <1>1 DEF Loop, Writing
  <1>3. /\ ino \in [Inode -> [size : Nat, addrs : [Slots -> 0 .. NBlocks], lock : Proc \cup {Null}]]
        /\ off \in [File -> Nat] /\ wr \in [Proc -> Calls] /\ c.f \in File /\ i \in Inode /\ c \in Calls
        /\ ino[i].lock = p
    BY <1>1, <1>2, WriterHasLock, AddrsAre DEF BlocksInv, BlocksType
  <1>4. g \in Nat /\ z \in Nat /\ c.tot \in Nat /\ c.n1 \in Nat /\ o \in Nat
    BY SMT, <1>1, <1>3 DEF Calls
  <1>5. PICK q \in Nat, u \in Units : q = o \div BSIZE /\ u = o % BSIZE /\ o = q * BSIZE + u
    BY <1>4, DivMod
  <1>6. /\ CallOK(p, c, data, Addrs, z, p, g) /\ Addrs[i] = ino[i].addrs
        /\ Exact(used, data, Addrs) /\ Reads(data, Addrs, i, z)
    BY <1>1, <1>3, AddrsAre DEF CallInv
  <1>7. InRound(p, c, used, data, Addrs, z, g, i, q, u)
    BY <1>1, <1>2, <1>3, <1>5, <1>6 DEF InRound
  <1>8. PICK m, s : m = Min({c.n1 - c.tot, BSIZE - u}) /\ s = bmap(Disk(used, data, Addrs[i], c.logged, 0), q)
    OBVIOUS
  <1>9. q < MAXFILE
    <2>1. PICK n : n = c.n1
      OBVIOUS
    <2>2. g + n <= MAXFILE * BSIZE /\ c.tot < n /\ n \in Nat
      BY <1>2, <1>4, <1>6, <2>1 DEF CallOK, InWritei
    <2>3. MAXFILE \in Nat /\ MAXFILE * BSIZE \in Nat
      BY Widths, TimesMono
    <2>4. o < MAXFILE * BSIZE
      BY SMT, <1>1, <1>4, <2>2, <2>3
    <2> QED BY <1>4, <1>5, <2>3, <2>4, DivBelow
  <1>10. Mapped(used, data, Addrs, c.logged, i, PlaceOf(q), s)
    BY <1>3, <1>6, <1>8, <1>9, BmapMaps
  <1>11. PICK n, e : /\ n \in Nat /\ used' = s.used /\ data' = RoundData(s, i, o, u, n) /\ off' = off
                     /\ wr' = [wr EXCEPT ![p] = e] /\ ino' = [ino EXCEPT ![i].addrs = s.addrs]
                     /\ RoundCall(c, s, m, n, e)
    <2>1. s = bmap([used |-> used, data |-> data, addrs |-> ino[i].addrs, log |-> c.logged, b |-> 0], o \div BSIZE)
      BY <1>5, <1>6, <1>8 DEF Disk
    <2>2. /\ used' = s.used /\ off' = off /\ ino' = [ino EXCEPT ![i].addrs = s.addrs]
          /\ \/ /\ s.b # 0 /\ data' = either_copyin(s, i, o, m)
                /\ wr' = [wr EXCEPT ![p].tot = @ + m, ![p].logged = s.log \cup {Data(s.b)}]
             \/ /\ \E n \in 0 .. m - 1 : data' = either_copyin(s, i, o, n)
                /\ wr' = [wr EXCEPT ![p].pc = "end", ![p].logged = s.log \cup {Data(b) : b \in {s.b} \ {0}}]
      <3>1. o = off[c.f] + c.tot /\ m = Min({c.n1 - c.tot, BSIZE - (o % BSIZE)})
        BY <1>1, <1>5, <1>8
      <3>2. c = wr[p] /\ i = IpOf[c.f]
        BY <1>1
      <3>3. LoopDone(p, i, o, m, s)
        BY <2>1, <3>1, <3>2, LoopIs
      <3> QED BY <3>3 DEF LoopDone
    <2>0. \A n : either_copyin(s, i, o, n) = RoundData(s, i, o, u, n)
      BY <1>5 DEF either_copyin, RoundData, WithBlock, WrittenTo, Units
    <2>3. m \in Nat
      <3>1. PICK x, y : x = c.n1 - c.tot /\ y = BSIZE - u
        OBVIOUS
      <3>2. x \in Nat /\ y \in Nat
        BY SMT, <1>2, <1>4, <1>5, <3>1, Widths DEF Units
      <3> QED BY <1>8, <3>1, <3>2, LeastOfTwo
    <2>4. CASE /\ s.b # 0 /\ data' = either_copyin(s, i, o, m)
               /\ wr' = [wr EXCEPT ![p].tot = @ + m, ![p].logged = s.log \cup {Data(s.b)}]
      <3>1. s.log \cup {Data(s.b)} = RoundLogged(s)
        BY <2>4 DEF RoundLogged
      <3>2. PICK e : e = [c EXCEPT !.tot = c.tot + m, !.logged = RoundLogged(s)]
        OBVIOUS
      <3>3. wr' = [wr EXCEPT ![p] = e]
        BY <1>1, <1>3, <2>4, <3>1, <3>2
      <3>4. data' = RoundData(s, i, o, u, m) /\ RoundCall(c, s, m, m, e)
        BY <2>0, <2>4, <3>2 DEF RoundCall
      <3> QED BY <2>2, <2>3, <3>3, <3>4
    <2>5. CASE /\ \E n \in 0 .. m - 1 : data' = either_copyin(s, i, o, n)
               /\ wr' = [wr EXCEPT ![p].pc = "end", ![p].logged = s.log \cup {Data(b) : b \in {s.b} \ {0}}]
      <3>1. PICK n \in 0 .. m - 1 : data' = either_copyin(s, i, o, n)
        BY <2>5
      <3>2. PICK e : e = [c EXCEPT !.pc = "end", !.logged = RoundLogged(s)]
        OBVIOUS
      <3>3. wr' = [wr EXCEPT ![p] = e]
        BY <1>1, <1>3, <2>5, <3>2 DEF RoundLogged
      <3>4. n \in Nat /\ n < m
        BY SMT, <2>3
      <3>5. data' = RoundData(s, i, o, u, n) /\ RoundCall(c, s, m, n, e)
        BY <2>0, <3>1, <3>2, <3>4 DEF RoundCall
      <3> QED BY <2>2, <3>3, <3>4, <3>5
    <2> QED BY <2>2, <2>4, <2>5
  <1>12. PICK A2 : A2 = WithAddrs(Addrs, i, s)
    OBVIOUS
  <1>13. /\ Exact(s.used, data', A2) /\ \A j \in Inode, x \in Nat : Reads(data, Addrs, j, x) => Reads(data', A2, j, x)
         /\ e \in Calls /\ e.f = c.f /\ CallOK(p, e, data', A2, z, p, g)
    <2>1. data' = RoundData(s, i, g + c.tot, u, n) /\ n \in Nat /\ RoundCall(c, s, m, n, e)
      BY <1>1, <1>11
    <2>2. RoundResult(p, c, e, data, Addrs, s, z, g, data', A2)
      BY <1>4, <1>7, <1>8, <1>10, <1>12, <2>1, RoundOK
    <2> QED BY <2>2 DEF RoundResult
  <1>14. A2[i] = s.addrs /\ s.addrs \in [Slots -> 0 .. NBlocks]
    <2>1. A2[i] = s.addrs
      BY <1>3, <1>12 DEF WithAddrs, Addrs
    <2>2. A2 \in [Inode -> [Slots -> 0 .. NBlocks]]
      BY <1>13 DEF Exact, DiskType
    <2> QED BY <1>3, <2>1, <2>2
  <1>15. ino' \in [Inode -> [size : Nat, addrs : [Slots -> 0 .. NBlocks], lock : Proc \cup {Null}]]
    BY <1>3, <1>11, <1>14
  <1>16. BlocksType'
    BY <1>3, <1>11, <1>13, <1>15 DEF BlocksType
  <1>17. /\ Addrs' = A2 /\ ino'[i].size = z /\ ino'[i].lock = p
         /\ \A j \in Inode : ino'[j].size = ino[j].size /\ (j # i => ino'[j] = ino[j])
    BY <1>1, <1>3, <1>11, <1>12 DEF Addrs, WithAddrs
  <1>18. Exact(used', data', Addrs') /\ \A j \in Inode : Reads(data', Addrs', j, ino'[j].size)
    BY <1>11, <1>13, <1>17, AddrsAre
  <1>19. ASSUME NEW r \in Proc PROVE CallInv(r)'
    <2>1. CASE r # p
      <3>1. wr'[r] = wr[r]
        BY <1>3, <1>11, <2>1
      <3>2. PICK j : j = IpOf[wr[r].f]
        OBVIOUS
      <3>3. Writing(wr[r]) => j \in Inode /\ ino'[j] = ino[j]
        BY <1>3, <1>17, <2>1, <3>2, WriterHasLock
      <3>4. Writing(wr[r]) => \A x \in Nat : Reads(data, Addrs, j, x) => Reads(data', Addrs', j, x)
        BY <1>13, <1>17, <3>3
      <3>5. off'[wr[r].f] = off[wr[r].f]
        BY <1>11
      <3> QED BY <3>1, <3>2, <3>3, <3>4, <3>5, OthersKept
    <2>2. CASE r = p
      <3>1. wr'[r] = e /\ IpOf[e.f] = i /\ off'[e.f] = g
        BY <1>1, <1>3, <1>11, <1>13, <2>2
      <3> QED BY <1>13, <1>17, <2>2, <3>1 DEF CallInv
    <2> QED BY <2>1, <2>2
  <1> QED BY <1>16, <1>18, <1>19 DEF BlocksInv
-----------------------------------------------------------------------------
(* The image of mkfs.                                                        *)
ImageFilled(first, size, b) ==
    [u \in Units |-> LET o == Image(size).bn[b] * BSIZE + u IN IF o < size THEN <<first, o>> ELSE Number(0)]
ImageData(first, size) ==
    [b \in Block |-> IF b >= Image(size).freeblock THEN Zeroes
                     ELSE IF b = Image(size).addrs[NDIRECT] THEN Image(size).indirect
                     ELSE ImageFilled(first, size, b)]
ImageAddrs(first, size) == [i \in Inode |-> IF i = first THEN Image(size).addrs ELSE NoAddrs]

\* F blocks are in use, the indirect block among them if the file needs it.
LEMMA ImageIs ==
    ASSUME NEW size \in Sizes
    PROVE  \E nb, F \in Nat :
             /\ size \in Nat /\ size <= nb * BSIZE /\ nb <= MAXFILE /\ F <= NBlocks
             /\ F = IF nb > NDIRECT THEN nb + 1 ELSE nb
             /\ Image(size).freeblock = F + 1
             /\ Image(size).addrs = [k \in Slots |-> IF k < F THEN k + 1 ELSE 0]
             /\ Image(size).indirect = [u \in Units |-> Number(IF NDIRECT + 1 + u < F THEN NDIRECT + 1 + u + 1 ELSE 0)]
             /\ Image(size).bn = [b \in Block |-> IF b <= NDIRECT THEN b - 1 ELSE b - 2]
  <1>1. PICK nb : nb = DivUp(size, BSIZE)
    OBVIOUS
  <1>2. size \in Nat /\ size <= MAXFILE * BSIZE /\ nb < NBlocks
    BY <1>1, BlocksAssumption
  <1>3. size + BSIZE - 1 \in Nat
    BY <1>2, Widths, SMT
  <1>4. PICK q \in Nat, r \in Units : q = (size + BSIZE - 1) \div BSIZE /\ size + BSIZE - 1 = q * BSIZE + r
    BY <1>3, DivMod
  <1>5. q = nb
    BY <1>1, <1>4 DEF DivUp
  <1>6. PICK x, y : x = q * BSIZE /\ y = MAXFILE * BSIZE
    OBVIOUS
  <1>7. x \in Nat /\ y \in Nat /\ (MAXFILE + 1) * BSIZE = y + BSIZE /\ (x < y + BSIZE => q < MAXFILE + 1)
    BY SMT, <1>6, TimesMono, Widths
  <1>8. r \in Nat /\ r < BSIZE /\ BSIZE \in Nat /\ MAXFILE \in Nat
    BY Widths, SMT DEF Units
  <1>9. size <= x /\ x < y + BSIZE
    BY <1>2, <1>4, <1>6, <1>7, <1>8, SMT
  <1>10. nb \in Nat /\ size <= nb * BSIZE /\ nb <= MAXFILE
    BY <1>5, <1>6, <1>7, <1>8, <1>9, SMT
  <1>11. PICK F : F = IF nb > NDIRECT THEN nb + 1 ELSE nb
    OBVIOUS
  <1>12. F \in Nat /\ F <= NBlocks
    BY <1>2, <1>10, <1>11, Widths, SMT
  <1>13. Image(size).freeblock = F + 1
    BY SMT, <1>1, <1>10, <1>11, Widths DEF Image
  <1>14. Image(size).addrs = [k \in Slots |-> IF k < F THEN k + 1 ELSE 0]
    <2>1. Image(size).addrs = [k \in 0 .. NDIRECT |-> IF k = NDIRECT THEN IF nb > NDIRECT THEN NDIRECT + 1 ELSE 0
                                                      ELSE [m \in 0 .. NDIRECT - 1 |-> IF m < nb THEN m + 1 ELSE 0][k]]
      BY <1>1, SMT DEF Image
    <2>2. ASSUME NEW k \in 0 .. NDIRECT
          PROVE  (IF k = NDIRECT THEN IF nb > NDIRECT THEN NDIRECT + 1 ELSE 0
                  ELSE [m \in 0 .. NDIRECT - 1 |-> IF m < nb THEN m + 1 ELSE 0][k]) = IF k < F THEN k + 1 ELSE 0
      <3>1. CASE k = NDIRECT
        BY SMT, <1>10, <1>11, <3>1, Widths
      <3>2. CASE k # NDIRECT
        <4>1. k \in 0 .. NDIRECT - 1 /\ (k < nb <=> k < F)
          BY <1>10, <1>11, <3>2, Widths, SMT
        <4> QED BY <3>2, <4>1
      <3> QED BY <3>1, <3>2
    <2> QED BY <2>1, <2>2 DEF Slots
  <1>15. Image(size).indirect = [u \in Units |-> Number(IF NDIRECT + 1 + u < F THEN NDIRECT + 1 + u + 1 ELSE 0)]
    <2>1. PICK ind : ind = IF nb > NDIRECT THEN NDIRECT + 1 ELSE 0
      OBVIOUS
    <2>2. Image(size).indirect = [u \in Units |-> Number(IF NDIRECT + u < nb THEN ind + u + 1 ELSE 0)]
      BY <1>1, <2>1 DEF Image, Units, NINDIRECT
    <2>3. ASSUME NEW u \in Units
          PROVE  (IF NDIRECT + u < nb THEN ind + u + 1 ELSE 0) = IF NDIRECT + 1 + u < F THEN NDIRECT + 1 + u + 1 ELSE 0
      BY <1>10, <1>11, <2>1, Widths, SMT DEF Units
    <2> QED BY <2>2, <2>3
  <1>16. Image(size).bn = [b \in Block |-> IF b <= NDIRECT THEN b - 1 ELSE b - 2]
    BY DEF Image
  <1> QED BY <1>2, <1>10, <1>11, <1>12, <1>13, <1>14, <1>15, <1>16

LEMMA ImageExact ==
    ASSUME NEW first \in Inode, NEW size \in Sizes,
           NEW U, U = {b \in Block : b < Image(size).freeblock},
           NEW D, D = ImageData(first, size), NEW A, A = ImageAddrs(first, size)
    PROVE  Exact(U, D, A) /\ Reads(D, A, first, size) /\ size \in Nat
  <1>1. PICK nb, F \in Nat :
             /\ size \in Nat /\ size <= nb * BSIZE /\ nb <= MAXFILE /\ F <= NBlocks
             /\ F = IF nb > NDIRECT THEN nb + 1 ELSE nb
             /\ Image(size).freeblock = F + 1
             /\ Image(size).addrs = [k \in Slots |-> IF k < F THEN k + 1 ELSE 0]
             /\ Image(size).indirect = [u \in Units |-> Number(IF NDIRECT + 1 + u < F THEN NDIRECT + 1 + u + 1 ELSE 0)]
             /\ Image(size).bn = [b \in Block |-> IF b <= NDIRECT THEN b - 1 ELSE b - 2]
    BY ImageIs
  <1>2. U = 1 .. F
    BY SMT, <1>1, Widths DEF Block
  <1>3. \A b \in Block : b <= F /\ b # NDIRECT + 1 =>
            D[b] = [u \in Units |-> LET o == (IF b <= NDIRECT THEN b - 1 ELSE b - 2) * BSIZE + u
                                    IN  IF o < size THEN <<first, o>> ELSE Number(0)]
    <2> SUFFICES ASSUME NEW b \in Block, b <= F, b # NDIRECT + 1
                 PROVE  D[b] = [u \in Units |-> LET o == (IF b <= NDIRECT THEN b - 1 ELSE b - 2) * BSIZE + u
                                                IN  IF o < size THEN <<first, o>> ELSE Number(0)]
      OBVIOUS
    <2>1. ~(b >= Image(size).freeblock)
      BY <1>1, Widths, SMT DEF Block
    <2>2. b # Image(size).addrs[NDIRECT]
      BY <1>1, Widths DEF Block
    <2>3. D[b] = ImageFilled(first, size, b)
      BY <2>1, <2>2 DEF ImageData
    <2>4. Image(size).bn[b] = IF b <= NDIRECT THEN b - 1 ELSE b - 2
      BY <1>1
    <2> QED BY <2>3, <2>4 DEF ImageFilled
  <1>4. NDIRECT < F => /\ NDIRECT + 1 \in Block /\ A[first][NDIRECT] = NDIRECT + 1
                       /\ D[NDIRECT + 1] = [u \in Units |->
                             Number(IF NDIRECT + 1 + u < F THEN NDIRECT + 1 + u + 1 ELSE 0)]
    <2> SUFFICES ASSUME NDIRECT < F
                 PROVE  /\ NDIRECT + 1 \in Block /\ A[first][NDIRECT] = NDIRECT + 1
                        /\ D[NDIRECT + 1] = Image(size).indirect
      BY <1>1
    <2>1. NDIRECT + 1 \in Block /\ Image(size).addrs[NDIRECT] = NDIRECT + 1 /\ ~(NDIRECT + 1 >= Image(size).freeblock)
      BY <1>1, Widths, SMT DEF Block
    <2> QED BY <2>1 DEF ImageData, ImageAddrs
  <1>5. \A b \in Block : b > F => D[b] = Zeroes
    BY <1>1, Widths, SMT DEF ImageData, Block
  <1>6. /\ A[first] = [k \in Slots |-> IF k < F THEN k + 1 ELSE 0]
        /\ \A i \in Inode : i # first => A[i] = NoAddrs
    BY <1>1 DEF ImageAddrs
  <1>7. \A k \in Place : At(D, A, first, k) = IF k < F THEN k + 1 ELSE 0
    <2> SUFFICES ASSUME NEW k \in Place PROVE At(D, A, first, k) = IF k < F THEN k + 1 ELSE 0
      OBVIOUS
    <2>1. CASE k <= NDIRECT
      BY <1>6, <2>1, Widths, SMT DEF At, Slots
    <2>2. CASE ~(k <= NDIRECT) /\ ~(NDIRECT < F)
      <3>1. A[first][NDIRECT] = 0 /\ ~(k < F)
        BY <1>6, <2>2, Widths, SMT
      <3> QED BY <2>2, <3>1 DEF At
    <2>3. CASE ~(k <= NDIRECT) /\ NDIRECT < F
      <3>1. PICK u : u = k - NDIRECT - 1
        OBVIOUS
      <3>2. u \in Units /\ NDIRECT + 1 + u = k /\ NDIRECT + 1 # 0
        BY SMT, <2>3, <3>1, Widths DEF Units
      <3>3. D[NDIRECT + 1][u] = Number(IF k < F THEN k + 1 ELSE 0)
        BY <1>4, <2>3, <3>2
      <3>4. At(D, A, first, k) = D[NDIRECT + 1][u][2]
        BY <1>4, <2>3, <3>1, <3>2 DEF At
      <3> QED BY SMT, <3>3, <3>4 DEF Number
    <2> QED BY <2>1, <2>2, <2>3
  <1>8. \A i \in Inode, k \in Place : i # first => At(D, A, i, k) = 0
    <2> SUFFICES ASSUME NEW i \in Inode, NEW k \in Place, i # first PROVE At(D, A, i, k) = 0
      OBVIOUS
    <2>1. A[i][NDIRECT] = 0 /\ (k <= NDIRECT => A[i][k] = 0)
      BY <1>6, NoPlaces, Widths, SMT DEF Slots
    <2> QED BY <2>1 DEF At
  <1>9. \A j \in Inode, k \in Place : At(D, A, j, k) # 0 => j = first /\ k < F /\ At(D, A, j, k) = k + 1
    BY <1>7, <1>8
  <1>10. Number(0) \in Unit /\ \A b \in 0 .. NBlocks : Number(b) \in {Null} \X (0 .. NBlocks)
    BY Widths, SMT DEF Number, Unit
  <1>11. ASSUME NEW u \in Units PROVE Number(IF NDIRECT + 1 + u < F THEN NDIRECT + 1 + u + 1 ELSE 0) \in {Null} \X (0 .. NBlocks)
    <2>1. (IF NDIRECT + 1 + u < F THEN NDIRECT + 1 + u + 1 ELSE 0) \in 0 .. NBlocks
      BY <1>1, Widths, SMT DEF Units
    <2> QED BY <1>10, <2>1
  <1>12. D \in [Block -> [Units -> Unit]]
    <2>1. D = [b \in Block |-> D[b]]
      BY DEF ImageData
    <2>2. ASSUME NEW b \in Block PROVE D[b] \in [Units -> Unit]
      <3>1. CASE b > F
        BY <1>5, <1>10, <3>1 DEF Zeroes, Units
      <3>2. CASE b = NDIRECT + 1 /\ b <= F
        <4>1. NDIRECT < F
          BY <3>2, Widths, SMT
        <4> QED BY <1>4, <1>11, <3>2, <4>1 DEF Unit
      <3>3. CASE b # NDIRECT + 1 /\ b <= F
        <4>1. PICK n : n = IF b <= NDIRECT THEN b - 1 ELSE b - 2
          OBVIOUS
        <4>2. n \in Nat
          BY <3>3, <4>1, Widths, SMT DEF Block
        <4>3. D[b] = [u \in Units |-> LET o == n * BSIZE + u IN IF o < size THEN <<first, o>> ELSE Number(0)]
          BY <1>3, <3>3, <4>1
        <4>4. ASSUME NEW u \in Units PROVE n * BSIZE + u \in Nat
          BY <4>2, TimesMono, Widths, SMT DEF Units
        <4>5. ASSUME NEW u \in Units, NEW o \in Nat PROVE (IF o < size THEN <<first, o>> ELSE Number(0)) \in Unit
          BY <1>10 DEF Unit
        <4> QED BY <4>3, <4>4, <4>5
      <3>4. b > F \/ b <= F
        BY Widths, SMT DEF Block
      <3> QED BY <3>1, <3>2, <3>3, <3>4
    <2> QED BY <2>1, <2>2
  <1>13. A \in [Inode -> [Slots -> 0 .. NBlocks]]
    <2>1. NoAddrs \in [Slots -> 0 .. NBlocks]
      BY Widths, SMT DEF NoAddrs, Slots
    <2>2. A[first] \in [Slots -> 0 .. NBlocks]
      BY <1>1, <1>6, Widths, SMT DEF Slots
    <2>3. A = [j \in Inode |-> A[j]]
      BY DEF ImageAddrs
    <2>4. \A j \in Inode : A[j] \in [Slots -> 0 .. NBlocks]
      BY <1>6, <2>1, <2>2
    <2> QED BY <2>3, <2>4
  <1>14. DiskType(U, D, A)
    BY <1>1, <1>2, <1>12, <1>13, Widths DEF DiskType, Block
  <1>15. Indirects(D, A)
    <2> SUFFICES ASSUME NEW j \in Inode, A[j][NDIRECT] # 0, NEW u \in Units
                 PROVE  D[A[j][NDIRECT]][u] \in {Null} \X (0 .. NBlocks)
      BY DEF Indirects
    <2>1. j = first
      BY <1>6, NoPlaces, Widths
    <2>2. NDIRECT < F
      BY <1>6, <2>1, Widths
    <2> QED BY <1>4, <1>11, <2>1, <2>2
  <1>16. Exact(U, D, A)
    <2>1. \A j \in Inode, k \in Place : At(D, A, j, k) # 0 => At(D, A, j, k) \in U
      BY <1>2, <1>9, Widths, SMT
    <2>2. ASSUME NEW b \in U PROVE \E j \in Inode, k \in Place : At(D, A, j, k) = b
      <3>1. b - 1 \in Place /\ b - 1 < F /\ (b - 1) + 1 = b
        BY SMT, <1>1, <1>2, Widths
      <3>2. At(D, A, first, b - 1) = b
        BY <1>7, <3>1
      <3> QED BY <3>1, <3>2
    <2>3. ASSUME NEW i \in Inode, NEW j \in Inode, NEW k \in Place, NEW m \in Place,
                 At(D, A, i, k) = At(D, A, j, m), At(D, A, i, k) # 0
          PROVE  i = j /\ k = m
      <3>1. i = first /\ j = first /\ k + 1 = m + 1
        BY <1>9, <2>3
      <3> QED BY <3>1, Widths, SMT
    <2> QED BY <1>14, <1>15, <2>1, <2>2, <2>3, SMT DEF Exact
  <1>17. Reads(D, A, first, size)
    <2> SUFFICES ASSUME NEW x \in 0 .. size - 1 PROVE ReadsAt(D, A, first, x)
      BY DEF Reads
    <2>1. x \in Nat /\ x < nb * BSIZE
      <3>1. PICK e : e = nb * BSIZE
        OBVIOUS
      <3>2. e \in Nat /\ size <= e
        BY <1>1, <3>1, TimesMono
      <3> QED BY <1>1, <3>1, <3>2, SMT
    <2>2. PICK y \in Nat, v \in Units : y = x \div BSIZE /\ v = x % BSIZE /\ x = y * BSIZE + v
      BY <2>1, DivMod
    <2>3. y < nb
      BY <1>1, <2>1, <2>2, DivBelow
    <2>4. PICK b : b = PlaceOf(y) + 1
      OBVIOUS
    <2>5. /\ PlaceOf(y) \in Place /\ PlaceOf(y) < F /\ b \in Block /\ b <= F /\ b # NDIRECT + 1 /\ b # 0 /\ y < MAXFILE
          /\ y = IF b <= NDIRECT THEN b - 1 ELSE b - 2
      BY SMT, <1>1, <2>3, <2>4, Widths DEF PlaceOf, Block
    <2>6. At(D, A, first, PlaceOf(y)) = b
      BY <1>7, <2>4, <2>5
    <2>7. D[b] = [u \in Units |-> LET o == y * BSIZE + u IN IF o < size THEN <<first, o>> ELSE Number(0)]
      BY <1>3, <2>5
    <2>8. D[b][v] = <<first, x>>
      <3>1. D[b][v] = IF y * BSIZE + v < size THEN <<first, y * BSIZE + v>> ELSE Number(0)
        BY <2>2, <2>7, Zenon
      <3>2. y * BSIZE + v = x /\ x < size
        BY SMT, <1>1, <2>2
      <3> QED BY <3>1, <3>2
    <2> QED BY <2>2, <2>5, <2>6, <2>8 DEF ReadsAt
  <1> QED BY <1>1, <1>16, <1>17

LEMMA InitOK == Init => BlocksInv
  <1> SUFFICES ASSUME Init PROVE BlocksInv
    OBVIOUS
  <1>1. PICK first \in Inode, size \in Sizes :
          /\ used = {b \in Block : b < Image(size).freeblock}
          /\ data = ImageData(first, size)
          /\ ino = [i \in Inode |-> [size |-> IF i = first THEN size ELSE 0, lock |-> Null,
                                     addrs |-> IF i = first THEN Image(size).addrs ELSE NoAddrs]]
          /\ off \in [File -> {o \in Offs : o <= size}]
          /\ wr = [p \in Proc |-> NoCall]
    BY Zenon DEF Init, ImageData, ImageFilled, Units
  <1>2. Addrs = ImageAddrs(first, size)
    BY <1>1 DEF Addrs, ImageAddrs
  <1>3. Exact(used, data, Addrs) /\ Reads(data, Addrs, first, size) /\ size \in Nat
    BY <1>1, <1>2, ImageExact
  <1>4. BlocksType
    <2>1. \A i \in Inode : Addrs[i] \in [Slots -> 0 .. NBlocks]
      BY <1>3 DEF Exact, DiskType
    <2>2. \A i \in Inode : (IF i = first THEN Image(size).addrs ELSE NoAddrs) \in [Slots -> 0 .. NBlocks]
      BY <1>2, <2>1 DEF ImageAddrs
    <2>3. ino \in [Inode -> [size : Nat, addrs : [Slots -> 0 .. NBlocks], lock : Proc \cup {Null}]]
      BY <1>1, <1>3, <2>2
    <2>4. off \in [File -> Nat]
      BY <1>1, BlocksAssumption
    <2>5. wr \in [Proc -> Calls]
      BY <1>1, IdleOK
    <2> QED BY <2>3, <2>4, <2>5 DEF BlocksType
  <1>5. ASSUME NEW i \in Inode PROVE Reads(data, Addrs, i, ino[i].size)
    <2>1. CASE i = first
      BY <1>1, <1>3, <2>1
    <2>2. CASE i # first
      <3>1. ino[i].size = 0
        BY <1>1, <2>2
      <3> QED BY SMT, <3>1 DEF Reads
    <2> QED BY <2>1, <2>2
  <1>6. \A p \in Proc : CallInv(p)
    BY <1>1, IdleOK DEF CallInv
  <1> QED BY <1>3, <1>4, <1>5, <1>6 DEF BlocksInv
-----------------------------------------------------------------------------
LEMMA BlocksStep == BlocksInv /\ [Next]_vars => BlocksInv'
  <1> SUFFICES ASSUME BlocksInv, [Next]_vars PROVE BlocksInv'
    OBVIOUS
  <1>1. CASE UNCHANGED vars
    BY <1>1 DEF vars, BlocksInv, BlocksType, CallInv, Addrs
  <1>2. CASE Next
    BY <1>2, TruncStep, ReopenStep, WriteStep, WriteMoreStep, LoopStep, LoopEndStep DEF Next
  <1> QED BY <1>1, <1>2

\* The inductive invariant: free map and inodes agree, every file reads as it was
\* written, and a call in the middle of writei knows how far it is.
THEOREM BlocksInvariance == Spec => []BlocksInv
  BY InitOK, BlocksStep, PTL DEF Spec

LEMMA BitmapHolds == BlocksInv => BitmapExact
  <1> SUFFICES ASSUME BlocksInv, NEW b \in Block
               PROVE  Cardinality({e \in Inode \X Place : BlockAt(e[1], e[2]) = b}) = IF b \in used THEN 1 ELSE 0
    BY DEF BitmapExact
  <1>1. PICK R : R = {e \in Inode \X Place : BlockAt(e[1], e[2]) = b}
    OBVIOUS
  <1>2. \A i \in Inode, k \in Place : BlockAt(i, k) = At(data, Addrs, i, k)
    BY AddrsAre DEF BlockAt, At
  <1>3. Exact(used, data, Addrs) /\ b # 0
    BY AddrsAre, Widths
  <1>4. CASE b \notin used
    <2>1. R = {}
      BY <1>1, <1>2, <1>3, <1>4, SMT DEF Exact
    <2> QED BY <1>1, <1>4, <2>1, FS_EmptySet
  <1>5. CASE b \in used
    <2>1. PICK i \in Inode, k \in Place : At(data, Addrs, i, k) = b
      BY <1>3, <1>5 DEF Exact
    <2>2. ASSUME NEW j \in Inode, NEW m \in Place, At(data, Addrs, j, m) = b PROVE i = j /\ k = m
      BY <1>3, <2>1, <2>2, SMT DEF Exact
    <2>3. R = {<<i, k>>}
      BY SMT, <1>1, <1>2, <2>1, <2>2
    <2> QED BY <1>1, <1>5, <2>3, FS_Singleton
  <1> QED BY <1>4, <1>5

\* The free map of balloc and bfree is exact: a block is marked if and only if an
\* inode refers to it, at one place.
THEOREM FreeMapExact == Spec => []BitmapExact
  BY BlocksInvariance, BitmapHolds, PTL

LEMMA ReadsHold == BlocksInv => ReadsBack
  <1> SUFFICES ASSUME BlocksInv, NEW i \in Inode, NEW o \in 0 .. ino[i].size - 1 PROVE ReadAt(i, o) = <<i, o>>
    BY DEF ReadsBack
  <1>1. ReadsAt(data, Addrs, i, o)
    BY AddrsAre DEF Reads
  <1>2. PICK q \in Nat : q = o \div BSIZE
    BY SMT, DivMod, AddrsAre
  <1>3. PICK b : b = At(data, Addrs, i, PlaceOf(q))
    OBVIOUS
  <1>4. b # 0 /\ data[b][o % BSIZE] = <<i, o>>
    BY <1>1, <1>2, <1>3 DEF ReadsAt
  <1>5. b = IF q < NDIRECT THEN ino[i].addrs[q] ELSE data[ino[i].addrs[NDIRECT]][q - NDIRECT][2]
    <2>1. Addrs[i] = ino[i].addrs
      BY AddrsAre
    <2>2. CASE q < NDIRECT
      <3>1. PlaceOf(q) = q /\ q <= NDIRECT
        BY <2>2, Widths, SMT DEF PlaceOf
      <3> QED BY <1>3, <2>1, <2>2, <3>1 DEF At
    <2>3. CASE ~(q < NDIRECT)
      <3>1. PlaceOf(q) = q + 1 /\ ~(q + 1 <= NDIRECT) /\ (q + 1) - NDIRECT - 1 = q - NDIRECT
        BY <2>3, Widths, SMT DEF PlaceOf
      <3> QED BY <1>3, <1>4, <2>1, <2>3, <3>1 DEF At
    <2> QED BY <2>2, <2>3
  <1> QED BY <1>2, <1>4, <1>5 DEF ReadAt

\* What writei wrote, readi reads, whatever was allocated, freed or written since.
THEOREM ReadsWhatWasWritten == Spec => []ReadsBack
  BY BlocksInvariance, ReadsHold, PTL

LEMMA OpHolds == BlocksInv => OpFits
  <1> SUFFICES ASSUME BlocksInv, NEW p \in Proc
               PROVE  Cardinality(wr[p].logged \cup {IBLOCK(IpOf[f]) : f \in {wr[p].f} \ {Null}}) <= MAXOPBLOCKS
    BY DEF OpFits
  <1>1. PICK c, I, x : c = wr[p] /\ I = {IBLOCK(IpOf[f]) : f \in {c.f} \ {Null}} /\ x = IBLOCK(IpOf[c.f])
    OBVIOUS
  <1>2. I \subseteq {x}
    BY <1>1
  <1>3. MAXOPBLOCKS \in Nat /\ MAXOPBLOCKS >= 4
    BY BlocksAssumption
  <1>4. CallOK(p, c, data, Addrs, ino[IpOf[c.f]].size, ino[IpOf[c.f]].lock, off[c.f])
    BY <1>1, AddrsAre DEF CallInv
  <1>5. CASE ~Writing(c)
    <2>1. c.logged \cup I \subseteq {x}
      BY <1>2, <1>4, <1>5 DEF CallOK
    <2>2. IsFiniteSet({x}) /\ Cardinality({x}) = 1
      BY FS_Singleton
    <2>3. Cardinality(c.logged \cup I) <= 1
      BY <2>1, <2>2, FS_Subset
    <2>4. IsFiniteSet(c.logged \cup I)
      BY <2>1, <2>2, FS_Subset
    <2>5. Cardinality(c.logged \cup I) \in Nat
      BY <2>4, FS_CardinalityType
    <2> QED BY SMT, <1>1, <1>3, <2>3, <2>5
  <1>6. CASE Writing(c)
    <2>1. IsFiniteSet(c.logged) /\ Cardinality(Extra(c, Addrs)) <= 2 * Room + 1
      BY <1>4, <1>6 DEF CallOK, InWritei
    <2>2. PICK a, E, y, z : /\ a = Addrs[IpOf[c.f]][NDIRECT] /\ E = Extra(c, Addrs)
                            /\ y = Data(a) /\ z = BBLOCK(a)
      OBVIOUS
    <2>3. c.logged \subseteq E \cup {y, z} /\ E \subseteq c.logged
      BY <2>2 DEF Extra, Other, ForIndirect
    <2>4. IsFiniteSet(E) /\ Cardinality(E) <= 2 * Room + 1
      BY <2>1, <2>2, <2>3, FS_Subset
    <2>5. PICK V, W : V = E \cup {y, z} /\ W = V \cup {x, x}
      OBVIOUS
    <2>6. IsFiniteSet(V) /\ Cardinality(V) \in Nat /\ Cardinality(E) \in Nat /\ Cardinality(V) <= Cardinality(E) + 2
      BY <2>4, <2>5, AddTwo
    <2>7. IsFiniteSet(W) /\ Cardinality(W) \in Nat /\ Cardinality(W) <= Cardinality(V) + 1
      <3>1. W = V \cup {x}
        BY <2>5
      <3>2. IsFiniteSet(W) /\ (Cardinality(W) = Cardinality(V) \/ Cardinality(W) = Cardinality(V) + 1)
        BY <2>6, <3>1, FS_AddElement
      <3> QED BY <2>6, <3>2, SMT
    <2>8. PICK T : T = c.logged \cup I
      OBVIOUS
    <2>9. T \subseteq W
      BY <1>2, <2>3, <2>5, <2>8
    <2>10. IsFiniteSet(T) /\ Cardinality(T) <= Cardinality(W)
      BY <2>7, <2>9, FS_Subset
    <2>11. Cardinality(T) \in Nat
      BY <2>10, FS_CardinalityType
    <2>12. Cardinality(T) <= MAXOPBLOCKS
      BY <1>3, <2>4, <2>6, <2>7, <2>10, <2>11, Constants, SMT
    <2> QED BY <1>1, <2>8, <2>12
  <1> QED BY <1>5, <1>6

\* filewrite cuts a write so that a transaction never logs more than begin_op has
\* reserved for it.
THEOREM WritesFit == Spec => []OpFits
  BY BlocksInvariance, OpHolds, PTL
=============================================================================
