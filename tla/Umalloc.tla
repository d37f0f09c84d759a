------------------------------- MODULE Umalloc ------------------------------
(***************************************************************************)
(* malloc and free of the user programs of xv6 (user/umalloc.c).  Memory   *)
(* is counted in units of a Header; base is unit 0, below the heap.  A     *)
(* program may also call sbrk() itself, which leaves holes in the heap.    *)
(***************************************************************************)
EXTENDS Naturals, FiniteSets, FiniteSetsExt, Functions

CONSTANTS Units,        \* the units that sbrk() can deliver
          MinUnits,     \* 4096 in morecore()
          Requests,     \* sizes asked for, in units, the header included
          Gaps          \* what the program takes by sbrk() itself

base == 0
Null == Units + 1

VARIABLES header,       \* the headers of the free and the used blocks
          freep, brk,
          used,         \* the blocks that malloc() has returned, with their sizes
          core          \* the units that morecore() has got

heapVars == <<header, freep, brk, used, core>>

HeapInit ==
    /\ header = [b \in {} |-> {}]
    /\ freep = Null
    /\ brk = 1
    /\ used = [b \in {} |-> 0]
    /\ core = {}

Header(ptr, size) == [ptr |-> ptr, size |-> size]
\* h with these headers in place of the one of the block gone.
Set(h, new, gone) == [b \in (DOMAIN h \cup DOMAIN new) \ gone |->
                         IF b \in DOMAIN new THEN new[b] ELSE h[b]]
One(b, hd) == [x \in {b} |-> hd]

RECURSIVE place(_, _, _), first(_, _, _, _)

\* The free block behind which bp belongs, looked for from p on.
place(h, p, bp) ==
    LET next == h[p].ptr IN
    IF \/ p < bp /\ bp < next
       \/ p >= next /\ (bp > p \/ bp < next)
    THEN p ELSE place(h, next, bp)

\* Mutant: a block is not joined with the free block below it.
free_Above(s, bp) ==
    LET p == place(s.h, s.freep, bp)
        next == s.h[p].ptr
        above == bp + s.h[bp].size = next
        b == IF above THEN Header(s.h[next].ptr, s.h[bp].size + s.h[next].size)
             ELSE Header(next, s.h[bp].size)
    IN [h |-> Set(Set(s.h, One(bp, b), IF above THEN {next} ELSE {}),
                  One(p, Header(bp, s.h[p].size)), {}),
        freep |-> p]

free(s, bp) ==
    LET p == place(s.h, s.freep, bp)
        next == s.h[p].ptr
        above == bp + s.h[bp].size = next
        b == IF above THEN Header(s.h[next].ptr, s.h[bp].size + s.h[next].size)
             ELSE Header(next, s.h[bp].size)
        h == Set(s.h, One(bp, b), IF above THEN {next} ELSE {})
        below == p + h[p].size = bp
    IN [h |-> IF below THEN Set(h, One(p, Header(b.ptr, h[p].size + b.size)), {bp})
              ELSE Set(h, One(p, Header(bp, h[p].size)), {}),
        freep |-> p]

\* The block in front of the first free one that is large enough, or Null
\* when the list is through.
first(s, prevp, p, n) ==
    IF s.h[p].size >= n THEN prevp
    ELSE IF p = s.freep THEN Null
    ELSE first(s, p, s.h[p].ptr, n)
found(s, n) == first(s, s.freep, s.h[s.freep].ptr, n)

\* The block is unlinked, or its upper end is cut off.
take(s, prevp, n) ==
    LET p == s.h[prevp].ptr
        rest == s.h[p].size - n
    IN IF rest = 0
       THEN [bp |-> p, h |-> Set(Set(s.h, One(prevp, Header(s.h[p].ptr, s.h[prevp].size)), {}),
                                 One(p, Header(base, n)), {}), freep |-> prevp]
       ELSE [bp |-> p + rest, freep |-> prevp,
             h |-> Set(Set(s.h, One(p, Header(s.h[p].ptr, rest)), {}),
                       One(p + rest, Header(base, n)), {})]

morecore(s, n) ==
    LET nu == IF n < MinUnits THEN MinUnits ELSE n
        h == Set(s.h, One(brk, Header(base, nu)), {})
    IN [ok |-> brk + nu <= Units + 1, nu |-> nu, s |-> free([s EXCEPT !.h = h], brk)]

malloc(n) ==
    LET s == IF freep = Null THEN [h |-> One(base, Header(base, 0)), freep |-> base]
             ELSE [h |-> header, freep |-> freep]
        more == morecore(s, n)
        fits == found(s, n) # Null
        t == IF fits THEN s ELSE more.s
        r == take(t, found(t, n), n)
    IN IF fits \/ more.ok
       THEN /\ header' = r.h /\ freep' = r.freep
            /\ used' = Set(used, One(r.bp, n), {})
            /\ brk' = IF fits THEN brk ELSE brk + more.nu
            /\ core' = core \cup (IF fits THEN {} ELSE brk..(brk + more.nu - 1))
       ELSE header' = s.h /\ freep' = s.freep /\ UNCHANGED <<brk, used, core>>

Free(bp) ==
    LET s == free([h |-> header, freep |-> freep], bp) IN
    /\ header' = s.h /\ freep' = s.freep
    /\ used' = Restrict(used, DOMAIN used \ {bp})
    /\ UNCHANGED <<brk, core>>

\* The program's own sbrk().
Sbrk(k) ==
    /\ brk + k <= Units + 1
    /\ brk' = brk + k
    /\ UNCHANGED <<header, freep, used, core>>

HeapNext ==
    \/ \E n \in Requests : malloc(n)
    \/ \E bp \in DOMAIN used : Free(bp)
    \/ \E k \in Gaps : Sbrk(k)
-----------------------------------------------------------------------------
FreeBlocks == DOMAIN header \ DOMAIN used
UnitsOf(b) == b..(b + header[b].size - 1)

\* Every unit from morecore() is in one block, a used block keeps the size it
\* was asked for, and the free list goes once around the free blocks by address
\* with no two that touch: whatever is freed, in any order, with holes in the
\* heap and calls that fail (malloc, free).
HeapSound ==
    /\ UNION {UnitsOf(b) : b \in DOMAIN header} = core
    /\ MapThenSumSet(LAMBDA b : header[b].size, DOMAIN header) = Cardinality(core)
    /\ \A b \in DOMAIN used : header[b].size = used[b]
    /\ \A b \in FreeBlocks :
          LET above == {d \in FreeBlocks : d > b} IN
          /\ header[b].ptr = IF above = {} THEN base ELSE Min(above)
          /\ b + header[b].size \notin above
    /\ freep # Null => freep \in FreeBlocks /\ base \in FreeBlocks
=============================================================================
