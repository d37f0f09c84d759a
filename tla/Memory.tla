------------------------------- MODULE Memory -------------------------------
(* Physical pages and user address spaces: kernel/kalloc.c, kernel/vm.c,     *)
(* kernel/exec.c, and the parts of kernel/proc.c and kernel/sysproc.c that   *)
(* allocate, copy, grow and free them.                                       *)
(*                                                                           *)
(* Pages are alike, so the free list is a number, and a page table is the    *)
(* set of the tables and of the leaves it has.  Addresses are counted in     *)
(* units of 1/PGSIZE page, tables have Fan entries.  An address space is     *)
(* used by its process only, and all that other CPUs do to a call is to take *)
(* pages before it gets to them: so a call is one step, and others (a pipe   *)
(* is a page, too) may have taken any number of pages before.                *)
EXTENDS Integers, FiniteSets, SequencesExt

CONSTANTS Proc, initproc,
          NPages,      \* pages that kinit has put into the free list
          PGSIZE, Fan,
          Deltas,      \* arguments of sbrk
          Programs,    \* per program: where its segments end
          Args,        \* pages of arguments of exec
          MaxPipes

VARIABLES
    free,    \* length of kmem.freelist
    proc,    \* per process: state, sz, pt
    pipes,   \* pages that pipes have
    ret,     \* what the last call returned: "ok" or "fail"
    panic

vars == <<free, proc, pipes, ret, panic>>

MaxPage == Fan * Fan * Fan          \* MAXVA: three levels
TRAMPOLINE == MaxPage - 1
TRAPFRAME == MaxPage - 2
PGROUNDUP(sz) == (sz + PGSIZE - 1) \div PGSIZE     \* as a number of pages

NoTable == [mid |-> {}, low |-> {}, leaf |-> {}, guard |-> {}]
Unused == [state |-> "unused", sz |-> 0, pt |-> NoTable]

\* m: a call at work, with n pages it can get, a page table, and whether the
\* last step was successful
Work(n, pt) == [n |-> n, pt |-> pt, ok |-> TRUE, panic |-> FALSE]

kalloc(m) == IF m.n = 0 THEN [m EXCEPT !.ok = FALSE] ELSE [m EXCEPT !.n = @ - 1, !.ok = TRUE]

\* the table of m that level f has at index i, which a page is taken for
GotTable(m, f, i) == IF m.ok THEN [m EXCEPT !.pt[f] = @ \cup {i}] ELSE m
Table(m, f, i) ==
    IF ~m.ok \/ i \in m.pt[f] THEN m ELSE GotTable(kalloc(m), f, i)

\* walk with alloc: tables of level 1, then of level 0
walk(m, va) == Table(Table(m, "mid", va \div (Fan * Fan)), "low", va \div Fan)

\* mappages of one page, once walk has found its place
Mapped(w, va) ==
    IF ~w.ok THEN w ELSE [w EXCEPT !.panic = @ \/ va \in w.pt.leaf, !.pt.leaf = @ \cup {va}]
mappages(m, va) == Mapped(walk(m, va), va)

uvmunmap(m, from, to, do_free) ==
    LET gone == m.pt.leaf \cap from .. to - 1
    IN  [m EXCEPT !.n = @ + (IF do_free THEN Cardinality(gone) ELSE 0),
                  !.pt.leaf = @ \ gone, !.pt.guard = @ \ gone]

\* Mutant: a page that cannot be mapped is not freed.
AllocPage_Leaks(m, va) == IF ~m.ok THEN m ELSE mappages(kalloc(m), va)

\* kalloc and mappages; a page that cannot be mapped is freed again
OrFreed(m) == IF m.ok THEN m ELSE [m EXCEPT !.n = @ + 1]
MapPage(a, va) == IF a.ok THEN OrFreed(mappages(a, va)) ELSE a
AllocPage(m, va) == IF ~m.ok THEN m ELSE MapPage(kalloc(m), va)

uvmdealloc(m, oldsz, newsz) ==
    IF newsz >= oldsz THEN m ELSE uvmunmap(m, PGROUNDUP(newsz), PGROUNDUP(oldsz), TRUE)

Pages(from, to) == [i \in 1 .. to - from |-> from + i - 1]

\* uvmalloc: on failure what was mapped is unmapped, the tables stay
OrUnmapped(m, from, to) == IF m.ok THEN m ELSE uvmunmap(m, from, to, TRUE)
uvmalloc(m, oldsz, newsz) ==
    LET a == PGROUNDUP(oldsz)  b == PGROUNDUP(newsz)
    IN  OrUnmapped(FoldLeft(AllocPage, m, Pages(a, b)), a, b)

\* uvmfree, with freewalk: the root and all tables, which must have no leaves
freewalk(m) ==
    [m EXCEPT !.n = @ + 1 + Cardinality(m.pt.mid) + Cardinality(m.pt.low),
              !.pt = NoTable, !.panic = @ \/ m.pt.leaf # {}]
uvmfree(m, sz) == freewalk(uvmunmap(m, 0, PGROUNDUP(sz), TRUE))

proc_freepagetable(m, sz) == uvmfree(uvmunmap(m, TRAPFRAME, MaxPage, FALSE), sz)

\* proc_pagetable: uvmcreate, then the trampoline and the trapframe; when one
\* of them cannot be mapped what is above it is unmapped and the table freed
OrGivenUp(m, va) == IF m.ok THEN m ELSE uvmfree(uvmunmap(m, va + 1, MaxPage, FALSE), 0)
MapSpecial(m, va) == IF m.ok THEN OrGivenUp(mappages(m, va), va) ELSE m
proc_pagetable(n) == MapSpecial(MapSpecial(kalloc(Work(n, NoTable)), TRAMPOLINE), TRAPFRAME)

\* allocproc: the trapframe, and a page table
allocproc(n) ==
    IF n = 0 THEN [Work(0, NoTable) EXCEPT !.ok = FALSE] ELSE OrFreed(proc_pagetable(n - 1))

\* uvmcopy of the pages that old has, into m; on failure they are unmapped
Guarded(m, guard) == IF m.ok THEN [m EXCEPT !.pt.guard = guard] ELSE m
uvmcopy(old, m, sz) ==
    LET all == Pages(0, PGROUNDUP(sz))
        One(x, va) == IF va \in old.leaf THEN AllocPage(x, va) ELSE x
    IN  Guarded(OrUnmapped(FoldLeft(One, m, all), 0, PGROUNDUP(sz)), old.guard)
-----------------------------------------------------------------------------
Init ==
    LET m == allocproc(NPages)          \* userinit
    IN  /\ free = m.n
        /\ proc = [q \in Proc |-> IF q = initproc THEN [Unused EXCEPT !.state = "live", !.pt = m.pt] ELSE Unused]
        /\ pipes = 0 /\ ret = "ok" /\ panic = FALSE

\* A call of p ends as m, with size sz.
Ends(p, m, sz) ==
    /\ free' = m.n
    /\ proc' = [proc EXCEPT ![p].pt = m.pt, ![p].sz = sz]
    /\ ret' = IF m.ok THEN "ok" ELSE "fail"
    /\ panic' = (panic \/ m.panic)
    /\ UNCHANGED pipes

\* Mutant: the size is set before uvmalloc is known to be successful.
GrownSize_Before(m, sz, d) == sz + d

GrownSize(m, sz, d) == IF m.ok THEN sz + d ELSE sz

\* sys_sbrk, eager, and growproc.  sz + n is unsigned: below zero it wraps,
\* and uvmdealloc finds nothing to do.
growproc(p, d) ==
    LET sz == proc[p].sz  m == Work(free, proc[p].pt)
        r == uvmalloc(m, sz, sz + d)
    IN  /\ proc[p].state = "live"
        /\ IF d > 0 /\ sz + d > TRAPFRAME * PGSIZE THEN Ends(p, [m EXCEPT !.ok = FALSE], sz)
           ELSE IF d > 0 THEN Ends(p, r, GrownSize(r, sz, d))
           ELSE IF sz + d < 0 THEN Ends(p, m, sz)
           ELSE Ends(p, uvmdealloc(m, sz, sz + d), sz + d)

\* sys_sbrk, lazy: only the size grows
LazySbrk(p, d) ==
    LET sz == proc[p].sz  fits == sz + d <= TRAPFRAME * PGSIZE
    IN  /\ proc[p].state = "live" /\ d > 0
        /\ Ends(p, [Work(free, proc[p].pt) EXCEPT !.ok = fits], IF fits THEN sz + d ELSE sz)

\* Mutant: an address just past the end is taken for a part of the heap.
InHeap_Past(va, sz) == va <= sz

InHeap(va, sz) == va < sz

\* vmfault at the page of address va
vmfault(m, sz, va) ==
    IF ~InHeap(va, sz) \/ va \div PGSIZE \in m.pt.leaf THEN [m EXCEPT !.ok = FALSE]
    ELSE AllocPage(m, va \div PGSIZE)

\* usertrap: a page fault; if vmfault fails the process is killed (which
\* init must not be)
PageFault(p, va) ==
    LET r == vmfault(Work(free, proc[p].pt), proc[p].sz, va)
    IN  /\ proc[p].state = "live" /\ va \div PGSIZE \notin proc[p].pt.leaf
        /\ r.ok \/ p # initproc
        /\ free' = r.n
        /\ proc' = [proc EXCEPT ![p].pt = r.pt, ![p].state = IF r.ok THEN @ ELSE "zombie"]
        /\ ret' = "ok" /\ panic' = (panic \/ r.panic)
        /\ UNCHANGED pipes

\* copyout, copyin, copyinstr of the pages from first to last, with those that
\* are missing; a copy may end earlier, at a page that may not be written or at
\* the end of the string
Copy(p, first, last) ==
    LET One(m, page) ==
            IF ~m.ok THEN m
            ELSE IF page \in m.pt.leaf \ ({TRAMPOLINE, TRAPFRAME} \cup m.pt.guard) THEN m     \* walkaddr
            ELSE vmfault(m, proc[p].sz, page * PGSIZE)
        m == FoldLeft(One, Work(free, proc[p].pt), Pages(first, last + 1))
    IN  /\ proc[p].state = "live"
        /\ free' = m.n
        /\ proc' = [proc EXCEPT ![p].pt = m.pt]
        /\ ret' = "ok" /\ panic' = (panic \/ m.panic)
        /\ UNCHANGED pipes

\* kfork: allocproc, uvmcopy
kfork(p, q) ==
    /\ proc[p].state = "live" /\ proc[q].state = "unused"
    /\ \E a \in {allocproc(free)} : \E c \in {uvmcopy(proc[p].pt, a, proc[p].sz)} :
        \/ /\ ~a.ok
           /\ free' = a.n /\ ret' = "fail" /\ panic' = (panic \/ a.panic) /\ UNCHANGED proc
        \/ /\ a.ok /\ ~c.ok
           /\ \E u \in {proc_freepagetable(c, 0)} :                \* freeproc
                free' = u.n + 1 /\ ret' = "fail" /\ panic' = (panic \/ u.panic)
           /\ UNCHANGED proc
        \/ /\ a.ok /\ c.ok
           /\ free' = c.n /\ ret' = "ok" /\ panic' = (panic \/ c.panic)
           /\ proc' = [proc EXCEPT ![q] = [state |-> "live", sz |-> proc[p].sz, pt |-> c.pt]]
    /\ UNCHANGED pipes

kexit(p) ==
    /\ proc[p].state = "live" /\ p # initproc
    /\ proc' = [proc EXCEPT ![p].state = "zombie"]
    /\ ret' = "ok"
    /\ UNCHANGED <<free, pipes, panic>>

\* the parent's wait
freeproc(p) ==
    LET m == proc_freepagetable(Work(free + 1, proc[p].pt), proc[p].sz)
    IN  /\ proc[p].state = "zombie"
        /\ free' = m.n
        /\ proc' = [proc EXCEPT ![p] = Unused]
        /\ ret' = "ok" /\ panic' = (panic \/ m.panic)
        /\ UNCHANGED pipes
-----------------------------------------------------------------------------
(* exec *)

\* the address space l = [m, sz] with a segment that ends at e
Loaded(m, sz, e) == [m |-> m, sz |-> IF m.ok THEN Max({sz, e}) ELSE sz]
LoadSegment(l, e) == IF l.m.ok THEN Loaded(uvmalloc(l.m, l.sz, e), l.sz, e) ELSE l

\* with the stack and its guard page on top
Stacked(m, base, want) == [m |-> m, sz |-> IF m.ok THEN want ELSE base]
WithStack(l, base) ==
    IF l.m.ok THEN Stacked(uvmalloc(l.m, base, base + 2 * PGSIZE), base, base + 2 * PGSIZE) ELSE l

\* kexec after sys_exec has copied args pages of arguments; stop is the number
\* of segments after which the file cannot be read, or one more when the
\* arguments overflow the stack, or two more when there is no such error
kexec(p, segs, args, stop) ==
    LET old == proc[p]  s == Len(segs)
    IN  /\ old.state = "live"
        /\ \/ free < args /\ ret' = "fail" /\ UNCHANGED <<free, proc, panic>>
           \/ /\ free >= args
              /\ \E t \in {proc_pagetable(free - args)} :
                 \E l \in {FoldLeft(LoadSegment, [m |-> t, sz |-> 0], SubSeq(segs, 1, Min({stop, s})))} :
                 \E base \in {PGROUNDUP(l.sz)} :
                 \E new \in {IF stop > s THEN WithStack(l, base * PGSIZE) ELSE l} :
                    \/ /\ ~t.ok
                       /\ free' = t.n + args /\ ret' = "fail" /\ panic' = (panic \/ t.panic) /\ UNCHANGED proc
                    \/ /\ t.ok /\ (~new.m.ok \/ stop < s + 2)
                       /\ \E bad \in {proc_freepagetable(new.m, new.sz)} :
                            free' = bad.n + args /\ ret' = "fail" /\ panic' = (panic \/ bad.panic)
                       /\ UNCHANGED proc
                    \/ /\ t.ok /\ new.m.ok /\ stop = s + 2
                       /\ \E gone \in {proc_freepagetable(Work(new.m.n, old.pt), old.sz)} :
                            free' = gone.n + args /\ ret' = "ok"
                                /\ panic' = (panic \/ new.m.panic \/ gone.panic)
                       /\ proc' = [proc EXCEPT ![p].sz = new.sz,
                                     ![p].pt = [new.m.pt EXCEPT !.guard = {base}]]     \* uvmclear
        /\ UNCHANGED pipes

\* pipealloc, which takes a page, and the last pipeclose, which frees it
pipealloc ==
    LET m == kalloc(Work(free, NoTable))
    IN  /\ pipes < MaxPipes
        /\ free' = m.n
        /\ pipes' = IF m.ok THEN pipes + 1 ELSE pipes
        /\ ret' = IF m.ok THEN "ok" ELSE "fail"
        /\ UNCHANGED <<proc, panic>>

pipeclose ==
    /\ pipes > 0
    /\ pipes' = pipes - 1 /\ free' = free + 1
    /\ ret' = "ok"
    /\ UNCHANGED <<proc, panic>>

Next ==
    \/ \E p \in Proc :
        \/ \E d \in Deltas : growproc(p, d) \/ LazySbrk(p, d)
        \/ \E va \in 0 .. TRAPFRAME * PGSIZE : PageFault(p, va)
        \/ \E page \in 0 .. TRAPFRAME, k \in 0 .. 1 : Copy(p, page, page + k)
        \/ \E q \in Proc : kfork(p, q)
        \/ \E segs \in Programs, args \in Args : \E stop \in 0 .. Len(segs) + 2 : kexec(p, segs, args, stop)
        \/ kexit(p) \/ freeproc(p)
    \/ pipealloc \/ pipeclose

Spec == Init /\ [][Next]_vars
-----------------------------------------------------------------------------
Live == {p \in Proc : proc[p].state # "unused"}

\* the pages of process p: trapframe, root, tables, and user pages
Owned(p) ==
    LET t == proc[p].pt
    IN  2 + Cardinality(t.mid) + Cardinality(t.low) + Cardinality(t.leaf \ {TRAMPOLINE, TRAPFRAME})

\* No page is lost and none is freed twice, whatever call runs out of memory
\* and wherever it does.
PagesAccounted == free + pipes + MapThenSumSet(Owned, Live) = NPages

\* Page tables are what the kernel takes them to be: no page is mapped twice,
\* and when an address space is freed by its size no leaf is left.
NoPanic == ~panic

\* A fork, exec or sbrk that fails leaves the size and the pages of every
\* process as they were, and takes no page but for tables that stay in use.
FailureUndone ==
    [][\A p \in Proc : ret' = "fail" =>
          /\ proc'[p].sz = proc[p].sz
          /\ proc'[p].pt.leaf = proc[p].pt.leaf]_vars
=============================================================================
