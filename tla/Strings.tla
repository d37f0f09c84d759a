------------------------------- MODULE Strings ------------------------------
(***************************************************************************)
(* The string functions of xv6, in the kernel (kernel/string.c,            *)
(* kernel/printk.c) and for its programs (user/ulib.c, user/printf.c), as  *)
(* they go through memory byte by byte.  Memory is a function from         *)
(* addresses to bytes; a string ends at a byte 0.                          *)
(***************************************************************************)
EXTENDS Integers, Sequences

CONSTANTS LongSize,     \* unsigned long long counts modulo this (2^64)
          BufLen        \* char buf[20] of printint()

RECURSIVE upward(_, _, _, _), downward(_, _, _, _), strncmp(_, _, _, _)
RECURSIVE copied(_, _, _, _), digits(_, _), atoi(_, _)

Put(mem, d, byte) == [mem EXCEPT ![d] = byte]

\* *d++ = *s++ and *--d = *--s, n times.
upward(mem, d, s, n) ==
    IF n <= 0 THEN mem ELSE upward(Put(mem, d, mem[s]), d + 1, s + 1, n - 1)
downward(mem, d, s, n) ==
    IF n <= 0 THEN mem ELSE downward(Put(mem, d + n - 1, mem[s + n - 1]), d, s, n - 1)

\* Mutant: the kernel copies upward although the end of the source is below.
memmove_Upward(mem, d, s, n) ==
    IF s < d /\ s + n < d THEN downward(mem, d, s, n) ELSE upward(mem, d, s, n)

memmove(mem, d, s, n) ==
    IF s < d /\ s + n > d THEN downward(mem, d, s, n) ELSE upward(mem, d, s, n)
\* memmove() of the programs.
umemmove(mem, d, s, n) ==
    IF s > d THEN upward(mem, d, s, n) ELSE downward(mem, d, s, n)

strncmp(mem, p, q, n) ==
    IF n > 0 /\ mem[p] # 0 /\ mem[p] = mem[q] THEN strncmp(mem, p + 1, q + 1, n - 1)
    ELSE IF n = 0 THEN 0 ELSE mem[p] - mem[q]

\* The loop (n-- > 0 && (*s++ = *t++) != 0): memory, s and n behind it.
copied(mem, s, t, n) ==
    IF n <= 0 THEN [mem |-> mem, s |-> s, n |-> 0]
    ELSE IF mem[t] = 0 THEN [mem |-> Put(mem, s, 0), s |-> s + 1, n |-> n - 1]
    ELSE copied(Put(mem, s, mem[t]), s + 1, t + 1, n - 1)

strncpy(mem, s, t, n) ==
    LET c == copied(mem, s, t, n)
    IN [a \in DOMAIN mem |-> IF a \in c.s..(c.s + c.n - 1) THEN 0 ELSE c.mem[a]]

safestrcpy(mem, s, t, n) ==
    LET c == copied(mem, s, t, n - 1) IN IF n <= 0 THEN mem ELSE Put(c.mem, c.s, 0)

\* The digits of x, the last one first; then the sign, and all backwards.
digits(x, base) == <<x % base>> \o (IF x \div base = 0 THEN <<>> ELSE digits(x \div base, base))
printint(xx, base, sign) ==
    LET neg == sign /\ xx < 0
        x == (IF neg THEN 0 - xx ELSE xx) % LongSize
    IN [neg |-> neg, digits |-> digits(x, base)]

\* A text of decimal digits, read behind the number n.
atoi(text, n) == IF text = <<>> THEN n ELSE atoi(Tail(text), n * 10 + text[1])
-----------------------------------------------------------------------------
(* References.                                                             *)

\* The string at p, cut off after n bytes.
Text(mem, p, n) ==
    LET k == CHOOSE k \in 0..n :
                 /\ \A i \in 0..(k - 1) : mem[p + i] # 0
                 /\ k < n => mem[p + k] = 0
    IN [i \in 1..k |-> mem[p + i - 1]]
\* Outside the n bytes at d nothing is changed.
Keeps(mem, new, d, n) == \A a \in DOMAIN mem \ (d..(d + n - 1)) : new[a] = mem[a]
Moved(mem, new, d, s, n) ==
    Keeps(mem, new, d, n) /\ \A i \in 0..(n - 1) : new[d + i] = mem[s + i]

\* memmove copies the source as it was, also where it overlaps.
MovesExactly(mem, d, s, n) ==
    Moved(mem, memmove(mem, d, s, n), d, s, n) /\ Moved(mem, umemmove(mem, d, s, n), d, s, n)

\* strncpy pads with zeros, safestrcpy ends the string within the n bytes, for
\* strings that do not overlap.
CopiesExactly(mem, d, s, n) ==
    LET text == Text(mem, s, n)
        padded == strncpy(mem, d, s, n)
        safe == safestrcpy(mem, d, s, n)
    IN /\ Keeps(mem, padded, d, n) /\ Keeps(mem, safe, d, n)
       /\ \A i \in 1..n : padded[d + i - 1] = IF i <= Len(text) THEN text[i] ELSE 0
       /\ n > 0 => Text(safe, d, n) = SubSeq(text, 1, IF Len(text) < n THEN Len(text) ELSE n - 1)

\* strncmp orders strings by the first byte that differs, an end being least.
ComparesExactly(mem, p, q, n) ==
    LET a == Text(mem, p, n)
        b == Text(mem, q, n)
        Less(u, v) ==
            \E k \in 0..Len(u) :
                /\ k < Len(v)
                /\ SubSeq(u, 1, k) = SubSeq(v, 1, k)
                /\ k < Len(u) => u[k + 1] < v[k + 1]
        r == strncmp(mem, p, q, n)
    IN (r = 0 <=> a = b) /\ (r < 0 <=> Less(a, b))

\* printint prints the number, the least one included, without leading zeros and
\* within its buffer; atoi reads it back.
Reverse(seq) == [i \in 1..Len(seq) |-> seq[Len(seq) + 1 - i]]
PrintsExactly(x) ==
    LET r == printint(x, 10, TRUE)
        text == Reverse(r.digits)
    IN /\ (IF r.neg THEN -1 ELSE 1) * atoi(text, 0) = x
       /\ Len(text) > 1 => text[1] # 0
       /\ Len(text) + (IF r.neg THEN 1 ELSE 0) <= BufLen
       /\ x >= 0 => printint(x - LongSize, 10, FALSE) = printint(x, 10, FALSE)
=============================================================================
