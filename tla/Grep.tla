-------------------------------- MODULE Grep --------------------------------
(***************************************************************************)
(* grep of xv6 (user/grep.c): the matcher for ^ . * $, and the loop that   *)
(* cuts what read() delivers, in pieces of any size, into lines in a       *)
(* buffer of BufSize bytes.  Patterns and texts are sequences of           *)
(* characters; "n" is the newline.                                         *)
(***************************************************************************)
EXTENDS Naturals, Sequences
LOCAL INSTANCE SequencesExt

CONSTANTS BufSize,      \* sizeof(buf)
          Searches      \* the patterns and files to try: [re, file]

NL == "n"

RECURSIVE matchhere(_, _), matchstar(_, _, _)

matchhere(re, text) ==
    IF re = <<>> THEN TRUE
    ELSE IF Len(re) > 1 /\ re[2] = "*" THEN matchstar(re[1], SubSeq(re, 3, Len(re)), text)
    ELSE IF re = <<"$">> THEN text = <<>>
    ELSE /\ text # <<>>
         /\ re[1] \in {".", text[1]}
         /\ matchhere(Tail(re), Tail(text))

matchstar(c, re, text) ==
    \/ matchhere(re, text)
    \/ text # <<>> /\ c \in {".", text[1]} /\ matchstar(c, re, Tail(text))

match(re, text) ==
    IF re # <<>> /\ re[1] = "^" THEN matchhere(Tail(re), text)
    ELSE \E i \in 1..(Len(text) + 1) : matchhere(re, SubSeq(text, i, Len(text)))
-----------------------------------------------------------------------------
VARIABLES search,       \* the pattern and the file
          offset,       \* how much of the file is read
          buf,          \* buf[0..m-1]
          out,          \* the lines written
          eof           \* read() has returned 0

grepVars == <<search, offset, buf, out, eof>>

GrepInit ==
    /\ search \in Searches
    /\ offset = 0
    /\ buf = <<>>
    /\ out = <<>>
    /\ eof = FALSE

\* The complete lines of a text, without their newlines, and what is left.
RECURSIVE lines(_)
lines(text) ==
    LET q == SelectInSeq(text, LAMBDA ch : ch = NL) IN
    IF q = 0 THEN <<>> ELSE <<SubSeq(text, 1, q - 1)>> \o lines(SubSeq(text, q + 1, Len(text)))

\* Mutant: the newline that ends the last line stays in the buffer.
left_Newline(text) ==
    LET q == SelectLastInSeq(text, LAMBDA ch : ch = NL) IN
    SubSeq(text, IF q = 0 THEN 1 ELSE q, Len(text))

left(text) ==
    LET q == SelectLastInSeq(text, LAMBDA ch : ch = NL) IN SubSeq(text, q + 1, Len(text))

Room == BufSize - Len(buf) - 1

\* One turn of the loop: read(), the lines it completes, memmove().
grep(n) ==
    /\ ~eof
    /\ n <= Room /\ n <= Len(search.file) - offset
    /\ n = 0 => Room = 0 \/ offset = Len(search.file)
    /\ LET text == buf \o SubSeq(search.file, offset + 1, offset + n) IN
       /\ out' = out \o SelectSeq(lines(text), LAMBDA l : match(search.re, l))
       /\ buf' = left(text)
    /\ offset' = offset + n
    /\ eof' = (n = 0)
    /\ UNCHANGED search

-----------------------------------------------------------------------------
(* The reference: a pattern as a list of atoms, matched by the set of the  *)
(* positions that the atoms so far can have reached.                       *)

Atom(ch, star) == [ch |-> ch, star |-> star, end |-> FALSE]
RECURSIVE Atoms(_)
Atoms(re) ==
    IF re = <<>> THEN <<>>
    ELSE IF Len(re) > 1 /\ re[2] = "*" THEN <<Atom(re[1], TRUE)>> \o Atoms(SubSeq(re, 3, Len(re)))
    ELSE IF re = <<"$">> THEN <<[ch |-> "$", star |-> FALSE, end |-> TRUE]>>
    ELSE <<Atom(re[1], FALSE)>> \o Atoms(Tail(re))

Is(atom, ch) == atom.ch \in {".", ch}
Step(atom, text, from) ==
    IF atom.end THEN from \cap {Len(text)}
    ELSE IF atom.star
         THEN {j \in 0..Len(text) :
                  \E i \in from : i <= j /\ \A k \in (i + 1)..j : Is(atom, text[k])}
    ELSE {j \in 1..Len(text) : j - 1 \in from /\ Is(atom, text[j])}

Matches(re, text) ==
    LET anchored == re # <<>> /\ re[1] = "^"
        from == IF anchored THEN {0} ELSE 0..Len(text)
        atoms == Atoms(IF anchored THEN Tail(re) ELSE re)
    IN FoldLeft(LAMBDA at, atom : Step(atom, text, at), from, atoms) # {}
=============================================================================
