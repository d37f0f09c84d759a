----------------------------- MODULE LineEditor -----------------------------
(* What a terminal promises: keys go into a line that can be edited until it  *)
(* is complete; complete lines are read in order, and no read goes past the   *)
(* end of a line.                                                            *)
EXTENDS Naturals, Sequences

CONSTANTS Size, Chars
VARIABLES queue, line

Ends == {"nl", "eof"}

Init == queue = <<>> /\ line = <<>>

Type(k) ==
    LET l == Append(line, k)
    IN  /\ Len(queue) + Len(line) < Size
        /\ IF k \in Ends \/ Len(queue) + Len(l) = Size
           THEN queue' = queue \o l /\ line' = <<>>
           ELSE line' = l /\ UNCHANGED queue

Erase == line # <<>> /\ line' = SubSeq(line, 1, Len(line) - 1) /\ UNCHANGED queue

Kill == line' = <<>> /\ UNCHANGED queue

\* j characters: none but the last ends a line, and an end of file is read alone
Read ==
    \E j \in 1 .. Len(queue) :
        /\ \A i \in 1 .. j - 1 : queue[i] \notin Ends
        /\ j > 1 => queue[j] # "eof"
        /\ queue' = SubSeq(queue, j + 1, Len(queue))
        /\ UNCHANGED line

Next == (\E k \in Chars : Type(k)) \/ Erase \/ Kill \/ Read

Spec == Init /\ [][Next]_<<queue, line>>
=============================================================================
