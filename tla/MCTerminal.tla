---------------------------- MODULE MCTerminal ----------------------------
(* Terminal on an instance: two readers, or a writer, on two CPUs alike.       *)
EXTENDS Terminal, TLC

Keys == {"x", "cr", "eof", "erase", "kill"}
MCMixes == {[who |-> {Writer}, keys |-> {"x", "kill"}, n |-> 3]}
      \cup {[who |-> {t}, keys |-> Keys, n |-> 4] : t \in Readers}
      \cup {[who |-> Readers, keys |-> {"x", "cr", "eof"}, n |-> 2]}
Symmetry == Permutations(CPU) \cup Permutations(Readers)
=============================================================================
