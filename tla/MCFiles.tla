------------------------------- MODULE MCFiles ------------------------------
(* An instance of Files for TLC. *)
EXTENDS Files, TLC

A == [abs |-> TRUE, elems |-> <<"a">>]
RelA == [abs |-> FALSE, elems |-> <<"a">>]
RelB == [abs |-> FALSE, elems |-> <<"b">>]
RelAA == [abs |-> FALSE, elems |-> <<"a", "a">>]
Up == [abs |-> FALSE, elems |-> <<"..">>]

\* names and links; directories; open files
MCMixes == {[calls |-> {"mknod", "link", "unlink", "mkdir", "fork"}, paths |-> {A, RelAA, RelB}],
            [calls |-> {"mkdir", "unlink", "chdir", "fork"}, paths |-> {A, RelA, Up}],
            [calls |-> {"O_CREATE", "open", "unlink", "dup", "fork"}, paths |-> {A, RelB}]}

Symmetry == Permutations(Proc)
=============================================================================
