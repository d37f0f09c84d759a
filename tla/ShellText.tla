------------------------------ MODULE ShellText -----------------------------
(***************************************************************************)
(* What the shell (c-shell) makes of a line: convert() cuts it into tokens *)
(* (lexer.c), check() looks at their order (grammar.c), main() splits them *)
(* into commands (main.c), and execute() splits a command into stages with *)
(* their redirections (execution.c).  A line is a sequence of characters;  *)
(* from main() on only the text of a token counts, not its type.           *)
(***************************************************************************)
EXTENDS Naturals, Sequences
LOCAL INSTANCE SequencesExt

CONSTANT MAXINPUT       \* the array input[256] of main()

Blank == {" "}
Operators == {"|", "&", ";", "<", ">"}
Quotes == {"'", "\""}
Operator(op) == [word |-> FALSE, val |-> op]
Word(val) == [word |-> TRUE, val |-> val]
Invalid == [ok |-> FALSE]

RECURSIVE wordAt(_, _, _, _), tokens(_, _, _), commands(_), redirects(_, _)

\* Mutant: a backslash in double quotes is dropped before any character.
wordAt_Drops(s, i, quote, buffer) ==
    IF i > Len(s) \/ (quote = "" /\ s[i] \in Blank \cup Operators)
    THEN [ok |-> quote = "", val |-> buffer, i |-> i]
    ELSE IF s[i] = "\\" /\ quote # "'"
         THEN IF i = Len(s) THEN Invalid
              ELSE wordAt(s, i + 2, quote, Append(buffer, s[i + 1]))
    ELSE IF s[i] \in Quotes /\ quote \in {"", s[i]}
         THEN wordAt(s, i + 1, IF quote = "" THEN s[i] ELSE "", buffer)
    ELSE wordAt(s, i + 1, quote, Append(buffer, s[i]))

\* The word that goes on at i, inside quote, with the text in buffer so far.
wordAt(s, i, quote, buffer) ==
    IF i > Len(s) \/ (quote = "" /\ s[i] \in Blank \cup Operators)
    THEN [ok |-> quote = "", val |-> buffer, i |-> i]
    ELSE IF s[i] = "\\" /\ quote # "'"
         THEN IF i = Len(s) THEN Invalid
              ELSE wordAt(s, i + 2, quote,
                          buffer \o (IF quote = "\"" /\ s[i + 1] \notin {"\"", "\\"}
                                     THEN <<"\\", s[i + 1]>> ELSE <<s[i + 1]>>))
    ELSE IF s[i] \in Quotes /\ quote \in {"", s[i]}
         THEN wordAt(s, i + 1, IF quote = "" THEN s[i] ELSE "", buffer)
    ELSE wordAt(s, i + 1, quote, Append(buffer, s[i]))

tokens(s, i, list) ==
    LET append == s[i] = ">" /\ i < Len(s) /\ s[i + 1] = ">"
        op == IF append THEN <<">", ">">> ELSE <<s[i]>>
        w == wordAt(s, i, "", <<>>)
    IN IF i > Len(s) THEN [ok |-> TRUE, list |-> list]
       ELSE IF s[i] \in Blank THEN tokens(s, i + 1, list)
       ELSE IF s[i] \in Operators THEN tokens(s, i + Len(op), Append(list, Operator(op)))
       ELSE IF w.ok THEN tokens(s, w.i, Append(list, Word(w.val)))
       ELSE Invalid

convert(s) == tokens(s, 1, <<>>)

\* Mutant: a line may end with any operator.
check_Tail(list) ==
    \/ list = <<>>
    \/ /\ list[1].word
       /\ \A k \in 2..Len(list) : list[k].word \/ k = Len(list) \/ list[k + 1].word

check(list) ==
    \/ list = <<>>
    \/ /\ list[1].word
       /\ \A k \in 2..Len(list) :
             \/ list[k].word
             \/ k < Len(list) /\ list[k + 1].word
             \/ k = Len(list) /\ list[k].val = <<"&">>

-----------------------------------------------------------------------------
(* main() and execute() on the texts of the tokens.                        *)

Separators == {<<";">>, <<"&">>}
\* The length of the longest prefix of vals that main() puts into one input.
Taken(vals) ==
    CHOOSE n \in 0..Len(vals) :
        /\ \A k \in 1..n : vals[k] \notin Separators
        /\ n = MAXINPUT \/ n = Len(vals) \/ vals[n + 1] \in Separators

\* The commands of a line, in order.
commands(vals) ==
    LET n == Taken(vals)
        separated == n < Len(vals) /\ vals[n + 1] \in Separators
        rest == SubSeq(vals, n + (IF separated THEN 2 ELSE 1), Len(vals))
    IN IF vals = <<>> THEN <<>>
       ELSE <<[input |-> SubSeq(vals, 1, n), bg |-> separated /\ vals[n + 1] = <<"&">>]>>
            \o commands(rest)

\* The arguments, input and output files of a stage; invalid when the file
\* behind a redirection is missing.
redirects(vals, stage) ==
    LET op == vals[1] IN
    IF vals = <<>> THEN stage
    ELSE IF op \notin {<<"<">>, <<">">>, <<">", ">">>}
         THEN redirects(Tail(vals), [stage EXCEPT !.arg = Append(@, op)])
    ELSE IF Len(vals) = 1 THEN Invalid
    ELSE redirects(SubSeq(vals, 3, Len(vals)),
                   IF op = <<"<">> THEN [stage EXCEPT !.files = Append(@, vals[2])]
                   ELSE [stage EXCEPT !.out = Append(@, [append |-> op = <<">", ">">>,
                                                          file |-> vals[2]])])

\* The positions of "|" in a command, with both ends: pipeindex.
pipeindex(vals) ==
    <<0>> \o SetToSortSeq({k \in DOMAIN vals : vals[k] = <<"|">>}, LAMBDA a, b : a < b)
    \o <<Len(vals) + 1>>

stages(vals) ==
    LET index == pipeindex(vals) IN
    [k \in 1..(Len(index) - 1) |->
        LET cmd == SubSeq(vals, index[k] + 1, index[k + 1] - 1) IN
        IF cmd = <<>> THEN Invalid
        ELSE redirects(cmd, [ok |-> TRUE, arg |-> <<>>, files |-> <<>>, out |-> <<>>])]

\* What the shell runs for a line: its commands and their stages.
Run(s) ==
    LET t == convert(s)
        cmds == commands([k \in DOMAIN t.list |-> t.list[k].val])
    IN IF ~t.ok THEN Invalid
       ELSE IF ~check(t.list) THEN Invalid
       ELSE [ok |-> TRUE, cmds |-> [k \in DOMAIN cmds |-> [bg |-> cmds[k].bg,
                                                            stages |-> stages(cmds[k].input)]]]
=============================================================================
