----------------------------- MODULE MCCommands -----------------------------
(* Commands on an instance: the lines, trees and searches that are typed.      *)
EXTENDS Commands, TLC

UpTo(n, S) == UNION {[1..k -> S] : k \in 0..n}
Cat(seqs) == FoldLeft(LAMBDA s, t : s \o t, <<>>, seqs)

\* Quoted pieces of words: what is typed, and what it stands for.
Pieces == UpTo(2, {"a", " ", "'", "\"", "\\", ";"})
InDouble(w) == Cat([k \in DOMAIN w |->
    IF w[k] = "\"" \/ (w[k] = "\\" /\ (k = Len(w) \/ w[k + 1] \in {"\"", "\\"}))
    THEN <<"\\", w[k]>> ELSE <<w[k]>>])
Quoted == {[text |-> <<"'">> \o w \o <<"'">>, val |-> w] :
              w \in {w \in Pieces : \A k \in DOMAIN w : w[k] # "'"}}
     \cup {[text |-> <<"\"">> \o InDouble(w) \o <<"\"">>, val |-> w] : w \in Pieces}
     \cup {[text |-> Cat([k \in DOMAIN w |-> <<"\\", w[k]>>]), val |-> w] : w \in Pieces \ {<<>>}}

Stage(arg, files, outs) == [ok |-> TRUE, arg |-> arg, files |-> files, out |-> outs]
Plain == Stage(<<<<"a">>>>, <<>>, <<>>)
Simple(w) == [bg |-> FALSE, stages |-> <<Stage(<<<<"a">>, w>>, <<>>, <<>>)>>]
Joined == {pair \in Quoted \X Quoted : Len(pair[1].val) + Len(pair[2].val) <= 3}
WordLines == {[text |-> <<"a", " ">> \o p[1].text \o p[2].text,
               cmds |-> <<Simple(p[1].val \o p[2].val)>>] : p \in Joined}

\* Pipelines with zero, one or two redirections of each kind per stage.
FileNames == <<<<"f">>, <<"g">>>>
Outs == <<[append |-> FALSE, file |-> <<"f">>], [append |-> TRUE, file |-> <<"g">>]>>
StageOf(f, o) == Stage(<<<<"a">>>>, SubSeq(FileNames, 1, f), SubSeq(Outs, 1, o))
StageText(s) == <<"a">> \o Cat([k \in DOMAIN s.files |-> <<"<">> \o s.files[k]])
                \o Cat([k \in DOMAIN s.out |->
                          (IF s.out[k].append THEN <<">", ">", " ">> ELSE <<" ", ">">>) \o s.out[k].file])
AllStages == {StageOf(f, o) : f, o \in 0..2}
CmdText(cmd) == StageText(cmd.stages[1])
                \o Cat([k \in 1..(Len(cmd.stages) - 1) |-> <<"|">> \o StageText(cmd.stages[k + 1])])
PipeLines == {[text |-> CmdText(cmd) \o (IF cmd.bg THEN <<"&">> ELSE <<>>), cmds |-> <<cmd>>] :
                 cmd \in [bg : BOOLEAN, stages : UpTo(MaxStages, AllStages) \ {<<>>}]}

\* Lists of commands.
ListLines == {[text |-> Cat([k \in DOMAIN cmds |-> CmdText(cmds[k]) \o
                  (IF cmds[k].bg THEN <<" ", "&">> ELSE IF k < Len(cmds) THEN <<";">> ELSE <<>>)]),
               cmds |-> cmds] :
                 cmds \in UpTo(3, [bg : BOOLEAN, stages : {<<Plain>>, <<Plain, StageOf(1, 1)>>}]) \ {<<>>}}

\* A word whose whole text is an operator is taken for it by main(): left out.
MCMeanings == {m \in WordLines : m.cmds[1].stages[1].arg[2] \notin {<<";">>}}
              \cup PipeLines \cup ListLines
MCTokenLines == UpTo(5, {<<"a">>, <<"|">>, <<"&">>, <<";">>, <<"<">>, <<">">>, <<">", ">">>})

x == <<"x">>
yz == <<"y", "z">>
Leaves == {X!Exec(<<>>), X!Exec(<<x>>), X!Exec(<<yz, x>>)}
Redirs(S) == {X!Redir(t, tok, yz) : t \in S, tok \in {"<", ">", "+"}}
Twos(S, U) == {X!Two(type, l, r) : type \in {"PIPE", "LIST"}, l \in S, r \in U}
Level1 == Leaves \cup {X!Redir(t, tok, yz) : t \in Leaves, tok \in {"<", "+"}}
Level2 == Level1 \cup Redirs(Level1) \cup {X!Back(t) : t \in Level1} \cup Twos(Level1, Leaves)
MCTrees == Level2 \cup Redirs(Level2) \cup {X!Back(t) : t \in Level2}
           \cup Twos(Level2, Leaves) \cup Twos(Leaves, Level2)
           \cup {X!Exec(<<x, x, yz>>), X!Two("PIPE", X!Exec(<<x>>), X!Exec(<<x, x, x>>))}

Program == X!Exec(<<x>>)
Run1 == {X!Exec(<<>>), Program, X!Redir(Program, "<", x)}
Run2 == Run1 \cup {X!Back(t) : t \in Run1} \cup Twos(Run1, Run1)
MCRunTrees == Run2 \cup {X!Redir(t, ">", x) : t \in Run2} \cup {X!Back(t) : t \in Run2}
              \cup Twos(Run2, {Program}) \cup Twos({Program}, Run2)

\* Copies and comparisons in a memory of five bytes.
MCCalls == {call \in [mem : [0..4 -> 0..2], d : 0..4, s : 0..4, n : 0..5] :
               call.d + call.n <= 5 /\ call.s + call.n <= 5}
MCNumbers == -128..127

\* All short patterns on short lines, and longer files in small pieces.
Patterns(n) == UpTo(n, {"a", ".", "*", "^", "$"})
MCSearches == {[re |-> re, file |-> l \o <<NL>>] : re \in Patterns(4), l \in UpTo(3, {"a", "b"})}
         \cup {[re |-> re, file |-> f] : re \in {<<"a">>, <<"b", "$">>},
                                         f \in UpTo(7, {"a", "b", NL}) \ UpTo(5, {"a", "b", NL})}
=============================================================================
