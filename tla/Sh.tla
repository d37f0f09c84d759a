--------------------------------- MODULE Sh ---------------------------------
(***************************************************************************)
(* The command parser of the xv6 shell (user/sh.c).  A line is a sequence  *)
(* of characters; a word of the tree is first a pair <<q, eq>> of          *)
(* positions in the line and becomes text when nulterminate has ended it.  *)
(* A parser returns what it has built and the position where it stopped;   *)
(* panic() in the code is the result Panic.  " " stands for whitespace.    *)
(***************************************************************************)
EXTENDS Naturals, Sequences, FiniteSets

CONSTANT MAXARGS

Symbols == {"<", "|", ">", "&", ";", "(", ")"}
NUL == ""

At(s, i) == IF i > Len(s) THEN NUL ELSE s[i]
\* The first position from i on whose character is not in chars.
Past(s, i, chars) ==
    CHOOSE j \in i..(Len(s) + 1) : At(s, j) \notin chars /\ \A k \in i..(j - 1) : s[k] \in chars
Skip(s, i) == Past(s, i, {" "})
Letters(s) == {s[i] : i \in DOMAIN s} \ (Symbols \cup {" "})

\* Where the token that starts at q ends, and the token from q to eq.
End(s, q) ==
    CASE At(s, q) = NUL -> q
      [] At(s, q) \in Letters(s) -> Past(s, q, Letters(s))
      [] At(s, q) = ">" /\ At(s, q + 1) = ">" -> q + 2
      [] OTHER -> q + 1
Token(s, q, eq) ==
    [tok |-> IF At(s, q) \in Letters(s) THEN "a" ELSE IF eq = q + 2 THEN "+" ELSE At(s, q),
     word |-> <<q, eq>>, i |-> Skip(s, eq)]
TokenAt(s, q) == Token(s, q, End(s, q))
gettoken(s, i) == TokenAt(s, Skip(s, i))

peek(s, i, toks) == At(s, Skip(s, i)) \in toks

Exec(argv) == [type |-> "EXEC", argv |-> argv]
Redir(cmd, tok, file) == [type |-> "REDIR", cmd |-> cmd, tok |-> tok, file |-> file]
Back(cmd) == [type |-> "BACK", cmd |-> cmd]
Two(type, left, right) == [type |-> type, left |-> left, right |-> right]

Result(cmd, i) == [ok |-> TRUE, cmd |-> cmd, i |-> i]
Panic == [ok |-> FALSE]

RECURSIVE parseredirs(_, _, _), execargs(_, _, _), wrap(_, _)
RECURSIVE parseline(_, _), backs(_, _), parsepipe(_, _), parseexec(_, _)

\* The redirections from i on, behind those already in redirs; f is the token
\* behind the symbol tok.
redirection(s, redirs, tok, f) ==
    IF f.tok # "a" THEN Panic
    ELSE parseredirs(s, f.i, Append(redirs, [tok |-> tok, file |-> f.word]))
redirect(s, redirs, t) == redirection(s, redirs, t.tok, gettoken(s, t.i))
parseredirs(s, i, redirs) ==
    IF peek(s, i, {"<", ">"}) THEN redirect(s, redirs, gettoken(s, i)) ELSE Result(redirs, i)

\* redircmd() for each redirection: the last one is the outermost.
wrap(cmd, redirs) ==
    IF redirs = <<>> THEN cmd
    ELSE wrap(Redir(cmd, redirs[1].tok, redirs[1].file), Tail(redirs))

\* The loop of parseexec: argv so far, r the last result of parseredirs, and t
\* the token behind it.
execarg(s, argv, r, t) ==
    IF peek(s, r.i, {"|", ")", "&", ";"}) \/ t.tok = NUL
    THEN Result(wrap(Exec(argv), r.cmd), t.word[1])
    ELSE IF t.tok # "a" \/ Len(argv) + 1 >= MAXARGS THEN Panic
    ELSE execargs(s, Append(argv, t.word), parseredirs(s, t.i, r.cmd))
execargs(s, argv, r) == IF r.ok THEN execarg(s, argv, r, gettoken(s, r.i)) ELSE Panic

\* What follows the result r of a parser when the next token is tok.
Follows(s, r, tok) == r.ok /\ peek(s, r.i, {tok})
Behind(s, r) == gettoken(s, r.i).i

blockRedirs(cmd, redirs) ==
    IF redirs.ok THEN Result(wrap(cmd, redirs.cmd), redirs.i) ELSE Panic
closed(s, r) ==
    IF Follows(s, r, ")") THEN blockRedirs(r.cmd, parseredirs(s, Behind(s, r), <<>>)) ELSE Panic
parseblock(s, i) == closed(s, parseline(s, gettoken(s, i).i))

parseexec(s, i) == IF peek(s, i, {"("}) THEN parseblock(s, i)
                   ELSE execargs(s, <<>>, parseredirs(s, i, <<>>))

\* The command r with the rest of the line behind it.
Then(r, type, rest) ==
    IF rest.ok THEN Result(Two(type, r.cmd, rest.cmd), rest.i) ELSE Panic

\* Mutant: the right side of a pipe is a whole line.
piped_Line(s, r) ==
    IF Follows(s, r, "|") THEN Then(r, "PIPE", parseline(s, Behind(s, r))) ELSE r

piped(s, r) ==
    IF Follows(s, r, "|") THEN Then(r, "PIPE", parsepipe(s, Behind(s, r))) ELSE r
parsepipe(s, i) == piped(s, parseexec(s, i))

backs(s, r) == IF Follows(s, r, "&") THEN backs(s, Result(Back(r.cmd), Behind(s, r))) ELSE r

listed(s, r) ==
    IF Follows(s, r, ";") THEN Then(r, "LIST", parseline(s, Behind(s, r))) ELSE r
parseline(s, i) == listed(s, backs(s, parsepipe(s, i)))

RECURSIVE Ends(_)

\* The positions that nulterminate overwrites.
Ends(cmd) ==
    CASE cmd.type = "EXEC" -> {cmd.argv[k][2] : k \in DOMAIN cmd.argv}
      [] cmd.type = "REDIR" -> Ends(cmd.cmd) \cup {cmd.file[2]}
      [] cmd.type = "BACK" -> Ends(cmd.cmd)
      [] OTHER -> Ends(cmd.left) \cup Ends(cmd.right)

\* The string from w[1] on, up to the first NUL.
String(s, w, ends) ==
    LET e == CHOOSE e \in w[1]..(Len(s) + 1) :
                 /\ e \in ends \cup {Len(s) + 1}
                 /\ \A k \in w[1]..(e - 1) : k \notin ends
    IN SubSeq(s, w[1], e - 1)

\* The tree with the strings that runcmd reads from it.
RECURSIVE Words(_, _, _)
Words(s, t, ends) ==
    CASE t.type = "EXEC" -> Exec([k \in DOMAIN t.argv |-> String(s, t.argv[k], ends)])
      [] t.type = "REDIR" -> Redir(Words(s, t.cmd, ends), t.tok, String(s, t.file, ends))
      [] t.type = "BACK" -> Back(Words(s, t.cmd, ends))
      [] OTHER -> Two(t.type, Words(s, t.left, ends), Words(s, t.right, ends))
Terminated(s, cmd) == Words(s, cmd, Ends(cmd))

whole(s, r) == IF r.ok /\ Skip(s, r.i) = Len(s) + 1
               THEN Result(Terminated(s, r.cmd), r.i) ELSE Panic
parsecmd(s) == whole(s, parseline(s, 1))
-----------------------------------------------------------------------------
(* Trees written as lines: what a user types to get the tree.              *)

\* A command in parentheses when its type is not one that may stand there.
Tokens(tree) ==
    LET RECURSIVE Tok(_), In(_, _)
        In(t, types) == IF t.type \in types THEN Tok(t) ELSE <<<<"(">>>> \o Tok(t) \o <<<<")">>>>
        Tok(t) ==
          CASE t.type = "EXEC" -> t.argv
            [] t.type = "REDIR" -> In(t.cmd, {"EXEC", "REDIR"})
                  \o <<IF t.tok = "+" THEN <<">", ">">> ELSE <<t.tok>>, t.file>>
            [] t.type = "PIPE" -> In(t.left, {"EXEC", "REDIR"}) \o <<<<"|">>>>
                                  \o In(t.right, {"EXEC", "REDIR", "PIPE"})
            [] t.type = "BACK" -> In(t.cmd, {"EXEC", "REDIR", "PIPE", "BACK"}) \o <<<<"&">>>>
            [] OTHER -> In(t.left, {"EXEC", "REDIR", "PIPE", "BACK"}) \o <<<<";">>>> \o Tok(t.right)
    IN Tok(tree)

\* Blanks only where two words would run together, or around every token.
Text(tree, loose) ==
    LET toks == Tokens(tree)
        RECURSIVE Join(_)
        Join(k) == IF k > Len(toks) THEN <<>>
                   ELSE (IF loose \/ (k > 1 /\ {toks[k][1], toks[k - 1][1]} \cap Symbols = {})
                         THEN <<" ">> ELSE <<>>) \o toks[k] \o Join(k + 1)
    IN Join(1)
=============================================================================
