------------------------------ MODULE Commands ------------------------------
(***************************************************************************)
(* From the line that is typed to what runs, in both shells.  A behaviour  *)
(* starts with one of:                                                     *)
(*   "line"     a line typed at the shell of c-shell, from the commands    *)
(*              and words that its user means.  A line that is a single    *)
(*              pipeline is then run by execute() (Pipeline);              *)
(*   "tokens"   any sequence of words and operators typed there;           *)
(*   "tree"     a command typed at the shell of xv6, from its tree;        *)
(*   "run"      a command that this shell runs;                            *)
(*   "grep"     a search by the program of xv6;                            *)
(*   "heap"     the heap in which a program of xv6 keeps its data;         *)
(*   "bytes", "number"   calls of the string functions of xv6.             *)
(***************************************************************************)
EXTENDS Pipeline, ShRun, Grep, Umalloc, SequencesExt

CONSTANTS MAXINPUT, MAXARGS, LongSize, BufLen,
          Meanings,     \* lines: [text, cmds]
          TokenLines,   \* sequences of words and operators
          Trees,        \* trees of xv6 commands, typed
          RunTrees,     \* and run
          Calls,        \* memory and arguments of string functions
          Numbers

T == INSTANCE ShellText
X == INSTANCE Sh
Lib == INSTANCE Strings

VARIABLES kind,         \* which of these
          typed,        \* the characters of the line
          meant         \* the meaning they have for the user

commandVars == <<pipelineVars, runVars, grepVars, heapVars, kind, typed, meant>>

NoSearch == search = [re |-> <<>>, file |-> <<>>] /\ offset = 0 /\ buf = <<>> /\ out = <<>> /\ eof = TRUE
NoLine == [n |-> 1, bg |-> FALSE, big |-> FALSE,
           files |-> [d \in Stages |-> 0], out |-> [d \in Stages |-> 0]]
Idle == /\ line = NoLine /\ fds = [p \in Processes |-> {}]
        /\ st = [p \in Children |-> "none"] /\ c = 1 /\ at = "idle"

\* Several redirections are one case: Many.
Few(seq) == IF Len(seq) > Many THEN Many ELSE Len(seq)
\* The line of Pipeline that execute() finds in a command.
LineOf(cmd, big) ==
    [n |-> Len(cmd.stages), bg |-> cmd.bg, big |-> big,
     files |-> [d \in Stages |-> IF d <= Len(cmd.stages) THEN Few(cmd.stages[d].files) ELSE 0],
     out |-> [d \in Stages |-> IF d <= Len(cmd.stages) THEN Few(cmd.stages[d].out) ELSE 0]]
Feeds(cmd) == \E d \in DOMAIN cmd.stages : Few(cmd.stages[d].files) = Many
OnePipeline(run) == run.ok /\ Len(run.cmds) = 1 /\ \A d \in DOMAIN run.cmds[1].stages :
                                                        run.cmds[1].stages[d].ok

NoRun == process = [p \in {} |-> 0] /\ trouble = FALSE

LineInit ==
    /\ kind = "line"
    /\ NoSearch /\ NoRun
    /\ \E m \in Meanings :
        /\ typed = m.text
        /\ meant = m.cmds
        /\ LET run == T!Run(m.text) IN
           IF OnePipeline(run)
           THEN (\E big \in {FALSE, Feeds(run.cmds[1])} : line = LineOf(run.cmds[1], big)) /\ PipelineInit
           ELSE Idle

TextInit ==
    /\ NoSearch /\ Idle /\ NoRun
    /\ \/ \E toks \in TokenLines :
             /\ kind = "tokens"
             /\ meant = toks
             /\ typed = FoldLeft(LAMBDA s, t : s \o <<" ">> \o t, <<>>, toks)
       \/ \E tree \in Trees, loose \in BOOLEAN :
             /\ kind = "tree"
             /\ meant = tree
             /\ typed = X!Text(tree, loose)
       \/ kind = "bytes" /\ meant \in Calls /\ typed = <<>>
       \/ kind = "number" /\ meant \in Numbers /\ typed = <<>>

ProgramInit ==
    /\ typed = <<>> /\ Idle
    /\ \/ kind = "grep" /\ meant = <<>> /\ GrepInit /\ NoRun
       \/ kind = "heap" /\ meant = <<>> /\ NoSearch /\ NoRun
       \/ kind = "run" /\ NoSearch /\ \E tree \in RunTrees : meant = tree /\ RunInit(tree)

CommandsInit == HeapInit /\ (LineInit \/ TextInit \/ ProgramInit)

CommandsNext ==
    \/ PipelineNext /\ UNCHANGED <<runVars, grepVars, heapVars>>
    \/ RunNext /\ UNCHANGED <<pipelineVars, grepVars, heapVars>>
    \/ (\E n \in 0..BufSize : grep(n)) /\ UNCHANGED <<pipelineVars, runVars, heapVars>>
    \/ kind = "heap" /\ HeapNext /\ UNCHANGED <<pipelineVars, runVars, grepVars>>

CommandsSpec ==
    CommandsInit /\ [][CommandsNext /\ UNCHANGED <<kind, typed, meant>>]_commandVars
-----------------------------------------------------------------------------
\* The shell runs the commands that were meant, each in the foreground or the
\* background, with its stages, arguments and files: quotes and backslashes,
\* alone or joined in one word, and tokens with or without blanks around them
\* (convert, check, the loop of main and the first part of execute).
RunsAsMeant == kind = "line" => T!Run(typed) = [ok |-> TRUE, cmds |-> meant]

\* What check() accepts, execute() can run: no command with an empty stage or a
\* redirection without a file, and no token lost or moved between commands.
AcceptedLinesRun ==
    kind = "tokens" =>
        LET run == T!Run(typed)
            stages == {<<k, d>> \in (1..Len(meant)) \X (1..Len(meant)) :
                          k <= Len(run.cmds) /\ d <= Len(run.cmds[k].stages)}
            stage(k, d) == run.cmds[k].stages[d]
            size(k, d) == Len(stage(k, d).arg) + 2 * (Len(stage(k, d).files) + Len(stage(k, d).out))
        IN run.ok /\ meant # <<>> =>
             /\ \A p \in stages : stage(p[1], p[2]).ok /\ stage(p[1], p[2]).arg # <<>>
             /\ Len(meant) = MapThenSumSet(LAMBDA p : size(p[1], p[2]) + 1, stages)
                             - (IF meant[Len(meant)] = <<"&">> THEN 0 ELSE 1)

\* The shell of xv6 parses a typed tree to that tree, with every word whole
\* after nulterminate, unless a command has too many arguments (parsecmd).
RECURSIVE TooMany(_)
TooMany(t) == CASE t.type = "EXEC" -> Len(t.argv) >= MAXARGS
                [] t.type \in {"REDIR", "BACK"} -> TooMany(t.cmd)
                [] OTHER -> TooMany(t.left) \/ TooMany(t.right)
ParsedAsWritten ==
    kind = "tree" => \E r \in {X!parsecmd(typed)} :
                        IF TooMany(meant) THEN ~r.ok ELSE r.ok /\ r.cmd = meant

\* The string functions do what their callers rely on: copies of overlapping and
\* of cut off strings, comparisons, and numbers up to the least one that there is
\* (memmove, strncpy, safestrcpy, strncmp, printint, atoi).
LibraryExact ==
    /\ kind = "bytes" =>
          /\ Lib!MovesExactly(meant.mem, meant.d, meant.s, meant.n)
          /\ Lib!ComparesExactly(meant.mem, meant.d, meant.s, meant.n)
          /\ (meant.s + meant.n <= meant.d \/ meant.d + meant.n <= meant.s) =>
                 Lib!CopiesExactly(meant.mem, meant.d, meant.s, meant.n)
    /\ kind = "number" => Lib!PrintsExactly(meant)

\* grep has written the complete lines that match, in order, however read()
\* cuts the file, as long as every line fits into the buffer; a longer line ends
\* the output early.
GrepExact ==
    kind = "grep" =>
        LET all == lines(search.file)
            expected == SelectSeq(all, LAMBDA l : Matches(search.re, l))
        IN /\ IsPrefix(out, expected)
           /\ eof /\ (\A k \in DOMAIN all : Len(all[k]) + 1 < BufSize) => out = expected
=============================================================================
