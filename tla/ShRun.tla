-------------------------------- MODULE ShRun -------------------------------
(***************************************************************************)
(* How the xv6 shell runs a parsed command (runcmd in user/sh.c): the      *)
(* processes it forks, which pipe ends each of them holds, and what each   *)
(* waits for.  A process is named by the numbers of the forks that led to  *)
(* it, a pipe by the process that made it.  A program reads its input to   *)
(* the end, then exits; init reaps orphans.                                *)
(***************************************************************************)
EXTENDS Naturals, Sequences, FiniteSets

VARIABLES process,      \* the processes forked for the command, by name
          trouble       \* a fork, pipe or open has failed

runVars == <<process, trouble>>

PipeEnd(name, side) == [pipe |-> name, side |-> side]
Other(name) == [pipe |-> name, side |-> "none"]
Tty == Other(<<>>)
File == Other(<<0>>)
\* back: forked for a command that ends with "&", or by such a process.
New(cmd, pc, fd0, fd1, held, back) ==
    [cmd |-> cmd, pc |-> pc, fd0 |-> fd0, fd1 |-> fd1, held |-> held, back |-> back, forks |-> 0]

RunInit(cmd) ==
    /\ process = [p \in {<<1>>} |-> New(cmd, "runcmd", Tty, Tty, {}, FALSE)]
    /\ trouble = FALSE

Child(p, k) == Append(p, k)
Change(p, new) == process' = [process EXCEPT ![p] = new]
Stop(p) == [process[p] EXCEPT !.pc = "exited", !.fd0 = Tty, !.fd1 = Tty, !.held = {}]
At(p, pc, types) == process[p].pc = pc /\ process[p].cmd.type \in types
Exited(p, k) == process[Child(p, k)].pc = "exited"

\* fork1(): the child has what p has; or p panics.
Fork(p, cmd, pc, back, next) ==
    LET q == process[p]
        child == Child(p, q.forks + 1)
    IN \/ /\ process' = [r \in DOMAIN process \cup {child} |->
                            IF r = child THEN New(cmd, pc, q.fd0, q.fd1, q.held, back)
                            ELSE IF r = p THEN [next EXCEPT !.forks = q.forks + 1]
                            ELSE process[r]]
          /\ UNCHANGED trouble
       \/ Change(p, Stop(p)) /\ trouble' = TRUE

\* exec(), or exit() when there is nothing to execute or it fails.
runEXEC(p) ==
    /\ At(p, "runcmd", {"EXEC"})
    /\ \/ process[p].cmd.argv # <<>> /\ Change(p, [process[p] EXCEPT !.pc = "program"])
       \/ Change(p, Stop(p))
    /\ UNCHANGED trouble

runREDIR(p) ==
    LET q == process[p] IN
    /\ At(p, "runcmd", {"REDIR"})
    /\ \/ /\ Change(p, IF q.cmd.tok = "<" THEN [q EXCEPT !.fd0 = File, !.cmd = q.cmd.cmd]
                       ELSE [q EXCEPT !.fd1 = File, !.cmd = q.cmd.cmd])
          /\ UNCHANGED trouble
       \/ Change(p, Stop(p)) /\ trouble' = TRUE

runLIST(p) ==
    LET q == process[p] IN
    \/ At(p, "runcmd", {"LIST"}) /\ Fork(p, q.cmd.left, "runcmd", q.back, [q EXCEPT !.pc = "wait"])
    \/ /\ At(p, "wait", {"LIST"}) /\ Exited(p, q.forks)
       /\ Change(p, [q EXCEPT !.cmd = q.cmd.right, !.pc = "runcmd"])
       /\ UNCHANGED trouble

\* Mutant: the parent waits before it closes its ends.
PipeWaits_Open(p) == [process[p] EXCEPT !.pc = "wait"]

\* close(p[0]); close(p[1]).
PipeWaits(p) == [process[p] EXCEPT !.pc = "wait", !.held = {}]

runPIPE(p) ==
    LET q == process[p] IN
    \/ /\ At(p, "runcmd", {"PIPE"})
       /\ \/ /\ Change(p, [q EXCEPT !.pc = "left", !.held = {PipeEnd(p, "r"), PipeEnd(p, "w")}])
             /\ UNCHANGED trouble
          \/ Change(p, Stop(p)) /\ trouble' = TRUE
    \/ At(p, "left", {"PIPE"}) /\ Fork(p, q.cmd.left, "dup1", q.back, [q EXCEPT !.pc = "right"])
    \/ At(p, "right", {"PIPE"}) /\ Fork(p, q.cmd.right, "dup0", q.back, [q EXCEPT !.pc = "close"])
    \/ At(p, "close", {"PIPE"}) /\ Change(p, PipeWaits(p)) /\ UNCHANGED trouble
    \/ /\ At(p, "wait", {"PIPE"}) /\ Exited(p, q.forks) /\ Exited(p, q.forks - 1)
       /\ Change(p, Stop(p)) /\ UNCHANGED trouble

\* The children of a pipe: close, dup, and the two closes.
Dup(p) ==
    LET q == process[p]
        pipe == SubSeq(p, 1, Len(p) - 1)
    IN /\ q.pc \in {"dup0", "dup1"}
       /\ Change(p, IF q.pc = "dup0"
                    THEN [q EXCEPT !.pc = "runcmd", !.held = {}, !.fd0 = PipeEnd(pipe, "r")]
                    ELSE [q EXCEPT !.pc = "runcmd", !.held = {}, !.fd1 = PipeEnd(pipe, "w")])
       /\ UNCHANGED trouble

runBACK(p) ==
    LET q == process[p] IN
    /\ At(p, "runcmd", {"BACK"})
    /\ Fork(p, q.cmd.cmd, "runcmd", TRUE, Stop(p))

\* A program at the end of its input.
Holds(p, end) == end \in {process[p].fd0, process[p].fd1} \cup process[p].held
AtEnd(fd) == fd.side = "r" => \A p \in DOMAIN process : ~Holds(p, PipeEnd(fd.pipe, "w"))
Ends(p) ==
    /\ process[p].pc = "program" /\ AtEnd(process[p].fd0)
    /\ Change(p, Stop(p))
    /\ UNCHANGED trouble

RunNext == \E p \in DOMAIN process :
    runEXEC(p) \/ runREDIR(p) \/ runLIST(p) \/ runPIPE(p) \/ Dup(p) \/ runBACK(p) \/ Ends(p)
-----------------------------------------------------------------------------
\* Nobody can go on: every process waits, for a child or for its input.
Blocked(p) ==
    LET q == process[p] IN
    \/ q.pc = "exited"
    \/ q.pc = "program" /\ ~AtEnd(q.fd0)
    \/ At(p, "wait", {"LIST"}) /\ ~Exited(p, q.forks)
    \/ At(p, "wait", {"PIPE"}) /\ ~(Exited(p, q.forks) /\ Exited(p, q.forks - 1))

\* A command always ends, also when a fork, a pipe or a file fails on the way;
\* and unless one did, the shell prompts again only when all that is not in the
\* background has ended (runcmd, main).
CommandEnds ==
    /\ (\A p \in DOMAIN process : Blocked(p)) => \A p \in DOMAIN process : process[p].pc = "exited"
    /\ (<<1>> \in DOMAIN process /\ process[<<1>>].pc = "exited" /\ ~trouble) =>
           \A p \in DOMAIN process : process[p].back \/ process[p].pc = "exited"
=============================================================================
