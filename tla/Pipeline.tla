------------------------------ MODULE Pipeline ------------------------------
(***************************************************************************)
(* The pipes of one execute() call of the shell (c-shell/src/execution.c): *)
(* which process holds which end.  A stage with several input files has a  *)
(* feeder process, one with several output files a writer process, and the *)
(* stages of a background pipeline first read the end of file of sync_pipe.*)
(* A reader sees the end of file only when no process holds the write end, *)
(* and a forked process starts with every end that the shell holds.        *)
(* The commands are those that read their input to the end.                *)
(***************************************************************************)
EXTENDS Naturals, FiniteSets

CONSTANT MaxStages

ASSUME PipelineAssumption == MaxStages \in Nat \ {0}

Stages == 1..MaxStages
Many == 2                               \* zero, one or several redirections

\* The processes, and the pipes: sync_pipe, fd, pipefd and out_pipefd.
Shell == <<"shell", 0>>
Cmd(c) == <<"cmd", c>>
Feeder(c) == <<"feeder", c>>
Writer(c) == <<"writer", c>>
Children == {"cmd", "feeder", "writer"} \X Stages
Processes == {Shell} \cup Children

Sync == <<"sync", 0>>
Fd(c) == <<"fd", c>>
In(c) == <<"pipefd", c>>
Out(c) == <<"out_pipefd", c>>
Pipes == {Sync} \cup ({"fd", "pipefd", "out_pipefd"} \X Stages)
R(pipe) == <<pipe, "read">>
W(pipe) == <<pipe, "write">>
Both(pipe) == {R(pipe), W(pipe)}

VARIABLES
    line,   \* the command: its stages, their redirections, bg; big input
    fds,    \* the pipe ends each process holds
    st,     \* "none", "gated", "start", "run", "done"
    c,      \* the stage execute() is at
    at

pipelineVars == <<line, fds, st, c, at>>

Lines == [n : Stages, bg : BOOLEAN, big : BOOLEAN,
          files : [Stages -> 0..Many], out : [Stages -> 0..Many]]

PipelineInit ==
    /\ line \in Lines
    /\ fds = [p \in Processes |-> IF p = Shell /\ line.bg THEN Both(Sync) ELSE {}]
    /\ st = [p \in Children |-> "none"]
    /\ c = 1
    /\ at = "pipe"

-----------------------------------------------------------------------------
(* execute(), stage by stage.                                              *)

Open(ends) == fds' = [fds EXCEPT ![Shell] = @ \cup ends]

\* pipe(fd) unless this is the last stage.
StagePipe ==
    /\ at = "pipe" /\ c <= line.n
    /\ Open(IF c < line.n THEN Both(Fd(c)) ELSE {})
    /\ at' = "feeder"
    /\ UNCHANGED <<line, st, c>>

\* A redirection without its file, a file that does not open, a command that
\* is not found: only sync_pipe is closed.
ExecuteFails ==
    /\ at = "feeder"
    /\ fds' = [fds EXCEPT ![Shell] = @ \ Both(Sync)]
    /\ at' = "failed"
    /\ UNCHANGED <<line, st, c>>

\* The feeder closes only the read end of its pipe.
ForkFeeder ==
    /\ at = "feeder"
    /\ IF line.files[c] = Many
       THEN /\ fds' = [fds EXCEPT ![Shell] = @ \cup Both(In(c)),
                                  ![Feeder(c)] = fds[Shell] \cup {W(In(c))}]
            /\ st' = [st EXCEPT ![Feeder(c)] = "run"]
       ELSE UNCHANGED <<fds, st>>
    /\ at' = "writer"
    /\ UNCHANGED <<line, c>>

\* The writer closes only the write end of its pipe.
ForkWriter ==
    /\ at = "writer"
    /\ IF line.out[c] = Many
       THEN /\ fds' = [fds EXCEPT ![Shell] = @ \cup Both(Out(c)),
                                  ![Writer(c)] = fds[Shell] \cup {R(Out(c))}]
            /\ st' = [st EXCEPT ![Writer(c)] = "run"]
       ELSE UNCHANGED <<fds, st>>
    /\ at' = "cmd"
    /\ UNCHANGED <<line, c>>

\* What the shell keeps behind the fork of stage c.
ParentKeeps ==
    fds[Shell] \ (Both(In(c)) \cup Both(Out(c)) \cup {R(Fd(c - 1)), W(Fd(c))})

ForkCmd ==
    /\ at = "cmd"
    /\ fds' = [fds EXCEPT ![Cmd(c)] = fds[Shell] \ {W(Sync)},
                          ![Shell] = ParentKeeps]
    /\ st' = [st EXCEPT ![Cmd(c)] = IF line.bg THEN "gated" ELSE "start"]
    /\ c' = c + 1
    /\ at' = "pipe"
    /\ UNCHANGED line

\* After add_job(): sync_pipe is closed, or the shell waits.
ExecuteEnds ==
    /\ at = "pipe" /\ c > line.n
    /\ fds' = [fds EXCEPT ![Shell] = @ \ Both(Sync)]
    /\ at' = "done"
    /\ UNCHANGED <<line, st, c>>

-----------------------------------------------------------------------------
(* The children.                                                           *)

EndOfFile(pipe) == \A p \in Processes : W(pipe) \notin fds[p]

\* read(sync_pipe[0]) returns: nothing is ever written to it.
PassGate(d) ==
    /\ st[Cmd(d)] = "gated"
    /\ EndOfFile(Sync)
    /\ st' = [st EXCEPT ![Cmd(d)] = "start"]
    /\ UNCHANGED <<line, fds, c, at>>

Stdin(d) == IF line.files[d] = Many THEN {R(In(d))}
            ELSE IF line.files[d] = 0 /\ d > 1 THEN {R(Fd(d - 1))} ELSE {}
Stdout(d) == IF line.out[d] = Many THEN {W(Out(d))}
             ELSE IF line.out[d] = 0 /\ d < line.n THEN {W(Fd(d))} ELSE {}

\* Mutant: pipefd[1] is not closed.
Wire_KeepsInput(d) ==
    /\ st[Cmd(d)] = "start"
    /\ fds' = [fds EXCEPT ![Cmd(d)] = Stdin(d) \cup Stdout(d) \cup (@ \cap {W(In(d))})]
    /\ st' = [st EXCEPT ![Cmd(d)] = "run"]
    /\ UNCHANGED <<line, c, at>>

\* The dup2() calls, the closes behind them, and execv().
Wire(d) ==
    /\ st[Cmd(d)] = "start"
    /\ fds' = [fds EXCEPT ![Cmd(d)] = Stdin(d) \cup Stdout(d)]
    /\ st' = [st EXCEPT ![Cmd(d)] = "run"]
    /\ UNCHANGED <<line, c, at>>

\* A command ends at the end of its input; a writer too.  A feeder ends when
\* its files fit into the pipe, or are read, or nobody can read them.
CanEnd(p) ==
    LET d == p[2] IN
    /\ st[p] = "run"
    /\ p[1] = "cmd" => \A pipe \in Pipes : R(pipe) \in fds[p] => EndOfFile(pipe)
    /\ p[1] = "writer" => EndOfFile(Out(d))
    /\ p[1] = "feeder" /\ line.big =>
           st[Cmd(d)] = "run" \/ \A q \in Processes : R(In(d)) \notin fds[q]

End(p) ==
    /\ CanEnd(p)
    /\ fds' = [fds EXCEPT ![p] = {}]
    /\ st' = [st EXCEPT ![p] = "done"]
    /\ UNCHANGED <<line, c, at>>

PipelineNext ==
    \/ StagePipe \/ ExecuteFails \/ ForkFeeder \/ ForkWriter \/ ForkCmd \/ ExecuteEnds
    \/ \E d \in Stages : PassGate(d) \/ Wire(d)
    \/ \E p \in Children : End(p)

PipelineSpec == PipelineInit /\ [][PipelineNext]_pipelineVars
-----------------------------------------------------------------------------
PipelineTypeOK ==
    /\ line \in Lines
    /\ fds \in [Processes -> SUBSET (Pipes \X {"read", "write"})]
    /\ st \in [Children -> {"none", "gated", "start", "run", "done"}]
    /\ c \in 1..(MaxStages + 1)
    /\ at \in {"pipe", "feeder", "writer", "cmd", "done", "failed"}

\* No child can go on.
Stuck ==
    /\ at \in {"done", "failed"}
    /\ \A d \in Stages : st[Cmd(d)] # "start" /\ ~(st[Cmd(d)] = "gated" /\ EndOfFile(Sync))
    /\ \A p \in Children : ~CanEnd(p)

\* Ends that a writer or a feeder inherits keep another reader from its end of
\* file: a writer keeps the feeder's pipe open, and either keeps the sync pipe
\* of a background pipeline open.
HeldOpen ==
    \E d \in Stages : d <= line.n /\
        \/ line.files[d] = Many /\ line.out[d] = Many
        \/ line.bg /\ line.out[d] = Many
        \/ line.bg /\ line.files[d] = Many /\ line.big

\* A pipeline ends, every process of it, except in these cases: no other end
\* that execute() leaves open blocks anybody.
StuckOnlyWhenHeldOpen ==
    Stuck /\ (\E p \in Children : st[p] \notin {"none", "done"}) => HeldOpen

\* execute() leaves no pipe end open in the shell when it succeeds.
ShellClosesPipes == at = "done" => fds[Shell] = {}
=============================================================================
