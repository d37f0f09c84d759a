-------------------------------- MODULE Jobs --------------------------------
(***************************************************************************)
(* Job control of the shell (c-shell/src/execution.c, activities.c,        *)
(* main.c): the table of jobs, the pipelines execute() starts, the SIGCHLD *)
(* handler that may run between any two steps of the shell, and resume,    *)
(* ping and exit.  The kernel's side of a child (running, stopped or dead, *)
(* with a status change that nobody has waited for yet) is part of the     *)
(* model.  The descriptors of a pipeline are in module Pipeline.           *)
(*                                                                         *)
(* Not here: stages made of redirections only, arrays that run full, and   *)
(* the reuse of process ids.                                               *)
(***************************************************************************)
EXTENDS Naturals, FiniteSets, Sequences

CONSTANTS
    NPids,      \* bound: children the shell forks
    MaxStages,  \* commands of a pipeline
    Helpers     \* BOOLEAN: pipelines may fork a feeder or a writer

ASSUME JobsAssumption ==
    /\ NPids \in Nat \ {0} /\ MaxStages \in Nat \ {0}
    /\ Helpers \in BOOLEAN

Pids == 1..NPids

VARIABLES
    os,         \* the kernel's view: "none", "run", "stop", "exit", "kill"
    report,     \* the last change of os[p] has not been waited for
    sigchld,    \* SIGCHLD is pending for the shell
    gate,       \* children that wait for the end of file of sync_pipe
    job,        \* jobs[]: the pids of each job, bg, active
    state,      \* prs[].state of a pid in the table: 0 running, 1 stopped, 2 done
    exit,       \* prs[].exit
    printed,    \* prs[].printed
    timed_out, armed,   \* the flag of sigalrm_handler, a pending alarm()
    warning,
    terminal,   \* the foreground process group: a job, or 0 for the shell
    pc,         \* where the shell is
    cmd,        \* the locals of execute() and resume()
    hup         \* the jobs that were sent SIGHUP

kernelvars == <<os, report, sigchld, gate>>
tablevars == <<job, state, exit, printed>>
alarmvars == <<timed_out, armed>>
vars == <<kernelvars, tablevars, alarmvars, warning, terminal, pc, cmd, hup>>

NoCmd == [pids |-> <<>>, helpers |-> {}, n |-> 0, bg |-> FALSE, j |-> 0, k |-> 0,
          timeout |-> FALSE, stopped |-> FALSE, cut |-> FALSE]

Forked == {p \in Pids : os[p] # "none"}
Dead(p) == os[p] \in {"exit", "kill"}
Alive(p) == os[p] \in {"run", "stop"}
PidsOf(j) == {job[j].pids[i] : i \in 1..Len(job[j].pids)}

Init ==
    /\ os = [p \in Pids |-> "none"]
    /\ report = [p \in Pids |-> FALSE]
    /\ sigchld = FALSE
    /\ gate = {}
    /\ job = <<>>
    /\ state = [p \in Pids |-> 0]
    /\ exit = [p \in Pids |-> TRUE]
    /\ printed = [p \in Pids |-> FALSE]
    /\ timed_out = FALSE /\ armed = FALSE
    /\ warning = FALSE
    /\ terminal = 0
    /\ pc = "prompt"
    /\ cmd = NoCmd
    /\ hup = {}

-----------------------------------------------------------------------------
(* The children.                                                           *)

\* A child ends, is stopped from the keyboard or by a signal, or continued.
ChildChanges(p) ==
    /\ p \notin gate
    /\ \/ os[p] = "run" /\ os' = [os EXCEPT ![p] = "exit"]
       \/ os[p] = "run" /\ os' = [os EXCEPT ![p] = "kill"]
       \/ os[p] = "run" /\ os' = [os EXCEPT ![p] = "stop"]
       \/ os[p] = "stop" /\ os' = [os EXCEPT ![p] = "kill"]
       \/ os[p] = "stop" /\ os' = [os EXCEPT ![p] = "run"]
    /\ report' = [report EXCEPT ![p] = TRUE]
    /\ sigchld' = TRUE
    /\ UNCHANGED <<gate, tablevars, alarmvars, warning, terminal, pc, cmd, hup>>

\* kill(): SIGCONT, SIGSTOP or SIGKILL to the processes of P.
Signal(P, sig) ==
    LET to == CASE sig = "CONT" -> [p \in Pids |-> IF os[p] = "stop" THEN "run" ELSE os[p]]
                [] sig = "STOP" -> [p \in Pids |-> IF os[p] = "run" THEN "stop" ELSE os[p]]
                [] sig = "KILL" -> [p \in Pids |-> IF Alive(p) THEN "kill" ELSE os[p]]
    IN  os' = [p \in Pids |-> IF p \in P THEN to[p] ELSE os[p]]

-----------------------------------------------------------------------------
(* update_state()                                                          *)

\* The entries after the statuses s of the pids in P have been entered: a
\* pid that no active job has is ignored.
Entered(P, s) ==
    LET hit == {p \in P : \E j \in 1..Len(job) : job[j].active /\ p \in PidsOf(j)}
        st == [p \in Pids |->
                 IF p \notin hit THEN state[p]
                 ELSE CASE s[p] \in {"exit", "kill"} -> 2
                        [] s[p] = "stop" -> 1
                        [] s[p] = "run" -> 0
                        [] OTHER -> state[p]]
        ex == [p \in Pids |-> IF p \in hit /\ s[p] \in {"exit", "kill"}
                              THEN s[p] = "exit" ELSE exit[p]]
        act == [j \in 1..Len(job) |-> job[j].active /\ \E p \in PidsOf(j) : st[p] # 2]
    IN  [state |-> st, exit |-> ex,
         job |-> [j \in 1..Len(job) |-> [job[j] EXCEPT !.active = act[j]]]]

Reportable == {p \in Pids : report[p]}

\* update_state(-1, 0): waitpid(-1, WNOHANG|WUNTRACED|WCONTINUED) until
\* nothing is left.
Polled == Entered(Reportable, os)

\* The same, then the table becomes what t says.
Poll(t) ==
    /\ state' = t.state /\ exit' = t.exit /\ job' = t.job
    /\ report' = [p \in Pids |-> FALSE]

\* print_prs() after it: the background jobs' dead are announced.
Announce ==
    printed' = [p \in Pids |->
        printed[p] \/ (state'[p] = 2 /\ \E j \in 1..Len(job) : job[j].bg /\ p \in PidsOf(j))]

\* The handler of SIGCHLD, at any point of the shell's code.  If it interrupts
\* getline(), main() starts over with print_prs().
SigchldHandler ==
    /\ sigchld /\ pc # "exited"
    /\ sigchld' = FALSE
    /\ Poll(Polled)
    /\ \/ pc = "prompt" /\ Announce /\ warning' = FALSE
       \/ UNCHANGED <<printed, warning>>
    /\ UNCHANGED <<os, gate, alarmvars, terminal, pc, cmd, hup>>

-----------------------------------------------------------------------------
(* execute()                                                               *)

Idle == pc \in {"prompt", "line"}

\* A command of a line; lines may hold several.
Command ==
    /\ Idle
    /\ \E n \in 1..MaxStages, bg \in BOOLEAN :
        /\ Cardinality(Forked) + n <= NPids
        /\ cmd' = [NoCmd EXCEPT !.n = n, !.bg = bg]
    /\ pc' = "fork"
    /\ warning' = FALSE
    /\ UNCHANGED <<kernelvars, tablevars, alarmvars, terminal, hup>>

NewPid == Cardinality(Forked) + 1

\* Mutant: no sync pipe.
Fork_NoGate(p) ==
    /\ os' = [os EXCEPT ![p] = "run"]
    /\ UNCHANGED <<gate, report, sigchld>>

Fork(p) ==
    /\ os' = [os EXCEPT ![p] = "run"]
    /\ gate' = IF cmd.bg THEN gate \cup {p} ELSE gate
    /\ UNCHANGED <<report, sigchld>>

ForkStage ==
    /\ pc = "fork" /\ Len(cmd.pids) < cmd.n
    /\ NewPid \in Pids
    /\ Fork(NewPid)
    /\ cmd' = [cmd EXCEPT !.pids = Append(@, NewPid)]
    /\ UNCHANGED <<tablevars, alarmvars, warning, terminal, pc, hup>>

\* The feeder or writer of the next stage: not gated and not in the table.
ForkHelper ==
    /\ Helpers
    /\ pc = "fork" /\ Len(cmd.pids) < cmd.n
    /\ cmd.helpers = {} /\ NewPid + cmd.n - Len(cmd.pids) \in Pids
    /\ os' = [os EXCEPT ![NewPid] = "run"]
    /\ cmd' = [cmd EXCEPT !.helpers = {<<NewPid, Len(cmd.pids) + 1>>}]
    /\ UNCHANGED <<report, sigchld, gate, tablevars, alarmvars, warning, terminal, pc, hup>>

\* An early return: syntax error, no such file, command not found.  The
\* sync pipe is closed; stages already started go on, unknown to the table.
\* In the foreground, the rest of the line is dropped.
ExecuteFails ==
    /\ pc = "fork" /\ Len(cmd.pids) < cmd.n
    /\ gate' = gate \ {cmd.pids[i] : i \in 1..Len(cmd.pids)}
    /\ pc' = IF cmd.bg THEN "line" ELSE "lineend"
    /\ cmd' = NoCmd
    /\ UNCHANGED <<os, report, sigchld, tablevars, alarmvars, warning, terminal, hup>>

\* add_job(); in the background, the sync pipe is closed after it.
add_job ==
    /\ pc = "fork" /\ Len(cmd.pids) = cmd.n
    /\ LET pids == cmd.pids
           in(p) == \E i \in 1..Len(pids) : pids[i] = p
       IN  /\ job' = Append(job, [pids |-> pids, bg |-> cmd.bg, active |-> TRUE,
                                  started |-> IF cmd.bg THEN "bg" ELSE "fg"])
           /\ state' = [p \in Pids |-> IF in(p) THEN 0 ELSE state[p]]
           /\ exit' = [p \in Pids |-> IF in(p) THEN TRUE ELSE exit[p]]
           /\ printed' = [p \in Pids |-> IF in(p) THEN FALSE ELSE printed[p]]
           /\ gate' = {p \in gate : ~in(p)}
    /\ IF cmd.bg
       THEN pc' = "line" /\ cmd' = NoCmd /\ UNCHANGED terminal
       ELSE /\ pc' = "wait"
            /\ cmd' = [cmd EXCEPT !.k = 1, !.j = Len(job) + 1]
            /\ terminal' = Len(job) + 1
    /\ UNCHANGED <<os, report, sigchld, alarmvars, warning, hup>>

-----------------------------------------------------------------------------
(* The wait for a foreground pipeline: waitpid() once per stage.           *)

\* waitpid(p, &status, WUNTRACED) has something to return.
Waitable(p) == report[p] /\ os[p] \in {"stop", "exit", "kill"}
Reaped(p) == Dead(p) /\ ~report[p]

\* The stage execute() waits for, unless it is at the helper of the one before.
WaitFor == cmd.pids[cmd.k]
AtStage == cmd.k <= cmd.n /\ \A h \in cmd.helpers : h[2] >= cmd.k

\* Mutant: only the first process of a pipeline is waited for.
WaitNext_First(s, cut) ==
    cmd' = [cmd EXCEPT !.k = cmd.n + 1, !.stopped = @ \/ s = "stop", !.cut = @ \/ cut]

\* status is s; cut records that it did not come from waitpid().
WaitNext(s, cut) ==
    cmd' = [cmd EXCEPT !.k = @ + 1, !.stopped = @ \/ s = "stop", !.cut = @ \/ cut]

\* The status of WaitFor; the SIGCHLD that came with it is handled first.
WaitStatus ==
    /\ pc = "wait" /\ AtStage
    /\ Waitable(WaitFor)
    /\ Poll(Polled)
    /\ sigchld' = FALSE
    /\ WaitNext(os[WaitFor], FALSE)
    /\ UNCHANGED <<os, gate, printed, alarmvars, warning, terminal, pc, hup>>

\* waitpid() fails: the handler has reaped WaitFor already, or another
\* child's SIGCHLD interrupts it.  status is an uninitialised variable.
WaitFails ==
    /\ pc = "wait" /\ AtStage
    /\ ~Waitable(WaitFor)
    /\ Reaped(WaitFor) \/ sigchld
    /\ sigchld' = FALSE
    /\ \E garbage \in {"exit", "kill", "stop", "run", "other"} :
          /\ Poll(Entered(Reportable \cup {WaitFor}, [os EXCEPT ![WaitFor] = garbage]))
          /\ WaitNext(garbage, TRUE)
    /\ UNCHANGED <<os, gate, printed, alarmvars, warning, terminal, pc, hup>>

\* waitpid(helper, NULL, 0): returns when the helper is dead, or -1.
WaitHelper ==
    /\ pc = "wait"
    /\ \E h \in cmd.helpers :
        /\ h[2] < cmd.k
        /\ Dead(h[1]) \/ sigchld
        /\ cmd' = [cmd EXCEPT !.helpers = @ \ {h}]
    /\ Poll(Polled)
    /\ sigchld' = FALSE
    /\ UNCHANGED <<os, gate, printed, alarmvars, warning, terminal, pc, hup>>

WaitDone ==
    /\ pc = "wait" /\ cmd.k > cmd.n /\ cmd.helpers = {}
    /\ terminal' = 0
    /\ Poll(Polled) /\ Announce
    /\ pc' = "line"
    /\ cmd' = NoCmd
    /\ UNCHANGED <<os, sigchld, gate, alarmvars, warning, hup>>

-----------------------------------------------------------------------------
(* resume()                                                                *)

\* update_state(-1, 0), the job is looked up, its entries are set to running
\* and it gets SIGCONT.  No such job: nothing else happens.
Resume(j, fg) ==
    LET t == Polled
        P == PidsOf(j)
    IN  IF t.job[j].active
        THEN /\ Signal(P, "CONT")
             /\ state' = [p \in Pids |-> IF p \in P /\ t.state[p] # 2 THEN 0 ELSE t.state[p]]
             /\ exit' = t.exit
             /\ job' = [t.job EXCEPT ![j].bg = @ \/ ~fg]
             /\ report' = [p \in Pids |-> os'[p] # os[p]]
             /\ sigchld' = (sigchld \/ os' # os)
        ELSE Poll(t) /\ UNCHANGED <<os, sigchld>>

ResumeBg ==
    /\ Idle
    /\ \E j \in 1..Len(job) : Resume(j, FALSE)
    /\ pc' = "line"
    /\ warning' = FALSE
    /\ UNCHANGED <<gate, printed, alarmvars, terminal, cmd, hup>>

ResumeFg ==
    /\ Idle
    /\ \E j \in 1..Len(job), timeout \in BOOLEAN :
        /\ Resume(j, TRUE)
        /\ IF Polled.job[j].active
           THEN /\ terminal' = j
                /\ timed_out' = (timed_out /\ ~timeout)
                /\ armed' = timeout
                /\ pc' = "rloop"
                /\ cmd' = [NoCmd EXCEPT !.j = j, !.k = 1, !.n = Len(job[j].pids),
                                        !.pids = job[j].pids, !.timeout = timeout]
           ELSE pc' = "line" /\ UNCHANGED <<terminal, alarmvars, cmd>>
    /\ warning' = FALSE
    /\ UNCHANGED <<gate, printed, hup>>

\* The alarm: a blocked waitpid() fails; at any other point only the flag is
\* set.
Alarm ==
    /\ armed /\ pc \in {"rloop", "rwait", "rend"}
    /\ timed_out' = TRUE /\ armed' = FALSE
    /\ \/ pc = "rwait" /\ ~Waitable(WaitFor) /\ ~Reaped(WaitFor) /\ pc' = "rend"
       \/ UNCHANGED pc
    /\ UNCHANGED <<kernelvars, tablevars, warning, terminal, cmd, hup>>

\* The loop over the job's entries; one that is done already is skipped.
RLoop ==
    /\ pc = "rloop"
    /\ \/ cmd.k > cmd.n /\ pc' = "rend" /\ UNCHANGED cmd
       \/ /\ cmd.k <= cmd.n /\ state[WaitFor] = 2
          /\ cmd' = [cmd EXCEPT !.k = @ + 1]
          /\ UNCHANGED pc
       \/ cmd.k <= cmd.n /\ state[WaitFor] # 2 /\ pc' = "rwait" /\ UNCHANGED cmd
    /\ UNCHANGED <<kernelvars, tablevars, alarmvars, warning, terminal, hup>>

\* After waitpid() has returned for good.
RNext ==
    /\ pc' = IF timed_out THEN "rend" ELSE "rloop"
    /\ cmd' = [cmd EXCEPT !.k = @ + 1]

RWaitStatus ==
    /\ pc = "rwait" /\ Waitable(WaitFor)
    /\ Poll(Polled)
    /\ sigchld' = FALSE
    /\ RNext
    /\ UNCHANGED <<os, gate, printed, alarmvars, warning, terminal, hup>>

\* The handler was faster: ECHILD, and no update.
RWaitGone ==
    /\ pc = "rwait" /\ Reaped(WaitFor)
    /\ RNext
    /\ UNCHANGED <<kernelvars, tablevars, alarmvars, warning, terminal, hup>>

\* Interrupted by SIGCHLD: back to waitpid() unless the alarm has come.
RWaitInterrupted ==
    /\ pc = "rwait" /\ sigchld
    /\ ~Waitable(WaitFor) /\ ~Reaped(WaitFor)
    /\ Poll(Polled)
    /\ sigchld' = FALSE
    /\ pc' = IF timed_out THEN "rend" ELSE pc
    /\ UNCHANGED <<os, gate, printed, alarmvars, warning, terminal, cmd, hup>>

\* alarm(0); SIGTERM if timed_out.  What the processes make of SIGTERM is
\* left to ChildChanges.
ResumeEnd ==
    /\ pc = "rend"
    /\ armed' = FALSE
    /\ terminal' = 0
    /\ Poll(Polled) /\ Announce
    /\ pc' = "line"
    /\ cmd' = NoCmd
    /\ UNCHANGED <<os, sigchld, gate, timed_out, warning, hup>>

-----------------------------------------------------------------------------
(* ping, exit and the main loop.                                           *)

\* ping of a job, or of a process that the table does not show as done.
ping ==
    /\ Idle
    /\ \E sig \in {"CONT", "STOP", "KILL"}, j \in 1..Len(job) :
        \E P \in {PidsOf(j)} \cup {{p} : p \in PidsOf(j)} :
            LET t == Polled
                found == t.job[j].active /\ (P = PidsOf(j) \/ \A p \in P : t.state[p] # 2)
            IN  /\ state' = t.state /\ exit' = t.exit /\ job' = t.job
                /\ IF found THEN Signal(P, sig) ELSE UNCHANGED os
                /\ report' = [p \in Pids |-> os'[p] # os[p]]
                /\ sigchld' = (sigchld \/ os' # os)
    /\ pc' = "line"
    /\ warning' = FALSE
    /\ UNCHANGED <<gate, printed, alarmvars, terminal, cmd, hup>>

\* Mutant: stopped jobs are left alone.
send_sighup_Running ==
    /\ Poll(Polled)
    /\ hup' = {j \in 1..Len(job) : \E p \in PidsOf(j) : Polled.state[p] = 0}
    /\ pc' = "exited"

\* send_sighup(): the jobs active after a poll.
send_sighup ==
    /\ Poll(Polled)
    /\ hup' = {j \in 1..Len(job) : Polled.job[j].active}
    /\ pc' = "exited"

exit_command ==
    /\ Idle
    /\ send_sighup
    /\ UNCHANGED <<os, sigchld, gate, printed, alarmvars, warning, terminal, cmd>>

\* End of file: a warning first when a job is stopped.
EndOfFile ==
    /\ pc = "prompt"
    /\ IF ~warning /\ \E j \in 1..Len(job) :
                         Polled.job[j].active /\ \E p \in PidsOf(j) : Polled.state[p] = 1
       THEN /\ Poll(Polled) /\ Announce
            /\ warning' = TRUE
            /\ UNCHANGED <<pc, hup>>
       ELSE send_sighup /\ UNCHANGED <<printed, warning>>
    /\ UNCHANGED <<os, sigchld, gate, alarmvars, terminal, cmd>>

\* activities polls and lists the table.
print_activities ==
    /\ Idle
    /\ Poll(Polled)
    /\ pc' = "line"
    /\ warning' = FALSE
    /\ UNCHANGED <<os, sigchld, gate, printed, alarmvars, terminal, cmd, hup>>

\* The end of a line, or a line without a command: print_prs() and the prompt.
Prompt ==
    /\ pc \in {"prompt", "line", "lineend"}
    /\ Poll(Polled) /\ Announce
    /\ warning' = FALSE
    /\ pc' = "prompt"
    /\ UNCHANGED <<os, sigchld, gate, alarmvars, terminal, cmd, hup>>

Shell ==
    \/ Command \/ ForkStage \/ ForkHelper \/ ExecuteFails \/ add_job
    \/ WaitStatus \/ WaitFails \/ WaitHelper \/ WaitDone
    \/ ResumeBg \/ ResumeFg \/ RLoop \/ RWaitStatus \/ RWaitGone
    \/ RWaitInterrupted \/ ResumeEnd
    \/ ping \/ print_activities \/ exit_command \/ EndOfFile \/ Prompt

Next == Shell \/ SigchldHandler \/ Alarm \/ \E p \in Pids : ChildChanges(p)

Spec == Init /\ [][Next]_vars

-----------------------------------------------------------------------------
(* Properties.                                                             *)

\* The sync pipe keeps the children of a background pipeline from ending
\* before add_job(), and from then on the handler, resume and ping keep the
\* entries right: once no status is outstanding, each tells what its process
\* is, how it ended, and whether the job is active.
BackgroundEntriesAccurate ==
    \A j \in 1..Len(job) : job[j].started = "bg" =>
        /\ \A p \in PidsOf(j) : ~report[p] =>
            /\ state[p] = (CASE os[p] = "run" -> 0 [] os[p] = "stop" -> 1 [] Dead(p) -> 2)
            /\ Dead(p) => exit[p] = (os[p] = "exit")
        /\ job[j].active <=> \E p \in PidsOf(j) : state[p] # 2

\* On exit and end of file no background process is left without SIGHUP.
HangupReachesAll ==
    pc = "exited" =>
        \A j \in 1..Len(job) :
            job[j].started = "bg" /\ (\E p \in PidsOf(j) : Alive(p)) => j \in hup

\* When the shell takes the terminal back and does not say "Stopped", the whole
\* pipeline has ended, provided that its waitpid() calls all succeeded.
ForegroundWaited ==
    [][pc = "wait" /\ pc' = "line" /\ ~cmd.cut /\ ~cmd.stopped =>
           \A p \in PidsOf(cmd.j) : Dead(p)]_vars
=============================================================================
