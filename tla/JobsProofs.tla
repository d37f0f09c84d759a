----------------------------- MODULE JobsProofs -----------------------------
(***************************************************************************)
(* Theorems about module Jobs, for any number of processes and any set of  *)
(* pipelines, with and without helper processes: the entries of background *)
(* jobs are accurate, send_sighup reaches them all, and the foreground job *)
(* is waited for.                                                          *)
(***************************************************************************)
EXTENDS Jobs, FiniteSetTheorems, TLAPS

\* The time the provers are given for a step.
USE ZenonT(20), SMTT(20)

(* The job table: what execute(), the handler, resume and ping keep true.  *)

Status == {"none", "run", "stop", "exit", "kill"}
Entries == [pids : Seq(Pids), bg : BOOLEAN, active : BOOLEAN, started : {"bg", "fg"}]
Locals == [pids : Seq(Pids), helpers : SUBSET (Pids \X Nat), n : Nat, bg : BOOLEAN, j : Nat, k : Nat,
           timeout : BOOLEAN, stopped : BOOLEAN, cut : BOOLEAN]

JobsType ==
    /\ os \in [Pids -> Status] /\ report \in [Pids -> BOOLEAN]
    /\ gate \subseteq Pids
    /\ job \in Seq(Entries)
    /\ state \in [Pids -> 0..2] /\ exit \in [Pids -> BOOLEAN]
    /\ cmd \in Locals

CmdPids == {cmd.pids[i] : i \in 1..Len(cmd.pids)}

\* Process ids are given out in order, those of the jobs are different, and
\* only a process that was forked has something to report.
PidsInv ==
    /\ Forked = 1..Cardinality(Forked) /\ Cardinality(Forked) \in Nat
    /\ \A p \in Pids : os[p] = "none" => ~report[p]
    /\ \A j \in 1..Len(job) : PidsOf(j) # {} /\ PidsOf(j) \subseteq Forked
    /\ \A j, k \in 1..Len(job) : j # k => PidsOf(j) \cap PidsOf(k) = {}

\* The gate holds the processes of a background pipeline, and only until
\* add_job(); the foreground pipeline that is waited for is in the table.
CmdInv ==
    /\ pc = "fork" =>
        /\ cmd.n # 0 /\ Len(cmd.pids) <= cmd.n /\ CmdPids \subseteq Forked
        /\ \A j \in 1..Len(job) : CmdPids \cap PidsOf(j) = {}
    /\ gate = IF pc = "fork" /\ cmd.bg THEN CmdPids ELSE {}
    /\ \A p \in gate : os[p] = "run" /\ ~report[p]
    /\ pc = "wait" =>
        /\ cmd.k # 0 /\ Len(cmd.pids) = cmd.n
        /\ cmd.j \in 1..Len(job) /\ job[cmd.j].pids = cmd.pids /\ job[cmd.j].started = "fg"
        /\ ~cmd.cut /\ ~cmd.stopped => \A i \in 1..Len(cmd.pids) : i < cmd.k => Dead(cmd.pids[i])

\* What an entry tells of its process.
Tells(p, st, ex) ==
    /\ st = (CASE os[p] = "run" -> 0 [] os[p] = "stop" -> 1 [] Dead(p) -> 2)
    /\ Dead(p) => ex = (os[p] = "exit")

\* An entry of a background job is right when nothing is outstanding, and an
\* entry that is done is right in any case: nobody will look at it again.
EntriesInv ==
    \A j \in 1..Len(job) : job[j].started = "bg" =>
        /\ \A p \in PidsOf(j) :
            /\ ~report[p] => Tells(p, state[p], exit[p])
            /\ state[p] = 2 => Dead(p) /\ exit[p] = (os[p] = "exit")
        /\ job[j].active <=> \E p \in PidsOf(j) : state[p] # 2

JobsInv == JobsType /\ PidsInv /\ CmdInv /\ EntriesInv /\ HangupReachesAll
-----------------------------------------------------------------------------
\* The table keeps its jobs and their processes.
SameJobs ==
    /\ Len(job') = Len(job)
    /\ \A k \in 1..Len(job) : job'[k].pids = job[k].pids /\ job'[k].started = job[k].started

LEMMA SamePids ==
    ASSUME SameJobs, NEW k \in 1..Len(job)
    PROVE  PidsOf(k)' = PidsOf(k)
  BY DEF SameJobs, PidsOf

LEMMA PidsAre ==
    ASSUME JobsType
    PROVE  /\ \A j \in 1..Len(job) : PidsOf(j) \subseteq Pids /\ job[j] \in Entries
           /\ CmdPids \subseteq Pids
  <1>1. \A j \in 1..Len(job) : job[j] \in Entries
    BY SMT DEF JobsType
  <1>2. \A j \in 1..Len(job) : job[j].pids \in Seq(Pids)
    BY <1>1 DEF Entries
  <1>3. \A j \in 1..Len(job) : \A i \in 1..Len(job[j].pids) : job[j].pids[i] \in Pids
    BY <1>2
  <1>4. cmd.pids \in Seq(Pids)
    BY DEF JobsType, Locals
  <1>5. \A i \in 1..Len(cmd.pids) : cmd.pids[i] \in Pids
    BY <1>4
  <1> QED BY <1>1, <1>3, <1>5 DEF PidsOf, CmdPids

\* update_state() changes what the entries say, and no more than that.
LEMMA EnteredTable ==
    ASSUME JobsType, NEW P, NEW s
    PROVE  /\ Entered(P, s).state \in [Pids -> 0..2] /\ Entered(P, s).exit \in [Pids -> BOOLEAN]
           /\ Entered(P, s).job \in Seq(Entries) /\ Len(Entered(P, s).job) = Len(job)
           /\ \A k \in 1..Len(job) : /\ Entered(P, s).job[k].pids = job[k].pids
                                     /\ Entered(P, s).job[k].started = job[k].started
                                     /\ Entered(P, s).job[k].bg = job[k].bg
  <1> DEFINE t == Entered(P, s)
  <1>1. t.state \in [Pids -> 0..2]
    <2> SUFFICES ASSUME NEW p \in Pids PROVE t.state[p] \in 0..2
      BY DEF Entered
    <2>1. state[p] \in 0..2 /\ 0 \in 0..2 /\ 1 \in 0..2 /\ 2 \in 0..2
      BY SMT DEF JobsType
    <2> QED BY <2>1 DEF Entered
  <1>2. t.exit \in [Pids -> BOOLEAN]
    BY DEF Entered, JobsType
  <1>3. \A k \in 1..Len(job) : job[k] \in Entries
    BY DEF JobsType
  <1>4. PICK act : /\ act \in [1..Len(job) -> BOOLEAN]
                   /\ t.job = [k \in 1..Len(job) |-> [job[k] EXCEPT !.active = act[k]]]
    <2> DEFINE a == [k \in 1..Len(job) |-> job[k].active /\ \E p \in PidsOf(k) : t.state[p] # 2]
    <2>1. a \in [1..Len(job) -> BOOLEAN]
      OBVIOUS
    <2>2. t.job = [k \in 1..Len(job) |-> [job[k] EXCEPT !.active = a[k]]]
      BY DEF Entered
    <2> HIDE DEF a, t
    <2> QED BY <2>1, <2>2
  <1>5. Len(job) \in Nat
    BY DEF JobsType
  <1>6. \A k \in 1..Len(job) : /\ t.job[k] \in Entries /\ t.job[k].pids = job[k].pids
                               /\ t.job[k].started = job[k].started /\ t.job[k].bg = job[k].bg
    BY SMT, <1>3, <1>4 DEF Entries
  <1>7. t.job \in Seq(Entries) /\ Len(t.job) = Len(job)
    BY SMT, <1>4, <1>5, <1>6
  <1> QED BY <1>1, <1>2, <1>6, <1>7

\* Once the statuses are entered, the entries of a background job are right.
LEMMA EnteredTells ==
    ASSUME JobsType, PidsInv, EntriesInv, NEW P, NEW s, Reportable \subseteq P,
           NEW j \in 1..Len(job), job[j].started = "bg", \A p \in PidsOf(j) : s[p] = os[p]
    PROVE  /\ \A p \in PidsOf(j) : Tells(p, Entered(P, s).state[p], Entered(P, s).exit[p])
           /\ Entered(P, s).job[j].active <=> \E p \in PidsOf(j) : Entered(P, s).state[p] # 2
  <1> DEFINE t == Entered(P, s)
             hit == {p \in P : \E k \in 1..Len(job) : job[k].active /\ p \in PidsOf(k)}
  <1>1. \A p \in PidsOf(j) : p \in Pids /\ os[p] \in Status \ {"none"} /\ state[p] \in 0..2
    BY PidsAre DEF PidsInv, Forked, JobsType
  <1>2. ASSUME NEW p \in PidsOf(j)
        PROVE  Tells(p, t.state[p], t.exit[p])
    <2>1. CASE p \in hit
      <3>1. t.state[p] = CASE os[p] \in {"exit", "kill"} -> 2
                           [] os[p] = "stop" -> 1
                           [] os[p] = "run" -> 0
                           [] OTHER -> state[p]
        BY <1>1, <2>1 DEF Entered
      <3>2. t.exit[p] = IF os[p] \in {"exit", "kill"} THEN os[p] = "exit" ELSE exit[p]
        BY <1>1, <2>1 DEF Entered
      <3> QED BY <1>1, <3>1, <3>2 DEF Tells, Dead, Status
    <2>2. CASE p \notin hit
      <3>1. t.state[p] = state[p] /\ t.exit[p] = exit[p]
        BY <1>1, <2>2 DEF Entered
      <3>2. CASE report[p]
        <4>1. ~job[j].active
          BY <1>1, <2>2, <3>2 DEF Reportable
        <4>2. state[p] = 2
          BY <4>1 DEF EntriesInv
        <4>3. Dead(p) /\ exit[p] = (os[p] = "exit")
          BY <4>2 DEF EntriesInv
        <4> QED BY <3>1, <4>2, <4>3 DEF Tells, Dead
      <3>3. CASE ~report[p]
        BY <3>1, <3>3 DEF EntriesInv
      <3> QED BY <3>2, <3>3
    <2> QED BY <2>1, <2>2
  <1>3. t.job[j].active <=> job[j].active /\ \E p \in PidsOf(j) : t.state[p] # 2
    <2>1. job[j] \in Entries
      BY PidsAre
    <2> QED BY <2>1 DEF Entered, Entries
  <1>4. ASSUME ~job[j].active, NEW p \in PidsOf(j) PROVE t.state[p] = 2
    <2>1. Dead(p)
      BY <1>4 DEF EntriesInv
    <2> QED BY <1>2, <2>1 DEF Tells, Dead
  <1> QED BY <1>2, <1>3, <1>4

\* A step that polls leaves the entries of background jobs right.
LEMMA PollEntries ==
    ASSUME JobsInv, NEW P, NEW s, Reportable \subseteq P, Poll(Entered(P, s)), UNCHANGED os,
           \A j \in 1..Len(job) : job[j].started = "bg" => \A p \in PidsOf(j) : s[p] = os[p]
    PROVE  /\ SameJobs /\ EntriesInv'
           /\ job' \in Seq(Entries) /\ state' \in [Pids -> 0..2] /\ exit' \in [Pids -> BOOLEAN]
           /\ report' \in [Pids -> BOOLEAN] /\ \A p \in Pids : ~report'[p]
  <1>1. /\ job' = Entered(P, s).job /\ state' = Entered(P, s).state /\ exit' = Entered(P, s).exit
        /\ report' = [p \in Pids |-> FALSE]
    BY DEF Poll
  <1>2. JobsType /\ PidsInv /\ EntriesInv
    BY DEF JobsInv
  <1>3. SameJobs
    BY SMT, <1>1, <1>2, EnteredTable DEF SameJobs
  <1>4. ASSUME NEW j \in 1..Len(job), job[j].started = "bg"
        PROVE  /\ \A p \in PidsOf(j) : Tells(p, state'[p], exit'[p])
               /\ job'[j].active <=> \E p \in PidsOf(j) : state'[p] # 2
    BY <1>1, <1>2, <1>4, EnteredTells
  <1>5. EntriesInv'
    <2> SUFFICES ASSUME NEW j \in 1..Len(job'), job'[j].started = "bg"
                 PROVE  /\ \A p \in PidsOf(j)' : /\ Tells(p, state[p], exit[p])'
                                                 /\ state'[p] = 2 => Dead(p)' /\ exit'[p] = (os'[p] = "exit")
                        /\ job'[j].active <=> \E p \in PidsOf(j)' : state'[p] # 2
      BY DEF EntriesInv
    <2>1. j \in 1..Len(job) /\ job[j].started = "bg" /\ PidsOf(j)' = PidsOf(j)
      BY <1>3, SamePids DEF SameJobs
    <2>2. ASSUME NEW p \in PidsOf(j) PROVE Tells(p, state'[p], exit'[p]) /\ os'[p] = os[p] /\ os[p] \in Status \ {"none"}
      BY <1>2, <1>4, <2>1, PidsAre DEF PidsInv, Forked, JobsType
    <2>3. ASSUME NEW p \in PidsOf(j) PROVE Tells(p, state[p], exit[p])'
      BY <2>2 DEF Tells, Dead
    <2>4. ASSUME NEW p \in PidsOf(j), state'[p] = 2 PROVE Dead(p)' /\ exit'[p] = (os'[p] = "exit")
      BY SMT, <2>2, <2>4 DEF Tells, Dead, Status
    <2> QED BY <1>4, <2>1, <2>3, <2>4
  <1> QED BY <1>1, <1>2, <1>3, <1>5, EnteredTable

-----------------------------------------------------------------------------
\* No process is forked, and a dead one stays as it is.
OnlyAlive == \A p \in Pids : (os'[p] = "none" <=> os[p] = "none") /\ (Dead(p) => os'[p] = os[p])

LEMMA CarryPids ==
    ASSUME JobsInv, SameJobs, OnlyAlive, \A p \in Pids : os[p] = "none" => ~report'[p]
    PROVE  PidsInv'
  <1>1. Forked' = Forked
    BY DEF OnlyAlive, Forked
  <1>2. \A j \in 1..Len(job') : j \in 1..Len(job) /\ PidsOf(j)' = PidsOf(j)
    BY SamePids DEF SameJobs
  <1>3. \A p \in Pids : os'[p] = "none" => ~report'[p]
    BY DEF OnlyAlive
  <1> QED BY <1>1, <1>2, <1>3 DEF JobsInv, PidsInv

\* The shell does not move while children change, or the handler runs.
LEMMA CarryCmd ==
    ASSUME JobsInv, SameJobs, OnlyAlive, UNCHANGED <<cmd, pc, gate>>,
           \A p \in gate : os'[p] = os[p] /\ ~report'[p]
    PROVE  CmdInv'
  <1>1. Forked' = Forked
    BY DEF OnlyAlive, Forked
  <1>2. \A j \in 1..Len(job') : j \in 1..Len(job) /\ PidsOf(j)' = PidsOf(j)
    BY SamePids DEF SameJobs
  <1>3. CmdPids' = CmdPids /\ CmdPids \subseteq Pids
    BY PidsAre DEF CmdPids, JobsInv
  <1>4. pc' = "fork" =>
            /\ cmd'.n # 0 /\ Len(cmd'.pids) <= cmd'.n /\ CmdPids' \subseteq Forked'
            /\ \A j \in 1..Len(job') : CmdPids' \cap PidsOf(j)' = {}
    BY <1>1, <1>2, <1>3 DEF JobsInv, CmdInv
  <1>5. gate' = IF pc' = "fork" /\ cmd'.bg THEN CmdPids' ELSE {}
    BY <1>3 DEF JobsInv, CmdInv
  <1>6. \A p \in gate' : os'[p] = "run" /\ ~report'[p]
    BY DEF JobsInv, CmdInv
  <1>7. ASSUME pc' = "wait"
        PROVE  /\ cmd'.k # 0 /\ Len(cmd'.pids) = cmd'.n
               /\ cmd'.j \in 1..Len(job') /\ job'[cmd'.j].pids = cmd'.pids /\ job'[cmd'.j].started = "fg"
               /\ ~cmd'.cut /\ ~cmd'.stopped => \A i \in 1..Len(cmd'.pids) : i < cmd'.k => Dead(cmd.pids[i])'
    <2>1. \A i \in 1..Len(cmd.pids) : Dead(cmd.pids[i]) => Dead(cmd.pids[i])'
      BY <1>3 DEF OnlyAlive, Dead, CmdPids
    <2>2. /\ cmd.k # 0 /\ Len(cmd.pids) = cmd.n
          /\ cmd.j \in 1..Len(job) /\ job[cmd.j].pids = cmd.pids /\ job[cmd.j].started = "fg"
          /\ ~cmd.cut /\ ~cmd.stopped => \A i \in 1..Len(cmd.pids) : i < cmd.k => Dead(cmd.pids[i])
      BY <1>7 DEF JobsInv, CmdInv
    <2> QED BY <2>1, <2>2 DEF SameJobs
  <1> QED BY <1>4, <1>5, <1>6, <1>7 DEF CmdInv

\* Outside execute() nothing is waited for.
LEMMA NoCmdInv ==
    ASSUME pc' \notin {"fork", "wait"}, gate' = {}
    PROVE  CmdInv'
  BY DEF CmdInv

LEMMA GateOpen ==
    ASSUME JobsInv, pc # "fork"
    PROVE  gate = {}
  BY DEF JobsInv, CmdInv

\* What was sent SIGHUP stays so.
LEMMA CarryHangup ==
    ASSUME JobsInv, pc = "exited" => SameJobs /\ OnlyAlive /\ UNCHANGED hup, pc' = "exited" => pc = "exited"
    PROVE  HangupReachesAll'
  <1> SUFFICES ASSUME pc' = "exited", NEW j \in 1..Len(job'), job'[j].started = "bg",
                      NEW p \in PidsOf(j)', Alive(p)'
               PROVE  j \in hup'
    BY DEF HangupReachesAll
  <1>1. j \in 1..Len(job) /\ job[j].started = "bg" /\ p \in PidsOf(j) /\ p \in Pids
    BY SamePids, PidsAre DEF SameJobs, JobsInv
  <1>2. Alive(p)
    <2>1. os[p] \in Status /\ os[p] # "none"
      BY <1>1 DEF JobsInv, JobsType, PidsInv, Forked
    <2> QED BY <1>1, <2>1 DEF OnlyAlive, Alive, Dead, Status
  <1> QED BY <1>1, <1>2 DEF JobsInv, HangupReachesAll
-----------------------------------------------------------------------------
\* The steps that leave the children and the table alone.
LEMMA QuietStep ==
    ASSUME JobsInv, UNCHANGED <<os, report, job, state, exit>>
    PROVE  SameJobs /\ OnlyAlive /\ PidsInv' /\ EntriesInv'
  <1>1. SameJobs /\ OnlyAlive
    BY DEF SameJobs, OnlyAlive
  <1>2. PidsInv'
    BY <1>1, CarryPids DEF JobsInv, PidsInv
  <1>3. EntriesInv'
    <2>1. \A j \in 1..Len(job) : PidsOf(j)' = PidsOf(j)
      BY DEF PidsOf
    <2>2. \A p, st, ex : Tells(p, st, ex) => Tells(p, st, ex)'
      BY DEF Tells, Dead
    <2>3. \A p : Dead(p) => Dead(p)'
      BY DEF Dead
    <2> QED BY SMT, <2>1, <2>2, <2>3 DEF JobsInv, EntriesInv
  <1> QED BY <1>1, <1>2, <1>3

LEMMA NoCmdIs == NoCmd \in Locals /\ NoCmd.pids = <<>>
  <1>1. <<>> \in Seq(Pids) /\ {} \in SUBSET (Pids \X Nat) /\ 0 \in Nat /\ FALSE \in BOOLEAN
    OBVIOUS
  <1> QED BY <1>1 DEF NoCmd, Locals

LEMMA CommandInv ==
    ASSUME JobsInv, Command
    PROVE  JobsInv'
  <1>1. UNCHANGED <<os, report, job, state, exit, gate, hup>> /\ pc # "fork" /\ pc' = "fork"
    BY DEF Command, Idle, kernelvars, tablevars
  <1>2. PICK n \in 1..MaxStages, bg \in BOOLEAN : cmd' = [NoCmd EXCEPT !.n = n, !.bg = bg]
    BY DEF Command
  <1>3. cmd' \in Locals /\ cmd'.pids = <<>> /\ cmd'.n = n /\ n # 0 /\ CmdPids' = {}
    <2>1. n \in Nat /\ n # 0
      BY <1>2, JobsAssumption
    <2>2. cmd' \in Locals /\ cmd'.pids = <<>> /\ cmd'.n = n
      BY <1>2, <2>1, NoCmdIs DEF Locals
    <2> QED BY <2>1, <2>2 DEF CmdPids
  <1>4. gate' = {}
    BY <1>1, GateOpen
  <1>5. CmdInv'
    BY <1>1, <1>3, <1>4 DEF CmdInv
  <1>6. HangupReachesAll'
    BY <1>1 DEF HangupReachesAll
  <1>7. JobsType'
    BY <1>1, <1>3 DEF JobsInv, JobsType
  <1> QED BY <1>1, <1>5, <1>6, <1>7, QuietStep DEF JobsInv

LEMMA ExecuteFailsInv ==
    ASSUME JobsInv, ExecuteFails
    PROVE  JobsInv'
  <1>1. /\ UNCHANGED <<os, report, job, state, exit, hup>> /\ pc = "fork" /\ pc' \in {"line", "lineend"}
        /\ gate' = gate \ CmdPids /\ cmd' = NoCmd
    BY DEF ExecuteFails, tablevars, CmdPids
  <1>2. gate' = {}
    BY <1>1 DEF JobsInv, CmdInv
  <1>3. cmd' \in Locals
    BY <1>1, NoCmdIs
  <1>4. CmdInv' /\ HangupReachesAll'
    BY <1>1, <1>2, NoCmdInv DEF HangupReachesAll
  <1>5. JobsType'
    BY <1>1, <1>2, <1>3 DEF JobsInv, JobsType
  <1> QED BY <1>1, <1>4, <1>5, QuietStep DEF JobsInv

\* resume's loop, and the alarm.
LEMMA ResumeLoopInv ==
    ASSUME JobsInv, RLoop \/ RWaitGone \/ Alarm
    PROVE  JobsInv'
  <1>1. /\ UNCHANGED <<os, report, job, state, exit, gate, hup>>
        /\ pc \in {"rloop", "rwait", "rend"} /\ pc' \in {"rloop", "rwait", "rend"}
    BY DEF RLoop, RWaitGone, RNext, Alarm, kernelvars, tablevars
  <1>2. cmd' \in Locals
    <2>1. cmd' = cmd \/ cmd' = [cmd EXCEPT !.k = @ + 1]
      BY DEF RLoop, RWaitGone, RNext, Alarm
    <2> QED BY SMT, <2>1 DEF JobsInv, JobsType, Locals
  <1>3. gate' = {}
    BY <1>1, GateOpen
  <1>4. CmdInv' /\ HangupReachesAll'
    BY <1>1, <1>3, NoCmdInv DEF HangupReachesAll
  <1>5. JobsType'
    BY <1>1, <1>2 DEF JobsInv, JobsType
  <1> QED BY <1>1, <1>4, <1>5, QuietStep DEF JobsInv
-----------------------------------------------------------------------------
\* The steps of the children.
LEMMA ChildInv ==
    ASSUME JobsInv, NEW p \in Pids, ChildChanges(p)
    PROVE  JobsInv'
  <1>1. /\ UNCHANGED <<job, state, exit, gate, cmd, pc, hup>> /\ p \notin gate /\ os[p] \in {"run", "stop"}
        /\ os' \in [Pids -> Status]
        /\ \A q \in Pids : q # p => os'[q] = os[q]
        /\ os'[p] \in Status \ {"none"} /\ report' = [report EXCEPT ![p] = TRUE]
    BY DEF ChildChanges, tablevars, JobsInv, JobsType, Status
  <1>2. SameJobs /\ OnlyAlive
    BY <1>1 DEF SameJobs, OnlyAlive, Dead
  <1>3. report' \in [Pids -> BOOLEAN] /\ report'[p] /\ \A q \in Pids : q # p => report'[q] = report[q]
    BY <1>1 DEF JobsInv, JobsType
  <1>4. PidsInv'
    BY <1>1, <1>2, <1>3, CarryPids DEF JobsInv, PidsInv
  <1>5. CmdInv'
    <2>1. \A q \in gate : os'[q] = os[q] /\ ~report'[q]
      BY <1>1, <1>3 DEF JobsInv, CmdInv, JobsType
    <2> QED BY <1>1, <1>2, <2>1, CarryCmd
  <1>6. EntriesInv'
    <2> SUFFICES ASSUME NEW j \in 1..Len(job), job[j].started = "bg", NEW q \in PidsOf(j)
                 PROVE  /\ ~report'[q] => Tells(q, state[q], exit[q])'
                        /\ state[q] = 2 => Dead(q)' /\ exit[q] = (os'[q] = "exit")
      BY SMT, <1>1 DEF EntriesInv, PidsOf, JobsInv
    <2>1. q \in Pids /\ (~report[q] => Tells(q, state[q], exit[q])) /\ (state[q] = 2 => Dead(q) /\ exit[q] = (os[q] = "exit"))
      BY PidsAre DEF JobsInv, EntriesInv
    <2>2. CASE q = p
      BY <1>1, <1>3, <2>1, <2>2 DEF Dead
    <2>3. CASE q # p
      BY <1>1, <1>3, <2>1, <2>3 DEF Dead, Tells
    <2> QED BY <2>2, <2>3
  <1>7. HangupReachesAll'
    BY <1>1, <1>2, CarryHangup
  <1>8. JobsType'
    BY <1>1, <1>3 DEF JobsInv, JobsType
  <1> QED BY <1>4, <1>5, <1>6, <1>7, <1>8 DEF JobsInv
-----------------------------------------------------------------------------
\* A new process has the next number, which nobody has.
LEMMA ForkPid ==
    ASSUME JobsInv, NewPid \in Pids, os' = [os EXCEPT ![NewPid] = "run"]
    PROVE  /\ os[NewPid] = "none" /\ NewPid \notin Forked /\ ~report[NewPid]
           /\ os' \in [Pids -> Status] /\ os'[NewPid] = "run" /\ \A p \in Pids \ {NewPid} : os'[p] = os[p]
           /\ Forked' = Forked \cup {NewPid}
           /\ Forked' = 1..Cardinality(Forked') /\ Cardinality(Forked') \in Nat
  <1> DEFINE m == Cardinality(Forked)
  <1>1. m \in Nat /\ Forked = 1..m /\ NewPid = m + 1
    BY DEF JobsInv, PidsInv, NewPid
  <1>2. NewPid \notin Forked
    BY <1>1
  <1>3. os[NewPid] = "none" /\ ~report[NewPid]
    BY <1>2 DEF Forked, JobsInv, PidsInv
  <1>4. /\ os' \in [Pids -> Status] /\ os'[NewPid] = "run"
        /\ \A p \in Pids \ {NewPid} : os'[p] = os[p]
    BY DEF JobsInv, JobsType, Status
  <1>5. Forked' = Forked \cup {NewPid}
    BY <1>4 DEF Forked
  <1>6. Forked' = 1..(m + 1)
    BY <1>1, <1>5
  <1>7. Cardinality(Forked') = m + 1
    BY <1>1, <1>6, FS_Interval
  <1> QED BY SMT, <1>1, <1>2, <1>3, <1>4, <1>5, <1>6, <1>7

LEMMA ForkKeeps ==
    ASSUME JobsInv, NewPid \in Pids, os' = [os EXCEPT ![NewPid] = "run"], pc = "fork",
           UNCHANGED <<report, job, state, exit>>
    PROVE  /\ PidsInv' /\ EntriesInv'
           /\ \A j \in 1..Len(job) : PidsOf(j)' = PidsOf(j) /\ NewPid \notin PidsOf(j)
           /\ NewPid \notin CmdPids
  <1>1. \A j \in 1..Len(job) : PidsOf(j)' = PidsOf(j) /\ NewPid \notin PidsOf(j) /\ PidsOf(j) \subseteq Pids
    <2>1. \A j \in 1..Len(job) : PidsOf(j)' = PidsOf(j)
      BY DEF PidsOf
    <2>2. \A j \in 1..Len(job) : NewPid \notin PidsOf(j) /\ PidsOf(j) \subseteq Pids
      BY ForkPid, PidsAre DEF JobsInv, PidsInv
    <2> QED BY <2>1, <2>2
  <1>2. PidsInv'
    <2>1. \A p \in Pids : os'[p] = "none" => ~report'[p]
      BY ForkPid DEF JobsInv, PidsInv
    <2>2. \A j \in 1..Len(job') : PidsOf(j)' # {} /\ PidsOf(j)' \subseteq Forked'
      BY SMT, <1>1, ForkPid DEF JobsInv, PidsInv
    <2>3. \A j, k \in 1..Len(job') : j # k => PidsOf(j)' \cap PidsOf(k)' = {}
      BY <1>1 DEF JobsInv, PidsInv
    <2> QED BY <2>1, <2>2, <2>3, ForkPid DEF PidsInv
  <1>3. EntriesInv'
    <2>1. \A j \in 1..Len(job) : \A p \in PidsOf(j) : os'[p] = os[p]
      BY <1>1, ForkPid
    <2>2. \A j \in 1..Len(job) : \A p \in PidsOf(j) : \A st, ex : Tells(p, st, ex) => Tells(p, st, ex)'
      BY <2>1 DEF Tells, Dead
    <2>3. \A j \in 1..Len(job) : \A p \in PidsOf(j) : Dead(p) => Dead(p)'
      BY <2>1 DEF Dead
    <2> QED BY SMT, <1>1, <2>1, <2>2, <2>3 DEF JobsInv, EntriesInv
  <1>4. NewPid \notin CmdPids
    BY ForkPid DEF JobsInv, CmdInv
  <1> QED BY <1>1, <1>2, <1>3, <1>4

LEMMA ForkStageInv ==
    ASSUME JobsInv, ForkStage
    PROVE  JobsInv'
  <1>1. /\ pc = "fork" /\ pc' = "fork" /\ Len(cmd.pids) < cmd.n /\ NewPid \in Pids
        /\ os' = [os EXCEPT ![NewPid] = "run"] /\ UNCHANGED <<report, job, state, exit, hup>>
        /\ gate' = (IF cmd.bg THEN gate \cup {NewPid} ELSE gate)
        /\ cmd' = [cmd EXCEPT !.pids = Append(@, NewPid)]
    BY DEF ForkStage, Fork, tablevars
  <1>2. cmd \in Locals /\ cmd.pids \in Seq(Pids) /\ cmd.n \in Nat
    BY DEF JobsInv, JobsType, Locals
  <1>3. /\ cmd' \in Locals /\ cmd'.pids = Append(cmd.pids, NewPid) /\ cmd'.n = cmd.n /\ cmd'.bg = cmd.bg
    <2>1. Append(cmd.pids, NewPid) \in Seq(Pids)
      BY <1>1, <1>2
    <2> QED BY <1>1, <1>2, <2>1 DEF Locals
  <1>4. Len(cmd'.pids) = Len(cmd.pids) + 1 /\ Len(cmd.pids) \in Nat
    BY <1>1, <1>2, <1>3
  <1>5. CmdPids' = CmdPids \cup {NewPid}
    BY SMT, <1>1, <1>2, <1>3, <1>4 DEF CmdPids
  <1>6. gate' = IF pc' = "fork" /\ cmd'.bg THEN CmdPids' ELSE {}
    BY <1>1, <1>3, <1>5 DEF JobsInv, CmdInv
  <1>7. \A p \in gate' : os'[p] = "run" /\ ~report'[p]
    <2>1. \A p \in gate : p \in Pids /\ os[p] = "run" /\ ~report[p]
      BY DEF JobsInv, CmdInv, JobsType
    <2> QED BY <1>1, <2>1, ForkPid
  <1>8. CmdInv'
    <2>1. cmd'.n # 0 /\ Len(cmd'.pids) <= cmd'.n
      BY <1>1, <1>2, <1>3, <1>4
    <2>2. CmdPids' \subseteq Forked'
      BY <1>1, <1>5, ForkPid DEF JobsInv, CmdInv
    <2>3. \A j \in 1..Len(job') : CmdPids' \cap PidsOf(j)' = {}
      BY SMT, <1>1, <1>5, ForkKeeps DEF JobsInv, CmdInv
    <2> QED BY <1>1, <1>6, <1>7, <2>1, <2>2, <2>3 DEF CmdInv
  <1>9. HangupReachesAll'
    BY <1>1 DEF HangupReachesAll
  <1>10. gate' \subseteq Pids
    BY <1>1 DEF JobsInv, JobsType
  <1>11. JobsType'
    BY <1>1, <1>3, <1>10, ForkPid DEF JobsInv, JobsType
  <1> QED BY <1>1, <1>8, <1>9, <1>11, ForkKeeps DEF JobsInv

LEMMA ForkHelperInv ==
    ASSUME JobsInv, ForkHelper
    PROVE  JobsInv'
  <1>1. /\ pc = "fork" /\ pc' = "fork" /\ NewPid + cmd.n - Len(cmd.pids) \in Pids /\ Len(cmd.pids) < cmd.n
        /\ os' = [os EXCEPT ![NewPid] = "run"] /\ UNCHANGED <<report, job, state, exit, hup, gate>>
        /\ cmd' = [cmd EXCEPT !.helpers = {<<NewPid, Len(cmd.pids) + 1>>}]
    BY DEF ForkHelper, tablevars
  <1>2. cmd \in Locals /\ cmd.pids \in Seq(Pids) /\ cmd.n \in Nat /\ Len(cmd.pids) \in Nat
    BY SMT DEF JobsInv, JobsType, Locals
  <1>3. NewPid \in Pids
    <2>1. NewPid \in Nat \ {0}
      BY SMT DEF NewPid, JobsInv, PidsInv
    <2> QED BY <1>1, <1>2, <2>1, JobsAssumption DEF Pids
  <1>4. {<<NewPid, Len(cmd.pids) + 1>>} \in SUBSET (Pids \X Nat)
    BY SMT, <1>2, <1>3
  <1>5. /\ cmd' \in Locals /\ cmd'.pids = cmd.pids /\ cmd'.n = cmd.n /\ cmd'.bg = cmd.bg
    BY <1>1, <1>2, <1>4 DEF Locals
  <1>6. CmdPids' = CmdPids
    BY <1>5 DEF CmdPids
  <1>7. CmdInv'
    <2>1. \A p \in gate' : os'[p] = "run" /\ ~report'[p]
      <3>1. \A p \in gate : p \in Pids /\ os[p] = "run" /\ ~report[p]
        BY DEF JobsInv, CmdInv, JobsType
      <3> QED BY <1>1, <1>3, <3>1, ForkPid
    <2>2. \A j \in 1..Len(job') : CmdPids' \cap PidsOf(j)' = {}
      BY <1>1, <1>3, <1>6, ForkKeeps DEF JobsInv, CmdInv
    <2>3. gate' = IF pc' = "fork" /\ cmd'.bg THEN CmdPids' ELSE {}
      BY <1>1, <1>5, <1>6 DEF JobsInv, CmdInv
    <2>4. cmd'.n # 0 /\ Len(cmd'.pids) <= cmd'.n /\ CmdPids' \subseteq Forked'
      BY <1>1, <1>3, <1>5, <1>6, ForkPid DEF JobsInv, CmdInv
    <2> QED BY <1>1, <2>1, <2>2, <2>3, <2>4 DEF CmdInv
  <1>8. HangupReachesAll'
    BY <1>1 DEF HangupReachesAll
  <1>9. JobsType'
    BY <1>1, <1>3, <1>5, ForkPid DEF JobsInv, JobsType
  <1> QED BY <1>1, <1>3, <1>7, <1>8, <1>9, ForkKeeps DEF JobsInv

\* add_job(): the processes of a background pipeline have waited for it.
LEMMA AddJobInv ==
    ASSUME JobsInv, add_job
    PROVE  JobsInv'
  <1> DEFINE new == [pids |-> cmd.pids, bg |-> cmd.bg, active |-> TRUE,
                     started |-> IF cmd.bg THEN "bg" ELSE "fg"]
  <1>0. PICK m : m = Len(job) + 1
    OBVIOUS
  <1>1. /\ pc = "fork" /\ Len(cmd.pids) = cmd.n /\ job' = Append(job, new) /\ UNCHANGED <<os, report, hup>>
        /\ pc' = (IF cmd.bg THEN "line" ELSE "wait")
        /\ cmd' = (IF cmd.bg THEN NoCmd ELSE [cmd EXCEPT !.k = 1, !.j = m])
    BY <1>0 DEF add_job
  <1>2. /\ state' = [p \in Pids |-> IF p \in CmdPids THEN 0 ELSE state[p]]
        /\ exit' = [p \in Pids |-> IF p \in CmdPids THEN TRUE ELSE exit[p]]
        /\ gate' = {p \in gate : p \notin CmdPids}
    <2>1. \A p : (\E i \in 1..Len(cmd.pids) : cmd.pids[i] = p) <=> p \in CmdPids
      BY DEF CmdPids
    <2> QED BY <2>1 DEF add_job
  <1>3. /\ cmd \in Locals /\ cmd.pids \in Seq(Pids) /\ cmd.n \in Nat /\ cmd.bg \in BOOLEAN /\ new \in Entries
        /\ Len(job) \in Nat /\ job \in Seq(Entries) /\ Len(cmd.pids) \in Nat
    BY SMT DEF JobsInv, JobsType, Locals, Entries
  <1> HIDE DEF new
  <1>4. /\ job' \in Seq(Entries) /\ Len(job') = m /\ job'[m] = new
        /\ \A j \in 1..Len(job) : job'[j] = job[j]
    BY <1>0, <1>1, <1>3
  <1>5. /\ \A j \in 1..Len(job) : PidsOf(j)' = PidsOf(j)
        /\ PidsOf(m)' = CmdPids
    <2>1. job'[m].pids = cmd.pids
      BY SMT, <1>4 DEF new
    <2> QED BY <1>4, <2>1 DEF PidsOf, CmdPids
  <1>6. /\ CmdPids # {} /\ CmdPids \subseteq Forked /\ CmdPids \subseteq Pids
        /\ \A j \in 1..Len(job) : CmdPids \cap PidsOf(j) = {}
    <2>1. cmd.pids[1] \in CmdPids
      BY SMT, <1>1, <1>3 DEF CmdPids, JobsInv, CmdInv
    <2> QED BY <1>1, <2>1, PidsAre DEF JobsInv, CmdInv
  <1>7. PidsInv'
    <2>1. Forked' = Forked
      BY <1>1 DEF Forked
    <2>2. \A j \in 1..Len(job') : j \in 1..Len(job) \/ j = m
      BY <1>0, <1>3, <1>4
    <2>3. \A j \in 1..Len(job') : PidsOf(j)' # {} /\ PidsOf(j)' \subseteq Forked'
      BY <1>5, <1>6, <2>1, <2>2 DEF JobsInv, PidsInv
    <2>4. \A j, k \in 1..Len(job') : j # k => PidsOf(j)' \cap PidsOf(k)' = {}
      BY SMT, <1>5, <1>6, <2>2 DEF JobsInv, PidsInv
    <2>5. \A p \in Pids : os'[p] = "none" => ~report'[p]
      BY <1>1 DEF JobsInv, PidsInv
    <2> QED BY <2>1, <2>3, <2>4, <2>5 DEF JobsInv, PidsInv
  <1>8. gate' = {}
    BY <1>1, <1>2 DEF JobsInv, CmdInv
  <1>9. CmdInv'
    <2>1. CASE cmd.bg
      BY <1>1, <1>8, <2>1, NoCmdInv
    <2>2. CASE ~cmd.bg
      <3>1. /\ cmd'.k = 1 /\ cmd'.j = m /\ cmd'.pids = cmd.pids /\ cmd'.n = cmd.n
        BY <1>1, <1>3, <2>2 DEF Locals
      <3>2. job'[m].pids = cmd.pids /\ job'[m].started = "fg" /\ m \in 1..Len(job')
        BY <1>0, <1>3, <1>4, <2>2 DEF new
      <3>3. \A i \in 1..Len(cmd'.pids) : ~(i < cmd'.k)
        BY <1>3, <3>1
      <3> QED BY <1>1, <1>8, <2>2, <3>1, <3>2, <3>3 DEF CmdInv
    <2> QED BY <2>1, <2>2
  <1>10. EntriesInv'
    <2> SUFFICES ASSUME NEW j \in 1..Len(job'), job'[j].started = "bg"
                 PROVE  /\ \A p \in PidsOf(j)' :
                            /\ ~report'[p] => Tells(p, state[p], exit[p])'
                            /\ state'[p] = 2 => Dead(p)' /\ exit'[p] = (os'[p] = "exit")
                        /\ job'[j].active <=> \E p \in PidsOf(j)' : state'[p] # 2
      BY DEF EntriesInv
    <2>1. CASE j = m
      <3>1. cmd.bg /\ job'[j].active
        BY <1>4, <2>1 DEF new
      <3>2. \A p \in CmdPids : os[p] = "run" /\ state'[p] = 0
        BY <1>1, <1>2, <1>6, <3>1 DEF JobsInv, CmdInv
      <3>3. \A p \in CmdPids : Tells(p, state[p], exit[p])'
        BY <1>1, <3>2 DEF Tells, Dead
      <3> QED BY SMT, <1>5, <1>6, <2>1, <3>1, <3>2, <3>3
    <2>2. CASE j \in 1..Len(job)
      <3>1. \A p \in PidsOf(j) : state'[p] = state[p] /\ exit'[p] = exit[p] /\ os'[p] = os[p] /\ report'[p] = report[p]
        BY <1>1, <1>2, <1>6, <2>2, PidsAre DEF JobsInv
      <3>2. /\ \A p \in PidsOf(j) :
                    /\ ~report[p] => Tells(p, state[p], exit[p])
                    /\ state[p] = 2 => Dead(p) /\ exit[p] = (os[p] = "exit")
            /\ job[j].active <=> \E p \in PidsOf(j) : state[p] # 2
        BY <1>4, <2>2 DEF JobsInv, EntriesInv
      <3>3. \A p \in PidsOf(j) : \A st, ex : Tells(p, st, ex) => Tells(p, st, ex)'
        BY <3>1 DEF Tells, Dead
      <3>4. \A p \in PidsOf(j) : Dead(p) => Dead(p)'
        BY <3>1 DEF Dead
      <3> QED BY SMT, <1>4, <1>5, <2>2, <3>1, <3>2, <3>3, <3>4
    <2> QED BY SMT, <1>0, <1>3, <1>4, <2>1, <2>2
  <1>11. HangupReachesAll'
    BY <1>1 DEF HangupReachesAll
  <1>12. JobsType'
    <2>1. cmd' \in Locals
      <3>1. m \in Nat /\ 1 \in Nat
        BY <1>0, <1>3
      <3>2. [cmd EXCEPT !.k = 1, !.j = m] \in Locals
        BY <1>3, <3>1 DEF Locals
      <3> QED BY <1>1, <3>2, NoCmdIs
    <2>2. state' \in [Pids -> 0..2] /\ exit' \in [Pids -> BOOLEAN]
      <3>1. \A p \in Pids : state[p] \in 0..2 /\ exit[p] \in BOOLEAN /\ 0 \in 0..2
        BY SMT DEF JobsInv, JobsType
      <3> QED BY <1>2, <3>1
    <2> QED BY <1>1, <1>4, <1>8, <2>1, <2>2 DEF JobsInv, JobsType
  <1> QED BY <1>7, <1>9, <1>10, <1>11, <1>12 DEF JobsInv
-----------------------------------------------------------------------------
\* The steps that poll.
TableKept ==
    /\ SameJobs /\ OnlyAlive /\ PidsInv' /\ EntriesInv'
    /\ os' \in [Pids -> Status] /\ report' \in [Pids -> BOOLEAN]
    /\ job' \in Seq(Entries) /\ state' \in [Pids -> 0..2] /\ exit' \in [Pids -> BOOLEAN]

LEMMA PollKeeps ==
    ASSUME JobsInv, NEW P, NEW s, Reportable \subseteq P, Poll(Entered(P, s)), UNCHANGED os,
           \A j \in 1..Len(job) : job[j].started = "bg" => \A p \in PidsOf(j) : s[p] = os[p]
    PROVE  TableKept /\ \A p \in Pids : ~report'[p]
  <1>1. OnlyAlive /\ os' \in [Pids -> Status]
    BY DEF OnlyAlive, JobsInv, JobsType
  <1>2. PidsInv'
    BY <1>1, PollEntries, CarryPids
  <1> QED BY <1>1, <1>2, PollEntries DEF TableKept

LEMMA PolledKeeps ==
    ASSUME JobsInv, Poll(Polled), UNCHANGED os
    PROVE  TableKept /\ \A p \in Pids : ~report'[p]
  <1>1. Poll(Entered(Reportable, os))
    BY DEF Polled
  <1> QED BY <1>1, PollKeeps

\* What is left to show of a step that keeps the table.
LEMMA KeptInv ==
    ASSUME JobsInv, TableKept, cmd' \in Locals, gate' \subseteq Pids, CmdInv', HangupReachesAll'
    PROVE  JobsInv'
  BY DEF TableKept, JobsInv, JobsType

LEMMA HandlerInv ==
    ASSUME JobsInv, SigchldHandler
    PROVE  JobsInv'
  <1>1. Poll(Polled) /\ UNCHANGED <<os, gate, cmd, pc, hup>> /\ pc # "exited"
    BY DEF SigchldHandler
  <1>2. TableKept /\ \A p \in Pids : ~report'[p]
    BY <1>1, PolledKeeps
  <1>3. gate \subseteq Pids /\ cmd \in Locals
    BY DEF JobsInv, JobsType
  <1>4. CmdInv'
    BY <1>1, <1>2, <1>3, CarryCmd DEF TableKept
  <1> QED BY <1>1, <1>2, <1>3, <1>4, KeptInv DEF HangupReachesAll

\* The wait for a foreground pipeline goes on with another cmd.
LEMMA WaitGoesOn ==
    ASSUME JobsInv, TableKept, UNCHANGED <<os, pc, gate, hup>>, pc = "wait", cmd' \in Locals,
           cmd'.pids = cmd.pids, cmd'.n = cmd.n, cmd'.j = cmd.j, cmd'.k # 0,
           ~cmd'.cut /\ ~cmd'.stopped => \A i \in 1..Len(cmd.pids) : i < cmd'.k => Dead(cmd.pids[i])
    PROVE  JobsInv'
  <1>1. /\ Len(cmd.pids) = cmd.n /\ gate = {}
        /\ cmd.j \in 1..Len(job) /\ job[cmd.j].pids = cmd.pids /\ job[cmd.j].started = "fg"
    BY DEF JobsInv, CmdInv
  <1>2. \A p : Dead(p)' = Dead(p)
    BY DEF Dead
  <1>3. CmdInv'
    <2>1. cmd'.j \in 1..Len(job') /\ job'[cmd'.j].pids = cmd'.pids /\ job'[cmd'.j].started = "fg"
      BY <1>1 DEF TableKept, SameJobs
    <2>2. ~cmd'.cut /\ ~cmd'.stopped => \A i \in 1..Len(cmd'.pids) : i < cmd'.k => Dead(cmd.pids[i])'
      BY <1>2 DEF Dead
    <2> QED BY <1>1, <2>1, <2>2 DEF CmdInv
  <1>4. HangupReachesAll'
    BY DEF HangupReachesAll
  <1> QED BY <1>1, <1>3, <1>4, KeptInv

LEMMA WaitNextIs ==
    ASSUME cmd \in Locals, NEW st, NEW ct \in BOOLEAN, WaitNext(st, ct)
    PROVE  /\ cmd' \in Locals /\ cmd'.pids = cmd.pids /\ cmd'.n = cmd.n /\ cmd'.j = cmd.j
           /\ cmd'.k = cmd.k + 1 /\ cmd'.stopped = (cmd.stopped \/ st = "stop") /\ cmd'.cut = (cmd.cut \/ ct)
  <1>1. /\ cmd.k + 1 \in Nat /\ (cmd.stopped \/ st = "stop") \in BOOLEAN /\ (cmd.cut \/ ct) \in BOOLEAN
    BY SMT DEF Locals
  <1>2. cmd' = [cmd EXCEPT !.k = cmd.k + 1, !.stopped = (cmd.stopped \/ st = "stop"), !.cut = (cmd.cut \/ ct)]
    BY DEF WaitNext
  <1> QED BY <1>1, <1>2 DEF Locals

LEMMA WaitInv ==
    ASSUME JobsInv, WaitStatus \/ WaitFails \/ WaitHelper
    PROVE  JobsInv'
  <1>0. /\ cmd \in Locals /\ cmd.pids \in Seq(Pids) /\ cmd.k \in Nat /\ cmd.n \in Nat
        /\ cmd.stopped \in BOOLEAN /\ cmd.cut \in BOOLEAN
    BY DEF JobsInv, JobsType, Locals
  <1>1. pc = "wait" /\ UNCHANGED <<os, pc, gate, hup>>
    BY DEF WaitStatus, WaitFails, WaitHelper
  <1>2. /\ cmd.k # 0 /\ Len(cmd.pids) = cmd.n /\ cmd.j \in 1..Len(job)
        /\ job[cmd.j].pids = cmd.pids /\ job[cmd.j].started = "fg"
        /\ ~cmd.cut /\ ~cmd.stopped => \A i \in 1..Len(cmd.pids) : i < cmd.k => Dead(cmd.pids[i])
    BY <1>1 DEF JobsInv, CmdInv
  <1>3. CASE WaitStatus
    <2>1. Poll(Polled) /\ Waitable(WaitFor)
      BY <1>3 DEF WaitStatus
    <2>2. /\ cmd' \in Locals /\ cmd'.pids = cmd.pids /\ cmd'.n = cmd.n /\ cmd'.j = cmd.j /\ cmd'.k = cmd.k + 1
          /\ cmd'.cut = cmd.cut /\ cmd'.stopped = (cmd.stopped \/ os[WaitFor] = "stop")
      BY <1>0, <1>3, WaitNextIs DEF WaitStatus
    <2>3. ~cmd'.cut /\ ~cmd'.stopped => \A i \in 1..Len(cmd.pids) : i < cmd'.k => Dead(cmd.pids[i])
      <3> SUFFICES ASSUME ~cmd'.cut, ~cmd'.stopped, NEW i \in 1..Len(cmd.pids), i < cmd'.k PROVE Dead(cmd.pids[i])
        OBVIOUS
      <3>1. CASE i < cmd.k
        BY <1>2, <2>2, <3>1
      <3>2. CASE i = cmd.k
        BY <2>1, <2>2, <3>2 DEF Waitable, WaitFor, Dead
      <3> QED BY <1>0, <2>2, <3>1, <3>2
    <2>4. TableKept
      BY <1>1, <2>1, PolledKeeps
    <2> QED BY <1>0, <1>1, <2>2, <2>3, <2>4, WaitGoesOn
  <1>4. CASE WaitFails
    <2>1. PICK garbage \in {"exit", "kill", "stop", "run", "other"} :
             /\ Poll(Entered(Reportable \cup {WaitFor}, [os EXCEPT ![WaitFor] = garbage]))
             /\ WaitNext(garbage, TRUE)
      BY <1>4 DEF WaitFails
    <2>2. WaitFor \in PidsOf(cmd.j)
      BY SMT, <1>0, <1>2, <1>4 DEF WaitFails, AtStage, WaitFor, PidsOf
    <2>3. ASSUME NEW j \in 1..Len(job), job[j].started = "bg", NEW p \in PidsOf(j)
          PROVE  [os EXCEPT ![WaitFor] = garbage][p] = os[p]
      <3>1. p # WaitFor /\ p \in Pids
        BY <1>2, <2>2, <2>3, PidsAre DEF JobsInv, PidsInv
      <3> QED BY <3>1 DEF JobsInv, JobsType
    <2>4. TableKept
      BY <1>1, <2>1, <2>3, PollKeeps
    <2>5. /\ cmd' \in Locals /\ cmd'.pids = cmd.pids /\ cmd'.n = cmd.n /\ cmd'.j = cmd.j /\ cmd'.k = cmd.k + 1
          /\ cmd'.cut
      BY <1>0, <2>1, WaitNextIs
    <2> QED BY <1>0, <1>1, <2>4, <2>5, WaitGoesOn
  <1>5. CASE WaitHelper
    <2>1. PICK h \in cmd.helpers : cmd' = [cmd EXCEPT !.helpers = @ \ {h}]
      BY <1>5 DEF WaitHelper
    <2>2. /\ cmd' \in Locals /\ cmd'.pids = cmd.pids /\ cmd'.n = cmd.n /\ cmd'.j = cmd.j /\ cmd'.k = cmd.k
          /\ cmd'.cut = cmd.cut /\ cmd'.stopped = cmd.stopped
      BY <1>0, <2>1 DEF Locals
    <2>3. TableKept
      BY <1>1, <1>5, PolledKeeps DEF WaitHelper
    <2> QED BY <1>1, <1>2, <2>2, <2>3, WaitGoesOn
  <1> QED BY <1>3, <1>4, <1>5

\* The steps that poll and go on outside execute().
LEMMA PollOnInv ==
    ASSUME JobsInv, WaitDone \/ RWaitStatus \/ RWaitInterrupted \/ ResumeEnd \/ print_activities \/ Prompt
    PROVE  JobsInv'
  <1>1. /\ Poll(Polled) /\ UNCHANGED <<os, gate, hup>> /\ pc # "fork" /\ pc' \notin {"fork", "wait", "exited"}
    BY DEF WaitDone, RWaitStatus, RNext, RWaitInterrupted, ResumeEnd, print_activities, Prompt, Idle
  <1>2. cmd' \in Locals
    <2>1. cmd' = cmd \/ cmd' = [cmd EXCEPT !.k = @ + 1] \/ cmd' = NoCmd
      BY DEF WaitDone, RWaitStatus, RNext, RWaitInterrupted, ResumeEnd, print_activities, Prompt
    <2>2. cmd \in Locals
      BY DEF JobsInv, JobsType
    <2>3. [cmd EXCEPT !.k = @ + 1] \in Locals
      BY SMT, <2>2 DEF Locals
    <2> QED BY <2>1, <2>2, <2>3, NoCmdIs
  <1>3. TableKept
    BY <1>1, PolledKeeps
  <1>4. gate' = {}
    BY <1>1, GateOpen
  <1> QED BY <1>1, <1>2, <1>3, <1>4, NoCmdInv, KeptInv DEF HangupReachesAll

\* exit and end of file: the poll before send_sighup() finds every background
\* job that has a process alive.
LEMMA HangupInv ==
    ASSUME JobsInv, exit_command \/ EndOfFile
    PROVE  JobsInv'
  <1>1. /\ Poll(Polled) /\ UNCHANGED <<os, gate, cmd>> /\ pc \in {"prompt", "line"}
        /\ \/ pc' = "exited" /\ hup' = {j \in 1..Len(job) : Polled.job[j].active}
           \/ pc' = pc /\ hup' = hup
    BY DEF exit_command, EndOfFile, send_sighup, Idle
  <1>2. TableKept
    BY <1>1, PolledKeeps
  <1>3. gate' = {} /\ cmd' \in Locals
    BY <1>1, GateOpen DEF JobsInv, JobsType
  <1>4. HangupReachesAll'
    <2> SUFFICES ASSUME pc' = "exited", NEW j \in 1..Len(job'), job'[j].started = "bg",
                        NEW p \in PidsOf(j)', Alive(p)'
                 PROVE  j \in hup'
      BY DEF HangupReachesAll
    <2>1. hup' = {k \in 1..Len(job) : job'[k].active}
      BY <1>1 DEF Poll
    <2>2. state'[p] # 2
      BY <1>2 DEF TableKept, EntriesInv, Alive, Dead
    <2>3. job'[j].active /\ j \in 1..Len(job)
      BY <1>2, <2>2 DEF TableKept, EntriesInv, SameJobs
    <2> QED BY <2>1, <2>3
  <1> QED BY <1>1, <1>2, <1>3, <1>4, NoCmdInv, KeptInv
-----------------------------------------------------------------------------
\* resume and ping: the signalled processes have something to report again.
LEMMA SignalIs ==
    ASSUME JobsType, NEW P, NEW sig \in {"CONT", "STOP", "KILL"}, Signal(P, sig)
    PROVE  /\ os' \in [Pids -> Status] /\ OnlyAlive
           /\ sig = "CONT" => \A p \in P \cap Pids : os'[p] = IF os[p] = "stop" THEN "run" ELSE os[p]
  <1>1. os \in [Pids -> Status]
    BY DEF JobsType
  <1>2. CASE sig = "CONT"
    <2>1. os' = [p \in Pids |-> IF p \in P THEN IF os[p] = "stop" THEN "run" ELSE os[p] ELSE os[p]]
      BY <1>2 DEF Signal
    <2> QED BY <1>1, <2>1 DEF Status, OnlyAlive, Dead
  <1>3. CASE sig = "STOP"
    <2>1. os' = [p \in Pids |-> IF p \in P THEN IF os[p] = "run" THEN "stop" ELSE os[p] ELSE os[p]]
      BY <1>3 DEF Signal
    <2> QED BY <1>1, <1>3, <2>1 DEF Status, OnlyAlive, Dead
  <1>4. CASE sig = "KILL"
    <2>1. os' = [p \in Pids |-> IF p \in P THEN IF Alive(p) THEN "kill" ELSE os[p] ELSE os[p]]
      BY <1>4 DEF Signal
    <2> QED BY <1>1, <1>4, <2>1 DEF Status, OnlyAlive, Dead, Alive
  <1> QED BY <1>2, <1>3, <1>4

LEMMA SignalledKeeps ==
    ASSUME JobsInv, SameJobs, OnlyAlive, os' \in [Pids -> Status],
           report' = [p \in Pids |-> os'[p] # os[p]], exit' = Polled.exit,
           state' \in [Pids -> 0..2], \A p \in Pids : state'[p] = 2 <=> Polled.state[p] = 2,
           job' \in Seq(Entries), \A k \in 1..Len(job) : job'[k].active = Polled.job[k].active,
           \A j \in 1..Len(job) : job[j].started = "bg" =>
               \A p \in PidsOf(j) : os'[p] = os[p] => Tells(p, state'[p], Polled.exit[p])
    PROVE  TableKept
  <1>1. JobsType /\ PidsInv /\ EntriesInv
    BY DEF JobsInv
  <1>2. exit' \in [Pids -> BOOLEAN]
    BY <1>1, EnteredTable DEF Polled
  <1>3. report' \in [Pids -> BOOLEAN] /\ \A p \in Pids : os[p] = "none" => ~report'[p]
    BY DEF OnlyAlive
  <1>4. PidsInv'
    BY <1>3, CarryPids
  <1>5. ASSUME NEW j \in 1..Len(job), job[j].started = "bg"
        PROVE  /\ \A p \in PidsOf(j) : Tells(p, Polled.state[p], Polled.exit[p])
               /\ Polled.job[j].active <=> \E p \in PidsOf(j) : Polled.state[p] # 2
    BY <1>1, <1>5, EnteredTells DEF Polled
  <1>6. EntriesInv'
    <2> SUFFICES ASSUME NEW j \in 1..Len(job'), job'[j].started = "bg"
                 PROVE  /\ \A p \in PidsOf(j)' : /\ ~report'[p] => Tells(p, state[p], exit[p])'
                                                 /\ state'[p] = 2 => Dead(p)' /\ exit'[p] = (os'[p] = "exit")
                        /\ job'[j].active <=> \E p \in PidsOf(j)' : state'[p] # 2
      BY DEF EntriesInv
    <2>1. j \in 1..Len(job) /\ job[j].started = "bg" /\ PidsOf(j)' = PidsOf(j)
      BY SamePids DEF SameJobs
    <2>2. \A p \in PidsOf(j) : p \in Pids /\ os[p] \in Status \ {"none"}
      BY <1>1, <2>1, PidsAre DEF PidsInv, Forked, JobsType
    <2>3. ASSUME NEW p \in PidsOf(j), ~report'[p] PROVE Tells(p, state[p], exit[p])'
      <3>1. os'[p] = os[p]
        BY <2>2, <2>3
      <3>2. Tells(p, state'[p], exit'[p])
        BY <2>1, <3>1
      <3> QED BY <3>1, <3>2 DEF Tells, Dead
    <2>4. ASSUME NEW p \in PidsOf(j), state'[p] = 2 PROVE Dead(p)' /\ exit'[p] = (os'[p] = "exit")
      <3>1. Polled.state[p] = 2 /\ Tells(p, Polled.state[p], Polled.exit[p])
        BY <1>5, <2>1, <2>2, <2>4
      <3>2. Dead(p) /\ Polled.exit[p] = (os[p] = "exit")
        BY SMT, <2>2, <3>1 DEF Tells, Dead, Status
      <3> QED BY <2>2, <3>2 DEF OnlyAlive, Dead
    <2>5. job'[j].active <=> \E p \in PidsOf(j) : state'[p] # 2
      BY <1>5, <2>1, <2>2
    <2> QED BY <2>1, <2>3, <2>4, <2>5
  <1> QED BY <1>2, <1>3, <1>4, <1>6 DEF TableKept

LEMMA ResumeKeeps ==
    ASSUME JobsInv, NEW j \in 1..Len(job), NEW fg \in BOOLEAN, Resume(j, fg)
    PROVE  TableKept
  <1>1. CASE ~Polled.job[j].active
    BY <1>1, PolledKeeps DEF Resume
  <1>2. CASE Polled.job[j].active
    <2>1. JobsType /\ PidsInv /\ EntriesInv
      BY DEF JobsInv
    <2>2. /\ Signal(PidsOf(j), "CONT") /\ exit' = Polled.exit
          /\ state' = [p \in Pids |-> IF p \in PidsOf(j) /\ Polled.state[p] # 2 THEN 0 ELSE Polled.state[p]]
          /\ job' = [Polled.job EXCEPT ![j].bg = @ \/ ~fg] /\ report' = [p \in Pids |-> os'[p] # os[p]]
      BY <1>2 DEF Resume
    <2>3. /\ Polled.state \in [Pids -> 0..2] /\ Polled.job \in Seq(Entries) /\ Len(Polled.job) = Len(job)
          /\ \A k \in 1..Len(job) : /\ Polled.job[k].pids = job[k].pids
                                    /\ Polled.job[k].started = job[k].started
      BY SMT, <2>1, EnteredTable DEF Polled
    <2>4. os' \in [Pids -> Status] /\ OnlyAlive
          /\ \A p \in PidsOf(j) \cap Pids : os'[p] = IF os[p] = "stop" THEN "run" ELSE os[p]
      BY <2>1, <2>2, SignalIs
    <2>5. state' \in [Pids -> 0..2] /\ \A p \in Pids : state'[p] = 2 <=> Polled.state[p] = 2
      BY SMT, <2>2, <2>3
    <2>6. /\ job' \in Seq(Entries) /\ SameJobs
          /\ \A k \in 1..Len(job) : job'[k].active = Polled.job[k].active
      <3>1. PICK e : e = [Polled.job[j] EXCEPT !.bg = @ \/ ~fg]
        OBVIOUS
      <3>2. Polled.job[j] \in Entries
        BY SMT, <2>3
      <3>3. e \in Entries /\ e.pids = Polled.job[j].pids /\ e.started = Polled.job[j].started /\ e.active = Polled.job[j].active
        BY <3>1, <3>2 DEF Entries
      <3>4. job' = [Polled.job EXCEPT ![j] = e]
        BY <2>2, <3>1
      <3>5. job' \in Seq(Entries) /\ Len(job') = Len(Polled.job)
        BY SMT, <2>3, <3>3, <3>4
      <3>6. \A k \in 1..Len(job) : job'[k] = IF k = j THEN e ELSE Polled.job[k]
        BY SMT, <2>3, <3>4
      <3> QED BY <2>3, <3>3, <3>5, <3>6 DEF SameJobs
    <2>7. ASSUME NEW k \in 1..Len(job), job[k].started = "bg", NEW p \in PidsOf(k), os'[p] = os[p]
          PROVE  Tells(p, state'[p], Polled.exit[p])
      <3>1. Tells(p, Polled.state[p], Polled.exit[p])
        BY <2>1, <2>7, EnteredTells DEF Polled
      <3>2. p \in Pids /\ os[p] \in Status \ {"none"}
        BY <2>1, <2>7, PidsAre DEF PidsInv, Forked, JobsType
      <3>3. CASE p \in PidsOf(j) /\ Polled.state[p] # 2
        <4>1. os[p] = "run"
          BY <2>4, <2>7, <3>1, <3>2, <3>3 DEF Tells, Dead, Status
        <4> QED BY <2>2, <3>2, <3>3, <4>1 DEF Tells, Dead
      <3>4. CASE ~(p \in PidsOf(j) /\ Polled.state[p] # 2)
        BY <2>2, <3>1, <3>2, <3>4
      <3> QED BY <3>3, <3>4
    <2> QED BY <2>2, <2>4, <2>5, <2>6, <2>7, SignalledKeeps
  <1> QED BY <1>1, <1>2

\* The shell goes on outside execute().
LEMMA KeptOutside ==
    ASSUME JobsInv, TableKept, UNCHANGED <<gate, hup>>, pc # "fork",
           pc' \notin {"fork", "wait", "exited"}, cmd' \in Locals
    PROVE  JobsInv'
  <1>1. gate' = {}
    BY GateOpen
  <1> QED BY <1>1, NoCmdInv, KeptInv DEF HangupReachesAll

LEMMA ResumeInv ==
    ASSUME JobsInv, ResumeBg \/ ResumeFg
    PROVE  JobsInv'
  <1>1. CASE ResumeBg
    <2>1. PICK j \in 1..Len(job) : Resume(j, FALSE)
      BY <1>1 DEF ResumeBg
    <2>2. UNCHANGED <<gate, hup, cmd>> /\ pc # "fork" /\ pc' = "line"
      BY <1>1 DEF ResumeBg, Idle
    <2>3. cmd' \in Locals
      BY <2>2 DEF JobsInv, JobsType
    <2> QED BY <2>1, <2>2, <2>3, ResumeKeeps, KeptOutside
  <1>2. CASE ResumeFg
    <2>1. PICK j \in 1..Len(job), timeout \in BOOLEAN :
             /\ Resume(j, TRUE) /\ pc' \in {"rloop", "line"}
             /\ \/ cmd' = cmd
                \/ cmd' = [NoCmd EXCEPT !.j = j, !.k = 1, !.n = Len(job[j].pids),
                                        !.pids = job[j].pids, !.timeout = timeout]
      BY <1>2 DEF ResumeFg
    <2>2. UNCHANGED <<gate, hup>> /\ pc # "fork"
      BY <1>2 DEF ResumeFg, Idle
    <2>3. cmd' \in Locals
      <3>1. cmd \in Locals
        BY DEF JobsInv, JobsType
      <3>2. job[j].pids \in Seq(Pids)
        BY PidsAre DEF JobsInv, Entries
      <3>3. /\ j \in Nat /\ Len(job[j].pids) \in Nat /\ 1 \in Nat /\ NoCmd \in Locals
        BY <3>2, NoCmdIs DEF JobsInv, JobsType
      <3>4. [NoCmd EXCEPT !.j = j, !.k = 1, !.n = Len(job[j].pids), !.pids = job[j].pids, !.timeout = timeout] \in Locals
        BY <3>2, <3>3 DEF Locals
      <3> QED BY <2>1, <3>1, <3>4
    <2> QED BY <2>1, <2>2, <2>3, ResumeKeeps, KeptOutside
  <1> QED BY <1>1, <1>2

LEMMA PingInv ==
    ASSUME JobsInv, ping
    PROVE  JobsInv'
  <1>1. PICK sig \in {"CONT", "STOP", "KILL"} :
           /\ state' = Polled.state /\ exit' = Polled.exit /\ job' = Polled.job
           /\ (\E P : Signal(P, sig)) \/ UNCHANGED os
           /\ report' = [p \in Pids |-> os'[p] # os[p]]
    BY DEF ping
  <1>2. UNCHANGED <<gate, hup, cmd>> /\ pc # "fork" /\ pc' = "line"
    BY DEF ping, Idle
  <1>3. JobsType /\ PidsInv /\ EntriesInv
    BY DEF JobsInv
  <1>4. os' \in [Pids -> Status] /\ OnlyAlive
    <2>1. CASE UNCHANGED os
      BY <1>3, <2>1 DEF JobsType, OnlyAlive
    <2>2. CASE \E P : Signal(P, sig)
      BY <1>3, <2>2, SignalIs
    <2> QED BY <1>1, <2>1, <2>2
  <1>5. state' \in [Pids -> 0..2] /\ job' \in Seq(Entries) /\ SameJobs
    BY <1>1, <1>3, EnteredTable DEF Polled, SameJobs
  <1>6. ASSUME NEW k \in 1..Len(job), job[k].started = "bg", NEW p \in PidsOf(k)
        PROVE  Tells(p, state'[p], Polled.exit[p])
    BY <1>1, <1>3, <1>6, EnteredTells DEF Polled
  <1>7. TableKept
    BY <1>1, <1>4, <1>5, <1>6, SignalledKeeps
  <1>8. cmd' \in Locals
    BY <1>2, <1>3 DEF JobsType
  <1> QED BY <1>2, <1>7, <1>8, KeptOutside
-----------------------------------------------------------------------------
LEMMA JobsInit == Init => JobsInv
  <1> SUFFICES ASSUME Init PROVE JobsInv
    OBVIOUS
  <1>1. JobsType
    BY NoCmdIs DEF Init, JobsType, Status
  <1>2. Forked = {} /\ Len(job) = 0
    BY DEF Init, Forked
  <1>3. PidsInv
    <2>1. Cardinality(Forked) = 0
      BY <1>2, FS_EmptySet
    <2> QED BY SMT, <1>2, <2>1 DEF Init, PidsInv
  <1>4. CmdInv /\ EntriesInv /\ HangupReachesAll
    BY <1>2 DEF Init, CmdInv, EntriesInv, HangupReachesAll
  <1> QED BY <1>1, <1>3, <1>4 DEF JobsInv

LEMMA JobsStutter ==
    ASSUME JobsInv, UNCHANGED vars
    PROVE  JobsInv'
  <1>1. UNCHANGED <<os, report, job, state, exit, gate, cmd, pc, hup>>
    BY DEF vars, kernelvars, tablevars
  <1>2. SameJobs /\ OnlyAlive /\ PidsInv' /\ EntriesInv'
    BY <1>1, QuietStep
  <1>3. CmdInv'
    <2>1. \A p \in gate : os'[p] = os[p] /\ ~report'[p]
      BY <1>1 DEF JobsInv, CmdInv
    <2> QED BY <1>1, <1>2, <2>1, CarryCmd
  <1>4. HangupReachesAll'
    BY <1>1, <1>2, CarryHangup
  <1>5. JobsType'
    BY <1>1 DEF JobsInv, JobsType
  <1> QED BY <1>2, <1>3, <1>4, <1>5 DEF JobsInv

LEMMA JobsNext == JobsInv /\ [Next]_vars => JobsInv'
  <1> SUFFICES ASSUME JobsInv, [Next]_vars PROVE JobsInv'
    OBVIOUS
  <1>1. CASE UNCHANGED vars
    BY <1>1, JobsStutter
  <1>2. CASE SigchldHandler
    BY <1>2, HandlerInv
  <1>3. CASE Alarm
    BY <1>3, ResumeLoopInv
  <1>4. CASE \E p \in Pids : ChildChanges(p)
    BY <1>4, ChildInv
  <1>5. CASE Shell
    BY <1>5, CommandInv, ExecuteFailsInv, ForkStageInv, ForkHelperInv, AddJobInv, WaitInv, PollOnInv,
       HangupInv, ResumeInv, ResumeLoopInv, PingInv DEF Shell
  <1> QED BY <1>1, <1>2, <1>3, <1>4, <1>5 DEF Next

\* The inductive invariant of the job table, for every number of processes
\* and of stages, with and without helper processes.
THEOREM JobsInvariance == Spec => []JobsInv
  BY JobsInit, JobsNext, PTL DEF Spec

\* The entries of a background job tell what its processes are whenever no
\* status is outstanding: the sync pipe of execute(), update_state(), resume()
\* and ping() together see to it.
THEOREM BackgroundJobsAccurate == Spec => []BackgroundEntriesAccurate
  <1>1. JobsInv => BackgroundEntriesAccurate
    BY DEF JobsInv, EntriesInv, Tells, BackgroundEntriesAccurate
  <1> QED BY <1>1, JobsInvariance, PTL

\* send_sighup(), called by exit and at end of file, leaves out no background
\* job that has a process alive.
THEOREM HangupComplete == Spec => []HangupReachesAll
  <1>1. JobsInv => HangupReachesAll
    BY DEF JobsInv
  <1> QED BY <1>1, JobsInvariance, PTL

\* wait_for_foreground() gives the prompt back after the whole pipeline has
\* ended, unless it says that it was stopped or a waitpid() failed.
THEOREM ForegroundIsWaitedFor == Spec => ForegroundWaited
  <1>1. ASSUME JobsInv, [Next]_vars, pc = "wait", pc' = "line", ~cmd.cut, ~cmd.stopped
        PROVE  \A p \in PidsOf(cmd.j) : Dead(p)
    <2>1. pc' # pc
      BY <1>1
    <2>2. WaitDone
      BY <1>1, <2>1 DEF Next, Shell, vars, SigchldHandler, Alarm, ChildChanges, Command, ExecuteFails, ForkStage,
         ForkHelper, add_job, WaitStatus, WaitFails, WaitHelper, ResumeBg, ResumeFg, RLoop, RWaitStatus, RWaitGone,
         RWaitInterrupted, ResumeEnd, ping, print_activities, exit_command, EndOfFile, Prompt, Idle
    <2>3. cmd.k > cmd.n
      BY <2>2 DEF WaitDone
    <2>4. /\ Len(cmd.pids) = cmd.n /\ job[cmd.j].pids = cmd.pids
          /\ \A i \in 1..Len(cmd.pids) : i < cmd.k => Dead(cmd.pids[i])
      BY <1>1 DEF JobsInv, CmdInv
    <2>5. cmd.k \in Nat /\ cmd.n \in Nat
      BY <1>1 DEF JobsInv, JobsType, Locals
    <2>6. \A i \in 1..Len(cmd.pids) : i < cmd.k
      BY <2>3, <2>4, <2>5
    <2> QED BY <2>4, <2>6 DEF PidsOf
  <1>2. JobsInv /\ [Next]_vars => [pc = "wait" /\ pc' = "line" /\ ~cmd.cut /\ ~cmd.stopped =>
                                      \A p \in PidsOf(cmd.j) : Dead(p)]_vars
    BY <1>1
  <1> QED BY <1>2, JobsInvariance, PTL DEF Spec, ForegroundWaited
=============================================================================
