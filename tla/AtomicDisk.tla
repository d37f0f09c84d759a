----------------------------- MODULE AtomicDisk -----------------------------
(***************************************************************************)
(* What the log of xv6 promises: the file system's blocks as its system    *)
(* calls see them (now), and as a crash leaves them (safe).  All that the  *)
(* calls wrote becomes safe at once, and only while no call is active.     *)
(***************************************************************************)
CONSTANTS Blocks, Values, Procs

VARIABLES
    now, safe,
    active      \* the system calls between begin_op() and end_op()

vars == <<now, safe, active>>

Init ==
    /\ now \in [Blocks -> Values]
    /\ safe = now
    /\ active = {}

Begin(p) ==
    /\ p \notin active
    /\ active' = active \cup {p}
    /\ UNCHANGED <<now, safe>>

Write(p) ==
    /\ p \in active
    /\ \E b \in Blocks, v \in Values : now' = [now EXCEPT ![b] = v]
    /\ UNCHANGED <<safe, active>>

End(p) ==
    /\ p \in active
    /\ active' = active \ {p}
    /\ UNCHANGED <<now, safe>>

Commit ==
    /\ active = {}
    /\ safe' = now
    /\ UNCHANGED <<now, active>>

Crash ==
    /\ now' = safe
    /\ active' = {}
    /\ UNCHANGED safe

Next == (\E p \in Procs : Begin(p) \/ Write(p) \/ End(p)) \/ Commit \/ Crash

Spec == Init /\ [][Next]_vars
=============================================================================
