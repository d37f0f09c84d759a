\* Three slots, two CPUs, up to four pids: one slot is reused.
CONSTANTS
    init = init
    p1 = p1
    p2 = p2
    Proc = {init, p1, p2}
    InitProc = init
    c0 = c0
    c1 = c1
    CPU = {c0, c1}
    Null = Null
    KillPids = {0, 2, 3, 4}
    MaxPid = 4
SPECIFICATION Spec
SYMMETRY Symmetry
INVARIANTS OneCPUPerStack NoMissedExit
