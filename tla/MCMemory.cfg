CONSTANTS
    Proc = {p1, p2}
    initproc = p1
    NPages = 14
    PGSIZE = 2
    Fan = 2
    Deltas <- MCDeltas
    Programs <- MCPrograms
    Args <- MCArgs
    MaxPipes = 1
SPECIFICATION Spec
INVARIANTS NoPanic PagesAccounted
PROPERTY FailureUndone
