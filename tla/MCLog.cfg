\* Two processes and a log with room for two calls.  There are enough blocks to
\* fill the log; two of them have contents that matter.
CONSTANTS
    Procs = {p, q}
    Blocks = {a, b, c, d}
    Watched = {a, b}
    Values <- MCValues
    MAXOPBLOCKS = 2
    MaxWrites = 1
    LOGBLOCKS = 4
    None = None
SPECIFICATION FairSpec
INVARIANTS SyncIsDurable NoPanic
PROPERTIES ImplementsAtomicDisk 
