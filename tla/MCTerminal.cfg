\* Two readers, or a writer, on two CPUs; a ring of two characters whose indices
\* wrap around within the keys that are typed.
CONSTANTS
    Readers = {r1, r2}
    Writer = w
    CPU = {c1, c2}
    None = None
    Mixes <- MCMixes
    INPUT_BUF_SIZE = 2
    UintSize = 4
    Start = 2
    MaxCount = 2
    MaxDisturb = 1
SYMMETRY Symmetry
SPECIFICATION Spec
INVARIANTS SleepersHaveReason InterruptsMatchLocks
PROPERTY ImplementsLineEditor
CHECK_DEADLOCK FALSE
