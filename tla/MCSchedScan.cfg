\* Three processes, two CPUs, two levels, four enqueues beyond the first three.
CONSTANTS
    NPROC = 3
    NCPU = 2
    MLFQ_LEVELS = 2
    MaxNext = 7
SPECIFICATION ScanSpec
CONSTRAINT Bound
INVARIANTS OneCPUPerProcess PicksTheOldest
