\* Three slots, two queues with the code's first two slices, a boost every
\* four ticks: demotion from both, boost and slot reuse happen within
\* them, for each of the three schedulers.
CONSTANTS
    NPROC = 3
    Builds = {"RR", "FCFS", "MLFQ"}
    MLFQ_LEVELS = 2
    slices <- MCslices
    BoostPeriod = 4
    Killable = {2}
    MaxTicks = 4
    MaxNext = 6
    Slot = 1
SPECIFICATION StatsSpec
CONSTRAINT Bound
INVARIANT TicksAccounted
PROPERTIES BoundedBypass ImplementsRunQueues
