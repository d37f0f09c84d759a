\* Two writers and a reader on a ring of two bytes whose counters wrap; one
\* of the writers may be killed.
CONSTANTS
    Readers = {r}
    Writers = {v, w}
    Bytes = {0, 1}
    PIPESIZE = 2
    UintSize = 4
    MaxCount = 2
    Killable = {w}
    None = None
SPECIFICATION FairSpec
PROPERTIES ImplementsFifo SleepersAreWoken
CHECK_DEADLOCK FALSE
