SPECIFICATION GuardsSpec
CONSTANTS
    t1 = t1
    t2 = t2
    t3 = t3
    Threads <- MCThreads
    FailureThreshold = 2
    Cooldown = 2
    NumMessages = 1
    PipeSize = 1
INVARIANT
    RefusedStaysHere
\* A session ends.
CHECK_DEADLOCK FALSE
