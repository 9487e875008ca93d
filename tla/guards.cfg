SPECIFICATION GuardsSpec
CONSTANTS
    t1 = t1
    t2 = t2
    t3 = t3
    Threads <- MCThreads
    FailureThreshold = 2
    Cooldown = 2
    NumMessages = 3
    PipeSize = 1
INVARIANTS
    TypeOK
    RanOnlyIfPermitted
    SparesTheService
    AnsweredOnce
PROPERTIES
    BreakerRecovers
    EveryMessageAnswered
    SessionEnds
\* A session ends.
CHECK_DEADLOCK FALSE
