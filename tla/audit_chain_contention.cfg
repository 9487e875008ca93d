SPECIFICATION FairSpec
CONSTANTS
    c1 = c1
    c2 = c2
    c3 = c3
    Calls <- ThreeCalls
    MaxWriteAttempts = 3
    MaxSends = 1
    Faults = {"killed", "throttled"}
INVARIANT ContentionAloneNeverRefuses
PROPERTY AppendReturns
CHECK_DEADLOCK FALSE
