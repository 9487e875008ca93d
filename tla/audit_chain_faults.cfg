SPECIFICATION Spec
CONSTANTS
    c1 = c1
    c2 = c2
    c3 = c3
    Calls <- ThreeCalls
    MaxWriteAttempts = 2
    MaxSends = 2
    Faults = {"timeout", "denied", "killed"}
SYMMETRY CallSymmetry
INVARIANT TypeOK
INVARIANT NoFalseAlarm
INVARIANT AcknowledgedIsRecorded
PROPERTY ImplementsAuditLog
CHECK_DEADLOCK FALSE
