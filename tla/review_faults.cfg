\* Two reviewers and an agent; one window and one wait end within MaxTime, one
\* window does not, and every failure can happen.
SPECIFICATION FairSpec
CONSTANTS
    r1 = r1
    r2 = r2
    Clicks <- TwoClicks
    Windows = {1, 4}
    Waits = {0, 2}
    MaxTime = 2
    Faults = {"lost_reply", "error", "audit_refused", "killed"}
INVARIANTS
    TypeOK
    OneWinner
    ConflictIsReal
    SilenceIsNotConsent
    AuditTellsTheTruth
    JudgementStands
PROPERTIES
    ApprovalReachesAgent
    AgentReturns
CHECK_DEADLOCK FALSE
