\* One action, the client's real number of posts, every failure at once.
SPECIFICATION Spec
CONSTANTS
    a1 = a1
    a2 = a2
    Actions <- OneAction
    FailOpenActions = {}
    MaxPosts = 3
    Effects = {"require_hitl"}
    Faults = {"client_timeout", "killed", "error", "throttled", "store_timeout"}
INVARIANTS
    TypeOK
    ActedOnRecordedDecision
    HeldIsPollable
    ReplayStands
