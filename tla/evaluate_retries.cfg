\* Two actions, one of a client that fails open; answers are refused but not lost.
SPECIFICATION FairSpec
CONSTANTS
    a1 = a1
    a2 = a2
    Actions <- TwoActions
    FailOpenActions <- OneAction
    MaxPosts = 2
    Effects = {"block", "require_hitl"}
    Faults = {"unauthenticated", "invalid", "busy", "throttled"}
INVARIANTS
    OneRecordPerAction
    FailsClosed
PROPERTIES
    ActionSettles
