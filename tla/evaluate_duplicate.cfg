\* A client that stops waiting and posts again.
SPECIFICATION Spec
CONSTANTS
    a1 = a1
    a2 = a2
    Actions <- OneAction
    FailOpenActions = {}
    MaxPosts = 2
    Effects = {"allow"}
    Faults = {"client_timeout"}
INVARIANTS
    OneRecordPerAction
