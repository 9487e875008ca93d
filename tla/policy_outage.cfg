\* One warm container and an operator who activates through it.
SPECIFICATION GoodSpec
CONSTANTS
    A = A
    B = B
    loopA = loopA
    probeA = probeA
    loopB = loopB
    Containers = {A}
    Loops = {loopA}
    Probes = {}
    Home <- HomeOf
    Deployments <- OneLambda
    NumRequests = 2
    Lagging = FALSE
    MaxPublishAttempts = 2
    MaxUnheard = 0
    Faults = {}
INVARIANTS
    LastKnownGoodSurvives
