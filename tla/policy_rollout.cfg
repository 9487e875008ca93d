\* Two operators and two containers, one of which has a probe beside its loop.
SPECIFICATION FairSpec
CONSTANTS
    A = A
    B = B
    loopA = loopA
    probeA = probeA
    loopB = loopB
    Containers = {A, B}
    Loops = {loopA, loopB}
    Probes = {probeA}
    Home <- HomeOf
    Deployments <- TwoLambdasOrServer
    NumRequests = 2
    Lagging = TRUE
    MaxPublishAttempts = 2
    MaxUnheard = 1
    Faults = {"lost_reply", "restart"}
INVARIANTS
    TypeOK
    ServesOnlyActivated
    ContentionNeedsRivals
PROPERTIES
    ImplementsRegister
    OutageKeepsPolicy
    ContainersConverge
