SPECIFICATION CasesSpec
CONSTANTS
    Tools <- MCTools
    Readings <- MCReadings
    DomainsIn <- MCDomainsIn
    QueuePageSize = 2
    MaxQueuePages = 2
    Keys <- MCKeys
    TenantOf <- MCTenantOf
    MaxTenants = 2
    Settings <- MCSettings
    MaxRequests = 5
    MaxTime = 4
    MaxTurns = 2
    MaxCalls = 2
    MaxInvocations = 2
INVARIANTS
    UnknownNeverPermits
    UnknownsSurface
    GreenMeansChecked
    QueueShowsOldest
    AdmissionBounded
    TranscriptIsOwn
\* A judged call takes no step, and the bounded components stop.
CHECK_DEADLOCK FALSE
