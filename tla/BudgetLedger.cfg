SPECIFICATION FairSpec
CONSTANTS
    a = a
    b = b
    NoEvent = NoEvent
    NoSession = NoSession
    Shards <- MCShards
    Queries = 1
    Phases <- MCPhases
    Reserve <- MCReserve
    VolatileStages = {"assistant_action"}
    Costs = {1, 3}
    Cap = 5
    Prior = 1
    MaxAttempts = 2
    AppendAttempts = 2
    MaxRuns <- MCMaxRuns
INVARIANTS
    TypeOK
    EventsFollow
    IdentitySentOnce
    SpendIsAccounted
    OpenMeansInProgress
PROPERTIES
    ImplementsAccount
    RunEnds
CHECK_DEADLOCK FALSE
