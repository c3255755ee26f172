SPECIFICATION Spec
CONSTANTS
    a = a
    b = b
    NoEvent = NoEvent
    NoSession = NoSession
    Shards <- MCAlone
    Queries = 1
    Phases <- MCAlonePhases
    Reserve <- MCReserve
    VolatileStages = {"assistant_action"}
    Costs = {1}
    Cap = 6
    Prior = 1
    MaxAttempts = 2
    AppendAttempts = 2
    MaxRuns <- MCAloneRuns
INVARIANTS
    NoReplayAfterCrash
CHECK_DEADLOCK FALSE
