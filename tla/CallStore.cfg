SPECIFICATION FairSpec
CONSTANTS
    w1 = w1
    w2 = w2
    f1 = f1
    f2 = f2
    a1 = a1
    r1 = r1
    NoCall = NoCall
    NoResult = NoResult
    NoCache = NoCache
    Workers = {w1, w2}
    Calls <- MCCalls
    Roles <- MCRoles
    RoleOf <- MCRoleOf
    Estimate <- MCEstimate
    RoleLimit <- MCRoleLimit
    Batches <- MCBatches
    Preflight = {2, 3}
    StrictRoles = {"route_only"}
    Costs = {0, 3}
    Cap = 5
    MaxCrashes = 1
    MaxRuns = 2
INVARIANTS
    TypeOK
    AttemptedAtMostOnce
    NoSelfInterrupt
    SpendWithinCap
    DoneMeansSettled
PROPERTIES
    ResultsImmutable
    RunEnds
