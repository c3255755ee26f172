SPECIFICATION FairSpec
CONSTANTS
    NoDecision = NoDecision
    NoReport = NoReport
    Commands = {"s1", "s2", "full", "test", "report"}
    MaxCrashes = 1
INVARIANTS
    TypeOK
    OneBankPerLabel
    AcceptedPassedGates
    Lineage
PROPERTIES
    ImplementsLadder
    Publishes
