SPECIFICATION FairSpec
CONSTANTS
    s1 = s1
    s2 = s2
    s3 = s3
    Samples <- MCSamples
    Canary <- MCCanary
    RetryLimit = 1
    MaxFeedback = 6
    Concurrency = 2
    ParsePercent = 2
    ServicePercent = 0
    MaxCrashes = 2
INVARIANTS
    TypeOK
    CanaryBeforeRest
    BundleIsJournal
PROPERTIES
    PhaseEnds
