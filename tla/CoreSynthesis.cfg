SPECIFICATION FairSpec
CONSTANTS
    Size = 3
    Texts = {"x", "y", "z"}
    SampleIds = {"s1", "s2"}
    NoFile = NoFile
    MaxStops = 2
    MaxRejects = 1
INVARIANTS
    TypeOK
    ReadyMeansComplete
    VerdictFollowsReview
    RevisionsDistinct
PROPERTIES
    ImplementsCorpus
    Completes
