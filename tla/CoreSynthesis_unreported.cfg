SPECIFICATION FairSpec
CONSTANTS
    Size = 2
    Texts = {"x", "y", "z"}
    SampleIds = {"s1", "s2"}
    NoFile = NoFile
    MaxStops = 1
    MaxRejects = 1
PROPERTIES
    PublishedIsReported
