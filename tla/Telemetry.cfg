SPECIFICATION FairSpec
CONSTANTS
    Recorders = {r1, r2}
    RingSize = 2
    MaxSamples = 3
    Vectors <- SomeVectors
INVARIANTS
    Accounting
    CompleteSnapshot
    NearestRank
PROPERTIES
    StopReturns
    SamplesFlushed
