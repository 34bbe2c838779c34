SPECIFICATION FairSpec
CONSTANTS
    NumShards = 3
    MaxGroups = 2
    Overlap = FALSE
INVARIANTS
    NoForeignDescriptor
PROPERTIES
    JoinReturns
    DeathSeen
CHECK_DEADLOCK FALSE
