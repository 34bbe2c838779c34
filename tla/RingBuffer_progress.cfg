SPECIFICATION FairSpec
CONSTANTS
    Producers = {p1, p2}
    Consumers = {c1, c2}
    Capacity = 2
    Values = {v1}
    MovedFrom = MovedFrom
    MaxPushes = 3
    RelaxedLoads = FALSE
PROPERTIES
    EveryItemPopped
    CallsReturn
