SPECIFICATION Spec
CONSTANTS
    Producers = {p1, p2}
    Consumers = {c1, c2}
    Capacity = 2
    Values = {v1, v2}
    MovedFrom = MovedFrom
    MaxPushes = 3
    RelaxedLoads = TRUE
SYMMETRY Symmetry
INVARIANTS
    NoDataRace
    FifoDelivery
    NoLostItem
    NoLeakedCell
PROPERTIES
    RefinesTicketQueue
