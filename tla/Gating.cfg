SPECIFICATION Spec
CONSTANTS
    Ids = {i1, i2}
    NoArray = NoArray
    NumExperts = 4
    SimdGroups = 2
    Weights <- WeakOrders
SYMMETRY Symmetry
INVARIANTS
    FusedMatchesReference
    CacheFresh
