SPECIFICATION FairSpec
CONSTANTS
    A = A
    B = B
    Shards = {A, B}
    expert_to_shard <- Mapping
    ExpertCapacity = 1
    Batches <- SafeBatches
    Methods = {"strict", "tolerant"}
    Victims = {A, B}
    SocketBuffer <- Buffers
    ReuseAfterThrow = FALSE
    MaxCalls = 3
INVARIANTS
    OwnAnswers
    ExpertAnnotated
    NoFalseFailure
    NothingLeftBehind
PROPERTIES
    CallsReturn
    WorkersExit
CHECK_DEADLOCK FALSE
