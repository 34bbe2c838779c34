SPECIFICATION Spec
CONSTANTS
    A = A
    B = B
    Shards = {A, B}
    expert_to_shard <- Mapping
    ExpertCapacity = 1
    Batches <- OrderedBatches
    Methods = {"strict", "tolerant"}
    Victims = {A}
    SocketBuffer <- Buffers
    ReuseAfterThrow = TRUE
    MaxCalls = 2
INVARIANTS
    OwnAnswers
CHECK_DEADLOCK FALSE
