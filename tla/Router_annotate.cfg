SPECIFICATION Spec
CONSTANTS
    A = A
    B = B
    Shards = {A, B}
    expert_to_shard <- Mapping
    ExpertCapacity = 1
    Batches <- ShuffledBatches
    Methods = {"strict"}
    Victims = {}
    SocketBuffer <- Buffers
    ReuseAfterThrow = FALSE
    MaxCalls = 1
INVARIANTS
    ExpertAnnotated
CHECK_DEADLOCK FALSE
