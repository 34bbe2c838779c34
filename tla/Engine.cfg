SPECIFICATION HandlerFairSpec
CONSTANTS
    Seqs = {1, 2, 3}
    Blocks = {b1, b2}
    BlockSize = 4
    MaxTokens = 8
    MaxBatchTokens = 2
    MaxPrefillChunk = 2
    Requests <- VariedRequests
    Handlers = {h1, h2}
    QueueCapacity = 2
    MaxDrain = 2
    MayShutdown = TRUE
INVARIANTS
    OnePlace
    AnswersKept
    StatusNeverAhead
PROPERTIES
    ArrivalOrder
    AcceptedFinishes
    EveryRequestAnswered
CHECK_DEADLOCK FALSE
