SPECIFICATION EngineFairSpec
CONSTANTS
    Seqs = {1, 2}
    Blocks = {b1, b2}
    BlockSize = 4
    MaxTokens = 8
    MaxBatchTokens = 2
    MaxPrefillChunk = 2
    Requests <- OneRequest
    Handlers = {h1, h2}
    QueueCapacity = 2
    MaxDrain = 2
    MayShutdown = FALSE
PROPERTIES
    StatusNeverRegresses
