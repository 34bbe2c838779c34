SPECIFICATION FairSpec
CONSTANTS
    s1 = s1
    s2 = s2
    s3 = s3
    Seqs = {s1, s2}
    Blocks = {b1, b2, b3, b4, b5, b6}
    BlockSize = 2
    MaxTokens = 8
    MaxBatchTokens = 2
    MaxPrefillChunk = 2
    Requests <- MixedRequests
PROPERTIES
    EveryRequestFinishes
