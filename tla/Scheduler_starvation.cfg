SPECIFICATION FairSpec
CONSTANTS
    s1 = s1
    s2 = s2
    s3 = s3
    Seqs = {s1, s2, s3}
    Blocks = {b1, b2}
    BlockSize = 2
    MaxTokens = 8
    MaxBatchTokens = 4
    MaxPrefillChunk = 2
    Requests <- OneLongRequest
PROPERTIES
    InFlightNeverStarved
