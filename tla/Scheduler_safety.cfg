SPECIFICATION Spec
CONSTANTS
    s1 = s1
    s2 = s2
    s3 = s3
    Seqs = {s1, s2, s3}
    Blocks = {b1, b2, b3, b4}
    BlockSize = 2
    MaxTokens = 8
    MaxBatchTokens = 3
    MaxPrefillChunk = 2
    Requests <- MixedRequests
SYMMETRY Symmetry
INVARIANTS
    TypeOK
    QueueDiscipline
    BlocksMatchTokens
    GenerationBound
    Partition
    ResultsFaithful
PROPERTIES
    ServedInTurn
    NoSteal
