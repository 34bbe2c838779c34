SPECIFICATION FairSpec
CONSTANTS
    Base = 4
    U32 = 1
    U64 = 2
    F32 = 1
    HeaderSize = 2
    Batches <- SmallBatches
    SocketBuffer = 3
    MaxMessages = 3
INVARIANTS
    BatchesIntact
PROPERTIES
    ImplementsChannel
    SentIsReceived
CHECK_DEADLOCK FALSE
