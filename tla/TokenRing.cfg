\* Four slots, so three tokens; wakeups and drains come in batches of two.
SPECIFICATION FairSpec
CONSTANTS
    RingSize = 4
    WakeBatch = 2
    DrainBatch = 2
    TextMax = 2
    MaxTokens = 6
    PieceLen <- MCPieceLen
INVARIANTS
    TypeOK
    InOrder
    NoStall
    BoundedLag
    FinalAfterGeneration
PROPERTIES
    EventuallyEnded
    CancelReleasesWorker
    ImplementsStream
