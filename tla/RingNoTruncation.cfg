SPECIFICATION Spec
CONSTANTS
    RingSize = 4
    WakeBatch = 2
    DrainBatch = 2
    TextMax = 2
    MaxTokens = 6
    PieceLen <- MCPieceLen
INVARIANT
    NoTruncation
