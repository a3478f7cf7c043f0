\* A context of four tokens, the clock read every second token, a window of
\* three characters and a response buffer that grows from two bytes to seven.
SPECIFICATION FairSpec
CONSTANTS
    NCtx = 4
    Batches <- MCBatches
    CfgMaxTokens = 2
    ReqMaxTokens <- MCReqMaxTokens
    TimeoutEvery = 2
    Window = 3
    Pieces <- MCPieces
    StopSets <- MCStopSets
    TokenBytes = 1
    MinResponse = 2
    ContentMax = 7
    BackMax = 2
INVARIANTS
    TypeOK
    KvFits
    StopExact
    StopsInTime
    NothingLeaked
    ResponseSound
    ReasonSound
PROPERTY EventuallyAnswered
