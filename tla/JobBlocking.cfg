\* Two connections, two addresses, jobs without streaming.
SPECIFICATION FairSpec
CONSTANTS
    Conns = {c1, c2}
    Addrs = {a1, a2}
    NULL = NULL
    Streams = {FALSE}
    MaxRequests = 1
    MaxTokens = 0
    MaxLost = 1
INVARIANTS
    BlockingJobsSafe
PROPERTIES
    TakenIsAnswered
    ShutdownCompletes
