SPECIFICATION Spec
CONSTANTS
    Conns = {c1, c2}
    Addrs = {a1, a2}
    NULL = NULL
    Streams = {TRUE}
    MaxRequests = 1
    MaxTokens = 1
    MaxLost = 0
INVARIANT
    NoUseAfterFree
