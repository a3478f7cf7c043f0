SPECIFICATION Spec
CONSTANTS
    Conns = {c1, c2}
    Addrs = {a1, a2}
    NULL = NULL
    Streams = {FALSE}
    MaxRequests = 1
    MaxTokens = 0
    MaxLost = 0
INVARIANT
    AcceptedIsRun
