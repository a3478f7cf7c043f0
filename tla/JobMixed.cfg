SPECIFICATION Spec
CONSTANTS
    Conns = {c1, c2}
    Addrs = {a1, a2}
    NULL = NULL
    Streams = {TRUE, FALSE}
    MaxRequests = 1
    MaxTokens = 2
    MaxLost = 1
SYMMETRY Symmetry
INVARIANTS
    TypeOK
    OwnedByConn
    ServingIsSafe
PROPERTIES
    ImplementsService
