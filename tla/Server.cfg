\* Three connections at a limit of two and three requests, with and without an
\* ACL and a key.
SPECIFICATION Spec
CONSTANTS
    Conns = {c1, c2, c3}
    MaxConnections = 2
    MaxRequests = 3
SYMMETRY Symmetry
INVARIANTS
    TypeOK
    CountExact
    OneReplyEach
    StatsExact
CHECK_DEADLOCK FALSE
