\* Four connections at a limit of two.
SPECIFICATION Spec
CONSTANTS
    Conns = {c1, c2, c3, c4}
    MaxConnections = 2
    MaxRequests = 0
SYMMETRY Symmetry
INVARIANT LimitKept
CHECK_DEADLOCK FALSE
