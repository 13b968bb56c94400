CONSTANTS
    Peer = {p1, p2}
    MaxConns <- OnePeerTwice
    MaxCalls = 2
CHECK_DEADLOCK FALSE
SPECIFICATION Spec
INVARIANT GroupNotNegative
