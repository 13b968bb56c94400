CONSTANTS
    Peer = {p1, p2}
    MaxConns <- OnePeerTwice
    MaxCalls = 2
SPECIFICATION FairSpec
INVARIANT TypeOK
INVARIANT ListMatchesTable
PROPERTY BroadcastReturns
PROPERTY EveryPeerTried
CHECK_DEADLOCK FALSE
