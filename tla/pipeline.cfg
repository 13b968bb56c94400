SPECIFICATION FairSpec
CONSTANTS
    p1 = p1
    p2 = p2
    p3 = p3
    Process <- MCProcess
    Unread <- MCUnread
    Fragile <- MCFragile
    Message <- MCMessage
    MsgQueueSize = 1
    SendQueueSize = 1
    StreamSize = 1
CHECK_DEADLOCK FALSE
INVARIANT TypeOK
INVARIANT OnePlaceEach
INVARIANT OwnInOrder
PROPERTY NetworkSpec
PROPERTY EveryMessageHandled
PROPERTY BroadcastReturns
