CONSTANTS
    StartRound = 0
    MaxRound = 2
    BufferSize = 1
    MaxRelays = 2
SPECIFICATION FairSpec
INVARIANT TypeOK
INVARIANT TocksNeverEarlier
PROPERTY TimerSpec
PROPERTY TimerKeepsFiring
PROPERTY ScheduleReturns
CHECK_DEADLOCK FALSE
