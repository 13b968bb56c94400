CONSTANTS
    first = first
    second = second
    Process = {first, second}
    NoProcess = nobody
    Bootstrap <- ThroughFirst
    MaxDials = 3
    MaxFaults = 2
SPECIFICATION FairSpec
INVARIANT TypeOK
INVARIANT OneDialEach
INVARIANT IgnoredOnlyIfCrossed
PROPERTY AllHear
CHECK_DEADLOCK FALSE
