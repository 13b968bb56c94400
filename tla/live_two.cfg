CONSTANTS
    NoNode = NoNode
    N = 2
    StartRound = 0
    MaxRound = 3
    MaxProposals = 1
    MaxRestarts = 0
    TimerRounds = {1, 2}
    Running <- EveryReplica
SPECIFICATION FairSpec
INVARIANT TreesAgreeOnBlocks
PROPERTY TimersKept
PROPERTY SynchronizedRoundEnds
CHECK_DEADLOCK FALSE
