CONSTANTS
    NoNode = NoNode
    N = 2
    StartRound = 0
    MaxRound = 4
    MaxProposals = 1
    MaxRestarts = 0
    TimerRounds = {1, 3}
    Running <- EveryReplica
SPECIFICATION FairSpec
PROPERTY RoundEnds
CHECK_DEADLOCK FALSE
