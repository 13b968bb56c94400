CONSTANTS
    NoNode = NoNode
    N = 2
    StartRound = 0
    MaxRound = 6
    MaxProposals = 1
    MaxRestarts = 0
    TimerRounds = {1, 2, 3}
    Running <- EveryReplica
SPECIFICATION Spec
INVARIANT Agreement
CHECK_DEADLOCK FALSE
