CONSTANTS
    NoNode = NoNode
    N = 2
    StartRound = 0
    MaxRound = 4
    MaxProposals = 1
    MaxRestarts = 0
    TimerRounds = {1, 2, 3}
    Running <- EveryReplica
SPECIFICATION Spec
INVARIANT HighFollowsRound
INVARIANT RoundBacked
PROPERTY NeverBack
CHECK_DEADLOCK FALSE
