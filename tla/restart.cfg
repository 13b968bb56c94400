CONSTANTS
    NoNode = NoNode
    N = 4
    StartRound = 0
    MaxRound = 3
    MaxProposals = 2
    MaxRestarts = 1
    TimerRounds = {1}
    Running <- AllButOne
SPECIFICATION Spec
INVARIANT TypeOK
INVARIANT IInv
INVARIANT CertifiedHigh
INVARIANT CertifiedParents
INVARIANT QuorumsActedOn
PROPERTY TreesKept
CHECK_DEADLOCK FALSE
