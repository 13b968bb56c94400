CONSTANTS
    NoNode = NoNode
    Start <- StartID
    Proposals <- SomeProposals
    Timeouts <- SomeTimeouts
SPECIFICATION Spec
INVARIANT CommitIsFourDeep
INVARIANT KeySetShape
INVARIANT CommitPointerNotAbove
PROPERTY RootMovesDown
CHECK_DEADLOCK FALSE
