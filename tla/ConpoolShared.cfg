SPECIFICATION FairSpec
CONSTANTS
    f1 = f1
    f2 = f2
    f3 = f3
    Fibers <- TwoFibers
    MaxConns = 2
    Capacity = 2
    MaxUses = NoLimit
    NoLimit = NoLimit
    NoFiber = NoFiber
    Faults <- StaleAndCancel
    MaxOps = 2
    MaxCreated = 4
    MaxPools = 1
CHECK_DEADLOCK FALSE
INVARIANTS
    TypeOK
    IdleNeverUnderstated
    UserKeepsSocket
    NeverStuck
PROPERTIES
    HandOutsAreUsable
    EveryAcquireEnds
    EveryReleaseEnds
