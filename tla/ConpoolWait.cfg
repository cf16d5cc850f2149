SPECIFICATION FairSpec
CONSTANTS
    f1 = f1
    f2 = f2
    f3 = f3
    Fibers <- TwoFibers
    MaxConns = 1
    Capacity = 1
    MaxUses = NoLimit
    NoLimit = NoLimit
    NoFiber = NoFiber
    Faults <- NoFaults
    MaxOps = 1
    MaxCreated = 1
    MaxPools = 1
CHECK_DEADLOCK FALSE
PROPERTIES
    BlocksUntilAvailable
