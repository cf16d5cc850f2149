SPECIFICATION Spec
CONSTANTS
    f1 = f1
    f2 = f2
    f3 = f3
    Fibers <- ThreeFibers
    MaxConns = 2
    Capacity = 1
    MaxUses = 1
    NoLimit = NoLimit
    NoFiber = NoFiber
    Faults <- AllButProtocol
    MaxOps = 2
    MaxCreated = 3
    MaxPools = 3
SYMMETRY FiberSymmetry
CHECK_DEADLOCK FALSE
INVARIANTS
    UsersMatchHolders
    ConnectionLimit
    UseCountLimit
    CriticalSectionOwned
    BroadcastReachesNobody
    StuckOnlyAtLimit
    ActiveBoundsInUse
PROPERTIES
    LeasesSpec
