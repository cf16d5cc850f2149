SPECIFICATION Spec
CONSTANTS
    f1 = f1
    f2 = f2
    f3 = f3
    Fibers <- OneFiber
    MaxConns = 1
    Capacity = 1
    MaxUses = 1
    NoLimit = NoLimit
    NoFiber = NoFiber
    Faults <- NoFaults
    MaxOps = 2
    MaxCreated = 2
    MaxPools = 1
SYMMETRY FiberSymmetry
CHECK_DEADLOCK FALSE
INVARIANTS
    RetiredIsClosed
