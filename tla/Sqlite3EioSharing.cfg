SPECIFICATION Spec
CONSTANTS
    f1 = f1
    f2 = f2
    Fibers <- TwoFibers
    Loop = Loop
    NoOne = NoOne
    MaxCalls = 2
    Careful = FALSE
CHECK_DEADLOCK FALSE
INVARIANTS
    SharingIsSafe
