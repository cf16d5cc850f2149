SPECIFICATION Spec
CONSTANTS
    r1 = r1
    r2 = r2
    Requests <- TwoRequests
    NoOne = NoOne
    InitLimit = 1
    Limits <- OneOrTwo
    Faults <- OnlyReset
    MaxFaults = 1
    MaxCreated = 4
    MaxPools = 4
CHECK_DEADLOCK FALSE
INVARIANTS
    BrokenIsRetried
