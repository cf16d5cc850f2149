SPECIFICATION Spec
CONSTANTS
    r1 = r1
    r2 = r2
    Requests <- TwoRequests
    Body <- BodyAndNone
    ReplyData = 2
    MaxFrame = 2
    InitWindow = 1
    ConnWindow = 1
    MaxWindow = 2
    Settings <- ShrinkGrow
    QueueCap = 1
    Faults <- Breakdown
    WireCap = 1
    MaxUnasked = 2
INVARIANTS TypeOK WindowMatchesPeer OkIsWholeResponse
CHECK_DEADLOCK FALSE
