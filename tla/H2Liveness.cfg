SPECIFICATION FairSpec
CONSTANTS
    r1 = r1
    r2 = r2
    Requests <- TwoRequests
    Body <- BothBodies
    ReplyData = 1
    MaxFrame = 2
    InitWindow = 1
    ConnWindow = 3
    MaxWindow = 3
    Settings <- NoSettings
    QueueCap = 1
    Faults <- BadAnswers
    WireCap = 1
    MaxUnasked = 0
INVARIANTS ConnCreditConserved OkMeansFinished
PROPERTIES EveryRequestEnds
CHECK_DEADLOCK FALSE
