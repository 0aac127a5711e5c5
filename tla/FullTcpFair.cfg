SPECIFICATION Spec
CONSTANTS
    MaxSeg = 11
    Wnd = 3
    MaxBurst = 6
    PrioScheme = 4
    EnableKnown = FALSE
    FairCopy = TRUE
    Windows = {1, 3}
    RexmtThresh = 1
    ProbCap = 1
    Scripts <- TwoMessages
    Closers = {"sender"}
    MaxFaults = 1
INVARIANT
    FlowRemaining
CHECK_DEADLOCK FALSE
