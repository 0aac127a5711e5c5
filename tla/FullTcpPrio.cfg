SPECIFICATION Spec
CONSTANTS
    MaxSeg = 11
    Wnd = 3
    MaxBurst = 6
    PrioScheme = 2
    EnableKnown = FALSE
    FairCopy = FALSE
    Windows = {1, 3}
    RexmtThresh = 3
    ProbCap = 1
    Scripts <- LongMessage
    Closers = {"sender"}
    MaxFaults = 0
INVARIANT
    PrioCoversRemaining
CHECK_DEADLOCK FALSE
