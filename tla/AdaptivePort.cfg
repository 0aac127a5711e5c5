SPECIFICATION Spec
CONSTANTS
    Kind = {"priority", "known", "unknown", "appro"}
    Flow = {f1}
    Message = {m1, m2}
    NoMessage = NoMessage
    NumQueues = 3
    Header = 1
    Full = 2
    Payloads = {0, 1, 2}
    Prios = {0, 1, 4, 9}
    Estimates = {2, 5, 9}
    Limit = 5
    MarkAbove = 2
    Jump = 8
    Step = 1
    Aging = 2
    Second = 1
    Unit = 2
    MaxArrivals = 6
INVARIANTS
    ClassesReachable
    NeverOverestimates
PROPERTIES
    UsedStaysUsed
    ImplementsPriority
CHECK_DEADLOCK FALSE
