SPECIFICATION MCSpec
CONSTANTS
    Kind = {"qc", "afq", "ideal"}
    Flow = {f1, f2}
    Message = {m1, m2}
    NoMessage = NoMessage
    NumQueues = 3
    Sizes = {1, 2}
    Limit = 3
    MarkAbove = 1
    MaxCount = 5
    BpR = 2
    LastRound = 5
    MaxAFQCount = 12
    Node = {n1, n2, n3, n4}
    ListHead = ListHead
INVARIANTS
    QCServes
    AFQRounds
    IdealTurns
PROPERTIES
    QCNoStarvation
