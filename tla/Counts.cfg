SPECIFICATION MCSpec
CONSTANTS
    Part = {"bytes", "sketch", "counters", "ingress", "egress", "rules"}
    SeqSpace = 16
    WrapGap = 11
    InitialSeqs = {2, 8, 10, 13, 15}
    Window = 4
    MaxSegment = 3
    MaxStream = 9
    NoInfo = NoInfo
    f1 = f1
    f2 = f2
    f3 = f3
    f4 = f4
    p1 = p1
    p2 = p2
    p3 = p3
    p4 = p4
    Flow = {f1, f2, f3, f4}
    Position = {p1, p2, p3, p4}
    HashNum = 2
    Hash <- Hashes
    Interval = 1
    Mss = 2
    CounterSpace = 32
    QueryMax = 30
    MaxTime = 5
    MaxPackets = 6
    Half = 4
    Weights = {1, 3}
    MaxWeight = 3
    Aging = 4
    InitPkt = 1
    InitWeight = 3
    MaxHi = 4
    s1 = s1
    s2 = s2
    s3 = s3
    c1 = c1
    c2 = c2
    Stream = {s1, s2, s3}
    Cell = {c1, c2}
    cm_hash <- Cells
    INTERVAL = 1
    TstampSpace = 4
    WeightSpace = 6
    totalLen = {1, 3}
    MaxClock = 7
    MaxPassed = 5
    queue_id = {0, 1, 7}
    Depths = {0, 1, 3}
    WordSpace = 16
    SumSpace = 8
    EcnStart = 2
    EcnEnd = 3
    Stages = 2
    MaxLost = 6
    Ports = 2
    Queues = 3
    Top = 6
    MaxCount = 9
    Unit = 2
    Averages = {0, 3, 18}
INVARIANTS
    MessageBytes
    LastSeqIsLargest
    NeverUnderestimates
    ExactWhenAlone
    PacketsExact
    WeightClose
    AverageBounded
    WeightIsBurst
    SumIsDepths
    Covered
    EveryClassHasWeights
    HandlesCurrent
CHECK_DEADLOCK FALSE
