SPECIFICATION LiveSpec
CONSTANTS
    CPU = {c1, c2}
    NoCpu = NoCpu
    NumQueues = 2
    MaxAging = 1
    Weights = {1, 2}
    ByteSpace = 4
    ProductSpace = 16
    Payloads = {1, 4}
    SmallPacket = 2
    Mtu = 2
INVARIANTS
    NoZeroDivision
    AverageBounded
    UndisturbedIsExact
PROPERTIES
    ImplementsStats
    HandlerEnds
