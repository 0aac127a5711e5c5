SPECIFICATION LiveSpec
CONSTANTS
    CPU = {c1, c2}
    f1 = f1
    f2 = f2
    f3 = f3
    Flow = {f1, f2, f3}
    Cell = {e1, e2, e3}
    Hash <- TwoBuckets
    Ops = {"syn", "end", "data", "send"}
    MaxSize = 2
    None = None
INVARIANTS
    NoDuplicateFlow
    NothingOverlooked
    NoLeak
    UsesOwnEntry
PROPERTIES
    HandlerEnds
CHECK_DEADLOCK FALSE
