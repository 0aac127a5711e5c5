SPECIFICATION Spec
CONSTANTS
    CPU = {c1, c2}
    f1 = f1
    f2 = f2
    f3 = f3
    Flow = {f1, f2, f3}
    Cell = {e1, e2}
    Hash <- TwoBuckets
    Ops = {"syn", "end", "data"}
    MaxSize = 3
    None = None
INVARIANTS
    WalkOnLiveEntries
CHECK_DEADLOCK FALSE
