SPECIFICATION MCSpec
CONSTANTS
  Agents = {"min", "lldct", "dd", "reno", "tahoe", "newreno"}
  Unit = 2
  One = 3
  Gain = 2
  Wnd = 5
  MaxCwnd = 4
  InitWindow = 2
  RexmtThresh = 2
  Weights = {1, 2}
  MaxWeight = 2
  Messages = {1, 3}
  SlowStartRestart = TRUE
  PreciseReduce = TRUE
  BugFix = TRUE
  MaxSeq = 4
  MaxTotal = 3
  MaxConnections = 2
  Variants <- MCVariants
  Samples = {0, 2, 6}
  ShortHalf = 8
  MinRto = 2
  MaxRto = 100
  RttvarInit = 3
  RtxcurInit = 2
  MaxBackoff = 256
INVARIANT AlphaNeedsMarks
CHECK_DEADLOCK FALSE
