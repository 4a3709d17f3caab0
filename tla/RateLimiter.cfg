SPECIFICATION LimiterFairSpec
CONSTANTS
  Processes = {p1, p2, p3}
  MaxCalls = 2
  Window = 3
  MaxLosses = 1
  Unlocked = nobody
INVARIANT LimiterOK
CHECK_DEADLOCK FALSE
PROPERTY Served
