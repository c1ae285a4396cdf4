SPECIFICATION FairSpec
CONSTANTS
  Keys = {k1}
  Intervals = {0, 2}
  MaxSlots = 2
  MaxNow = 3
  MaxSets = 1
  MaxCalls = 2
  CLOCK_SKEW = 0
  INT_MAX = 100
  FLOAT_EXACT = 2
  SelfRemove = FALSE
INVARIANTS TypeOK OneShotOnce NoStacking
PROPERTIES NoLostTimer NoOversleep DueIsServed
CHECK_DEADLOCK FALSE
