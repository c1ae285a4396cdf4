SPECIFICATION Spec
CONSTANTS
  Widgets = {w1, w2}
  Intervals = {1, 2}
  MaxGroups = 2
  MaxGWidgets = 2
  MaxSlots = 3
  MaxNow = 1
  MaxCalls = 2
  CLOCK_SKEW = 1
CHECK_DEADLOCK FALSE
INVARIANTS NoLeakedTimer
