SPECIFICATION Spec
CONSTANTS
  Widgets = {w1, w2}
  Intervals = {1, 2}
  MaxGroups = 2
  MaxGWidgets = 3
  MaxSlots = 3
  MaxNow = 1
  MaxCalls = 2
  CLOCK_SKEW = 1
INVARIANTS TypeOK GroupsServeWidgets
PROPERTIES RemovesOneWidget
CHECK_DEADLOCK FALSE
