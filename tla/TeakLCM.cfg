SPECIFICATION FairSpec
CONSTANTS
  Blank = Blank
  Texts = {Blank, t1}
  MaxWrites = 2
  MaxStarts = 2
  MaxSurprises = 1
INVARIANTS TypeOK NeverAborts ShowsShadow QuitLeavesOff
PROPERTIES Reconnects
CHECK_DEADLOCK FALSE
