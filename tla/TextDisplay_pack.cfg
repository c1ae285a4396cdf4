SPECIFICATION Spec
CONSTANTS
  XRES = 3
  YRES = 2
  CHARS = 3
  ICONS = 1
  Fixed <- MCFixed
  DROWS = 2
  DCOLS = 4
  CHAR0 = 0
  GOTO_COST = 1
  Drivers = {"keeping"}
  Controllers <- TwoControllers
  WIDE = 4
  HD66712 = FALSE
  Single_Segments = FALSE
  Texts <- None
  Letters <- LettersOf
  Icons <- None
  MAXMAP = 2
  Frames <- NoFrame
  Bars <- EastBarsOf
  Lengths <- AllLengths
INVARIANTS EndsAreKept
