SPECIFICATION Spec
CONSTANTS
  DROWS = 10
  DCOLS = 8
  CELL = 2
  LINES = 5
  DualScan = TRUE
  GAP = 1
  GRAPHIC = 0
  LOWER = 60
  Junk <- MCJunk
  LAYERS = 2
  XRES = 3
  YRES = 3
  Extent <- MCExtent
  FG_COL <- MCFg
  BG_COL <- MCBg
  BL_COL <- MCBl
  INVERTED = FALSE
  Font <- MCFont
  BEL = BEL
  Bitmaps <- MCBitmaps
  None = None
  Goodbye <- MCGoodbye
  Layout <- MCLayout
  Hello <- MCHello
  Texts <- MCTexts
  Frames <- MCFrames
  Values <- MCValues
  Settings <- MCSettings
INVARIANTS TypeOK
PROPERTIES ImplementsCanvas 
CHECK_DEADLOCK FALSE
