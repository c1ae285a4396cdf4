SPECIFICATION Spec
CONSTANTS
  XRES = 3
  YRES = 3
  CHARS = 4
  ICONS = 1
  Fixed <- MCFixed
  DROWS = 2
  DCOLS = 4
  CHAR0 = 0
  GOTO_COST = 1
  Drivers = {"HD44780", "keeping"}
  Controllers <- TwoControllers
  WIDE = 4
  HD66712 = FALSE
  Single_Segments = FALSE
  Texts <- TextsOf
  Letters <- LettersOf
  Icons <- IconsOf
  MAXMAP = 2
  Frames <- NoFrame
  Bars <- BarsOf
  Lengths <- FewLengths
INVARIANTS TypeOK ScreenShowsLayout CellsShowPictures SoundEndsAreKept
PROPERTIES RoomIsUsed
