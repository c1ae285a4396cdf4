--------------------------- MODULE MCTextDisplay ---------------------------
(***************************************************************************)
(* Small displays for TextDisplay: two rows of four cells of 3 x 3 (where  *)
(* bars lie both ways) or 3 x 2 pixels, with the fixed segments that most  *)
(* drivers add, a blank and a full block.  The HD44780 has a controller    *)
(* for each row; that of the first has no fourth column, the second row    *)
(* is organized in halves.                                                 *)
(***************************************************************************)
EXTENDS TextDisplay

MCFixed ==
  <<[val1 |-> 0, val2 |-> 0, dirs |-> Directions, style |-> 0, used |-> FALSE, ascii |-> 32],
    [val1 |-> 255, val2 |-> 255, dirs |-> Directions, style |-> 255, used |-> FALSE, ascii |-> 255]>>

\* A hollow bar that grows to the east, and a vertical one.
TwoBars == {[row |-> 0, col |-> 0, len |-> 2, dir |-> EAST, style |-> STYLE_HOLLOW],
            [row |-> 1, col |-> 0, len |-> 1, dir |-> NORTH, style |-> 0]}

FewLengths(b) == IF b.len = 2 THEN {<<2, 1>>, <<3, 5>>, <<5, 4>>} ELSE {<<1, 1>>}

\* Two plain bars.
EastBars == {[row |-> 0, col |-> 0, len |-> 2, dir |-> EAST, style |-> 0],
             [row |-> 1, col |-> 0, len |-> 1, dir |-> EAST, style |-> 0]}

AllLengths(b) == LET max == b.len * Resolution({b.dir}) IN (1 .. max) \X (1 .. max)

\* Icon "i" is shown in two places; one of "i" and "j" finds no character.
TwoIcons == {[name |-> "i", row |-> 0, col |-> 2, child |-> FALSE],
             [name |-> "i", row |-> 1, col |-> 2, child |-> TRUE],
             [name |-> "j", row |-> 1, col |-> 1, child |-> FALSE]}

\* Frames are not evaluated: the bitmaps take turns.
NoFrame == {-1}

\* The widgets of each driver.
BarsOf(d) ==
  IF d = "keeping" THEN TwoBars
  ELSE {[row |-> 0, col |-> 1, len |-> 1, dir |-> NORTH, style |-> 0]}

EastBarsOf(d) == EastBars

IconsOf(d) ==
  IF d = "keeping" THEN TwoIcons
  ELSE {[name |-> "i", row |-> 0, col |-> 0, child |-> FALSE],
        [name |-> "i", row |-> 1, col |-> 3, child |-> TRUE]}

TextsOf(d) ==
  IF d = "keeping" THEN {[row |-> 0, col |-> 3, width |-> 2]}
  ELSE {[row |-> 0, col |-> 2, width |-> 2], [row |-> 1, col |-> 1, width |-> 2]}

LettersOf(d) == IF d = "keeping" THEN {97} ELSE {97, 98}

None(d) == {}

TwoControllers == <<[rows |-> 1, cols |-> 3], [rows |-> 1, cols |-> 4]>>

\* With the sizes that displays have, goto finds the place of each cell, and of the
\* second half of a row, from where it starts.
Real(sizes) == INSTANCE HD44780 WITH Controllers <- sizes, WIDE <- 16, HD66712 <- FALSE

RealSizes ==
  {<<[rows |-> r, cols |-> c]>> : r \in {1, 2}, c \in {8, 16, 20, 24, 40}}
  \union {<<[rows |-> 4, cols |-> c]>> : c \in {16, 20}}
  \union {<<[rows |-> 2, cols |-> c], [rows |-> r, cols |-> 27]>> : r \in {1, 2}, c \in {20, 27}}

ASSUME GotoFindsPlaces ==
  \A s \in RealSizes : \A row \in 0 .. Real(s)!Size[1] - 1, col \in 0 .. Real(s)!Size[2] - 1 :
    LET at == Real(s)!goto(row, col)
    IN IF Real(s)!OnGlass(row, col) THEN Real(s)!Place(row, col) = <<at.controller, at.pos>>
       ELSE at.space < 0

=============================================================================
