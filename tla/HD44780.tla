------------------------------ MODULE HD44780 ------------------------------
(***************************************************************************)
(* drv_HD44780.c: a text display with one to four controllers, each with   *)
(* a memory of its own for some rows of the display.  A write sets the     *)
(* address of one controller and then sends characters, for which the      *)
(* controller counts the address up; user-defined characters go to all.    *)
(*                                                                         *)
(* Places are <<controller, address>>, controllers are numbered from 1.    *)
(* Bits, nibbles, the bus and waiting for a busy controller are left out:  *)
(* a byte that is sent arrives.                                            *)
(***************************************************************************)
EXTENDS Integers, SequencesExt

CONSTANTS
  Controllers,   \* their sizes, [rows, cols], from Size1, Size2, ... or Size
  WIDE,          \* columns of displays of one row that are organized in halves: 16
  HD66712        \* the model is a HD66712

\* Address of the second line.
LINE == 64

numControllers == Len(Controllers)

allControllers == DOMAIN Controllers

\* The rows of controllers 1 to n.
Rows(n) ==
  LET sum[c \in 0 .. n] == IF c = 0 THEN 0 ELSE sum[c - 1] + Controllers[c].rows
  IN sum[n]

\* drv_HD_start: DROWS and DCOLS.
Size == <<Rows(numControllers), Max({Controllers[c].cols : c \in allControllers})>>

ASSUME HD44780Assumption ==
  /\ Controllers \in Seq([rows : Nat \ {0}, cols : Nat \ {0}]) /\ numControllers \in 1 .. 4
  /\ HD66712 \in BOOLEAN /\ WIDE \in Nat

\* Organized as two lines of half the width.
Folded(c) == Controllers[c].cols = WIDE /\ Controllers[c].rows = 1

HALF == WIDE \div 2

-----------------------------------------------------------------------------
(* drv_HD_goto *)

\* The loop compares what is left of the row with the rows of all controllers up to
\* the one it is at, so that a row of the third is taken for one of the second.
Left(row, c) == row - Rows(c - 1)

currController(row) ==
  CHOOSE c \in allControllers :
    Left(row, c) < Rows(c) /\ \A d \in 1 .. c - 1 : Left(row, d) >= Rows(d)

Address(c, line, col) ==
  IF HD66712 THEN line * 32 + col
  ELSE (line % 2) * LINE + col
       + (line \div 2) * (IF Controllers[c].cols = WIDE /\ Controllers[c].rows = 4 THEN WIDE ELSE 20)

\* The address that is set, and the columns left; no address is set for a column that
\* the controller does not have.
goto(row, col) ==
  LET c == currController(row)
      second == Folded(c) /\ col >= HALF
      line == IF second THEN Left(row, c) + 1 ELSE Left(row, c)
      start == IF second THEN col - HALF ELSE col
  IN [controller |-> c, pos |-> Address(c, line, start),
      space |-> IF col >= Controllers[c].cols THEN -1 ELSE Controllers[c].cols - start]

-----------------------------------------------------------------------------
(* The glass, and what is sent to it *)

\* Where a cell of the glass lies in memory, as the data sheets of displays have it.
\* A controller of fewer columns leaves cells of its rows without any.
OnGlass(row, col) ==
  \E c \in allControllers : row \in Rows(c - 1) .. Rows(c) - 1 /\ col < Controllers[c].cols

Place(row, col) ==
  LET c == CHOOSE d \in allControllers : row \in Rows(d - 1) .. Rows(d) - 1
      line == row - Rows(c - 1)
  IN <<c, IF HD66712 THEN line * 32 + col
          ELSE IF Folded(c) THEN (col \div HALF) * LINE + (col % HALF)
          ELSE (line % 2) * LINE + (line \div 2) * Controllers[c].cols + col>>

\* drv_HD_write: the places that are written, with what they get; what is sent to a
\* place that is not on the glass is not seen.
drv_HD_write(row, col, data) ==
  LET at == goto(row, col)
      len == IF Len(data) > at.space THEN at.space ELSE Len(data)
  IN [p \in {at.controller} \X (at.pos .. at.pos + len - 1) |-> data[p[2] - at.pos + 1]]

\* A font with new bitmaps for some of its characters.
Redefined(font, bitmaps) ==
  [c \in DOMAIN font |-> IF c \in DOMAIN bitmaps THEN bitmaps[c] ELSE font[c]]

\* Mutant of drv_HD_defchar: the character goes to the current controller only.
Bug_OneController(fonts, bitmaps) == [fonts EXCEPT ![1] = Redefined(@, bitmaps)]

\* drv_HD_defchar, for each of the characters in bitmaps
drv_HD_defchar(fonts, bitmaps) == [k \in DOMAIN fonts |-> Redefined(fonts[k], bitmaps)]

=============================================================================
