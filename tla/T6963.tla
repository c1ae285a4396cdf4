-------------------------------- MODULE T6963 --------------------------------
(***************************************************************************)
(* drv_T6963.c: a display with a T6963 controller.  Buffer1 holds the bits *)
(* of the picture, CELL in a byte; Buffer2 what was sent.  The blit sends  *)
(* the bytes of each row that differ, in runs that span up to GAP equal    *)
(* bytes.  With DualScan the lower half of the picture has memory of its   *)
(* own in the display.                                                     *)
(*                                                                         *)
(* A byte is the set of its bits.  Of each buffer SIZE bytes are           *)
(* allocated; the blit goes on behind them, in memory of others, so that   *)
(* the buffers are modelled up to the last byte it can reach.  The state   *)
(* of the driver and the display is [Buffer1, Buffer2, ram, strayed];      *)
(* strayed is history: the bytes behind the buffers that were touched.     *)
(***************************************************************************)
EXTENDS Integers, Sequences, FiniteSets, SequencesExt

CONSTANTS
  DROWS, DCOLS,  \* size of the picture
  CELL,          \* bits of a byte
  LINES,         \* 8: rows of pixels of a row of text
  DualScan,
  GAP,           \* 4
  GRAPHIC,       \* 0x0200: memory of the picture, and
  LOWER,         \*   0x8200: of its lower half
  Junk           \* pairs of bytes that may lie behind Buffer1 and behind Buffer2, throughout

TROWS == DROWS \div LINES
TCOLS == DCOLS \div CELL

ASSUME T6963Assumption ==
  /\ {DROWS, DCOLS, CELL, LINES} \subseteq Nat \ {0} /\ GAP \in Nat
  /\ DualScan \in BOOLEAN /\ {GRAPHIC, LOWER} \subseteq Nat

SIZE == TCOLS * DROWS

REACH == (DROWS * DCOLS + CELL - 1) \div CELL + 1

\* What the code takes for granted and does not check: a row is a number of bytes, each
\* half of the picture a number of rows of text, and the halves have room in the display.
Regular ==
  /\ DCOLS % CELL = 0 /\ DROWS % (2 * LINES) = 0
  /\ DualScan => LOWER > GRAPHIC + SIZE \div 2 + 1

\* The home of the lower half leaves out the bytes of the upper one.
Base(r) ==
  IF DualScan /\ r >= DROWS \div 2 THEN LOWER - ((DCOLS * DROWS) \div 2) \div CELL ELSE GRAPHIC

\* The addresses that are written to.
Addresses == UNION {home .. home + REACH : home \in {Base(r) : r \in 0 .. DROWS - 1}}

-----------------------------------------------------------------------------
drv_T6_clear(ram, addr, len) ==
  [x \in DOMAIN ram |-> IF x \in addr .. addr + len - 1 THEN {} ELSE ram[x]]

\* Some bytes of a buffer go to another or, from base on, to the display.
drv_T6_copy(to, base, buffer, bytes) ==
  [x \in DOMAIN to |-> IF x - base \in bytes THEN buffer[x - base] ELSE to[x]]

\* The memory of the display and both buffers, cleared, with junk behind what is allocated.
drv_T6_start(ram, junk) ==
  LET cleared(k) == [i \in 0 .. REACH |-> IF i < SIZE THEN {} ELSE junk[k]]
      half == drv_T6_clear(ram, GRAPHIC, (TCOLS * TROWS * LINES) \div 2)
  IN [Buffer1 |-> cleared(1), Buffer2 |-> cleared(2), strayed |-> {},
      ram |-> IF DualScan THEN drv_T6_clear(half, LOWER, (TCOLS * TROWS * LINES) \div 2)
              ELSE drv_T6_clear(ram, GRAPHIC, TCOLS * TROWS * LINES)]

\* The bytes from a to b that differ are sent in runs, which go on over up to GAP equal
\* bytes.  A run that meets the end is one byte too long.
SentBytes(hw, a, b) ==
  LET changed == {i \in a .. b : hw.Buffer1[i] # hw.Buffer2[i]}
  IN (UNION {p[1] .. p[2] : p \in {q \in changed \X changed : q[2] <= q[1] + GAP + 1}})
       \union {i + 1 : i \in {j \in changed : j + GAP >= b}}

SendRow(hw, r, a, b) ==
  LET bytes == SentBytes(hw, a, b)
  IN [hw EXCEPT !.Buffer2 = drv_T6_copy(@, 0, hw.Buffer1, bytes),
                !.ram = drv_T6_copy(@, Base(r), hw.Buffer1, bytes),
                !.strayed = @ \union {i \in (a .. b) \union bytes : i >= SIZE}]

Bit(c) == CELL - 1 - (c % CELL)

\* The columns that a byte holds of those that are drawn.
ColumnsOf(i, r, col, width) == {c \in col .. col + width - 1 : (r * DCOLS + c) \div CELL = i}

\* Mutant of DrawRow: the bit of a pixel is counted from the first column that is drawn.
Bug_DrawRow(hw, black, r, col, width) ==
  [hw EXCEPT !.Buffer1 = [i \in DOMAIN @ |->
     LET cs == ColumnsOf(i, r, col, width)
     IN (@[i] \ {Bit(c - col) : c \in cs}) \union {Bit(c - col) : c \in {d \in cs : <<r, d>> \in black}}]]

DrawRow(hw, black, r, col, width) ==
  [hw EXCEPT !.Buffer1 = [i \in DOMAIN @ |->
     LET cs == ColumnsOf(i, r, col, width)
     IN (@[i] \ {Bit(c) : c \in cs}) \union {Bit(c) : c \in {d \in cs : <<r, d>> \in black}}]]

\* Mutant of drv_T6_blit: the last byte of an area is rounded up one too far.
Bug_drv_T6_blit(hw, black, row, col, height, width) ==
  LET Row(h, r) == SendRow(DrawRow(h, black, r, col, width), r,
                     (r * DCOLS + col) \div CELL, (r * DCOLS + col + width + CELL) \div CELL)
      rows[k \in 0 .. height] == IF k = 0 THEN hw ELSE Row(rows[k - 1], row + k - 1)
  IN rows[height]

\* black is the set of places where drv_generic_graphic_black is 1.  Each row is sent before the next is drawn.
drv_T6_blit(hw, black, row, col, height, width) ==
  LET Row(h, r) == SendRow(DrawRow(h, black, r, col, width), r,
                     (r * DCOLS + col) \div CELL, (r * DCOLS + col + width + CELL - 1) \div CELL)
      rows[k \in 0 .. height] == IF k = 0 THEN hw ELSE Row(rows[k - 1], row + k - 1)
  IN rows[height]

-----------------------------------------------------------------------------
(* The display *)

\* Whether the pixel in row r and column c is set.
Lit(ram, r, c) ==
  LET lower == DualScan /\ r >= DROWS \div 2
      home == IF lower THEN LOWER ELSE GRAPHIC
      line == IF lower THEN r - DROWS \div 2 ELSE r
  IN Bit(c) \in ram[home + line * TCOLS + c \div CELL]
=============================================================================
