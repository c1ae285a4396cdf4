-------------------------------- MODULE Canvas --------------------------------
(***************************************************************************)
(* What the graphic display promises: each widget has a place on a layer,  *)
(* where its picture is painted over whatever was there before, and the    *)
(* screen shows the layers, one put over the other, wherever something was *)
(* painted.                                                                *)
(*                                                                         *)
(* Colors are gray, a pixel is its lightness l and its opacity a, of 255.  *)
(* Layer 0 is in front.                                                    *)
(***************************************************************************)
EXTENDS Integers, Sequences, FiniteSets, Functions

CONSTANTS
  LAYERS,                  \* number of layers
  XRES, YRES,              \* size of a character
  DROWS, DCOLS,            \* size of the screen
  Extent,                  \* places <<row, column>> of pixels, of which the screen shows some
  FG_COL, BG_COL, BL_COL,  \* default colors; the color behind all layers
  INVERTED,
  Font,                    \* the pixels <<y, x>> of a character, bold or not
  BEL,                     \* the character that turns bold on and off
  Bitmaps,                 \* the bitmaps of each icon
  Widgets,
  None,                    \* a widget has not painted yet
  Goodbye                  \* a text the screen shows in the end

VARIABLES
  planes,  \* the layers
  screen,  \* where the screen is dark
  shown    \* the content each widget has painted

vars == <<planes, screen, shown>>

NO_COL == [l |-> 0, a |-> 0]

Default == [l |-> -1, a |-> 0]
Fg(w) == IF w.fg = Default THEN FG_COL ELSE w.fg
Bg(w) == IF w.bg = Default THEN BG_COL ELSE w.bg
BarColor(w, half) == IF w.color[half] = Default THEN Fg(w) ELSE w.color[half]

Screen == {p \in Extent : p[1] < DROWS /\ p[2] < DCOLS}

-----------------------------------------------------------------------------
(* Pictures: functions from places to pixels *)

\* The place of a widget that covers characters.
Top(w) == YRES * w.row
Left(w) == XRES * w.col

Area(top, left, height, width) == (top .. top + height - 1) \X (left .. left + width - 1)

TextPicture(w, x) ==
  LET Before(i) == Cardinality({k \in 1 .. i - 1 : x.txt[k] # BEL})
      Bold(i) == x.bold \/ (i - 1 - Before(i)) % 2 = 1
      Visible == {i \in DOMAIN x.txt : x.txt[i] # BEL}
  IN [p \in Area(Top(w), Left(w), YRES, XRES * Cardinality(Visible)) |->
        LET i == CHOOSE i \in Visible : Before(i) = (p[2] - Left(w)) \div XRES
        IN IF <<p[1] - Top(w), (p[2] - Left(w)) % XRES>> \in Font[<<x.txt[i], Bold(i)>>]
           THEN Fg(w) ELSE Bg(w)]

IconPicture(w, x) ==
  [p \in Area(Top(w), Left(w), YRES, XRES) |->
     IF ~ x.visible THEN BG_COL
     ELSE IF <<p[1] - Top(w), p[2] - Left(w)>> \in Bitmaps[w.name][x.map + 1] THEN Fg(w) ELSE Bg(w)]

\* A bar grows from one end, at least one pixel long; each half has a length.
BarPicture(w, x) ==
  LET across == w.dir \in {"E", "W"}
      size == w.len * (IF across THEN XRES ELSE YRES)
      Length(val) == LET n == (val[1] * size) \div val[2] IN IF n < 1 THEN 1 ELSE n
      Filled(along, half) ==
        IF w.dir \in {"E", "S"} THEN along < Length(x.val[half]) ELSE size - 1 - along < Length(x.val[half])
      Pixel(along, side, width) ==
        LET half == IF side < width \div 2 THEN 1 ELSE 2
        IN IF w.hollow /\ (along \in {0, size - 1} \/ side \in {0, width - 1}) THEN Fg(w)
           ELSE IF Filled(along, half) THEN BarColor(w, half) ELSE Bg(w)
  IN IF across
     THEN [p \in Area(Top(w), Left(w), YRES, size) |-> Pixel(p[2] - Left(w), p[1] - Top(w), YRES)]
     ELSE [p \in Area(Top(w), Left(w), size, XRES) |-> Pixel(p[1] - Top(w), p[2] - Left(w), XRES)]

\* An image lies anywhere; what surrounds it in the area it once covered is transparent.
ImagePicture(w, x) ==
  [p \in Area(w.row, x.col, x.height, x.width) |->
     LET q == <<p[1] - w.row, p[2] - x.col>>
     IN IF ~ x.visible THEN BG_COL
        ELSE IF q \notin DOMAIN x.image THEN NO_COL
        ELSE IF x.inverted THEN [x.image[q] EXCEPT !.l = 255 - @] ELSE x.image[q]]

Picture(w, x) ==
  CASE w.class = "text" -> TextPicture(w, x)
    [] w.class = "icon" -> IconPicture(w, x)
    [] w.class = "bar" -> BarPicture(w, x)
    [] OTHER -> ImagePicture(w, x)

-----------------------------------------------------------------------------
(* The light of n layers, from the back to the front, at p. *)
Light(p) ==
  LET light[n \in 0 .. LAYERS] ==
        IF n = 0 THEN BL_COL.l
        ELSE LET pixel == planes[LAYERS - n][p]
             IN (pixel.l * pixel.a + light[n - 1] * (255 - pixel.a)) \div 255
  IN IF INVERTED THEN 255 - light[LAYERS] ELSE light[LAYERS]

Dark(p) == Light(p) < 127

Empty == [l \in 0 .. LAYERS - 1 |-> [p \in Extent |-> NO_COL]]

Nothing == [w \in Widgets |-> None]

\* A program that says hello clears the screen afterwards, another one does not.
Init ==
  /\ planes = Empty /\ shown = Nothing
  /\ screen \in {[p \in Screen |-> FALSE], [p \in Screen |-> Dark(p)]}

Painted(plane, picture) == [p \in Extent |-> IF p \in DOMAIN picture THEN picture[p] ELSE plane[p]]

\* An image covers what the one before it covered in the same column, or is as wide as the
\* screen.
Covers(w) ==
  shown[w] # None /\ w.class = "image" =>
    \/ shown'[w].col # shown[w].col
    \/ /\ shown'[w].height >= shown[w].height
       /\ \/ shown'[w].width >= shown[w].width
          \/ shown'[w].width >= DCOLS

\* The screen may also become right where it was not yet.
Draw(w) ==
  LET picture == Picture(w, shown'[w])
  IN /\ Covers(w)
     /\ shown' = [shown EXCEPT ![w] = shown'[w]] /\ shown'[w] # None
     /\ planes' = [planes EXCEPT ![w.layer] = Painted(@, picture)]
     /\ \A p \in Screen : \/ screen'[p] = Dark(p)'
                          \/ p \notin DOMAIN picture /\ screen'[p] = screen[p]

\* The goodbye is written like a text widget, or does not fit.
Greeter == [class |-> "text", layer |-> 0, row |-> 2, fg |-> Default, bg |-> Default,
            col |-> (DCOLS \div XRES - Len(Goodbye)) \div 2]

Leave ==
  /\ \/ planes' = Empty
     \/ planes' = [Empty EXCEPT ![0] = Painted(@, TextPicture(Greeter, [txt |-> Goodbye, bold |-> FALSE]))]
  /\ screen' = [p \in Screen |-> Dark(p)']
  /\ shown' = Nothing

Next == Leave \/ \E w \in Widgets : Draw(w)

Spec == Init /\ [][Next]_vars
===============================================================================
