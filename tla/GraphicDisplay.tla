---------------------------- MODULE GraphicDisplay ----------------------------
(***************************************************************************)
(* drv_generic_graphic.c on the blit of drv_T6963.c, with the widgets that *)
(* draw: widget_text.c, widget_icon.c, widget_bar.c, widget_image.c and    *)
(* widget_ttf.c.  Each layer is one array of pixels, which grows when      *)
(* something is drawn outside of it; what was drawn is blended and sent to *)
(* the display.                                                            *)
(*                                                                         *)
(* An update of a widget is an action.  What its expressions yield is      *)
(* chosen; values of bars are whole numbers, and their quotients exact.    *)
(***************************************************************************)
EXTENDS T6963

CONSTANTS
  LAYERS, XRES, YRES, Extent, FG_COL, BG_COL, BL_COL, INVERTED, Font, BEL, Bitmaps,
  None, Goodbye,  \* see Canvas; behind the bitmaps of an icon lies one more
  Layout,         \* the widgets in their order, as in Canvas; those that share the data of
                  \*   an earlier one are a child
  Hello,          \* a text for the start
  Texts(_),       \* contents of a text widget, [txt, bold]
  Frames,         \* results <<visible, frame>> of the expressions of icons
  Values(_),      \* results <<value1, value2, min, max>> of the expressions of a bar, some None
  Settings(_)     \* properties of an image or a Truetype text

VARIABLES
  FB, LROWS, LCOLS,       \* the layers, numbered from 0, and their size
  hw,                     \* buffers and memory of the T6963
  Icon, Image,            \* the data of these widgets by name
  Bar,                    \* the scale of each bar
  shown,                  \* history: the content each widget has drawn
  life                    \* how the program was started, or that it has ended

vars == <<FB, LROWS, LCOLS, hw, Icon, Image, Bar, shown, life>>

Widgets == {Layout[k] : k \in DOMAIN Layout}
Named(class) == {w.name : w \in {v \in Widgets : v.class \in class}}
Bars == {w \in Widgets : w.class = "bar"}
Pictured == {"image", "Truetype"}

NO_COL == [l |-> 0, a |-> 0]
Default == [l |-> -1, a |-> 0]
Colors == [l : 0 .. 255, a : 0 .. 255]

\* A picture of a file, or none.
Loaded(gd) ==
  gd = <<>> \/ \E ny, nx \in 1 .. Cardinality(DOMAIN gd) : gd \in [(0 .. ny - 1) \X (0 .. nx - 1) -> Colors]

ASSUME GraphicAssumption ==
  /\ {LAYERS, XRES, YRES} \subseteq Nat \ {0} /\ Extent \subseteq Nat \X Nat
  /\ {FG_COL, BG_COL, BL_COL} \subseteq Colors /\ INVERTED \in BOOLEAN
  /\ \A msg \in {Hello, Goodbye} : msg \in Seq(Range(msg))
  /\ \A v, w \in Widgets : {v.class, w.class} \subseteq Pictured /\ v.name = w.name => v.class = w.class
  /\ \A w \in Widgets :
       /\ w.class \in {"text", "icon", "bar"} \union Pictured
       /\ w.layer \in 0 .. LAYERS - 1 /\ w.row \in Int /\ w.col \in Int
       /\ w.class \notin Pictured => {w.fg, w.bg} \subseteq Colors \union {Default}
       /\ w.class = "text" =>
            \A x \in Texts(w) :
              x = [txt |-> x.txt, bold |-> x.bold] /\ x.txt \in Seq(Range(x.txt)) /\ x.bold \in BOOLEAN
       /\ w.class = "bar" =>
            /\ w.color \in [1 .. 2 -> Colors \union {Default}] /\ w.len \in Nat
            /\ w.dir \in {"N", "E", "S", "W"} /\ w.hollow \in BOOLEAN
            /\ Values(w) \subseteq Int \X (Int \union {None}) \X (Int \union {None}) \X (Int \union {None})
       /\ w.class \in Pictured =>
            \A s \in Settings(w) :
              /\ Loaded(s.file) /\ {s.scale, s.width, s.height} \subseteq Int
              /\ {s.reload, s.visible, s.inverted, s.center} \subseteq BOOLEAN

\* What the code takes for granted of a layout and does not check: no place is negative, as
\* that of Row0 is, and hollow bars have a length.
Placed ==
  \A w \in Widgets : w.row >= 0 /\ w.col >= 0 /\ (w.class = "bar" /\ w.hollow => w.len > 0)

Larger(i, j) == IF i > j THEN i ELSE j
Smaller(i, j) == IF i < j THEN i ELSE j

-----------------------------------------------------------------------------
(* The layers, as a record g = [FB, LROWS, LCOLS] *)

Layers == [FB |-> FB, LROWS |-> LROWS, LCOLS |-> LCOLS]

\* Mutant of resizeFB: the contents are copied as they lie, whatever the width was.
Bug_resizeFB(g, rows, cols) ==
  IF rows <= g.LROWS /\ cols <= g.LCOLS THEN g
  ELSE LET R == Larger(rows, g.LROWS)
           C == Larger(cols, g.LCOLS)
       IN [LROWS |-> R, LCOLS |-> C, FB |-> [l \in 0 .. LAYERS - 1 |-> [i \in 0 .. R * C - 1 |->
             IF i < g.LROWS * g.LCOLS THEN g.FB[l][i] ELSE NO_COL]]]

resizeFB(g, rows, cols) ==
  IF rows <= g.LROWS /\ cols <= g.LCOLS THEN g
  ELSE LET R == Larger(rows, g.LROWS)
           C == Larger(cols, g.LCOLS)
       IN [LROWS |-> R, LCOLS |-> C, FB |-> [l \in 0 .. LAYERS - 1 |-> [i \in 0 .. R * C - 1 |->
             IF i \div C < g.LROWS /\ i % C < g.LCOLS THEN g.FB[l][(i \div C) * g.LCOLS + (i % C)]
             ELSE NO_COL]]]

window(pos, size, max) ==
  IF pos > max \/ pos + size < 0 \/ size < 1 THEN [pos |-> 0, size |-> 0]
  ELSE [pos |-> Larger(pos, 0), size |-> Smaller(pos + size, max) - Larger(pos, 0)]

\* From the first opaque layer, or the last one, to the front.
blend(g, row, col) ==
  LET pixel(l) == g.FB[l][row * g.LCOLS + col]
      Opaque(l) == pixel(l).a = 255
      first == CHOOSE l \in 0 .. LAYERS - 1 : (Opaque(l) \/ l = LAYERS - 1) /\ \A k \in 0 .. l - 1 : ~ Opaque(k)
      Over(p, ret) == IF p.a = 0 THEN ret ELSE (p.l * p.a + ret * (255 - p.a)) \div 255
      ret[l \in 0 .. first + 1] == IF l > first THEN BL_COL.l ELSE Over(pixel(l), ret[l + 1])
  IN IF INVERTED THEN 255 - ret[0] ELSE ret[0]

\* The weights of the colors add up to 255.
black(g, row, col) == blend(g, row, col) < 127

\* d = [g, hw]: the layers and the display.
blit(d, row, col, height, width) ==
  LET rs == window(row, height, DROWS)
      cs == window(col, width, DCOLS)
      Black == {p \in (rs.pos .. rs.pos + rs.size - 1) \X (cs.pos .. cs.pos + cs.size - 1) :
                  black(d.g, p[1], p[2])}
  IN IF rs.size > 0 /\ cs.size > 0
     THEN [d EXCEPT !.hw = drv_T6_blit(@, Black, rs.pos, cs.pos, rs.size, cs.size)] ELSE d

\* The pixels of a picture, a function of their places, go where the width of the layers
\* puts them; those in front of or behind the array go to other memory.  A picture in
\* Col0 that is wider than the layers overwrites itself: one of the pixels is left.
Put(g, layer, picture) ==
  [g EXCEPT !.FB[layer] = [i \in DOMAIN @ |->
     LET places == {p \in DOMAIN picture : p[1] * g.LCOLS + p[2] = i}
     IN IF places = {} THEN @[i] ELSE picture[CHOOSE p \in places : TRUE]]]

\* Draws a picture in an area the layers are made to cover.
Drawn(d, layer, picture, row, col, height, width) ==
  blit([d EXCEPT !.g = Put(resizeFB(@, row + height, col + width), layer, picture)],
       row, col, height, width)

-----------------------------------------------------------------------------
(* Widgets *)

Fg(w) == IF w.fg = Default THEN FG_COL ELSE w.fg
Bg(w) == IF w.bg = Default THEN BG_COL ELSE w.bg
BarColor(w, half) == IF w.color[half] = Default THEN Fg(w) ELSE w.color[half]

Cells(row, col, height, width) == (row .. row + height - 1) \X (col .. col + width - 1)

\* One character after the other; r: the pixels so far, the next column, and bold.
RenderChar(w, style, r, chr) ==
  LET set == Font[<<chr, r.bold \/ style>>]
      cell == [p \in Cells(YRES * w.row, r.col, YRES, XRES) |->
                 IF <<p[1] - YRES * w.row, p[2] - r.col>> \in set THEN Fg(w) ELSE Bg(w)]
  IN IF chr = BEL THEN [r EXCEPT !.bold = ~ @]
     ELSE [r EXCEPT !.picture = [p \in DOMAIN cell \union DOMAIN @ |->
                                   IF p \in DOMAIN cell THEN cell[p] ELSE @[p]],
                    !.col = @ + XRES]

\* The area has room for the characters that turn bold on and off, too.
render(d, w, x) ==
  LET r[k \in 0 .. Len(x.txt)] ==
        IF k = 0 THEN [picture |-> <<>>, col |-> XRES * w.col, bold |-> FALSE]
        ELSE RenderChar(w, x.bold, r[k - 1], x.txt[k])
  IN Drawn(d, w.layer, r[Len(x.txt)].picture, YRES * w.row, XRES * w.col, YRES, XRES * Len(x.txt))

icon_draw(d, w, x) ==
  LET row == YRES * w.row
      col == XRES * w.col
      bitmap == Bitmaps[w.name][x.map + 1]
  IN Drawn(d, w.layer,
           [p \in Cells(row, col, YRES, XRES) |->
              IF ~ x.visible THEN BG_COL
              ELSE IF <<p[1] - row, p[2] - col>> \in bitmap THEN Fg(w) ELSE Bg(w)],
           row, col, YRES, XRES)

\* Both halves of a bar; its pixels are counted from the west or north end (x) and from
\* the side (y).
BarPixel(w, vals, max, size, x, y) ==
  LET half == IF y < size \div 2 THEN 1 ELSE 2
      rev == w.dir \in {"W", "N"}
      val == IF rev THEN max - vals[half] ELSE vals[half]
      frame == w.hollow /\ (x \in {0, max - 1} \/ y \in {0, size - 1})
  IN IF frame THEN Fg(w) ELSE IF (x < val) # rev THEN BarColor(w, half) ELSE Bg(w)

\* Frame: both ends of the frame of a hollow bar of length 0, one of them outside of it.
bar_draw(d, w, x) ==
  LET row == YRES * w.row
      col == XRES * w.col
      across == w.dir \in {"E", "W"}
      max == w.len * (IF across THEN XRES ELSE YRES)
      vals == [h \in 1 .. 2 |-> LET v == (x.val[h][1] * max) \div x.val[h][2]
                                IN IF v < 1 THEN 1 ELSE IF v > max THEN max ELSE v]
      Frame == IF ~ w.hollow \/ max > 0 THEN {}
               ELSE IF across THEN Cells(row, col - 1, YRES, 2) ELSE Cells(row - 1, col, 2, XRES)
  IN IF across
     THEN Drawn(d, w.layer, [p \in Cells(row, col, YRES, max) \union Frame |->
                               BarPixel(w, vals, max, YRES, p[2] - col, p[1] - row)],
                row, col, YRES, max)
     ELSE Drawn(d, w.layer, [p \in Cells(row, col, max, XRES) \union Frame |->
                               BarPixel(w, vals, max, XRES, p[1] - row, p[2] - col)],
                row, col, max, XRES)

\* An image in the middle, or in column 1 if it is as wide as the layers.
ImageCol(g, w, I) ==
  IF ~ I.center THEN w.col
  ELSE IF I.width < g.LCOLS THEN g.LCOLS \div 2 - I.width \div 2 ELSE 1

image_draw(d, w, I) ==
  LET col == ImageCol(d.g, w, I)
  IN IF I.bitmap = <<>> THEN d
     ELSE Drawn(d, w.layer,
                [p \in Cells(w.row, col, I.height, I.width) |->
                   IF I.visible THEN I.bitmap[<<p[1] - w.row, p[2] - col>>] ELSE BG_COL],
                w.row, col, I.height, I.width)

-----------------------------------------------------------------------------
(* Images: [gdImage, bitmap, width, height, oldheight, visible, inverted,  *)
(* center]; gdImage and bitmap are functions from places, or <<>>.         *)

Sy(gd) == Cardinality({p[1] : p \in DOMAIN gd})
Sx(gd) == Cardinality({p[2] : p \in DOMAIN gd})

\* What gd makes of an image that is copied to another size: the places 0 .. m - 1 of
\* the copy are shared out evenly among the n of the image.
Resized(gd, nx, ny) ==
  LET From(n, m, k) == CHOOSE i \in 0 .. n - 1 : (m * i) \div n <= k /\ k < (m * (i + 1)) \div n
  IN [p \in Cells(0, 0, ny, nx) |-> gd[<<From(Sy(gd), ny, p[1]), From(Sx(gd), nx, p[2])>>]]

\* width and height of the widget bound the size of an image, one that is 0 does not.
Bounded(gd, s) ==
  LET tall == s.width = 0 \/ (s.height # 0 /\ s.width * Sy(gd) > s.height * Sx(gd))
  IN IF tall THEN Resized(gd, (s.height * Sx(gd)) \div Sy(gd), s.height)
     ELSE Resized(gd, s.width, (s.width * Sy(gd)) \div Sx(gd))

\* A percentage, or the width of the widget but not more than its height.
Scaled(gd, s) ==
  LET Percent(n) == Larger((n * s.scale) \div 100, 1)
      ny == (s.width * Sy(gd)) \div Sx(gd)
  IN IF s.scale > 1 THEN Resized(gd, Percent(Sx(gd)), Percent(Sy(gd)))
     ELSE IF ny > s.height THEN Resized(gd, (s.height * Sx(gd)) \div Sy(gd), s.height)
     ELSE Resized(gd, s.width, ny)

\* As wide as the display, and not lower than the image before.
Centered(gd, oldheight) ==
  LET cx == DCOLS \div 2 - Sx(gd) \div 2
      cy == IF Sy(gd) < oldheight THEN oldheight \div 2 - Sy(gd) \div 2 ELSE 0
  IN [p \in Cells(0, 0, Larger(Sy(gd), oldheight), DCOLS) |->
        LET q == <<p[1] - cy, p[2] - cx>> IN IF q \in DOMAIN gd THEN gd[q] ELSE NO_COL]

\* An image that is kept is scaled once more.
Prepared(gd, s, oldheight) ==
  LET sized == CASE s.scale = 100 -> IF s.width > 0 \/ s.height > 0 THEN Bounded(gd, s) ELSE gd
                 [] s.scale > 1 \/ s.scale = -1 -> Scaled(gd, s)
                 [] OTHER -> gd
  IN IF s.center THEN Centered(sized, oldheight) ELSE sized

Wiped(I) ==
  IF I.bitmap = <<>> THEN I
  ELSE [I EXCEPT !.oldheight = I.height, !.bitmap = [p \in DOMAIN @ |-> NO_COL]]

\* Mutant of Fitted: the height follows the image down, its bitmap does not.
Bug_Fitted(I) ==
  LET width == IF Sx(I.gdImage) > I.width \/ I.center THEN Sx(I.gdImage) ELSE I.width
      same == ~ I.center /\ Sx(I.gdImage) <= I.width /\ Sy(I.gdImage) <= I.height
  IN [I EXCEPT !.width = width, !.height = Sy(I.gdImage),
               !.bitmap = IF same THEN @ ELSE [p \in Cells(0, 0, Sy(I.gdImage), width) |-> NO_COL]]

\* The bitmap grows with the image.
Fitted(I) ==
  LET width == IF Sx(I.gdImage) > I.width \/ I.center THEN Sx(I.gdImage) ELSE I.width
      height == IF Sy(I.gdImage) > I.height \/ I.center THEN Sy(I.gdImage) ELSE I.height
      same == ~ I.center /\ Sx(I.gdImage) <= I.width /\ Sy(I.gdImage) <= I.height
  IN [I EXCEPT !.width = width, !.height = height,
               !.bitmap = IF same THEN @ ELSE [p \in Cells(0, 0, height, width) |-> NO_COL]]

Inverted(pixel) == [pixel EXCEPT !.l = 255 - @]

Rendered(I) ==
  IF ~ I.visible THEN I
  ELSE [I EXCEPT !.bitmap = [p \in DOMAIN @ |->
          IF p \notin DOMAIN I.gdImage THEN @[p]
          ELSE IF I.inverted THEN Inverted(I.gdImage[p]) ELSE I.gdImage[p]]]

\* A file that cannot be loaded leaves a bitmap without a picture.
widget_image_render(I, s) ==
  LET J == Wiped(I)
      gd == IF J.gdImage = <<>> \/ s.reload THEN s.file ELSE J.gdImage
  IN IF gd = <<>> THEN [J EXCEPT !.gdImage = <<>>]
     ELSE Rendered(Fitted([J EXCEPT !.gdImage = Prepared(gd, s, J.oldheight)]))

\* file is the picture of the text, in its font and size.
widget_ttf_render(I, s) ==
  LET J == Wiped(I)
  IN Rendered(Fitted([J EXCEPT !.gdImage = IF @ = <<>> \/ s.reload THEN s.file ELSE @]))

-----------------------------------------------------------------------------
(* Updates *)

\* Icons and images draw when they are made, in the order of the layout; texts and bars
\* when a timer calls them.
AtOnce == {k \in DOMAIN Layout : Layout[k].class \in {"icon"} \cup Pictured}
Undrawn == {k \in AtOnce : shown[Layout[k]] = None}
MayDraw(w) ==
  /\ life # "ended"
  /\ \A k \in Undrawn : w = Layout[k] \/ \E j \in Undrawn : j < k

Display == [g |-> Layers, hw |-> hw]

\* w has drawn x.
Shows(w, x, d) ==
  /\ shown' = [shown EXCEPT ![w] = x]
  /\ FB' = d.g.FB /\ LROWS' = d.g.LROWS /\ LCOLS' = d.g.LCOLS /\ hw' = d.hw

TextUpdate(w) ==
  /\ w.class = "text" /\ MayDraw(w)
  /\ \E x \in Texts(w) : \E d \in {render(Display, w, x)} : Shows(w, x, d)
  /\ UNCHANGED <<Icon, Image, Bar, life>>

NextMap(I, frame, maxmap) ==
  IF frame \in 0 .. maxmap THEN frame ELSE IF I.map + 1 >= maxmap THEN 0 ELSE I.map + 1

IconUpdate(w) ==
  /\ w.class = "icon" /\ MayDraw(w)
  /\ \E f \in Frames :
       LET I == Icon[w.name]
           x == IF w.child THEN I
                ELSE [visible |-> f[1], map |-> NextMap(I, f[2], Len(Bitmaps[w.name]) - 1)]
       IN \E d \in {icon_draw(Display, w, x)} :
            Icon' = [Icon EXCEPT ![w.name] = x] /\ Shows(w, x, d)
  /\ UNCHANGED <<Image, Bar, life>>

\* Without expressions for its ends, a scale widens to the values.
BarUpdate(w) ==
  /\ w.class = "bar" /\ MayDraw(w)
  /\ \E v \in Values(w) :
       LET val2 == IF v[2] = None THEN v[1] ELSE v[2]
           min == IF v[3] = None THEN Smaller(Bar[w].min, Smaller(v[1], val2)) ELSE v[3]
           max == IF v[4] = None THEN Larger(Bar[w].max, Larger(v[1], val2)) ELSE v[4]
           Share(val) == IF max > min THEN <<val - min, max - min>> ELSE <<0, 1>>
           x == [val |-> <<Share(v[1]), Share(val2)>>]
       IN \E d \in {bar_draw(Display, w, x)} :
            Bar' = [Bar EXCEPT ![w] = [min |-> min, max |-> max]] /\ Shows(w, x, d)
  /\ UNCHANGED <<Icon, Image, life>>

\* What an image or a Truetype text has drawn, in column col.
Content(I, col) ==
  [image |-> I.gdImage, visible |-> I.visible, inverted |-> I.inverted,
   height |-> I.height, width |-> I.width, col |-> col]

ImageUpdate(w) ==
  /\ w.class \in Pictured /\ MayDraw(w)
  /\ \E s \in Settings(w) :
       LET I == [Image[w.name] EXCEPT !.visible = s.visible, !.inverted = s.inverted,
                                      !.center = s.center]
       IN \E J \in {IF w.child THEN Image[w.name]
                    ELSE IF w.class = "image" THEN widget_image_render(I, s)
                    ELSE widget_ttf_render(I, s)} :
            \E d \in {image_draw(Display, w, J)} :
              /\ Image' = [Image EXCEPT ![w.name] = J]
              /\ Shows(w, Content(J, ImageCol(Layers, w, J)), d)
  /\ UNCHANGED <<Icon, Bar, life>>

-----------------------------------------------------------------------------
(* Start and end *)

Blank(rows, cols) == [l \in 0 .. LAYERS - 1 |-> [i \in 0 .. rows * cols - 1 |-> NO_COL]]

drv_generic_graphic_clear(d) ==
  blit([d EXCEPT !.g.FB = Blank(d.g.LROWS, d.g.LCOLS)], 0, 0, d.g.LROWS, d.g.LCOLS)

\* The message goes to the third row, if there is one and if it has room.
Fits(msg) == DROWS \div YRES >= 3 /\ Len(msg) <= DCOLS \div XRES

greet(d, msg) ==
  IF ~ Fits(msg) THEN d
  ELSE render(d, [layer |-> 0, row |-> 2, col |-> (DCOLS \div XRES - Len(msg)) \div 2,
                  fg |-> Default, bg |-> Default], [txt |-> msg, bold |-> FALSE])

drv_T6_init(quiet, junk) ==
  LET d == [g |-> [FB |-> Blank(DROWS, DCOLS), LROWS |-> DROWS, LCOLS |-> DCOLS],
            hw |-> drv_T6_start([x \in Addresses |-> {}], junk)]
  IN IF quiet \/ ~ Fits(Hello) THEN d ELSE drv_generic_graphic_clear(greet(d, Hello))

Init ==
  \E quiet \in BOOLEAN, junk \in Junk : \E d \in {drv_T6_init(quiet, junk)} :
    /\ FB = d.g.FB /\ LROWS = d.g.LROWS /\ LCOLS = d.g.LCOLS /\ hw = d.hw
    /\ Icon = [n \in Named({"icon"}) |-> [visible |-> FALSE, map |-> 0]]
    /\ Image = [n \in Named(Pictured) |->
                  [gdImage |-> <<>>, bitmap |-> <<>>, width |-> 0, height |-> 0, oldheight |-> 0,
                   visible |-> FALSE, inverted |-> FALSE, center |-> FALSE]]
    /\ Bar = [w \in Bars |-> [min |-> 0, max |-> 0]]
    /\ shown = [w \in Widgets |-> None]
    /\ life = IF quiet THEN "quiet" ELSE "talkative"

\* Layers and buffers are freed in the end; here they stay as they were.
drv_T6_quit ==
  /\ life # "ended" /\ Undrawn = {}
  /\ \E d \in {LET blank == drv_generic_graphic_clear(Display)
               IN IF life = "quiet" THEN blank ELSE greet(blank, Goodbye)} :
       FB' = d.g.FB /\ LROWS' = d.g.LROWS /\ LCOLS' = d.g.LCOLS /\ hw' = d.hw
  /\ shown' = [w \in Widgets |-> None] /\ life' = "ended"
  /\ UNCHANGED <<Icon, Image, Bar>>

Next ==
  \/ drv_T6_quit
  \/ \E w \in Widgets : TextUpdate(w) \/ IconUpdate(w) \/ BarUpdate(w) \/ ImageUpdate(w)

Spec == Init /\ [][Next]_vars

-----------------------------------------------------------------------------
(* Properties *)

\* What the blit looks at, copies and sends behind the buffers is never more than two bytes,
\* the one behind the last row and the one that a run that meets it takes along
\* (drv_T6_blit), if rows are whole bytes.
OverrunIsShort == Regular => hw.strayed \subseteq SIZE .. SIZE + 1

\* The layers cover the display, they and the bitmaps have the size that the code that
\* writes to them takes for granted, the image in a bitmap fits, and the buffers of the
\* driver are left by two bytes at most.
TypeOK ==
  /\ LROWS >= DROWS /\ LCOLS >= DCOLS
  /\ \A l \in 0 .. LAYERS - 1 : DOMAIN FB[l] = 0 .. LROWS * LCOLS - 1
  /\ \A n \in DOMAIN Image :
       LET I == Image[n]
       IN /\ DOMAIN I.bitmap = Cells(0, 0, I.height, I.width) \/ I.bitmap = <<>>
          /\ I.gdImage = <<>> \/ DOMAIN I.gdImage \subseteq DOMAIN I.bitmap
  /\ OverrunIsShort

\* Whatever a step draws, also with places in front of the layers and with frames outside
\* of their bars, a pixel of the display that changes shows what the layers have there:
\* the part of an area that is on the screen is blended and sent at its place
\* (drv_generic_graphic_window, drv_generic_graphic_blit).
ChangesAreRight ==
  [][\A p \in {q \in Extent : q[1] < DROWS /\ q[2] < DCOLS} :
       \/ Lit(hw.ram, p[1], p[2])' = Lit(hw.ram, p[1], p[2])
       \/ Lit(hw.ram, p[1], p[2])' = black(Layers, p[1], p[2])']_vars

Pixel(l, p) == IF p[1] < LROWS /\ p[2] < LCOLS THEN FB[l][p[1] * LCOLS + p[2]] ELSE NO_COL

C == INSTANCE Canvas WITH
       planes <- [l \in 0 .. LAYERS - 1 |-> [p \in Extent |-> Pixel(l, p)]],
       screen <- [p \in {q \in Extent : q[1] < DROWS /\ q[2] < DCOLS} |-> Lit(hw.ram, p[1], p[2])]

\* The driver does what a canvas promises: whatever is drawn, in whatever order and
\* wherever it lies, the layers keep what was painted on them, also when they grow, the
\* area that an image left is wiped, and the bytes of the display that differ are sent
\* (drv_generic_graphic_resizeFB, drv_generic_graphic_blend, drv_T6_blit,
\* widget_image_render).
ImplementsCanvas == C!Spec
=============================================================================
