---------------------------- MODULE TextDisplay ----------------------------
(***************************************************************************)
(* drv_generic_text.c: text, icon and bar widgets write into a layout      *)
(* buffer, and blit sends what differs from the display buffer, the copy   *)
(* of what the display shows.  Icons and bars define characters.  Widgets  *)
(* draw one at a time, from the callbacks of their timers, in any order.   *)
(*                                                                         *)
(* Below is the driver of a display: that of the HD44780, which shows the  *)
(* present bitmap of a character everywhere, or one with INVALIDATE, whose *)
(* display keeps the old picture until the character is sent again.        *)
(*                                                                         *)
(* A cell is <<row, col>>.  Characters are their codes; a picture is what  *)
(* a cell of the real display shows.                                       *)
(***************************************************************************)
EXTENDS BarSegments, HD44780

CONSTANTS
  DROWS, DCOLS,   \* size of the display
  CHAR0,          \* code of the first user-defined character
  GOTO_COST,      \* equal characters that are sent rather than skipped
  Drivers,        \* of "HD44780" and "keeping", those that may be below
  Single_Segments,
  Texts(_),       \* text widgets that a driver has: [row, col, width]
  Letters(_),     \* characters of its texts
  Icons(_),       \* icon widgets: [name, row, col, child]
  MAXMAP,         \* bitmaps of an icon
  Frames,         \* values of the "frame" expression of icons
  Bars(_),        \* bar widgets: [row, col, len, dir, style]
  Lengths(_)      \* pairs of lengths that the expressions of a bar may yield

DisplayCells == (0 .. DROWS - 1) \X (0 .. DCOLS - 1)

UserChars == CHAR0 .. CHAR0 + CHARS - 1

Blank == 32

\* A value that no character has, for the complement of one.
Wrong == -1

TextCells(w) == {w.row} \X (w.col .. w.col + w.width - 1)

\* Bars and icons lie on the display; texts may leave it.  Only texts overlap
\* (widget.c:279 warns of widgets that do).  One widget of each icon is its first.
ASSUME TextDisplayAssumption ==
  /\ DROWS \in Nat /\ DCOLS \in Nat /\ CHAR0 \in Nat /\ GOTO_COST \in Int
  /\ MAXMAP \in Nat /\ Frames \subseteq Int
  /\ \A s \in DOMAIN Fixed : Fixed[s].ascii \notin UserChars
  /\ Drivers \subseteq {"HD44780", "keeping"}
  /\ "HD44780" \in Drivers => Size = <<DROWS, DCOLS>>
  /\ \A d \in Drivers :
       /\ Letters(d) \subseteq Nat /\ (Letters(d) \union {Blank}) \intersect UserChars = {}
       /\ \A w \in Texts(d) : w.row \in Nat /\ w.col \in Nat /\ w.width \in Nat
       /\ \A b \in Bars(d) :
            /\ b.row \in Nat /\ b.col \in Nat /\ b.len \in Nat \ {0}
            /\ b.dir \in Directions /\ b.style \in Nat
            /\ Lengths(b) \subseteq Nat \X Nat
            /\ BarCells(b) \subseteq DisplayCells
            /\ \A w \in Texts(d) : TextCells(w) \intersect BarCells(b) = {}
       /\ IsFiniteSet(Icons(d))
       /\ \A w \in Icons(d) :
            /\ <<w.row, w.col>> \in DisplayCells /\ w.child \in BOOLEAN
            /\ \A v \in Texts(d) : <<w.row, w.col>> \notin TextCells(v)
            /\ \A b \in Bars(d) : <<w.row, w.col>> \notin BarCells(b)
            /\ \A v \in Icons(d) : <<v.row, v.col>> = <<w.row, w.col>> => v = w
            /\ \E v \in Icons(d) : /\ v.name = w.name /\ ~ v.child
                                    /\ \A x \in Icons(d) : x.name = w.name /\ ~ x.child => x = v

VARIABLES
  driver,       \* the one below
  size,         \* <<LROWS, LCOLS>>
  LayoutFB, DisplayFB,
  BarFB, Segment,
  Icon,         \* the data of an icon, shared by its widgets
  failed,       \* history: "unable to compact bar characters" has been logged
  selfMerged,   \* history: a segment has been merged with itself
  glyph,        \* the bitmaps in the display, for each of its controllers
  screen,       \* what the display holds: pictures if INVALIDATE, else codes
  folded        \* history: cells of the second half of a row that were sent in one
                \* write with cells of the first half

barVars == <<BarFB, Segment, failed, selfMerged>>
vars == <<driver, size, LayoutFB, DisplayFB, barVars, Icon, glyph, screen, folded>>

-----------------------------------------------------------------------------
(* The display *)

INVALIDATE == driver = "keeping"

Picture(c, bitmaps) == IF c \in UserChars THEN bitmaps[c - CHAR0] ELSE <<c>>

Visible(p) == IF driver = "HD44780" THEN OnGlass(p[1], p[2]) ELSE p \in DisplayCells

\* Where the display holds a cell.
Where(p) == IF driver = "HD44780" THEN Place(p[1], p[2]) ELSE <<1, p>>

\* The bitmaps a cell is shown with; the layout may be larger than the display.
Font(p) == glyph[IF Visible(p) THEN Where(p)[1] ELSE 1]

Seen(p) ==
  LET held == screen[Where(p)]
  IN IF INVALIDATE THEN held ELSE Picture(held, Font(p))

\* drv_generic_text_real_defchar
Defined(fonts, bitmaps) ==
  IF driver = "HD44780" THEN drv_HD_defchar(fonts, bitmaps)
  ELSE [fonts EXCEPT ![1] = Redefined(@, bitmaps)]

\* drv_generic_text_real_write: the places that get something new.
Written(row, col, data) ==
  IF driver = "HD44780" THEN drv_HD_write(row, col, data)
  ELSE [p \in {1} \X ({row} \X (col .. col + Len(data) - 1)) |->
          Picture(data[p[2][2] - col + 1], glyph'[1])]

-----------------------------------------------------------------------------
(* Framebuffers *)

Greater(a, b) == IF a < b THEN b ELSE a

LayoutCells(rows, cols) == (0 .. rows - 1) \X (0 .. cols - 1)

Enlarged(buffer, rows, cols, new) ==
  [p \in LayoutCells(rows, cols) |-> IF p \in DOMAIN buffer THEN buffer[p] ELSE new]

NoBar == [val1 |-> -1, val2 |-> -1, dir |-> 0, style |-> 0, segment |-> 0]

\* The cells of a region that are sent: those that differ, and those between two of
\* them in a row that are at most GOTO_COST apart.
Sent(layout, display, region) ==
  LET changed == {p \in region \intersect DisplayCells : layout[p] # display[p]}
      Between(p, q) == {p[1]} \X (p[2] + 1 .. q[2] - 1)
      runs == {r \in changed \X changed :
                 /\ r[1][1] = r[2][1] /\ r[1][2] < r[2][2]
                 /\ Between(r[1], r[2]) \intersect changed = {}
                 /\ r[2][2] - r[1][2] - 1 <= GOTO_COST}
  IN changed \union UNION {Between(r[1], r[2]) : r \in runs}

Bug_NotInvalidated(display, cells) == display

\* "ugly invalidation": blit sends these cells whatever they hold.
Invalidated(display, cells) ==
  [p \in DisplayCells |-> IF INVALIDATE /\ p \in cells THEN Wrong ELSE display[p]]

\* Each run of cells that are sent is one write; it starts at such a cell.
RunEnd(sent, p) ==
  CHOOSE c \in p[2] .. DCOLS - 1 :
    {p[1]} \X (p[2] .. c) \subseteq sent /\ <<p[1], c + 1>> \notin sent

Starts(sent) == {p \in sent : <<p[1], p[2] - 1>> \notin sent}

Run(sent, p) == [k \in 1 .. RunEnd(sent, p) - p[2] + 1 |-> LayoutFB'[<<p[1], p[2] + k - 1>>]]

\* The last of the runs, in the order of rows and columns.
Latest(runs) ==
  CHOOSE p \in runs : \A q \in runs : q[1] < p[1] \/ (q[1] = p[1] /\ q[2] <= p[2])

\* What the display holds at a place after the runs have been sent.
Held(place, writes) ==
  LET reaching == {p \in DOMAIN writes : place \in DOMAIN writes[p]}
  IN IF reaching = {} THEN screen[place] ELSE writes[Latest(reaching)][place]

\* The cells that a run reaches over the middle of their row.
OverMiddle(sent) ==
  {p \in sent : /\ driver = "HD44780" /\ Visible(p) /\ Folded(Where(p)[1])
                /\ p[2] >= HALF
                /\ {p[1]} \X (HALF - 1 .. p[2]) \subseteq sent}

blit(layout, display, region) ==
  /\ LayoutFB' = layout
  /\ \E sent \in {Sent(LayoutFB', display, region)} :
       /\ DisplayFB' = [p \in DisplayCells |->
                         IF p \in sent THEN LayoutFB'[p] ELSE display[p]]
       /\ \E writes \in {[p \in Starts(sent) |-> Written(p[1], p[2], Run(sent, p))]} :
            screen' = [place \in DOMAIN screen |-> Held(place, writes)]
       /\ folded' = (folded \ sent) \union OverMiddle(sent)

-----------------------------------------------------------------------------
(* Texts *)

\* drv_generic_text_draw of a text widget whose buffer, filled to its width, has changed.
text_draw(w, text) ==
  LET r == Greater(w.row + 1, size[1])
      c == Greater(w.col + w.width, size[2])
      cells == TextCells(w)
      grown == Enlarged(LayoutFB, r, c, Blank)
  IN /\ size' = <<r, c>>
     /\ BarFB' = Enlarged(BarFB, r, c, NoBar)
     /\ UNCHANGED <<driver, Segment, failed, selfMerged, Icon, glyph>>
     /\ blit([p \in DOMAIN grown |->
                IF p \in cells THEN text[p[2] - w.col + 1] ELSE grown[p]],
             DisplayFB, cells)

TextUpdate == \E w \in Texts(driver) : \E text \in [1 .. w.width -> Letters(driver)] : text_draw(w, text)

-----------------------------------------------------------------------------
(* Icons *)

IconNames == {w.name : w \in Icons(driver)}

icon_counter == Cardinality({n \in IconNames : Icon[n].ascii >= 0})

\* "out of icons": the icon is not drawn, now or later.
IconLeftOut(i) == i.ascii = -2 \/ (i.ascii = -1 /\ icon_counter >= ICONS)

Bug_IconChar(i) == IF i.ascii = -1 THEN CHAR0 + CHARS - icon_counter ELSE i.ascii

IconChar(i) == IF i.ascii = -1 THEN CHAR0 + CHARS - (icon_counter + 1) ELSE i.ascii

\* drv_generic_text_icon_draw; i is the data of the icon.
icon_draw(w, i) ==
  LET ascii == IconChar(i)
      redefine == i.curmap # i.prvmap /\ i.visible
      c == IF i.visible THEN ascii ELSE Blank
      p == <<w.row, w.col>>
  IN \/ /\ IconLeftOut(i)
        /\ Icon' = [Icon EXCEPT ![w.name] = [i EXCEPT !.ascii = -2]]
        /\ UNCHANGED <<LayoutFB, DisplayFB, glyph, screen, folded>>
     \/ /\ ~ IconLeftOut(i)
        /\ Icon' = [Icon EXCEPT ![w.name] =
                      [i EXCEPT !.ascii = ascii,
                                !.prvmap = IF redefine THEN i.curmap ELSE @]]
        /\ glyph' = Defined(glyph, [x \in IF redefine THEN {ascii - CHAR0} ELSE {} |->
                                      <<"icon", w.name, i.curmap>>])
        /\ blit([LayoutFB EXCEPT ![p] = c],
                Invalidated(DisplayFB, IF redefine THEN {p} ELSE {}),
                {p})

NextMap(cur, frame) ==
  IF frame \in 0 .. MAXMAP THEN frame ELSE IF cur + 1 >= MAXMAP THEN 0 ELSE cur + 1

\* widget_icon_update: only the first widget of a name evaluates the properties, and
\* widget_icon_init draws it before there are others.
IconUpdate(w) ==
  /\ \/ ~ w.child /\ \E visible \in BOOLEAN, frame \in Frames :
          icon_draw(w, [Icon[w.name] EXCEPT !.visible = visible,
                                            !.curmap = NextMap(@, frame)])
     \/ w.child /\ Icon[w.name].ascii # -1 /\ icon_draw(w, Icon[w.name])
  /\ UNCHANGED <<driver, size, barVars>>

-----------------------------------------------------------------------------
(* Bars *)

\* The code of segment s, in the array behind nSegment too; -1 while it has none.
SegmentCode(seg, s) ==
  IF s <= fSegment \/ seg[s].ascii = -1 THEN seg[s].ascii ELSE CHAR0 + seg[s].ascii

\* drv_generic_text_bar_draw, from the new lengths to the blit of the whole layout.
bar_draw(b, val1, val2) ==
  \E made \in {create_segments(Segment, create_bar(BarFB, b, val1, val2),
                               size[1], size[2])} :
  \E packed \in {pack_segments(made.seg)} :
  \E seg \in {define_chars(packed.seg, packed.nSegment)} :
  LET segment(p) == IF made.bar[p].segment = 0 THEN 0 ELSE packed.cells[made.bar[p].segment]
      fresh == {s \in fSegment + 1 .. packed.nSegment : seg[s].ascii # packed.seg[s].ascii}
      Drawn(p) == segment(p) # 0 /\ SegmentCode(seg, segment(p)) # -1
  IN /\ BarFB' = [p \in DOMAIN BarFB |-> [made.bar[p] EXCEPT !.segment = segment(p)]]
     /\ Segment' = [s \in 1 .. Greater(packed.nSegment, fSegment) |->
                      [seg[s] EXCEPT !.used = \E p \in DOMAIN BarFB : segment(p) = s]]
     /\ failed' = (failed \/ packed.failed)
     /\ selfMerged' = (selfMerged \/ packed.selfMerged)
     /\ glyph' = Defined(glyph, [x \in {seg[s].ascii : s \in fresh} |->
                                   Bitmap(seg[CHOOSE s \in fresh : seg[s].ascii = x])])
     /\ blit([p \in DOMAIN LayoutFB |->
                IF Drawn(p) THEN SegmentCode(seg, segment(p)) ELSE LayoutFB[p]],
             Invalidated(DisplayFB, {p \in DisplayCells : segment(p) \in fresh}),
             DOMAIN LayoutFB)

BarUpdate(b) ==
  /\ \E v \in Lengths(b) : bar_draw(b, v[1], IF Single_Segments THEN v[1] ELSE v[2])
  /\ UNCHANGED <<driver, size, Icon>>

-----------------------------------------------------------------------------

\* drv_generic_text_init and drv_generic_text_bar_init, on a cleared display
Init ==
  /\ driver \in Drivers
  /\ size = <<DROWS, DCOLS>>
  /\ LayoutFB = [p \in DisplayCells |-> Blank]
  /\ DisplayFB = [p \in DisplayCells |-> Blank]
  /\ BarFB = [p \in DisplayCells |-> NoBar]
  /\ Segment = Fixed
  /\ Icon = [n \in IconNames |-> [ascii |-> -1, curmap |-> 0, prvmap |-> -1, visible |-> FALSE]]
  /\ failed = FALSE /\ selfMerged = FALSE
  /\ glyph = [k \in IF driver = "HD44780" THEN allControllers ELSE {1} |->
                [c \in 0 .. CHARS - 1 |-> Garbage]]
  /\ LET places == {Where(p) : p \in {q \in DisplayCells : Visible(q)}}
     IN screen = [p \in places |-> IF INVALIDATE THEN <<Blank>> ELSE Blank]
  /\ folded = {}

Next == \/ TextUpdate
        \/ \E w \in Icons(driver) : IconUpdate(w)
        \/ \E b \in Bars(driver) : BarUpdate(b)

Spec == Init /\ [][Next]_vars

-----------------------------------------------------------------------------
(* Properties *)

\* No call of pack_segments so far has given up or merged a segment with itself.
Sound == ~ failed /\ ~ selfMerged

\* The cells of the display, except on one that keeps pictures those of an icon that are
\* not its first.
OwnCells ==
  {p \in DisplayCells : /\ Visible(p)
                        /\ INVALIDATE => \A w \in Icons(driver) : w.child => p # <<w.row, w.col>>}

ShowsLayout(p) == Seen(p) = Picture(LayoutFB[p], Font(p))

TypeOK ==
  LET codes == UserChars \union Letters(driver) \union {Blank} \union {s.ascii : s \in Range(Fixed)}
  IN /\ DOMAIN LayoutFB = LayoutCells(size[1], size[2]) /\ DOMAIN BarFB = DOMAIN LayoutFB
     /\ DisplayCells \subseteq DOMAIN LayoutFB
     /\ Range(LayoutFB) \subseteq codes /\ Range(DisplayFB) \subseteq codes
     /\ \A n \in IconNames : /\ Icon[n].ascii \in UserChars \union {-1, -2}
                             /\ Icon[n].curmap \in 0 .. MAXMAP
                             /\ Icon[n].prvmap \in -1 .. MAXMAP
     /\ \A s \in fSegment + 1 .. Len(Segment) : Segment[s].ascii \in -1 .. Room - 1
     /\ \A p \in DOMAIN BarFB : BarFB[p].segment \in Nat

\* Every cell of the display shows the character that the layout has there, with its
\* present bitmap: neither blit nor a redefined character leaves an old picture, and
\* goto finds the controller and the address of each cell.  Not claimed for the further
\* widgets of an icon on a display that keeps pictures, and for writes that run over the
\* middle of a row that is organized in halves.
ScreenShowsLayout == Sound => \A p \in OwnCells \ folded : ShowsLayout(p)

\* A cell of a bar shows the bitmap of its segment: characters are not taken from
\* segments in use, and segments are renumbered together with the cells.
BarsShowSegments ==
  Sound => \A p \in DOMAIN BarFB : BarFB[p].segment > fSegment =>
    /\ BarFB[p].segment <= Len(Segment)
    /\ Picture(LayoutFB[p], Font(p)) = Bitmap(Segment[BarFB[p].segment])

\* An icon that can be seen shows its own bitmap, the last one defined, however many
\* characters the bars define and whichever icons got no character.
IconsShowBitmap ==
  \A w \in Icons(driver) : LayoutFB[<<w.row, w.col>>] # Blank =>
    /\ Picture(LayoutFB[<<w.row, w.col>>], Font(<<w.row, w.col>>))
         = <<"icon", w.name, Icon[w.name].prvmap>>
    /\ w.child \/ Icon[w.name].prvmap = Icon[w.name].curmap

\* What a cell shows, of an icon or of a bar, is what was drawn there last, though icons
\* and bars define characters anew while others show them.
CellsShowPictures == BarsShowSegments /\ IconsShowBitmap

\* Segment s is empty or full wherever cell c is.
Resembles(s, c) ==
  LET res == Resolution({c.dir})
  IN \A end \in {0, res} : /\ c.val1 = end => Length1(s, res) = end
                           /\ c.val2 = end => Length2(s, res) = end

\* "do not replace empty with non-empty", "do not replace full with non-full": a cell
\* that should be empty or full is shown so, however many segments are merged.
EndsAreKept ==
  ~ failed => \A p \in DOMAIN BarFB : BarFB[p].segment \in DOMAIN Segment =>
    Resembles(Segment[BarFB[p].segment], BarFB[p])

\* All bars lie the same way, or the cells are square.  Otherwise a cell may be given a
\* segment of another direction, whose lengths are cut to the resolution of the cell at
\* that moment (drv_generic_text.c:660) and to its own ever after (:722).
OneResolution == \A b, c \in Bars(driver) : Resolution({b.dir}) = Resolution({c.dir})

\* The same as long as no segment is merged with itself, for bars of one resolution.
SoundEndsAreKept == Sound /\ OneResolution => EndsAreKept

\* The segments, beside the fixed ones, that are in use.
InUse == {k \in fSegment + 1 .. Len(Segment) : Segment[k].used}

\* What the cells ask for and no segment of a set suits.
Wanted(segments) ==
  {c \in Range(BarFB) : c.dir # 0 /\ ~ \E s \in segments : Suits(s, c)}

Asked(segments) == {[val1 |-> c.val1, val2 |-> c.val2, dir |-> c.dir, style |-> c.style] :
                      c \in Wanted(segments)}

Exact(p) == /\ BarFB[p].segment \in DOMAIN Segment
            /\ Suits(Segment[BarFB[p].segment], BarFB[p])

shownBars == <<Segment, [p \in DisplayCells |-> BarFB[p]]>>

AsksTheSame(p) == \A x \in {"val1", "val2", "dir", "style"} : BarFB'[p][x] = BarFB[p][x]

\* When the segments in use leave room for what a draw adds, all bars are shown as
\* they are, and, with bars of one resolution, the cells that were and ask for the same keep
\* their characters.
RoomIsUsed ==
  [][\A n \in {Cardinality(InUse)}, segments \in {Range(Fixed) \union {Segment[k] : k \in InUse}} :
       Sound' /\ n + Cardinality(Asked(segments)') <= Room =>
         \A p \in DOMAIN BarFB : BarFB'[p].dir # 0 =>
           /\ Exact(p)'
           /\ OneResolution /\ Exact(p) /\ AsksTheSame(p) => LayoutFB'[p] = LayoutFB[p]]_shownBars

=============================================================================
