---------------------------- MODULE BarSegments ----------------------------
(***************************************************************************)
(* The segments of drv_generic_text.c: text displays draw bars with a few  *)
(* user-defined characters.  A cell of a bar asks for an upper and a lower *)
(* length, val1 and val2; a segment is a character that shows such a pair. *)
(* When the cells ask for more segments than there are characters, similar *)
(* segments are merged.                                                    *)
(*                                                                         *)
(* These are the pure parts; TextDisplay has the buffers and the widgets.  *)
(* Segments are numbered from 1, and 0 stands for the -1 of the code.      *)
(***************************************************************************)
EXTENDS Integers, SequencesExt

CONSTANTS
  XRES, YRES,    \* pixels of a character cell
  CHARS, ICONS,  \* user-defined characters, and those reserved for icons
  Fixed          \* the segments of drv_generic_text_bar_add_segment

EAST == 1
WEST == 2
NORTH == 4
SOUTH == 8

Directions == {EAST, WEST, NORTH, SOUTH}

STYLE_HOLLOW == 1
STYLE_FIRST == 2
STYLE_LAST == 4

ASSUME BarSegmentsAssumption ==
  /\ XRES \in Nat \ {0} /\ YRES \in Nat \ {0}
  /\ CHARS \in Nat /\ ICONS \in 0 .. CHARS
  /\ Fixed \in Seq([val1 : Nat, val2 : Nat, dirs : SUBSET Directions, style : Nat,
                    used : BOOLEAN, ascii : Nat])

\* No fixed segment has a character of its own that the display can redefine.
fSegment == Len(Fixed)

\* The user-defined characters that bars may use.
Room == CHARS - ICONS

Limit == 65535

Lesser(a, b) == IF a < b THEN a ELSE b

\* A direction is a bit mask; "any" segments have all the bits.
Horizontal(dirs) == dirs \intersect {EAST, WEST} # {}

Resolution(dirs) == IF Horizontal(dirs) THEN XRES ELSE YRES

Length1(s, res) == Lesser(s.val1, res)

Length2(s, res) == Lesser(s.val2, res)

-----------------------------------------------------------------------------
(* drv_generic_text_bar_create_bar: what the cells of a bar ask for *)

\* The part of a length that falls into cell k = 0, 1, ...
Part(length, k, res) ==
  LET rest == length - k * res
  IN IF rest < 0 THEN 0 ELSE Lesser(rest, res)

\* West and north bars fill their cells from the far end.
CellLength(dir, length, len, k) ==
  LET res == Resolution({dir})
  IN IF dir \in {WEST, NORTH} THEN res - Part(len * res - length, k, res)
                              ELSE Part(length, k, res)

\* A vertical bar has a style in its first cell only; the last cell of a horizontal
\* one is STYLE_LAST even when it is the first.
CellStyle(b, k, old) ==
  IF b.style = 0 THEN old
  ELSE IF Horizontal({b.dir}) /\ k = b.len - 1 THEN STYLE_LAST
  ELSE IF k = 0 THEN STYLE_FIRST
  ELSE IF Horizontal({b.dir}) /\ old = 0 THEN b.style ELSE old

BarCell(b, k) ==
  IF Horizontal({b.dir}) THEN <<b.row, b.col + k>> ELSE <<b.row + k, b.col>>

BarCells(b) == {BarCell(b, k) : k \in 0 .. b.len - 1}

create_bar(bar, b, val1, val2) ==
  [n \in DOMAIN bar |->
     IF n \notin BarCells(b) THEN bar[n] ELSE
     LET k == CHOOSE i \in 0 .. b.len - 1 : BarCell(b, i) = n
     IN [val1 |-> CellLength(b.dir, val1, b.len, k),
         val2 |-> CellLength(b.dir, val2, b.len, k),
         dir |-> b.dir, style |-> CellStyle(b, k, bar[n].style), segment |-> 0]]

-----------------------------------------------------------------------------
(* drv_generic_text_bar_create_segments *)

\* Segment s shows what cell c asks for.
Suits(s, c) ==
  LET res == Resolution({c.dir})
      l1 == Length1(s, res)
      l2 == Length2(s, res)
  IN /\ l1 = c.val1 /\ l2 = c.val2
     /\ \/ l1 = res /\ l2 = res
        \/ /\ s.style = c.style
           /\ ({l1, l2} \subseteq {0, res} \/ c.dir \in s.dirs)

NewSegment(c) == [val1 |-> c.val1, val2 |-> c.val2, dirs |-> {c.dir},
                  style |-> c.style, used |-> FALSE, ascii |-> -1]

Bug_KeepAll(seg) == seg

\* How many of segments fSegment + 1 to n are in use.
UsedUpTo(seg, n) == Cardinality({s \in fSegment + 1 .. n : seg[s].used})

\* Unused segments are dropped, the fixed ones stay.
KeepUsed(seg) ==
  Fixed \o [k \in 1 .. UsedUpTo(seg, Len(seg)) |->
              seg[CHOOSE s \in fSegment + 1 .. Len(seg) : seg[s].used /\ UsedUpTo(seg, s) = k]]

\* Cell p is given the first segment that suits it, or one of its own.
Assign(st, p) ==
  LET c == st.bar[p]
      suiting == {s \in DOMAIN st.seg : Suits(st.seg[s], c)}
      found == IF suiting = {} THEN Len(st.seg) + 1 ELSE Min(suiting)
  IN IF c.dir = 0 THEN st
     ELSE [seg |-> IF suiting = {} THEN Append(st.seg, NewSegment(c)) ELSE st.seg,
           bar |-> [st.bar EXCEPT ![p] = [c EXCEPT !.segment = found]]]

\* After the first n cells, in the order of the array.
Assigned(seg, bar, rows, cols) ==
  LET st[n \in 0 .. rows * cols] ==
        IF n = 0 THEN [seg |-> KeepUsed(seg), bar |-> bar]
        ELSE Assign(st[n - 1], <<(n - 1) \div cols, (n - 1) % cols>>)
  IN st

create_segments(seg, bar, rows, cols) == Assigned(seg, bar, rows, cols)[rows * cols]

-----------------------------------------------------------------------------
(* drv_generic_text_bar_pack_segments *)

Bug_Replaceable(s, t) == s.dirs \intersect t.dirs # {} /\ s.style = t.style

\* Whether segment s may be replaced by t.
Replaceable(s, t) ==
  LET res == Resolution(s.dirs)
      i1 == Length1(s, res)
      i2 == Length2(s, res)
      j1 == Length1(t, res)
      j2 == Length2(t, res)
  IN /\ s.dirs \intersect t.dirs # {} /\ s.style = t.style
     \* do not replace empty with non-empty, nor full with non-full
     /\ (i1 = 0 => j1 = 0) /\ (i2 = 0 => j2 = 0)
     /\ (i1 = res => j1 = res) /\ (i2 = res => j2 = res)
     \* do not replace the start line
     /\ (Room > 0 => ~ (i1 = 1 /\ j1 # 1 /\ i2 > 0) /\ ~ (i2 = 1 /\ j2 # 1 /\ j1 > 0))
     \* do not replace equal length with non-equal length
     /\ (i1 = i2 => j1 = j2)

segment_error(s, t) ==
  LET res == Resolution(s.dirs)
      d1 == Length1(s, res) - Length1(t, res)
      d2 == Length2(s, res) - Length2(t, res)
  IN IF Replaceable(s, t) THEN d1 * d1 + d2 * d2 ELSE Limit

\* The table "error": off the diagonal it holds the errors of the present segments,
\* the diagonal has entries of its own.  Entry n of the array Segment is not cleared
\* when it leaves the first nSegment.
Error(st, i, j) == IF i = j THEN st.diagonal[i]
                   ELSE segment_error(st.seg[i], st.seg[j])

Pairs(st) ==
  LET rows == {i \in fSegment + 1 .. st.nSegment : st.pass1 => ~ st.seg[i].used}
  IN {p \in rows \X (1 .. st.nSegment) : Error(st, p[1], p[2]) < Limit}

\* The scan keeps the first of the pairs with the least error.
Best(st, pairs) ==
  LET Before(p, q) == p[1] < q[1] \/ (p[1] = q[1] /\ p[2] < q[2])
      least == Min({Error(st, p[1], p[2]) : p \in pairs})
  IN CHOOSE p \in pairs : /\ Error(st, p[1], p[2]) = least
                          /\ \A q \in pairs \ {p} :
                               Before(q, p) => Error(st, q[1], q[2]) # least

\* Segment i is replaced by j and the last segment takes its place.  The row and the
\* column of i become those of the last one, which leaves on the diagonal the error
\* between the two.
Merge(st, i, j) ==
  LET last == st.nSegment
      Moved(k) == IF k = i THEN j ELSE k
  IN [seg |-> [st.seg EXCEPT ![i] = st.seg[last]],
      nSegment |-> last - 1,
      cells |-> [k \in DOMAIN st.cells |->
                   IF Moved(st.cells[k]) = last THEN i ELSE Moved(st.cells[k])],
      diagonal |-> [st.diagonal EXCEPT ![i] = IF i = last THEN @ ELSE Error(st, i, last)],
      pass1 |-> st.pass1,
      failed |-> st.failed,
      selfMerged |-> st.selfMerged \/ i = j]

\* "unable to compact bar characters"
GiveUp(st) == [st EXCEPT !.nSegment = Room, !.failed = TRUE]

Compact(st) ==
  LET pairs == Pairs(st)
  IN CASE st.failed \/ st.nSegment <= fSegment + Room -> st
       [] OTHER -> IF pairs # {} THEN LET p == Best(st, pairs) IN Merge(st, p[1], p[2])
                   ELSE IF st.pass1 THEN [st EXCEPT !.pass1 = FALSE]
                   ELSE GiveUp(st)

\* st.cells maps the segments that create_segments chose for the cells to those left.
Unpacked(seg) ==
  [seg |-> seg, nSegment |-> Len(seg), cells |-> [i \in DOMAIN seg |-> i],
   diagonal |-> [i \in DOMAIN seg |-> Limit], pass1 |-> TRUE,
   failed |-> FALSE, selfMerged |-> FALSE]

\* Each turn of the loop drops a segment, ends the first pass or gives up.
Turns(seg) == Len(seg) + 2

Packed(seg) ==
  LET st[turn \in 0 .. Turns(seg)] ==
        IF turn = 0 THEN Unpacked(seg) ELSE Compact(st[turn - 1])
  IN st

pack_segments(seg) == Packed(seg)[Turns(seg)]

-----------------------------------------------------------------------------
(* drv_generic_text_bar_define_chars *)

\* What the bitmap of a segment shows.  The one of a west bar is never filled in.
Garbage == <<"garbage", 0, 0, 0>>

Bitmap(s) ==
  CASE s.dirs = {EAST} -> <<"bar", s.val1, s.val2, s.style>>
    [] s.dirs = {NORTH} -> <<"up", s.val1>>
    [] s.dirs = {SOUTH} -> <<"down", s.val1>>
    [] OTHER -> Garbage

Bug_TakeChar(seg, n, i) ==
  LET free == (0 .. Room - 1) \ {seg[j].ascii : j \in fSegment + 1 .. i - 1}
  IN IF seg[i].used \/ seg[i].ascii # -1 THEN seg
     ELSE [seg EXCEPT ![i].ascii = IF free = {} THEN Room ELSE Min(free)]

\* A new segment takes the first character that no present segment has.
TakeChar(seg, n, i) ==
  LET taken == {seg[j].ascii : j \in fSegment + 1 .. n}
      free == (0 .. Room - 1) \ taken
  IN IF seg[i].used \/ seg[i].ascii # -1 THEN seg
     ELSE [seg EXCEPT ![i].ascii = IF free = {} THEN Room ELSE Min(free)]

\* After segment i.
Taken(seg, n) ==
  LET sg[i \in 0 .. n] == IF i <= fSegment THEN seg ELSE TakeChar(sg[i - 1], n, i)
  IN sg

define_chars(seg, n) == Taken(seg, n)[n]

=============================================================================
