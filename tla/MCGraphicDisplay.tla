--------------------------- MODULE MCGraphicDisplay ---------------------------
(***************************************************************************)
(* A screen of 8 x 10 pixels in two halves with bytes of two pixels, two   *)
(* layers, and a widget of each kind; they overlap and some leave the      *)
(* screen.                                                                 *)
(***************************************************************************)
EXTENDS GraphicDisplay

MCExtent == (0 .. 10) \X (0 .. 14)

Gray(l, a) == [l |-> l, a |-> a]
BlackInk == Gray(0, 255)
Glass == Gray(255, 0)
HalfWhite == Gray(255, 128)

\* Characters of 3 x 3 pixels.
MCFont == [c \in {"a", "b"} \X BOOLEAN |->
             CASE c = <<"a", FALSE>> -> {<<0, 0>>} [] c = <<"a", TRUE>> -> {<<0, 0>>, <<0, 2>>}
               [] c = <<"b", FALSE>> -> {<<2, 1>>} [] OTHER -> {<<1, 0>>, <<2, 1>>}]

\* One bitmap, and what lies behind it.
MCBitmaps == [n \in {"i"} |-> <<{<<0, 0>>, <<1, 1>>}, {<<2, 0>>}>>]

Square == [p \in {0, 1} \X {0, 1} |-> IF p = <<0, 0>> THEN HalfWhite ELSE BlackInk]
Dot == [p \in {<<0, 0>>} |-> BlackInk]
NoFile == <<>>

Text == [class |-> "text", name |-> "t", layer |-> 0, row |-> 0, col |-> 1,
         fg |-> Default, bg |-> Default]
Lamp == [class |-> "icon", name |-> "i", child |-> FALSE, layer |-> 1, row |-> 1, col |-> 2,
         fg |-> Default, bg |-> Default]
Gauge == [class |-> "bar", name |-> "g", layer |-> 1, row |-> 0, col |-> 1,
          fg |-> BlackInk, bg |-> Default,
          color |-> [h \in 1 .. 2 |-> IF h = 1 THEN Gray(100, 255) ELSE Default],
          dir |-> "N", len |-> 2, hollow |-> TRUE]
Picture == [class |-> "image", name |-> "p", child |-> FALSE, layer |-> 0, row |-> 1, col |-> 7]
Title == [class |-> "Truetype", name |-> "f", child |-> FALSE, layer |-> 0, row |-> 4, col |-> 2]

MCLayout == <<Lamp, Picture, Title, Text, Gauge>>

MCTexts(w) == {[txt |-> <<"a", BEL, "b", "a", "b">>, bold |-> FALSE]}
MCValues(w) == {<<1, None, None, None>>, <<2, 0, None, None>>}

\* What is reloaded is inverted, too.
Setting(file, scale, width, height, reload, visible, center) ==
  [file |-> file, scale |-> scale, width |-> width, height |-> height, reload |-> reload,
   visible |-> visible, inverted |-> reload, center |-> center]

MCSettings(w) ==
  IF w.class = "image"
  THEN {Setting(Square, 100, 3, 3, FALSE, TRUE, FALSE), Setting(Dot, 100, 0, 0, TRUE, TRUE, FALSE),
        Setting(NoFile, 100, 0, 0, TRUE, TRUE, FALSE)}
  ELSE {Setting(Square, 100, 0, 0, TRUE, TRUE, TRUE)}

MCFg == BlackInk
MCBg == Glass
MCBl == Gray(255, 0)
MCHello == <<"a", "a">>
MCGoodbye == <<"b">>
MCJunk == {<<{0}, {1}>>}
MCFrames == {<<TRUE, 1>>, <<FALSE, -1>>}
=============================================================================
