----------------------------- MODULE TextWidget -----------------------------
(***************************************************************************)
(* widget_text.c on property.c: a text widget evaluates its properties     *)
(* when its timer or its event says so, draws what has changed, and        *)
(* scrolls a text that does not fit on a timer of its own.                 *)
(*                                                                         *)
(* What the user means by the configuration is layout: for each property   *)
(* the tokens of its expression and, if they are known, the trees they     *)
(* were written from, and the rest of the widget.  It is written down, as  *)
(* arguments and lines of the file, in one of several ways.                *)
(***************************************************************************)
EXTENDS Meaning, Layout

CONSTANTS
  Layouts,     \* what users mean
  Starts(_),   \* for each layout the ways to write it down: [args, lines]
  Findings,    \* results of functions that look outside of the program
  MaxUpdates,  \* bounds: updates of the widget,
  MaxChanges   \*   changes outside, or of variables by other expressions

ASSUME TextWidgetAssumption == MaxUpdates \in Nat /\ MaxChanges \in Nat

VARIABLES
  layout,    \* [prefix, expression, postfix, style, known, width, precision, align,
             \*   place: of the widget, vars: the section Variables]
  props,     \* for each property its tree and its result
  memory,    \* the variables, what is found outside, and whether NULL was dereferenced
  text,      \* [string, scroll, direction, delay, buffer, width, precision, align, place];
             \*   the string is NULL before the first update
  updates,
  changes

vars == <<layout, program, props, memory, text, updates, changes>>

\* The program has started, and this is one of its text widgets.
Running == program.at = "main loop"

PINGPONGWAIT == 2

-----------------------------------------------------------------------------
(* Properties of a widget *)

\* Mutant of Same: numbers are compared although one of them is none.
Bug_TypesIgnored(old, new) == old.number = new.number \/ old.string = new.string

\* What property_eval takes for unchanged.  A text whose buffer has grown in between
\* counts as changed there; here it does not, which shows the same text again.
Same(old, new) ==
  \/ "number" \in old.type \intersect new.type /\ old.number = new.number
  \/ "string" \in old.type \intersect new.type /\ old.string = new.string

\* w: the properties, the memory and how many have changed.
property_eval(w, p) ==
  LET e == Eval(w.props[p].tree, w.m)
  IN [w EXCEPT !.props[p] = [tree |-> e.n, result |-> e.n.result], !.m = e.m,
               !.update = @ \/ ~Same(w.props[p].result, e.n.result)]

\* P2S of properties that are passed on to strlen, strdup or the display.
P2S(w, ps) ==
  LET read == [w EXCEPT !.props = [p \in DOMAIN @ |-> IF p \in ps THEN [@[p] EXCEPT !.result = R2S(@)]
                                                      ELSE @[p]]]
  IN IF \E p \in ps : read.props[p].result = Unset THEN Undefined(read) ELSE read

P2N(w, p) == [w EXCEPT !.props[p].result = R2N(@)]

-----------------------------------------------------------------------------
(* Drawing *)

Repeat(n, c) == [k \in 1 .. (IF n > 0 THEN n ELSE 0) |-> c]

Least(i, j) == IF i < j THEN i ELSE j

AtLeast0(n) == IF n > 0 THEN n ELSE 0

Cut(s, n) == SubSeq(s, 1, Least(Len(s), n))

Length(w, p) == Len(w.props[p].result.string)

\* What prefix and postfix leave of the width.
Room(w) == AtLeast0(w.t.width - Length(w, "prefix") - Length(w, "postfix"))

\* "%.*f" of a whole number.
Fixed(n, precision) ==
  Printed(n) \o (IF precision > 0 THEN <<".">> \o Repeat(precision, "0") ELSE <<>>)

\* Digits behind the point are left out to make a number fit, and stars are drawn
\* instead of one that does not.
Formatted(n, precision, room) ==
  LET excess == Len(Fixed(n, precision)) - room
      fitting == Fixed(n, precision - Least(AtLeast0(excess), precision))
  IN IF Len(fitting) > room THEN Repeat(room, "*") ELSE fitting

\* Where an alignment puts a text that fits.
Aligned(align, len, room) ==
  CASE align \in {"left", "automatic", "pingpong left"} -> 0
    [] align \in {"center", "pingpong center"} -> AtLeast0((room - len) \div 2)
    [] align \in {"right", "pingpong right"} -> AtLeast0(room - len)

\* One step of the marquee.
Marquee(t, room) ==
  [pad |-> room - t.scroll,
   t |-> [t EXCEPT !.scroll = IF @ + 1 >= room + Len(t.string) THEN 0 ELSE @ + 1]]

\* Mutant of BackAndForth: the scroller turns at once, but not at the right end.
Bug_NeverBack(t, room) ==
  LET s == IF t.direction = 1 THEN t.scroll + 1 ELSE t.scroll - 1
      last == Len(t.string) - room
  IN [pad |-> IF s > last THEN -last ELSE IF s < 0 THEN 0 ELSE -s,
      t |-> [t EXCEPT !.scroll = IF s > last THEN last ELSE IF s < 0 THEN 0 ELSE s, !.direction = 1]]

\* One step to and fro: behind an end the scroller waits, then it turns.
BackAndForth(t, room) ==
  LET s == IF t.direction = 1 THEN t.scroll + 1 ELSE t.scroll - 1
      last == Len(t.string) - room
      wait == [t EXCEPT !.scroll = s, !.delay = @ - 1]
  IN IF s > last
     THEN [pad |-> -last,
           t |-> IF t.delay >= 1 THEN wait
                 ELSE [t EXCEPT !.scroll = s - PINGPONGWAIT, !.direction = 0, !.delay = PINGPONGWAIT]]
     ELSE IF s < 0
     THEN [pad |-> 0,
           t |-> IF t.delay >= 1 THEN wait
                 ELSE [t EXCEPT !.scroll = s + PINGPONGWAIT, !.direction = 1, !.delay = PINGPONGWAIT]]
     ELSE [pad |-> -s, t |-> [t EXCEPT !.scroll = s]]

\* How far the text is moved to the right, and the scroller behind the step.
Moved(t, room) ==
  LET align == t.align
      len == Len(t.string)
  IN IF align = "marquee" \/ (align = "automatic" /\ len > room) THEN Marquee(t, room)
     ELSE IF align \in Pingpong /\ len > room THEN BackAndForth(t, room)
     ELSE [pad |-> Aligned(align, len, room), t |-> t]

Row(W, prefix, pad, string, postfix) ==
  LET head == Cut(prefix, W)
      moved == IF pad >= 0 THEN Repeat(pad, " ") \o string ELSE SubSeq(string, 1 - pad, Len(string))
      filled == Cut(head \o moved, W)
      blanks == Repeat(W - Len(postfix) - Len(filled), " ")
  IN Cut(filled \o blanks \o postfix, W)

\* The body of widget_text_scroll; what it makes of w is the one member of a set.
Scrolled(w) ==
  LET Text(read, p) == read.props[p].result.string
      Drawn(read, m) == [m.t EXCEPT !.buffer = Row(w.t.width, Text(read, "prefix"), m.pad,
                                                   m.t.string, Text(read, "postfix"))]
  IN UNION {{[read EXCEPT !.t = Drawn(read, m)] : m \in {Moved(w.t, Room(read))}} :
              read \in {P2S(w, {"prefix", "postfix"})}}

Widget == [props |-> props, m |-> memory, t |-> text, update |-> FALSE]

\* Nothing more is said of a program that has dereferenced NULL.
Becomes(ws) ==
  /\ ~memory.undefined
  /\ \E w \in ws : props' = w.props /\ memory' = w.m /\ text' = w.t

widget_text_scroll ==
  /\ updates > 0 /\ text.align \in Scrolling
  /\ Becomes(Scrolled(Widget))
  /\ UNCHANGED <<layout, program, updates, changes>>

\* The text of the value, or its number in what prefix and postfix leave.
Content(w) ==
  IF w.t.precision = Unlimited
  THEN LET v == P2S(w, {"expression"}) IN [w |-> v, string |-> v.props["expression"].result.string]
  ELSE LET v == P2S(P2N(w, "expression"), {"prefix", "postfix"})
       IN [w |-> v, string |-> Formatted(v.props["expression"].result.number, w.t.precision, Room(v))]

\* The new text in c, a result of Content, is drawn from its beginning.
Redrawn(c) ==
  LET update == c.w.update \/ updates = 0 \/ c.string # text.string
      fresh == [text EXCEPT !.string = c.string, !.scroll = 0,
                            !.direction = IF text.align \in Pingpong THEN 0 ELSE @,
                            !.delay = IF text.align \in Pingpong THEN PINGPONGWAIT ELSE @]
  IN IF update /\ ~c.w.m.undefined THEN Scrolled([c.w EXCEPT !.t = fresh]) ELSE {c.w}

\* The value is compared as the text it makes.
EvalValue(w) == [property_eval(w, "expression") EXCEPT !.update = w.update]

\* A change of the style alone draws the same text again.
widget_text_update ==
  /\ Running /\ updates < MaxUpdates /\ updates' = updates + 1
  /\ \E around \in {FoldLeft(property_eval, Widget, <<"prefix", "postfix", "style">>)} :
       \E value \in {EvalValue(around)} :
         \E c \in {Content(value)} : Becomes(Redrawn(c))
  /\ UNCHANGED <<layout, program, changes>>

-----------------------------------------------------------------------------
Change == Running /\ changes < MaxChanges /\ changes' = changes + 1 /\ ~memory.undefined

\* What a function finds has changed.
OutsideChanges(r) ==
  /\ Change /\ r # memory.outside
  /\ memory' = [memory EXCEPT !.outside = r]
  /\ UNCHANGED <<layout, program, props, text, updates>>

\* Another expression assigns a variable.
OtherAssigns(x, r) ==
  /\ Change
  /\ memory' = [memory EXCEPT !.vars[x] = r]
  /\ UNCHANGED <<layout, program, props, text, updates>>

Init ==
  /\ layout \in Layouts
  /\ \E start \in Starts(layout), r \in Findings : program = Program(start.args, start.lines, r)
  /\ memory = program.m
  /\ props = <<>> /\ text = <<>>
  /\ updates = 0 /\ changes = 0

\* The layout is done.
MainLoop ==
  /\ Does("layout_entry") /\ program.keys = <<>>
  /\ \E w \in Range(program.widgets) :
       /\ w.class = TEXT
       /\ props' = w.data.props
       /\ text' = [string |-> <<>>, scroll |-> 0, direction |-> 0, delay |-> 0, buffer |-> <<>>,
                   width |-> w.data.width, precision |-> w.data.precision,
                   align |-> w.data.align, place |-> w.place]
  /\ memory' = program.m /\ program' = [at |-> "main loop"]
  /\ UNCHANGED <<layout, updates, changes>>

Next ==
  \/ Starting /\ UNCHANGED <<layout, props, memory, text, updates, changes>>
  \/ MainLoop
  \/ widget_text_update \/ widget_text_scroll
  \/ \E r \in Findings : OutsideChanges(r)
  \/ \E x \in DOMAIN memory.vars, r \in Findings : OtherAssigns(x, r)

Spec == Init /\ [][Next]_vars

\* The timer of the scroller fires.
FairSpec == Spec /\ WF_vars(widget_text_scroll)

-----------------------------------------------------------------------------
(* Properties *)

Results == [type : SUBSET Types, number : Int, string : Seq({Characters[k] : k \in DOMAIN Characters})]

Operands(op) == CASE op = "CND" -> 3 [] op \in {"LST", "SET", "SGN", "NOT"} -> 1 [] OTHER -> 2

RECURSIVE Whole(_)
Whole(t) ==
  /\ t.result \in Results
  /\ t.token = "OPERATOR" => Len(t.kids) >= Operands(t.op)
  /\ t.token = "FUNCTION" => Len(t.kids) >= Functions[t.name]
  /\ t.token \in {"NUMBER", "STRING"} => t.result.type # {}
  /\ t.token \in {"NUMBER", "STRING", "OPERATOR", "FUNCTION", "VARIABLE"}
  /\ \A k \in DOMAIN t.kids : Whole(t.kids[k])

\* What the widget puts around its text, and the cells between.
Prefix == AsText(props["prefix"].result)
Postfix == AsText(props["postfix"].result)
Between == AtLeast0(layout.width - Len(Prefix) - Len(Postfix))

\* Whatever was written in the configuration, a tree has the operands EvalTree reads;
\* whatever is evaluated, results have their types, and the scroller never moves the
\* text further than it is long: the string is not read behind its end.
TypeOK ==
  /\ \A p \in DOMAIN props :
       (props[p].tree = NoTree \/ Whole(props[p].tree)) /\ props[p].result \in Results
  /\ \A x \in DOMAIN memory.vars : memory.vars[x] \in Results
  /\ Cardinality(DOMAIN memory.vars) <= MaxVariables
  /\ Running =>
       LET room == Between
           len == Len(text.string)
       IN /\ text.direction \in {0, 1} /\ text.delay \in 0 .. PINGPONGWAIT
          /\ \/ text.scroll = 0
             \/ text.align \in {"automatic", "marquee"} /\ text.scroll \in 0 .. room + len - 1
             \/ text.align \in Pingpong /\ text.scroll \in -PINGPONGWAIT .. len - room + PINGPONGWAIT

\* r is v, perhaps with what R2N or R2S has added.
Agrees(r, v) ==
  /\ v.type \subseteq r.type
  /\ "number" \in r.type => r.number = AsNumber(v)
  /\ "string" \in r.type => r.string = AsText(v)

\* The values of the properties one after the other, and the variables behind them.
Means(r, p) ==
  LET e == Meaning(layout[p].tree, r.env)
  IN IF layout[p].tree = NoTree THEN [r EXCEPT !.value = @ @@ (p :> String(<<>>))]
     ELSE [env |-> e.env, value |-> r.value @@ (p :> e.value)]

MeaningOfAll ==
  FoldLeft(Means, [env |-> [vars |-> memory.vars, outside |-> memory.outside], value |-> <<>>],
           <<"prefix", "postfix", "style", "expression">>)

\* After each update every property has the value that its expression means, with the
\* variables and what was found outside as they were, and so have the variables: no
\* result of an earlier evaluation is left in a tree.  NULL is only dereferenced when
\* a function returned nothing, or there was no slot for a variable.
MeansWhatItSays ==
  [][updates' # updates =>
       IF memory'.undefined
       THEN \/ Unset \in {memory.outside} \union {memory.vars[x] : x \in DOMAIN memory.vars}
            \/ Cardinality(DOMAIN memory.vars) = MaxVariables
       ELSE layout.known =>
              /\ \A p \in DOMAIN props : Agrees(props'[p].result, MeaningOfAll.value[p])
              /\ \A x \in DOMAIN memory.vars : Agrees(memory'.vars[x], MeaningOfAll.env.vars[x])]_vars

\* The buffer with the text pad cells behind the prefix: a text that is too long runs
\* into the postfix.
Shows(pad) ==
  LET first == Len(Prefix) + pad
      last == first + Len(text.string)
      start == IF last > layout.width - Len(Postfix) THEN last ELSE layout.width - Len(Postfix)
  IN /\ Len(text.buffer) = layout.width
     /\ \A i \in 1 .. layout.width :
          text.buffer[i] = IF i <= Len(Prefix) THEN Prefix[i]
                           ELSE IF i \in first + 1 .. last THEN text.string[i - first]
                           ELSE IF i > start THEN Postfix[i - start] ELSE " "

\* The widget is what and where the user means, and the variables begin as he has set them.
IsConfigured ==
  /\ \A f \in {"place", "width", "precision", "align"} : text[f] = layout[f]
  /\ updates = 0 /\ changes = 0 /\ ~memory.undefined =>
       \A x \in DOMAIN layout.vars : x \in DOMAIN memory.vars /\ Agrees(memory.vars[x], layout.vars[x])

\* The display has the present value between prefix and postfix, aligned or moved: an
\* update that finds nothing changed has left nothing old behind.  The widget is the one
\* that the user means, in whichever way he has written it down: what was given as an
\* argument is not overwritten by the file, an entry is by a later one, and sections,
\* cases, defaults and limits do not mix up.
ShowsValue ==
  /\ program.at # "exit"
  /\ Running => IsConfigured
  /\ updates > 0 /\ ~memory.undefined =>
    LET room == Between
        len == Len(text.string)
    IN /\ text.string = IF layout.precision = Unlimited THEN AsText(props["expression"].result)
                        ELSE Formatted(AsNumber(props["expression"].result), layout.precision, room)
       /\ IF layout.align \in Scrolling /\ (len > room \/ layout.align = "marquee")
          THEN \E pad \in -len .. room : Shows(pad)
          ELSE Shows(Aligned(layout.align, len, room))

\* A text that is too long is shown from its beginning and up to its end, again and
\* again, when it does not change.
TooLong ==
  /\ updates > 0 /\ layout.align \in Scrolling /\ ~memory.undefined
  /\ Len(text.string) > Between

EndsAreShown ==
  /\ []<>(TooLong => Shows(0))
  /\ []<>(TooLong => Shows(Between - Len(text.string)))
=============================================================================
