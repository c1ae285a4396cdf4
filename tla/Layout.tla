------------------------------- MODULE Layout -------------------------------
(***************************************************************************)
(* The program starts, on cfg.c, plugin_cfg.c, layout.c and widget.c: it   *)
(* reads its configuration, sets the variables, and makes the entries of   *)
(* the layout widgets, in the order of their keys.  A text widget reads    *)
(* its section (widget_text_init, property.c); the other classes are not   *)
(* taken apart here.                                                       *)
(***************************************************************************)
EXTENDS Cfg

CONSTANTS
  Section(_, _),  \* the word for a section of a kind ("Layout", "Widget") and a name
  Places,         \* what sscanf finds in a word: "layer", "row", "gpo", ... and its number
  Classes,        \* the type ("RC", "XY", "GPO", ...) of each class, by its name in small letters
  MAX_WIDGETS,
  LAYERS

ASSUME LayoutAssumption == MAX_WIDGETS \in Nat \ {0} /\ LAYERS \in Nat \ {0}

VARIABLE
  program  \* [at: what it does next, args, lines, table, names, m, section and keys: what
           \*   layout_init has to go through, adding: the widget that is added, widgets]

\* With arguments and the lines of a file, and what functions find outside.
Program(args, lines, outside) ==
  [at |-> "cfg_init", args |-> args, lines |-> lines, table |-> <<>>, names |-> <<>>,
   m |-> [vars |-> <<>>, outside |-> outside, undefined |-> FALSE],
   section |-> <<>>, keys |-> <<>>, adding |-> <<>>, widgets |-> <<>>]

\* Nothing more is said of a program that has dereferenced NULL.
Does(at) == program.at = at /\ ~ program.m.undefined

-----------------------------------------------------------------------------
(* The configuration *)

cfg_init ==
  /\ Does("cfg_init")
  /\ \E read \in {Configured(program.args, program.lines)} :
       program' = [program EXCEPT !.at = IF read.ok THEN "plugin_init" ELSE "exit",
                                  !.args = <<>>, !.lines = <<>>, !.table = read.table]

plugin_init ==
  /\ Does("plugin_init")
  /\ program' = [load_variables(program) EXCEPT !.at = "layout_init"]

-----------------------------------------------------------------------------
(* Layouts *)

Kind(key, kinds) ==
  /\ Len(key) = Len(kinds)
  /\ \A k \in DOMAIN key : key[k] \in DOMAIN Places /\ Places[key[k]].kind = kinds[k]

\* Widgets without a layer are renamed to those of layer 1.
layout_migrate(table, section) ==
  FoldLeft(LAMBDA t, key : IF Kind(key, <<"row", "col">>)
                           THEN cfg_rename(t, section, key, <<"Layer:1">> \o key) ELSE t,
           table, cfg_list(table, section))

\* The display and its driver, which are there before, are those of other modules.
\* Without a layout the program ends.
layout_init ==
  /\ Does("layout_init")
  /\ \E layout \in {cfg_get(program, <<"Layout">>, <<>>)} :
       LET section == <<Section("Layout", layout.text)>>
           migrated == layout_migrate(layout.s.table, section)
       IN program' = IF layout.text = <<>> THEN [layout.s EXCEPT !.at = "exit"]
                     ELSE [layout.s EXCEPT !.at = "layout_entry", !.table = migrated, !.section = section,
                                           !.keys = cfg_list(migrated, section)]

\* The types of widgets, and the keys that place them.
Placed == [XY |-> <<"layer", "x", "y">>, RC |-> <<"layer", "row", "col">>,
           GPO |-> <<"gpo">>, TIMER |-> <<"timer">>, KEYPAD |-> <<"keypad">>]

Place(key) ==
  LET n(k) == Places[key[k]].n
  IN IF Len(key) = 3 THEN <<n(1), n(2) - 1, n(3) - 1>> ELSE <<0, n(1) - 1, 0>>

\* Mutant of TypesAt: the number of a layer is not checked.
Bug_AnyLayer(key) == {t \in DOMAIN Placed : Kind(key, Placed[t])}

\* The type of the widget that a key places, if any.
TypesAt(key) == {t \in DOMAIN Placed : Kind(key, Placed[t]) /\ Place(key)[1] \in 0 .. LAYERS - 1}

\* The body of the loops in layout_init, and of config_layer.
layout_entry ==
  /\ Does("layout_entry") /\ program.keys # <<>>
  /\ LET key == Head(program.keys)
         rest == [program EXCEPT !.keys = Tail(@)]
         Named(name, type) == [name.s EXCEPT !.at = IF name.text = <<>> THEN @ ELSE "widget_add",
                                             !.adding = [name |-> name.text, type |-> type, place |-> Place(key)]]
     IN IF TypesAt(key) = {} THEN program' = rest
        ELSE \E name \in {cfg_get(rest, program.section \o key, <<>>)}, type \in TypesAt(key) :
               program' = Named(name, type)

-----------------------------------------------------------------------------
(* Widgets *)

\* The first widget of the same name, 0 if there is none.
Parent(widgets, name) ==
  LET same == {i \in DOMAIN widgets : widgets[i].name = name}
  IN IF same = {} THEN 0 ELSE Min(same)

\* The name of the class of text widgets.
TEXT == <<"t", "e", "x", "t">>

\* Entries of the widget's section, one after the other; r.text is what the last one says.
Attribute(r, key) ==
  cfg_get(r.s, <<Section("Widget", r.s.adding.name), key>>, <<>>)

\* The widget whose class is read, if there is such a class for its place.
Registered(s, class) ==
  LET w == s.adding
      widget == [name |-> w.name, class |-> class, place |-> w.place, parent |-> Parent(s.widgets, w.name)]
  IN IF class \in DOMAIN Classes /\ Classes[class] = w.type /\ Len(s.widgets) < MAX_WIDGETS
     THEN [s EXCEPT !.at = IF class = TEXT THEN "widget_text_init" ELSE "layout_entry",
                    !.widgets = Append(@, widget)]
     ELSE [s EXCEPT !.at = "layout_entry"]

\* The colours of a widget are evaluated, and nothing more is made of them here.
widget_add ==
  /\ Does("widget_add")
  /\ \E class \in {Attribute([s |-> program], "class")} :
       IF class.text = <<>> THEN program' = [class.s EXCEPT !.at = "layout_entry"]
       ELSE \E coloured \in {FoldLeft(Attribute, class, <<"foreground", "background">>).s} :
              program' = Registered(coloured, class.text)

-----------------------------------------------------------------------------
(* Text widgets *)

\* In the order in which widget_text_init loads them.
Properties == <<"prefix", "expression", "postfix", "style">>

Unlimited == -1   \* a precision of 0xDEAD

Pingpong == {"pingpong left", "pingpong center", "pingpong right"}

Scrolling == {"automatic", "marquee"} \union Pingpong

Alignment(text) ==
  LET c(k) == IF k \in DOMAIN text THEN text[k] ELSE ""
  IN CASE c(1) \in {"C", "c"} -> "center"
       [] c(1) \in {"R", "r"} -> "right"
       [] c(1) \in {"M", "m"} -> "marquee"
       [] c(1) \in {"A", "a"} -> "automatic"
       [] c(1) \in {"P", "p"} -> IF c(2) \in {"L", "l"} THEN "pingpong left"
                                 ELSE IF c(2) \in {"R", "r"} THEN "pingpong right"
                                 ELSE "pingpong center"
       [] OTHER -> "left"

\* d: the widget's data and the state behind what was read so far.
property_load(section, d, p) ==
  LET Loaded(c) ==
        [d EXCEPT !.props = (p :> [tree |-> c.tree, result |-> Unset]) @@ @, !.s = c.s]
  IN Loaded(Compiled(d.s, cfg_get_raw(d.s, section \o <<p>>, <<>>)))

\* What cfg_number is asked for: default, minimum and maximum.
Numbers == [width |-> <<10, 0, -1>>, precision |-> <<Unlimited, 0, 80>>,
            update |-> <<1000, 0, -1>>, speed |-> <<500, 10, -1>>]

setting(section, d, p) ==
  LET n == Numbers[p]
      Numeric(e) == (p :> e.value) @@ [d EXCEPT !.s = e.s]
      Text(e) == (p :> e.text) @@ [d EXCEPT !.s = e.s]
  IN IF p = "speed" /\ Alignment(d.align) \notin Scrolling THEN d
     ELSE IF p \in DOMAIN Numbers THEN Numeric(cfg_number(d.s, section \o <<p>>, n[1], n[2], n[3]))
     ELSE Text(cfg_get(d.s, section \o <<p>>, <<>>))

Settings(section, s) ==
  FoldLeft(LAMBDA d, p : setting(section, d, p),
           FoldLeft(LAMBDA d, p : property_load(section, d, p), [props |-> <<>>, s |-> s], Properties),
           <<"width", "precision", "align", "update", "speed", "event">>)

\* The timers that update and speed set, and the event, are those of other modules.
widget_text_init ==
  /\ Does("widget_text_init")
  /\ \E d \in {Settings(<<Section("Widget", program.adding.name)>>, program)} :
       LET data == [props |-> d.props, width |-> d.width, precision |-> d.precision,
                    align |-> Alignment(d.align)]
       IN program' = [d.s EXCEPT !.at = "layout_entry",
                                 !.widgets = Append(Front(@), Last(@) @@ ("data" :> data))]

-----------------------------------------------------------------------------
Starting == cfg_init \/ plugin_init \/ layout_init \/ layout_entry \/ widget_add \/ widget_text_init

=============================================================================
