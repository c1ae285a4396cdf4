---------------------------- MODULE MCTextWidget ----------------------------
(* Instances of TextWidget: expressions of two operators one in the other,         *)
(* short sequences of tokens that are mostly no expressions, and texts of all      *)
(* alignments between a prefix and a postfix.                                      *)
EXTENDS TextWidget

Arity == ("f" :> 0) @@ ("length" :> 1)

a == <<"a">>

Found == {Number(1), String(a), Unset}

x == Node("VARIABLE", "", "x", <<>>, Unset)
f == Node("FUNCTION", "", "f", <<>>, Unset)

\* Each operator with t as one of its operands and u as the others.
With(t, u) ==
  {OpNode(o, <<t, u>>) : o \in {"LST", "OR", "AND", "NEQ", "SLT", "SUB", "CAT", "DIV", "POW"}}
    \union {OpNode(o, <<u, t>>) : o \in {"LST", "OR", "AND", "NEQ", "SLT", "SUB", "CAT", "DIV", "POW"}}
    \union {OpNode("CND", <<t, u, x>>), OpNode("CND", <<u, t, x>>), OpNode("CND", <<u, x, t>>)}
    \union {OpNode(o, <<t>>) : o \in {"SGN", "NOT"}}
    \union {Node("OPERATOR", "SET", "x", <<t>>, Unset), Node("FUNCTION", "", "length", <<t>>, Unset)}

Nested ==
  UNION {With(t, Leaf(Number(2))) : t \in With(f, Leaf(String(a)))}

NoExpression == [toks |-> <<>>, tree |-> NoTree]

Expression(t) == [toks |-> Written(t), tree |-> t]

Present == "x" :> String(<<"1">>)

Corner == <<1, 0, 0>>

\* With a value and nothing around it.
Plain(value, known) ==
  [prefix |-> NoExpression, expression |-> value, postfix |-> NoExpression, style |-> NoExpression,
   known |-> known, width |-> 3, precision |-> Unlimited, align |-> "left",
   place |-> Corner, vars |-> Present]

Tokens ==
  {Literal(String(<<>>)), Name("y"), Name("f"), END}
    \union {Op(o) : o \in {"BRO", "BRC", "COM", "SUB", "CND", "SET"}}

Sequences(n) == [1 .. n -> Tokens]

Sentences == {Plain([toks |-> s, tree |-> NoTree], FALSE) : s \in UNION {Sequences(n) : n \in 0 .. 3}}
               \union {Plain([toks |-> <<Literal(Number(1)), Op("CND"), Name("x"), t>>, tree |-> NoTree], FALSE) : t \in Tokens}

Around == {NoExpression, Expression(Leaf(String(a))), Expression(x)}

Texts ==
  [prefix : Around, expression : {Expression(OpNode("CAT", <<f, Leaf(String(<<"b", "c">>))>>)), Expression(f)},
   postfix : Around, style : {Expression(f)}, known : {TRUE}, width : {3}, precision : {Unlimited, 1},
   align : {"left", "center", "right"} \union Scrolling, place : {Corner}, vars : {Present}]

\* A variable finds those that come before it in the alphabet, and no functions; numbers
\* are kept within their limits.
Value == Plain(Expression(x), TRUE)

Odd ==
  {[Value EXCEPT !.vars = @ @@ ("v" :> Number(1))], [Value EXCEPT !.vars = "x" :> String(<<>>)],
   [Value EXCEPT !.width = 0], [Value EXCEPT !.precision = 80]}

All == {Plain(Expression(t), TRUE) : t \in Nested} \union Sentences \union Texts \union Odd

-----------------------------------------------------------------------------
(* Configurations.  Section "Widget:a" is the widget, "Widget:c" another one, *)
(* "Layout:b" the layout, "Layout:c" one that is not used.                    *)

MCWords ==
  <<{"align", "Align"}, {"background"}, {"class", "Class"}, {"Col1", "col1"}, {"Col2"}, {"event"},
    {"expression", "Expression"}, {"foreground"}, {"GPO1"}, {"Layer:1"}, {"Layer:2"}, {"Layout", "layout"},
    {"Layout:b"}, {"Layout:c"}, {"postfix", "Postfix"}, {"precision", "Precision"}, {"prefix", "Prefix"},
    {"Row1", "row1"}, {"speed"}, {"style", "Style"}, {"update"}, {"v"}, {"Variables", "variables"},
    {"Widget:a"}, {"Widget:c"}, {"width", "Width"}, {"x"}>>

MCColons == {"Layer:1", "Layer:2", "Layout:b", "Layout:c", "Widget:a", "Widget:c"}

MCSection(kind, name) ==
  IF kind = "Widget" THEN IF name = <<"a">> THEN "Widget:a" ELSE "Widget:c"
  ELSE IF name = <<"b">> THEN "Layout:b" ELSE "Layout:c"

At(kind, n) == [kind |-> kind, n |-> n]

MCPlaces ==
  ("Layer:1" :> At("layer", 1)) @@ ("Layer:2" :> At("layer", 2)) @@ ("GPO1" :> At("gpo", 1))
    @@ [w \in {"Row1", "row1"} |-> At("row", 1)] @@ [w \in {"Col1", "col1"} |-> At("col", 1)]
    @@ ("Col2" :> At("col", 2))

MCClasses == (TEXT :> "RC") @@ (<<"b", "a", "r">> :> "RC")

Text(t) == <<Literal(String(t))>>

Numeral(n) == IF n < 0 THEN <<Op("SUB"), Literal(Number(-n))>> ELSE <<Literal(Number(n))>>

Letters ==
  ("left" :> <<"L">>) @@ ("center" :> <<"c">>) @@ ("right" :> <<"R">>) @@ ("automatic" :> <<"A">>)
    @@ ("marquee" :> <<"M">>) @@ ("pingpong left" :> <<"P", "L">>)
    @@ ("pingpong center" :> <<"p">>) @@ ("pingpong right" :> <<"P", "r">>)

\* A number beyond its limit is cut to it; a width may be an expression, too.
WidthOf(l) == IF l.width = 0 THEN Numeral(-1) ELSE <<Name("x"), Op("ADD"), Literal(Number(l.width - 1))>>
PrecisionOf(l) == IF l.precision = Unlimited THEN <<>> ELSE IF l.precision = 80 THEN Numeral(99)
                  ELSE Numeral(l.precision)

\* A section in a few lines, with all entries or with those that have a value.
In(section, entries) == <<Open(section)>> \o entries \o <<Close>>

Entries(l) ==
  <<Entry(<<"class">>, Text(TEXT)), Entry(<<"prefix">>, l.prefix.toks),
    Entry(<<"expression">>, l.expression.toks), Entry(<<"postfix">>, l.postfix.toks),
    Entry(<<"style">>, l.style.toks), Entry(<<"width">>, IF l.vars = Present THEN WidthOf(l) ELSE Numeral(l.width)),
    Entry(<<"precision">>, PrecisionOf(l)), Entry(<<"align">>, Text(Letters[l.align]))>>

HasValue(entry) == entry.val # <<>>

VariableLines(l) ==
  In(<<"Variables">>,
     IF "v" \in DOMAIN l.vars
     THEN <<Entry(<<"x">>, Text(<<"1">>)), Entry(<<"v">>, <<Name("x"), Op("ADD"), Literal(Number(1))>>)>>
     ELSE <<Entry(<<"x">>, IF l.vars = Present THEN Text(<<"1">>)
                           ELSE <<Name("f"), Op("BRO"), Op("BRC")>>)>>)

\* As one would write it.
Orderly(l) ==
  [args |-> <<>>,
   lines |-> <<Entry(<<"Layout">>, Text(<<"b">>))>> \o VariableLines(l)
     \o In(<<"Widget:a">>, SelectSeq(Entries(l), HasValue))
     \o In(<<"Layout:b">>, In(<<"Layer:1">>, <<Entry(<<"Row1", "Col1">>, Text(<<"a">>))>>))]

Capitals == [align |-> "Align", class |-> "Class", expression |-> "Expression", postfix |-> "Postfix",
             precision |-> "Precision", prefix |-> "Prefix", style |-> "Style", width |-> "Width"]

\* Arguments that the file contradicts; entries that are repeated later with other
\* letters, or in other sections; widgets that do not fit, and one of another name.
Careless(l) ==
  [args |-> <<[key |-> <<"layout">>, val |-> Text(<<"b">>)],
              [key |-> <<"variables", "x">>, val |-> Text(<<"1">>)]>>,
   lines |->
     In(<<"Widget:a">>, [k \in DOMAIN Entries(l) |-> [Entries(l)[k] EXCEPT !.val = Numeral(7)]])
     \o In(<<"Layout:c">>, <<Entry(<<"Row1", "Col2">>, Text(<<"a">>))>>)
     \o In(<<"Layout:b">>,
           <<Entry(<<"row1", "col1">>, Text(<<"a">>)), Entry(<<"Row1", "Col2">>, Text(<<"c">>)),
             Entry(<<"GPO1">>, Text(<<"a">>))>>
           \o In(<<"Layer:2">>, <<Entry(<<"Row1", "Col2">>, Text(<<"a">>))>>))
     \o In(<<"Widget:a">>, [k \in DOMAIN Entries(l) |-> [Entries(l)[k] EXCEPT !.key = <<Capitals[@[1]]>>]]
                          \o In(<<"v">>, <<Entry(<<"width">>, Numeral(9))>>))
     \o In(<<"Widget:c">>, <<Entry(<<"class">>, Text(<<"b", "a", "r">>)), Entry(<<"width">>, Numeral(9))>>)
     \o <<Entry(<<"Variables", "x">>, Text(<<"2">>)), Entry(<<"Layout">>, Text(<<"c">>))>>]

\* A place that was written with and without its layer is that of the first kind.
Twice(l) ==
  [Orderly(l) EXCEPT !.lines = @ \o In(<<"Layout:b">>, <<Entry(<<"Row1", "Col1">>, Text(<<"c">>))>>)
                                \o In(<<"Widget:c">>, <<Entry(<<"class">>, Text(TEXT))>>)]

\* The layouts that are written in one way only, and those in all three.
Start(l, way) == CASE way = 1 -> Orderly(l) [] way = 2 -> Careless(l) [] way = 3 -> Twice(l)

MCStarts(l) ==
  {Start(l, way) : way \in IF l.style # NoExpression \/ (l \in Odd /\ l.vars = Present) THEN 1 .. 3 ELSE {1}}

\* The program does not start with these.
ASSUME ErrorsAreFound ==
  \A lines \in {<<Garbage>>, <<Close>>, <<Open(<<"Variables">>)>>, <<Entry(<<"Layout:b">>, <<>>)>>,
                In(<<"Widget:a", "v">>, <<>>)} :
    ~ Configured(<<>>, lines).ok
=============================================================================
