------------------------------ MODULE Evaluator ------------------------------
(***************************************************************************)
(* evaluator.c: expressions are compiled to trees, which are evaluated     *)
(* again and again.  Each node keeps the result of its last evaluation,    *)
(* each result a number, a string or both: R2N and R2S add what is asked   *)
(* for and not there.  Variables are created when an expression that names *)
(* them is compiled.                                                       *)
(*                                                                         *)
(* A text is a sequence of characters.  Numbers are whole: the fraction of *)
(* a quotient is dropped.  Tokens are what Parse finds; a token END is an  *)
(* empty Word and no more, which is what Parse makes of garbage, too.      *)
(* The functions are sequences of steps over the state of the parser or    *)
(* over the tree and the memory, which they return.                        *)
(***************************************************************************)
EXTENDS Integers, Sequences, FiniteSets, SequencesExt

CONSTANTS
  MaxVariables,  \* slots of variables
  Functions      \* the number of arguments of each function

ASSUME EvaluatorAssumption ==
  MaxVariables \in Nat /\ \A f \in DOMAIN Functions : Functions[f] \in Nat

-----------------------------------------------------------------------------
(* Results *)

Digits == <<"0", "1", "2", "3", "4", "5", "6", "7", "8", "9">>

RECURSIVE Decimal(_)
Decimal(n) == IF n < 10 THEN <<Digits[n + 1]>> ELSE Append(Decimal(n \div 10), Digits[(n % 10) + 1])

\* "%g" of a whole number.
Printed(n) == IF n < 0 THEN <<"-">> \o Decimal(-n) ELSE Decimal(n)

RECURSIVE Scan(_, _)
Scan(s, n) ==
  IF s = <<>> \/ ~\E d \in 1 .. 10 : Digits[d] = Head(s) THEN n
  ELSE Scan(Tail(s), 10 * n + (CHOOSE d \in 1 .. 10 : Digits[d] = Head(s)) - 1)

\* What atof finds at the head of a text.
Atof(s) == IF s # <<>> /\ Head(s) = "-" THEN -Scan(Tail(s), 0) ELSE Scan(s, 0)

\* R_NUMBER and R_STRING.
Types == {"number", "string"}

Unset == [type |-> {}, number |-> 0, string |-> <<>>]

Number(n) == [type |-> {"number"}, number |-> n, string |-> <<>>]

String(s) == [type |-> {"string"}, number |-> 0, string |-> s]

\* Mutant of SetResult: the type is added to the types the result has had.
Bug_AddsType(old, new) == [new EXCEPT !.type = @ \union old.type]

SetResult(old, new) == new

R2N(r) ==
  IF r.type = {"string"} THEN [r EXCEPT !.type = Types, !.number = Atof(r.string)] ELSE r

\* Of a result of no type R2S makes NULL, which stays Unset here.
R2S(r) ==
  IF r.type = {"number"} THEN [r EXCEPT !.type = Types, !.string = Printed(r.number)] ELSE r

-----------------------------------------------------------------------------
(* Tokens and trees *)

Op(o) == [op |-> o]
Name(x) == [name |-> x]
Literal(r) == [literal |-> r]

END == [end |-> ""]

Node(token, op, name, kids, result) ==
  [token |-> token, op |-> op, name |-> name, kids |-> kids, result |-> result]

Leaf(r) == Node(IF r.type = {"number"} THEN "NUMBER" ELSE "STRING", "", "", <<>>, r)
OpNode(o, kids) == Node("OPERATOR", o, "", kids, Unset)

JunkNode == Leaf(String(<<>>))

LinkNode(n, kid) == [n EXCEPT !.kids = Append(@, kid)]

Binary ==
  <<{}, {}, {}, {"OR"}, {"AND"}, {"NEQ", "NNE", "SEQ", "SNE"},
    {"NGT", "NGE", "NLT", "NLE", "SGT", "SGE", "SLT", "SLE"},
    {"ADD", "SUB", "CAT"}, {"MUL", "DIV", "MOD"}, {"POW"}>>

-----------------------------------------------------------------------------
(* The parser.  Its state: the tokens from the one in Token on, and the names *)
(* of the variables, in the order in which they were created.                 *)

Token(s) == IF s.toks = <<>> THEN END ELSE Head(s.toks)

IsOp(s, ops) == "op" \in DOMAIN Token(s) /\ Token(s).op \in ops

\* The look-ahead at *ExprPtr.
Follows(s, o) == Len(s.toks) > 1 /\ s.toks[2] = Op(o)

Parse(s) == IF Token(s) = END THEN s ELSE [s EXCEPT !.toks = Tail(@)]

\* An empty Word: the end, garbage, or the string ''.
NoWord(s) == Token(s) \in {END, Literal(String(<<>>))}

\* FindVariable, and SetVariable when there is none.
Declared(s, x) ==
  IF Contains(s.vars, x) \/ Len(s.vars) = MaxVariables THEN s ELSE [s EXCEPT !.vars = Append(@, x)]

\* The slot of a variable by its name; NULL when there was no slot left.
NULL == ""
Slot(s, x) == IF Contains(s.vars, x) THEN x ELSE NULL

RECURSIVE Level(_, _), Rest(_, _, _), Arguments(_, _)

\* The loops of Level04 to Level10 and of Level01, behind their first operand n.
Rest(l, n, s) ==
  IF ~IsOp(s, IF l = 1 THEN {"LST"} ELSE Binary[l]) THEN [n |-> n, s |-> s]
  ELSE LET r == Level(l + 1, Parse(s)) IN Rest(l, OpNode(Token(s).op, <<n, r.n>>), r.s)

\* The arguments behind a brace or a comma, added to those in kids.
Arguments(kids, s) ==
  LET p == Parse(s)
      r == IF IsOp(p, {"COM"}) THEN [n |-> JunkNode, s |-> p] ELSE Level(1, p)
  IN IF IsOp(p, {"BRC"}) THEN [kids |-> kids, s |-> p]
     ELSE IF IsOp(r.s, {"COM"}) THEN Arguments(Append(kids, r.n), r.s)
     ELSE [kids |-> Append(kids, r.n), s |-> r.s]

FunctionNode(f, kids) ==
  IF f \notin DOMAIN Functions THEN [JunkNode EXCEPT !.kids = kids]
  ELSE Node("FUNCTION", "", f,
            kids \o SubSeq([k \in 1 .. Functions[f] |-> JunkNode], Len(kids) + 1, Functions[f]), Unset)

Level12(s) ==
  LET t == Token(s)
  IN IF IsOp(s, {"BRO"})
     THEN LET r == Level(1, Parse(s))
          IN [n |-> IF IsOp(r.s, {"BRC"}) THEN r.n ELSE LinkNode(r.n, JunkNode), s |-> Parse(r.s)]
     ELSE IF "literal" \in DOMAIN t THEN [n |-> Leaf(t.literal), s |-> Parse(s)]
     ELSE IF "name" \in DOMAIN t /\ Follows(s, "BRO")
     THEN LET r == Arguments(<<>>, Parse(s)) IN [n |-> FunctionNode(t.name, r.kids), s |-> Parse(r.s)]
     ELSE IF "name" \in DOMAIN t
     THEN LET d == Declared(s, t.name)
          IN [n |-> Node("VARIABLE", "", Slot(d, t.name), <<>>, Unset), s |-> Parse(d)]
     ELSE [n |-> JunkNode, s |-> Parse(s)]

\* A sign or a 'not'; a plus leaves no node.
Level11(s) ==
  IF ~IsOp(s, {"ADD", "SUB", "NOT"}) THEN Level12(s)
  ELSE LET r == Level12(Parse(s))
           sign == IF Token(s).op = "SUB" THEN "SGN" ELSE Token(s).op
       IN IF sign = "ADD" THEN r ELSE [r EXCEPT !.n = OpNode(sign, <<r.n>>)]

\* Mutant of Level03: a condition without a colon has no third operand.
Bug_NoJunk(s) ==
  LET c == Level(4, s)
      a == Level(4, Parse(c.s))
      b == Level(4, Parse(a.s))
  IN IF ~IsOp(c.s, {"CND"}) THEN c
     ELSE IF IsOp(a.s, {"COL"}) THEN [n |-> OpNode("CND", <<c.n, a.n, b.n>>), s |-> b.s]
     ELSE [n |-> OpNode("CND", <<c.n, a.n>>), s |-> a.s]

Level03(s) ==
  LET c == Level(4, s)
      a == Level(4, Parse(c.s))
      b == Level(4, Parse(a.s))
  IN IF ~IsOp(c.s, {"CND"}) THEN c
     ELSE IF IsOp(a.s, {"COL"}) THEN [n |-> OpNode("CND", <<c.n, a.n, b.n>>), s |-> b.s]
     ELSE [n |-> OpNode("CND", <<c.n, a.n, JunkNode>>), s |-> a.s]

Level02(s) ==
  IF "name" \in DOMAIN Token(s) /\ Follows(s, "SET")
  THEN LET d == Declared(s, Token(s).name)
           r == Level(3, Parse(Parse(d)))
       IN [n |-> Node("OPERATOR", "SET", Slot(d, Token(s).name), <<r.n>>, Unset), s |-> r.s]
  ELSE Level(3, s)

Level(l, s) ==
  CASE l = 12 -> Level12(s)
    [] l = 11 -> Level11(s)
    [] l = 3 -> Level03(s)
    [] l = 2 -> Level02(s)
    [] OTHER -> LET r == Level(l + 1, s) IN Rest(l, r.n, r.s)

\* Without a tree Eval makes an empty text.
NoTree == Node("NONE", "", "", <<>>, String(<<>>))

\* The tree, or none for an empty expression and when the expression goes on
\* behind it, and the variables.
Compile(toks, vars) ==
  LET s == [toks |-> toks, vars |-> vars]
      r == Level(1, s)
  IN IF NoWord(s) THEN [tree |-> NoTree, vars |-> vars]
     ELSE [tree |-> IF NoWord(r.s) THEN r.n ELSE NoTree, vars |-> r.s.vars]

-----------------------------------------------------------------------------
(* The evaluation of a tree n in a memory m: the values of the variables, what *)
(* the functions find outside of the program, and whether NULL was dereferenced. *)

Undefined(r) == [r EXCEPT !.m.undefined = TRUE]

Bool(b) == IF b THEN 1 ELSE 0

\* The sign of a quotient and of a remainder are those of C.
Quotient(x, y) ==
  LET Abs(i) == IF i < 0 THEN -i ELSE i
      q == Abs(x) \div Abs(y)
  IN IF (x < 0) = (y < 0) THEN q ELSE -q

\* The operators on numbers.  A division by zero is zero; so is, other than in the
\* code, zero to a negative power.
Arithmetic(op, x, y) ==
  CASE op = "NEQ" -> Bool(x = y)
    [] op = "NNE" -> Bool(x # y)
    [] op = "NLT" -> Bool(x < y)
    [] op = "NLE" -> Bool(x <= y)
    [] op = "NGT" -> Bool(x > y)
    [] op = "NGE" -> Bool(x >= y)
    [] op = "ADD" -> x + y
    [] op = "SUB" -> x - y
    [] op = "MUL" -> x * y
    [] op = "DIV" -> IF y = 0 THEN 0 ELSE Quotient(x, y)
    [] op = "MOD" -> IF y = 0 THEN 0 ELSE x - y * Quotient(x, y)
    [] op = "POW" -> IF y = 0 THEN 1 ELSE IF x = 0 THEN 0
                     ELSE IF y < 0 THEN Quotient(1, x ^ (-y)) ELSE x ^ y
    [] op = "SGN" -> -x
    [] op = "NOT" -> Bool(x = 0)

Characters == <<"-">> \o Digits \o <<"a", "b", "c">>

Code(c) == CHOOSE i \in DOMAIN Characters : Characters[i] = c

\* strcmp(s, t) < 0
Before(s, t) ==
  \E k \in 1 .. Len(t) :
    /\ \A i \in 1 .. k - 1 : i <= Len(s) /\ s[i] = t[i]
    /\ k > Len(s) \/ Code(s[k]) < Code(t[k])

\* The operators on texts.
Comparison(op, s, t) ==
  Bool(CASE op = "SEQ" -> s = t
         [] op = "SNE" -> s # t
         [] op = "SLT" -> Before(s, t)
         [] op = "SLE" -> s = t \/ Before(s, t)
         [] op = "SGT" -> Before(t, s)
         [] op = "SGE" -> s = t \/ Before(t, s))

OnTexts == {"SEQ", "SNE", "SLT", "SLE", "SGT", "SGE"}

\* The children in ks are read with R2N, or with R2S.
Reading(type, r, ks) ==
  LET Read(kid) == [kid EXCEPT !.result = IF type = "number" THEN R2N(@) ELSE R2S(@)]
  IN [r EXCEPT !.n.kids = [k \in DOMAIN @ |-> IF k \in ks THEN Read(@[k]) ELSE @[k]]]

\* strlen, strcmp and strcpy of NULL.
ReadingTexts(r, ks) ==
  LET read == Reading("string", r, ks)
  IN IF \E k \in ks : read.n.kids[k].result = Unset THEN Undefined(read) ELSE read

Num(r, k) == r.n.kids[k].result.number
Txt(r, k) == r.n.kids[k].result.string

Yield(r, new) == [r EXCEPT !.n.result = SetResult(@, new)]

\* Lists, assignments and conditions pass the result of a child on, if it is of one
\* type ("unhandled type" otherwise).
PassOn(r, k) ==
  LET kid == r.n.kids[k].result
  IN Yield(r, IF kid.type = {"number"} THEN Number(kid.number)
              ELSE IF kid.type = {"string"} THEN String(kid.string)
              ELSE String(<<>>))

\* What a function makes of its arguments: it looks outside, or counts characters.
External(r) ==
  IF r.n.name = "length"
  THEN LET read == ReadingTexts(r, {1}) IN Yield(read, Number(Len(Txt(read, 1))))
  ELSE Yield(r, r.m.outside)

RECURSIVE EvalTree(_, _)

EvalChild(r, k) ==
  LET c == EvalTree(r.n.kids[k], r.m) IN [n |-> [r.n EXCEPT !.kids[k] = c.n], m |-> c.m]

EvalChildren(r) == FoldLeft(EvalChild, r, [k \in DOMAIN r.n.kids |-> k])

EvalOperator(r) ==
  LET op == r.n.op
      a == EvalChild(r, 1)
      b == EvalChild(a, 2)
      test == Reading("number", a, {1})
      both == Reading("number", EvalChild(test, 2), {2})
      nums == Reading("number", b, {1, 2})
      texts == ReadingTexts(b, {1, 2})
  IN CASE op = "LST" -> LET all == EvalChildren(r) IN PassOn(all, Len(all.n.kids))
       [] op = "SET" ->
            IF r.n.name = NULL THEN Undefined(a)
            ELSE PassOn([a EXCEPT !.m.vars[r.n.name] = a.n.kids[1].result], 1)
       [] op = "CND" ->
            LET k == IF Num(test, 1) = 0 THEN 3 ELSE 2 IN PassOn(EvalChild(test, k), k)
       [] op = "OR" -> IF Num(test, 1) # 0 THEN Yield(test, Number(1))
                       ELSE Yield(both, Number(Bool(Num(both, 2) # 0)))
       [] op = "AND" -> IF Num(test, 1) = 0 THEN Yield(test, Number(0))
                        ELSE Yield(both, Number(Bool(Num(both, 2) # 0)))
       [] op \in {"SGN", "NOT"} -> Yield(test, Number(Arithmetic(op, Num(test, 1), 0)))
       [] op = "CAT" -> Yield(texts, String(Txt(texts, 1) \o Txt(texts, 2)))
       [] op \in OnTexts -> Yield(texts, Number(Comparison(op, Txt(texts, 1), Txt(texts, 2))))
       [] OTHER -> Yield(nums, Number(Arithmetic(op, Num(nums, 1), Num(nums, 2))))

EvalTree(n, m) ==
  LET r == [n |-> n, m |-> m]
  IN CASE n.token \in {"NUMBER", "STRING", "NONE"} -> r
       [] n.token = "VARIABLE" ->
            IF n.name = NULL THEN Undefined(r) ELSE [r EXCEPT !.n.result = m.vars[n.name]]
       [] n.token = "FUNCTION" -> External(EvalChildren([r EXCEPT !.n.result = Unset]))
       [] n.token = "OPERATOR" -> EvalOperator(r)

\* The tree n with its results, and the memory m.
Eval(tree, m) == EvalTree(tree, m)
=============================================================================
