------------------------------- MODULE Meaning -------------------------------
(***************************************************************************)
(* What an expression of the configuration means, and how a tree is        *)
(* written: the reference evaluator.c is compared with.  There are no      *)
(* cached results here; a value is a number or a text (or, from a function *)
(* that returns nothing, neither), an environment gives one to each name.  *)
(***************************************************************************)
EXTENDS Evaluator

AsNumber(v) == IF v.type = {"string"} THEN Atof(v.string) ELSE v.number

AsText(v) == IF v.type = {"number"} THEN Printed(v.number) ELSE v.string

RECURSIVE Meaning(_, _)

\* Both operands, from left to right.
Pair(t, e) ==
  LET a == Meaning(t.kids[1], e)
      b == Meaning(t.kids[2], a.env)
  IN [l |-> a.value, r |-> b.value, env |-> b.env]

\* What a list, an assignment or a condition returns.
Something(v) == IF v = Unset THEN String(<<>>) ELSE v

\* The value of t in e = [vars, outside], and the variables after it.
Meaning(t, e) ==
  LET first == Meaning(t.kids[1], e)
      true == AsNumber(first.value) # 0
      second(k) == Meaning(t.kids[k], first.env)
      pair == Pair(t, e)
  IN CASE t.token \in {"NUMBER", "STRING"} -> [value |-> t.result, env |-> e]
       [] t.token = "VARIABLE" -> [value |-> e.vars[t.name], env |-> e]
       [] t.name = "length" -> [first EXCEPT !.value = Number(Len(AsText(@)))]
       [] t.token = "FUNCTION" -> [value |-> e.outside, env |-> e]
       [] t.op = "LST" -> [second(2) EXCEPT !.value = Something(@)]
       [] t.op = "SET" -> [value |-> Something(first.value),
                           env |-> [first.env EXCEPT !.vars[t.name] = first.value]]
       [] t.op = "CND" -> [second(IF true THEN 2 ELSE 3) EXCEPT !.value = Something(@)]
       [] t.op = "OR" -> IF true THEN [first EXCEPT !.value = Number(1)]
                         ELSE [second(2) EXCEPT !.value = Number(Bool(AsNumber(@) # 0))]
       [] t.op = "AND" -> IF true THEN [second(2) EXCEPT !.value = Number(Bool(AsNumber(@) # 0))]
                          ELSE [first EXCEPT !.value = Number(0)]
       [] t.op \in {"SGN", "NOT"} ->
            [first EXCEPT !.value = Number(Arithmetic(t.op, AsNumber(@), 0))]
       [] t.op = "CAT" -> [value |-> String(AsText(pair.l) \o AsText(pair.r)), env |-> pair.env]
       [] t.op \in OnTexts -> [value |-> Number(Comparison(t.op, AsText(pair.l), AsText(pair.r))),
                               env |-> pair.env]
       [] OTHER -> [value |-> Number(Arithmetic(t.op, AsNumber(pair.l), AsNumber(pair.r))),
                    env |-> pair.env]

-----------------------------------------------------------------------------
(* How a tree is written: operators bind the tighter the higher their rank, those *)
(* of one rank from left to right; conditions and assignments do not associate.   *)

Ranks ==
  <<{"LST"}, {"SET"}, {"CND"}, {"OR"}, {"AND"}, {"NEQ", "NNE", "SEQ", "SNE"},
    {"NLT", "NLE", "NGT", "NGE", "SLT", "SLE", "SGT", "SGE"}, {"ADD", "SUB", "CAT"},
    {"MUL", "DIV", "MOD"}, {"POW"}, {"SGN", "NOT"}>>

Rank(t) ==
  IF t.token = "OPERATOR" THEN CHOOSE r \in DOMAIN Ranks : t.op \in Ranks[r] ELSE 12

\* The smallest rank operand k may have without parentheses.
OperandRank(t, k) ==
  CASE t.op = "CND" -> 4
    [] t.op = "SET" -> 3
    [] OTHER -> IF k = 1 /\ t.op \notin {"SGN", "NOT"} THEN Rank(t) ELSE Rank(t) + 1

RECURSIVE Written(_)

Operand(t, k) ==
  IF Rank(t.kids[k]) < OperandRank(t, k)
  THEN <<Op("BRO")>> \o Written(t.kids[k]) \o <<Op("BRC")>> ELSE Written(t.kids[k])

Written(t) ==
  CASE t.token \in {"NUMBER", "STRING"} -> <<Literal(t.result)>>
    [] t.token = "VARIABLE" -> <<Name(t.name)>>
    [] t.token = "FUNCTION" ->
         <<Name(t.name), Op("BRO")>> \o
           (IF t.kids = <<>> THEN <<>> ELSE Written(t.kids[1])) \o <<Op("BRC")>>
    [] t.op = "SET" -> <<Name(t.name), Op("SET")>> \o Operand(t, 1)
    [] t.op = "SGN" -> <<Op("SUB")>> \o Operand(t, 1)
    [] t.op = "NOT" -> <<Op("NOT")>> \o Operand(t, 1)
    [] t.op = "CND" -> Operand(t, 1) \o <<Op("CND")>> \o Operand(t, 2) \o <<Op("COL")>> \o Operand(t, 3)
    [] OTHER -> Operand(t, 1) \o <<Op(t.op)>> \o Operand(t, 2)
=============================================================================
