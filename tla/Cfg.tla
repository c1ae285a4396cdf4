-------------------------------- MODULE Cfg --------------------------------
(***************************************************************************)
(* cfg.c and plugin_cfg.c: the table of the configuration, which is filled *)
(* from the arguments -c and then from the file, and what is read from it  *)
(* when the program starts.  Values are expressions, as tokens.            *)
(*                                                                         *)
(* A key is the sequence of the words between its dots, the sections       *)
(* included.  The table is a function of keys, as it is sorted and has     *)
(* each key once; lines and keys fit into their buffers.                   *)
(***************************************************************************)
EXTENDS Evaluator

CONSTANTS
  Words,    \* in alphabetical order, for each word of a key the ways to write it
  Colons    \* the words with a colon, which begin sections

ASSUME CfgAssumption ==
  \A i, k \in DOMAIN Words : i # k => Words[i] \intersect Words[k] = {}

\* What strcasecmp compares.
Folded(key) == [k \in DOMAIN key |-> CHOOSE i \in DOMAIN Words : key[k] \in Words[i]]

\* The order of folded keys.
Less(k, l) ==
  \E n \in DOMAIN l : /\ \A i \in 1 .. n - 1 : i \in DOMAIN k /\ k[i] = l[i]
                      /\ n \notin DOMAIN k \/ k[n] < l[n]

validchars(key) == key # <<>> /\ \A k \in DOMAIN key : key[k] \notin Colons

-----------------------------------------------------------------------------
(* Filling the table *)

\* Mutant of cfg_add: the file overwrites what was given as an argument.
Bug_NoLock(table, key, val, lock) ==
  LET k == Folded(key)
  IN IF k \in DOMAIN table THEN [table EXCEPT ![k].val = val]
     ELSE table @@ (k :> [key |-> key, val |-> val, lock |-> lock])

cfg_add(table, key, val, lock) ==
  LET k == Folded(key)
  IN IF k \notin DOMAIN table THEN table @@ (k :> [key |-> key, val |-> val, lock |-> lock])
     ELSE IF table[k].lock > lock THEN table
     ELSE [table EXCEPT ![k].val = val]

\* An argument -c; the program ends at one that is none.
cfg_cmd(r, arg) ==
  IF arg.val = <<>> \/ ~ validchars(arg.key) THEN [r EXCEPT !.ok = FALSE]
  ELSE [r EXCEPT !.table = cfg_add(@, arg.key, arg.val, 1)]

\* Lines of the file.
Entry(key, val) == [key |-> key, val |-> val]
Open(words) == [open |-> words]
Close == [close |-> "}"]
Garbage == [garbage |-> "?"]

\* One line, in a section; reading stops at the first error.  The name of a section may
\* have dots, too, but a brace closes what is behind the last one only.
ReadLine(r, line) ==
  IF ~ r.ok THEN r
  ELSE IF "open" \in DOMAIN line THEN [r EXCEPT !.section = @ \o line.open]
  ELSE IF line = Close /\ r.section # <<>> THEN [r EXCEPT !.section = Front(@)]
  ELSE IF "key" \in DOMAIN line /\ validchars(line.key)
  THEN [r EXCEPT !.table = cfg_add(@, r.section \o line.key, line.val, 0)]
  ELSE [r EXCEPT !.ok = FALSE]

cfg_read(r, lines) ==
  LET read == FoldLeft(ReadLine, [ok |-> r.ok, table |-> r.table, section |-> <<>>], lines)
  IN [ok |-> read.ok /\ read.section = <<>>, table |-> read.table]

\* The table when main goes on to the plugins.
Configured(args, lines) ==
  cfg_read(FoldLeft(cfg_cmd, [ok |-> TRUE, table |-> <<>>], args), lines)

-----------------------------------------------------------------------------
(* Reading it.  s is the program while it starts: with the table, the names of *)
(* the variables, and the memory m in which expressions are evaluated.         *)

\* The keys below a section, in order, without it.
cfg_list(table, section) ==
  LET Below(k) == /\ Len(k) > Len(section)
                  /\ \A i \in DOMAIN section : k[i] = Folded(section)[i]
      keys == {k \in DOMAIN table : Below(k)}
      Nth(i) == CHOOSE k \in keys : Cardinality({l \in keys : Less(l, k)}) = i - 1
  IN [i \in 1 .. Cardinality(keys) |-> SubSeq(table[Nth(i)].key, Len(section) + 1, Len(Nth(i)))]

cfg_rename(table, section, old, new) ==
  LET o == Folded(section \o old)
      n == Folded(section \o new)
  IN IF o \notin DOMAIN table \/ n \in DOMAIN table THEN table
     ELSE [k \in (DOMAIN table \ {o}) \union {n} |->
             IF k = n THEN [table[o] EXCEPT !.key = section \o new] ELSE table[k]]

cfg_get_raw(s, key, defval) ==
  LET k == Folded(key) IN IF k \in DOMAIN s.table THEN s.table[k].val ELSE defval

\* The child whose result a list, an assignment or a condition passes on; when that has
\* not just one type, Eval fails.
Passed(n) == CASE n.op = "LST" -> Len(n.kids)
               [] n.op = "SET" -> 1
               [] n.op = "CND" -> IF n.kids[1].result.number = 0 THEN 3 ELSE 2

Failed(n) ==
  \/ n = NoTree
  \/ /\ n.op \in {"LST", "SET", "CND"}
     /\ n.kids[Passed(n)].result.type \notin {{"number"}, {"string"}}

\* Variables that an expression names for the first time are empty.
Naming(s, names) ==
  [s EXCEPT !.names = names,
            !.m.vars = [x \in Range(names) |-> IF x \in DOMAIN @ THEN @[x] ELSE String(<<>>)]]

\* The tree of an expression, and the state behind Compile.
Compiled(s, toks) ==
  LET c == Compile(toks, s.names) IN [s |-> Naming(s, c.vars), tree |-> c.tree]

\* An expression that is compiled, evaluated once and deleted.
EvalOnce(s, toks) ==
  CHOOSE once \in UNION {{[s |-> [c.s EXCEPT !.m = e.m], ok |-> ~ Failed(e.n), result |-> e.n.result] :
                            e \in {Eval(c.tree, c.s.m)}} : c \in {Compiled(s, toks)}} : TRUE

\* The text of an entry, and the state behind it.
cfg_get(s, key, defval) ==
  LET toks == cfg_get_raw(s, key, <<>>)
      Text(e) == IF ~ e.ok THEN [s |-> e.s, text |-> defval]
                 ELSE IF e.result = Unset THEN [s |-> Undefined(e.s), text |-> <<>>]
                 ELSE [s |-> e.s, text |-> R2S(e.result).string]
  IN IF Folded(key) \notin DOMAIN s.table THEN [s |-> s, text |-> defval]
     ELSE IF toks = <<>> THEN [s |-> s, text |-> <<>>]
     ELSE Text(EvalOnce(s, toks))

\* A maximum of -1 is none.
cfg_number(s, key, defval, min, max) ==
  LET toks == cfg_get_raw(s, key, <<>>)
      Limited(n) == IF n < min THEN min ELSE IF max > min /\ max # -1 /\ n > max THEN max ELSE n
      Value(e) == [s |-> e.s, value |-> IF e.ok THEN Limited(R2N(e.result).number) ELSE defval]
  IN IF toks = <<>> THEN [s |-> s, value |-> defval] ELSE Value(EvalOnce(s, toks))

-----------------------------------------------------------------------------
(* The section Variables *)

SetVariable(s, x, r) ==
  LET d == Naming(s, Declared([vars |-> s.names], x).vars)
  IN IF Contains(d.names, x) THEN [d EXCEPT !.m.vars[x] = r] ELSE s

\* No function is registered yet, so that their names are unknown.
WithoutFunctions(toks) ==
  [k \in DOMAIN toks |-> IF "name" \in DOMAIN toks[k] /\ k < Len(toks) /\ toks[k + 1] = Op("BRO")
                         THEN Name("unknown") ELSE toks[k]]

\* Structures are not allowed.
load_variable(s, key) ==
  LET toks == WithoutFunctions(cfg_get_raw(s, <<"Variables">> \o key, <<>>))
      Set(e) == IF e.ok THEN SetVariable(e.s, key[1], e.result) ELSE e.s
  IN IF Len(key) > 1 \/ toks = <<>> THEN s ELSE Set(EvalOnce(s, toks))

\* In the order of their names, whatever their expressions name.
load_variables(s) == FoldLeft(load_variable, s, cfg_list(s.table, <<"Variables">>))

=============================================================================
