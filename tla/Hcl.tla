---------------------------------- MODULE Hcl ----------------------------------
(***************************************************************************)
(* The HCL compiler, archlab/sim/misc/node.c, which the control logic of   *)
(* the processors is compiled with.  The parser calls a make function for  *)
(* each expression, which checks its arguments, and gen_funct for each     *)
(* definition, which writes it as a C expression.  A node_ptr is the       *)
(* sequence of the nodes that its next fields lead to: the cases of a case *)
(* expression hang together like that, and the elements of a set.          *)
(***************************************************************************)
EXTENDS Integers, Sequences, SequencesExt

CONSTANTS IntArgs, BoolArgs      \* the signals declared by intsig and by boolsig

Node(type, isbool, sval, arg1, arg2) ==
  <<[type |-> type, isbool |-> isbool, sval |-> sval, arg1 |-> arg1, arg2 |-> arg2]>>

\* Lists hung behind each other.
concat(lists) == FlattenSeq(lists)

make_var(name) == Node("VAR", FALSE, name, <<>>, <<>>)
make_num(n)    == Node("NUM", FALSE, n, <<>>, <<>>)

\* An expression as the parser has it, with the errors that were reported for it so far.
Parsed(node, errs) == [node |-> node, errs |-> errs]

\* Mutant: a signal is taken for whatever is wanted.
check_arg_Any(arg, wantbool) ==
  LET a == arg[1]
  IN  CASE a.type = "VAR" -> IF a.sval \in BoolArgs \union IntArgs THEN 0 ELSE 1
        [] a.type = "NUM" -> IF wantbool /\ a.sval \notin {"0", "1"} THEN 1 ELSE 0
        [] OTHER -> IF wantbool = a.isbool THEN 0 ELSE 1

\* The errors found in an argument. Only its first node counts.
check_arg(arg, wantbool) ==
  LET a == arg[1]
  IN  CASE a.type = "VAR" ->
             IF a.sval \in (IF wantbool THEN BoolArgs ELSE IntArgs) THEN 0 ELSE 1
        [] a.type = "NUM" -> IF wantbool /\ a.sval \notin {"0", "1"} THEN 1 ELSE 0
        [] OTHER -> IF wantbool = a.isbool THEN 0 ELSE 1

Make(type, sval, a, b, wanted) ==
  Parsed(Node(type, TRUE, sval, a.node, b.node),
         a.errs + b.errs + check_arg(a.node, wanted) + check_arg(b.node, wanted))

make_not(a)      == Parsed(Node("NOT", TRUE, "!", a.node, <<>>), a.errs + check_arg(a.node, TRUE))
make_and(a, b)   == Make("AND", "&", a, b, TRUE)
make_or(a, b)    == Make("OR", "|", a, b, TRUE)
make_comp(op, a, b) == Make("COMP", op, a, b, FALSE)

\* The elements of the set are chained together, and not checked: the loop over them goes
\* over the nodes of the first argument.
make_ele(a, elements) ==
  LET Checked == check_arg(a.node, FALSE)
        + FoldLeft(LAMBDA sum, i : sum + check_arg(<<a.node[i]>>, FALSE), 0,
                   [i \in DOMAIN a.node |-> i])
  IN  Parsed(Node("ELE", TRUE, "in", a.node, concat([i \in DOMAIN elements |-> elements[i].node])),
             a.errs + Checked + FoldLeft(LAMBDA sum, e : sum + e.errs, 0, elements))

\* A list of cases, each a condition and a value.
make_cases(cases) ==
  Parsed(concat([i \in DOMAIN cases |->
           Node("CASE", FALSE, ":", cases[i][1].node, cases[i][2].node)]),
         FoldLeft(LAMBDA sum, c : sum + c[1].errs + c[2].errs + check_arg(c[1].node, TRUE)
                                      + check_arg(c[2].node, FALSE), 0, cases))

------------------------------------------------------------------------------
(* The C code: a sequence of tokens. A variable stands for its quoted C    *)
(* expression in parentheses; "unknown" marks a variable for which nothing *)
(* is written but an error is reported, and "crash" a case that has no     *)
(* arguments, which an element behind a case in a set is taken for.        *)
RECURSIVE gen_expr(_)

gen_expr(expr) ==
  LET e == expr[1]
      Infix(op) == <<"(">> \o gen_expr(e.arg1) \o <<op>> \o gen_expr(e.arg2) \o <<")">>
      Element(i) == gen_expr(e.arg1) \o <<"==">> \o gen_expr(SubSeq(e.arg2, i, Len(e.arg2)))
                      \o (IF i < Len(e.arg2) THEN <<"||">> ELSE <<>>)
      Default(c) == c.arg1 # <<>> /\ c.arg1[1].type = "NUM" /\ c.arg1[1].sval = "1"
      \* The cases up to the first whose condition is 1.
      last  == CHOOSE n \in DOMAIN expr :
                 /\ n = Len(expr) \/ Default(expr[n])
                 /\ \A k \in 1 .. n - 1 : ~Default(expr[k])
      Case(n) == CASE expr[n].arg1 = <<>> -> <<"crash">>
                   [] Default(expr[n]) -> gen_expr(expr[n].arg2)
                   [] OTHER -> gen_expr(expr[n].arg1) \o <<"?">> \o gen_expr(expr[n].arg2) \o <<":">>
  IN  CASE e.type = "VAR" -> IF e.sval \in IntArgs \union BoolArgs THEN <<"(", e.sval, ")">>
                             ELSE <<"unknown">>
        [] e.type = "NUM" -> <<e.sval>>
        [] e.type = "NOT" -> <<"!">> \o gen_expr(e.arg1)
        [] e.type \in {"AND", "OR", "COMP"} -> Infix(e.sval)
        [] e.type = "ELE"  -> <<"(">> \o FlattenSeq([i \in DOMAIN e.arg2 |-> Element(i)]) \o <<")">>
        [] e.type = "CASE" -> <<"(">> \o FlattenSeq([n \in 1 .. last |-> Case(n)])
                                \o (IF Default(expr[last]) THEN <<>> ELSE <<"0">>) \o <<")">>

\* The definition of a signal: what is written, and whether no error was reported.
gen_funct(expr, isbool) ==
  LET code == gen_expr(expr.node)
  IN  [code |-> code, ok |-> /\ expr.errs + check_arg(expr.node, isbool) = 0
                             /\ "unknown" \notin Range(code)]

------------------------------------------------------------------------------
(* What the C compiler makes of the code, with the values of the signals.  *)
(* Each parser gives the value of what it reads and the position after it. *)
Binary == <<{"||"}, {"&&"}, {"|"}, {"&"}, {"==", "!="}, {"<", "<=", ">", ">="}>>
Bool(b) == IF b THEN 1 ELSE 0
Read(v, at) == [v |-> v, at |-> at]

Apply(op, a, b) ==
  CASE op = "||" -> Bool(a # 0 \/ b # 0)
    [] op = "&"  -> Bool(a % 2 = 1 /\ b % 2 = 1) + 2 * Bool(a \div 2 = 1 /\ b \div 2 = 1)
    [] op = "|"  -> Bool(a % 2 = 1 \/ b % 2 = 1) + 2 * Bool(a \div 2 = 1 \/ b \div 2 = 1)
    [] op = "==" -> Bool(a = b)
    [] op = "<"  -> Bool(a < b)

RECURSIVE Conditional(_, _, _), Level(_, _, _, _), More(_, _, _, _), Unary(_, _, _)

Unary(code, env, at) ==
  CASE code[at] = "!" -> LET r == Unary(code, env, at + 1) IN Read(Bool(r.v = 0), r.at)
    [] code[at] = "(" -> LET r == Conditional(code, env, at + 1) IN Read(r.v, r.at + 1)
    [] OTHER -> Read(env[code[at]], at + 1)

\* The rest of a chain of operators of one level, whose left side has been read.
More(code, env, left, n) ==
  IF left.at > Len(code) \/ code[left.at] \notin Binary[n] THEN left
  ELSE LET r == Level(code, env, left.at + 1, n + 1)
       IN  More(code, env, Read(Apply(code[left.at], left.v, r.v), r.at), n)

Level(code, env, at, n) == IF n > Len(Binary) THEN Unary(code, env, at)
                           ELSE More(code, env, Level(code, env, at, n + 1), n)

Conditional(code, env, at) ==
  LET c == Level(code, env, at, 1)
  IN  IF c.at > Len(code) \/ code[c.at] # "?" THEN c
      ELSE LET yes == Conditional(code, env, c.at + 1)
               no  == Conditional(code, env, yes.at + 1)
           IN  Read(IF c.v # 0 THEN yes.v ELSE no.v, no.at)

C_value(code, env) == Conditional(code, env, 1).v
================================================================================
