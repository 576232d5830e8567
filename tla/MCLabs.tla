--------------------------------- MODULE MCLabs ---------------------------------
EXTENDS Labs, TLC

SeqsUpTo(S, n) == UNION {[1 .. k -> S] : k \in 0 .. n}

MCKind == [f |-> "file", r |-> "refused", u |-> "unreadable", p |-> "program"]
MCUris == DOMAIN MCKind
MCRequests == [method : {"GET"}, uri : MCUris] \union {[method |-> "other", uri |-> "f"]}

Descriptors == {IO!Descriptor(data, plan, end) : data \in SeqsUpTo({"x", NewLine}, 3),
                                                 plan \in SeqsUpTo(0 .. 2, 3),
                                                 end \in {"EOF", "error"}}
UnbufferedInputs ==
  {[fd |-> IO!Descriptor(data, plan, end), n |-> n] :
     data \in {<<>>, <<"x", "y">>, <<"x", "y", "z">>}, plan \in SeqsUpTo(0 .. 2, 3),
     end \in {"EOF", "error"}, n \in 0 .. 4}

\* Command lines.
Words == {[text |-> t, quoted |-> FALSE] :
            t \in {<<"x">>, <<"x", "&">>, <<"&">>, <<"&", "x">>, <<"x", "'">>}}
           \union {[text |-> t, quoted |-> TRUE] : t \in {<<>>, <<"x", " ", " ">>, <<"&">>, <<" ", "x">>}}
Lines == {[words |-> w, gap |-> g] : w \in SeqsUpTo(Words, 3), g \in {<<" ">>, <<" ", " ">>}}

\* The values btest tries for the puzzles, with few of them for those with two arguments.
PuzzleInputs(puzzles) ==
  UNION {{[f |-> f, x |-> a[1], y |-> a[2]] :
            a \in IF f = "tmin" THEN {<<0, 0>>} ELSE Bits!arg_test_vals(f, <<100, 8>>, 20)}
         : f \in puzzles}
FloatPuzzles == {"float_i2f", "float_twice"}

Pixels(dim) == IF dim <= 2 THEN [0 .. dim * dim - 1 -> {0, 1000, 65535}]
               ELSE {[n \in 0 .. dim * dim - 1 |-> (a * n * n * 977 + b * n * 7919 + 65535) % 65536] :
                       a, b \in 0 .. 2}
Benchmarks == Kernels!benchmarks_rotate \union Kernels!benchmarks_smooth
Images == UNION {{[kernel |-> k, dim |-> dim, pixel |-> p] : k \in Benchmarks, p \in Pixels(dim)}
                 : dim \in 1 .. 5}

MCGraded == {<<32, 32>>, <<64, 64>>, <<61, 67>>}
Matrices == {[func |-> f, M |-> p[1], N |-> p[2]] :
               f \in Cachelab!func_list, p \in ((1 .. 18) \X {1, 2, 15, 16, 17, 33}) \union MCGraded}

\* Counters of two words of four values each, read at times less than sixteen apart.
Readings == {r \in [start : 0 .. 20, now : 0 .. 35] : r.now - r.start \in 0 .. UWord * UWord - 1}

\* Assembly lines.
Num(v) == Assembler!Token("NUM", "", v)
Lbl(l) == Assembler!Token("IDENT", l, 0)
Instr(name, icode, ifun, ra, rb, num) ==
  {[label |-> l, name |-> name, icode |-> icode, ifun |-> ifun, ra |-> ra, rb |-> rb, num |-> num]
     : l \in {"", "L"}}
NONE == 15
AsmLines == UNION {
  Instr("subl", "ALU", 1, 3, 5, Num(0)), Instr("cmovne", "RRMOVL", 4, 0, 7, Num(0)),
  Instr("irmovl", "IRMOVL", 0, NONE, 6, Num(-2)), Instr("iaddl", "IADDL", 0, NONE, 2, Lbl("L")),
  Instr("rmmovl", "RMMOVL", 0, 1, 5, Num(0)), Instr("rmmovl", "RMMOVL", 0, 1, NONE, Lbl("K")),
  Instr("mrmovl", "MRMOVL", 0, 6, 4, Num(300)), Instr("jge", "JMP", 5, NONE, NONE, Lbl("L")),
  Instr("ret", "RET", 0, NONE, NONE, Num(0)), Instr("popl", "POPL", 0, 2, NONE, Num(0)),
  Instr(".pos", "POS", 0, 0, 0, Num(16)), Instr(".align", "ALIGN", 0, 0, 0, Num(4)),
  Instr(".long", "LONG", 0, 0, 0, Lbl("L")), Instr("addl", "NO_COMMA", 0, 1, 2, Num(0)),
  Instr("mrmovl", "NO_REGISTER", 0, 1, 2, Num(4)), Instr(".align", "NO_ALIGNMENT", 0, 0, 0, Num(0))}
Programs == UNION {[1 .. n -> AsmLines] : n \in 1 .. 2}
              \union {p \in [1 .. 3 -> AsmLines] : p[1].label = "" /\ p[2].icode \in {"JMP", "POS", "ALIGN"}}

\* HCL expressions: over leaves, and over leaves and some composed ones.
Expr(op, name, args) == [op |-> op, name |-> name, args |-> args]
Var(n) == Expr("var", n, <<>>)
Leaves == {Var("a"), Var("p"), Var("undeclared"), Expr("num", "1", <<>>), Expr("num", "2", <<>>)}
Over(S) == {Expr("not", "", <<x>>) : x \in S}
             \union {Expr(op, "", <<x, y>>) : op \in {"and", "or", "in", "case"}, x, y \in S}
             \union {Expr("comp", c, <<x, y>>) : c \in {"==", "<"}, x, y \in S}
             \union {Expr("in", "", <<x, y, z>>) : x \in S, y, z \in S \ {Var("undeclared")}}
             \union {Expr("case", "", <<x, y, z, w>>) : x, y \in S, z \in {Var("p"), Expr("num", "1", <<>>)},
                                                        w \in {Var("a"), Var("p")}}
Composed == {Expr("not", "", <<Var("p")>>), Expr("or", "", <<Var("p"), Var("q")>>),
             Expr("comp", "<", <<Var("a"), Expr("num", "1", <<>>)>>),
             Expr("in", "", <<Var("a"), Expr("num", "1", <<>>), Expr("num", "2", <<>>)>>)}
Cases == Expr("case", "", <<Var("p"), Var("a"), Var("q"), Expr("num", "1", <<>>)>>)
Exprs == {e \in Over(Leaves \union Composed \union {Cases}) :
            e.op = "in" => \A i \in DOMAIN e.args \ {1} : e.args[i].op # "case"}
Definitions == {[expr |-> e, isbool |-> b] : e \in Exprs \union Leaves, b \in BOOLEAN}
MCSignals == {("0" :> 0 @@ "1" :> 1 @@ "2" :> 2 @@ "a" :> a @@ "p" :> p @@ "q" :> q) :
                a \in 0 .. 2, p, q \in {0, 1}}

\* The sizes of free blocks: all different, and with equal ones.
Keys == {<<1, 2, 3, 4, 5, 6, 7, 8, 9, 10>>, <<1, 2, 2, 3, 3, 3>>}

MCInputs ==
     "jobs" :> {<<>>} @@ "server" :> {<<>>} @@ "sampler" :> {<<>>}
  @@ "io" :> Descriptors @@ "unbuffered" :> UnbufferedInputs @@ "line" :> Lines
  @@ "bits" :> PuzzleInputs(Bits!Puzzles \ FloatPuzzles)
  @@ "kernel" :> Images @@ "transpose" :> Matrices @@ "clock" :> Readings
  @@ "assembler" :> Programs @@ "hcl" :> Definitions
  @@ "tree" :> Keys

FloatInputs == "floats" :> PuzzleInputs(FloatPuzzles)
================================================================================
