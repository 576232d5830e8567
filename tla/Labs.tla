---------------------------------- MODULE Labs ----------------------------------
(***************************************************************************)
(* The parts of the labs that work alone: the numbering of the shell's     *)
(* jobs (module JobTable), the Tiny server (module Tiny), and parts that   *)
(* make a result of what they are given.  A behaviour is the work of one   *)
(* part; the variables of the others stay as they are.                     *)
(***************************************************************************)
EXTENDS JobTable, Tiny, Sequences, SequencesExt, FiniteSetsExt, Bitwise

CONSTANTS
  Inputs,                                  \* for each part, what it may be given
  RIO_BUFSIZE, NewLine,                    \* of module Rio
  W, F,                                    \* of module DataLab
  Unroll,                                  \* of module PerfLab
  UWord, kbest, maxsamples, epsilon,       \* of module Timing
  WordBytes, MEM_SIZE, AddressDigits,      \* of module Yas
  IntArgs, BoolArgs,                       \* of module Hcl
  MaxCalls, Counts,                        \* bound: the calls on a descriptor, their lengths
  Times,                                   \* the times that are measured
  Graded,                                  \* the sizes of matrices that are graded
  Signals                                  \* the values of signals and numbers

VARIABLES part,               \* the part that works
          given,              \* what it has been given
          result,             \* what it has made of that
          done                \* it has
labs    == <<part, given, result, done>>
allVars == <<vars, server, labs>>

IO        == INSTANCE Rio
Shell     == INSTANCE CommandLine
Bits      == INSTANCE DataLab
Kernels   == INSTANCE PerfLab
Cachelab  == INSTANCE Transpose
Clock     == INSTANCE Timing
Assembler == INSTANCE Yas
Compiler  == INSTANCE Hcl
Tree      == INSTANCE RedBlackTree

\* The nodes of a tree are given by their keys; what is not in the tree holds nothing.
NodeAt(i) == Tree!NodeWords * i
NoNodes   == [m |-> Tree!rbt_init([a \in Tree!RootNode .. Tree!NodeWords * (Len(given) + 1) |-> 0]),
              in |-> {}]
Keep(m, in) ==
  LET Unused == UNION {NodeAt(i) .. NodeAt(i) + Tree!Parent : i \in DOMAIN given \ in}
  IN  [m |-> [a \in DOMAIN m |-> IF a \in Unused \union {Tree!NilNode + Tree!Parent} THEN 0 ELSE m[a]],
       in |-> in]

LabsInit ==
  /\ Init /\ InitServer
  /\ part \in DOMAIN Inputs /\ given \in Inputs[part]
  /\ result = CASE part = "io"      -> [rp |-> IO!rio_readinitb(given), calls |-> <<>>]
                [] part = "sampler" -> Clock!init_sampler
                [] part = "tree"    -> NoNodes
                [] OTHER -> <<>>
  /\ done = FALSE

------------------------------------------------------------------------------
JobStep    == part = "jobs" /\ Next /\ UNCHANGED <<server, labs>>
ServerStep == part = "server" /\ ServerNext /\ UNCHANGED <<vars, labs>>

\* The work of a part that is done at once.
Work(name, made) == /\ part = name /\ ~done /\ result' = made /\ done' = TRUE
                    /\ UNCHANGED <<vars, server, part, given>>

\* A command line of words, of which each has its text and may be quoted, with gap spaces
\* before each and behind the last.
Written(line) ==
  FlattenSeq([i \in DOMAIN line.words |->
    LET w == line.words[i]
    IN  line.gap \o (IF w.quoted THEN <<"'">> \o w.text \o <<"'">> ELSE w.text)])
  \o line.gap \o <<"newline">>

ParseLine == Work("line", Shell!parseline(Written(given)))

\* Reading and writing a descriptor, without and with a buffer.
Unbuffered == Work("unbuffered",
                   [read  |-> IO!rio_readn(given.fd, given.n),
                    write |-> IO!rio_writen(given.fd.data, given.fd.plan, given.fd.end)])

Called(read, n, r) == result' = [rp |-> r.rp, calls |-> Append(result.calls,
                                   [read |-> read, n |-> n, got |-> r.got, ret |-> r.ret])]
Buffered ==
  /\ part = "io" /\ Len(result.calls) < MaxCalls
  /\ \A i \in DOMAIN result.calls : result.calls[i].ret >= 0
  /\ \E n \in Counts : \/ Called("bytes", n, IO!rio_readnb(result.rp, n))
                       \/ Called("line", n, IO!rio_readlineb(result.rp, n + 1))
  /\ UNCHANGED <<vars, server, part, given, done>>

\* One value that btest tries a puzzle with, one image for a kernel, one size of a matrix.
TryPuzzle == \E p \in {"bits", "floats"} :
               Work(p, [solution |-> Bits!solution(given.f, given.x, given.y),
                        test     |-> Bits!test(given.f, given.x, given.y)])
TryKernel == Work("kernel",
                  [right |-> Kernels!test_kernel(given.kernel, given.dim, given.pixel)])
TryMatrix == Work("transpose",
                  [valid  |-> Cachelab!validate(given.func, given.M, given.N),
                   misses |-> IF <<given.M, given.N>> \in Graded
                              THEN Cachelab!eval_perf(given.func, given.M, given.N, 5, 5) ELSE 0])

ReadClock == Work("clock", [elapsed |-> Clock!get_counter(Clock!access_counter(given.start), given.now)])

\* fcyc times the function once more; given holds all the times it has got.
TakeSample ==
  /\ part = "sampler" /\ Clock!Sampling(result)
  /\ \E t \in Times : given' = Append(given, t) /\ result' = Clock!add_sample(result, t)
  /\ UNCHANGED <<vars, server, part, done>>

\* A block becomes free, or is taken from the free ones.
ChangeTree ==
  /\ part = "tree"
  /\ \E i \in DOMAIN given :
       result' = IF i \in result.in
                 THEN Keep(Tree!rbt_remove(result.m, NodeAt(i)), result.in \ {i})
                 ELSE Keep(Tree!rbt_insert([result.m EXCEPT ![NodeAt(i)] = given[i]], NodeAt(i)),
                           result.in \union {i})
  /\ UNCHANGED <<vars, server, part, given, done>>

------------------------------------------------------------------------------
(* A line of an assembly program: its label, if it has one, the name of    *)
(* its instruction, and the fields the instruction is to have.  A number   *)
(* is a token: a number or a label.                                        *)
Reg(id)  == Assembler!Token("REG", Assembler!reg_table[id + 1], 0)
Punct(c) == Assembler!Token("PUNCT", c, 0)

Operands(l) ==
  CASE l.icode \in {"RRMOVL", "ALU"}   -> <<Reg(l.ra), Punct(","), Reg(l.rb)>>
    [] l.icode \in {"IRMOVL", "IADDL"} -> <<l.num, Punct(","), Reg(l.rb)>>
    [] l.icode = "RMMOVL" ->
         <<Reg(l.ra), Punct(",")>> \o (IF l.num = Assembler!Token("NUM", "", 0) THEN <<>> ELSE <<l.num>>)
           \o (IF l.rb = Assembler!NONE THEN <<>> ELSE <<Punct("("), Reg(l.rb), Punct(")")>>)
    [] l.icode = "MRMOVL" ->
         <<l.num, Punct("("), Reg(l.rb), Punct(")"), Punct(","), Reg(l.ra)>>
    [] l.icode \in {"PUSHL", "POPL"} -> <<Reg(l.ra)>>
    [] l.icode \in {"RET", "HALT", "NOP", "LEAVE"} -> <<>>
    [] l.icode = "NO_COMMA"    -> <<Reg(l.ra), Reg(l.rb)>>
    [] l.icode = "NO_REGISTER" -> <<l.num, Punct("("), l.num>>
    [] OTHER -> <<l.num>>

Tokens(l) == (IF l.label = "" THEN <<>>
              ELSE <<Assembler!Token("IDENT", l.label, 0), Punct(":")>>)
             \o <<Assembler!Token("INSTR", l.name, 0)>> \o Operands(l)

EmptyMemory == [a \in 0 .. MEM_SIZE - 1 |-> 0]

AssembleProgram ==
  LET a == Assembler!Assemble([i \in DOMAIN given |-> Tokens(given[i])])
  IN  Work("assembler", [hit_error |-> a.hit_error, m |-> Assembler!load_mem(EmptyMemory, a.out).m])

------------------------------------------------------------------------------
(* An expression of HCL: an operator, or a name, and its arguments. The    *)
(* first argument of "in" is looked for among the others; the arguments of *)
(* "case" are conditions, each with the value behind it.                   *)
RECURSIVE Parse(_)
Parse(t) ==
  LET sub == [i \in DOMAIN t.args |-> Parse(t.args[i])]
  IN  CASE t.op = "var"  -> Compiler!Parsed(Compiler!make_var(t.name), 0)
        [] t.op = "num"  -> Compiler!Parsed(Compiler!make_num(t.name), 0)
        [] t.op = "not"  -> Compiler!make_not(sub[1])
        [] t.op = "and"  -> Compiler!make_and(sub[1], sub[2])
        [] t.op = "or"   -> Compiler!make_or(sub[1], sub[2])
        [] t.op = "comp" -> Compiler!make_comp(t.name, sub[1], sub[2])
        [] t.op = "in"   -> Compiler!make_ele(sub[1], SubSeq(sub, 2, Len(sub)))
        [] t.op = "case" -> Compiler!make_cases([i \in 1 .. Len(sub) \div 2 |->
                                                   <<sub[2 * i - 1], sub[2 * i]>>])

Compile == Work("hcl", Compiler!gen_funct(Parse(given.expr), given.isbool))

LabsNext == \/ JobStep \/ ServerStep
            \/ ParseLine \/ Unbuffered \/ Buffered
            \/ TryPuzzle \/ TryKernel \/ TryMatrix \/ ReadClock \/ TakeSample \/ ChangeTree
            \/ AssembleProgram \/ Compile

LabsSpec == LabsInit /\ [][LabsNext]_allVars /\ Fairness

------------------------------------------------------------------------------
Finished(name) == part = name /\ done

\* parseline gives back the words of a line as they were written, quoted or not; a last one
\* that begins with & asks for a background job, and is not given to the program.
WordsKept ==
  Finished("line") =>
    LET texts == [i \in DOMAIN given.words |-> given.words[i].text]
        bg    == texts # <<>> /\ Last(texts) # <<>> /\ Head(Last(texts)) = "&"
    IN  result = [argv |-> IF bg THEN Front(texts) ELSE texts, bg |-> bg \/ texts = <<>>]

\* What a call that wants at most n bytes is to get: rest is what was not given out before.
Wanted(read, n, rest) ==
  LET ends == {i \in DOMAIN rest : rest[i] = NewLine}
  IN  IF read = "line" /\ ends # {} /\ Min(ends) < n THEN Min(ends) ELSE n

\* Robust I/O: however the kernel cuts the data up, and whatever calls are interrupted, the
\* calls on a descriptor give its bytes in order and without a gap: each all it asks for, or a
\* line, or what is left at the end, or an error if the descriptor ends with one before that.
RioExact ==
  /\ part = "io" => \A k \in DOMAIN result.calls :
       LET c      == result.calls[k]
           before == FoldLeft(LAMBDA n, d : n + Len(d.got), 0, SubSeq(result.calls, 1, k - 1))
           rest   == SubSeq(given.data, before + 1, Len(given.data))
           want   == Wanted(c.read, c.n, rest)
       IN  IF Len(rest) < want /\ given.end = "error" THEN c.ret = -1
           ELSE c.got = SubSeq(rest, 1, Min({want, Len(rest)})) /\ c.ret = Len(c.got)
  /\ Finished("unbuffered") =>
       LET data == given.fd.data
           r    == result.read
           w    == result.write
       IN  /\ IF Len(data) < given.n /\ given.fd.end = "error" THEN r.ret = -1
              ELSE r.got = SubSeq(data, 1, Min({given.n, Len(data)})) /\ r.ret = Len(r.got)
           /\ IsPrefix(w.sent, data) /\ w.ret = IF w.sent = data THEN Len(data) ELSE -1

\* A solved puzzle gives what the function of tests.c with its name gives.
BitsMatchTests == Finished("bits") => result.solution = result.test

\* The same of the puzzles that work on floats.
FloatsMatchTests == Finished("floats") => result.solution = result.test

\* The kernels give what the driver computes for itself, and leave the original alone, for
\* images of every size; rotate for sizes that its unrolled loop divides.
KernelsRight ==
  Finished("kernel") => result.right \/ (given.kernel = "rotate" /\ given.dim % Unroll # 0)

\* A registered function transposes a matrix of any size, and for the sizes that are graded
\* the submission misses the cache less often than the plain loops.
TransposeRight ==
  Finished("transpose") =>
    /\ result.valid
    /\ given.func = "transpose_submit" /\ <<given.M, given.N>> \in Graded =>
         result.misses < Cachelab!eval_perf("trans", given.M, given.N, 5, 5)

\* The time between two readings of the counter is exact, also when its low word, or the
\* whole, has wrapped around; and the sampler holds the kbest least of the times, in order.
TimesExact ==
  /\ Finished("clock") => result.elapsed = given.now - given.start
  /\ part = "sampler" =>
       LET sorted == SortSeq(given, <)
       IN  /\ result.values = SubSeq(sorted, 1, Min({kbest, Len(given)}))
           /\ result.samplecount = Len(given)

\* Whatever nodes have come and gone, in whatever order, the tree holds those that are there
\* under their keys, in order and balanced, also with equal keys and with a successor that is
\* the node's own child (rbt_remove fixes the tree before y takes z's place); and the search
\* for a block finds one that is large enough if there is any.
FreeTreeRight ==
  part = "tree" =>
    LET m == result.m
        Fitting(q) == {NodeAt(i) : i \in {j \in result.in : given[j] >= q}}
    IN  /\ Tree!TreeOf(m) = {NodeAt(i) : i \in result.in}
        /\ \A i \in result.in : m[NodeAt(i)] = given[i]
        /\ Tree!Linked(m) /\ Tree!RedBlack(m)
        /\ \A q \in Range(given) \union {0, Max(Range(given)) + 1} :
             Tree!rbt_query_ge(m, q) \in IF Fitting(q) = {} THEN {Tree!Null} ELSE Fitting(q)

\* The assembler rejects exactly the programs with a malformed line or a label that is not
\* defined; what it writes for the others, once loaded, decodes at every line's address to
\* what the line says, a label being the address of the first line that carries it.
CodeDecodes ==
  Finished("assembler") =>
    LET Malformed(l) == l.icode \in {"NO_COMMA", "NO_REGISTER", "NO_ALIGNMENT"}
        Carries(name) == {k \in DOMAIN given : given[k].label = name}
        Undefined(l) == l.num.type = "IDENT" /\ Carries(l.num.sval) = {}
        Decoded(addr) == Assembler!Decode(result.m, addr)
        at[k \in 1 .. Len(given)] ==
          IF k = 1 THEN 0
          ELSE LET p == at[k - 1]
                   l == given[k - 1]
               IN  CASE l.icode = "POS"   -> l.num.ival
                     [] l.icode = "ALIGN" -> p + ((-p) % l.num.ival)
                     [] l.icode = "LONG"  -> p + WordBytes
                     [] OTHER -> Decoded(p).next
        Number(num) == IF num.type = "IDENT" THEN at[Min(Carries(num.sval))] ELSE num.ival
        Says(l, addr) ==
          CASE l.icode \in {"POS", "ALIGN"} -> TRUE
            [] l.icode = "LONG" -> Assembler!get_word_val(result.m, addr) = Number(l.num)
            [] OTHER -> LET d == Decoded(addr)
                        IN  /\ <<d.icode, d.ifun, d.ra, d.rb>> = <<l.icode, l.ifun, l.ra, l.rb>>
                            /\ d.valc = Number(l.num)
    IN  IF \E k \in DOMAIN given : Malformed(given[k]) \/ Undefined(given[k])
        THEN result.hit_error
        ELSE ~result.hit_error /\ \A k \in DOMAIN given : Says(given[k], at[k])

\* The types an expression may be taken for: 0 and 1 are of both.
RECURSIVE Types(_)
Types(t) ==
  LET Has(i, type) == type \in Types(t.args[i])
      If(cond, type) == IF cond THEN {type} ELSE {}
  IN  CASE t.op = "var" -> If(t.name \in IntArgs, "int") \union If(t.name \in BoolArgs, "bool")
        [] t.op = "num" -> {"int"} \union If(t.name \in {"0", "1"}, "bool")
        [] t.op \in {"not", "and", "or"} -> If(\A i \in DOMAIN t.args : Has(i, "bool"), "bool")
        [] t.op = "comp" -> If(Has(1, "int") /\ Has(2, "int"), "bool")
        [] t.op = "in"   -> If(Has(1, "int") /\ \A i \in DOMAIN t.args : Types(t.args[i]) # {}, "bool")
        [] t.op = "case" -> If(\A i \in DOMAIN t.args :
                                 Has(i, IF i % 2 = 1 THEN "bool" ELSE "int"), "int")

\* Its value, with env for the values of names and numbers.
RECURSIVE Value(_, _)
Value(t, env) ==
  LET v(i) == Value(t.args[i], env)
      OneIf(b) == IF b THEN 1 ELSE 0
      holds == {i \in 1 .. Len(t.args) \div 2 : v(2 * i - 1) # 0}
  IN  CASE t.op \in {"var", "num"} -> env[t.name]
        [] t.op = "not"  -> 1 - v(1)
        [] t.op = "and"  -> v(1) * v(2)
        [] t.op = "or"   -> OneIf(v(1) + v(2) > 0)
        [] t.op = "comp" -> OneIf(IF t.name = "<" THEN v(1) < v(2) ELSE v(1) = v(2))
        [] t.op = "in"   -> OneIf(\E i \in DOMAIN t.args \ {1} : v(i) = v(1))
        [] t.op = "case" -> IF holds = {} THEN 0 ELSE v(2 * Min(holds))

\* The HCL compiler accepts exactly the definitions whose types fit (the elements of a set may
\* be of either type), and the C code it writes for them has the value of the expression.
CompiledAgrees ==
  Finished("hcl") =>
    /\ result.ok <=> (IF given.isbool THEN "bool" ELSE "int") \in Types(given.expr)
    /\ result.ok => \A env \in Signals :
                      Compiler!C_value(result.code, env) = Value(given.expr, env)
==============================================================================
