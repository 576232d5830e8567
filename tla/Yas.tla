---------------------------------- MODULE Yas ----------------------------------
(***************************************************************************)
(* The Y86 assembler, archlab/sim/misc/yas.c, with the instruction table   *)
(* and the loader of isa.c.  The lexer gives each line as a sequence of    *)
(* tokens; the assembler goes over the lines twice, to place the labels    *)
(* and to write, for each line, its address and bytes, which load_mem puts *)
(* into a memory.  A number has WordBytes bytes, four in the code.         *)
(***************************************************************************)
EXTENDS ISA, SequencesExt, TLC

CONSTANT AddressDigits     \* the hexadecimal digits of a printed address: 3, or 4 with BIG_MEM

Token(type, sval, ival) == [type |-> type, sval |-> sval, ival |-> ival]
NoToken          == Token("ERR", "", 0)
Tok(line, i)     == IF i \in DOMAIN line THEN line[i] ELSE NoToken
Is(token, type, sval) == token.type = type /\ token.sval = sval

reg_table == <<"%eax", "%ecx", "%edx", "%ebx", "%esp", "%ebp", "%esi", "%edi">>
find_register(name) == (CHOOSE i \in DOMAIN reg_table : reg_table[i] = name) - 1

HPACK(hi, lo) == 16 * hi + lo
Code(icode, ifun) == HPACK((CHOOSE i \in DOMAIN itype_t : itype_t[i] = icode) - 1, ifun)

\* An entry of the table. An argument is of type "R", "M" or "I", at the byte pos of the
\* instruction; hi says which half of the byte a register goes to, or how many bytes a
\* number has.
Arg(type, pos, hi) == [type |-> type, pos |-> pos, hi |-> hi]
NoArg == Arg("none", 0, 0)
RA    == Arg("R", 1, 1)
RB    == Arg("R", 1, 0)
Mem   == Arg("M", 1, 0)
Imm(pos) == Arg("I", pos, WordBytes)
Entry(code, bytes, arg1, arg2) == [code |-> code, bytes |-> bytes, arg1 |-> arg1, arg2 |-> arg2]

With(names, icode, from, bytes, arg1, arg2) ==
  [n \in Range(names) |->
     Entry(Code(icode, from + (CHOOSE i \in DOMAIN names : names[i] = n) - 1), bytes, arg1, arg2)]

instruction_set ==
     With(<<"nop">>, "NOP", 0, 1, NoArg, NoArg)
  @@ With(<<"halt">>, "HALT", 0, 1, NoArg, NoArg)
  @@ With(<<"rrmovl", "cmovle", "cmovl", "cmove", "cmovne", "cmovge", "cmovg">>,
          "RRMOVL", 0, 2, RA, RB)
  @@ With(<<"irmovl">>, "IRMOVL", 0, 2 + WordBytes, Imm(2), RB)
  @@ With(<<"rmmovl">>, "RMMOVL", 0, 2 + WordBytes, RA, Mem)
  @@ With(<<"mrmovl">>, "MRMOVL", 0, 2 + WordBytes, Mem, RA)
  @@ With(<<"addl", "subl", "andl", "xorl">>, "ALU", 0, 2, RA, RB)
  @@ With(<<"jmp", "jle", "jl", "je", "jne", "jge", "jg">>, "JMP", 0, 1 + WordBytes, Imm(1), NoArg)
  @@ With(<<"call">>, "CALL", 0, 1 + WordBytes, Imm(1), NoArg)
  @@ With(<<"ret">>, "RET", 0, 1, NoArg, NoArg)
  @@ With(<<"pushl">>, "PUSHL", 0, 2, RA, NoArg)
  @@ With(<<"popl">>, "POPL", 0, 2, RA, NoArg)
  @@ With(<<"iaddl">>, "IADDL", 0, 2 + WordBytes, Imm(2), RB)
  @@ With(<<"leave">>, "LEAVE", 0, 1, NoArg, NoArg)
  @@ (".byte" :> Entry(0, 1, Arg("I", 0, 1), NoArg))
  @@ (".word" :> Entry(0, 2, Arg("I", 0, 2), NoArg))
  @@ (".long" :> Entry(0, WordBytes, Arg("I", 0, WordBytes), NoArg))

------------------------------------------------------------------------------
(* The assembler: the pass, the address of the line, the labels in the     *)
(* order in which they are found, what is written, and whether any error   *)
(* has been hit.                                                           *)
Start(pass, symbols, hit) == [pass |-> pass, bytepos |-> 0, symbols |-> symbols, out |-> <<>>,
                              hit_error |-> hit]

fail(a)        == [a EXCEPT !.hit_error = TRUE]
add_symbol(a, name) == [a EXCEPT !.symbols = Append(@, <<name, a.bytepos>>)]

\* The first place that a label was given; -1, and an error, for one that has none.
find_symbol(symbols, name) ==
  LET is == {i \in DOMAIN symbols : symbols[i][1] = name}
  IN  IF is = {} THEN -1 ELSE symbols[CHOOSE i \in is : \A j \in is : i <= j][2]

print_code(a, pos, bytes) ==
  IF a.pass = 1 THEN a
  ELSE [a EXCEPT !.out = Append(@, <<pos % 16 ^ AddressDigits, bytes>>)]

\* The code so far, the token to read next, and whether an error was hit.
Put(c, pos, val, bytes) ==
  [c EXCEPT !.code = SubSeq(@, 1, pos)
                     \o [i \in 1 .. bytes |-> ((val % Base) \div 256 ^ (i - 1)) % 256]
                     \o SubSeq(@, pos + bytes + 1, Len(@))]

NumberTok(a, t) == IF t.type = "NUM" THEN t.ival ELSE find_symbol(a.symbols, t.sval)
NoLabel(a, t)   == t.type = "IDENT" /\ ~\E i \in DOMAIN a.symbols : a.symbols[i][1] = t.sval

\* Mutant: the other half of the byte is cleared.
get_reg_Clears(line, c, arg) ==
  LET t == Tok(line, c.tpos)
      v == find_register(t.sval)
  IN  IF t.type # "REG" THEN [c EXCEPT !.bad = TRUE]
      ELSE [c EXCEPT !.tpos = @ + 1,
                     !.code[arg.pos + 1] = IF arg.hi = 1 THEN HPACK(v, 0) ELSE v]

get_reg(line, c, arg) ==
  LET t == Tok(line, c.tpos)
      v == find_register(t.sval)
  IN  IF t.type # "REG" THEN [c EXCEPT !.bad = TRUE]
      ELSE [c EXCEPT !.tpos = @ + 1,
                     !.code[arg.pos + 1] = IF arg.hi = 1 THEN HPACK(v, LO4(@)) ELSE HPACK(HI4(@), v)]

get_num(a, line, c, arg) ==
  LET t == Tok(line, c.tpos)
  IN  IF t.type \notin {"NUM", "IDENT"} THEN [c EXCEPT !.bad = TRUE]
      ELSE [Put(c, arg.pos, NumberTok(a, t), arg.hi) EXCEPT !.tpos = @ + 1,
                                                            !.bad = @ \/ NoLabel(a, t)]

\* Num(Reg), (Reg), Num, and the same with a label for the number; the number goes to the
\* bytes behind the register's.
get_mem(a, line, c, arg) ==
  LET t    == Tok(line, c.tpos)
      disp == t.type \in {"NUM", "IDENT"}
      val  == IF disp THEN NumberTok(a, t) ELSE 0
      open == IF disp THEN c.tpos + 1 ELSE c.tpos
      reg  == Is(Tok(line, open), "PUNCT", "(")
      id   == Tok(line, open + 1)
      well == reg => id.type = "REG" /\ Is(Tok(line, open + 2), "PUNCT", ")")
      low  == IF reg THEN find_register(id.sval) ELSE NONE
      close == Tok(line, open + 2)
      stop  == CASE ~reg -> open
                 [] reg /\ id.type # "REG" -> open + 1
                 [] reg /\ id.type = "REG" /\ close.type # "PUNCT" -> open + 2
                 [] OTHER -> open + 3
  IN  IF ~well THEN [c EXCEPT !.tpos = stop, !.bad = TRUE]
      ELSE [Put([c EXCEPT !.code[arg.pos + 1] = HPACK(HI4(@), low)], arg.pos + 1, val, WordBytes)
            EXCEPT !.tpos = stop, !.bad = @ \/ (disp /\ NoLabel(a, t))]

get_arg(a, line, c, arg) ==
  CASE arg.type = "R" -> get_reg(line, c, arg)
    [] arg.type = "M" -> get_mem(a, line, c, arg)
    [] arg.type = "I" -> get_num(a, line, c, arg)
    [] arg.type = "none" -> c

\* An instruction, from token tpos on. In the second pass an argument that is wrong is an
\* error but the line is written all the same, unless a comma is missing; what stands in the
\* place of the argument is of no use then (in the code, it is left from another line).
Instruction(a, line, tpos) ==
  LET instr == instruction_set[line[tpos].sval]
      moved == [a EXCEPT !.bytepos = @ + instr.bytes]
      code0 == [code |-> <<instr.code, HPACK(NONE, NONE)>> \o [i \in 1 .. WordBytes |-> 0],
                tpos |-> tpos + 1, bad |-> FALSE]
      one   == get_arg(a, line, code0, instr.arg1)
      comma == Is(Tok(line, one.tpos), "PUNCT", ",")
      two   == get_arg(a, line, [one EXCEPT !.tpos = @ + 1], instr.arg2)
      last  == IF instr.arg2 = NoArg THEN one ELSE two
      done  == IF last.bad THEN fail(moved) ELSE moved
  IN  CASE a.pass = 1 -> moved
        [] a.pass = 2 /\ instr.arg2 # NoArg /\ ~comma -> fail(moved)
        [] OTHER -> print_code(done, a.bytepos, SubSeq(last.code, 1, instr.bytes))

finish_line(a, line) ==
  LET label   == Tok(line, 1).type = "IDENT"
      start   == IF label THEN 3 ELSE 1
      with    == IF label /\ a.pass = 1 THEN add_symbol(a, line[1].sval) ELSE a
      op      == Tok(line, start)
      num     == Tok(line, start + 1)
      aligned == ((a.bytepos + num.ival - 1) \div num.ival) * num.ival
      At(pos) == print_code([with EXCEPT !.bytepos = pos], pos, <<>>)
  IN  CASE line = <<>> -> a
        [] label /\ ~Is(Tok(line, 2), "PUNCT", ":") -> fail(a)
        [] label /\ Is(Tok(line, 2), "PUNCT", ":") /\ Len(line) = 2 ->
             print_code(with, a.bytepos, <<>>)
        [] OTHER ->
             CASE op.type # "INSTR" -> fail(with)
               [] op.sval = ".pos" -> IF num.type = "NUM" THEN At(num.ival) ELSE fail(with)
               [] op.sval = ".align" -> IF num.type = "NUM" /\ num.ival > 0 THEN At(aligned)
                                                                          ELSE fail(with)
               [] OTHER -> Instruction(with, line, start)

\* yylex: the lines of the program in order.
Pass(a, program) ==
  LET run[n \in 0 .. Len(program)] ==
        IF n = 0 THEN a ELSE LET before == run[n - 1] IN finish_line(before, program[n])
  IN  run[Len(program)]

\* main: there is no second pass after an error.
Assemble(program) ==
  LET first == Pass(Start(1, <<>>, FALSE), program)
  IN  IF first.hit_error THEN first ELSE Pass(Start(2, first.symbols, FALSE), program)

\* load_mem: the number of bytes read, or 0 as soon as one has no place in the memory.
load_mem(m, out) ==
  LET Bytes == FlattenSeq([n \in DOMAIN out |->
                 [i \in DOMAIN out[n][2] |-> <<out[n][1] + i - 1, out[n][2][i]>>]])
      bad   == {n \in DOMAIN Bytes : Bytes[n][1] >= MEM_SIZE}
      end   == IF bad = {} THEN Len(Bytes) ELSE (CHOOSE n \in bad : \A k \in bad : n <= k) - 1
      put[n \in 0 .. end] == IF n = 0 THEN m
                             ELSE LET p == put[n - 1] IN [p EXCEPT ![Bytes[n][1]] = Bytes[n][2]]
  IN  [m |-> put[end], count |-> IF bad = {} THEN Len(Bytes) ELSE 0]
================================================================================
