--------------------------------- MODULE ISA ---------------------------------
(***************************************************************************)
(* The Y86 instruction set (archlab/sim/misc/isa.c): memory, registers,    *)
(* the ALU, conditions, and step_state, which executes one instruction of  *)
(* a state and returns the new state and a status.  A memory is a function *)
(* from addresses to bytes.  The code has words of four bytes; how many    *)
(* bytes a word has is a parameter here, and the literal 4 in the code is  *)
(* WordBytes.  No address is so large that adding a word to it overflows.  *)
(***************************************************************************)
EXTENDS Integers, Sequences

CONSTANTS WordBytes, MEM_SIZE

ASSUME WordAssumption == WordBytes \in Nat \ {0} /\ MEM_SIZE \in Nat

\* What the two halves of an instruction's first byte mean.
itype_t == <<"HALT", "NOP", "RRMOVL", "IRMOVL", "RMMOVL", "MRMOVL", "ALU", "JMP", "CALL",
             "RET", "PUSHL", "POPL", "IADDL", "LEAVE">>
alu_t   == <<"ADD", "SUB", "AND", "XOR">>
cond_t  == <<"YES", "LE", "L", "E", "NE", "GE", "G">>
Member(type, n) == IF n + 1 \in DOMAIN type THEN type[n + 1] ELSE "BAD"

ESP  == 4
EBP  == 5
NONE == 15
RegIds == 0 .. 7
reg_valid(id) == id \in RegIds

\* A word_t, which is signed.
Base    == 2 ^ (8 * WordBytes)
Word(x) == ((x + Base \div 2) % Base) - Base \div 2

\* t[1] + ... + t[n]
Total(t, n) == LET sum[i \in 0 .. n] == IF i = 0 THEN 0 ELSE sum[i - 1] + t[i] IN sum[n]

HI4(byte) == byte \div 16
LO4(byte) == byte % 16

\* The value that a getter stores is the second one; if the address is not in memory,
\* it stores none, and 0 stands for that.
Byte_ok(pos) == pos \in 0 .. MEM_SIZE - 1
Word_ok(pos) == pos >= 0 /\ pos + WordBytes <= MEM_SIZE

get_byte_val(m, pos) == IF Byte_ok(pos) THEN m[pos] ELSE 0

get_word_val(m, pos) ==
  IF Word_ok(pos)
  THEN Word(Total([i \in 1 .. WordBytes |-> m[pos + i - 1] * 2 ^ (8 * (i - 1))], WordBytes))
  ELSE 0

set_word_val(m, pos, val) ==
  IF ~Word_ok(pos) THEN m
  ELSE [a \in DOMAIN m |-> IF a \in pos .. pos + WordBytes - 1
                           THEN ((val % Base) \div 2 ^ (8 * (a - pos))) % 256 ELSE m[a]]

get_reg_val(r, id)      == IF reg_valid(id) THEN r[id] ELSE 0
set_reg_val(r, id, val) == IF reg_valid(id) THEN [r EXCEPT ![id] = val] ELSE r
diff_reg(old, new)      == \E id \in RegIds : new[id] # old[id]

\* Memories are compared word by word; their size is a multiple of that of a word.
diff_mem(old, new) ==
  \E n \in 0 .. MEM_SIZE \div WordBytes - 1 :
    get_word_val(new, n * WordBytes) # get_word_val(old, n * WordBytes)

------------------------------------------------------------------------------
\* The operators & and ^ on the bits of two words.
BitOp(op, a, b) ==
  LET Bit(x, n)  == (x \div 2 ^ n) % 2
      Both(x, y) == IF op = "AND" THEN x * y ELSE (x + y) % 2
  IN  Word(Total([n \in 1 .. 8 * WordBytes |->
                    Both(Bit(a, n - 1), Bit(b, n - 1)) * 2 ^ (n - 1)], 8 * WordBytes))

compute_alu(op, a, b) ==
  CASE op = "ADD" -> Word(a + b)
    [] op = "SUB" -> Word(b - a)
    [] op = "AND" -> BitOp("AND", a, b)
    [] op = "XOR" -> BitOp("XOR", a, b)
    [] OTHER -> 0

CC(z, s, o) == [zf |-> z, sf |-> s, of |-> o]
DEFAULT_CC  == CC(TRUE, FALSE, FALSE)

\* A state before its first instruction, with the memory m.
new_state(m) == [pc |-> 0, r |-> [id \in RegIds |-> 0], m |-> m, cc |-> DEFAULT_CC]

compute_cc(op, a, b) ==
  LET val == compute_alu(op, a, b)
      ovf == \/ op = "ADD" /\ (a < 0) = (b < 0) /\ (val < 0) # (a < 0)
             \/ op = "SUB" /\ (a > 0) = (b < 0) /\ (val < 0) # (b < 0)
  IN  CC(val = 0, val < 0, ovf)

cond_holds(cc, ifun) ==
  LET cond == Member(cond_t, ifun)
      less == cc.sf # cc.of
  IN  CASE cond = "YES" -> TRUE
        [] cond = "LE"  -> less \/ cc.zf
        [] cond = "L"   -> less
        [] cond = "E"   -> cc.zf
        [] cond = "NE"  -> ~cc.zf
        [] cond = "GE"  -> ~less
        [] cond = "G"   -> ~less /\ ~cc.zf
        [] OTHER -> FALSE

------------------------------------------------------------------------------
need_regids(icode) ==
  icode \in {"RRMOVL", "ALU", "PUSHL", "POPL", "IRMOVL", "RMMOVL", "MRMOVL", "IADDL"}
need_imm(icode)    == icode \in {"IRMOVL", "RMMOVL", "MRMOVL", "JMP", "CALL", "IADDL"}

\* The instruction at pc: its fields, whether they could be read, and the address after it.
Decode(m, pc) ==
  LET byte0 == get_byte_val(m, pc)
      icode == Member(itype_t, HI4(byte0))
      regs  == need_regids(icode)
      imm   == need_imm(icode)
      at    == IF regs THEN pc + 2 ELSE pc + 1
      none  == ~regs \/ ~Byte_ok(pc + 1)
  IN  [ok |-> Byte_ok(pc), icode |-> icode, ifun |-> LO4(byte0),
       ok1 |-> regs => Byte_ok(pc + 1), 
       ra |-> IF none THEN NONE ELSE HI4(m[pc + 1]),
       rb |-> IF none THEN NONE ELSE LO4(m[pc + 1]),
       okc |-> imm => Word_ok(at), valc |-> IF imm THEN get_word_val(m, at) ELSE 0,
       next |-> IF imm THEN at + WordBytes ELSE at]

\* The registers an instruction must name. An ALU operation is not checked.
CheckedRegs(d) ==
  (IF d.icode \in {"RRMOVL", "RMMOVL", "MRMOVL", "PUSHL", "POPL"} THEN {d.ra} ELSE {})
    \union (IF d.icode \in {"RRMOVL", "IRMOVL", "IADDL"} THEN {d.rb} ELSE {})

DecodeStatus(d) ==
  CASE ~d.ok -> "ADR"
    [] d.ok /\ d.icode = "HALT" -> "HLT"
    [] d.ok /\ d.icode # "HALT" /\ ~d.ok1 -> "ADR"
    [] d.ok /\ d.icode # "HALT" /\ d.ok1 /\ ~d.okc ->
         IF d.icode \in {"JMP", "CALL"} THEN "ADR" ELSE "INS"
    [] OTHER -> IF d.icode = "BAD" \/ \E id \in CheckedRegs(d) : ~reg_valid(id)
                THEN "INS" ELSE "AOK"

\* A state with its registers and memory; %esp has moved when the address is wrong.
Push(s, val) ==
  LET top == Word(get_reg_val(s.r, ESP) - WordBytes)
  IN  [s EXCEPT !.r = set_reg_val(@, ESP, top), !.m = set_word_val(@, top, val)]
Pop(s, from, id) ==
  LET up == set_reg_val(s.r, ESP, Word(from + WordBytes))
  IN  [s EXCEPT !.r = IF Word_ok(from) THEN set_reg_val(up, id, get_word_val(s.m, from))
                                       ELSE up]

\* The address of the memory an instruction reads or writes, in a state before it.
MemAddress(s, d) ==
  CASE d.icode \in {"RMMOVL", "MRMOVL"} -> Word(d.valc + get_reg_val(s.r, d.rb))
    [] d.icode \in {"CALL", "PUSHL"}    -> Word(get_reg_val(s.r, ESP) - WordBytes)
    [] d.icode = "LEAVE"              -> get_reg_val(s.r, EBP)
    [] OTHER                        -> get_reg_val(s.r, ESP)
UsesMemory(icode) == icode \in {"RMMOVL", "MRMOVL", "CALL", "PUSHL", "RET", "POPL", "LEAVE"}

\* What an instruction that can be decoded does, but for the program counter.
Execute(s, d) ==
  LET a    == get_reg_val(s.r, d.ra)
      b    == get_reg_val(s.r, d.rb)
      addr == MemAddress(s, d)
      Set(id, val) == [s EXCEPT !.r = set_reg_val(@, id, val)]
  IN  CASE d.icode = "RRMOVL" -> IF cond_holds(s.cc, d.ifun) THEN Set(d.rb, a) ELSE s
        [] d.icode = "IRMOVL" -> Set(d.rb, d.valc)
        [] d.icode = "RMMOVL" -> [s EXCEPT !.m = set_word_val(@, addr, a)]
        [] d.icode = "MRMOVL" -> IF Word_ok(addr) THEN Set(d.ra, get_word_val(s.m, addr)) ELSE s
        [] d.icode = "ALU"    -> [Set(d.rb, compute_alu(Member(alu_t, d.ifun), a, b)) EXCEPT
                                  !.cc = compute_cc(Member(alu_t, d.ifun), a, b)]
        [] d.icode = "IADDL"  -> [Set(d.rb, Word(b + d.valc)) EXCEPT
                                  !.cc = compute_cc("ADD", d.valc, b)]
        [] d.icode = "PUSHL"  -> Push(s, a)
        [] d.icode = "CALL"   -> Push(s, d.next)
        [] d.icode = "RET"    -> IF Word_ok(addr) THEN Pop(s, addr, NONE) ELSE s
        [] d.icode = "POPL"   -> Pop(s, addr, d.ra)
        [] d.icode = "LEAVE"  -> Pop(s, addr, EBP)
        [] OTHER -> s

NextPC(s, d) ==
  CASE d.icode = "RET"  -> get_word_val(s.m, MemAddress(s, d))
    [] d.icode = "CALL" -> d.valc
    [] d.icode = "JMP" /\ cond_holds(s.cc, d.ifun) -> d.valc
    [] OTHER -> d.next

step_state(s) ==
  LET d      == Decode(s.m, s.pc)
      fault  == UsesMemory(d.icode) /\ ~Word_ok(MemAddress(s, d))
      status == IF DecodeStatus(d) = "AOK" /\ fault THEN "ADR" ELSE DecodeStatus(d)
      done   == IF DecodeStatus(d) = "AOK" THEN Execute(s, d) ELSE s
  IN  [s |-> IF status = "AOK" THEN [done EXCEPT !.pc = NextPC(s, d)] ELSE done,
       status |-> status]
==============================================================================
