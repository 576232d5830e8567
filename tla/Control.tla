------------------------------- MODULE Control -------------------------------
(***************************************************************************)
(* The control logic the Y86 simulators share: seq-std.hcl and             *)
(* pipe-std.hcl choose registers, ALU inputs and memory accesses by the    *)
(* same rules; the full versions add iaddl, and seq-full.hcl leave.  An    *)
(* instruction that a version does not have is treated by all of these     *)
(* rules alike: its code is BAD here.                                      *)
(***************************************************************************)
EXTENDS ISA

Standard == {"NOP", "HALT", "RRMOVL", "IRMOVL", "RMMOVL", "MRMOVL", "ALU", "JMP", "CALL",
             "RET", "PUSHL", "POPL"}

\* What an instruction fetch gives; v is the set of instructions a version adds.
\* Fields of one that it has not are not fetched.
Fetch(v, m, pc) ==
  LET d     == Decode(m, pc)
      valid == d.icode \in Standard \union v
  IN  IF valid THEN d
      ELSE [d EXCEPT !.icode = "BAD", !.ra = NONE, !.rb = NONE, !.valc = 0, !.next = pc + 1]

srcA(icode, ra) ==
  CASE icode \in {"RRMOVL", "RMMOVL", "ALU", "PUSHL"} -> ra
    [] icode \in {"POPL", "RET"} -> ESP
    [] icode = "LEAVE" -> EBP
    [] OTHER -> NONE

srcB(icode, rb) ==
  CASE icode \in {"ALU", "RMMOVL", "MRMOVL", "IADDL"} -> rb
    [] icode \in {"PUSHL", "POPL", "CALL", "RET"} -> ESP
    [] icode = "LEAVE" -> EBP
    [] OTHER -> NONE

\* A conditional move that is not made has no destination. SEQ knows that when it
\* decodes; PIPE takes cnd to be TRUE here and drops the destination in execute.
dstE(icode, rb, cnd) ==
  CASE icode = "RRMOVL" -> IF cnd THEN rb ELSE NONE
    [] icode \in {"IRMOVL", "ALU", "IADDL"} -> rb
    [] icode \in {"PUSHL", "POPL", "CALL", "RET", "LEAVE"} -> ESP
    [] OTHER -> NONE

dstM(icode, ra) ==
  CASE icode \in {"MRMOVL", "POPL"} -> ra
    [] icode = "LEAVE" -> EBP
    [] OTHER -> NONE

aluA(icode, valA, valC) ==
  CASE icode \in {"RRMOVL", "ALU"} -> valA
    [] icode \in {"IRMOVL", "RMMOVL", "MRMOVL", "IADDL"} -> valC
    [] icode \in {"CALL", "PUSHL"} -> -WordBytes
    [] icode \in {"RET", "POPL", "LEAVE"} -> WordBytes
    [] OTHER -> 0

aluB(icode, valB) ==
  IF icode \in {"RMMOVL", "MRMOVL", "ALU", "CALL", "PUSHL", "RET", "POPL", "IADDL", "LEAVE"}
  THEN valB ELSE 0

alufun(icode, ifun) == IF icode = "ALU" THEN Member(alu_t, ifun) ELSE "ADD"

mem_read(icode)  == icode \in {"MRMOVL", "POPL", "RET", "LEAVE"}
mem_write(icode) == icode \in {"RMMOVL", "PUSHL", "CALL"}

mem_addr(icode, valE, valA) ==
  CASE icode \in {"RMMOVL", "PUSHL", "CALL", "MRMOVL"} -> valE
    [] icode \in {"POPL", "RET", "LEAVE"} -> valA
    [] OTHER -> 0

\* A pending write of a register port: dst may be NONE.
Write(r, dstE_, valE, dstM_, valM) == set_reg_val(set_reg_val(r, dstE_, valE), dstM_, valM)
==============================================================================
