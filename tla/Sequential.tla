--------------------------------- MODULE Sequential ---------------------------------
(***************************************************************************)
(* The sequential simulator (archlab/sim/seq/ssim.c) with the control      *)
(* logic of seq-std.hcl, seq-full.hcl or seq+-std.hcl.  A cycle first      *)
(* makes the changes of the instruction before it, then executes one       *)
(* instruction as far as its status and the changes it will make.  SEQ+    *)
(* chooses the program counter at the start of a cycle and SEQ at the end  *)
(* of the one before, by the same rule, new_pc.  Functions that psim.c has *)
(* too have the prefix seq_ here.                                          *)
(***************************************************************************)
EXTENDS Control

\* Changes that are made when the next cycle begins. The ones of seq_sim_reset are none.
NoChanges == [icode |-> "NOP", cnd |-> FALSE, valC |-> 0, valM |-> 0, valP |-> 0,
              cc |-> DEFAULT_CC, dstE |-> NONE, valE |-> 0, dstM |-> NONE,
              write |-> FALSE, addr |-> 0, data |-> 0]

\* The registers and the memory with the state that the simulator keeps.
seq_sim_reset(m) ==
  [pc |-> 0, r |-> [id \in RegIds |-> 0], m |-> m, cc |-> DEFAULT_CC,
   status |-> "AOK", next |-> NoChanges]

new_pc(x) == CASE x.icode = "CALL" -> x.valC
               [] x.icode = "JMP" /\ x.cnd -> x.valC
               [] x.icode = "RET" -> x.valM
               [] OTHER -> x.valP

seq_update_state(z) ==
  LET x == z.next
  IN  [z EXCEPT !.pc = new_pc(x), !.cc = x.cc,
                !.r = Write(@, x.dstE, x.valE, x.dstM, x.valM),
                !.m = IF x.write THEN set_word_val(@, x.addr, x.data) ELSE @]

\* sim_step: z is the machine, with what its next cycle begins with.
sim_step(v, z) ==
  LET u    == seq_update_state(z)
      f    == Fetch(v, u.m, u.pc)
      i    == IF f.ok THEN f.icode ELSE "NOP"
      valA == get_reg_val(u.r, srcA(i, f.ra))
      valB == get_reg_val(u.r, srcB(i, f.rb))
      cnd  == cond_holds(u.cc, f.ifun)
      a    == aluA(i, valA, f.valc)
      b    == aluB(i, valB)
      fun  == alufun(i, f.ifun)
      valE == compute_alu(fun, a, b)
      addr == mem_addr(i, valE, valA)
      bad  == (mem_read(i) \/ mem_write(i)) /\ ~Word_ok(addr)
  IN  [u EXCEPT
        !.status = CASE ~f.ok \/ bad -> "ADR"
                     [] f.ok /\ ~bad /\ i = "BAD" -> "INS"
                     [] f.ok /\ ~bad /\ i = "HALT" -> "HLT"
                     [] OTHER -> "AOK",
        !.next = [icode |-> i, cnd |-> cnd, valC |-> f.valc, valP |-> f.next,
                  valM |-> IF mem_read(i) THEN get_word_val(u.m, addr) ELSE 0,
                  cc   |-> IF i \in {"ALU", "IADDL"} THEN compute_cc(fun, a, b) ELSE u.cc,
                  dstE |-> dstE(i, f.rb, cnd), valE |-> valE, dstM |-> dstM(i, f.ra),
                  write |-> mem_write(i), addr |-> addr,
                  data |-> IF i = "CALL" THEN f.next ELSE valA]]

\* What yis would show between two cycles: the changes of an instruction that has not
\* failed are as good as made.
SeqVisible(z) == LET u == IF z.status = "AOK" THEN seq_update_state(z) ELSE z
                 IN  [pc |-> u.pc, r |-> u.r, m |-> u.m, cc |-> u.cc]
==============================================================================
