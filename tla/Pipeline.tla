--------------------------------- MODULE Pipeline --------------------------------
(***************************************************************************)
(* The pipelined simulator (archlab/sim/pipe/psim.c) with the control      *)
(* logic of pipe-std.hcl or pipe-full.hcl.  Every pipe register has a      *)
(* current and a next value and an operation that says which one the next  *)
(* cycle begins with.  A cycle makes the changes that the cycle before it  *)
(* has prepared, updates the pipe registers, and runs the five stages.     *)
(***************************************************************************)
EXTENDS Control

Failed == {"ADR", "INS", "HLT"}

bubble == [F |-> [pc |-> 0],
           D |-> [icode |-> "NOP", ifun |-> 0, ra |-> NONE, rb |-> NONE, valC |-> 0,
                  valP |-> 0, stat |-> "BUB", pc |-> 0],
           E |-> [icode |-> "NOP", ifun |-> 0, valC |-> 0, valA |-> 0, valB |-> 0,
                  dstE |-> NONE, dstM |-> NONE, stat |-> "BUB", pc |-> 0],
           M |-> [icode |-> "NOP", cnd |-> FALSE, valE |-> 0, valA |-> 0,
                  dstE |-> NONE, dstM |-> NONE, stat |-> "BUB", pc |-> 0],
           W |-> [icode |-> "NOP", valE |-> 0, valM |-> 0,
                  dstE |-> NONE, dstM |-> NONE, stat |-> "BUB", pc |-> 0]]
Stages == DOMAIN bubble

sim_reset(m) ==
  [m |-> m, r |-> [id \in RegIds |-> 0], cc |-> DEFAULT_CC, cc_in |-> DEFAULT_CC,
   cur |-> bubble, next |-> bubble, op |-> [s \in Stages |-> "LOAD"],
   f_pc |-> 0, write |-> FALSE, addr |-> 0, data |-> 0, status |-> "AOK"]

\* The changes that the cycle before has prepared. Near the end of a run the ones of an
\* instruction that is behind the last one to complete are not made.
update_state(p, max_instr) ==
  LET ahead_mem == IF p.cur.W.stat = "BUB" THEN 0 ELSE 1
      ahead_ex  == ahead_mem + IF p.next.W.stat = "BUB" THEN 0 ELSE 1
      w         == p.cur.W
  IN  [p EXCEPT !.r  = Write(@, w.dstE, w.valE, w.dstM, w.valM),
                !.m  = IF p.write /\ ahead_mem < max_instr
                       THEN set_word_val(@, p.addr, p.data) ELSE @,
                !.cc = IF ahead_ex < max_instr THEN p.cc_in ELSE @]

update_pipes(p) ==
  [p EXCEPT !.cur =
     [s \in Stages |->
        CASE p.op[s] = "LOAD"  -> p.next[s]
          [] p.op[s] = "STALL" -> p.cur[s]
          [] p.op[s] = "ERROR" /\ s # "F" -> [bubble[s] EXCEPT !.stat = "PIP"]
          [] OTHER -> bubble[s]]]

------------------------------------------------------------------------------
do_if_stage(v, p) ==
  LET pc == CASE p.cur.M.icode = "JMP" /\ ~p.cur.M.cnd -> p.cur.M.valA
              [] p.cur.W.icode = "RET" -> p.cur.W.valM
              [] OTHER -> p.cur.F.pc
      f  == Fetch(v, p.m, pc)
      error == ~Byte_ok(pc) \/ ~Byte_ok(pc + 1 + WordBytes)
      d  == IF error
            THEN [bubble.D EXCEPT !.stat = "ADR", !.pc = pc, !.valP = pc + 1]
            ELSE [icode |-> f.icode, ifun |-> f.ifun, ra |-> f.ra, rb |-> f.rb,
                  valC |-> f.valc, valP |-> f.next, pc |-> pc,
                  stat |-> CASE f.icode = "BAD"  -> "INS"
                             [] f.icode = "HALT" -> "HLT"
                             [] OTHER -> "AOK"]
  IN  [p EXCEPT !.f_pc = pc, !.next.D = d,
                !.next.F.pc = IF d.icode \in {"JMP", "CALL"} THEN d.valC ELSE d.valP]

do_mem_stage(p) ==
  LET M    == p.cur.M
      addr == mem_addr(M.icode, M.valE, M.valA)
      bad  == (mem_read(M.icode) \/ mem_write(M.icode)) /\ ~Word_ok(addr)
  IN  [p EXCEPT !.write = mem_write(M.icode), !.addr = addr, !.data = M.valA,
                !.next.W = [icode |-> M.icode, valE |-> M.valE, dstE |-> M.dstE,
                            dstM |-> M.dstM, pc |-> M.pc,
                            valM |-> IF mem_read(M.icode) THEN get_word_val(p.m, addr) ELSE 0,
                            stat |-> IF bad THEN "ADR" ELSE M.stat]]

\* m_stat and W_stat stop the changes of the instructions behind a failed one.
Failing(p) == p.next.W.stat \in Failed \/ p.cur.W.stat \in Failed

\* Mutant: an instruction behind a failed one changes the condition codes.
set_cc_Always(p) == p.cur.E.icode \in {"ALU", "IADDL"}

set_cc(p) == p.cur.E.icode \in {"ALU", "IADDL"} /\ ~Failing(p)

do_ex_stage(p) ==
  LET E    == p.cur.E
      a    == aluA(E.icode, E.valA, E.valC)
      b    == aluB(E.icode, E.valB)
      fun  == alufun(E.icode, E.ifun)
      cnd  == cond_holds(p.cc, E.ifun)
  IN  [p EXCEPT !.cc_in = IF set_cc(p) THEN compute_cc(fun, a, b) ELSE @,
                !.next.M = [icode |-> E.icode, cnd |-> cnd, valE |-> compute_alu(fun, a, b),
                            valA |-> E.valA, dstM |-> E.dstM, stat |-> E.stat, pc |-> E.pc,
                            dstE |-> IF E.icode = "RRMOVL" /\ ~cnd THEN NONE ELSE E.dstE]]

\* Mutant: the value that is loaded is not forwarded from the memory stage.
forward_NoLoad(p, src) ==
  LET n == p.next  IN
  CASE src = n.M.dstE -> n.M.valE
    [] src # n.M.dstE /\ src = p.cur.M.dstE -> p.cur.M.valE
    [] src \notin {n.M.dstE, p.cur.M.dstE} /\ src = p.cur.W.dstM -> p.cur.W.valM
    [] src \notin {n.M.dstE, p.cur.M.dstE, p.cur.W.dstM} /\ src = p.cur.W.dstE -> p.cur.W.valE
    [] OTHER -> get_reg_val(p.r, src)

\* The newest value of register src that is on its way to the register file. Register
\* NONE is forwarded like any other.
forward(p, src) ==
  LET e == p.next.M  m == p.cur.M  W == p.cur.W
  IN  CASE src = e.dstE -> e.valE
        [] src # e.dstE /\ src = m.dstM -> p.next.W.valM
        [] src \notin {e.dstE, m.dstM} /\ src = m.dstE -> m.valE
        [] src \notin {e.dstE, m.dstM, m.dstE} /\ src = W.dstM -> W.valM
        [] src \notin {e.dstE, m.dstM, m.dstE, W.dstM} /\ src = W.dstE -> W.valE
        [] OTHER -> get_reg_val(p.r, src)

do_id_wb_stages(p) ==
  LET D == p.cur.D
  IN  [p EXCEPT !.status = IF p.cur.W.stat = "BUB" THEN "AOK" ELSE p.cur.W.stat,
                !.next.E = [icode |-> D.icode, ifun |-> D.ifun, valC |-> D.valC,
                            valA |-> IF D.icode \in {"CALL", "JMP"} THEN D.valP
                                     ELSE forward(p, srcA(D.icode, D.ra)),
                            valB |-> forward(p, srcB(D.icode, D.rb)),
                            dstE |-> dstE(D.icode, D.rb, TRUE), dstM |-> dstM(D.icode, D.ra),
                            stat |-> D.stat, pc |-> D.pc]]

------------------------------------------------------------------------------
(* The stall and bubble conditions of the five pipe registers.             *)

load_use(p) ==
  LET D == p.cur.D  E == p.cur.E
  IN  E.icode \in {"MRMOVL", "POPL"} /\ E.dstM \in {srcA(D.icode, D.ra), srcB(D.icode, D.rb)}
mispredicted(p) == p.cur.E.icode = "JMP" /\ ~p.next.M.cnd

ret_ahead(p) == "RET" \in {p.cur.D.icode, p.cur.E.icode, p.cur.M.icode}

F_stall(p)  == load_use(p) \/ ret_ahead(p)
D_stall(p)  == load_use(p)

\* Mutant: a ret that waits for its register is also replaced by a bubble.
D_bubble_Ret(p) == mispredicted(p) \/ ret_ahead(p)

D_bubble(p) == mispredicted(p) \/ (~load_use(p) /\ ret_ahead(p))
E_bubble(p) == mispredicted(p) \/ load_use(p)
M_bubble(p) == Failing(p)
W_stall(p)  == p.cur.W.stat \in Failed

pipe_cntl(stall, bub) == CASE stall /\ bub   -> "ERROR"
                           [] stall /\ ~bub  -> "STALL"
                           [] ~stall /\ bub  -> "BUBBLE"
                           [] OTHER -> "LOAD"

do_stall_check(p) ==
  [p EXCEPT !.op = [F |-> pipe_cntl(F_stall(p), FALSE),
                    D |-> pipe_cntl(D_stall(p), D_bubble(p)),
                    E |-> pipe_cntl(FALSE, E_bubble(p)),
                    M |-> pipe_cntl(FALSE, M_bubble(p)),
                    W |-> pipe_cntl(W_stall(p), FALSE)]]

\* One cycle, of a run that is to execute max_instr more instructions.
sim_step_pipe(v, max_instr, p) ==
  do_stall_check(do_id_wb_stages(do_ex_stage(do_mem_stage(do_if_stage(v,
    update_pipes(update_state(p, max_instr)))))))

\* The address of the oldest instruction behind the one in W.
oldest_pc(p) ==
  LET x == p.cur
  IN  CASE x.M.stat # "BUB" -> x.M.pc
        [] x.M.stat = "BUB" /\ x.E.stat # "BUB" -> x.E.pc
        [] x.M.stat = "BUB" /\ x.E.stat = "BUB" /\ x.D.stat # "BUB" -> x.D.pc
        [] OTHER -> p.f_pc

\* What yis would show when the instructions up to the one in W have been executed: a
\* state before the oldest instruction behind it. The condition codes are the ones that
\* the cycle began with, before an instruction that is now in M set them.
PipeVisible(p, cc) ==
  LET w == p.cur.W
  IN  [pc |-> IF w.stat \in Failed THEN w.pc ELSE oldest_pc(p),
       r  |-> IF w.stat \in Failed THEN p.r ELSE Write(p.r, w.dstE, w.valE, w.dstM, w.valM),
       m  |-> p.m, cc |-> cc]
==============================================================================
