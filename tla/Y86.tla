--------------------------------- MODULE Y86 ---------------------------------
(***************************************************************************)
(* A run of a Y86 simulator in TTY mode (run_tty_sim of psim.c and ssim.c) *)
(* with its check: the simulator executes the program that was loaded,     *)
(* cycle by cycle, until it fails, halts or reaches the limit, and then    *)
(* step_state executes the program again and the two states are compared.  *)
(***************************************************************************)
EXTENDS Pipeline, Sequential

CONSTANTS Simulators,   \* pairs of "PIPE" or "SEQ" and the instructions that version adds
          Programs,     \* memories, as load_mem leaves them
          InstrLimit

ASSUME LimitAssumption == InstrLimit \in Nat
ASSUME ProgramAssumption == Programs \subseteq [0 .. MEM_SIZE - 1 -> 0 .. 255]
\* pipe-full.hcl adds iaddl, seq-full.hcl also leave.
ASSUME SimulatorAssumption ==
  \A s \in Simulators : \/ s[1] = "PIPE" /\ s[2] \subseteq {"IADDL"}
                        \/ s[1] = "SEQ" /\ s[2] \subseteq {"IADDL", "LEAVE"}

VARIABLES sim, v,       \* the simulator
          prog,         \* the memory at the beginning
          mach,         \* its state
          cc0,          \* the condition codes when the last cycle began
          icount, ccount, run_status,
          idle,         \* cycles since an instruction was in write back
          touched,      \* where the memory has ever differed from the program
          plain,        \* every instruction so far was a plain one (see below)
          match         \* the verdict of the check, "NONE" before it
vars == <<sim, v, prog, mach, cc0, icount, ccount, run_status, idle, touched, plain, match>>

\* What yis would show now, and what became of the instruction that was the last to
\* complete: BUB when the last cycle completed none.
Visible == IF sim = "SEQ" THEN SeqVisible(mach) ELSE PipeVisible(mach, cc0)
Outcome == IF sim = "SEQ" THEN mach.status ELSE mach.cur.W.stat

(* An instruction is plain if the simulators promise to execute it as yis does. It is  *)
(* not when it is one of another version, names registers it must not, has ever been   *)
(* changed (stores to code that is in the pipeline are not noticed, and the code may   *)
(* have been put back since), or is so near the end of the memory that PIPE, which     *)
(* reads the longest instruction, cannot fetch it. A memory operand without a base     *)
(* register is not plain either: PIPE takes the value of any instruction ahead that    *)
(* writes no register for the one of the missing base.                                 *)
Plain(s) ==
  LET d == Decode(s.m, s.pc)
      named == CheckedRegs(d) \union (IF d.icode = "ALU" THEN {d.ra, d.rb} ELSE {})
                              \union (IF d.icode \in {"RMMOVL", "MRMOVL"} THEN {d.rb} ELSE {})
  IN  /\ Byte_ok(s.pc) /\ Byte_ok(s.pc + 1 + WordBytes)
      /\ \A a \in s.pc .. s.pc + 1 + WordBytes : a \notin touched
      /\ d.icode \in Standard \union v \union {"BAD"}
      /\ named \subseteq RegIds

\* PIPE stops making the changes of the last instructions before the limit.
NearLimit == sim = "PIPE" /\ InstrLimit - icount <= 2

------------------------------------------------------------------------------
\* A run of psim or of ssim begins when the program has been loaded.
PipeStart == sim = "PIPE" /\ mach = sim_reset(prog)
SeqStart  == sim = "SEQ"  /\ mach = seq_sim_reset(prog)

Init ==
  /\ \E s \in Simulators : sim = s[1] /\ v = s[2]
  /\ prog \in Programs
  /\ PipeStart \/ SeqStart
  /\ cc0 = DEFAULT_CC
  /\ icount = 0 /\ ccount = 0 /\ run_status = "AOK"
  /\ idle = 0 /\ touched = {} /\ plain = TRUE /\ match = "NONE"

Running == /\ match = "NONE" /\ run_status = "AOK" /\ icount < InstrLimit
           /\ sim = "PIPE" => ccount < 5 * InstrLimit

\* What both simulators do around a cycle. A cycle in which no instruction completes has
\* the status AOK, so PIPE counts it among the instructions.
Count == /\ Running
         /\ icount' = icount + 1
         /\ cc0' = mach.cc
         /\ run_status' = mach'.status
         /\ touched' = touched \union {a \in DOMAIN prog : mach'.m[a] # prog[a]}
         /\ plain' = (plain /\ Plain(Visible) /\ ~NearLimit)
         /\ UNCHANGED <<sim, v, prog, match>>

\* sim_run_pipe
PipeCycle == /\ sim = "PIPE"
             /\ mach' = sim_step_pipe(v, InstrLimit - icount, mach)
             /\ Count
             /\ ccount' = IF mach'.status = "AOK" THEN ccount + 1 ELSE ccount
             /\ idle' = IF mach'.cur.W.stat = "BUB" THEN idle + 1 ELSE 0

\* sim_run
SeqCycle == /\ sim = "SEQ"
            /\ mach' = sim_step(v, mach)
            /\ Count
            /\ UNCHANGED <<ccount, idle>>

\* The states and statuses of step_state, from the program on; it stays in a state with
\* another status than AOK.
IsaRun ==
  LET run[n \in 0 .. InstrLimit] ==
        IF n = 0 THEN [s |-> new_state(prog), status |-> "AOK"]
        ELSE LET before == run[n - 1]
             IN  IF before.status = "AOK" THEN step_state(before.s) ELSE before
  IN  run[InstrLimit]

\* The check compares registers, memory and condition codes, not the statuses.
Check == /\ ~Running /\ match = "NONE"
         /\ match' = LET isa_state == IsaRun.s IN
                     IF \/ diff_reg(isa_state.r, mach.r)
                        \/ diff_mem(isa_state.m, mach.m)
                        \/ isa_state.cc # mach.cc
                     THEN "FAILS" ELSE "SUCCEEDS"
         /\ UNCHANGED <<sim, v, prog, mach, cc0, icount, ccount, run_status, idle, touched, plain>>

Next == PipeCycle \/ SeqCycle \/ Check
Spec == Init /\ [][Next]_vars

------------------------------------------------------------------------------
\* A simulator refines the instruction set, cycle by cycle: while instructions overlap in
\* the pipeline, values are forwarded, wrong branches are fetched and stalls repeat
\* cycles, what has been completed is always what step_state makes of the instruction
\* that is due, and one that fails changes nothing.
Implements ==
  LET due == step_state(Visible) IN
  Plain(Visible) /\ ~NearLimit /\ match' = "NONE" =>
    CASE Outcome' = "BUB" -> Visible' = Visible
      [] Outcome' = "AOK" -> Visible' = due.s /\ due.status = "AOK"
      [] OTHER -> Visible' = Visible /\ due.status = Outcome'
ImplementsISA == [][Implements]_vars

\* The stall and bubble conditions of a pipe register never hold together ("At most one
\* of these can be true", pipe-std.hcl), whatever hazards meet in the pipeline.
NoConflict == sim = "PIPE" => \A s \in Stages : mach.op[s] # "ERROR"

\* And some instruction completes in every fifth cycle at least, as the bound 5*instr_limit
\* on the cycles assumes; when the pipeline has filled, in every fourth.
FiveCycles == idle <= 4 /\ (sim = "PIPE" /\ ccount > 5 => idle <= 3)

\* The hazard control loses no cycle and gives no contradictory orders.
HazardControl == NoConflict /\ FiveCycles

\* The run has ended at an instruction of the stack whose address is wrong: yis has moved
\* %esp before it noticed, the simulator has not, and nothing else differs.
OnlyStackMoved ==
  LET s == Visible
      d == Decode(s.m, s.pc)
      a == MemAddress(s, d)
      isa == IsaRun.s
  IN  /\ run_status = "ADR" /\ DecodeStatus(d) = "AOK"
      /\ d.icode \in {"PUSHL", "CALL", "POPL", "LEAVE"} /\ ~Word_ok(a)
      /\ isa.m = mach.m /\ isa.cc = mach.cc
      /\ isa.r = set_reg_val(mach.r, ESP, IF d.icode \in {"PUSHL", "CALL"} THEN a
                                         ELSE Word(a + WordBytes))

\* The check of a run that ends by itself succeeds, and has one reason alone to fail: nothing
\* that an instruction behind the failed one has begun shows in registers, memory or
\* condition codes, and every instruction before it is complete.
CheckSucceeds ==
  match # "NONE" /\ plain /\ run_status # "AOK" => match = "SUCCEEDS" \/ OnlyStackMoved
==============================================================================
