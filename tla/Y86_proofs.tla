------------------------------ MODULE Y86_proofs ------------------------------
(***************************************************************************)
(* The Y86 simulators, for every program, every word size and memory size, *)
(* every limit of instructions and every set of added instructions.        *)
(***************************************************************************)
EXTENDS Y86, FiniteSetTheorems, WellFoundedInduction, TLAPS

------------------------------------------------------------------------------
(***************************************************************************)
(* What each part of a cycle of the pipeline does to the pipe registers.   *)
(***************************************************************************)
Fields == {"m", "r", "cc", "cc_in", "cur", "next", "op", "f_pc", "write", "addr", "data",
           "status"}
Shape(p) == DOMAIN p = Fields /\ DOMAIN p.next = Stages

LEMMA StageNames == Stages = {"F", "D", "E", "M", "W"}
  BY DEF Stages, bubble

LEMMA UpdateEffect ==
  ASSUME NEW n, NEW p, Shape(p), NEW q, q = update_pipes(update_state(p, n))
  PROVE  Shape(q) /\ q.cur = update_pipes(p).cur /\ q.next = p.next
<1> DEFINE u == update_state(p, n)
<1>1. DOMAIN u = Fields /\ u.cur = p.cur /\ u.next = p.next /\ u.op = p.op
  BY DEF update_state, Shape, Fields
<1> HIDE DEF u
<1>2. q = update_pipes(u)
  BY DEF u
<1>3. DOMAIN q = Fields /\ q.next = u.next
  BY <1>1, <1>2 DEF update_pipes, Fields
<1>4. q.cur = update_pipes(p).cur
  BY <1>1, <1>2 DEF update_pipes, Shape, Fields
<1> QED
  BY <1>1, <1>3, <1>4 DEF Shape

Fetched == {"AOK"} \union Failed

LEMMA FetchEffect ==
  ASSUME NEW w, NEW p, Shape(p), NEW q, q = do_if_stage(w, p)
  PROVE  Shape(q) /\ q.cur = p.cur /\ q.next.D.stat \in Fetched
  BY ZenonT(60), StageNames DEF do_if_stage, Shape, Fields, Fetched, Failed, bubble

LEMMA MemEffect ==
  ASSUME NEW p, Shape(p), NEW q, q = do_mem_stage(p)
  PROVE  /\ Shape(q) /\ q.cur = p.cur /\ q.next.D = p.next.D
         /\ q.next.W.icode = p.cur.M.icode
         /\ \/ q.next.W.stat = p.cur.M.stat
            \/ q.next.W.stat = "ADR" /\ (mem_read(p.cur.M.icode) \/ mem_write(p.cur.M.icode))
  BY StageNames DEF do_mem_stage, Shape, Fields

LEMMA ExEffect ==
  ASSUME NEW p, Shape(p), NEW q, q = do_ex_stage(p)
  PROVE  /\ Shape(q) /\ q.cur = p.cur /\ q.next.D = p.next.D /\ q.next.W = p.next.W
         /\ q.next.M.icode = p.cur.E.icode /\ q.next.M.stat = p.cur.E.stat
  BY StageNames DEF do_ex_stage, Shape, Fields

LEMMA DecodeEffect ==
  ASSUME NEW p, Shape(p), NEW q, q = do_id_wb_stages(p)
  PROVE  /\ Shape(q) /\ q.cur = p.cur
         /\ q.next.D = p.next.D /\ q.next.M = p.next.M /\ q.next.W = p.next.W
         /\ q.next.E.icode = p.cur.D.icode /\ q.next.E.stat = p.cur.D.stat
         /\ q.status = IF p.cur.W.stat = "BUB" THEN "AOK" ELSE p.cur.W.stat
  BY StageNames DEF do_id_wb_stages, Shape, Fields

LEMMA ControlEffect ==
  ASSUME NEW p, Shape(p), NEW q, q = do_stall_check(p)
  PROVE  /\ Shape(q) /\ q.cur = p.cur /\ q.next = p.next /\ q.status = p.status
         /\ q.op.F = pipe_cntl(F_stall(p), FALSE)
         /\ q.op.D = pipe_cntl(D_stall(p), D_bubble(p))
         /\ q.op.E = pipe_cntl(FALSE, E_bubble(p))
         /\ q.op.M = pipe_cntl(FALSE, M_bubble(p))
         /\ q.op.W = pipe_cntl(W_stall(p), FALSE)
  BY DEF do_stall_check, Shape, Fields

\* The conditions of the control logic depend on the pipe registers only.
LEMMA SameConditions ==
  ASSUME NEW p, NEW q, q.cur = p.cur, q.next = p.next
  PROVE  /\ load_use(q) = load_use(p) /\ mispredicted(q) = mispredicted(p)
         /\ ret_ahead(q) = ret_ahead(p) /\ Failing(q) = Failing(p)
  BY DEF load_use, mispredicted, ret_ahead, Failing

\* What a cycle leaves, from the pipe registers x that it begins with.
Cycled(x, q) ==
  /\ Shape(q) /\ q.cur = x /\ q.next.D.stat \in Fetched
  /\ q.next.E.icode = x.D.icode /\ q.next.E.stat = x.D.stat
  /\ q.next.M.icode = x.E.icode /\ q.next.M.stat = x.E.stat
  /\ q.next.W.icode = x.M.icode
  /\ \/ q.next.W.stat = x.M.stat
     \/ q.next.W.stat = "ADR" /\ (mem_read(x.M.icode) \/ mem_write(x.M.icode))
  /\ q.status = (IF x.W.stat = "BUB" THEN "AOK" ELSE x.W.stat)
  /\ q.op.F = pipe_cntl(F_stall(q), FALSE)
  /\ q.op.D = pipe_cntl(D_stall(q), D_bubble(q))
  /\ q.op.E = pipe_cntl(FALSE, E_bubble(q))
  /\ q.op.M = pipe_cntl(FALSE, M_bubble(q))
  /\ q.op.W = pipe_cntl(W_stall(q), FALSE)

LEMMA CycleEffect ==
  ASSUME NEW w, NEW n, NEW p, Shape(p)
  PROVE  Cycled(update_pipes(p).cur, sim_step_pipe(w, n, p))
<1> DEFINE q == sim_step_pipe(w, n, p)
           x == update_pipes(p).cur
<1>1. PICK p1 : p1 = update_pipes(update_state(p, n))
  OBVIOUS
<1>2. PICK p2 : p2 = do_if_stage(w, p1)
  OBVIOUS
<1>3. PICK p3 : p3 = do_mem_stage(p2)
  OBVIOUS
<1>4. PICK p4 : p4 = do_ex_stage(p3)
  OBVIOUS
<1>5. PICK p5 : p5 = do_id_wb_stages(p4)
  OBVIOUS
<1>6. q = do_stall_check(p5)
  BY <1>1, <1>2, <1>3, <1>4, <1>5 DEF sim_step_pipe
<1> HIDE DEF q
<1>7. Shape(p1) /\ p1.cur = x
  BY <1>1, UpdateEffect
<1>8. Shape(p2) /\ p2.cur = x /\ p2.next.D.stat \in Fetched
  BY <1>2, <1>7, FetchEffect
<1>9. /\ Shape(p3) /\ p3.cur = x /\ p3.next.D = p2.next.D
      /\ p3.next.W.icode = x.M.icode
      /\ \/ p3.next.W.stat = x.M.stat
         \/ p3.next.W.stat = "ADR" /\ (mem_read(x.M.icode) \/ mem_write(x.M.icode))
  BY <1>3, <1>8, MemEffect
<1>10. /\ Shape(p4) /\ p4.cur = x /\ p4.next.D = p3.next.D /\ p4.next.W = p3.next.W
       /\ p4.next.M.icode = x.E.icode /\ p4.next.M.stat = x.E.stat
  BY <1>4, <1>9, ExEffect
<1>11. /\ Shape(p5) /\ p5.cur = x
       /\ p5.next.D = p4.next.D /\ p5.next.M = p4.next.M /\ p5.next.W = p4.next.W
       /\ p5.next.E.icode = x.D.icode /\ p5.next.E.stat = x.D.stat
       /\ p5.status = IF x.W.stat = "BUB" THEN "AOK" ELSE x.W.stat
  BY <1>5, <1>10, DecodeEffect
<1>12. /\ Shape(q) /\ q.cur = x /\ q.next = p5.next /\ q.status = p5.status
       /\ q.op.F = pipe_cntl(F_stall(p5), FALSE)
       /\ q.op.D = pipe_cntl(D_stall(p5), D_bubble(p5))
       /\ q.op.E = pipe_cntl(FALSE, E_bubble(p5))
       /\ q.op.M = pipe_cntl(FALSE, M_bubble(p5))
       /\ q.op.W = pipe_cntl(W_stall(p5), FALSE)
  BY ZenonT(60), <1>6, <1>11, ControlEffect
<1>13. /\ F_stall(q) = F_stall(p5) /\ D_stall(q) = D_stall(p5) /\ W_stall(q) = W_stall(p5)
       /\ D_bubble(q) = D_bubble(p5) /\ E_bubble(q) = E_bubble(p5)
       /\ M_bubble(q) = M_bubble(p5)
  BY <1>11, <1>12, SameConditions DEF F_stall, D_stall, D_bubble, E_bubble, M_bubble, W_stall
<1> HIDE DEF x
<1>14. Cycled(x, q)
  BY <1>8, <1>9, <1>10, <1>11, <1>12, <1>13 DEF Cycled
<1> QED
  BY <1>14 DEF q, x

------------------------------------------------------------------------------
(***************************************************************************)
(* How far the next instruction is from write back.                        *)
(***************************************************************************)
Behind == {"D", "E", "M", "W"}
Empty(x, s) == x[s].stat = "BUB"

\* Pipe registers in which whatever is empty holds a nop.
Regular(x) == \A s \in Behind : /\ x[s].stat \in Fetched \union {"BUB"}
                                /\ Empty(x, s) => x[s].icode = "NOP"

Distance(x) == IF ~Empty(x, "W") THEN 0 ELSE
               IF ~Empty(x, "M") THEN 1 ELSE
               IF ~Empty(x, "E") THEN 2 ELSE
               IF ~Empty(x, "D") THEN 3 ELSE 4

\* The registers that the next cycle begins with.
Coming(p) == update_pipes(p).cur

LEMMA ComingIs ==
  ASSUME NEW p, NEW s \in Stages
  PROVE  /\ p.op[s] = "LOAD"   => Coming(p)[s] = p.next[s]
         /\ p.op[s] = "STALL"  => Coming(p)[s] = p.cur[s]
         /\ p.op[s] = "BUBBLE" => Coming(p)[s] = bubble[s]
<1>1. PICK c : c = [t \in Stages |->
                      CASE p.op[t] = "LOAD"  -> p.next[t]
                        [] p.op[t] = "STALL" -> p.cur[t]
                        [] p.op[t] = "ERROR" /\ t # "F" -> [bubble[t] EXCEPT !.stat = "PIP"]
                        [] OTHER -> bubble[t]]
  OBVIOUS
<1>2. c[s] = CASE p.op[s] = "LOAD"  -> p.next[s]
               [] p.op[s] = "STALL" -> p.cur[s]
               [] p.op[s] = "ERROR" /\ s # "F" -> [bubble[s] EXCEPT !.stat = "PIP"]
               [] OTHER -> bubble[s]
  BY <1>1
<1>3. Coming(p) = c
  BY <1>1 DEF Coming, update_pipes
<1> QED
  BY <1>2, <1>3

\* An order is never both to stall and to bubble: a load in execute is not a branch.
LEMMA OrdersAgree ==
  ASSUME NEW w, NEW n, NEW p, Shape(p), NEW q, q = sim_step_pipe(w, n, p), NEW s \in Stages
  PROVE  q.op[s] \in {"LOAD", "STALL", "BUBBLE"}
<1>1. PICK x : x = update_pipes(p).cur
  OBVIOUS
<1>2. /\ q.op.F = pipe_cntl(F_stall(q), FALSE)
      /\ q.op.D = pipe_cntl(D_stall(q), D_bubble(q))
      /\ q.op.E = pipe_cntl(FALSE, E_bubble(q))
      /\ q.op.M = pipe_cntl(FALSE, M_bubble(q))
      /\ q.op.W = pipe_cntl(W_stall(q), FALSE)
  <2>1. Cycled(x, q)
    BY <1>1, CycleEffect
  <2> QED
    BY <2>1 DEF Cycled
<1>3. ASSUME NEW st \in BOOLEAN, NEW bu \in BOOLEAN, ~(st /\ bu)
      PROVE  pipe_cntl(st, bu) \in {"LOAD", "STALL", "BUBBLE"}
  BY <1>3 DEF pipe_cntl
<1>4. /\ F_stall(q) \in BOOLEAN /\ D_stall(q) \in BOOLEAN /\ W_stall(q) \in BOOLEAN
      /\ D_bubble(q) \in BOOLEAN /\ E_bubble(q) \in BOOLEAN /\ M_bubble(q) \in BOOLEAN
  BY DEF F_stall, D_stall, D_bubble, E_bubble, M_bubble, W_stall, load_use, mispredicted,
         ret_ahead, Failing
<1>5. ~(D_stall(q) /\ D_bubble(q))
  BY DEF D_stall, D_bubble, load_use, mispredicted
<1>6. /\ q.op.F \in {"LOAD", "STALL", "BUBBLE"} /\ q.op.D \in {"LOAD", "STALL", "BUBBLE"}
      /\ q.op.E \in {"LOAD", "STALL", "BUBBLE"} /\ q.op.M \in {"LOAD", "STALL", "BUBBLE"}
      /\ q.op.W \in {"LOAD", "STALL", "BUBBLE"}
  <2>1. FALSE \in BOOLEAN
    OBVIOUS
  <2> QED
    BY ZenonT(60), <1>2, <1>3, <1>4, <1>5, <2>1
<1> QED
  BY <1>6, StageNames

\* After a cycle that completes an instruction that has not failed, or none, the registers
\* are regular, and the next instruction is one cycle nearer to write back. What follows an
\* instruction that has completed is at most three cycles behind it: a stall or a bubble is
\* always due to an instruction that is further on.
LEMMA CycleAdvances ==
  ASSUME NEW w, NEW n, NEW p, Shape(p), NEW q, q = sim_step_pipe(w, n, p),
         NEW x, x = Coming(p), Regular(x), x.W.stat \notin Failed
  PROVE  /\ Regular(Coming(q))
         /\ Distance(Coming(q)) <= IF Empty(x, "W") THEN Distance(x) - 1 ELSE 3
<1>1. PICK y : y = Coming(q)
  OBVIOUS
<1>2. /\ Shape(q) /\ q.cur = x /\ q.next.D.stat \in Fetched
      /\ q.next.E.icode = x.D.icode /\ q.next.E.stat = x.D.stat
      /\ q.next.M.icode = x.E.icode /\ q.next.M.stat = x.E.stat
      /\ q.next.W.icode = x.M.icode
      /\ \/ q.next.W.stat = x.M.stat
         \/ q.next.W.stat = "ADR" /\ (mem_read(x.M.icode) \/ mem_write(x.M.icode))
      /\ q.op.D = pipe_cntl(D_stall(q), D_bubble(q))
      /\ q.op.E = pipe_cntl(FALSE, E_bubble(q))
      /\ q.op.M = pipe_cntl(FALSE, M_bubble(q))
      /\ q.op.W = pipe_cntl(W_stall(q), FALSE)
  <2>1. Cycled(x, q)
    BY CycleEffect DEF Coming
  <2> QED
    BY <2>1 DEF Cycled
<1>3. ASSUME NEW s \in Behind
      PROVE  /\ x[s].stat \in Fetched \union {"BUB"}
             /\ Empty(x, s) => x[s].icode = "NOP"
  BY DEF Regular
<1>4. ASSUME NEW s \in Behind
      PROVE  \/ q.op[s] = "LOAD" /\ y[s] = q.next[s]
             \/ q.op[s] = "STALL" /\ y[s] = x[s]
             \/ q.op[s] = "BUBBLE" /\ y[s] = bubble[s]
  <2>1. s \in Stages
    BY StageNames DEF Behind
  <2> QED
    BY <1>1, <1>2, <2>1, ComingIs, OrdersAgree
<1>5. /\ \A s \in Behind : bubble[s].stat = "BUB" /\ bubble[s].icode = "NOP"
      /\ "BUB" \notin Fetched /\ Failed \subseteq Fetched
  BY DEF Behind, bubble, Fetched, Failed
<1>6. /\ q.next.W.stat \in Fetched \union {"BUB"}
      /\ q.next.W.stat = "BUB" => x.M.stat = "BUB" /\ q.next.W.icode = "NOP"
      /\ x.M.stat = "BUB" => q.next.W.stat = "BUB"
  BY <1>2, <1>3, <1>5 DEF Behind, Fetched, Failed, Empty, mem_read, mem_write
<1>7. Regular(y)
  <2>1. ASSUME NEW s \in Behind
        PROVE  /\ q.next[s].stat \in Fetched \union {"BUB"}
               /\ q.next[s].stat = "BUB" => q.next[s].icode = "NOP"
    BY <1>2, <1>3, <1>5, <1>6 DEF Behind, Empty
  <2>2. ASSUME NEW s \in Behind
        PROVE  y[s].stat \in Fetched \union {"BUB"} /\ (Empty(y, s) => y[s].icode = "NOP")
    <3>1. CASE y[s] = q.next[s]
      BY <2>1, <3>1 DEF Empty
    <3>2. CASE y[s] = x[s]
      BY <1>3, <3>2 DEF Empty
    <3>3. CASE y[s] = bubble[s]
      BY <1>5, <3>3
    <3> QED
      BY <1>4, <3>1, <3>2, <3>3
  <2> QED
    BY <2>2 DEF Regular
<1>8. q.op.W = "LOAD"
  <2>1. W_stall(q) = FALSE
    BY <1>2 DEF W_stall
  <2> QED
    BY <1>2, <2>1 DEF pipe_cntl
<1>9. y.W.stat = q.next.W.stat
  BY <1>4, <1>8 DEF Behind
<1>10. x.M.stat = "BUB" => y.M.stat = x.E.stat
  <2>1. SUFFICES ASSUME x.M.stat = "BUB" PROVE y.M.stat = x.E.stat
    OBVIOUS
  <2>2. M_bubble(q) = FALSE
    BY <1>2, <1>6, <2>1 DEF M_bubble, Failing, Failed
  <2>3. q.op.M = "LOAD"
    BY <1>2, <2>2 DEF pipe_cntl
  <2> QED
    BY <1>2, <1>4, <2>3 DEF Behind
<1>11. x.E.stat = "BUB" => ~load_use(q) /\ ~mispredicted(q) /\ y.E.stat = x.D.stat
  <2>1. SUFFICES ASSUME x.E.stat = "BUB"
                 PROVE  ~load_use(q) /\ ~mispredicted(q) /\ y.E.stat = x.D.stat
    OBVIOUS
  <2>2. x.E.icode = "NOP"
    BY <1>3, <2>1 DEF Behind, Empty
  <2>3. ~load_use(q) /\ ~mispredicted(q)
    BY <1>2, <2>2 DEF load_use, mispredicted
  <2>4. E_bubble(q) = FALSE
    BY <2>3 DEF E_bubble
  <2>5. q.op.E = "LOAD"
    BY <1>2, <2>4 DEF pipe_cntl
  <2> QED
    BY <1>2, <1>4, <2>3, <2>5 DEF Behind
<1>12. x.M.stat = "BUB" /\ x.E.stat = "BUB" /\ x.D.stat = "BUB" => y.D.stat # "BUB"
  <2>1. SUFFICES ASSUME x.M.stat = "BUB", x.E.stat = "BUB", x.D.stat = "BUB"
                 PROVE  y.D.stat # "BUB"
    OBVIOUS
  <2>2. x.M.icode = "NOP" /\ x.E.icode = "NOP" /\ x.D.icode = "NOP"
    BY <1>3, <2>1 DEF Behind, Empty
  <2>3. ~ret_ahead(q)
    BY <1>2, <2>2 DEF ret_ahead
  <2>4. D_stall(q) = FALSE /\ D_bubble(q) = FALSE
    BY <1>11, <2>1, <2>3 DEF D_stall, D_bubble
  <2>5. q.op.D = "LOAD"
    BY <1>2, <2>4 DEF pipe_cntl
  <2> QED
    BY <1>2, <1>4, <1>5, <2>5 DEF Behind
<1>13. Distance(y) <= IF Empty(x, "W") THEN Distance(x) - 1 ELSE 3
  BY <1>6, <1>9, <1>10, <1>11, <1>12 DEF Distance, Empty
<1> QED
  BY <1>1, <1>7, <1>13

\* A run of the pipeline. Until an instruction completes at all, the cycles are counted
\* without exception; a run ends in the cycle in which a failed one completes.
PipeInv ==
  /\ Shape(mach)
  /\ \A s \in Stages : mach.op[s] \in {"LOAD", "STALL", "BUBBLE"}
  /\ idle \in Nat /\ ccount \in Nat
  /\ run_status = "AOK" =>
       /\ Regular(Coming(mach))
       /\ \/ idle + Distance(Coming(mach)) <= 3
          \/ idle + Distance(Coming(mach)) <= 4 /\ idle = ccount
  /\ run_status # "AOK" => idle = 0

HazardInv == /\ sim \in {"PIPE", "SEQ"}
             /\ sim = "PIPE" => PipeInv
             /\ sim = "SEQ" => idle = 0

LEMMA DistanceType == ASSUME NEW x PROVE Distance(x) \in 0 .. 4
  BY DEF Distance

LEMMA PipeCycleKeeps ==
  ASSUME sim = "PIPE", PipeInv, PipeCycle
  PROVE  PipeInv'
<1>1. PICK p, q : p = mach /\ q = mach'
  OBVIOUS
<1>2. PICK x : x = Coming(p)
  OBVIOUS
<1>3. /\ Shape(p) /\ Regular(x) /\ idle \in Nat /\ ccount \in Nat
      /\ \/ idle + Distance(x) <= 3
         \/ idle + Distance(x) <= 4 /\ idle = ccount
  BY <1>1, <1>2 DEF PipeInv, PipeCycle, Count, Running
<1>4. /\ q = sim_step_pipe(v, InstrLimit - icount, p)
      /\ run_status' = q.status
      /\ ccount' = (IF q.status = "AOK" THEN ccount + 1 ELSE ccount)
      /\ idle' = (IF q.cur.W.stat = "BUB" THEN idle + 1 ELSE 0)
  BY <1>1 DEF PipeCycle, Count
<1>5. /\ Shape(q) /\ q.cur = x
      /\ q.status = IF x.W.stat = "BUB" THEN "AOK" ELSE x.W.stat
  <2>1. Cycled(x, q)
    BY <1>2, <1>3, <1>4, CycleEffect DEF Coming
  <2> QED
    BY <2>1 DEF Cycled
<1>6. \A s \in Stages : q.op[s] \in {"LOAD", "STALL", "BUBBLE"}
  BY <1>3, <1>4, OrdersAgree
<1>7. idle' \in Nat /\ ccount' \in Nat
  BY <1>3, <1>4
<1>8. x.W.stat \in Fetched \union {"BUB"}
  BY <1>3 DEF Regular, Behind
<1>9. CASE x.W.stat \in Failed
  <2>1. run_status' # "AOK" /\ idle' = 0
    BY <1>4, <1>5, <1>9 DEF Failed
  <2> QED
    BY <1>1, <1>5, <1>6, <1>7, <2>1 DEF PipeInv
<1>10. CASE x.W.stat \notin Failed
  <2>1. PICK y : y = Coming(q)
    OBVIOUS
  <2>2. Regular(y) /\ Distance(y) <= IF Empty(x, "W") THEN Distance(x) - 1 ELSE 3
    BY <1>2, <1>3, <1>4, <1>10, <2>1, CycleAdvances
  <2>3. Distance(x) \in 0 .. 4 /\ Distance(y) \in 0 .. 4
    BY DistanceType
  <2>4. run_status' = "AOK" /\ ccount' = ccount + 1
    BY <1>4, <1>5, <1>8, <1>10 DEF Fetched
  <2>5. \/ idle' + Distance(y) <= 3
        \/ idle' + Distance(y) <= 4 /\ idle' = ccount'
    <3>1. CASE Empty(x, "W")
      <4>1. idle' = idle + 1 /\ Distance(y) <= Distance(x) - 1
        BY <1>4, <1>5, <2>2, <3>1 DEF Empty
      <4> QED
        BY <1>3, <2>3, <2>4, <4>1
    <3>2. CASE ~Empty(x, "W")
      <4>1. idle' = 0 /\ Distance(y) <= 3
        BY <1>4, <1>5, <2>2, <3>2 DEF Empty
      <4> QED
        BY <2>3, <4>1
    <3> QED
      BY <3>1, <3>2
  <2> QED
    BY <1>1, <1>5, <1>6, <1>7, <2>1, <2>2, <2>4, <2>5 DEF PipeInv
<1> QED
  BY <1>9, <1>10

THEOREM HazardInvariant == Spec => []HazardInv
<1>1. Init => HazardInv
  <2> SUFFICES ASSUME Init PROVE HazardInv
    OBVIOUS
  <2>1. CASE SeqStart
    BY <2>1 DEF Init, SeqStart, HazardInv
  <2>2. CASE PipeStart
    <3>1. sim = "PIPE" /\ mach = sim_reset(prog) /\ idle = 0 /\ ccount = 0 /\ run_status = "AOK"
      BY <2>2 DEF Init, PipeStart
    <3>2. /\ Shape(mach) /\ mach.next = bubble
          /\ \A s \in Stages : mach.op[s] = "LOAD"
      BY <3>1 DEF sim_reset, Shape, Fields, Stages
    <3>3. \A s \in Stages : Coming(mach)[s] = bubble[s]
      BY <3>2, ComingIs
    <3>4. \A s \in Behind : Coming(mach)[s].stat = "BUB" /\ Coming(mach)[s].icode = "NOP"
      <4>1. \A s \in Behind : s \in Stages /\ bubble[s].stat = "BUB" /\ bubble[s].icode = "NOP"
        BY StageNames DEF Behind, bubble
      <4> QED
        BY <3>3, <4>1
    <3>5. Regular(Coming(mach)) /\ Distance(Coming(mach)) = 4
      BY <3>4 DEF Regular, Distance, Empty, Behind
    <3> QED
      BY <3>1, <3>2, <3>5 DEF HazardInv, PipeInv
  <2> QED
    BY <2>1, <2>2 DEF Init
<1>2. HazardInv /\ [Next]_vars => HazardInv'
  <2> SUFFICES ASSUME HazardInv, [Next]_vars PROVE HazardInv'
    OBVIOUS
  <2>1. CASE PipeCycle
    <3>1. sim = "PIPE" /\ sim' = sim
      BY <2>1 DEF PipeCycle, Count
    <3> QED
      BY <2>1, <3>1, PipeCycleKeeps DEF HazardInv
  <2>2. CASE SeqCycle
    BY <2>2 DEF SeqCycle, Count, HazardInv
  <2>3. CASE Check
    BY <2>3 DEF Check, HazardInv, PipeInv
  <2>4. CASE UNCHANGED vars
    BY <2>4 DEF vars, HazardInv, PipeInv
  <2> QED
    BY <2>1, <2>2, <2>3, <2>4 DEF Next
<1> QED
  BY <1>1, <1>2, PTL DEF Spec

\* The stall and bubble conditions of pipe-std.hcl and pipe-full.hcl never hold together, and
\* psim.c, whatever it executes, completes an instruction in every fifth cycle, and in
\* every fourth once the pipeline has filled.
THEOREM ControlWithoutHazard == Spec => []HazardControl
<1>1. HazardInv => HazardControl
  <2> SUFFICES ASSUME HazardInv PROVE HazardControl
    OBVIOUS
  <2>1. CASE sim = "SEQ"
    BY <2>1 DEF HazardInv, HazardControl, NoConflict, FiveCycles
  <2>2. CASE sim = "PIPE"
    <3>1. Distance(Coming(mach)) \in 0 .. 4
      BY DistanceType
    <3> QED
      BY <2>2, <3>1 DEF HazardInv, PipeInv, HazardControl, NoConflict, FiveCycles
  <2> QED
    BY <2>1, <2>2 DEF HazardInv
<1> QED
  BY <1>1, HazardInvariant, PTL

------------------------------------------------------------------------------
(***************************************************************************)
(* Words and memories.                                                     *)
(***************************************************************************)
\* A set of numbers that has 0 and with each number the next has all.
LEMMA Induction ==
  ASSUME NEW P \in SUBSET Nat, 0 \in P, \A n \in P : n + 1 \in P
  PROVE  P = Nat
<1> DEFINE R == OpToRel(<, Nat)
           S == Nat \ P
<1>1. CASE S = {}
  BY <1>1
<1>2. CASE S # {}
  <2>1. PICK m \in S : \A k \in S : ~(<<k, m>> \in R)
    BY <1>2, NatLessThanWellFounded, WFMin
  <2>2. \A k, l \in Nat : k < l => <<k, l>> \in R
    BY DEF OpToRel
  <2> HIDE DEF R
  <2>3. m \in Nat /\ m # 0 /\ m - 1 \in Nat /\ m - 1 < m
    OBVIOUS
  <2>4. m - 1 \in P
    BY <2>1, <2>2, <2>3
  <2>5. (m - 1) + 1 \in P /\ (m - 1) + 1 = m
    BY <2>3, <2>4
  <2> QED
    BY <2>5
<1> QED
  BY <1>1, <1>2

LEMMA PowerType ==
  ASSUME NEW n \in Nat
  PROVE  2 ^ n \in Nat \ {0}
<1>1. IsFiniteSet(1 .. n) /\ Cardinality(1 .. n) = n
  BY FS_Interval
<1>2. IsFiniteSet(SUBSET (1 .. n)) /\ Cardinality(SUBSET (1 .. n)) = 2 ^ n
  BY <1>1, FS_SUBSET
<1>3. {} \in SUBSET (1 .. n)
  OBVIOUS
<1> QED
  BY <1>2, <1>3, FS_CardinalityType, FS_EmptySet

SumTo(f, t, n) == f = [i \in 0 .. n |-> IF i = 0 THEN 0 ELSE f[i - 1] + t[i]]

LEMMA SumExists ==
  ASSUME NEW n \in Nat, NEW t
  PROVE  \E f : SumTo(f, t, n)
<1> DEFINE P == {k \in Nat : \E f : SumTo(f, t, k)}
<1>1. 0 \in P
  <2>1. PICK f : f = [i \in 0 .. 0 |-> 0]
    OBVIOUS
  <2>2. SumTo(f, t, 0)
    BY <2>1 DEF SumTo
  <2> QED
    BY <2>2
<1>2. ASSUME NEW k \in P PROVE k + 1 \in P
  <2>1. PICK f : SumTo(f, t, k)
    OBVIOUS
  <2>2. PICK g : g = [i \in 0 .. k + 1 |-> IF i = k + 1 THEN f[k] + t[k + 1] ELSE f[i]]
    OBVIOUS
  <2>3. \A i \in 0 .. k : g[i] = f[i] /\ f[i] = IF i = 0 THEN 0 ELSE f[i - 1] + t[i]
    <3>1. \A i \in 0 .. k : f[i] = IF i = 0 THEN 0 ELSE f[i - 1] + t[i]
      BY <2>1, Zenon DEF SumTo
    <3> QED
      BY <2>2, <3>1
  <2>4. ASSUME NEW i \in 0 .. k + 1
        PROVE  g[i] = IF i = 0 THEN 0 ELSE g[i - 1] + t[i]
    <3>1. CASE i \in 0 .. k
      <4>1. i = 0 \/ i - 1 \in 0 .. k
        BY <3>1
      <4> QED
        BY <2>3, <3>1, <4>1
    <3>2. CASE i = k + 1
      <4>1. g[i] = f[k] + t[k + 1] /\ i - 1 = k /\ i # 0 /\ g[k] = f[k]
        BY <2>2, <2>3, <3>2
      <4> QED
        BY <3>2, <4>1
    <3> QED
      BY <3>1, <3>2
  <2>5. SumTo(g, t, k + 1)
    <3>1. g = [i \in 0 .. k + 1 |-> g[i]]
      BY <2>2
    <3>2. [i \in 0 .. k + 1 |-> g[i]]
            = [i \in 0 .. k + 1 |-> IF i = 0 THEN 0 ELSE g[i - 1] + t[i]]
      BY <2>4
    <3> QED
      BY <3>1, <3>2, Zenon DEF SumTo
  <2> QED
    BY <2>5
<1>3. P = Nat
  <2>1. P \in SUBSET Nat
    OBVIOUS
  <2> HIDE DEF P
  <2> QED
    BY <1>1, <1>2, <2>1, Induction
<1> QED
  BY <1>3

LEMMA TotalType ==
  ASSUME NEW n \in Nat, NEW t, \A i \in 1 .. n : t[i] \in Int
  PROVE  Total(t, n) \in Int
<1> DEFINE f == CHOOSE g : SumTo(g, t, n)
           P == {k \in Nat : k <= n => f[k] \in Int}
<1>1. SumTo(f, t, n)
  BY SumExists
<1>2. Total(t, n) = f[n]
  BY DEF Total, SumTo
<1> HIDE DEF f
<1>3. \A i \in 0 .. n : f[i] = IF i = 0 THEN 0 ELSE f[i - 1] + t[i]
  BY <1>1, Zenon DEF SumTo
<1>4. 0 \in P
  BY <1>3
<1>5. ASSUME NEW k \in P PROVE k + 1 \in P
  <2>1. CASE k + 1 <= n
    <3>1. k + 1 \in 0 .. n /\ k + 1 # 0 /\ (k + 1) - 1 = k /\ k + 1 \in 1 .. n /\ k <= n
      BY <2>1
    <3>2. f[k + 1] = f[k] + t[k + 1]
      BY <1>3, <3>1
    <3> QED
      BY <3>1, <3>2
  <2>2. CASE ~(k + 1 <= n)
    BY <2>2
  <2> QED
    BY <2>1, <2>2
<1>6. P = Nat
  <2>1. P \in SUBSET Nat
    OBVIOUS
  <2> HIDE DEF P
  <2> QED
    BY <1>4, <1>5, <2>1, Induction
<1> QED
  BY <1>2, <1>6

Words  == -(Base \div 2) .. Base - 1 - Base \div 2
Memory == [0 .. MEM_SIZE - 1 -> Int]
Registers == [RegIds -> Words]

LEMMA BaseType == Base \in Nat \ {0} /\ Base \div 2 \in 0 .. Base - 1
<1>1. 8 * WordBytes \in Nat
  BY WordAssumption
<1>2. Base \in Nat \ {0}
  BY <1>1, PowerType DEF Base
<1> QED
  BY <1>2

LEMMA WordsAreIntegers == Words \subseteq Int /\ 0 \in Words
  BY BaseType DEF Words

LEMMA WordType == ASSUME NEW n \in Int PROVE Word(n) \in Words
<1>1. PICK h : h = Base \div 2
  OBVIOUS
<1>2. h \in 0 .. Base - 1 /\ Base \in Nat \ {0}
  BY <1>1, BaseType
<1>3. (n + h) % Base \in 0 .. Base - 1
  BY <1>2
<1>4. Word(n) = ((n + h) % Base) - h
  BY <1>1 DEF Word
<1> QED
  BY <1>1, <1>2, <1>3, <1>4 DEF Words

LEMMA WordOfWord == ASSUME NEW n \in Words PROVE Word(n) = n
<1>1. PICK h : h = Base \div 2
  OBVIOUS
<1>2. h \in 0 .. Base - 1 /\ Base \in Nat \ {0}
  BY <1>1, BaseType
<1>3. n \in Int /\ n + h \in 0 .. Base - 1
  BY <1>1, <1>2 DEF Words
<1>4. (n + h) % Base = n + h
  BY <1>2, <1>3
<1>5. Word(n) = ((n + h) % Base) - h
  BY <1>1 DEF Word
<1> QED
  BY <1>2, <1>3, <1>4, <1>5

LEMMA ReadType ==
  ASSUME NEW m \in Memory, NEW pos \in Int
  PROVE  get_word_val(m, pos) \in Words /\ get_byte_val(m, pos) \in Int
<1>1. get_byte_val(m, pos) \in Int
  BY DEF get_byte_val, Byte_ok, Memory
<1>2. CASE Word_ok(pos)
  <2>1. PICK t : t = [i \in 1 .. WordBytes |-> m[pos + i - 1] * 2 ^ (8 * (i - 1))]
    OBVIOUS
  <2>2. ASSUME NEW i \in 1 .. WordBytes PROVE t[i] \in Int
    <3>1. 8 * (i - 1) \in Nat /\ (pos + i) - 1 \in 0 .. MEM_SIZE - 1
      BY <1>2, WordAssumption DEF Word_ok
    <3>2. 2 ^ (8 * (i - 1)) \in Int
      BY <3>1, PowerType
    <3>3. m[pos + i - 1] \in Int
      <4>1. pos + i - 1 \in 0 .. MEM_SIZE - 1
        BY <1>2, WordAssumption DEF Word_ok
      <4> QED
        BY <4>1 DEF Memory
    <3>4. t[i] = m[pos + i - 1] * 2 ^ (8 * (i - 1))
      BY <2>1
    <3> QED
      BY <3>2, <3>3, <3>4
  <2>3. Total(t, WordBytes) \in Int
    BY <2>2, TotalType, WordAssumption
  <2>4. get_word_val(m, pos) = Word(Total(t, WordBytes))
    BY <1>2, <2>1 DEF get_word_val
  <2> QED
    BY <1>1, <2>3, <2>4, WordType
<1>3. CASE ~Word_ok(pos)
  BY <1>1, <1>3, WordsAreIntegers DEF get_word_val
<1> QED
  BY <1>2, <1>3

LEMMA StoreType ==
  ASSUME NEW m \in Memory, NEW pos \in Int, NEW val \in Int
  PROVE  set_word_val(m, pos, val) \in Memory
<1>1. CASE ~Word_ok(pos)
  BY <1>1 DEF set_word_val
<1>2. CASE Word_ok(pos)
  <2>1. ASSUME NEW a \in 0 .. MEM_SIZE - 1, a \in pos .. pos + WordBytes - 1
        PROVE  ((val % Base) \div 2 ^ (8 * (a - pos))) % 256 \in Int
    <3>1. 8 * (a - pos) \in Nat
      BY <2>1
    <3>2. PICK w : w = 2 ^ (8 * (a - pos)) /\ w \in Nat \ {0}
      BY <3>1, PowerType
    <3>3. val % Base \in Int
      BY BaseType
    <3>4. ((val % Base) \div w) % 256 \in Int
      BY <3>2, <3>3
    <3> QED
      BY <3>2, <3>4
  <2>2. DOMAIN m = 0 .. MEM_SIZE - 1 /\ \A a \in 0 .. MEM_SIZE - 1 : m[a] \in Int
    BY DEF Memory
  <2>3. PICK f : f = [a \in DOMAIN m |-> IF a \in pos .. pos + WordBytes - 1
                        THEN ((val % Base) \div 2 ^ (8 * (a - pos))) % 256 ELSE m[a]]
    OBVIOUS
  <2>4. set_word_val(m, pos, val) = f
    BY <1>2, <2>3 DEF set_word_val
  <2>5. \A a \in 0 .. MEM_SIZE - 1 : f[a] \in Int
    BY <2>1, <2>2, <2>3
  <2>6. f = [a \in 0 .. MEM_SIZE - 1 |-> f[a]]
    BY <2>2, <2>3
  <2> QED
    BY <2>4, <2>5, <2>6 DEF Memory
<1> QED
  BY <1>1, <1>2

LEMMA RegisterType ==
  ASSUME NEW r \in Registers, NEW id, NEW val \in Words
  PROVE  get_reg_val(r, id) \in Words /\ set_reg_val(r, id, val) \in Registers
  BY WordsAreIntegers DEF get_reg_val, set_reg_val, Registers, reg_valid

LEMMA BitOpType ==
  ASSUME NEW op, NEW a \in Int, NEW b \in Int
  PROVE  BitOp(op, a, b) \in Words
<1>1. ASSUME NEW n \in 1 .. 8 * WordBytes, NEW x \in Int
      PROVE  2 ^ (n - 1) \in Nat /\ (x \div 2 ^ (n - 1)) % 2 \in Int
  <2>1. PICK w : w = 2 ^ (n - 1) /\ w \in Nat \ {0}
    <3>1. n - 1 \in Nat
      BY WordAssumption
    <3> QED
      BY <3>1, PowerType
  <2>2. (x \div w) % 2 \in Int
    BY <2>1
  <2> QED
    BY <2>1, <2>2
<1>2. 8 * WordBytes \in Nat
  BY WordAssumption
<1>3. ASSUME NEW t, \A n \in 1 .. 8 * WordBytes : t[n] \in Int
      PROVE  Word(Total(t, 8 * WordBytes)) \in Words
  BY <1>2, <1>3, TotalType, WordType
<1>4. PICK t : t = [n \in 1 .. 8 * WordBytes |->
                      (IF op = "AND"
                       THEN ((a \div 2 ^ (n - 1)) % 2) * ((b \div 2 ^ (n - 1)) % 2)
                       ELSE (((a \div 2 ^ (n - 1)) % 2) + ((b \div 2 ^ (n - 1)) % 2)) % 2)
                        * 2 ^ (n - 1)]
  OBVIOUS
<1>5. ASSUME NEW n \in 1 .. 8 * WordBytes PROVE t[n] \in Int
  <2>1. PICK x, y, w : /\ x = (a \div 2 ^ (n - 1)) % 2 /\ y = (b \div 2 ^ (n - 1)) % 2
                       /\ w = 2 ^ (n - 1)
    OBVIOUS
  <2>2. x \in Int /\ y \in Int /\ w \in Int
    BY <1>1, <2>1
  <2>3. t[n] = (IF op = "AND" THEN x * y ELSE (x + y) % 2) * w
    BY <1>4, <2>1
  <2> QED
    BY <2>2, <2>3
<1>6. BitOp(op, a, b) = Word(Total(t, 8 * WordBytes))
  BY <1>4 DEF BitOp
<1> QED
  BY <1>3, <1>5, <1>6

LEMMA AluType ==
  ASSUME NEW op, NEW a \in Int, NEW b \in Int
  PROVE  compute_alu(op, a, b) \in Words
<1>1. a + b \in Int /\ b - a \in Int
  OBVIOUS
<1>2. PICK sum, diff, and, xor : sum = Word(a + b) /\ diff = Word(b - a)
                               /\ and = BitOp("AND", a, b) /\ xor = BitOp("XOR", a, b)
  OBVIOUS
<1>3. sum \in Words /\ diff \in Words /\ and \in Words /\ xor \in Words
  BY <1>1, <1>2, WordType, BitOpType
<1>4. compute_alu(op, a, b) = CASE op = "ADD" -> sum [] op = "SUB" -> diff [] op = "AND" -> and
                                [] op = "XOR" -> xor [] OTHER -> 0
  BY <1>2 DEF compute_alu
<1> QED
  BY <1>3, <1>4, WordsAreIntegers

------------------------------------------------------------------------------
(***************************************************************************)
(* What an instruction does, in the terms of the data path that the        *)
(* simulators share: s is the state before it, f what has been fetched.    *)
(***************************************************************************)
Flags == [zf : BOOLEAN, sf : BOOLEAN, of : BOOLEAN]
States == [pc : Int, r : Registers, m : Memory, cc : Flags]

ValA(s, f) == get_reg_val(s.r, srcA(f.icode, f.ra))
ValB(s, f) == get_reg_val(s.r, srcB(f.icode, f.rb))
InA(s, f)  == aluA(f.icode, ValA(s, f), f.valc)
InB(s, f)  == aluB(f.icode, ValB(s, f))
ValE(s, f) == compute_alu(alufun(f.icode, f.ifun), InA(s, f), InB(s, f))
Cond(s, f) == cond_holds(s.cc, f.ifun)
Addr(s, f) == mem_addr(f.icode, ValE(s, f), ValA(s, f))
BadAddr(s, f) == (mem_read(f.icode) \/ mem_write(f.icode)) /\ ~Word_ok(Addr(s, f))
ValM(s, f) == IF mem_read(f.icode) THEN get_word_val(s.m, Addr(s, f)) ELSE 0
Stored(s, f) == IF f.icode = "CALL" THEN f.next ELSE ValA(s, f)

Completed(s, f) ==
  [pc |-> CASE f.icode = "CALL" -> f.valc
            [] f.icode = "JMP" /\ Cond(s, f) -> f.valc
            [] f.icode = "RET" -> ValM(s, f)
            [] OTHER -> f.next,
   r  |-> Write(s.r, dstE(f.icode, f.rb, Cond(s, f)), ValE(s, f), dstM(f.icode, f.ra), ValM(s, f)),
   m  |-> IF mem_write(f.icode) THEN set_word_val(s.m, Addr(s, f), Stored(s, f)) ELSE s.m,
   cc |-> IF f.icode \in {"ALU", "IADDL"}
          THEN compute_cc(alufun(f.icode, f.ifun), InA(s, f), InB(s, f)) ELSE s.cc]

DecodedStatus(i) == CASE i = "BAD"  -> "INS"
                      [] i = "HALT" -> "HLT"
                      [] OTHER -> "AOK"
StatusOf(s, f) == IF BadAddr(s, f) THEN "ADR" ELSE DecodedStatus(f.icode)

Codes == {"NOP", "HALT", "RRMOVL", "IRMOVL", "RMMOVL", "MRMOVL", "ALU", "JMP", "CALL",
          "RET", "PUSHL", "POPL", "IADDL", "LEAVE", "BAD"}

LEMMA DecodeType ==
  ASSUME NEW m \in Memory, NEW pc \in Int, NEW d, d = Decode(m, pc)
  PROVE  /\ d = [ok |-> d.ok, icode |-> d.icode, ifun |-> d.ifun, ok1 |-> d.ok1, ra |-> d.ra,
                 rb |-> d.rb, okc |-> d.okc, valc |-> d.valc, next |-> d.next]
         /\ d.ok = Byte_ok(pc) /\ d.ok \in BOOLEAN /\ d.icode \in Codes /\ d.valc \in Words /\ d.next \in Int
<1>1. PICK byte : byte = get_byte_val(m, pc) /\ byte \in Int
  BY ReadType
<1>2. Member(itype_t, HI4(byte)) \in Codes
  BY DEF Member, itype_t, Codes
<1>3. PICK at : at = (IF need_regids(d.icode) THEN pc + 2 ELSE pc + 1) /\ at \in Int
  OBVIOUS
<1>4. get_word_val(m, at) \in Words
  BY <1>3, ReadType
<1>5. /\ d.ok = Byte_ok(pc) /\ d.icode = Member(itype_t, HI4(byte))
      /\ d.valc = (IF need_imm(d.icode) THEN get_word_val(m, at) ELSE 0)
      /\ d.next = IF need_imm(d.icode) THEN at + WordBytes ELSE at
  BY <1>1, <1>3 DEF Decode
<1>6. d.icode \in Codes /\ d.valc \in Words /\ d.next \in Int
  BY <1>2, <1>3, <1>4, <1>5, WordAssumption, WordsAreIntegers
<1>7. d.ok \in BOOLEAN
  BY DEF Decode, Byte_ok
<1> QED
  BY <1>5, <1>6, <1>7, Zenon DEF Decode

\* The code at pc is plain: the instruction is one of the version w, or invalid for all
\* versions, can be fetched as a whole, and names registers where it must.
PlainAt(w, m, pc) ==
  LET d == Decode(m, pc)
      named == CheckedRegs(d) \union (IF d.icode = "ALU" THEN {d.ra, d.rb} ELSE {})
                              \union (IF d.icode \in {"RMMOVL", "MRMOVL"} THEN {d.rb} ELSE {})
  IN  /\ Byte_ok(pc) /\ Byte_ok(pc + 1 + WordBytes)
      /\ d.icode \in Standard \union w \union {"BAD"}
      /\ named \subseteq RegIds

Versions == SUBSET {"IADDL", "LEAVE"}

\* What a simulator has of an instruction that is decoded to d.
FetchedOf(d, f) == /\ f.icode = d.icode /\ f.ok = TRUE /\ f.icode \in Codes
                   /\ f.icode # "BAD" => f = d
                   /\ f.valc \in Words /\ f.next \in Int
                   /\ DecodeStatus(d) = DecodedStatus(f.icode)

LEMMA PlainDecode ==
  ASSUME NEW w \in Versions, NEW m \in Memory, NEW pc \in Int, PlainAt(w, m, pc),
         NEW d, d = Decode(m, pc), NEW f, f = Fetch(w, m, pc)
  PROVE  FetchedOf(d, f)
<1>1. /\ d = [ok |-> d.ok, icode |-> d.icode, ifun |-> d.ifun, ok1 |-> d.ok1, ra |-> d.ra,
              rb |-> d.rb, okc |-> d.okc, valc |-> d.valc, next |-> d.next]
      /\ d.ok = Byte_ok(pc) /\ d.icode \in Codes /\ d.valc \in Words /\ d.next \in Int
  BY DecodeType
<1>2. /\ Byte_ok(pc) /\ Byte_ok(pc + 1 + WordBytes) /\ CheckedRegs(d) \subseteq RegIds
      /\ d.icode \in Standard \union w \union {"BAD"}
  BY DEF PlainAt
<1>3. "BAD" \notin Standard \union w
  BY DEF Standard, Versions
<1>4. /\ f.icode = d.icode /\ f.ok = d.ok /\ (f.icode # "BAD" => f = d)
      /\ f.valc \in Words /\ f.next \in Int
  <2>1. CASE d.icode \in Standard \union w
    <3>1. f = d
      BY <2>1 DEF Fetch
    <3> QED
      BY <1>1, <3>1
  <2>2. CASE d.icode \notin Standard \union w
    <3>1. d.icode = "BAD"
      BY <1>2, <2>2
    <3>2. f = [d EXCEPT !.icode = "BAD", !.ra = NONE, !.rb = NONE, !.valc = 0, !.next = pc + 1]
      BY <2>2 DEF Fetch
    <3> QED
      BY <1>1, <3>1, <3>2, WordsAreIntegers
  <2> QED
    BY <2>1, <2>2
<1>5. d.ok = TRUE /\ d.ok1 = TRUE /\ d.okc = TRUE
  <2>1. Byte_ok(pc + 1) /\ Word_ok(pc + 1) /\ Word_ok(pc + 2)
    BY <1>2, WordAssumption DEF Byte_ok, Word_ok
  <2>2. PICK regs, imm : regs = need_regids(d.icode) /\ imm = need_imm(d.icode)
    OBVIOUS
  <2>3. /\ d.ok1 = (need_regids(d.icode) => Byte_ok(pc + 1))
        /\ d.okc = (need_imm(d.icode) => Word_ok(IF need_regids(d.icode) THEN pc + 2 ELSE pc + 1))
    BY DEF Decode
  <2>4. Word_ok(IF need_regids(d.icode) THEN pc + 2 ELSE pc + 1) = TRUE
    BY <2>1 DEF Word_ok
  <2> QED
    BY <1>1, <1>2, <2>1, <2>3, <2>4 DEF Byte_ok
<1>6. ~\E id \in CheckedRegs(d) : ~reg_valid(id)
  BY <1>2 DEF reg_valid
<1>7. DecodeStatus(d) = CASE d.icode = "HALT" -> "HLT" [] d.icode = "BAD" -> "INS" [] OTHER -> "AOK"
  BY <1>5, <1>6 DEF DecodeStatus
<1>8. DecodeStatus(d) = DecodedStatus(f.icode)
  BY <1>4, <1>7 DEF DecodedStatus
<1> QED
  BY <1>1, <1>4, <1>5, <1>8 DEF FetchedOf

LEMMA CompletedType ==
  ASSUME NEW s \in States, NEW f, f.valc \in Words, f.next \in Int
  PROVE  /\ ValA(s, f) \in Words /\ ValB(s, f) \in Words /\ ValE(s, f) \in Words
         /\ InA(s, f) \in Int /\ InB(s, f) \in Int
         /\ Addr(s, f) \in Int /\ ValM(s, f) \in Words /\ Stored(s, f) \in Int
         /\ Completed(s, f) \in States
<1>1. s.pc \in Int /\ s.r \in Registers /\ s.m \in Memory /\ s.cc \in Flags
  BY DEF States
<1>2. ValA(s, f) \in Words /\ ValB(s, f) \in Words
  BY <1>1, RegisterType, WordsAreIntegers DEF ValA, ValB
<1>3. InA(s, f) \in Int /\ InB(s, f) \in Int
  BY <1>2, WordsAreIntegers, WordAssumption DEF InA, InB, aluA, aluB
<1>4. ValE(s, f) \in Words
  BY <1>3, AluType DEF ValE
<1>5. Addr(s, f) \in Int
  BY <1>2, <1>4, WordsAreIntegers DEF Addr, mem_addr
<1>6. ValM(s, f) \in Words
  BY <1>1, <1>5, ReadType, WordsAreIntegers DEF ValM
<1>7. Stored(s, f) \in Int
  BY <1>2, WordsAreIntegers DEF Stored
<1>8. Completed(s, f).pc \in Int
  BY <1>6, WordsAreIntegers DEF Completed
<1>9. ASSUME NEW de, NEW dm
      PROVE  Write(s.r, de, ValE(s, f), dm, ValM(s, f)) \in Registers
  BY <1>1, <1>4, <1>6, RegisterType DEF Write
<1>10. Completed(s, f).r \in Registers
  BY <1>9 DEF Completed
<1>11. Completed(s, f).m \in Memory
  BY <1>1, <1>5, <1>7, StoreType DEF Completed
<1>12. ASSUME NEW op, NEW a, NEW b PROVE compute_cc(op, a, b) \in Flags
  BY DEF compute_cc, CC, Flags
<1>13. Completed(s, f).cc \in Flags
  BY <1>1, <1>12 DEF Completed
<1>14. Completed(s, f) = [pc |-> Completed(s, f).pc, r |-> Completed(s, f).r,
                          m |-> Completed(s, f).m, cc |-> Completed(s, f).cc]
  BY DEF Completed
<1>15. Completed(s, f) \in States
  BY <1>8, <1>10, <1>11, <1>13, <1>14, Zenon DEF States
<1> QED
  BY <1>2, <1>3, <1>4, <1>5, <1>6, <1>7, <1>15

\* The ALU computes the address that step_state computes.
LEMMA AddressIs ==
  ASSUME NEW s \in States, NEW d, d.icode \in Codes, d.valc \in Words,
         UsesMemory(d.icode)
  PROVE  Addr(s, d) = MemAddress(s, d)
<1>1. PICK esp, ebp, rb : /\ esp = get_reg_val(s.r, ESP) /\ ebp = get_reg_val(s.r, EBP)
                          /\ rb = get_reg_val(s.r, d.rb)
  OBVIOUS
<1>2. esp \in Int /\ ebp \in Int /\ rb \in Int /\ d.valc \in Int /\ WordBytes \in Int
  <2>1. s.r \in Registers
    BY DEF States
  <2>2. esp \in Words /\ ebp \in Words /\ rb \in Words
    BY <1>1, <2>1, RegisterType, WordsAreIntegers
  <2> QED
    <3>1. WordBytes \in Int
      BY WordAssumption
    <3>2. d.valc \in Int
      BY WordsAreIntegers
    <3> QED
      BY <2>2, <3>1, <3>2, WordsAreIntegers
<1>3. CASE d.icode \in {"RMMOVL", "MRMOVL"}
  BY <1>1, <1>3 DEF Addr, mem_addr, ValE, alufun, InA, InB, ValB, aluA, aluB, srcB,
                    compute_alu, MemAddress
<1>4. CASE d.icode \in {"CALL", "PUSHL"}
  <2>1. Addr(s, d) = Word(-WordBytes + esp)
    BY <1>1, <1>4 DEF Addr, mem_addr, ValE, alufun, InA, InB, ValB, aluA, aluB, srcB, compute_alu
  <2>2. MemAddress(s, d) = Word(esp - WordBytes)
    BY <1>1, <1>4 DEF MemAddress
  <2>3. -WordBytes + esp = esp - WordBytes
    BY <1>2
  <2> QED
    BY <2>1, <2>2, <2>3
<1>5. CASE d.icode \in {"RET", "POPL", "LEAVE"}
  BY <1>1, <1>5 DEF Addr, mem_addr, ValA, srcA, MemAddress
<1> QED
  BY <1>3, <1>4, <1>5 DEF UsesMemory

LEMMA NoRegister == ASSUME NEW r, NEW val PROVE set_reg_val(r, NONE, val) = r
  BY DEF set_reg_val, reg_valid, NONE, RegIds

\* Each instruction, followed through the data path, does what step_state does.
LEMMA ExecuteIs ==
  ASSUME NEW s \in States, NEW d, d.icode \in Codes \ {"HALT", "BAD"}, d.valc \in Words,
         d.next \in Int, ~BadAddr(s, d)
  PROVE  [Execute(s, d) EXCEPT !.pc = NextPC(s, d)] = Completed(s, d)
<1>1. s = [pc |-> s.pc, r |-> s.r, m |-> s.m, cc |-> s.cc]
  BY DEF States
<1>2. PICK a, b, esp, ebp : /\ a = get_reg_val(s.r, d.ra) /\ b = get_reg_val(s.r, d.rb)
                            /\ esp = get_reg_val(s.r, ESP) /\ ebp = get_reg_val(s.r, EBP)
  OBVIOUS
<1>3. /\ a \in Words /\ b \in Words /\ esp \in Words /\ ebp \in Words
      /\ a \in Int /\ b \in Int /\ esp \in Int /\ ebp \in Int
      /\ d.valc \in Int /\ WordBytes \in Int
  <2>1. s.r \in Registers
    BY DEF States
  <2>2. a \in Words /\ b \in Words /\ esp \in Words /\ ebp \in Words
    BY <1>2, <2>1, RegisterType, WordsAreIntegers
  <2> QED
    <3>1. WordBytes \in Int
      BY WordAssumption
    <3>2. d.valc \in Int
      BY WordsAreIntegers
    <3> QED
      BY <2>2, <3>1, <3>2, WordsAreIntegers
<1>4. CASE d.icode \in {"NOP", "JMP"}
  <2>1. Execute(s, d) = s
    BY <1>4 DEF Execute
  <2>2. Completed(s, d).r = s.r
    BY <1>4, NoRegister DEF Completed, dstE, dstM, Write
  <2>3. /\ Completed(s, d).m = s.m /\ Completed(s, d).cc = s.cc
        /\ Completed(s, d).pc = NextPC(s, d)
    BY <1>4 DEF Completed, mem_write, Cond, NextPC
  <2> QED
    BY <1>1, <2>1, <2>2, <2>3 DEF Completed
<1>5. CASE d.icode = "RRMOVL"
  <2>1. ValE(s, d) = a
    <3>1. ValE(s, d) = Word(a + 0)
      BY <1>2, <1>5 DEF ValE, alufun, InA, InB, ValA, aluA, aluB, srcA, compute_alu
    <3>2. a + 0 = a
      BY <1>3
    <3> QED
      BY <1>3, <3>1, <3>2, WordOfWord
  <2>2. Completed(s, d).r = IF Cond(s, d) THEN set_reg_val(s.r, d.rb, a) ELSE s.r
    BY <1>5, <2>1, NoRegister DEF Completed, dstE, dstM, Write
  <2>3. /\ Completed(s, d).m = s.m /\ Completed(s, d).cc = s.cc
        /\ Completed(s, d).pc = NextPC(s, d)
    BY <1>5 DEF Completed, mem_write, NextPC
  <2>4. Execute(s, d) = IF Cond(s, d) THEN [s EXCEPT !.r = set_reg_val(s.r, d.rb, a)] ELSE s
    BY <1>2, <1>5 DEF Execute, Cond
  <2>5. Execute(s, d) = [pc |-> s.pc, r |-> Completed(s, d).r, m |-> s.m, cc |-> s.cc]
    BY <1>1, <2>2, <2>4
  <2> QED
    BY <2>3, <2>5 DEF Completed

<1>6. CASE d.icode = "IRMOVL"
  <2>1. ValE(s, d) = d.valc
    <3>1. ValE(s, d) = Word(d.valc + 0)
      BY <1>6 DEF ValE, alufun, InA, InB, aluA, aluB, compute_alu
    <3>2. d.valc + 0 = d.valc
      BY <1>3
    <3> QED
      BY <3>1, <3>2, WordOfWord
  <2>2. Completed(s, d).r = set_reg_val(s.r, d.rb, d.valc)
    BY <1>6, <2>1, NoRegister DEF Completed, dstE, dstM, Write
  <2>3. /\ Completed(s, d).m = s.m /\ Completed(s, d).cc = s.cc
        /\ Completed(s, d).pc = NextPC(s, d)
    BY <1>6 DEF Completed, mem_write, NextPC
  <2>4. Execute(s, d) = [s EXCEPT !.r = set_reg_val(s.r, d.rb, d.valc)]
    BY <1>6 DEF Execute
  <2>5. Execute(s, d) = [pc |-> s.pc, r |-> Completed(s, d).r, m |-> s.m, cc |-> s.cc]
    BY <1>1, <2>2, <2>4
  <2> QED
    BY <2>3, <2>5 DEF Completed
<1>7. CASE d.icode = "ALU"
  <2>1. PICK op : op = Member(alu_t, d.ifun)
    OBVIOUS
  <2>2. InA(s, d) = a /\ InB(s, d) = b /\ alufun(d.icode, d.ifun) = op
    BY <1>2, <1>7, <2>1 DEF alufun, InA, InB, ValA, ValB, aluA, aluB, srcA, srcB
  <2>3. ValE(s, d) = compute_alu(op, a, b)
    BY <2>2 DEF ValE
  <2>4. Completed(s, d).r = set_reg_val(s.r, d.rb, compute_alu(op, a, b))
    BY <1>7, <2>3, NoRegister DEF Completed, dstE, dstM, Write
  <2>5. /\ Completed(s, d).m = s.m /\ Completed(s, d).cc = compute_cc(op, a, b)
        /\ Completed(s, d).pc = NextPC(s, d)
    BY <1>7, <2>2 DEF Completed, mem_write, NextPC
  <2>6. Execute(s, d) = [[s EXCEPT !.r = set_reg_val(s.r, d.rb, compute_alu(op, a, b))]
                          EXCEPT !.cc = compute_cc(op, a, b)]
    BY <1>2, <1>7, <2>1 DEF Execute
  <2>7. Execute(s, d)
          = [pc |-> s.pc, r |-> Completed(s, d).r, m |-> s.m, cc |-> compute_cc(op, a, b)]
    BY <1>1, <2>4, <2>6
  <2> QED
    BY <2>5, <2>7 DEF Completed
<1>8. CASE d.icode = "IADDL"
  <2>1. InA(s, d) = d.valc /\ InB(s, d) = b /\ alufun(d.icode, d.ifun) = "ADD"
    BY <1>2, <1>8 DEF alufun, InA, InB, ValB, aluA, aluB, srcB
  <2>2. ValE(s, d) = Word(b + d.valc)
    <3>1. ValE(s, d) = Word(d.valc + b)
      BY <2>1 DEF ValE, compute_alu
    <3>2. d.valc + b = b + d.valc
      BY <1>3
    <3> QED
      BY <3>1, <3>2
  <2>3. Completed(s, d).r = set_reg_val(s.r, d.rb, Word(b + d.valc))
    BY <1>8, <2>2, NoRegister DEF Completed, dstE, dstM, Write
  <2>4. /\ Completed(s, d).m = s.m /\ Completed(s, d).cc = compute_cc("ADD", d.valc, b)
        /\ Completed(s, d).pc = NextPC(s, d)
    BY <1>8, <2>1 DEF Completed, mem_write, NextPC
  <2>5. Execute(s, d) = [[s EXCEPT !.r = set_reg_val(s.r, d.rb, Word(b + d.valc))]
                          EXCEPT !.cc = compute_cc("ADD", d.valc, b)]
    BY <1>2, <1>8 DEF Execute
  <2>6. Execute(s, d)
          = [pc |-> s.pc, r |-> Completed(s, d).r, m |-> s.m, cc |-> compute_cc("ADD", d.valc, b)]
    BY <1>1, <2>3, <2>5
  <2> QED
    BY <2>4, <2>6 DEF Completed
<1>9. CASE d.icode = "RMMOVL"
  <2>1. Addr(s, d) = MemAddress(s, d) /\ Stored(s, d) = a
    BY <1>2, <1>9, AddressIs DEF UsesMemory, Stored, ValA, srcA
  <2>2. Completed(s, d).r = s.r
    BY <1>9, NoRegister DEF Completed, dstE, dstM, Write
  <2>3. /\ Completed(s, d).m = set_word_val(s.m, MemAddress(s, d), a)
        /\ Completed(s, d).cc = s.cc /\ Completed(s, d).pc = NextPC(s, d)
    BY <1>9, <2>1 DEF Completed, mem_write, NextPC
  <2>4. Execute(s, d) = [s EXCEPT !.m = set_word_val(s.m, MemAddress(s, d), a)]
    BY <1>2, <1>9 DEF Execute
  <2>5. Execute(s, d) = [pc |-> s.pc, r |-> s.r, m |-> Completed(s, d).m, cc |-> s.cc]
    BY <1>1, <2>3, <2>4
  <2> QED
    BY <2>2, <2>3, <2>5 DEF Completed
<1>10. CASE d.icode = "MRMOVL"
  <2>1. Addr(s, d) = MemAddress(s, d) /\ Word_ok(MemAddress(s, d))
    BY <1>10, AddressIs DEF UsesMemory, BadAddr, mem_read
  <2>2. ValM(s, d) = get_word_val(s.m, MemAddress(s, d))
    BY <1>10, <2>1 DEF ValM, mem_read
  <2>3. Completed(s, d).r = set_reg_val(s.r, d.ra, get_word_val(s.m, MemAddress(s, d)))
    BY <1>10, <2>2, NoRegister DEF Completed, dstE, dstM, Write
  <2>4. /\ Completed(s, d).m = s.m /\ Completed(s, d).cc = s.cc
        /\ Completed(s, d).pc = NextPC(s, d)
    BY <1>10 DEF Completed, mem_write, NextPC
  <2>5. Execute(s, d)
          = [s EXCEPT !.r = set_reg_val(s.r, d.ra, get_word_val(s.m, MemAddress(s, d)))]
    BY <1>10, <2>1 DEF Execute
  <2>6. Execute(s, d) = [pc |-> s.pc, r |-> Completed(s, d).r, m |-> s.m, cc |-> s.cc]
    BY <1>1, <2>3, <2>5
  <2> QED
    BY <2>4, <2>6 DEF Completed
<1>11. CASE d.icode \in {"PUSHL", "CALL"}
  <2>1. PICK top, data : /\ top = Word(esp - WordBytes)
                         /\ data = IF d.icode = "CALL" THEN d.next ELSE a
    OBVIOUS
  <2>2. ValE(s, d) = top
    <3>1. ValE(s, d) = Word(-WordBytes + esp)
      BY <1>2, <1>11 DEF ValE, alufun, InA, InB, ValB, aluA, aluB, srcB, compute_alu
    <3>2. -WordBytes + esp = esp - WordBytes
      BY <1>3
    <3> QED
      BY <2>1, <3>1, <3>2
  <2>3. Addr(s, d) = top /\ Stored(s, d) = data
    BY <1>2, <1>11, <2>1, <2>2 DEF Addr, mem_addr, Stored, ValA, srcA
  <2>4. Completed(s, d).r = set_reg_val(s.r, ESP, top)
    BY <1>11, <2>2, NoRegister DEF Completed, dstE, dstM, Write
  <2>5. /\ Completed(s, d).m = set_word_val(s.m, top, data)
        /\ Completed(s, d).cc = s.cc /\ Completed(s, d).pc = NextPC(s, d)
    BY <1>11, <2>3 DEF Completed, mem_write, NextPC
  <2>6. Execute(s, d) = Push(s, data)
    BY <1>2, <1>11, <2>1 DEF Execute
  <2>7. Push(s, data) = [s EXCEPT !.r = set_reg_val(s.r, ESP, top),
                                  !.m = set_word_val(s.m, top, data)]
    BY <1>2, <2>1 DEF Push
  <2>8. Execute(s, d)
          = [pc |-> s.pc, r |-> Completed(s, d).r, m |-> Completed(s, d).m, cc |-> s.cc]
    BY <1>1, <2>4, <2>5, <2>6, <2>7
  <2> QED
    BY <2>5, <2>8 DEF Completed
<1>12. CASE d.icode \in {"RET", "POPL", "LEAVE"}
  <2>1. PICK from, id : /\ from = (IF d.icode = "LEAVE" THEN ebp ELSE esp)
                        /\ id = CASE d.icode = "RET" -> NONE [] d.icode = "POPL" -> d.ra
                                  [] OTHER -> EBP
    OBVIOUS
  <2>2. MemAddress(s, d) = from /\ Addr(s, d) = from /\ Word_ok(from)
    BY <1>2, <1>12, <2>1 DEF MemAddress, Addr, mem_addr, ValA, srcA, BadAddr, mem_read
  <2>3. ValE(s, d) = Word(from + WordBytes)
    <3>1. ValE(s, d) = Word(WordBytes + from)
      BY <1>2, <1>12, <2>1 DEF ValE, alufun, InA, InB, ValB, aluA, aluB, srcB, compute_alu
    <3>2. WordBytes + from = from + WordBytes
      BY <1>3, <2>1
    <3> QED
      BY <3>1, <3>2
  <2>4. PICK val : val = get_word_val(s.m, from)
    OBVIOUS
  <2>5. ValM(s, d) = val
    BY <1>12, <2>2, <2>4 DEF ValM, mem_read
  <2>6. PICK up : up = set_reg_val(s.r, ESP, Word(from + WordBytes))
    OBVIOUS
  <2>7. Completed(s, d).r = set_reg_val(up, id, val)
    <3>1. dstE(d.icode, d.rb, Cond(s, d)) = ESP
      BY <1>12 DEF dstE
    <3>2. dstM(d.icode, d.ra) = id
      BY <1>12, <2>1 DEF dstM
    <3> QED
      BY <2>3, <2>5, <2>6, <3>1, <3>2 DEF Completed, Write
  <2>8. /\ Completed(s, d).m = s.m /\ Completed(s, d).cc = s.cc
        /\ Completed(s, d).pc = NextPC(s, d)
    BY <1>12, <2>2, <2>4, <2>5 DEF Completed, mem_write, NextPC
  <2>9. Pop(s, from, id) = [s EXCEPT !.r = set_reg_val(up, id, val)]
    BY <2>2, <2>4, <2>6 DEF Pop
  <2>10. Execute(s, d) = Pop(s, from, id)
    BY <1>2, <1>12, <2>1, <2>2 DEF Execute
  <2>11. Execute(s, d) = [pc |-> s.pc, r |-> Completed(s, d).r, m |-> s.m, cc |-> s.cc]
    BY <1>1, <2>7, <2>9, <2>10
  <2> QED
    BY <2>8, <2>11 DEF Completed
<1> QED
  BY <1>4, <1>5, <1>6, <1>7, <1>8, <1>9, <1>10, <1>11, <1>12 DEF Codes

\* What has been fetched, followed through the data path, is what step_state makes of the
\* instruction that is due.
LEMMA Datapath ==
  ASSUME NEW w \in Versions, NEW s \in States, PlainAt(w, s.m, s.pc),
         NEW f, f = Fetch(w, s.m, s.pc)
  PROVE  /\ step_state(s).status = StatusOf(s, f)
         /\ StatusOf(s, f) = "AOK" => step_state(s).s = Completed(s, f)
<1>1. s.pc \in Int /\ s.m \in Memory
  BY DEF States
<1>2. PICK d : d = Decode(s.m, s.pc)
  OBVIOUS
<1>3. /\ f.icode = d.icode /\ f.icode \in Codes /\ (f.icode # "BAD" => f = d)
      /\ f.valc \in Words /\ f.next \in Int
      /\ DecodeStatus(d) = DecodedStatus(f.icode)
  <2>1. FetchedOf(d, f)
    BY <1>1, <1>2, PlainDecode
  <2> QED
    BY <2>1 DEF FetchedOf
<1>4. PICK fault : fault = (UsesMemory(d.icode) /\ ~Word_ok(MemAddress(s, d)))
  OBVIOUS
<1>5. BadAddr(s, f) = fault
  <2>1. CASE UsesMemory(d.icode)
    <3>1. f = d
      BY <1>3, <2>1 DEF UsesMemory
    <3>2. Addr(s, d) = MemAddress(s, d)
      BY <1>3, <2>1, <3>1, AddressIs
    <3> QED
      BY <1>4, <2>1, <3>1, <3>2 DEF BadAddr, UsesMemory, mem_read, mem_write
  <2>2. CASE ~UsesMemory(d.icode)
    BY <1>3, <1>4, <2>2 DEF BadAddr, UsesMemory, mem_read, mem_write
  <2> QED
    BY <2>1, <2>2
<1>6. fault => f.icode \notin {"BAD", "HALT"}
  BY <1>3, <1>4 DEF UsesMemory
<1>7. PICK status : status = IF DecodeStatus(d) = "AOK" /\ fault THEN "ADR" ELSE DecodeStatus(d)
  OBVIOUS
<1>8. status = StatusOf(s, f)
  BY <1>3, <1>5, <1>6, <1>7 DEF StatusOf, DecodedStatus
<1>9. PICK done : done = IF DecodeStatus(d) = "AOK" THEN Execute(s, d) ELSE s
  OBVIOUS
<1>10. step_state(s) = [s |-> IF status = "AOK" THEN [done EXCEPT !.pc = NextPC(s, d)] ELSE done,
                        status |-> status]
  BY <1>2, <1>4, <1>7, <1>9 DEF step_state
<1>11. CASE status = "AOK"
  <2>1. f = d /\ d.icode \in Codes \ {"HALT", "BAD"} /\ ~BadAddr(s, d)
    BY <1>3, <1>5, <1>7, <1>11 DEF DecodedStatus
  <2>2. done = Execute(s, d)
    BY <1>7, <1>9, <1>11
  <2>3. [done EXCEPT !.pc = NextPC(s, d)] = Completed(s, d)
    BY <1>3, <2>1, <2>2, ExecuteIs
  <2> QED
    BY <1>8, <1>10, <1>11, <2>1, <2>3
<1> QED
  BY <1>8, <1>10, <1>11

------------------------------------------------------------------------------
(***************************************************************************)
(* The sequential simulator.                                               *)
(***************************************************************************)
SeqFields == {"pc", "r", "m", "cc", "status", "next"}
Pending   == {"icode", "cnd", "valC", "valM", "valP", "cc", "dstE", "valE", "dstM", "write",
              "addr", "data"}

\* The state that the next cycle begins with.
SeqDue(z) == [pc |-> new_pc(z.next), cc |-> z.next.cc,
              r |-> Write(z.r, z.next.dstE, z.next.valE, z.next.dstM, z.next.valM),
              m |-> IF z.next.write THEN set_word_val(z.m, z.next.addr, z.next.data) ELSE z.m]

\* v is one of the versions; between two cycles of SEQ the changes that are due lead to a
\* proper state.
SeqInv == /\ sim \in {"PIPE", "SEQ"} /\ v \in Versions
          /\ sim = "SEQ" => /\ DOMAIN mach = SeqFields
                            /\ mach.status = run_status
                            /\ run_status = "AOK" => SeqDue(mach) \in States

LEMMA UpdateIs ==
  ASSUME NEW z, DOMAIN z = SeqFields, NEW u, u = seq_update_state(z)
  PROVE  /\ DOMAIN u = SeqFields
         /\ u.pc = SeqDue(z).pc /\ u.r = SeqDue(z).r /\ u.m = SeqDue(z).m /\ u.cc = SeqDue(z).cc
<1>1. PICK pc, r, m : /\ pc = new_pc(z.next)
                      /\ r = Write(z.r, z.next.dstE, z.next.valE, z.next.dstM, z.next.valM)
                      /\ m = IF z.next.write THEN set_word_val(z.m, z.next.addr, z.next.data)
                             ELSE z.m
  OBVIOUS
<1>2. u = [z EXCEPT !.pc = pc, !.cc = z.next.cc, !.r = r, !.m = m]
  BY <1>1 DEF seq_update_state
<1>3. SeqDue(z).pc = pc /\ SeqDue(z).r = r /\ SeqDue(z).m = m /\ SeqDue(z).cc = z.next.cc
  BY <1>1 DEF SeqDue
<1> QED
  BY <1>2, <1>3 DEF SeqFields

\* One cycle completes the instruction f that is due in s, or none and says why.
SeqDone(s, f, q) ==
  /\ DOMAIN q = SeqFields
  /\ q.pc = s.pc /\ q.r = s.r /\ q.m = s.m /\ q.cc = s.cc
  /\ f.ok = TRUE => q.status = StatusOf(s, f) /\ SeqDue(q) = Completed(s, f)
  /\ f.ok = FALSE => q.status = "ADR"

LEMMA SeqStep ==
  ASSUME NEW w, NEW z, DOMAIN z = SeqFields, NEW s, s = SeqDue(z),
         NEW f, f = Fetch(w, s.m, s.pc), f.ok \in BOOLEAN,
         NEW q, q = sim_step(w, z)
  PROVE  SeqDone(s, f, q)
<1> DEFINE u    == seq_update_state(z)
           g    == Fetch(w, u.m, u.pc)
           i    == IF g.ok THEN g.icode ELSE "NOP"
           va   == get_reg_val(u.r, srcA(i, g.ra))
           vb   == get_reg_val(u.r, srcB(i, g.rb))
           c    == cond_holds(u.cc, g.ifun)
           a    == aluA(i, va, g.valc)
           b    == aluB(i, vb)
           fun  == alufun(i, g.ifun)
           e    == compute_alu(fun, a, b)
           ad   == mem_addr(i, e, va)
           bad  == (mem_read(i) \/ mem_write(i)) /\ ~Word_ok(ad)
           vm   == IF mem_read(i) THEN get_word_val(u.m, ad) ELSE 0
           cc   == IF i \in {"ALU", "IADDL"} THEN compute_cc(fun, a, b) ELSE u.cc
           data == IF i = "CALL" THEN g.next ELSE va
           stat == CASE ~g.ok \/ bad -> "ADR"
                     [] g.ok /\ ~bad /\ i = "BAD" -> "INS"
                     [] g.ok /\ ~bad /\ i = "HALT" -> "HLT"
                     [] OTHER -> "AOK"
           next == [icode |-> i, cnd |-> c, valC |-> g.valc, valP |-> g.next, valM |-> vm,
                    cc |-> cc, dstE |-> dstE(i, g.rb, c), valE |-> e, dstM |-> dstM(i, g.ra),
                    write |-> mem_write(i), addr |-> ad, data |-> data]
<1>1. q = [u EXCEPT !.status = stat, !.next = next]
  BY Zenon DEF sim_step
<1>2. DOMAIN u = SeqFields /\ u.pc = s.pc /\ u.r = s.r /\ u.m = s.m /\ u.cc = s.cc
  BY UpdateIs
<1> HIDE DEF u
<1>3. g = f
  BY <1>2
<1> HIDE DEF g
<1>4. CASE f.ok = FALSE
  <2>1. stat = "ADR"
    BY <1>4, <1>3
  <2> HIDE DEF stat, next
  <2>2. DOMAIN q = SeqFields /\ q.status = stat
        /\ q.pc = s.pc /\ q.r = s.r /\ q.m = s.m /\ q.cc = s.cc
    BY <1>1, <1>2 DEF SeqFields
  <2> QED
    BY <1>4, <2>1, <2>2 DEF SeqDone
<1>5. SUFFICES ASSUME f.ok = TRUE PROVE SeqDone(s, f, q)
  BY <1>4
<1>6. i = f.icode
  BY <1>3, <1>5
<1> HIDE DEF i
<1>7. va = ValA(s, f) /\ vb = ValB(s, f) /\ c = Cond(s, f) /\ fun = alufun(f.icode, f.ifun)
  BY <1>3, <1>2, <1>6 DEF ValA, ValB, Cond
<1> HIDE DEF va, vb, c, fun
<1>8. a = InA(s, f) /\ b = InB(s, f)
  BY <1>3, <1>6, <1>7 DEF InA, InB
<1> HIDE DEF a, b
<1>9. e = ValE(s, f)
  BY <1>7, <1>8 DEF ValE
<1> HIDE DEF e
<1>10. ad = Addr(s, f)
  BY <1>3, <1>6, <1>7, <1>9 DEF Addr
<1> HIDE DEF ad
<1>11. bad = BadAddr(s, f) /\ vm = ValM(s, f)
  BY <1>3, <1>2, <1>6, <1>10 DEF BadAddr, ValM
<1> HIDE DEF bad, vm
<1>12. /\ cc = (IF f.icode \in {"ALU", "IADDL"}
               THEN compute_cc(alufun(f.icode, f.ifun), InA(s, f), InB(s, f)) ELSE s.cc)
      /\ data = Stored(s, f)
  BY <1>3, <1>2, <1>6, <1>7, <1>8 DEF Stored
<1>13. stat = StatusOf(s, f)
  BY <1>3, <1>5, <1>6, <1>11 DEF StatusOf, DecodedStatus
<1> HIDE DEF cc, data, stat
<1>14. /\ DOMAIN q = SeqFields /\ q.status = stat /\ q.next = next
       /\ q.pc = s.pc /\ q.r = s.r /\ q.m = s.m /\ q.cc = s.cc
  BY <1>1, <1>2 DEF SeqFields
<1>15. PICK x : x = q.next
  OBVIOUS
<1>16. /\ x.icode = f.icode /\ x.cnd = Cond(s, f) /\ x.valC = f.valc /\ x.valP = f.next
       /\ x.valM = ValM(s, f) /\ x.cc = cc /\ x.dstE = dstE(f.icode, f.rb, Cond(s, f))
       /\ x.valE = ValE(s, f) /\ x.dstM = dstM(f.icode, f.ra) /\ x.write = mem_write(f.icode)
       /\ x.addr = Addr(s, f) /\ x.data = Stored(s, f)
  BY <1>3, <1>6, <1>7, <1>9, <1>10, <1>11, <1>12, <1>14, <1>15
<1> HIDE DEF next
<1>17. SeqDue(q).pc = Completed(s, f).pc
  <2>1. SeqDue(q).pc = new_pc(x)
    BY <1>15 DEF SeqDue
  <2> QED
    BY <1>16, <2>1 DEF Completed, new_pc
<1>18. SeqDue(q).r = Completed(s, f).r
  <2>1. SeqDue(q).r = Write(s.r, x.dstE, x.valE, x.dstM, x.valM)
    BY <1>14, <1>15 DEF SeqDue
  <2> QED
    BY <1>16, <2>1 DEF Completed
<1>19. SeqDue(q).m = Completed(s, f).m
  BY <1>14, <1>15, <1>16 DEF SeqDue, Completed
<1>20. SeqDue(q).cc = Completed(s, f).cc
  BY SMTT(30), <1>12, <1>15, <1>16 DEF SeqDue, Completed
<1>21. SeqDue(q) = Completed(s, f)
  BY <1>17, <1>18, <1>19, <1>20 DEF SeqDue, Completed
<1> QED
  BY <1>5, <1>13, <1>14, <1>21 DEF SeqDone

LEMMA FetchType ==
  ASSUME NEW w, NEW m \in Memory, NEW pc \in Int
  PROVE  /\ Fetch(w, m, pc).ok \in BOOLEAN
         /\ Fetch(w, m, pc).valc \in Words /\ Fetch(w, m, pc).next \in Int
<1>1. PICK d : d = Decode(m, pc)
  OBVIOUS
<1>2. /\ d = [ok |-> d.ok, icode |-> d.icode, ifun |-> d.ifun, ok1 |-> d.ok1, ra |-> d.ra,
              rb |-> d.rb, okc |-> d.okc, valc |-> d.valc, next |-> d.next]
      /\ d.ok \in BOOLEAN /\ d.valc \in Words /\ d.next \in Int
  BY <1>1, DecodeType
<1>3. Fetch(w, m, pc) = IF d.icode \in Standard \union w THEN d
                        ELSE [d EXCEPT !.icode = "BAD", !.ra = NONE, !.rb = NONE, !.valc = 0,
                                       !.next = pc + 1]
  BY <1>1 DEF Fetch
<1> QED
  BY <1>2, <1>3, WordsAreIntegers

LEMMA SeqCycleKeeps ==
  ASSUME SeqInv, SeqCycle
  PROVE  SeqInv'
<1>1. PICK z, q, s, f : z = mach /\ q = mach' /\ s = SeqDue(z) /\ f = Fetch(v, s.m, s.pc)
  OBVIOUS
<1>2. /\ sim = "SEQ" /\ sim' = sim /\ v' = v /\ run_status' = q.status /\ q = sim_step(v, z)
      /\ run_status = "AOK"
  BY <1>1 DEF SeqCycle, Count, Running
<1>3. DOMAIN z = SeqFields /\ s \in States
  BY <1>1, <1>2 DEF SeqInv
<1>4. f.ok \in BOOLEAN /\ f.valc \in Words /\ f.next \in Int
  <2>1. s.m \in Memory /\ s.pc \in Int
    BY <1>3 DEF States
  <2> QED
    BY <1>1, <2>1, FetchType
<1>5. SeqDone(s, f, q)
  BY <1>1, <1>2, <1>3, <1>4, SeqStep
<1>6. Completed(s, f) \in States
  BY <1>3, <1>4, CompletedType
<1>7. DOMAIN q = SeqFields /\ (q.status = "AOK" => SeqDue(q) \in States)
  BY <1>4, <1>5, <1>6 DEF SeqDone
<1> QED
  BY <1>1, <1>2, <1>7 DEF SeqInv

\* A run of the sequential simulator.
LEMMA SeqInvariant == Spec => []SeqInv
<1>1. Init => SeqInv
  <2> SUFFICES ASSUME Init PROVE SeqInv
    OBVIOUS
  <2>1. sim \in {"PIPE", "SEQ"} /\ v \in Versions
    BY SimulatorAssumption DEF Init, Versions
  <2>2. ASSUME sim = "SEQ"
        PROVE  DOMAIN mach = SeqFields /\ mach.status = run_status /\ SeqDue(mach) \in States
    <3>1. /\ mach = seq_sim_reset(prog) /\ run_status = "AOK"
          /\ prog \in [0 .. MEM_SIZE - 1 -> 0 .. 255]
      BY <2>2, ProgramAssumption DEF Init, PipeStart, SeqStart
    <3>2. DOMAIN mach = SeqFields /\ mach.status = run_status
      BY <3>1 DEF seq_sim_reset, SeqFields
    <3>3. mach.next = NoChanges /\ mach.m = prog /\ mach.r = [id \in RegIds |-> 0]
      BY <3>1 DEF seq_sim_reset
    <3>4. SeqDue(mach).pc = 0 /\ SeqDue(mach).m = prog /\ SeqDue(mach).cc = DEFAULT_CC
      BY <3>3 DEF SeqDue, NoChanges, new_pc
    <3>5. SeqDue(mach).r = [id \in RegIds |-> 0]
      BY <3>3, NoRegister DEF SeqDue, NoChanges, Write
    <3>6. prog \in Memory /\ [id \in RegIds |-> 0] \in Registers /\ DEFAULT_CC \in Flags
      <4>1. prog \in Memory
        <5>1. PICK D : D = 0 .. MEM_SIZE - 1
          OBVIOUS
        <5>2. prog \in [D -> 0 .. 255]
          BY <3>1, <5>1
        <5>3. prog \in [D -> Int]
          BY <5>2
        <5> QED
          BY <5>1, <5>3 DEF Memory
      <4>2. [id \in RegIds |-> 0] \in Registers
        BY WordsAreIntegers DEF Registers
      <4>3. DEFAULT_CC \in Flags
        BY DEF DEFAULT_CC, CC, Flags
      <4> QED
        BY <4>1, <4>2, <4>3
    <3>7. SeqDue(mach) = [pc |-> SeqDue(mach).pc, r |-> SeqDue(mach).r,
                          m |-> SeqDue(mach).m, cc |-> SeqDue(mach).cc]
      BY DEF SeqDue
    <3> QED
      BY <3>2, <3>4, <3>5, <3>6, <3>7 DEF States
  <2> QED
    BY <2>1, <2>2 DEF SeqInv
<1>2. SeqInv /\ [Next]_vars => SeqInv'
  <2> SUFFICES ASSUME SeqInv, [Next]_vars PROVE SeqInv'
    OBVIOUS
  <2>1. CASE PipeCycle
    BY <2>1 DEF PipeCycle, Count, SeqInv
  <2>2. CASE SeqCycle
    BY <2>2, SeqCycleKeeps
  <2>3. CASE Check
    BY <2>3 DEF Check, SeqInv, SeqDue
  <2>4. CASE UNCHANGED vars
    BY <2>4 DEF vars, SeqInv, SeqDue
  <2> QED
    BY <2>1, <2>2, <2>3, <2>4 DEF Next
<1> QED
  BY <1>1, <1>2, PTL DEF Spec

\* What SEQ shows between two cycles.
LEMMA SeqShows ==
  ASSUME NEW z, DOMAIN z = SeqFields
  PROVE  SeqVisible(z) = IF z.status = "AOK" THEN SeqDue(z)
                         ELSE [pc |-> z.pc, r |-> z.r, m |-> z.m, cc |-> z.cc]
<1>1. PICK u : u = seq_update_state(z)
  OBVIOUS
<1>2. u.pc = SeqDue(z).pc /\ u.r = SeqDue(z).r /\ u.m = SeqDue(z).m /\ u.cc = SeqDue(z).cc
  BY <1>1, UpdateIs
<1>3. SeqDue(z) = [pc |-> SeqDue(z).pc, r |-> SeqDue(z).r, m |-> SeqDue(z).m, cc |-> SeqDue(z).cc]
  BY DEF SeqDue
<1>4. CASE z.status = "AOK"
  BY <1>1, <1>2, <1>3, <1>4 DEF SeqVisible
<1>5. CASE z.status # "AOK"
  BY <1>5 DEF SeqVisible
<1> QED
  BY <1>4, <1>5

LEMMA SeqImplements ==
  ASSUME sim = "SEQ", SeqInv, SeqCycle
  PROVE  Implements
<1>1. PICK z, q, s, f : z = mach /\ q = mach' /\ s = SeqDue(z) /\ f = Fetch(v, s.m, s.pc)
  OBVIOUS
<1>2. /\ sim' = sim /\ v \in Versions /\ run_status' = q.status /\ q = sim_step(v, z)
      /\ z.status = "AOK" /\ DOMAIN z = SeqFields /\ s \in States
  BY <1>1 DEF SeqCycle, Count, Running, SeqInv
<1>3. Visible = s
  BY <1>1, <1>2, SeqShows DEF Visible
<1>4. SUFFICES ASSUME Plain(s)
               PROVE  CASE Outcome' = "BUB" -> Visible' = s
                        [] Outcome' = "AOK" -> Visible' = step_state(s).s /\ step_state(s).status = "AOK"
                        [] OTHER -> Visible' = s /\ step_state(s).status = Outcome'
  BY <1>3 DEF Implements
<1>5. s.m \in Memory /\ s.pc \in Int
      /\ s = [pc |-> s.pc, r |-> s.r, m |-> s.m, cc |-> s.cc]
  BY <1>2 DEF States
<1>6. PlainAt(v, s.m, s.pc)
  BY <1>4 DEF Plain, PlainAt
<1>7. f.ok = TRUE
  <2>1. FetchedOf(Decode(s.m, s.pc), f)
    BY <1>1, <1>2, <1>5, <1>6, PlainDecode
  <2> QED
    BY <2>1 DEF FetchedOf
<1>8. /\ DOMAIN q = SeqFields /\ q.pc = s.pc /\ q.r = s.r /\ q.m = s.m /\ q.cc = s.cc
      /\ q.status = StatusOf(s, f) /\ SeqDue(q) = Completed(s, f)
  <2>1. SeqDone(s, f, q)
    BY <1>1, <1>2, <1>7, SeqStep
  <2> QED
    BY <1>7, <2>1 DEF SeqDone
<1>9. Outcome' = q.status
  BY <1>1, <1>2 DEF Outcome
<1>10. Visible' = SeqVisible(q)
  BY <1>1, <1>2 DEF Visible
<1>11. /\ step_state(s).status = q.status
       /\ q.status = "AOK" => step_state(s).s = Completed(s, f)
  BY <1>1, <1>2, <1>6, <1>8, Datapath
<1>12. q.status # "BUB"
  BY <1>8 DEF StatusOf, DecodedStatus
<1>13. SeqVisible(q) = IF q.status = "AOK" THEN Completed(s, f) ELSE s
  BY <1>5, <1>8, SeqShows
<1> QED
  BY <1>9, <1>10, <1>11, <1>12, <1>13

\* The sequential simulator refines the instruction set: for every program, word size, memory
\* and limit, each cycle of ssim.c does to registers, memory, condition codes and program
\* counter what step_state does, and one that fails changes nothing and has its status.
THEOREM SeqImplementsISA == Spec => [][sim = "SEQ" => Implements]_vars
<1>1. SeqInv /\ [Next]_vars => [sim = "SEQ" => Implements]_vars
  <2> SUFFICES ASSUME SeqInv, Next, sim = "SEQ" PROVE Implements
    OBVIOUS
  <2>1. CASE PipeCycle
    BY <2>1 DEF PipeCycle
  <2>2. CASE SeqCycle
    BY <2>2, SeqImplements
  <2>3. CASE Check
    BY <2>3 DEF Check, Implements
  <2> QED
    BY <2>1, <2>2, <2>3 DEF Next
<1> QED
  BY <1>1, SeqInvariant, PTL DEF Spec

------------------------------------------------------------------------------
(***************************************************************************)
(* What a cycle of the pipeline computes, from the pipe registers y that   *)
(* it begins with, registers r, memory m and condition codes c.            *)
(***************************************************************************)
RegsAfter(p) == Write(p.r, p.cur.W.dstE, p.cur.W.valE, p.cur.W.dstM, p.cur.W.valM)
MemAfter(p)  == IF p.write THEN set_word_val(p.m, p.addr, p.data) ELSE p.m

NextFetch(y) == CASE y.M.icode = "JMP" /\ ~y.M.cnd -> y.M.valA
                  [] y.W.icode = "RET" -> y.W.valM
                  [] OTHER -> y.F.pc

FetchedD(w, m, pc) ==
  LET f     == Fetch(w, m, pc)
      error == ~Byte_ok(pc) \/ ~Byte_ok(pc + 1 + WordBytes)
  IN  IF error
      THEN [bubble.D EXCEPT !.stat = "ADR", !.pc = pc, !.valP = pc + 1]
      ELSE [icode |-> f.icode, ifun |-> f.ifun, ra |-> f.ra, rb |-> f.rb,
            valC |-> f.valc, valP |-> f.next, pc |-> pc,
            stat |-> CASE f.icode = "BAD"  -> "INS"
                       [] f.icode = "HALT" -> "HLT"
                       [] OTHER -> "AOK"]

Predicted(d) == IF d.icode \in {"JMP", "CALL"} THEN d.valC ELSE d.valP

PassedW(M, m) ==
  LET addr == mem_addr(M.icode, M.valE, M.valA)
      bad  == (mem_read(M.icode) \/ mem_write(M.icode)) /\ ~Word_ok(addr)
  IN  [icode |-> M.icode, valE |-> M.valE, dstE |-> M.dstE, dstM |-> M.dstM, pc |-> M.pc,
       valM |-> IF mem_read(M.icode) THEN get_word_val(m, addr) ELSE 0,
       stat |-> IF bad THEN "ADR" ELSE M.stat]

AluOf(E) == compute_alu(alufun(E.icode, E.ifun), aluA(E.icode, E.valA, E.valC), aluB(E.icode, E.valB))
CodesOf(E) == compute_cc(alufun(E.icode, E.ifun), aluA(E.icode, E.valA, E.valC), aluB(E.icode, E.valB))

ExecutedM(E, c) ==
  LET cnd == cond_holds(c, E.ifun)
  IN  [icode |-> E.icode, cnd |-> cnd, valE |-> AluOf(E), valA |-> E.valA, dstM |-> E.dstM,
       stat |-> E.stat, pc |-> E.pc,
       dstE |-> IF E.icode = "RRMOVL" /\ ~cnd THEN NONE ELSE E.dstE]

\* e and l are what comes from execute and from memory in this cycle.
Forwarded(y, r, e, l, src) ==
  CASE src = e.dstE -> e.valE
    [] src # e.dstE /\ src = y.M.dstM -> l.valM
    [] src \notin {e.dstE, y.M.dstM} /\ src = y.M.dstE -> y.M.valE
    [] src \notin {e.dstE, y.M.dstM, y.M.dstE} /\ src = y.W.dstM -> y.W.valM
    [] src \notin {e.dstE, y.M.dstM, y.M.dstE, y.W.dstM} /\ src = y.W.dstE -> y.W.valE
    [] OTHER -> get_reg_val(r, src)

DecodedE(d, va, vb) ==
  [icode |-> d.icode, ifun |-> d.ifun, valC |-> d.valC,
   valA |-> IF d.icode \in {"CALL", "JMP"} THEN d.valP ELSE va,
   valB |-> vb,
   dstE |-> dstE(d.icode, d.rb, TRUE), dstM |-> dstM(d.icode, d.ra),
   stat |-> d.stat, pc |-> d.pc]

FShape(p) == Shape(p) /\ DOMAIN p.next.F = {"pc"}

LEMMA UpdateData ==
  ASSUME NEW n \in Int, n > 2, NEW p, FShape(p), NEW q, q = update_pipes(update_state(p, n))
  PROVE  /\ FShape(q) /\ q.cur = Coming(p) /\ q.next = p.next
         /\ q.r = RegsAfter(p) /\ q.m = MemAfter(p) /\ q.cc = p.cc_in /\ q.cc_in = p.cc_in
<1>1. Shape(q) /\ q.cur = Coming(p) /\ q.next = p.next
  BY UpdateEffect DEF FShape, Coming
<1>2. PICK u : u = update_state(p, n)
  OBVIOUS
<1>3. PICK am, ae, r, m : /\ am = (IF p.cur.W.stat = "BUB" THEN 0 ELSE 1)
                          /\ ae = am + (IF p.next.W.stat = "BUB" THEN 0 ELSE 1)
                          /\ r = RegsAfter(p)
                          /\ m = IF p.write /\ am < n THEN set_word_val(p.m, p.addr, p.data) ELSE p.m
  OBVIOUS
<1>4. u = [p EXCEPT !.r = r, !.m = m, !.cc = IF ae < n THEN p.cc_in ELSE p.cc]
  BY <1>2, <1>3 DEF update_state, RegsAfter
<1>5. am < n /\ ae < n
  BY <1>3
<1>6. m = MemAfter(p)
  BY <1>3, <1>5 DEF MemAfter
<1>7. u.r = RegsAfter(p) /\ u.m = MemAfter(p) /\ u.cc = p.cc_in /\ u.cc_in = p.cc_in
      /\ DOMAIN u = Fields
  BY <1>3, <1>4, <1>5, <1>6 DEF FShape, Shape, Fields
<1>8. q.r = u.r /\ q.m = u.m /\ q.cc = u.cc /\ q.cc_in = u.cc_in
  BY <1>2, <1>7 DEF update_pipes, Fields
<1> QED
  BY <1>1, <1>7, <1>8 DEF FShape

LEMMA FetchData ==
  ASSUME NEW w, NEW p, FShape(p), NEW q, q = do_if_stage(w, p)
  PROVE  /\ FShape(q) /\ q.cur = p.cur /\ q.r = p.r /\ q.m = p.m /\ q.cc = p.cc
         /\ q.cc_in = p.cc_in /\ q.f_pc = NextFetch(p.cur)
         /\ q.next.D = FetchedD(w, p.m, NextFetch(p.cur))
         /\ q.next.F.pc = Predicted(q.next.D)
<1> DEFINE pc == CASE p.cur.M.icode = "JMP" /\ ~p.cur.M.cnd -> p.cur.M.valA
                   [] p.cur.W.icode = "RET" -> p.cur.W.valM
                   [] OTHER -> p.cur.F.pc
           f  == Fetch(w, p.m, pc)
           error == ~Byte_ok(pc) \/ ~Byte_ok(pc + 1 + WordBytes)
           d  == IF error
                 THEN [bubble.D EXCEPT !.stat = "ADR", !.pc = pc, !.valP = pc + 1]
                 ELSE [icode |-> f.icode, ifun |-> f.ifun, ra |-> f.ra, rb |-> f.rb,
                       valC |-> f.valc, valP |-> f.next, pc |-> pc,
                       stat |-> CASE f.icode = "BAD"  -> "INS"
                                  [] f.icode = "HALT" -> "HLT"
                                  [] OTHER -> "AOK"]
           x  == IF d.icode \in {"JMP", "CALL"} THEN d.valC ELSE d.valP
<1>1. q = [p EXCEPT !.f_pc = pc, !.next.D = d, !.next.F.pc = x]
  BY Zenon DEF do_if_stage
<1>2. d = FetchedD(w, p.m, pc)
  BY Zenon DEF FetchedD
<1>3. pc = NextFetch(p.cur)
  BY Zenon DEF NextFetch
<1>4. x = Predicted(d)
  BY DEF Predicted
<1> HIDE DEF d, pc, x
<1>5. /\ DOMAIN q = Fields /\ q.cur = p.cur /\ q.r = p.r /\ q.m = p.m /\ q.cc = p.cc
      /\ q.cc_in = p.cc_in /\ q.f_pc = pc
  BY <1>1 DEF FShape, Shape, Fields
<1>6. PICK n : n = [[p.next EXCEPT !.D = d] EXCEPT !.F = [p.next.F EXCEPT !.pc = x]]
  OBVIOUS
<1>7. q.next = n
  BY <1>1, <1>6, StageNames DEF FShape, Shape, Fields
<1>8. DOMAIN n = Stages /\ n.D = d /\ n.F.pc = x /\ DOMAIN n.F = {"pc"}
  BY <1>6, StageNames DEF FShape, Shape
<1> QED
  BY <1>2, <1>3, <1>4, <1>5, <1>7, <1>8 DEF FShape, Shape

\* A stage leaves everything but what it computes.
Same(p, q) == /\ FShape(q) /\ q.cur = p.cur /\ q.r = p.r /\ q.m = p.m /\ q.cc = p.cc
              /\ q.f_pc = p.f_pc

LEMMA MemData ==
  ASSUME NEW p, FShape(p), NEW q, q = do_mem_stage(p)
  PROVE  /\ Same(p, q) /\ q.cc_in = p.cc_in
         /\ q.next.D = p.next.D /\ q.next.F = p.next.F
         /\ q.next.W = PassedW(p.cur.M, p.m)
         /\ q.write = mem_write(p.cur.M.icode)
         /\ q.addr = mem_addr(p.cur.M.icode, p.cur.M.valE, p.cur.M.valA)
         /\ q.data = p.cur.M.valA
<1> DEFINE M    == p.cur.M
           addr == mem_addr(M.icode, M.valE, M.valA)
           bad  == (mem_read(M.icode) \/ mem_write(M.icode)) /\ ~Word_ok(addr)
           x    == [icode |-> M.icode, valE |-> M.valE, dstE |-> M.dstE,
                    dstM |-> M.dstM, pc |-> M.pc,
                    valM |-> IF mem_read(M.icode) THEN get_word_val(p.m, addr) ELSE 0,
                    stat |-> IF bad THEN "ADR" ELSE M.stat]
<1>1. q = [p EXCEPT !.write = mem_write(M.icode), !.addr = addr, !.data = M.valA, !.next.W = x]
  BY Zenon DEF do_mem_stage
<1>2. x = PassedW(M, p.m)
  BY Zenon DEF PassedW
<1>3. PICK b : b = mem_write(M.icode)
  OBVIOUS
<1> HIDE DEF x, addr
<1>4. /\ DOMAIN q = Fields /\ q.cur = p.cur /\ q.r = p.r /\ q.m = p.m /\ q.cc = p.cc
      /\ q.cc_in = p.cc_in /\ q.f_pc = p.f_pc /\ q.write = b /\ q.addr = addr /\ q.data = M.valA
      /\ q.next = [p.next EXCEPT !.W = x]
  BY <1>1, <1>3 DEF FShape, Shape, Fields
<1>5. DOMAIN q.next = Stages /\ q.next.W = x /\ q.next.D = p.next.D /\ q.next.F = p.next.F
  BY <1>4, StageNames DEF FShape, Shape
<1> QED
  BY <1>2, <1>3, <1>4, <1>5 DEF Same, FShape, Shape, addr

LEMMA ExData ==
  ASSUME NEW p, FShape(p), NEW q, q = do_ex_stage(p)
  PROVE  /\ Same(p, q)
         /\ q.write = p.write /\ q.addr = p.addr /\ q.data = p.data
         /\ q.next.D = p.next.D /\ q.next.F = p.next.F /\ q.next.W = p.next.W
         /\ q.next.M = ExecutedM(p.cur.E, p.cc)
         /\ q.cc_in = IF set_cc(p) THEN CodesOf(p.cur.E) ELSE p.cc_in
<1> DEFINE E    == p.cur.E
           a    == aluA(E.icode, E.valA, E.valC)
           b    == aluB(E.icode, E.valB)
           fun  == alufun(E.icode, E.ifun)
           cnd  == cond_holds(p.cc, E.ifun)
           x    == [icode |-> E.icode, cnd |-> cnd, valE |-> compute_alu(fun, a, b),
                    valA |-> E.valA, dstM |-> E.dstM, stat |-> E.stat, pc |-> E.pc,
                    dstE |-> IF E.icode = "RRMOVL" /\ ~cnd THEN NONE ELSE E.dstE]
           c    == IF set_cc(p) THEN compute_cc(fun, a, b) ELSE p.cc_in
<1>1. q = [p EXCEPT !.cc_in = c, !.next.M = x]
  BY Zenon DEF do_ex_stage
<1>2. x = ExecutedM(E, p.cc)
  BY DEF ExecutedM, AluOf
<1>3. c = IF set_cc(p) THEN CodesOf(E) ELSE p.cc_in
  BY DEF CodesOf
<1> HIDE DEF x, c
<1>4. /\ DOMAIN q = Fields /\ q.cur = p.cur /\ q.r = p.r /\ q.m = p.m /\ q.cc = p.cc
      /\ q.cc_in = c /\ q.f_pc = p.f_pc
      /\ q.write = p.write /\ q.addr = p.addr /\ q.data = p.data
      /\ q.next = [p.next EXCEPT !.M = x]
  BY <1>1 DEF FShape, Shape, Fields
<1>5. /\ DOMAIN q.next = Stages /\ q.next.M = x /\ q.next.D = p.next.D /\ q.next.F = p.next.F
      /\ q.next.W = p.next.W
  BY <1>4, StageNames DEF FShape, Shape
<1> QED
  BY <1>2, <1>3, <1>4, <1>5 DEF Same, FShape, Shape

LEMMA ForwardIs ==
  ASSUME NEW p, NEW src
  PROVE  forward(p, src) = Forwarded(p.cur, p.r, p.next.M, p.next.W, src)
  BY Zenon DEF forward, Forwarded

LEMMA DecodeData ==
  ASSUME NEW p, FShape(p), NEW q, q = do_id_wb_stages(p)
  PROVE  /\ Same(p, q) /\ q.cc_in = p.cc_in
         /\ q.write = p.write /\ q.addr = p.addr /\ q.data = p.data
         /\ q.next.D = p.next.D /\ q.next.F = p.next.F /\ q.next.W = p.next.W
         /\ q.next.M = p.next.M
         /\ q.next.E = DecodedE(p.cur.D,
              Forwarded(p.cur, p.r, p.next.M, p.next.W, srcA(p.cur.D.icode, p.cur.D.ra)),
              Forwarded(p.cur, p.r, p.next.M, p.next.W, srcB(p.cur.D.icode, p.cur.D.rb)))
<1> DEFINE D  == p.cur.D
           va == forward(p, srcA(D.icode, D.ra))
           vb == forward(p, srcB(D.icode, D.rb))
           x  == [icode |-> D.icode, ifun |-> D.ifun, valC |-> D.valC,
                  valA |-> IF D.icode \in {"CALL", "JMP"} THEN D.valP ELSE va,
                  valB |-> vb,
                  dstE |-> dstE(D.icode, D.rb, TRUE), dstM |-> dstM(D.icode, D.ra),
                  stat |-> D.stat, pc |-> D.pc]
           t  == IF p.cur.W.stat = "BUB" THEN "AOK" ELSE p.cur.W.stat
<1>1. q = [p EXCEPT !.status = t, !.next.E = x]
  BY Zenon DEF do_id_wb_stages
<1>2. x = DecodedE(D, va, vb)
  BY Zenon DEF DecodedE
<1>3. va = Forwarded(p.cur, p.r, p.next.M, p.next.W, srcA(D.icode, D.ra))
      /\ vb = Forwarded(p.cur, p.r, p.next.M, p.next.W, srcB(D.icode, D.rb))
  BY ForwardIs
<1> HIDE DEF x, t, va, vb
<1>4. /\ DOMAIN q = Fields /\ q.cur = p.cur /\ q.r = p.r /\ q.m = p.m /\ q.cc = p.cc
      /\ q.cc_in = p.cc_in /\ q.f_pc = p.f_pc
      /\ q.write = p.write /\ q.addr = p.addr /\ q.data = p.data
      /\ q.next = [p.next EXCEPT !.E = x]
  BY <1>1 DEF FShape, Shape, Fields
<1>5. /\ DOMAIN q.next = Stages /\ q.next.E = x /\ q.next.D = p.next.D /\ q.next.F = p.next.F
      /\ q.next.W = p.next.W /\ q.next.M = p.next.M
  BY <1>4, StageNames DEF FShape, Shape
<1> QED
  BY <1>2, <1>3, <1>4, <1>5 DEF Same, FShape, Shape

LEMMA ControlData ==
  ASSUME NEW p, FShape(p), NEW q, q = do_stall_check(p)
  PROVE  /\ Same(p, q) /\ q.cc_in = p.cc_in /\ q.next = p.next
         /\ q.write = p.write /\ q.addr = p.addr /\ q.data = p.data
<1>1. PICK o : o = [F |-> pipe_cntl(F_stall(p), FALSE),
                    D |-> pipe_cntl(D_stall(p), D_bubble(p)),
                    E |-> pipe_cntl(FALSE, E_bubble(p)),
                    M |-> pipe_cntl(FALSE, M_bubble(p)),
                    W |-> pipe_cntl(W_stall(p), FALSE)]
  OBVIOUS
<1>2. q = [p EXCEPT !.op = o]
  BY <1>1, Zenon DEF do_stall_check
<1> QED
  BY <1>2 DEF Same, FShape, Shape, Fields

\* What a cycle leaves that begins with the pipe registers Coming(p).
CycleOf(w, p, q) ==
  LET y == Coming(p)
      e == q.next.M
      l == q.next.W
  IN  /\ FShape(q) /\ q.cur = y /\ q.r = RegsAfter(p) /\ q.m = MemAfter(p) /\ q.cc = p.cc_in
      /\ q.f_pc = NextFetch(y)
      /\ q.next.D = FetchedD(w, MemAfter(p), NextFetch(y))
      /\ q.next.F.pc = Predicted(q.next.D)
      /\ l = PassedW(y.M, MemAfter(p))
      /\ q.write = mem_write(y.M.icode)
      /\ q.addr = mem_addr(y.M.icode, y.M.valE, y.M.valA) /\ q.data = y.M.valA
      /\ e = ExecutedM(y.E, p.cc_in)
      /\ q.cc_in = IF y.E.icode \in {"ALU", "IADDL"} /\ l.stat \notin Failed /\ y.W.stat \notin Failed
                   THEN CodesOf(y.E) ELSE p.cc_in
      /\ q.next.E = DecodedE(y.D, Forwarded(y, RegsAfter(p), e, l, srcA(y.D.icode, y.D.ra)),
                                  Forwarded(y, RegsAfter(p), e, l, srcB(y.D.icode, y.D.rb)))

LEMMA CycleData ==
  ASSUME NEW w, NEW n \in Int, n > 2, NEW p, FShape(p), NEW q, q = sim_step_pipe(w, n, p)
  PROVE  CycleOf(w, p, q)
<1>1. PICK y, r, m : y = Coming(p) /\ r = RegsAfter(p) /\ m = MemAfter(p)
  OBVIOUS
<1>2. PICK p1 : p1 = update_pipes(update_state(p, n))
  OBVIOUS
<1>3. PICK p2 : p2 = do_if_stage(w, p1)
  OBVIOUS
<1>4. PICK p3 : p3 = do_mem_stage(p2)
  OBVIOUS
<1>5. PICK p4 : p4 = do_ex_stage(p3)
  OBVIOUS
<1>6. PICK p5 : p5 = do_id_wb_stages(p4)
  OBVIOUS
<1>7. q = do_stall_check(p5)
  BY <1>2, <1>3, <1>4, <1>5, <1>6 DEF sim_step_pipe
<1>8. FShape(p1) /\ p1.cur = y /\ p1.r = r /\ p1.m = m /\ p1.cc = p.cc_in /\ p1.cc_in = p.cc_in
  BY <1>1, <1>2, UpdateData
<1>9. /\ FShape(p2) /\ p2.cur = y /\ p2.r = r /\ p2.m = m /\ p2.cc = p.cc_in
      /\ p2.cc_in = p.cc_in /\ p2.f_pc = NextFetch(y)
      /\ p2.next.D = FetchedD(w, m, NextFetch(y)) /\ p2.next.F.pc = Predicted(p2.next.D)
  BY <1>3, <1>8, FetchData
<1>10. /\ Same(p2, p3) /\ p3.cc_in = p.cc_in
       /\ p3.next.D = p2.next.D /\ p3.next.F = p2.next.F
       /\ p3.next.W = PassedW(y.M, m) /\ p3.write = mem_write(y.M.icode)
       /\ p3.addr = mem_addr(y.M.icode, y.M.valE, y.M.valA) /\ p3.data = y.M.valA
  BY <1>4, <1>9, MemData
<1>11. FShape(p3) /\ p3.cur = y /\ p3.r = r /\ p3.m = m /\ p3.cc = p.cc_in /\ p3.f_pc = NextFetch(y)
  BY <1>9, <1>10 DEF Same
<1>12. /\ Same(p3, p4)
       /\ p4.write = p3.write /\ p4.addr = p3.addr /\ p4.data = p3.data
       /\ p4.next.D = p3.next.D /\ p4.next.F = p3.next.F /\ p4.next.W = p3.next.W
       /\ p4.next.M = ExecutedM(y.E, p.cc_in)
       /\ p4.cc_in = IF set_cc(p3) THEN CodesOf(y.E) ELSE p.cc_in
  BY <1>5, <1>10, <1>11, ExData
<1>13. set_cc(p3) = (/\ y.E.icode \in {"ALU", "IADDL"} /\ p3.next.W.stat \notin Failed
                     /\ y.W.stat \notin Failed)
  BY <1>11 DEF set_cc, Failing
<1>14. FShape(p4) /\ p4.cur = y /\ p4.r = r /\ p4.m = m /\ p4.cc = p.cc_in /\ p4.f_pc = NextFetch(y)
  BY <1>11, <1>12 DEF Same
<1>15. PICK e, l : e = p4.next.M /\ l = p4.next.W
  OBVIOUS
<1>16. /\ Same(p4, p5) /\ p5.cc_in = p4.cc_in
       /\ p5.write = p4.write /\ p5.addr = p4.addr /\ p5.data = p4.data
       /\ p5.next.D = p4.next.D /\ p5.next.F = p4.next.F /\ p5.next.W = l /\ p5.next.M = e
       /\ p5.next.E = DecodedE(y.D, Forwarded(y, r, e, l, srcA(y.D.icode, y.D.ra)),
                                    Forwarded(y, r, e, l, srcB(y.D.icode, y.D.rb)))
  BY <1>6, <1>14, <1>15, DecodeData
<1>17. FShape(p5) /\ p5.cur = y /\ p5.r = r /\ p5.m = m /\ p5.cc = p.cc_in /\ p5.f_pc = NextFetch(y)
  BY <1>14, <1>16 DEF Same
<1>18. /\ Same(p5, q) /\ q.cc_in = p5.cc_in /\ q.next = p5.next
       /\ q.write = p5.write /\ q.addr = p5.addr /\ q.data = p5.data
  BY <1>7, <1>17, ControlData
<1>19. FShape(q) /\ q.cur = y /\ q.r = r /\ q.m = m /\ q.cc = p.cc_in /\ q.f_pc = NextFetch(y)
  BY <1>17, <1>18 DEF Same
<1>20. /\ q.next.D = FetchedD(w, m, NextFetch(y)) /\ q.next.F.pc = Predicted(q.next.D)
       /\ l = PassedW(y.M, m) /\ e = ExecutedM(y.E, p.cc_in) /\ q.next.W = l /\ q.next.M = e
       /\ q.write = mem_write(y.M.icode)
       /\ q.addr = mem_addr(y.M.icode, y.M.valE, y.M.valA) /\ q.data = y.M.valA
  BY <1>9, <1>10, <1>12, <1>15, <1>16, <1>18
<1>21. q.cc_in = IF y.E.icode \in {"ALU", "IADDL"} /\ l.stat \notin Failed /\ y.W.stat \notin Failed
                 THEN CodesOf(y.E) ELSE p.cc_in
  BY <1>12, <1>13, <1>15, <1>16, <1>18
<1>22. q.next.E = DecodedE(y.D, Forwarded(y, r, e, l, srcA(y.D.icode, y.D.ra)),
                                Forwarded(y, r, e, l, srcB(y.D.icode, y.D.rb)))
  BY <1>16, <1>18
<1> QED
  BY <1>1, <1>19, <1>20, <1>21, <1>22 DEF CycleOf

\* The conditions of the control logic, from the pipe registers y of a cycle and what it has
\* executed, e.
Waits(y)    == /\ y.E.icode \in {"MRMOVL", "POPL"}
               /\ y.E.dstM \in {srcA(y.D.icode, y.D.ra), srcB(y.D.icode, y.D.rb)}
Wrong(y, e) == y.E.icode = "JMP" /\ ~e.cnd
Returns(y)  == "RET" \in {y.D.icode, y.E.icode, y.M.icode}

\* The pipe registers z that follow y, when the instruction in W has not failed.
Shifted(y, q, z) ==
  /\ z.W = q.next.W
  /\ z.M = IF z.W.stat \in Failed THEN bubble.M ELSE q.next.M
  /\ z.E = IF Wrong(y, q.next.M) \/ Waits(y) THEN bubble.E ELSE q.next.E
  /\ z.D = IF Waits(y) THEN y.D
           ELSE IF Wrong(y, q.next.M) \/ Returns(y) THEN bubble.D ELSE q.next.D
  /\ z.F.pc = IF Waits(y) \/ Returns(y) THEN y.F.pc ELSE q.next.F.pc

LEMMA ShiftIs ==
  ASSUME NEW w, NEW n, NEW p, Shape(p), NEW q, q = sim_step_pipe(w, n, p),
         Coming(p).W.stat \notin Failed
  PROVE  Shifted(Coming(p), q, Coming(q))
<1>1. PICK y, z : y = Coming(p) /\ z = Coming(q)
  OBVIOUS
<1>2. /\ q.cur = y
      /\ q.op.F = pipe_cntl(F_stall(q), FALSE)
      /\ q.op.D = pipe_cntl(D_stall(q), D_bubble(q))
      /\ q.op.E = pipe_cntl(FALSE, E_bubble(q))
      /\ q.op.M = pipe_cntl(FALSE, M_bubble(q))
      /\ q.op.W = pipe_cntl(W_stall(q), FALSE)
  <2>1. Cycled(y, q)
    BY <1>1, CycleEffect DEF Coming
  <2> QED
    BY <2>1 DEF Cycled
<1>3. /\ load_use(q) <=> Waits(y)
      /\ mispredicted(q) <=> Wrong(y, q.next.M)
      /\ ret_ahead(q) <=> Returns(y)
      /\ Failing(q) <=> q.next.W.stat \in Failed
  BY <1>1, <1>2 DEF load_use, mispredicted, ret_ahead, Failing, Waits, Wrong, Returns
<1>4. ASSUME NEW s \in Stages
      PROVE  /\ q.op[s] = "LOAD"   => z[s] = q.next[s]
             /\ q.op[s] = "STALL"  => z[s] = y[s]
             /\ q.op[s] = "BUBBLE" => z[s] = bubble[s]
  BY <1>1, <1>2, ComingIs
<1>5. /\ q.op.W = "LOAD"
      /\ q.op.M = IF q.next.W.stat \in Failed THEN "BUBBLE" ELSE "LOAD"
      /\ q.op.E = IF Wrong(y, q.next.M) \/ Waits(y) THEN "BUBBLE" ELSE "LOAD"
      /\ q.op.F = IF Waits(y) \/ Returns(y) THEN "STALL" ELSE "LOAD"
  BY <1>1, <1>2, <1>3 DEF pipe_cntl, F_stall, E_bubble, M_bubble, W_stall
<1>6. ~(Waits(y) /\ Wrong(y, q.next.M))
  BY DEF Waits, Wrong
<1>7. q.op.D = IF Waits(y) THEN "STALL"
               ELSE IF Wrong(y, q.next.M) \/ Returns(y) THEN "BUBBLE" ELSE "LOAD"
  BY <1>2, <1>3, <1>6 DEF pipe_cntl, D_stall, D_bubble
<1>8. z.W = q.next.W
  BY <1>4, <1>5, StageNames
<1>9. z.M = IF z.W.stat \in Failed THEN bubble.M ELSE q.next.M
  BY <1>4, <1>5, <1>8, StageNames
<1>10. z.E = IF Wrong(y, q.next.M) \/ Waits(y) THEN bubble.E ELSE q.next.E
  BY <1>4, <1>5, StageNames
<1>11. z.D = IF Waits(y) THEN y.D
             ELSE IF Wrong(y, q.next.M) \/ Returns(y) THEN bubble.D ELSE q.next.D
  BY <1>4, <1>7, StageNames
<1>12. z.F.pc = IF Waits(y) \/ Returns(y) THEN y.F.pc ELSE q.next.F.pc
  BY <1>4, <1>5, StageNames
<1> QED
  BY <1>1, <1>8, <1>9, <1>10, <1>11, <1>12 DEF Shifted

------------------------------------------------------------------------------
(***************************************************************************)
(* The pipeline between two cycles. The pipe registers y that the next     *)
(* cycle begins with hold instructions in program order, W the oldest one. *)
(* Each has a state it is executed in: the one that those ahead of it will *)
(* leave when the changes that are due have been made.                     *)
(***************************************************************************)
AfterD(y) == NextFetch(y)
AfterE(y) == IF Empty(y, "D") THEN AfterD(y) ELSE y.D.pc
AfterM(y) == IF Empty(y, "E") THEN AfterE(y) ELSE y.E.pc
AfterW(y) == IF Empty(y, "M") THEN AfterM(y) ELSE y.M.pc
Oldest(y)   == IF Empty(y, "W") THEN AfterW(y) ELSE y.W.pc

\* The state that the instruction in W, M or E is executed in; c is what the condition
\* codes were.
StateW(p, c) == [pc |-> Oldest(Coming(p)), r |-> RegsAfter(p), m |-> p.m, cc |-> c]
StateM(p) ==
  LET W == Coming(p).W
  IN  [pc |-> AfterW(Coming(p)), r |-> Write(RegsAfter(p), W.dstE, W.valE, W.dstM, W.valM),
       m |-> MemAfter(p), cc |-> p.cc]
StateE(p) ==
  LET M == Coming(p).M
      s == StateM(p)
  IN  [pc |-> AfterM(Coming(p)), 
       r |-> Write(s.r, M.dstE, M.valE, M.dstM, PassedW(M, s.m).valM),
       m |-> IF mem_write(M.icode) THEN set_word_val(s.m, mem_addr(M.icode, M.valE, M.valA), M.valA)
             ELSE s.m,
       cc |-> p.cc_in]

\* What the registers hold of an instruction f, the one in E or M executed in s.
Expected(f) == IF f.icode \in {"JMP", "CALL"} THEN f.valc ELSE f.next

IsD(d, f) == /\ d.icode = f.icode /\ d.ifun = f.ifun /\ d.ra = f.ra /\ d.rb = f.rb
             /\ d.valC = f.valc /\ d.valP = f.next /\ d.stat = DecodedStatus(f.icode)
IsE(e, f, s) == /\ e.icode = f.icode /\ e.ifun = f.ifun /\ e.valC = f.valc
                /\ f.icode \in {"CALL", "JMP"} => e.valA = f.next
                /\ srcA(f.icode, f.ra) \in RegIds => e.valA = ValA(s, f)
                /\ srcB(f.icode, f.rb) \in RegIds => e.valB = ValB(s, f)
                /\ e.dstE = dstE(f.icode, f.rb, TRUE) /\ e.dstM = dstM(f.icode, f.ra)
                /\ e.stat = DecodedStatus(f.icode)
IsM(x, f, s) == /\ x.icode = f.icode /\ x.cnd = Cond(s, f) /\ x.valE = ValE(s, f)
                /\ f.icode \in {"CALL", "JMP"} => x.valA = f.next
                /\ srcA(f.icode, f.ra) \in RegIds => x.valA = ValA(s, f)
                /\ x.dstE = dstE(f.icode, f.rb, Cond(s, f)) /\ x.dstM = dstM(f.icode, f.ra)
                /\ x.stat = DecodedStatus(f.icode)

PipeCodes == Codes \ {"LEAVE"}
Loads == {"MRMOVL", "POPL"}
TypeD(d) == d.icode \in PipeCodes /\ d.valC \in Words /\ d.valP \in Int /\ d.pc \in Int
TypeE(e) == /\ e.icode \in PipeCodes /\ e.valC \in Words /\ e.valA \in Int /\ e.valB \in Words
            /\ e.pc \in Int
            /\ e.icode \notin Loads => e.dstM = NONE
            /\ e.icode = "NOP" => e.dstE = NONE
TypeM(x) == /\ x.icode \in PipeCodes /\ x.cnd \in BOOLEAN /\ x.valE \in Words /\ x.valA \in Int
            /\ x.pc \in Int
            /\ x.icode \notin Loads => x.dstM = NONE
            /\ x.icode = "NOP" => x.dstE = NONE
TypeW(x) == /\ x.icode \in PipeCodes /\ x.valE \in Words /\ x.valM \in Words /\ x.pc \in Int
            /\ x.icode \notin Loads => x.dstM = NONE
            /\ x.icode = "NOP" => x.dstE = NONE
PipeTypes(p) ==
  LET y == Coming(p)
  IN  /\ FShape(p) /\ p.r \in Registers /\ p.m \in Memory /\ p.cc \in Flags /\ p.cc_in \in Flags
      /\ p.addr \in Int /\ p.data \in Int /\ TypeW(p.cur.W)
      /\ y.F.pc \in Int /\ TypeD(y.D) /\ TypeE(y.E) /\ TypeM(y.M) /\ TypeW(y.W)

\* Behind a ret, and behind a jump that has turned out not to be made, nothing is fetched.
Gaps(y) == /\ y.E.icode = "RET" => Empty(y, "D")
           /\ y.M.icode = "RET" => Empty(y, "D") /\ Empty(y, "E")
           /\ y.W.icode = "RET" => Empty(y, "D") /\ Empty(y, "E") /\ Empty(y, "M")
           /\ y.M.icode = "JMP" /\ ~y.M.cnd => Empty(y, "D") /\ Empty(y, "E")

\* The instructions of the program m that are plain, but for changed addresses T.
SoundCode(w, m, T) ==
  [pc \in {pc \in 0 .. MEM_SIZE - 1 : /\ PlainAt(w, m, pc)
                                     /\ \A a \in pc .. pc + 1 + WordBytes : a \notin T}
     |-> Fetch(w, m, pc)]

\* What each pipe register holds of the instruction in it, if that is one of code.
HoldsD(p, code) ==
  LET y == Coming(p)
  IN  ~Empty(y, "D") /\ y.D.pc \in DOMAIN code =>
        /\ IsD(y.D, code[y.D.pc])
        /\ y.D.icode # "RET" => AfterD(y) = Expected(code[y.D.pc])
HoldsE(p, code) ==
  LET y == Coming(p)
  IN  ~Empty(y, "E") /\ y.E.pc \in DOMAIN code =>
        /\ IsE(y.E, code[y.E.pc], StateE(p))
        /\ y.E.icode # "RET" => AfterE(y) = Expected(code[y.E.pc])
HoldsM(p, code) ==
  LET y == Coming(p)
      done == Completed(StateM(p), code[y.M.pc])
  IN  /\ Empty(y, "M") => p.cc_in = p.cc
      /\ ~Empty(y, "M") /\ y.M.pc \in DOMAIN code =>
           /\ IsM(y.M, code[y.M.pc], StateM(p)) /\ p.cc_in = done.cc
           /\ y.M.icode # "RET" => AfterM(y) = done.pc
HoldsW(p, c, code) ==
  LET y == Coming(p)
      s == StateW(p, c)
  IN  /\ Empty(y, "W") => StateM(p) = s
      /\ ~Empty(y, "W") /\ y.W.pc \in DOMAIN code =>
           /\ y.W.stat = StatusOf(s, code[y.W.pc])
           /\ y.W.stat = "AOK" => StateM(p) = Completed(s, code[y.W.pc])
           /\ y.W.stat # "AOK" => MemAfter(p) = p.m /\ p.cc = c /\ p.cc_in = c

PipeRun(p, c, code) ==
  /\ PipeTypes(p) /\ c \in Flags /\ Regular(Coming(p)) /\ Gaps(Coming(p))
  /\ oldest_pc(p) = Oldest(Coming(p)) /\ p.cur.W.stat \notin Failed
  /\ HoldsW(p, c, code)
  /\ Coming(p).W.stat \notin Failed => HoldsM(p, code) /\ HoldsE(p, code) /\ HoldsD(p, code)
PipeSim ==
  /\ sim \in {"PIPE", "SEQ"} /\ v \in Versions /\ icount \in Nat
  /\ sim = "PIPE" =>
       /\ "LEAVE" \notin v /\ prog \in Memory
       /\ \A a \in 0 .. MEM_SIZE - 1 : mach.m[a] # prog[a] => a \in touched
       /\ run_status = "AOK" /\ ~NearLimit => PipeRun(mach, cc0, SoundCode(v, prog, touched))

------------------------------------------------------------------------------
(***************************************************************************)
(* An instruction on its way through the pipe registers.                   *)
(***************************************************************************)
Proper(f) == /\ f.icode \in PipeCodes /\ f.valc \in Words /\ f.next \in Int
             /\ f.icode \in {"RRMOVL", "RMMOVL", "ALU", "PUSHL"} => f.ra \in RegIds
             /\ f.icode \in {"ALU", "RMMOVL", "MRMOVL", "IADDL"} => f.rb \in RegIds

\* What can be fetched at pc does not depend on the rest of the memory.
LEMMA CodeLocal ==
  ASSUME NEW w, NEW m \in Memory, NEW n \in Memory, NEW pc \in Int,
         Byte_ok(pc), Byte_ok(pc + 1 + WordBytes),
         \A a \in pc .. pc + 1 + WordBytes : m[a] = n[a]
  PROVE  Fetch(w, m, pc) = Fetch(w, n, pc) /\ Decode(m, pc) = Decode(n, pc)
<1>1. WordBytes \in Nat \ {0} /\ MEM_SIZE \in Nat
  BY WordAssumption
<1>2. m[pc] = n[pc] /\ m[pc + 1] = n[pc + 1]
  <2>1. pc \in pc .. pc + 1 + WordBytes /\ pc + 1 \in pc .. pc + 1 + WordBytes
    BY <1>1
  <2> QED
    BY <2>1
<1>3. get_byte_val(m, pc) = get_byte_val(n, pc)
  BY <1>2 DEF get_byte_val
<1>4. ASSUME NEW at \in {pc + 1, pc + 2}
      PROVE  get_word_val(m, at) = get_word_val(n, at)
  <2>1. ASSUME NEW i \in 1 .. WordBytes PROVE m[at + i - 1] = n[at + i - 1]
    <3>1. at + i - 1 \in pc .. pc + 1 + WordBytes
      BY <1>1
    <3> QED
      BY <3>1
  <2>2. [i \in 1 .. WordBytes |-> m[at + i - 1] * 2 ^ (8 * (i - 1))]
          = [i \in 1 .. WordBytes |-> n[at + i - 1] * 2 ^ (8 * (i - 1))]
    BY <2>1, Zenon
  <2> QED
    BY <2>2, Zenon DEF get_word_val
<1>5. get_word_val(m, pc + 1) = get_word_val(n, pc + 1)
      /\ get_word_val(m, pc + 2) = get_word_val(n, pc + 2)
  BY <1>4
<1>6. Decode(m, pc) = Decode(n, pc)
  <2>1. PICK d, e : d = Decode(m, pc) /\ e = Decode(n, pc)
    OBVIOUS
  <2>2. PICK i : i = Member(itype_t, HI4(get_byte_val(m, pc)))
    OBVIOUS
  <2>3. PICK at : at = IF need_regids(i) THEN pc + 2 ELSE pc + 1
    OBVIOUS
  <2>4. get_word_val(m, at) = get_word_val(n, at)
    BY <1>5, <2>3
  <2> QED
    BY <1>2, <1>3, <2>2, <2>3, <2>4, Zenon DEF Decode
<1> QED
  BY <1>6, Zenon DEF Fetch

LEMMA PlainProper ==
  ASSUME NEW w \in Versions, "LEAVE" \notin w, NEW m \in Memory, NEW pc \in Int,
         PlainAt(w, m, pc), NEW f, f = Fetch(w, m, pc)
  PROVE  Proper(f)
<1>1. PICK d : d = Decode(m, pc)
  OBVIOUS
<1>2. FetchedOf(d, f)
  BY <1>1, PlainDecode
<1>3. /\ d.icode \in Standard \union w \union {"BAD"}
      /\ CheckedRegs(d) \subseteq RegIds
      /\ d.icode = "ALU" => d.ra \in RegIds /\ d.rb \in RegIds
      /\ d.icode \in {"RMMOVL", "MRMOVL"} => d.rb \in RegIds
  BY <1>1 DEF PlainAt
<1>4. f.icode \in PipeCodes
  BY <1>2, <1>3 DEF FetchedOf, PipeCodes, Standard
<1>5. d.icode \in {"RRMOVL", "RMMOVL", "PUSHL"} => d.ra \in RegIds
  BY <1>3 DEF CheckedRegs
<1>6. d.icode = "IADDL" => d.rb \in RegIds
  BY <1>3 DEF CheckedRegs
<1> QED
  BY <1>2, <1>3, <1>4, <1>5, <1>6 DEF FetchedOf, Proper

LEMMA EntersDecode ==
  ASSUME NEW w, NEW m, NEW pc, Byte_ok(pc), Byte_ok(pc + 1 + WordBytes),
         NEW f, f = Fetch(w, m, pc)
  PROVE  /\ IsD(FetchedD(w, m, pc), f) /\ FetchedD(w, m, pc).pc = pc
         /\ Predicted(FetchedD(w, m, pc)) = Expected(f)
<1>1. PICK d : d = FetchedD(w, m, pc)
  OBVIOUS
<1>2. PICK t : t = CASE f.icode = "BAD"  -> "INS"
                     [] f.icode = "HALT" -> "HLT"
                     [] OTHER -> "AOK"
  OBVIOUS
<1>3. d = [icode |-> f.icode, ifun |-> f.ifun, ra |-> f.ra, rb |-> f.rb,
           valC |-> f.valc, valP |-> f.next, pc |-> pc, stat |-> t]
  BY <1>1, <1>2 DEF FetchedD
<1>4. t = DecodedStatus(f.icode)
  BY <1>2 DEF DecodedStatus
<1> QED
  BY <1>1, <1>3, <1>4 DEF IsD, Predicted, Expected

LEMMA EntersExecute ==
  ASSUME NEW d, NEW f, IsD(d, f), NEW s, NEW va, NEW vb,
         srcA(f.icode, f.ra) \in RegIds => va = get_reg_val(s.r, srcA(f.icode, f.ra)),
         srcB(f.icode, f.rb) \in RegIds => vb = get_reg_val(s.r, srcB(f.icode, f.rb))
  PROVE  IsE(DecodedE(d, va, vb), f, s) /\ DecodedE(d, va, vb).pc = d.pc
<1>1. PICK e : e = DecodedE(d, va, vb)
  OBVIOUS
<1>2. /\ e.icode = f.icode /\ e.ifun = f.ifun /\ e.valC = f.valc /\ e.valB = vb
      /\ e.valA = (IF f.icode \in {"CALL", "JMP"} THEN f.next ELSE va)
      /\ e.dstE = dstE(f.icode, f.rb, TRUE) /\ e.dstM = dstM(f.icode, f.ra)
      /\ e.stat = DecodedStatus(f.icode) /\ e.pc = d.pc
  BY <1>1 DEF DecodedE, IsD
<1>3. f.icode \in {"CALL", "JMP"} => srcA(f.icode, f.ra) \notin RegIds
  BY DEF srcA, NONE, RegIds
<1> QED
  BY <1>1, <1>2, <1>3 DEF IsE, ValA, ValB

LEMMA EntersMemory ==
  ASSUME NEW e, NEW f, NEW s, Proper(f), IsE(e, f, s)
  PROVE  /\ IsM(ExecutedM(e, s.cc), f, s) /\ ExecutedM(e, s.cc).pc = e.pc
         /\ f.icode \in {"ALU", "IADDL"} => CodesOf(e) = Completed(s, f).cc
<1>1. aluA(e.icode, e.valA, e.valC) = InA(s, f)
  BY DEF IsE, Proper, InA, aluA, srcA
<1>2. aluB(e.icode, e.valB) = InB(s, f)
  BY DEF IsE, Proper, InB, aluB, srcB, RegIds, ESP, PipeCodes
<1>3. e.icode = f.icode /\ e.ifun = f.ifun
  BY DEF IsE
<1>4. AluOf(e) = ValE(s, f)
  BY <1>1, <1>2, <1>3 DEF AluOf, ValE
<1>5. CodesOf(e) = compute_cc(alufun(f.icode, f.ifun), InA(s, f), InB(s, f))
  BY <1>1, <1>2, <1>3 DEF CodesOf
<1>6. PICK x : x = ExecutedM(e, s.cc)
  OBVIOUS
<1>7. cond_holds(s.cc, e.ifun) = Cond(s, f)
  BY <1>3 DEF Cond
<1>8. /\ x.icode = f.icode /\ x.cnd = Cond(s, f) /\ x.valE = ValE(s, f) /\ x.valA = e.valA
      /\ x.dstM = e.dstM /\ x.stat = e.stat /\ x.pc = e.pc
      /\ x.dstE = IF f.icode = "RRMOVL" /\ ~Cond(s, f) THEN NONE ELSE e.dstE
  BY <1>3, <1>4, <1>6, <1>7 DEF ExecutedM
<1>9. x.dstE = dstE(f.icode, f.rb, Cond(s, f))
  BY <1>8 DEF IsE, dstE
<1>10. IsM(x, f, s)
  BY <1>8, <1>9 DEF IsE, IsM
<1> QED
  BY <1>5, <1>6, <1>8, <1>10 DEF Completed

\* The memory stage finds the address, the status and the value of the instruction, and
\* prepares its store.
LEMMA EntersWriteBack ==
  ASSUME NEW x, NEW f, NEW s, Proper(f), IsM(x, f, s), NEW l, l = PassedW(x, s.m)
  PROVE  /\ l.stat = StatusOf(s, f) /\ l.pc = x.pc /\ l.valM = ValM(s, f)
         /\ Write(s.r, l.dstE, l.valE, l.dstM, l.valM) = Completed(s, f).r
         /\ (IF mem_write(x.icode)
             THEN set_word_val(s.m, mem_addr(x.icode, x.valE, x.valA), x.valA) ELSE s.m)
              = Completed(s, f).m
         /\ StatusOf(s, f) # "AOK" => Completed(s, f).m = s.m /\ Completed(s, f).cc = s.cc
<1>1. x.icode = f.icode /\ x.valE = ValE(s, f) /\ f.icode \in PipeCodes
  BY DEF IsM, Proper
<1>2. mem_addr(x.icode, x.valE, x.valA) = Addr(s, f)
  BY <1>1 DEF IsM, Addr, mem_addr, srcA, RegIds, ESP, PipeCodes
<1>3. mem_write(x.icode) => x.valA = Stored(s, f)
  BY <1>1 DEF IsM, Proper, Stored, mem_write, srcA
<1>4. PICK a, bad, val : /\ a = Addr(s, f) /\ bad = BadAddr(s, f) /\ val = ValM(s, f)
  OBVIOUS
<1>5. /\ l.icode = x.icode /\ l.valE = x.valE /\ l.dstE = x.dstE /\ l.dstM = x.dstM
      /\ l.pc = x.pc /\ l.valM = val /\ l.stat = IF bad THEN "ADR" ELSE x.stat
  BY <1>1, <1>2, <1>4 DEF PassedW, BadAddr, ValM
<1>6. l.stat = StatusOf(s, f)
  BY <1>4, <1>5 DEF StatusOf, IsM
<1>7. Write(s.r, l.dstE, l.valE, l.dstM, l.valM) = Completed(s, f).r
  BY <1>1, <1>4, <1>5 DEF Completed, IsM
<1>8. (IF mem_write(x.icode)
       THEN set_word_val(s.m, mem_addr(x.icode, x.valE, x.valA), x.valA) ELSE s.m)
         = Completed(s, f).m
  BY <1>1, <1>2, <1>3 DEF Completed
<1>9. ASSUME StatusOf(s, f) # "AOK"
      PROVE  Completed(s, f).m = s.m /\ Completed(s, f).cc = s.cc
  <2>1. BadAddr(s, f) \/ f.icode \in {"BAD", "HALT"}
    BY <1>9 DEF StatusOf, DecodedStatus
  <2>2. f.icode \notin {"ALU", "IADDL"}
    BY <2>1 DEF BadAddr, mem_read, mem_write
  <2>3. mem_write(f.icode) => ~Word_ok(Addr(s, f))
    BY <2>1 DEF BadAddr, mem_write
  <2>4. Completed(s, f).m = s.m
    BY <2>3 DEF Completed, set_word_val
  <2> QED
    BY <2>2, <2>4 DEF Completed
<1> QED
  BY <1>4, <1>5, <1>6, <1>7, <1>8, <1>9

------------------------------------------------------------------------------
(***************************************************************************)
(* The types of what the pipe registers hold.                              *)
(***************************************************************************)
LEMMA BubbleTypes == TypeD(bubble.D) /\ TypeE(bubble.E) /\ TypeM(bubble.M) /\ TypeW(bubble.W)
<1>1. PICK D : D = bubble.D
  OBVIOUS
<1>2. TypeD(bubble.D)
  BY WordsAreIntegers DEF bubble, TypeD, PipeCodes, Codes
<1>3. TypeE(bubble.E)
  BY WordsAreIntegers DEF bubble, TypeE, PipeCodes, Codes
<1>4. TypeM(bubble.M)
  BY WordsAreIntegers DEF bubble, TypeM, PipeCodes, Codes
<1>5. TypeW(bubble.W)
  BY WordsAreIntegers DEF bubble, TypeW, PipeCodes, Codes
<1> QED
  BY <1>2, <1>3, <1>4, <1>5

LEMMA FetchedType ==
  ASSUME NEW w \in Versions, "LEAVE" \notin w, NEW m \in Memory, NEW pc \in Int,
         NEW d, d = FetchedD(w, m, pc)
  PROVE  TypeD(d) /\ d.stat \in Fetched /\ d.pc = pc
<1>1. PICK f : f = Fetch(w, m, pc)
  OBVIOUS
<1>2. f.valc \in Words /\ f.next \in Int
  BY <1>1, FetchType
<1>3. f.icode \in PipeCodes
  <2>1. PICK c : c = Decode(m, pc)
    OBVIOUS
  <2>2. /\ c = [ok |-> c.ok, icode |-> c.icode, ifun |-> c.ifun, ok1 |-> c.ok1, ra |-> c.ra,
                rb |-> c.rb, okc |-> c.okc, valc |-> c.valc, next |-> c.next]
        /\ c.icode \in Codes
    BY <2>1, DecodeType
  <2>3. f = IF c.icode \in Standard \union w THEN c
            ELSE [c EXCEPT !.icode = "BAD", !.ra = NONE, !.rb = NONE, !.valc = 0, !.next = pc + 1]
    BY <1>1, <2>1 DEF Fetch
  <2>4. f.icode = IF c.icode \in Standard \union w THEN c.icode ELSE "BAD"
    BY <2>2, <2>3
  <2>5. "LEAVE" \notin Standard \union w
    BY DEF Standard
  <2> QED
    BY <2>2, <2>4, <2>5 DEF PipeCodes, Codes
<1>4. PICK t : t = CASE f.icode = "BAD"  -> "INS"
                     [] f.icode = "HALT" -> "HLT"
                     [] OTHER -> "AOK"
  OBVIOUS
<1>5. t \in Fetched
  BY <1>4 DEF Fetched, Failed
<1>6. \/ d = [bubble.D EXCEPT !.stat = "ADR", !.pc = pc, !.valP = pc + 1]
      \/ d = [icode |-> f.icode, ifun |-> f.ifun, ra |-> f.ra, rb |-> f.rb,
              valC |-> f.valc, valP |-> f.next, pc |-> pc, stat |-> t]
  BY <1>1, <1>4 DEF FetchedD
<1>7. CASE d = [bubble.D EXCEPT !.stat = "ADR", !.pc = pc, !.valP = pc + 1]
  <2>1. /\ d.icode = "NOP" /\ d.valC = 0 /\ d.valP = pc + 1 /\ d.pc = pc /\ d.stat = "ADR"
    BY <1>7 DEF bubble
  <2> QED
    BY <2>1, WordsAreIntegers DEF TypeD, PipeCodes, Codes, Fetched, Failed
<1>8. CASE d = [icode |-> f.icode, ifun |-> f.ifun, ra |-> f.ra, rb |-> f.rb,
                valC |-> f.valc, valP |-> f.next, pc |-> pc, stat |-> t]
  BY <1>2, <1>3, <1>5, <1>8 DEF TypeD
<1> QED
  BY <1>6, <1>7, <1>8

LEMMA PassedType ==
  ASSUME NEW x, TypeM(x), NEW m \in Memory
  PROVE  TypeW(PassedW(x, m)) /\ mem_addr(x.icode, x.valE, x.valA) \in Int
<1>1. x.valE \in Words /\ x.valE \in Int /\ x.valA \in Int /\ x.pc \in Int
  BY WordsAreIntegers DEF TypeM
<1>2. PICK a : a = mem_addr(x.icode, x.valE, x.valA) /\ a \in Int
  BY <1>1 DEF mem_addr
<1>3. get_word_val(m, a) \in Words
  BY <1>2, ReadType
<1>4. PICK l : l = PassedW(x, m)
  OBVIOUS
<1>5. /\ l.icode = x.icode /\ l.valE = x.valE /\ l.dstE = x.dstE /\ l.dstM = x.dstM /\ l.pc = x.pc
      /\ l.valM = IF mem_read(x.icode) THEN get_word_val(m, a) ELSE 0
  BY <1>2, <1>4 DEF PassedW
<1> QED
  BY <1>1, <1>2, <1>3, <1>4, <1>5, WordsAreIntegers DEF TypeM, TypeW

LEMMA ExecutedType ==
  ASSUME NEW e, TypeE(e), NEW c \in Flags
  PROVE  TypeM(ExecutedM(e, c)) /\ CodesOf(e) \in Flags
<1>1. e.valA \in Int /\ e.valB \in Int /\ e.valC \in Int /\ e.pc \in Int /\ e.icode \in PipeCodes
  BY WordsAreIntegers DEF TypeE
<1>2. aluA(e.icode, e.valA, e.valC) \in Int /\ aluB(e.icode, e.valB) \in Int
  BY <1>1, WordAssumption DEF aluA, aluB
<1>3. AluOf(e) \in Words
  BY <1>2, AluType DEF AluOf
<1>4. cond_holds(c, e.ifun) \in BOOLEAN
  <2>1. c.zf \in BOOLEAN /\ c.sf \in BOOLEAN /\ c.of \in BOOLEAN
    BY DEF Flags
  <2> QED
    BY <2>1 DEF cond_holds
<1>5. CodesOf(e) \in Flags
  BY DEF CodesOf, compute_cc, CC, Flags
<1>6. PICK b : b = cond_holds(c, e.ifun)
  OBVIOUS
<1>7. PICK x : x = ExecutedM(e, c)
  OBVIOUS
<1>8. /\ x.icode = e.icode /\ x.cnd = b /\ x.valE = AluOf(e) /\ x.valA = e.valA
      /\ x.dstM = e.dstM /\ x.pc = e.pc
      /\ x.dstE = IF e.icode = "RRMOVL" /\ ~b THEN NONE ELSE e.dstE
  BY <1>6, <1>7 DEF ExecutedM
<1> QED
  BY <1>1, <1>3, <1>4, <1>5, <1>6, <1>7, <1>8 DEF TypeE, TypeM

LEMMA DecodedType ==
  ASSUME NEW d, TypeD(d), NEW va \in Words, NEW vb \in Words
  PROVE  TypeE(DecodedE(d, va, vb))
<1>1. va \in Int /\ d.valC \in Words /\ d.valP \in Int /\ d.pc \in Int /\ d.icode \in PipeCodes
  BY WordsAreIntegers DEF TypeD
<1>2. PICK e : e = DecodedE(d, va, vb)
  OBVIOUS
<1>3. /\ e.icode = d.icode /\ e.valC = d.valC /\ e.valB = vb /\ e.pc = d.pc
      /\ e.valA = (IF d.icode \in {"CALL", "JMP"} THEN d.valP ELSE va)
      /\ e.dstE = dstE(d.icode, d.rb, TRUE) /\ e.dstM = dstM(d.icode, d.ra)
  BY <1>2 DEF DecodedE
<1>4. d.icode \notin Loads => e.dstM = NONE
  BY <1>1, <1>3 DEF dstM, Loads, PipeCodes
<1>5. d.icode = "NOP" => e.dstE = NONE
  BY <1>3 DEF dstE
<1> QED
  BY <1>1, <1>2, <1>3, <1>4, <1>5 DEF TypeE

LEMMA ForwardedType ==
  ASSUME NEW y, TypeM(y.M), TypeW(y.W), NEW r \in Registers, NEW e, TypeM(e), NEW l, TypeW(l),
         NEW src
  PROVE  Forwarded(y, r, e, l, src) \in Words
<1>1. e.valE \in Words /\ l.valM \in Words /\ y.M.valE \in Words /\ y.W.valM \in Words
      /\ y.W.valE \in Words
  BY DEF TypeM, TypeW
<1>2. get_reg_val(r, src) \in Words
  BY RegisterType, WordsAreIntegers
<1> QED
  BY <1>1, <1>2 DEF Forwarded

LEMMA WriteType ==
  ASSUME NEW r \in Registers, NEW x, TypeW(x)
  PROVE  Write(r, x.dstE, x.valE, x.dstM, x.valM) \in Registers
  BY RegisterType DEF Write, TypeW

\* The types of what a cycle begins with, when it does not bring about the end of the run.
LEMMA PipeTypesKept ==
  ASSUME NEW w \in Versions, "LEAVE" \notin w, NEW p, PipeTypes(p), NEW q, CycleOf(w, p, q),
         Shifted(Coming(p), q, Coming(q))
  PROVE  PipeTypes(q)
<1>1. PICK y, z, e, l : y = Coming(p) /\ z = Coming(q) /\ e = q.next.M /\ l = q.next.W
  OBVIOUS
<1>2. PICK r, m, pc : r = RegsAfter(p) /\ m = MemAfter(p) /\ pc = NextFetch(y)
  OBVIOUS
<1>3. /\ FShape(p) /\ p.r \in Registers /\ p.m \in Memory /\ p.cc_in \in Flags
      /\ p.addr \in Int /\ p.data \in Int /\ TypeW(p.cur.W)
      /\ y.F.pc \in Int /\ TypeD(y.D) /\ TypeE(y.E) /\ TypeM(y.M) /\ TypeW(y.W)
  BY <1>1 DEF PipeTypes
<1>4. r \in Registers
  BY <1>2, <1>3, WriteType DEF RegsAfter
<1>5. m \in Memory
  BY <1>2, <1>3, StoreType DEF MemAfter
<1>6. pc \in Int
  BY <1>2, <1>3, WordsAreIntegers DEF NextFetch, TypeM, TypeW
<1>7. /\ FShape(q) /\ q.cur = y /\ q.r = r /\ q.m = m /\ q.cc = p.cc_in
      /\ q.next.D = FetchedD(w, m, pc) /\ q.next.F.pc = Predicted(q.next.D)
      /\ l = PassedW(y.M, m)
      /\ q.addr = mem_addr(y.M.icode, y.M.valE, y.M.valA) /\ q.data = y.M.valA
      /\ e = ExecutedM(y.E, p.cc_in)
      /\ q.cc_in \in {CodesOf(y.E), p.cc_in}
      /\ q.next.E = DecodedE(y.D, Forwarded(y, r, e, l, srcA(y.D.icode, y.D.ra)),
                                  Forwarded(y, r, e, l, srcB(y.D.icode, y.D.rb)))
  BY <1>1, <1>2, Zenon DEF CycleOf
<1>8. TypeD(q.next.D)
  BY <1>5, <1>6, <1>7, FetchedType
<1>9. TypeW(l) /\ q.addr \in Int
  BY <1>3, <1>5, <1>7, PassedType
<1>10. TypeM(e) /\ q.cc_in \in Flags
  BY <1>3, <1>7, ExecutedType
<1>11. TypeE(q.next.E)
  <2>1. PICK va, vb : /\ va = Forwarded(y, r, e, l, srcA(y.D.icode, y.D.ra))
                      /\ vb = Forwarded(y, r, e, l, srcB(y.D.icode, y.D.rb))
    OBVIOUS
  <2>2. va \in Words /\ vb \in Words
    BY <1>3, <1>4, <1>9, <1>10, <2>1, ForwardedType
  <2> QED
    BY <1>3, <1>7, <2>1, <2>2, DecodedType
<1>12. q.next.F.pc \in Int /\ q.data \in Int
  BY <1>3, <1>7, <1>8, WordsAreIntegers DEF Predicted, TypeD, TypeM
<1>13. /\ z.W = l /\ z.M \in {bubble.M, e} /\ z.E \in {bubble.E, q.next.E}
       /\ z.D \in {y.D, bubble.D, q.next.D} /\ z.F.pc \in {y.F.pc, q.next.F.pc}
  BY <1>1 DEF Shifted
<1>14. TypeD(z.D) /\ TypeE(z.E) /\ TypeM(z.M) /\ TypeW(z.W) /\ z.F.pc \in Int
  BY <1>3, <1>8, <1>9, <1>10, <1>11, <1>12, <1>13, BubbleTypes
<1> QED
  BY <1>1, <1>3, <1>4, <1>5, <1>7, <1>9, <1>10, <1>12, <1>14 DEF PipeTypes

------------------------------------------------------------------------------
(***************************************************************************)
(* The order of the instructions in the pipe registers.                    *)
(***************************************************************************)
\* What the stages hand on, with the instruction it belongs to.
Passes(y, q) ==
  LET n == q.next
  IN  /\ n.W.icode = y.M.icode /\ n.W.pc = y.M.pc /\ (n.W.stat = "BUB" <=> y.M.stat = "BUB")
      /\ n.M.icode = y.E.icode /\ n.M.pc = y.E.pc /\ n.M.stat = y.E.stat /\ n.M.valA = y.E.valA
      /\ n.E.icode = y.D.icode /\ n.E.pc = y.D.pc /\ n.E.stat = y.D.stat
      /\ n.D.pc = NextFetch(y) /\ n.D.stat \in Fetched /\ n.F.pc = Predicted(n.D)

LEMMA PassesIs ==
  ASSUME NEW w \in Versions, "LEAVE" \notin w, NEW p, PipeTypes(p), NEW q, CycleOf(w, p, q),
         NEW y, y = Coming(p), Regular(y)
  PROVE  Passes(y, q)
<1>1. PICK m, pc : m = MemAfter(p) /\ pc = NextFetch(y)
  OBVIOUS
<1>2. m \in Memory
  BY <1>1, StoreType DEF MemAfter, PipeTypes
<1>3. pc \in Int
  BY <1>1, WordsAreIntegers DEF NextFetch, PipeTypes, TypeM, TypeW
<1>4. PICK va, vb : /\ q.next.D = FetchedD(w, m, pc) /\ q.next.F.pc = Predicted(q.next.D)
                    /\ q.next.W = PassedW(y.M, m) /\ q.next.M = ExecutedM(y.E, p.cc_in)
                    /\ q.next.E = DecodedE(y.D, va, vb)
  BY <1>1 DEF CycleOf
<1>5. q.next.D.pc = pc /\ q.next.D.stat \in Fetched
  BY <1>2, <1>3, <1>4, FetchedType
<1>6. /\ q.next.M.icode = y.E.icode /\ q.next.M.pc = y.E.pc /\ q.next.M.stat = y.E.stat
      /\ q.next.M.valA = y.E.valA
  BY <1>4 DEF ExecutedM
<1>7. q.next.E.icode = y.D.icode /\ q.next.E.pc = y.D.pc /\ q.next.E.stat = y.D.stat
  BY <1>4 DEF DecodedE
<1>8. /\ q.next.W.icode = y.M.icode /\ q.next.W.pc = y.M.pc
      /\ \/ q.next.W.stat = y.M.stat
         \/ q.next.W.stat = "ADR" /\ (mem_read(y.M.icode) \/ mem_write(y.M.icode))
  <2>1. PICK l : l = PassedW(y.M, m)
    OBVIOUS
  <2>2. /\ l.icode = y.M.icode /\ l.pc = y.M.pc
        /\ l.stat = IF /\ mem_read(y.M.icode) \/ mem_write(y.M.icode)
                       /\ ~Word_ok(mem_addr(y.M.icode, y.M.valE, y.M.valA))
                    THEN "ADR" ELSE y.M.stat
    BY <2>1 DEF PassedW
  <2> QED
    BY <1>4, <2>1, <2>2
<1>9. y.M.stat = "BUB" => y.M.icode = "NOP"
  BY DEF Regular, Behind, Empty
<1>10. q.next.W.stat = "BUB" <=> y.M.stat = "BUB"
  BY <1>8, <1>9 DEF mem_read, mem_write
<1> QED
  BY <1>1, <1>4, <1>5, <1>6, <1>7, <1>8, <1>10 DEF Passes

\* Which instruction follows which, after a cycle.
Follows(y, q, z) ==
  /\ z.W.stat \notin Failed => AfterW(z) = IF y.M.icode = "RET" THEN z.W.valM ELSE AfterM(y)
  /\ z.W.stat \notin Failed /\ ~Empty(z, "M") /\ z.M.icode # "RET" =>
       AfterM(z) = IF z.M.icode = "JMP" /\ ~z.M.cnd THEN z.M.valA ELSE AfterE(y)
  /\ z.W.stat \notin Failed /\ ~Empty(z, "E") /\ z.E.icode # "RET" => AfterE(z) = AfterD(y)
  /\ z.W.stat \notin Failed /\ ~Empty(z, "D") /\ z.D.icode # "RET" =>
       AfterD(z) = IF Waits(y) THEN AfterD(y) ELSE Predicted(q.next.D)

LEMMA OrderKept ==
  ASSUME NEW y, Regular(y), Gaps(y), NEW q, Passes(y, q), NEW z, Shifted(y, q, z)
  PROVE  Gaps(z) /\ Oldest(z) = AfterW(y) /\ Follows(y, q, z)
<1>1. PICK e : e = q.next.M
  OBVIOUS
<1>2. /\ y.D.stat = "BUB" => y.D.icode = "NOP"
      /\ y.E.stat = "BUB" => y.E.icode = "NOP"
      /\ y.M.stat = "BUB" => y.M.icode = "NOP"
  BY DEF Regular, Behind, Empty
<1>3. /\ y.E.icode = "RET" => y.D.stat = "BUB"
      /\ y.M.icode = "RET" => y.D.stat = "BUB" /\ y.E.stat = "BUB"
      /\ y.W.icode = "RET" => y.D.stat = "BUB" /\ y.E.stat = "BUB" /\ y.M.stat = "BUB"
      /\ y.M.icode = "JMP" /\ ~y.M.cnd => y.D.stat = "BUB" /\ y.E.stat = "BUB"
  BY DEF Gaps, Empty
<1>4. PICK waits, wrong, returns : /\ waits \in BOOLEAN /\ wrong \in BOOLEAN /\ returns \in BOOLEAN
                                   /\ waits <=> Waits(y)
                                   /\ wrong <=> Wrong(y, e)
                                   /\ returns <=> Returns(y)
  BY DEF Waits, Wrong, Returns
<1>5. /\ waits => y.E.icode \in {"MRMOVL", "POPL"}
      /\ wrong <=> y.E.icode = "JMP" /\ ~e.cnd
      /\ returns <=> y.D.icode = "RET" \/ y.E.icode = "RET" \/ y.M.icode = "RET"
  BY <1>4 DEF Waits, Wrong, Returns
<1>6. /\ z.W.icode = y.M.icode /\ z.W.pc = y.M.pc /\ (z.W.stat = "BUB" <=> y.M.stat = "BUB")
      /\ e.icode = y.E.icode /\ e.pc = y.E.pc /\ e.stat = y.E.stat /\ e.valA = y.E.valA
      /\ q.next.E.icode = y.D.icode /\ q.next.E.pc = y.D.pc /\ q.next.E.stat = y.D.stat
      /\ q.next.D.pc = NextFetch(y) /\ q.next.D.stat # "BUB" /\ q.next.F.pc = Predicted(q.next.D)
  BY <1>1 DEF Passes, Shifted, Fetched, Failed
<1>7. /\ z.M = (IF z.W.stat \in Failed THEN bubble.M ELSE e)
      /\ z.E = (IF wrong \/ waits THEN bubble.E ELSE q.next.E)
      /\ z.D = (IF waits THEN y.D ELSE IF wrong \/ returns THEN bubble.D ELSE q.next.D)
      /\ z.F.pc = IF waits \/ returns THEN y.F.pc ELSE q.next.F.pc
  BY <1>1, <1>4 DEF Shifted
<1>8. /\ bubble.M.stat = "BUB" /\ bubble.M.icode = "NOP"
      /\ bubble.E.stat = "BUB" /\ bubble.E.icode = "NOP"
      /\ bubble.D.stat = "BUB" /\ bubble.D.icode = "NOP"
  BY DEF bubble
<1>9. Gaps(z)
  <2>1. z.E.icode = "RET" => z.D.stat = "BUB"
    BY <1>5, <1>6, <1>7, <1>8
  <2>2. z.M.icode = "RET" => z.D.stat = "BUB" /\ z.E.stat = "BUB"
    BY <1>3, <1>5, <1>6, <1>7, <1>8
  <2>3. z.W.icode = "RET" => z.D.stat = "BUB" /\ z.E.stat = "BUB" /\ z.M.stat = "BUB"
    BY <1>2, <1>3, <1>5, <1>6, <1>7, <1>8
  <2>4. z.M.icode = "JMP" /\ ~z.M.cnd => z.D.stat = "BUB" /\ z.E.stat = "BUB"
    BY <1>5, <1>6, <1>7, <1>8
  <2> QED
    BY <2>1, <2>2, <2>3, <2>4 DEF Gaps, Empty
<1>10. ASSUME z.W.stat \notin Failed, y.M.icode # "RET", y.E.stat = "BUB", y.D.stat = "BUB"
       PROVE  AfterM(z) = AfterE(y) /\ AfterE(z) = AfterD(y)
  <2>1. ~waits /\ ~wrong /\ ~returns
    BY <1>2, <1>5, <1>10
  <2>2. z.D = q.next.D /\ z.E = q.next.E
    BY <1>7, <2>1
  <2>3. z.E.stat = "BUB" /\ z.D.stat # "BUB" /\ z.D.pc = NextFetch(y)
    BY <1>6, <1>10, <2>2
  <2> QED
    BY <1>10, <2>3 DEF AfterM, AfterE, AfterD, Empty
<1>11. ASSUME z.W.stat \notin Failed, y.M.icode # "RET", y.E.stat = "BUB"
       PROVE  AfterM(z) = AfterE(y)
  <2>1. CASE y.D.stat = "BUB"
    BY <1>10, <1>11, <2>1
  <2>2. CASE y.D.stat # "BUB"
    <3>1. ~waits /\ ~wrong
      BY <1>2, <1>5, <1>11
    <3>2. z.E.stat # "BUB" /\ z.E.pc = y.D.pc
      BY <1>6, <1>7, <2>2, <3>1
    <3> QED
      BY <2>2, <3>2 DEF AfterM, AfterE, Empty
  <2> QED
    BY <2>1, <2>2
<1>12. ASSUME z.W.stat \notin Failed, y.M.icode # "RET"
       PROVE  AfterW(z) = AfterM(y)
  <2>1. z.M = e
    BY <1>7, <1>12
  <2>2. CASE y.E.stat = "BUB"
    <3>1. AfterM(z) = AfterE(y)
      BY <1>11, <1>12, <2>2
    <3> QED
      BY <1>6, <2>1, <2>2, <3>1 DEF AfterW, AfterM, Empty
  <2>3. CASE y.E.stat # "BUB"
    BY <1>6, <2>1, <2>3 DEF AfterW, AfterM, Empty
  <2> QED
    BY <2>2, <2>3
<1>13. Oldest(z) = AfterW(y)
  <2>1. CASE y.M.stat = "BUB"
    <3>1. z.W.stat \notin Failed /\ y.M.icode # "RET"
      BY <1>2, <1>6, <2>1 DEF Failed
    <3>2. AfterW(z) = AfterM(y)
      BY <1>12, <3>1
    <3> QED
      BY <1>6, <2>1, <3>2 DEF Oldest, AfterW, Empty
  <2>2. CASE y.M.stat # "BUB"
    BY <1>6, <2>2 DEF Oldest, AfterW, Empty
  <2> QED
    BY <2>1, <2>2
\* A ret in write back, with nothing behind it.
<1>14. ASSUME z.W.stat \notin Failed, y.M.icode = "RET"
       PROVE  AfterW(z) = z.W.valM
  <2>1. z.D.stat = "BUB" /\ z.E.stat = "BUB" /\ z.M.stat = "BUB" /\ z.W.icode = "RET"
    BY <1>6, <1>9, <1>14 DEF Gaps, Empty
  <2>2. z.M.icode = "NOP"
    BY <1>2, <1>3, <1>6, <1>7, <1>14
  <2>3. NextFetch(z) = z.W.valM
    BY <2>1, <2>2 DEF NextFetch
  <2> QED
    BY <2>1, <2>3 DEF AfterW, AfterM, AfterE, AfterD, Empty
\* What is fetched behind a load is fetched again when it makes an instruction wait.
<1>15. ASSUME z.W.stat \notin Failed, waits PROVE NextFetch(z) = NextFetch(y)
  <2>1. y.E.icode \in {"MRMOVL", "POPL"} /\ y.E.stat # "BUB"
    BY <1>2, <1>5, <1>15
  <2>2. y.W.icode # "RET" /\ ~(y.M.icode = "JMP" /\ ~y.M.cnd) /\ y.M.icode # "RET"
    BY <1>3, <2>1
  <2>3. NextFetch(y) = y.F.pc
    BY <2>2 DEF NextFetch
  <2>4. z.M = e /\ z.W.icode # "RET" /\ z.F.pc = y.F.pc
    BY <1>6, <1>7, <1>15, <2>2
  <2>5. NextFetch(z) = z.F.pc
    BY <1>6, <2>1, <2>4 DEF NextFetch
  <2> QED
    BY <2>3, <2>4, <2>5
<1>16. ASSUME z.W.stat \notin Failed, z.M.stat # "BUB", z.M.icode # "RET"
       PROVE  AfterM(z) = IF z.M.icode = "JMP" /\ ~z.M.cnd THEN z.M.valA ELSE AfterE(y)
  <2>1. z.M = e /\ y.E.stat # "BUB" /\ y.E.icode # "RET" /\ y.M.icode # "RET"
    BY <1>3, <1>6, <1>7, <1>16
  <2>2. CASE wrong
    <3>1. z.M.icode = "JMP" /\ ~z.M.cnd
      BY <1>5, <1>6, <2>1, <2>2
    <3>2. z.E.stat = "BUB" /\ z.D.stat = "BUB"
      BY <1>5, <1>7, <1>8, <2>2
    <3>3. z.W.icode # "RET"
      BY <1>6, <2>1
    <3>4. NextFetch(z) = z.M.valA
      BY <3>1, <3>3 DEF NextFetch
    <3> QED
      BY <3>1, <3>2, <3>4 DEF AfterM, AfterE, AfterD, Empty
  <2>3. CASE ~wrong
    <3>1. ~(z.M.icode = "JMP" /\ ~z.M.cnd)
      BY <1>5, <1>6, <2>1, <2>3
    <3>2. AfterM(z) = AfterE(y)
      <4>1. CASE waits
        <5>1. z.E.stat = "BUB" /\ z.D = y.D /\ NextFetch(z) = NextFetch(y)
          BY <1>7, <1>8, <1>15, <1>16, <4>1
        <5> QED
          BY <5>1 DEF AfterM, AfterE, AfterD, Empty
      <4>2. CASE ~waits /\ y.D.stat # "BUB"
        <5>1. z.E.stat # "BUB" /\ z.E.pc = y.D.pc
          BY <1>6, <1>7, <2>3, <4>2
        <5> QED
          BY <4>2, <5>1 DEF AfterM, AfterE, Empty
      <4>3. CASE ~waits /\ y.D.stat = "BUB"
        <5>1. ~returns
          BY <1>2, <1>5, <2>1, <4>3
        <5>2. z.E.stat = "BUB" /\ z.D.stat # "BUB" /\ z.D.pc = NextFetch(y)
          BY <1>6, <1>7, <2>3, <4>3, <5>1
        <5> QED
          BY <4>3, <5>2 DEF AfterM, AfterE, AfterD, Empty
      <4> QED
        BY <4>1, <4>2, <4>3
    <3> QED
      BY <3>1, <3>2
  <2> QED
    BY <1>4, <2>2, <2>3
<1>17. ASSUME z.W.stat \notin Failed, z.E.stat # "BUB", z.E.icode # "RET"
       PROVE  AfterE(z) = AfterD(y)
  <2>1. ~waits /\ ~wrong /\ z.E = q.next.E /\ y.D.stat # "BUB" /\ y.D.icode # "RET"
    BY <1>6, <1>7, <1>8, <1>17
  <2>2. ~returns
    BY <1>3, <1>5, <2>1
  <2>3. z.D.stat # "BUB" /\ z.D.pc = NextFetch(y)
    BY <1>6, <1>7, <2>1, <2>2
  <2> QED
    BY <2>3 DEF AfterE, AfterD, Empty
<1>18. ASSUME z.W.stat \notin Failed, z.D.stat # "BUB", z.D.icode # "RET"
       PROVE  AfterD(z) = IF Waits(y) THEN AfterD(y) ELSE Predicted(q.next.D)
  <2>1. CASE waits
    BY <1>4, <1>15, <1>18, <2>1 DEF AfterD
  <2>2. CASE ~waits
    <3>1. ~wrong /\ ~returns
      BY <1>7, <1>8, <1>18, <2>2
    <3>2. z.F.pc = Predicted(q.next.D) /\ z.M = e
      BY <1>6, <1>7, <1>18, <2>2, <3>1
    <3>3. z.W.icode # "RET" /\ ~(z.M.icode = "JMP" /\ ~z.M.cnd)
      BY <1>5, <1>6, <3>1, <3>2
    <3>4. NextFetch(z) = z.F.pc
      BY <3>3 DEF NextFetch
    <3> QED
      BY <1>4, <2>2, <3>2, <3>4 DEF AfterD
  <2> QED
    BY <1>4, <2>1, <2>2
<1>19. Follows(y, q, z)
  BY <1>12, <1>14, <1>16, <1>17, <1>18 DEF Follows, Empty
<1> QED
  BY <1>9, <1>13, <1>19

------------------------------------------------------------------------------
(***************************************************************************)
(* A cycle, from one consistent pipeline to the next.                      *)
(***************************************************************************)
LEMMA ReadWritten ==
  ASSUME NEW r, DOMAIN r = RegIds, NEW de, NEW ve, NEW dm, NEW vm, NEW src \in RegIds
  PROVE  /\ DOMAIN Write(r, de, ve, dm, vm) = RegIds
         /\ get_reg_val(Write(r, de, ve, dm, vm), src)
              = IF src = dm THEN vm ELSE IF src = de THEN ve ELSE get_reg_val(r, src)
<1>1. PICK a : a = set_reg_val(r, de, ve)
  OBVIOUS
<1>2. DOMAIN a = RegIds /\ a[src] = IF src = de THEN ve ELSE r[src]
  BY <1>1 DEF set_reg_val, reg_valid
<1>3. PICK b : b = set_reg_val(a, dm, vm)
  OBVIOUS
<1>4. DOMAIN b = RegIds /\ b[src] = IF src = dm THEN vm ELSE a[src]
  BY <1>2, <1>3 DEF set_reg_val, reg_valid
<1>5. Write(r, de, ve, dm, vm) = b
  BY <1>1, <1>3 DEF Write
<1> QED
  BY <1>2, <1>4, <1>5 DEF get_reg_val, reg_valid

\* The states that instructions are executed in, before and after a cycle.
LEMMA StatesKept ==
  ASSUME NEW w, NEW p, NEW q, CycleOf(w, p, q), NEW y, y = Coming(p), NEW z, z = Coming(q),
         Shifted(y, q, z), Oldest(z) = AfterW(y)
  PROVE  /\ StateW(q, p.cc) = StateM(p)
         /\ RegsAfter(q) = StateM(p).r
         /\ StateM(q).r = StateE(p).r /\ StateM(q).m = StateE(p).m /\ StateM(q).cc = StateE(p).cc
         /\ StateM(q).m = MemAfter(q)
         /\ z.W = PassedW(y.M, StateM(p).m)
<1>1. PICK r, m, l : r = RegsAfter(p) /\ m = MemAfter(p) /\ l = PassedW(y.M, m)
  OBVIOUS
<1>2. /\ q.cur = y /\ q.r = r /\ q.m = m /\ q.cc = p.cc_in /\ q.next.W = l /\ z.W = l
      /\ q.write = mem_write(y.M.icode)
      /\ q.addr = mem_addr(y.M.icode, y.M.valE, y.M.valA) /\ q.data = y.M.valA
  BY <1>1, Zenon DEF CycleOf, Shifted
<1>3. l.dstE = y.M.dstE /\ l.dstM = y.M.dstM /\ l.valE = y.M.valE
  BY <1>1 DEF PassedW
<1>4. RegsAfter(q) = Write(r, y.W.dstE, y.W.valE, y.W.dstM, y.W.valM)
  BY <1>2 DEF RegsAfter
<1>5. StateM(p).r = RegsAfter(q) /\ StateM(p).m = m /\ StateM(p).cc = p.cc /\ StateM(p).pc = AfterW(y)
  BY <1>1, <1>4 DEF StateM
<1>6. StateW(q, p.cc) = StateM(p)
  BY <1>1, <1>2, <1>4 DEF StateW, StateM
<1>7. PICK n : n = MemAfter(q)
  OBVIOUS
<1>8. n = IF mem_write(y.M.icode)
          THEN set_word_val(m, mem_addr(y.M.icode, y.M.valE, y.M.valA), y.M.valA) ELSE m
  BY <1>2, <1>7 DEF MemAfter
<1>9. /\ StateM(q).r = Write(RegsAfter(q), l.dstE, l.valE, l.dstM, l.valM)
      /\ StateM(q).m = n /\ StateM(q).cc = p.cc_in
  BY <1>2, <1>7 DEF StateM
<1>10. /\ StateE(p).r = Write(StateM(p).r, y.M.dstE, y.M.valE, y.M.dstM, l.valM)
       /\ StateE(p).m = n /\ StateE(p).cc = p.cc_in
  BY <1>1, <1>5, <1>8 DEF StateE
<1> QED
  BY <1>1, <1>2, <1>3, <1>5, <1>6, <1>7, <1>9, <1>10

\* A state with its four parts.
LEMMA StateParts ==
  ASSUME NEW s, NEW f, NEW p, StateM(p).pc = Completed(s, f).pc, StateM(p).r = Completed(s, f).r,
         StateM(p).m = Completed(s, f).m, StateM(p).cc = Completed(s, f).cc
  PROVE  StateM(p) = Completed(s, f)
<1>1. StateM(p) = [pc |-> StateM(p).pc, r |-> StateM(p).r, m |-> StateM(p).m, cc |-> StateM(p).cc]
  BY DEF StateM
<1>2. Completed(s, f) = [pc |-> Completed(s, f).pc, r |-> Completed(s, f).r,
                         m |-> Completed(s, f).m, cc |-> Completed(s, f).cc]
  BY DEF Completed
<1> QED
  BY <1>1, <1>2

\* What a cycle makes of the pipe registers y, of a run whose code can be fetched.
Fetchable(w, m, code) ==
  \A pc \in DOMAIN code : /\ pc \in Int /\ Byte_ok(pc) /\ Byte_ok(pc + 1 + WordBytes)
                          /\ Proper(code[pc]) /\ code[pc] = Fetch(w, m, pc)

LEMMA WriteBackKept ==
  ASSUME NEW w, NEW p, NEW code, Fetchable(w, MemAfter(p), code), PipeTypes(p),
         NEW q, CycleOf(w, p, q), NEW y, y = Coming(p), NEW z, z = Coming(q),
         Regular(y), Passes(y, q), Shifted(y, q, z), Oldest(z) = AfterW(y), Follows(y, q, z),
         HoldsM(p, code)
  PROVE  HoldsW(q, p.cc, code)
<1>1. PICK s, t, l : s = StateM(p) /\ t = StateM(q) /\ l = z.W
  OBVIOUS
<1>2. /\ StateW(q, p.cc) = s /\ t.m = MemAfter(q) /\ l = PassedW(y.M, s.m)
      /\ t.r = Write(s.r, l.dstE, l.valE, l.dstM, l.valM)
  <2>1. /\ StateW(q, p.cc) = s /\ t.m = MemAfter(q) /\ l = PassedW(y.M, s.m)
        /\ RegsAfter(q) = s.r
    BY <1>1, StatesKept
  <2>2. t.r = Write(RegsAfter(q), l.dstE, l.valE, l.dstM, l.valM)
    BY <1>1 DEF StateM
  <2> QED
    BY <2>1, <2>2
<1>3. /\ l.icode = y.M.icode /\ l.pc = y.M.pc /\ (l.stat = "BUB" <=> y.M.stat = "BUB")
  BY <1>1 DEF Passes, Shifted
<1>4. /\ q.m = MemAfter(p) /\ q.cc = p.cc_in /\ q.write = mem_write(y.M.icode)
      /\ q.addr = mem_addr(y.M.icode, y.M.valE, y.M.valA) /\ q.data = y.M.valA
  BY Zenon DEF CycleOf
<1>5. s.m = MemAfter(p) /\ s.cc = p.cc /\ s.pc = AfterW(y) /\ t.cc = p.cc_in /\ t.pc = AfterW(z)
  BY <1>1, <1>4 DEF StateM
<1>6. MemAfter(q) = IF mem_write(y.M.icode)
                    THEN set_word_val(s.m, mem_addr(y.M.icode, y.M.valE, y.M.valA), y.M.valA)
                    ELSE s.m
  BY <1>4, <1>5 DEF MemAfter
<1>7. ASSUME l.stat = "BUB" PROVE t = s
  <2>1. y.M.stat = "BUB" /\ y.M.icode = "NOP"
    BY <1>3, <1>7 DEF Regular, Behind, Empty
  <2>2. y.M.dstE = NONE /\ y.M.dstM = NONE
    BY <2>1 DEF PipeTypes, TypeM, Loads
  <2>3. l.dstE = NONE /\ l.dstM = NONE
    BY <1>2, <2>2 DEF PassedW
  <2>4. t.r = s.r
    BY <1>2, <2>3, NoRegister DEF Write
  <2>5. t.m = s.m
    BY <1>2, <1>6, <2>1 DEF mem_write
  <2>6. t.cc = s.cc
    BY <1>5, <2>1 DEF HoldsM, Empty
  <2>7. t.pc = s.pc
    BY <1>1, <1>5, <1>7 DEF Oldest, Empty
  <2>8. /\ s = [pc |-> s.pc, r |-> s.r, m |-> s.m, cc |-> s.cc]
        /\ t = [pc |-> t.pc, r |-> t.r, m |-> t.m, cc |-> t.cc]
    BY <1>1 DEF StateM
  <2> QED
    BY <2>4, <2>5, <2>6, <2>7, <2>8
<1>8. ASSUME l.stat # "BUB", l.pc \in DOMAIN code
      PROVE  /\ l.stat = StatusOf(s, code[l.pc])
             /\ l.stat = "AOK" => t = Completed(s, code[l.pc])
             /\ l.stat # "AOK" => MemAfter(q) = q.m /\ q.cc = p.cc /\ q.cc_in = p.cc
  <2>1. PICK f : f = code[l.pc] /\ Proper(f)
    BY <1>8 DEF Fetchable
  <2>2. /\ IsM(y.M, f, s) /\ p.cc_in = Completed(s, f).cc
        /\ y.M.icode # "RET" => AfterM(y) = Completed(s, f).pc
    BY <1>1, <1>3, <1>8, <2>1 DEF HoldsM, Empty
  <2>3. /\ l.stat = StatusOf(s, f) /\ l.valM = ValM(s, f)
        /\ Write(s.r, l.dstE, l.valE, l.dstM, l.valM) = Completed(s, f).r
        /\ MemAfter(q) = Completed(s, f).m
        /\ StatusOf(s, f) # "AOK" => Completed(s, f).m = s.m /\ Completed(s, f).cc = s.cc
    BY <1>2, <1>6, <2>1, <2>2, EntersWriteBack
  <2>4. ASSUME l.stat = "AOK" PROVE t = Completed(s, f)
    <3>1. t.r = Completed(s, f).r /\ t.m = Completed(s, f).m /\ t.cc = Completed(s, f).cc
      BY <1>2, <1>5, <2>2, <2>3
    <3>2. t.pc = IF y.M.icode = "RET" THEN l.valM ELSE AfterM(y)
      BY <1>1, <1>5, <2>4 DEF Follows, Failed
    <3>3. y.M.icode = "RET" => Completed(s, f).pc = ValM(s, f)
      <4>1. y.M.icode = f.icode
        BY <2>2 DEF IsM
      <4> QED
        BY <4>1 DEF Completed
    <3>4. t.pc = Completed(s, f).pc
      BY <2>2, <2>3, <3>2, <3>3
    <3> QED
      BY <1>1, <3>1, <3>4, StateParts
  <2>5. l.stat # "AOK" => MemAfter(q) = q.m /\ q.cc = p.cc /\ q.cc_in = p.cc
    <3>1. l.stat # "AOK" => MemAfter(q) = q.m /\ q.cc = p.cc
      BY <1>4, <1>5, <2>2, <2>3
    <3>2. l.stat # "AOK" => l.stat \in Failed
      BY <2>3 DEF StatusOf, DecodedStatus, Failed
    <3>3. q.next.W = l
      <4>1. q.next.W = PassedW(y.M, MemAfter(p))
        BY Zenon DEF CycleOf
      <4> QED
        BY <1>2, <1>5, <4>1
    <3>4. q.cc_in = IF /\ y.E.icode \in {"ALU", "IADDL"} /\ q.next.W.stat \notin Failed
                       /\ y.W.stat \notin Failed
                    THEN CodesOf(y.E) ELSE p.cc_in
      BY Zenon DEF CycleOf
    <3> QED
      BY <1>4, <3>1, <3>2, <3>3, <3>4
  <2> QED
    BY <2>1, <2>3, <2>4, <2>5
<1> QED
  BY <1>1, <1>2, <1>7, <1>8 DEF HoldsW, Empty

LEMMA MemoryKept ==
  ASSUME NEW w, NEW p, NEW code, Fetchable(w, MemAfter(p), code),
         NEW q, CycleOf(w, p, q), NEW y, y = Coming(p), NEW z, z = Coming(q),
         Regular(y), Passes(y, q), Shifted(y, q, z), Oldest(z) = AfterW(y), Follows(y, q, z),
         y.W.stat \notin Failed, z.W.stat \notin Failed, HoldsE(p, code)
  PROVE  HoldsM(q, code)
<1>1. PICK s, t, e : s = StateM(q) /\ t = StateE(p) /\ e = q.next.M
  OBVIOUS
<1>2. /\ e = ExecutedM(y.E, p.cc_in) /\ q.cc = p.cc_in /\ z.M = e
      /\ q.cc_in = IF y.E.icode \in {"ALU", "IADDL"} THEN CodesOf(y.E) ELSE p.cc_in
  <2>1. z.W = q.next.W /\ z.M = e
    BY <1>1 DEF Shifted
  <2>2. /\ e = ExecutedM(y.E, p.cc_in) /\ q.cc = p.cc_in
        /\ q.cc_in = IF /\ y.E.icode \in {"ALU", "IADDL"} /\ q.next.W.stat \notin Failed
                        /\ y.W.stat \notin Failed
                     THEN CodesOf(y.E) ELSE p.cc_in
    BY <1>1, Zenon DEF CycleOf
  <2> QED
    BY <2>1, <2>2
<1>3. e.icode = y.E.icode /\ e.pc = y.E.pc /\ e.stat = y.E.stat /\ e.valA = y.E.valA
  BY <1>1 DEF Passes
<1>4. z.M.stat = "BUB" => q.cc_in = q.cc
  <2>1. y.E.stat = "BUB" => y.E.icode = "NOP"
    BY DEF Regular, Behind, Empty
  <2> QED
    BY <1>2, <1>3, <2>1
<1>5. ASSUME z.M.stat # "BUB", z.M.pc \in DOMAIN code
      PROVE  /\ IsM(z.M, code[z.M.pc], s) /\ q.cc_in = Completed(s, code[z.M.pc]).cc
             /\ z.M.icode # "RET" => AfterM(z) = Completed(s, code[z.M.pc]).pc
  <2>1. PICK f : f = code[y.E.pc] /\ Proper(f)
    BY <1>2, <1>3, <1>5 DEF Fetchable
  <2>2. IsE(y.E, f, t) /\ (y.E.icode # "RET" => AfterE(y) = Expected(f))
    BY <1>1, <1>2, <1>3, <1>5, <2>1 DEF HoldsE, Empty
  <2>3. s.r = t.r /\ s.m = t.m /\ s.cc = t.cc /\ s.cc = p.cc_in
    <3>1. s.r = t.r /\ s.m = t.m /\ s.cc = t.cc
      BY <1>1, StatesKept
    <3>2. s.cc = q.cc
      BY <1>1 DEF StateM
    <3> QED
      BY <1>2, <3>1, <3>2
  <2>4. IsE(y.E, f, s)
    BY <2>2, <2>3 DEF IsE, ValA, ValB
  <2>5. /\ IsM(e, f, s) /\ (f.icode \in {"ALU", "IADDL"} => CodesOf(y.E) = Completed(s, f).cc)
    BY <1>2, <2>1, <2>3, <2>4, EntersMemory
  <2>6. y.E.icode = f.icode
    BY <2>4 DEF IsE
  <2>7. q.cc_in = Completed(s, f).cc
    <3>1. CASE f.icode \in {"ALU", "IADDL"}
      BY <1>2, <2>5, <2>6, <3>1
    <3>2. CASE f.icode \notin {"ALU", "IADDL"}
      BY <1>2, <2>3, <2>6, <3>2 DEF Completed
    <3> QED
      BY <3>1, <3>2
  <2>8. ASSUME z.M.icode # "RET" PROVE AfterM(z) = Completed(s, f).pc
    <3>1. AfterM(z) = IF e.icode = "JMP" /\ ~e.cnd THEN e.valA ELSE AfterE(y)
      BY <1>2, <1>5, <2>8 DEF Follows, Empty
    <3>2. AfterE(y) = Expected(f)
      BY <1>2, <1>3, <2>2, <2>8
    <3>3. e.icode = f.icode /\ e.cnd = Cond(s, f) /\ (f.icode = "JMP" => e.valA = f.next)
      BY <2>5 DEF IsM
    <3>4. Completed(s, f).pc = IF f.icode = "JMP" /\ ~Cond(s, f) THEN f.next ELSE Expected(f)
      <4>1. f.icode # "RET"
        BY <1>2, <1>3, <2>6, <2>8
      <4> QED
        BY <4>1 DEF Completed, Expected
    <3> QED
      BY <3>1, <3>2, <3>3, <3>4
  <2> QED
    BY <1>2, <1>3, <2>1, <2>5, <2>7, <2>8
<1> QED
  BY <1>1, <1>4, <1>5 DEF HoldsM, Empty

\* What decode reads, or is forwarded, is what the registers hold when the instructions ahead
\* have made their changes.
LEMMA ExecuteKept ==
  ASSUME NEW w, NEW p, NEW code, Fetchable(w, MemAfter(p), code), PipeTypes(p),
         NEW q, CycleOf(w, p, q), NEW y, y = Coming(p), NEW z, z = Coming(q),
         Passes(y, q), Shifted(y, q, z), Oldest(z) = AfterW(y), Follows(y, q, z),
         z.W.stat \notin Failed, HoldsD(p, code)
  PROVE  HoldsE(q, code)
<1>1. PICK s, e, l, x, r : /\ s = StateE(q) /\ e = q.next.M /\ l = q.next.W /\ x = q.next.E
                           /\ r = RegsAfter(p)
  OBVIOUS
<1>2. SUFFICES ASSUME z.E.stat # "BUB", z.E.pc \in DOMAIN code
               PROVE  /\ IsE(z.E, code[z.E.pc], s)
                      /\ z.E.icode # "RET" => AfterE(z) = Expected(code[z.E.pc])
  BY <1>1 DEF HoldsE, Empty
<1>3. z.E = x /\ ~Waits(y) /\ z.M = e /\ z.W = l
  <2>1. bubble.E.stat = "BUB"
    BY DEF bubble
  <2> QED
    BY <1>1, <1>2, <2>1 DEF Shifted
<1>4. x.icode = y.D.icode /\ x.pc = y.D.pc /\ x.stat = y.D.stat
  BY <1>1 DEF Passes
<1>5. PICK f : f = code[y.D.pc] /\ Proper(f)
  BY <1>2, <1>3, <1>4 DEF Fetchable
<1>6. IsD(y.D, f) /\ (y.D.icode # "RET" => AfterD(y) = Expected(f))
  BY <1>2, <1>3, <1>4, <1>5 DEF HoldsD, Empty
<1>7. PICK va, vb : /\ va = Forwarded(y, r, e, l, srcA(y.D.icode, y.D.ra))
                    /\ vb = Forwarded(y, r, e, l, srcB(y.D.icode, y.D.rb))
                    /\ x = DecodedE(y.D, va, vb)
  <2>1. x = DecodedE(y.D, Forwarded(y, r, e, l, srcA(y.D.icode, y.D.ra)),
                          Forwarded(y, r, e, l, srcB(y.D.icode, y.D.rb)))
    BY <1>1, Zenon DEF CycleOf
  <2> QED
    BY <2>1
<1>8. e.icode = y.E.icode /\ e.dstM = y.E.dstM
  <2>1. e = ExecutedM(y.E, p.cc_in)
    BY <1>1, Zenon DEF CycleOf
  <2> QED
    BY <2>1 DEF ExecutedM
<1>9. l.dstE = y.M.dstE /\ l.dstM = y.M.dstM /\ l.valE = y.M.valE
  <2>1. l = PassedW(y.M, MemAfter(p))
    BY <1>1, Zenon DEF CycleOf
  <2> QED
    BY <2>1 DEF PassedW
<1>10. ASSUME NEW src \in RegIds, src \in {srcA(f.icode, f.ra), srcB(f.icode, f.rb)}
       PROVE  Forwarded(y, r, e, l, src) = get_reg_val(s.r, src)
  <2>1. src # e.dstM
    <3>1. f.icode = y.D.icode /\ f.ra = y.D.ra /\ f.rb = y.D.rb
      BY <1>6 DEF IsD
    <3>2. CASE y.E.icode \in Loads
      BY <1>3, <1>8, <1>10, <3>1, <3>2 DEF Waits, Loads
    <3>3. CASE y.E.icode \notin Loads
      <4>1. y.E.dstM = NONE
        BY <3>3 DEF PipeTypes, TypeE
      <4> QED
        BY <1>8, <4>1 DEF NONE, RegIds
    <3> QED
      BY <3>2, <3>3
  <2>2. r \in Registers
    BY <1>1, WriteType DEF RegsAfter, PipeTypes
  <2>3. PICK a, b, val : /\ a = Write(r, y.W.dstE, y.W.valE, y.W.dstM, y.W.valM)
                         /\ b = Write(a, l.dstE, l.valE, l.dstM, l.valM)
                         /\ val = PassedW(z.M, StateM(q).m).valM
    OBVIOUS
  <2>4. RegsAfter(q) = a
    BY <1>1, <2>3, Zenon DEF RegsAfter, CycleOf
  <2>5. StateM(q).r = b
    BY <1>3, <2>3, <2>4 DEF StateM
  <2>6. s.r = Write(StateM(q).r, z.M.dstE, z.M.valE, z.M.dstM, PassedW(z.M, StateM(q).m).valM)
    BY <1>1 DEF StateE
  <2>7. s.r = Write(b, e.dstE, e.valE, e.dstM, val)
    BY <1>3, <2>3, <2>5, <2>6
  <2>8. DOMAIN r = RegIds
    BY <2>2 DEF Registers
  <2>9. /\ DOMAIN a = RegIds
        /\ get_reg_val(a, src) = IF src = y.W.dstM THEN y.W.valM
                                 ELSE IF src = y.W.dstE THEN y.W.valE ELSE get_reg_val(r, src)
    BY <1>10, <2>3, <2>8, ReadWritten
  <2>10. /\ DOMAIN b = RegIds
         /\ get_reg_val(b, src) = IF src = y.M.dstM THEN l.valM
                                  ELSE IF src = y.M.dstE THEN y.M.valE ELSE get_reg_val(a, src)
    BY <1>9, <1>10, <2>3, <2>9, ReadWritten
  <2>11. get_reg_val(s.r, src) = IF src = e.dstE THEN e.valE ELSE get_reg_val(b, src)
    BY <1>10, <2>1, <2>7, <2>10, ReadWritten
  <2> QED
    BY <2>1, <2>9, <2>10, <2>11 DEF Forwarded
<1>11. y.D.icode = f.icode /\ y.D.ra = f.ra /\ y.D.rb = f.rb
  BY <1>6 DEF IsD
<1>12. /\ srcA(f.icode, f.ra) \in RegIds => va = get_reg_val(s.r, srcA(f.icode, f.ra))
       /\ srcB(f.icode, f.rb) \in RegIds => vb = get_reg_val(s.r, srcB(f.icode, f.rb))
  BY <1>7, <1>10, <1>11
<1>13. IsE(x, f, s)
  BY <1>6, <1>7, <1>12, EntersExecute
<1>14. z.E.icode # "RET" => AfterE(z) = Expected(f)
  BY <1>2, <1>3, <1>4, <1>6 DEF Follows, Empty
<1> QED
  BY <1>3, <1>4, <1>5, <1>13, <1>14

LEMMA DecodeKept ==
  ASSUME NEW w, NEW p, NEW code, Fetchable(w, MemAfter(p), code),
         NEW q, CycleOf(w, p, q), NEW y, y = Coming(p), NEW z, z = Coming(q),
         Passes(y, q), Shifted(y, q, z), Follows(y, q, z),
         z.W.stat \notin Failed, HoldsD(p, code)
  PROVE  HoldsD(q, code)
<1>1. PICK d : d = q.next.D
  OBVIOUS
<1>2. SUFFICES ASSUME z.D.stat # "BUB", z.D.pc \in DOMAIN code
               PROVE  /\ IsD(z.D, code[z.D.pc])
                      /\ z.D.icode # "RET" => AfterD(z) = Expected(code[z.D.pc])
  BY DEF HoldsD, Empty
<1>3. z.D.icode # "RET" => AfterD(z) = IF Waits(y) THEN AfterD(y) ELSE Predicted(d)
  BY <1>1, <1>2 DEF Follows, Empty
<1>4. CASE Waits(y)
  <2>1. z.D = y.D
    BY <1>4 DEF Shifted
  <2> QED
    BY <1>2, <1>3, <1>4, <2>1 DEF HoldsD, Empty
<1>5. CASE ~Waits(y)
  <2>1. z.D = d
    <3>1. bubble.D.stat = "BUB"
      BY DEF bubble
    <3> QED
      BY <1>1, <1>2, <1>5, <3>1 DEF Shifted
  <2>2. PICK m, pc : m = MemAfter(p) /\ pc = NextFetch(y) /\ d = FetchedD(w, m, pc)
    BY <1>1, Zenon DEF CycleOf
  <2>3. d.pc = pc
    BY <1>1, <2>2 DEF Passes
  <2>4. Byte_ok(pc) /\ Byte_ok(pc + 1 + WordBytes) /\ code[pc] = Fetch(w, m, pc)
    BY <1>2, <2>1, <2>2, <2>3 DEF Fetchable
  <2>5. IsD(d, code[pc]) /\ Predicted(d) = Expected(code[pc])
    BY <2>2, <2>4, EntersDecode
  <2> QED
    BY <1>3, <1>5, <2>1, <2>3, <2>5
<1> QED
  BY <1>4, <1>5

\* From one cycle to the next the pipeline stays consistent with what its instructions will
\* do, one after the other.
LEMMA PipeRunKept ==
  ASSUME NEW w \in Versions, "LEAVE" \notin w, NEW n \in Int, n > 2, NEW c, NEW code,
         NEW p, PipeRun(p, c, code), Coming(p).W.stat \notin Failed,
         Fetchable(w, MemAfter(p), code), NEW q, q = sim_step_pipe(w, n, p)
  PROVE  PipeRun(q, p.cc, code)
<1>1. PICK y, z : y = Coming(p) /\ z = Coming(q)
  OBVIOUS
<1>2. /\ PipeTypes(p) /\ FShape(p) /\ Shape(p) /\ p.cc \in Flags /\ Regular(y) /\ Gaps(y)
      /\ HoldsM(p, code) /\ HoldsE(p, code) /\ HoldsD(p, code)
  BY <1>1 DEF PipeRun, PipeTypes, FShape
<1>3. CycleOf(w, p, q)
  BY <1>2, CycleData
<1>4. Shifted(y, q, z)
  BY <1>1, <1>2, ShiftIs
<1>5. Regular(z)
  BY <1>1, <1>2, CycleAdvances
<1>6. Passes(y, q)
  BY <1>1, <1>2, <1>3, PassesIs
<1>7. Gaps(z) /\ Oldest(z) = AfterW(y) /\ Follows(y, q, z)
  BY <1>2, <1>4, <1>6, OrderKept
<1>8. PipeTypes(q)
  BY <1>1, <1>2, <1>3, <1>4, PipeTypesKept
<1>9. q.cur = y /\ q.f_pc = NextFetch(y)
  BY <1>1, <1>3, Zenon DEF CycleOf
<1>10. oldest_pc(q) = AfterW(y)
  BY <1>9 DEF oldest_pc, AfterW, AfterM, AfterE, AfterD, Empty
<1>11. HoldsW(q, p.cc, code)
  BY <1>1, <1>2, <1>3, <1>4, <1>6, <1>7, WriteBackKept
<1>12. ASSUME z.W.stat \notin Failed
       PROVE  HoldsM(q, code) /\ HoldsE(q, code) /\ HoldsD(q, code)
  <2>1. HoldsM(q, code)
    BY <1>1, <1>2, <1>3, <1>4, <1>6, <1>7, <1>12, MemoryKept
  <2>2. HoldsE(q, code)
    BY <1>1, <1>2, <1>3, <1>4, <1>6, <1>7, <1>12, ExecuteKept
  <2>3. HoldsD(q, code)
    BY <1>1, <1>2, <1>3, <1>4, <1>6, <1>7, <1>12, DecodeKept
  <2> QED
    BY <2>1, <2>2, <2>3
<1> QED
  BY <1>1, <1>2, <1>5, <1>7, <1>8, <1>9, <1>10, <1>11, <1>12 DEF PipeRun

------------------------------------------------------------------------------
(***************************************************************************)
(* A run of the pipelined simulator.                                       *)
(***************************************************************************)
\* Sound code is still in the memory.
LEMMA SoundFetchable ==
  ASSUME NEW w \in Versions, "LEAVE" \notin w, NEW m \in Memory, NEW n \in Memory, NEW T,
         \A a \in 0 .. MEM_SIZE - 1 : n[a] # m[a] => a \in T,
         NEW code, code = SoundCode(w, m, T)
  PROVE  Fetchable(w, n, code)
<1>1. ASSUME NEW pc \in DOMAIN code
      PROVE  /\ pc \in Int /\ Byte_ok(pc) /\ Byte_ok(pc + 1 + WordBytes)
             /\ Proper(code[pc]) /\ code[pc] = Fetch(w, n, pc)
  <2>1. /\ pc \in Int /\ PlainAt(w, m, pc) /\ code[pc] = Fetch(w, m, pc)
        /\ \A a \in pc .. pc + 1 + WordBytes : a \notin T
    BY DEF SoundCode
  <2>2. Byte_ok(pc) /\ Byte_ok(pc + 1 + WordBytes)
    BY <2>1 DEF PlainAt
  <2>3. ASSUME NEW a \in pc .. pc + 1 + WordBytes PROVE m[a] = n[a]
    <3>1. a \in 0 .. MEM_SIZE - 1
      BY <2>1, <2>2, WordAssumption DEF Byte_ok
    <3> QED
      BY <2>1, <3>1
  <2>4. Fetch(w, m, pc) = Fetch(w, n, pc)
    BY <2>1, <2>2, <2>3, CodeLocal
  <2> QED
    BY <2>1, <2>2, <2>4, PlainProper
<1> QED
  BY <1>1 DEF Fetchable

\* What holds with some code holds with less of it.
LEMMA LessCode ==
  ASSUME NEW p, NEW c, NEW w, NEW m, NEW T, NEW U, T \subseteq U,
         PipeRun(p, c, SoundCode(w, m, T))
  PROVE  PipeRun(p, c, SoundCode(w, m, U))
<1>1. PICK code, less : code = SoundCode(w, m, T) /\ less = SoundCode(w, m, U)
  OBVIOUS
<1>2. ASSUME NEW pc \in DOMAIN less PROVE pc \in DOMAIN code /\ less[pc] = code[pc]
  BY <1>1, <1>2 DEF SoundCode
<1>3. HoldsW(p, c, code) => HoldsW(p, c, less)
  BY <1>2 DEF HoldsW
<1>4. HoldsM(p, code) => HoldsM(p, less)
  BY <1>2 DEF HoldsM
<1>5. HoldsE(p, code) => HoldsE(p, less)
  BY <1>2 DEF HoldsE
<1>6. HoldsD(p, code) => HoldsD(p, less)
  BY <1>2 DEF HoldsD
<1> QED
  BY <1>1, <1>3, <1>4, <1>5, <1>6 DEF PipeRun

LEMMA MemoryType == ASSUME NEW p, PipeTypes(p) PROVE MemAfter(p) \in Memory
  BY StoreType DEF MemAfter, PipeTypes

LEMMA PipeSimKept ==
  ASSUME PipeSim, PipeCycle
  PROVE  PipeSim'
<1>1. PICK p, q, y, n, T : /\ p = mach /\ q = mach' /\ y = Coming(p) /\ n = InstrLimit - icount
                           /\ T = touched'
  OBVIOUS
<1>2. /\ sim = "PIPE" /\ sim' = sim /\ v' = v /\ prog' = prog /\ cc0' = p.cc
      /\ icount' = icount + 1 /\ run_status = "AOK" /\ run_status' = q.status
      /\ q = sim_step_pipe(v, n, p)
      /\ T = touched \union {a \in DOMAIN prog : q.m[a] # prog[a]}
  BY <1>1 DEF PipeCycle, Count, Running
<1>3. /\ v \in Versions /\ "LEAVE" \notin v /\ prog \in Memory /\ icount \in Nat
  BY <1>2 DEF PipeSim
<1>4. \A a \in 0 .. MEM_SIZE - 1 : q.m[a] # prog[a] => a \in T
  <2>1. DOMAIN prog = 0 .. MEM_SIZE - 1
    BY <1>3 DEF Memory
  <2> QED
    BY <1>2, <2>1
<1>5. ASSUME run_status' = "AOK", ~NearLimit'
      PROVE  PipeRun(q, p.cc, SoundCode(v, prog, T))
  <2>1. n \in Int /\ n > 2 /\ ~NearLimit
    BY <1>1, <1>2, <1>3, <1>5, LimitAssumption DEF NearLimit
  <2>2. PipeRun(p, cc0, SoundCode(v, prog, touched))
    BY <1>1, <1>2, <2>1 DEF PipeSim
  <2>3. PipeTypes(p) /\ FShape(p) /\ Shape(p) /\ Regular(y)
    BY <1>1, <2>2 DEF PipeRun, PipeTypes, FShape
  <2>4. y.W.stat \notin Failed
    <3>1. Cycled(y, q)
      BY <1>1, <1>2, <2>3, CycleEffect DEF Coming
    <3>2. q.status = IF y.W.stat = "BUB" THEN "AOK" ELSE y.W.stat
      BY <3>1 DEF Cycled
    <3> QED
      BY <1>2, <1>5, <3>2 DEF Failed
  <2>5. PipeRun(p, cc0, SoundCode(v, prog, T))
    <3>1. touched \subseteq T
      BY <1>2
    <3> QED
      BY <2>2, <3>1, LessCode
  <2>6. q.m = MemAfter(p) /\ q.m \in Memory
    <3>1. CycleOf(v, p, q)
      BY <1>2, <2>1, <2>3, CycleData
    <3>2. q.m = MemAfter(p)
      BY <3>1, Zenon DEF CycleOf
    <3> QED
      BY <2>3, <3>2, MemoryType
  <2>7. Fetchable(v, MemAfter(p), SoundCode(v, prog, T))
    BY <1>3, <1>4, <2>6, SoundFetchable
  <2> QED
    BY <1>1, <1>2, <1>3, <2>1, <2>4, <2>5, <2>7, PipeRunKept
<1> QED
  BY <1>1, <1>2, <1>3, <1>4, <1>5 DEF PipeSim

\* The pipeline is empty when a run begins.
LEMMA PipeSimBegins ==
  ASSUME Init
  PROVE  PipeSim
<1>1. /\ sim \in {"PIPE", "SEQ"} /\ v \in Versions /\ icount = 0 /\ cc0 = DEFAULT_CC
      /\ sim = "PIPE" => "LEAVE" \notin v /\ mach = sim_reset(prog)
  BY SimulatorAssumption DEF Init, Versions, PipeStart, SeqStart
<1>2. prog \in Memory
  <2>1. PICK D : D = 0 .. MEM_SIZE - 1
    OBVIOUS
  <2>2. prog \in [D -> 0 .. 255]
    BY <2>1, ProgramAssumption DEF Init
  <2>3. prog \in [D -> Int]
    BY <2>2
  <2> QED
    BY <2>1, <2>3 DEF Memory
<1>3. SUFFICES ASSUME sim = "PIPE", NEW code
               PROVE  mach.m = prog /\ PipeRun(mach, DEFAULT_CC, code)
  BY <1>1, <1>2 DEF PipeSim
<1>4. PICK p, y : p = mach /\ y = Coming(p)
  OBVIOUS
<1>5. /\ FShape(p) /\ p.m = prog /\ p.r = [id \in RegIds |-> 0] /\ p.cc = DEFAULT_CC
      /\ p.cc_in = DEFAULT_CC /\ p.cur = bubble /\ p.next = bubble
      /\ p.op = [s \in Stages |-> "LOAD"]
      /\ p.f_pc = 0 /\ p.write = FALSE /\ p.addr = 0 /\ p.data = 0
  <2>1. p = sim_reset(prog)
    BY <1>1, <1>3, <1>4
  <2>2. /\ DOMAIN p = Fields /\ p.m = prog /\ p.r = [id \in RegIds |-> 0] /\ p.cc = DEFAULT_CC
        /\ p.cc_in = DEFAULT_CC /\ p.cur = bubble /\ p.next = bubble
        /\ p.op = [s \in Stages |-> "LOAD"]
        /\ p.f_pc = 0 /\ p.write = FALSE /\ p.addr = 0 /\ p.data = 0
    BY <2>1 DEF sim_reset, Fields
  <2>3. DOMAIN bubble = Stages /\ DOMAIN bubble.F = {"pc"}
    BY DEF Stages, bubble
  <2> QED
    BY <2>2, <2>3 DEF FShape, Shape
<1>6. y.F = bubble.F /\ y.D = bubble.D /\ y.E = bubble.E /\ y.M = bubble.M /\ y.W = bubble.W
  BY <1>4, <1>5, ComingIs, StageNames
<1>7. /\ bubble.F.pc = 0
      /\ bubble.D.stat = "BUB" /\ bubble.D.icode = "NOP"
      /\ bubble.E.stat = "BUB" /\ bubble.E.icode = "NOP"
      /\ bubble.M.stat = "BUB" /\ bubble.M.icode = "NOP"
      /\ bubble.W.stat = "BUB" /\ bubble.W.icode = "NOP"
      /\ bubble.W.dstE = NONE /\ bubble.W.dstM = NONE
  BY DEF bubble
<1>8. DEFAULT_CC \in Flags /\ [id \in RegIds |-> 0] \in Registers
  <2>1. DEFAULT_CC \in Flags
    BY DEF DEFAULT_CC, CC, Flags
  <2>2. [id \in RegIds |-> 0] \in Registers
    BY WordsAreIntegers DEF Registers
  <2> QED
    BY <2>1, <2>2
<1>9. PipeTypes(p)
  BY <1>2, <1>4, <1>5, <1>6, <1>7, <1>8, BubbleTypes DEF PipeTypes
<1>10. Regular(y) /\ Gaps(y)
  BY <1>6, <1>7 DEF Regular, Behind, Gaps, Empty
<1>11. oldest_pc(p) = 0 /\ Oldest(y) = 0 /\ AfterW(y) = 0 /\ p.cur.W.stat \notin Failed
  <2>1. NextFetch(y) = 0
    BY <1>6, <1>7 DEF NextFetch
  <2>2. Oldest(y) = 0 /\ AfterW(y) = 0
    BY <1>6, <1>7, <2>1 DEF Oldest, AfterW, AfterM, AfterE, AfterD, Empty
  <2>3. oldest_pc(p) = 0 /\ p.cur.W.stat \notin Failed
    BY <1>5, <1>7 DEF oldest_pc, Failed
  <2> QED
    BY <2>2, <2>3
<1>12. StateM(p) = StateW(p, DEFAULT_CC)
  <2>1. PICK r : r = RegsAfter(p)
    OBVIOUS
  <2>2. Write(r, y.W.dstE, y.W.valE, y.W.dstM, y.W.valM) = r
    BY <1>6, <1>7, NoRegister DEF Write
  <2>3. MemAfter(p) = p.m
    BY <1>5 DEF MemAfter
  <2> QED
    BY <1>4, <1>5, <1>11, <2>1, <2>2, <2>3 DEF StateM, StateW
<1>13. HoldsW(p, DEFAULT_CC, code) /\ HoldsM(p, code) /\ HoldsE(p, code) /\ HoldsD(p, code)
  BY <1>4, <1>5, <1>6, <1>7, <1>12 DEF HoldsW, HoldsM, HoldsE, HoldsD, Empty
<1> QED
  BY <1>4, <1>5, <1>8, <1>9, <1>10, <1>11, <1>13 DEF PipeRun

LEMMA PipeSimInvariant == Spec => []PipeSim
<1>1. PipeSim /\ [Next]_vars => PipeSim'
  <2> SUFFICES ASSUME PipeSim, [Next]_vars PROVE PipeSim'
    OBVIOUS
  <2>1. CASE PipeCycle
    BY <2>1, PipeSimKept
  <2>2. CASE SeqCycle
    BY <2>2 DEF SeqCycle, Count, PipeSim
  <2>3. CASE Check
    BY <2>3 DEF Check, PipeSim, NearLimit
  <2>4. CASE UNCHANGED vars
    BY <2>4 DEF vars, PipeSim, NearLimit
  <2> QED
    BY <2>1, <2>2, <2>3, <2>4 DEF Next
<1> QED
  BY <1>1, PipeSimBegins, PTL DEF Spec

\* What PIPE shows after a cycle: the state that the instruction in write back leaves, but
\* one that has failed leaves the state it has met.
LEMMA PipeShows ==
  ASSUME NEW w, NEW p, NEW q, CycleOf(w, p, q), NEW y, y = Coming(p)
  PROVE  PipeVisible(q, p.cc) = IF y.W.stat \in Failed
                                THEN [pc |-> y.W.pc, r |-> RegsAfter(p), m |-> MemAfter(p), cc |-> p.cc]
                                ELSE StateM(p)
<1>1. /\ q.cur = y /\ q.r = RegsAfter(p) /\ q.m = MemAfter(p) /\ q.f_pc = NextFetch(y)
  BY Zenon DEF CycleOf
<1>2. oldest_pc(q) = AfterW(y)
  BY <1>1 DEF oldest_pc, AfterW, AfterM, AfterE, AfterD, Empty
<1>3. CASE y.W.stat \in Failed
  BY <1>1, <1>3 DEF PipeVisible
<1>4. CASE y.W.stat \notin Failed
  <2>1. PICK r : r = Write(RegsAfter(p), y.W.dstE, y.W.valE, y.W.dstM, y.W.valM)
    OBVIOUS
  <2>2. PipeVisible(q, p.cc) = [pc |-> AfterW(y), r |-> r, m |-> MemAfter(p), cc |-> p.cc]
    BY <1>1, <1>2, <1>4, <2>1 DEF PipeVisible
  <2>3. StateM(p) = [pc |-> AfterW(y), r |-> r, m |-> MemAfter(p), cc |-> p.cc]
    BY <2>1 DEF StateM
  <2> QED
    BY <1>4, <2>2, <2>3
<1> QED
  BY <1>3, <1>4

\* The instruction that is in write back, if it is plain, is the one of the program at the
\* program counter of the state that PIPE shows, and that of its memory.
LEMMA DueIsSound ==
  ASSUME sim = "PIPE", PipeSim, run_status = "AOK", ~NearLimit, NEW s, s = Visible, Plain(s),
         NEW y, y = Coming(mach), y.W.stat # "BUB",
         NEW code, code = SoundCode(v, prog, touched)
  PROVE  /\ s \in States /\ PlainAt(v, s.m, s.pc) /\ s = StateW(mach, cc0)
         /\ s.pc = y.W.pc /\ s.pc \in DOMAIN code /\ code[s.pc] = Fetch(v, s.m, s.pc)
<1>1. PICK p, c : p = mach /\ c = cc0
  OBVIOUS
<1>2. /\ v \in Versions /\ prog \in Memory
      /\ \A a \in 0 .. MEM_SIZE - 1 : p.m[a] # prog[a] => a \in touched
      /\ PipeRun(p, c, code)
  BY <1>1 DEF PipeSim
<1>3. PipeTypes(p) /\ c \in Flags /\ oldest_pc(p) = Oldest(y) /\ p.cur.W.stat \notin Failed
  BY <1>1, <1>2 DEF PipeRun
<1>4. s = StateW(p, c)
  <2>1. s = PipeVisible(p, c)
    BY <1>1 DEF Visible
  <2> QED
    BY <1>1, <1>3, <2>1 DEF PipeVisible, StateW, RegsAfter
<1>5. s.pc = y.W.pc /\ s.r = RegsAfter(p) /\ s.m = p.m /\ s.cc = c
      /\ s = [pc |-> s.pc, r |-> s.r, m |-> s.m, cc |-> s.cc]
  BY <1>1, <1>4 DEF StateW, Oldest, Empty
<1>6. PICK pc : pc = s.pc
  OBVIOUS
<1>7. /\ PlainAt(v, s.m, pc) /\ Byte_ok(pc) /\ Byte_ok(pc + 1 + WordBytes)
      /\ \A a \in pc .. pc + 1 + WordBytes : a \notin touched
  BY <1>6 DEF Plain, PlainAt
<1>8. pc \in 0 .. MEM_SIZE - 1
  BY <1>7 DEF Byte_ok
<1>9. s \in States
  <2>1. RegsAfter(p) \in Registers /\ p.m \in Memory
    BY <1>3, WriteType DEF RegsAfter, PipeTypes
  <2> QED
    BY <1>3, <1>5, <1>6, <1>8, <2>1 DEF States
<1>10. \A a \in pc .. pc + 1 + WordBytes : s.m[a] = prog[a]
  <2>1. ASSUME NEW a \in pc .. pc + 1 + WordBytes PROVE a \in 0 .. MEM_SIZE - 1
    BY <1>7, <1>8, <2>1, WordAssumption DEF Byte_ok
  <2> QED
    BY <1>2, <1>5, <1>7, <2>1
<1>11. Fetch(v, s.m, pc) = Fetch(v, prog, pc) /\ Decode(s.m, pc) = Decode(prog, pc)
  <2>1. s.m \in Memory
    BY <1>9 DEF States
  <2> QED
    BY <1>2, <1>7, <1>8, <1>10, <2>1, CodeLocal
<1>12. PlainAt(v, prog, pc)
  BY <1>7, <1>11 DEF PlainAt
<1>13. pc \in DOMAIN code /\ code[pc] = Fetch(v, s.m, pc)
  BY <1>7, <1>8, <1>11, <1>12 DEF SoundCode
<1> QED
  BY <1>1, <1>4, <1>5, <1>6, <1>7, <1>9, <1>13

LEMMA PipeImplements ==
  ASSUME sim = "PIPE", PipeSim, PipeCycle
  PROVE  Implements
<1>1. PICK p, q, y, c, n : /\ p = mach /\ q = mach' /\ y = Coming(p) /\ c = cc0
                           /\ n = InstrLimit - icount
  OBVIOUS
<1>2. /\ sim' = sim /\ cc0' = p.cc /\ run_status = "AOK" /\ q = sim_step_pipe(v, n, p)
      /\ v \in Versions /\ "LEAVE" \notin v /\ prog \in Memory /\ icount \in Nat
      /\ \A a \in 0 .. MEM_SIZE - 1 : p.m[a] # prog[a] => a \in touched
  BY <1>1 DEF PipeCycle, Count, Running, PipeSim
<1>3. PICK s, t : s = Visible /\ t = Visible'
  OBVIOUS
<1>4. SUFFICES ASSUME Plain(s), ~NearLimit
               PROVE  CASE Outcome' = "BUB" -> t = s
                        [] Outcome' = "AOK" -> t = step_state(s).s /\ step_state(s).status = "AOK"
                        [] OTHER -> t = s /\ step_state(s).status = Outcome'
  BY <1>3 DEF Implements
<1>5. n \in Int /\ n > 2
  BY <1>1, <1>2, <1>4, LimitAssumption DEF NearLimit
<1>6. PipeRun(p, c, SoundCode(v, prog, touched))
  BY <1>1, <1>2, <1>4 DEF PipeSim
<1>7. /\ PipeTypes(p) /\ FShape(p) /\ c \in Flags /\ Regular(y)
      /\ oldest_pc(p) = Oldest(y) /\ p.cur.W.stat \notin Failed
      /\ HoldsW(p, c, SoundCode(v, prog, touched))
  BY <1>1, <1>6 DEF PipeRun, PipeTypes
<1>8. CycleOf(v, p, q)
  BY <1>2, <1>5, <1>7, CycleData
<1>9. s = StateW(p, c)
  <2>1. s = PipeVisible(p, c)
    BY <1>1, <1>3 DEF Visible
  <2> QED
    BY <1>1, <1>7, <2>1 DEF PipeVisible, StateW, RegsAfter
<1>10. /\ Outcome' = y.W.stat
       /\ t = IF y.W.stat \in Failed
              THEN [pc |-> y.W.pc, r |-> RegsAfter(p), m |-> MemAfter(p), cc |-> p.cc]
              ELSE StateM(p)
  <2>1. q.cur = y
    BY <1>1, <1>8, Zenon DEF CycleOf
  <2>2. Outcome' = y.W.stat
    BY <1>1, <1>2, <2>1 DEF Outcome
  <2>3. t = PipeVisible(q, p.cc)
    BY <1>1, <1>2, <1>3 DEF Visible
  <2> QED
    BY <1>1, <1>8, <2>2, <2>3, PipeShows
<1>11. CASE y.W.stat = "BUB"
  <2>1. StateM(p) = s
    BY <1>1, <1>7, <1>9, <1>11 DEF HoldsW, Empty
  <2> QED
    BY <1>10, <1>11, <2>1 DEF Failed
<1>12. CASE y.W.stat # "BUB"
  <2>1. s.pc = y.W.pc /\ s.r = RegsAfter(p) /\ s.m = p.m /\ s.cc = c
        /\ s = [pc |-> s.pc, r |-> s.r, m |-> s.m, cc |-> s.cc]
    BY <1>1, <1>9, <1>12 DEF StateW, Oldest, Empty
  <2>2. PICK code, f : code = SoundCode(v, prog, touched) /\ f = Fetch(v, s.m, s.pc)
    OBVIOUS
  <2>3. /\ s \in States /\ PlainAt(v, s.m, s.pc)
        /\ s.pc = y.W.pc /\ s.pc \in DOMAIN code /\ code[s.pc] = f
    BY <1>1, <1>2, <1>3, <1>4, <1>12, <2>2, DueIsSound
  <2>4. /\ y.W.stat = StatusOf(s, f)
        /\ y.W.stat = "AOK" => StateM(p) = Completed(s, f)
        /\ y.W.stat # "AOK" => MemAfter(p) = p.m /\ p.cc = c
    BY <1>1, <1>7, <1>9, <1>12, <2>2, <2>3 DEF HoldsW, Empty
  <2>5. /\ step_state(s).status = StatusOf(s, f)
        /\ StatusOf(s, f) = "AOK" => step_state(s).s = Completed(s, f)
    BY <1>2, <2>2, <2>3, Datapath
  <2>6. CASE y.W.stat = "AOK"
    <3>1. t = StateM(p)
      BY <1>10, <2>6 DEF Failed
    <3>2. t = step_state(s).s /\ step_state(s).status = "AOK"
      BY <2>4, <2>5, <2>6, <3>1
    <3> QED
      BY <1>10, <2>6, <3>2
  <2>7. CASE y.W.stat # "AOK"
    <3>1. y.W.stat \in Failed
      BY <1>7, <1>12, <2>7 DEF Regular, Behind, Fetched
    <3>2. MemAfter(p) = s.m /\ p.cc = s.cc
      BY <2>1, <2>4, <2>7
    <3>3. t = [pc |-> s.pc, r |-> s.r, m |-> s.m, cc |-> s.cc]
      BY <1>10, <2>1, <3>1, <3>2
    <3>4. step_state(s).status = y.W.stat
      BY <2>4, <2>5
    <3> QED
      BY <1>10, <1>12, <2>1, <2>7, <3>3, <3>4
  <2> QED
    BY <2>6, <2>7
<1> QED
  BY <1>11, <1>12

\* Both simulators refine the instruction set: for every program, word size, memory and limit,
\* what has been completed when a cycle of psim.c ends is what step_state makes of the
\* instruction that is due, or nothing, however instructions overlap in the pipeline, wait,
\* are forwarded values or are abandoned; and one that fails changes nothing.
THEOREM SimulatorsImplementISA == Spec => ImplementsISA
<1>1. SeqInv /\ PipeSim /\ [Next]_vars => [Implements]_vars
  <2> SUFFICES ASSUME SeqInv, PipeSim, Next PROVE Implements
    OBVIOUS
  <2>1. CASE PipeCycle
    BY <2>1, PipeImplements DEF PipeCycle
  <2>2. CASE SeqCycle
    BY <2>2, SeqImplements DEF SeqCycle
  <2>3. CASE Check
    BY <2>3 DEF Check, Implements
  <2> QED
    BY <2>1, <2>2, <2>3 DEF Next
<1> QED
  BY <1>1, SeqInvariant, PipeSimInvariant, PTL DEF Spec, ImplementsISA

------------------------------------------------------------------------------
(***************************************************************************)
(* The run of step_state that the check compares with.                     *)
(***************************************************************************)
Begun(m)  == [s |-> new_state(m), status |-> "AOK"]
Then(x)   == IF x.status = "AOK" THEN step_state(x.s) ELSE x
IsaSteps(f, m, n) == f = [i \in 0 .. n |-> IF i = 0 THEN Begun(m) ELSE Then(f[i - 1])]

\* step_state comes to the state s of the program m with its n-th instruction.
Reaches(m, n, s) == \E f : IsaSteps(f, m, n) /\ f[n] = [s |-> s, status |-> "AOK"]

LEMMA IsaStepsAre ==
  ASSUME NEW n \in Nat, NEW m, NEW f, IsaSteps(f, m, n)
  PROVE  f[0] = Begun(m) /\ \A i \in 0 .. n : i # 0 => f[i] = Then(f[i - 1])
<1>1. \A i \in 0 .. n : f[i] = IF i = 0 THEN Begun(m) ELSE Then(f[i - 1])
  BY Zenon DEF IsaSteps
<1> QED
  BY <1>1

LEMMA IsaStepsLonger ==
  ASSUME NEW n \in Nat, NEW m, NEW f, IsaSteps(f, m, n)
  PROVE  \E g : IsaSteps(g, m, n + 1) /\ g[n + 1] = Then(f[n])
<1>1. PICK x : x = Then(f[n])
  OBVIOUS
<1>2. PICK g : g = [i \in 0 .. n + 1 |-> IF i = n + 1 THEN x ELSE f[i]]
  OBVIOUS
<1>3. g[n + 1] = x /\ \A i \in 0 .. n : g[i] = f[i]
  BY <1>2
<1>4. ASSUME NEW i \in 0 .. n + 1
      PROVE  g[i] = IF i = 0 THEN Begun(m) ELSE Then(g[i - 1])
  <2>1. CASE i = 0
    BY <1>3, <2>1, IsaStepsAre
  <2>2. CASE i = n + 1
    <3>1. i # 0 /\ i - 1 = n /\ g[i - 1] = f[n]
      BY <1>3, <2>2
    <3> QED
      BY <1>1, <1>3, <2>2, <3>1
  <2>3. CASE i \in 0 .. n /\ i # 0
    <3>1. g[i] = f[i] /\ g[i - 1] = f[i - 1]
      BY <1>3, <2>3
    <3> QED
      BY <2>3, <3>1, IsaStepsAre
  <2> QED
    BY <2>1, <2>2, <2>3
<1>5. IsaSteps(g, m, n + 1)
  <2>1. g = [i \in 0 .. n + 1 |-> g[i]]
    BY <1>2
  <2>2. [i \in 0 .. n + 1 |-> g[i]]
          = [i \in 0 .. n + 1 |-> IF i = 0 THEN Begun(m) ELSE Then(g[i - 1])]
    BY <1>4
  <2> QED
    BY <2>1, <2>2, Zenon DEF IsaSteps
<1> QED
  BY <1>1, <1>3, <1>5

LEMMA IsaStepsExist ==
  ASSUME NEW n \in Nat, NEW m
  PROVE  \E f : IsaSteps(f, m, n)
<1> DEFINE P == {k \in Nat : \E f : IsaSteps(f, m, k)}
<1>1. 0 \in P
  <2>1. PICK f : f = [i \in 0 .. 0 |-> Begun(m)]
    OBVIOUS
  <2>2. f = [i \in 0 .. 0 |-> IF i = 0 THEN Begun(m) ELSE Then(f[i - 1])]
    BY <2>1
  <2>3. IsaSteps(f, m, 0)
    BY <2>2, Zenon DEF IsaSteps
  <2> QED
    BY <2>3
<1>2. ASSUME NEW k \in P PROVE k + 1 \in P
  BY IsaStepsLonger
<1>3. P = Nat
  <2>1. P \in SUBSET Nat
    OBVIOUS
  <2> HIDE DEF P
  <2> QED
    BY <1>1, <1>2, <2>1, Induction
<1> QED
  BY <1>3

\* The check compares with the state after as many instructions as the limit.
LEMMA IsaRunIs == \E f : IsaSteps(f, prog, InstrLimit) /\ IsaRun = f[InstrLimit]
<1> DEFINE f == CHOOSE g : IsaSteps(g, prog, InstrLimit)
<1>1. IsaSteps(f, prog, InstrLimit)
  BY IsaStepsExist, LimitAssumption
<1>2. IsaRun = f[InstrLimit]
  BY DEF IsaRun, IsaSteps, Begun, Then
<1> QED
  BY <1>1, <1>2

\* Two runs agree as long as both last.
LEMMA IsaStepsAgree ==
  ASSUME NEW n \in Nat, NEW l \in Nat, n <= l, NEW m, NEW f, IsaSteps(f, m, n),
         NEW g, IsaSteps(g, m, l)
  PROVE  g[n] = f[n]
<1> DEFINE P == {k \in Nat : k <= n => g[k] = f[k]}
<1>1. 0 \in P
  BY IsaStepsAre
<1>2. ASSUME NEW k \in P PROVE k + 1 \in P
  <2>1. CASE k + 1 <= n
    <3>1. k + 1 \in 0 .. n /\ k + 1 \in 0 .. l /\ k + 1 # 0 /\ (k + 1) - 1 = k /\ g[k] = f[k]
      BY <2>1
    <3>2. f[k + 1] = Then(f[k]) /\ g[k + 1] = Then(g[k])
      BY <3>1, IsaStepsAre
    <3> QED
      BY <3>1, <3>2
  <2>2. CASE ~(k + 1 <= n)
    BY <2>2
  <2> QED
    BY <2>1, <2>2
<1>3. P = Nat
  <2>1. P \in SUBSET Nat
    OBVIOUS
  <2> HIDE DEF P
  <2> QED
    BY <1>1, <1>2, <2>1, Induction
<1> QED
  BY <1>3

LEMMA ReachesNext ==
  ASSUME NEW m, NEW n \in Nat, NEW s, Reaches(m, n, s), step_state(s).status = "AOK"
  PROVE  Reaches(m, n + 1, step_state(s).s)
<1>1. PICK f : IsaSteps(f, m, n) /\ f[n] = [s |-> s, status |-> "AOK"]
  BY DEF Reaches
<1>2. Then(f[n]) = step_state(s)
  BY <1>1 DEF Then
<1>3. step_state(s) = [s |-> step_state(s).s, status |-> "AOK"]
  BY DEF step_state
<1>4. PICK g : IsaSteps(g, m, n + 1) /\ g[n + 1] = Then(f[n])
  BY <1>1, IsaStepsLonger
<1> QED
  BY <1>2, <1>3, <1>4 DEF Reaches

\* A run stays in the state in which an instruction has failed.
LEMMA IsaRunEnds ==
  ASSUME NEW n \in Nat, n < InstrLimit, NEW s, Reaches(prog, n, s),
         step_state(s).status # "AOK"
  PROVE  IsaRun = step_state(s)
<1>1. PICK f : IsaSteps(f, prog, n) /\ f[n] = [s |-> s, status |-> "AOK"]
  BY DEF Reaches
<1>2. PICK l \in Nat : l = InstrLimit
  BY LimitAssumption
<1>3. PICK g : IsaSteps(g, prog, l) /\ IsaRun = g[l]
  BY <1>2, IsaRunIs
<1>4. g[n] = f[n]
  BY <1>1, <1>2, <1>3, IsaStepsAgree
<1>5. PICK x : x = step_state(s)
  OBVIOUS
<1>6. Then(g[n]) = x /\ Then(x) = x
  BY <1>1, <1>4, <1>5 DEF Then
<1>7. \A i \in 0 .. l : i # 0 => g[i] = Then(g[i - 1])
  BY <1>2, <1>3, IsaStepsAre
<1> DEFINE P == {k \in Nat : (n + 1) + k <= l => g[(n + 1) + k] = x}
<1>8. 0 \in P
  <2>1. (n + 1) + 0 \in 0 .. l /\ (n + 1) + 0 # 0 /\ ((n + 1) + 0) - 1 = n
    BY <1>2
  <2> QED
    BY <1>6, <1>7, <2>1
<1>9. ASSUME NEW k \in P PROVE k + 1 \in P
  <2>1. CASE (n + 1) + (k + 1) <= l
    <3>1. /\ (n + 1) + (k + 1) \in 0 .. l /\ (n + 1) + (k + 1) # 0
          /\ ((n + 1) + (k + 1)) - 1 = (n + 1) + k /\ g[(n + 1) + k] = x
      BY <1>2, <2>1
    <3>2. g[(n + 1) + (k + 1)] = Then(x)
      BY <1>7, <3>1
    <3> QED
      BY <1>6, <3>2
  <2>2. CASE ~((n + 1) + (k + 1) <= l)
    BY <2>2
  <2> QED
    BY <2>1, <2>2
<1>10. P = Nat
  <2>1. P \in SUBSET Nat
    OBVIOUS
  <2> HIDE DEF P
  <2> QED
    BY <1>8, <1>9, <2>1, Induction
<1>11. PICK j \in Nat : (n + 1) + j = l
  <2>1. l - (n + 1) \in Nat /\ (n + 1) + (l - (n + 1)) = l
    BY <1>2
  <2> QED
    BY <2>1
<1>12. g[(n + 1) + j] = x
  <2>1. j \in P
    <3> HIDE DEF P
    <3> QED
      BY <1>10, <1>11
  <2>2. (n + 1) + j <= l
    BY <1>2, <1>11
  <2> QED
    BY <2>1, <2>2
<1> QED
  BY <1>3, <1>5, <1>11, <1>12

\* The instruction of the stack d fails in the state s, and %esp becomes e.
Moves(s, d, e) ==
  /\ DecodeStatus(d) = "AOK" /\ d.icode \in {"PUSHL", "CALL", "POPL", "LEAVE"}
  /\ ~Word_ok(MemAddress(s, d))
  /\ e = IF d.icode \in {"PUSHL", "CALL"} THEN MemAddress(s, d)
         ELSE Word(MemAddress(s, d) + WordBytes)

\* An instruction that fails leaves memory and condition codes, and the registers unless it
\* is one of the stack, its address is wrong and %esp has moved.
LEMMA FailedStep ==
  ASSUME NEW s, s = [pc |-> s.pc, r |-> s.r, m |-> s.m, cc |-> s.cc],
         NEW x, x = step_state(s), x.status # "AOK"
  PROVE  /\ x.s.m = s.m /\ x.s.cc = s.cc
         /\ \/ x.s.r = s.r
            \/ x.status = "ADR" /\ \E e : /\ Moves(s, Decode(s.m, s.pc), e)
                                        /\ x.s.r = set_reg_val(s.r, ESP, e)
<1>1. PICK d : d = Decode(s.m, s.pc)
  OBVIOUS
<1>2. PICK fault : fault = (UsesMemory(d.icode) /\ ~Word_ok(MemAddress(s, d)))
  OBVIOUS
<1>3. PICK done : done = IF DecodeStatus(d) = "AOK" THEN Execute(s, d) ELSE s
  OBVIOUS
<1>4. /\ x.status = IF DecodeStatus(d) = "AOK" /\ fault THEN "ADR" ELSE DecodeStatus(d)
      /\ x.s = done
  BY <1>1, <1>2, <1>3 DEF step_state
<1>5. CASE DecodeStatus(d) # "AOK"
  BY <1>3, <1>4, <1>5
<1>6. CASE DecodeStatus(d) = "AOK"
  <2>1. /\ x.status = "ADR" /\ done = Execute(s, d)
        /\ UsesMemory(d.icode) /\ ~Word_ok(MemAddress(s, d))
    BY <1>2, <1>3, <1>4, <1>6
  <2>2. ASSUME NEW a, NEW val, ~Word_ok(a) PROVE set_word_val(s.m, a, val) = s.m
    BY <2>2 DEF set_word_val
  <2>3. PICK a : a = MemAddress(s, d) /\ ~Word_ok(a)
    BY <2>1
  <2>4. CASE d.icode = "RMMOVL"
    <3>1. done = [s EXCEPT !.m = set_word_val(@, a, get_reg_val(s.r, d.ra))]
      BY <2>1, <2>3, <2>4 DEF Execute
    <3> QED
      BY <1>4, <2>1, <2>2, <2>3, <3>1
  <2>5. CASE d.icode \in {"MRMOVL", "RET"}
    <3>1. done = s
      BY <2>1, <2>3, <2>5 DEF Execute
    <3> QED
      BY <1>4, <2>1, <3>1
  <2>6. CASE d.icode \in {"PUSHL", "CALL"}
    <3>1. PICK val : done = Push(s, val)
      BY <2>1, <2>6 DEF Execute
    <3>2. a = Word(get_reg_val(s.r, ESP) - WordBytes)
      BY <2>3, <2>6 DEF MemAddress
    <3>3. PICK r : r = set_reg_val(s.r, ESP, a)
      OBVIOUS
    <3>4. done = [s EXCEPT !.r = r, !.m = s.m]
      BY <2>2, <2>3, <3>1, <3>2, <3>3 DEF Push
    <3>5. Moves(s, d, a)
      BY <1>6, <2>3, <2>6 DEF Moves
    <3> QED
      BY <1>1, <1>4, <2>1, <3>3, <3>4, <3>5
  <2>7. CASE d.icode \in {"POPL", "LEAVE"}
    <3>1. PICK id : done = Pop(s, a, id)
      BY <2>1, <2>3, <2>7 DEF Execute
    <3>2. PICK e, r : e = Word(a + WordBytes) /\ r = set_reg_val(s.r, ESP, e)
      OBVIOUS
    <3>3. done = [s EXCEPT !.r = r]
      BY <2>3, <3>1, <3>2 DEF Pop
    <3>4. Moves(s, d, e)
      BY <1>6, <2>3, <2>7, <3>2 DEF Moves
    <3> QED
      BY <1>1, <1>4, <2>1, <3>2, <3>3, <3>4
  <2> QED
    BY <2>1, <2>4, <2>5, <2>6, <2>7 DEF UsesMemory
<1> QED
  BY <1>5, <1>6

\* What the status of a cycle says of the instruction that it has completed, if any. When it
\* has failed, nothing that comes behind it shows.
Ends == /\ mach'.status = "AOK" <=> Outcome' \in {"AOK", "BUB"}
        /\ mach'.status # "AOK" =>
             /\ Outcome' = mach'.status
             /\ Visible'.r = mach'.r /\ Visible'.m = mach'.m /\ Visible'.cc = mach'.cc

LEMMA SeqEnds ==
  ASSUME sim = "SEQ", SeqInv, SeqCycle, Plain(Visible)
  PROVE  Ends
<1>1. PICK z, q, s, f : z = mach /\ q = mach' /\ s = SeqDue(z) /\ f = Fetch(v, s.m, s.pc)
  OBVIOUS
<1>2. /\ sim' = sim /\ v \in Versions /\ q = sim_step(v, z)
      /\ z.status = "AOK" /\ DOMAIN z = SeqFields /\ s \in States
  BY <1>1 DEF SeqCycle, Count, Running, SeqInv
<1>3. Visible = s
  BY <1>1, <1>2, SeqShows DEF Visible
<1>4. s.m \in Memory /\ s.pc \in Int
  BY <1>2 DEF States
<1>5. PlainAt(v, s.m, s.pc)
  BY <1>3 DEF Plain, PlainAt
<1>6. f.ok = TRUE
  <2>1. FetchedOf(Decode(s.m, s.pc), f)
    BY <1>1, <1>2, <1>4, <1>5, PlainDecode
  <2> QED
    BY <2>1 DEF FetchedOf
<1>7. DOMAIN q = SeqFields /\ q.status = StatusOf(s, f)
  <2>1. SeqDone(s, f, q)
    BY <1>1, <1>2, <1>6, SeqStep
  <2> QED
    BY <1>6, <2>1 DEF SeqDone
<1>8. Outcome' = q.status /\ Visible' = SeqVisible(q)
  BY <1>1, <1>2 DEF Outcome, Visible
<1>9. q.status # "BUB"
  BY <1>7 DEF StatusOf, DecodedStatus
<1>10. q.status # "AOK" => SeqVisible(q) = [pc |-> q.pc, r |-> q.r, m |-> q.m, cc |-> q.cc]
  BY <1>7, SeqShows
<1> QED
  BY <1>1, <1>8, <1>9, <1>10 DEF Ends

LEMMA PipeEnds ==
  ASSUME sim = "PIPE", PipeSim, PipeCycle, Plain(Visible), ~NearLimit
  PROVE  Ends
<1>1. PICK p, q, y, c, n : /\ p = mach /\ q = mach' /\ y = Coming(p) /\ c = cc0
                           /\ n = InstrLimit - icount
  OBVIOUS
<1>2. /\ sim' = sim /\ cc0' = p.cc /\ run_status = "AOK" /\ q = sim_step_pipe(v, n, p)
      /\ icount \in Nat
  BY <1>1 DEF PipeCycle, Count, Running, PipeSim
<1>3. n \in Int /\ n > 2
  BY <1>1, <1>2, LimitAssumption DEF NearLimit
<1>4. PICK s, code : s = Visible /\ code = SoundCode(v, prog, touched)
  OBVIOUS
<1>5. /\ FShape(p) /\ Shape(p) /\ Regular(y) /\ HoldsW(p, c, code)
  BY <1>1, <1>2, <1>4 DEF PipeSim, PipeRun, PipeTypes, FShape
<1>6. CycleOf(v, p, q)
  BY <1>2, <1>3, <1>5, CycleData
<1>7. /\ q.cur = y /\ q.r = RegsAfter(p) /\ q.m = MemAfter(p) /\ q.cc = p.cc_in
  BY <1>1, <1>6, Zenon DEF CycleOf
<1>8. q.status = IF y.W.stat = "BUB" THEN "AOK" ELSE y.W.stat
  <2>1. Cycled(y, q)
    BY <1>1, <1>2, <1>5, CycleEffect DEF Coming
  <2> QED
    BY <2>1 DEF Cycled
<1>9. Outcome' = y.W.stat /\ y.W.stat \in Failed \union {"AOK", "BUB"}
  <2>1. Outcome' = y.W.stat
    BY <1>1, <1>2, <1>7 DEF Outcome
  <2>2. y.W.stat \in Failed \union {"AOK", "BUB"}
    BY <1>5 DEF Regular, Behind, Fetched
  <2> QED
    BY <2>1, <2>2
<1>10. ASSUME y.W.stat \in Failed
       PROVE  Visible'.r = q.r /\ Visible'.m = q.m /\ Visible'.cc = q.cc
  <2>1. y.W.stat \notin {"AOK", "BUB"}
    BY <1>10 DEF Failed
  <2>2. Visible' = [pc |-> y.W.pc, r |-> RegsAfter(p), m |-> MemAfter(p), cc |-> p.cc]
    <3>1. Visible' = PipeVisible(q, p.cc)
      BY <1>1, <1>2 DEF Visible
    <3> QED
      BY <1>1, <1>6, <1>10, <3>1, PipeShows
  <2>3. y.W.pc \in DOMAIN code
    BY <1>1, <1>2, <1>4, <2>1, DueIsSound
  <2>4. p.cc = c /\ p.cc_in = c
    BY <1>1, <1>5, <2>1, <2>3 DEF HoldsW, Empty
  <2> QED
    BY <1>7, <2>2, <2>4
<1>11. q.status = "AOK" <=> Outcome' \in {"AOK", "BUB"}
  BY <1>8, <1>9 DEF Failed
<1>12. ASSUME q.status # "AOK"
       PROVE  Outcome' = q.status /\ y.W.stat \in Failed
  BY <1>8, <1>9, <1>12
<1> QED
  BY <1>1, <1>10, <1>11, <1>12 DEF Ends

(***************************************************************************)
(* The check: the run of step_state passes through every state that a      *)
(* simulator shows, and ends where the simulator does.                     *)
(***************************************************************************)
Unfinished == plain /\ run_status = "AOK" => \E n \in 0 .. icount : Reaches(prog, n, Visible)
Finished   == plain /\ run_status # "AOK" =>
                /\ \E n \in 0 .. icount - 1 : Reaches(prog, n, Visible)
                /\ step_state(Visible).status = run_status
                /\ Visible.r = mach.r /\ Visible.m = mach.m /\ Visible.cc = mach.cc
CheckInv == /\ icount \in 0 .. InstrLimit
            /\ match = "NONE" => Unfinished /\ Finished
            /\ CheckSucceeds

LEMMA VisibleIs ==
  Visible = [pc |-> Visible.pc, r |-> Visible.r, m |-> Visible.m, cc |-> Visible.cc]
<1>1. \A z : SeqVisible(z) = [pc |-> SeqVisible(z).pc, r |-> SeqVisible(z).r,
                             m |-> SeqVisible(z).m, cc |-> SeqVisible(z).cc]
  BY DEF SeqVisible
<1>2. \A p, c : PipeVisible(p, c) = [pc |-> PipeVisible(p, c).pc, r |-> PipeVisible(p, c).r,
                                    m |-> PipeVisible(p, c).m, cc |-> PipeVisible(p, c).cc]
  BY DEF PipeVisible
<1> QED
  BY <1>1, <1>2 DEF Visible

LEMMA CheckBegins ==
  ASSUME Init
  PROVE  CheckInv
<1>1. /\ icount = 0 /\ match = "NONE" /\ run_status = "AOK" /\ cc0 = DEFAULT_CC
      /\ \/ sim = "PIPE" /\ mach = sim_reset(prog)
         \/ sim = "SEQ" /\ mach = seq_sim_reset(prog)
  BY DEF Init, PipeStart, SeqStart
<1>2. Visible = new_state(prog)
  <2>1. PICK r : r = [id \in RegIds |-> 0]
    OBVIOUS
  <2>2. new_state(prog) = [pc |-> 0, r |-> r, m |-> prog, cc |-> DEFAULT_CC]
    BY <2>1 DEF new_state
  <2>3. CASE sim = "PIPE"
    <3>1. /\ mach.cur = bubble /\ mach.r = r /\ mach.m = prog /\ mach.f_pc = 0
      BY <1>1, <2>1, <2>3 DEF sim_reset
    <3>2. /\ bubble.D.stat = "BUB" /\ bubble.E.stat = "BUB" /\ bubble.M.stat = "BUB"
          /\ bubble.W.stat = "BUB" /\ bubble.W.dstE = NONE /\ bubble.W.dstM = NONE
      BY DEF bubble
    <3>3. oldest_pc(mach) = 0
      BY <3>1, <3>2 DEF oldest_pc
    <3>4. Write(r, NONE, bubble.W.valE, NONE, bubble.W.valM) = r
      BY NoRegister DEF Write
    <3>5. PipeVisible(mach, DEFAULT_CC) = [pc |-> 0, r |-> r, m |-> prog, cc |-> DEFAULT_CC]
      BY <3>1, <3>2, <3>3, <3>4 DEF PipeVisible, Failed
    <3> QED
      BY <1>1, <2>2, <2>3, <3>5 DEF Visible
  <2>4. CASE sim = "SEQ"
    <3>1. /\ DOMAIN mach = SeqFields /\ mach.status = "AOK" /\ mach.r = r /\ mach.m = prog
          /\ mach.next = NoChanges
      BY <1>1, <2>1, <2>4 DEF seq_sim_reset, SeqFields
    <3>2. Write(r, NONE, 0, NONE, 0) = r
      BY NoRegister DEF Write
    <3>3. SeqDue(mach) = [pc |-> 0, r |-> r, m |-> prog, cc |-> DEFAULT_CC]
      BY <3>1, <3>2 DEF SeqDue, NoChanges, new_pc
    <3>4. SeqVisible(mach) = SeqDue(mach)
      BY <3>1, SeqShows
    <3> QED
      BY <2>2, <2>4, <3>3, <3>4 DEF Visible
  <2> QED
    BY <1>1, <2>3, <2>4
<1>3. Reaches(prog, 0, Visible)
  <2>1. PICK f : IsaSteps(f, prog, 0)
    BY IsaStepsExist
  <2>2. f[0] = Begun(prog)
    BY <2>1, IsaStepsAre
  <2> QED
    BY <1>2, <2>1, <2>2 DEF Reaches, Begun
<1>4. Unfinished
  BY <1>1, <1>3 DEF Unfinished
<1> QED
  BY <1>1, <1>4, LimitAssumption DEF CheckInv, Finished, CheckSucceeds

LEMMA CheckCycle ==
  ASSUME CheckInv, Count, Implements, Plain(Visible) /\ ~NearLimit => Ends
  PROVE  CheckInv'
<1>1. /\ match = "NONE" /\ match' = "NONE" /\ run_status = "AOK" /\ run_status' = mach'.status
      /\ icount < InstrLimit /\ icount' = icount + 1 /\ prog' = prog
      /\ plain' = (plain /\ Plain(Visible) /\ ~NearLimit)
  BY DEF Count, Running
<1>2. icount \in 0 .. InstrLimit /\ Unfinished
  BY <1>1 DEF CheckInv
<1>3. icount' \in 0 .. InstrLimit
  BY <1>1, <1>2, LimitAssumption
<1>4. CheckSucceeds'
  BY <1>1 DEF CheckSucceeds
<1>5. SUFFICES ASSUME plain'
               PROVE  Unfinished' /\ Finished'
  BY <1>1, <1>3, <1>4 DEF CheckInv, Unfinished, Finished
<1>6. plain /\ Plain(Visible) /\ ~NearLimit
  BY <1>1, <1>5, Zenon
<1>7. PICK s, t, o : s = Visible /\ t = Visible' /\ o = Outcome'
  OBVIOUS
<1>8. PICK n \in 0 .. icount : Reaches(prog, n, s)
  BY <1>1, <1>2, <1>6, <1>7 DEF Unfinished
<1>9. /\ o = "BUB" => t = s
      /\ o = "AOK" => t = step_state(s).s /\ step_state(s).status = "AOK"
      /\ o \notin {"BUB", "AOK"} => t = s /\ step_state(s).status = o
  BY <1>1, <1>6, <1>7 DEF Implements
<1>10. /\ mach'.status = "AOK" <=> o \in {"AOK", "BUB"}
       /\ mach'.status # "AOK" =>
            o = mach'.status /\ t.r = mach'.r /\ t.m = mach'.m /\ t.cc = mach'.cc
  BY <1>6, <1>7 DEF Ends
<1>11. Unfinished'
  <2>1. SUFFICES ASSUME mach'.status = "AOK"
                 PROVE  \E k \in 0 .. icount + 1 : Reaches(prog, k, t)
    BY <1>1, <1>7 DEF Unfinished
  <2>2. CASE o = "BUB"
    BY <1>2, <1>8, <1>9, <2>2
  <2>3. CASE o = "AOK"
    <3>1. Reaches(prog, n + 1, t)
      BY <1>2, <1>8, <1>9, <2>3, ReachesNext
    <3>2. n + 1 \in 0 .. icount + 1
      BY <1>2, <1>8
    <3> QED
      BY <3>1, <3>2
  <2> QED
    BY <1>10, <2>1, <2>2, <2>3
<1>12. Finished'
  <2>1. SUFFICES ASSUME mach'.status # "AOK"
                 PROVE  /\ \E k \in 0 .. (icount + 1) - 1 : Reaches(prog, k, t)
                        /\ step_state(t).status = mach'.status
                        /\ t.r = mach'.r /\ t.m = mach'.m /\ t.cc = mach'.cc
    BY <1>1, <1>7 DEF Finished
  <2>2. t = s /\ step_state(s).status = mach'.status
    BY <1>9, <1>10, <2>1
  <2>3. n \in 0 .. (icount + 1) - 1
    BY <1>2, <1>8
  <2> QED
    BY <1>8, <1>10, <2>1, <2>2, <2>3
<1> QED
  BY <1>11, <1>12

LEMMA CheckKept ==
  ASSUME CheckInv, Check
  PROVE  CheckInv'
<1>1. /\ match = "NONE" /\ match' # "NONE" /\ icount' = icount /\ plain' = plain
      /\ run_status' = run_status /\ mach' = mach /\ IsaRun' = IsaRun
      /\ match' = IF \/ diff_reg(IsaRun.s.r, mach.r) \/ diff_mem(IsaRun.s.m, mach.m)
                     \/ IsaRun.s.cc # mach.cc
                  THEN "FAILS" ELSE "SUCCEEDS"
  BY DEF Check, IsaRun
<1>2. icount \in 0 .. InstrLimit /\ Finished
  BY <1>1 DEF CheckInv
<1>3. SUFFICES ASSUME plain, run_status # "AOK"
               PROVE  match' = "SUCCEEDS" \/ OnlyStackMoved'
  BY <1>1, <1>2 DEF CheckInv, CheckSucceeds
<1>4. PICK s, x : s = Visible /\ x = step_state(s)
  OBVIOUS
<1>5. PICK n \in 0 .. icount - 1 : Reaches(prog, n, s)
  BY <1>2, <1>3, <1>4 DEF Finished
<1>6. x.status = run_status /\ s.r = mach.r /\ s.m = mach.m /\ s.cc = mach.cc
  BY <1>2, <1>3, <1>4 DEF Finished
<1>7. IsaRun = x
  <2>1. n \in Nat /\ n < InstrLimit
    BY <1>2, <1>5, LimitAssumption
  <2> QED
    BY <1>3, <1>4, <1>5, <1>6, <2>1, IsaRunEnds
<1>8. /\ x.s.m = s.m /\ x.s.cc = s.cc
      /\ \/ x.s.r = s.r
         \/ x.status = "ADR" /\ \E e : /\ Moves(s, Decode(s.m, s.pc), e)
                                     /\ x.s.r = set_reg_val(s.r, ESP, e)
  <2>1. s = [pc |-> s.pc, r |-> s.r, m |-> s.m, cc |-> s.cc]
    BY <1>4, VisibleIs
  <2> QED
    BY <1>3, <1>4, <1>6, <2>1, FailedStep
<1>9. IsaRun.s.m = mach.m /\ IsaRun.s.cc = mach.cc
  BY <1>6, <1>7, <1>8
<1>10. CASE x.s.r = s.r
  <2>1. IsaRun.s.r = mach.r
    BY <1>6, <1>7, <1>10
  <2>2. ~diff_reg(mach.r, mach.r) /\ ~diff_mem(mach.m, mach.m)
    BY DEF diff_reg, diff_mem
  <2> QED
    BY <1>1, <1>9, <2>1, <2>2
<1>11. CASE x.s.r # s.r
  <2>1. PICK e : /\ x.status = "ADR" /\ Moves(s, Decode(s.m, s.pc), e)
                 /\ x.s.r = set_reg_val(s.r, ESP, e)
    BY <1>8, <1>11
  <2>2. IsaRun.s.r = set_reg_val(mach.r, ESP, e) /\ run_status = "ADR"
    BY <1>6, <1>7, <2>1
  <2>3. OnlyStackMoved
    BY <1>4, <1>9, <2>1, <2>2 DEF OnlyStackMoved, Moves
  <2>4. Visible' = Visible
    BY DEF Check, Visible
  <2>5. OnlyStackMoved'
    BY <1>1, <2>3, <2>4 DEF OnlyStackMoved
  <2> QED
    BY <2>5
<1> QED
  BY <1>10, <1>11

\* The check of a run of psim or ssim that ends by itself fails for one reason alone: for every
\* program, word size, memory and limit, if all instructions were plain, the registers, the
\* memory and the condition codes are those in which step_state ends, whatever the status;
\* or the run has ended at a push, call, pop or leave with a wrong address, and %esp, which
\* step_state has moved by then, is all that differs.
THEOREM ChecksSucceed == Spec => []CheckSucceeds
<1>1. Init => CheckInv
  BY CheckBegins
<1>2. CheckInv /\ SeqInv /\ PipeSim /\ [Next]_vars => CheckInv'
  <2> SUFFICES ASSUME CheckInv, SeqInv, PipeSim, [Next]_vars PROVE CheckInv'
    OBVIOUS
  <2>1. CASE PipeCycle
    <3>1. sim = "PIPE" /\ Count
      BY <2>1 DEF PipeCycle
    <3> QED
      BY <2>1, <3>1, PipeImplements, PipeEnds, CheckCycle
  <2>2. CASE SeqCycle
    <3>1. sim = "SEQ" /\ Count
      BY <2>2 DEF SeqCycle
    <3> QED
      BY <2>2, <3>1, SeqImplements, SeqEnds, CheckCycle
  <2>3. CASE Check
    BY <2>3, CheckKept
  <2>4. CASE UNCHANGED vars
    BY <2>4 DEF vars, CheckInv, Unfinished, Finished, CheckSucceeds, OnlyStackMoved, Visible,
         IsaRun
  <2> QED
    BY <2>1, <2>2, <2>3, <2>4 DEF Next
<1>3. CheckInv => CheckSucceeds
  BY DEF CheckInv
<1> QED
  BY <1>1, <1>2, <1>3, SeqInvariant, PipeSimInvariant, PTL DEF Spec
==============================================================================
