--------------------------- MODULE TinyShell_proofs --------------------------
(***************************************************************************)
(* The invariants of the tiny shell, for every number of job slots, any    *)
(* set of children and any of the two keyboard signals.                    *)
(***************************************************************************)
EXTENDS TinyShell, JobList_proofs

LEMMA SignalsType == Keyboard \subseteq Signals /\ "CHLD" \in Signals /\ "CHLD" \notin Keyboard
  BY KeyboardAssumption DEF Signals

\* The foreground slots are slots, so a search for one is a search of slots.
LEMMA FgPidType ==
  ASSUME NEW js \in [Slots -> Jobs]
  PROVE  /\ fgpid(js) \in Pids \union {NoPid}
         /\ fgpid(js) # NoPid => \E i \in FgSlots(js) : js[i].pid = fgpid(js)
<1>1. CASE FgSlots(js) = {}
  BY <1>1 DEF fgpid
<1>2. CASE FgSlots(js) # {}
  <2>1. First(FgSlots(js)) \in FgSlots(js) /\ First(FgSlots(js)) \in Slots
    BY <1>2, FirstFits DEF FgSlots
  <2>2. js[First(FgSlots(js))].pid \in Pids \union {NoPid}
    BY <2>1 DEF Jobs
  <2> QED
    BY <1>2, <2>1, <2>2 DEF fgpid
<1> QED
  BY <1>1, <1>2

------------------------------------------------------------------------------
(***************************************************************************)
(* Type correctness.                                                       *)
(***************************************************************************)
LEMMA InitType == Init => TypeOK
  BY SignalsType, NoPidAssumption DEF Init, TypeOK, PCs, NoSlot, initjobs, clearjob,
     Jobs, JobStates, Handlers, Idle, ProcStates

LEMMA MainType ==
  ASSUME TypeOK, ForegroundInv, Main
  PROVE  TypeOK'
<1> USE DEF TypeOK, MainAt, Return, kernel
<1>1. CASE ReadCommand
  BY <1>1 DEF ReadCommand, PCs
<1>2. CASE ReadBgFg
  <2>1. PICK p \in Listed(jobs) : slot' = getjobpid(jobs, p)
    BY <1>2 DEF ReadBgFg
  <2>2. p \in Pids \union {NoPid}
    BY DEF Listed, Jobs
  <2>3. slot' \in Slots \union {NoSlot}
    BY <2>1, <2>2, GetJobPidFinds
  <2> QED
    BY <1>2, <2>3 DEF ReadBgFg, PCs
<1>3. CASE Quit
  BY <1>3 DEF Quit, PCs
<1>4. CASE Fork
  BY <1>4 DEF Fork, PCs, ProcStates
<1>5. CASE ForkFails
  BY <1>5 DEF ForkFails, PCs
<1>6. CASE AddJob
  <2>1. jobs' \in [Slots -> Jobs]
    BY <1>6, AddJobEffect DEF AddJob, JobStates
  <2> QED
    BY <1>6, <2>1 DEF AddJob, PCs
<1>7. CASE Unblock
  BY <1>7 DEF Unblock, PCs
<1>8. CASE WaitFg
  <2>1. slot' \in Slots \union {NoSlot}
    BY <1>8, GetJobPidFinds DEF WaitFg
  <2> QED
    BY <1>8, <2>1 DEF WaitFg, PCs
<1>9. CASE PollDone
  BY <1>9 DEF PollDone, PCs
<1>10. CASE SetState
  <2>1. slot \in Slots
    BY <1>10 DEF SetState, ForegroundInv
  <2>2. [jobs[slot] EXCEPT !.state = want] \in Jobs
    BY <2>1 DEF Jobs, JobStates
  <2>3. jobs' \in [Slots -> Jobs]
    BY <1>10, <2>1, <2>2 DEF SetState
  <2> QED
    BY <1>10, <2>3 DEF SetState, PCs
<1>11. CASE Continue
  <2>1. slot \in Slots
    BY <1>11 DEF Continue, ForegroundInv
  <2>2. jobs[slot].pid \in Pids \union {NoPid}
    BY <2>1 DEF Jobs
  <2>3. /\ sigs' \in [Pids -> SUBSET Keyboard]
        /\ unseen' \subseteq Pids
        /\ proc' \in [Pids -> ProcStates]
        /\ pending' \subseteq Signals
    BY <1>11, SignalsType DEF Continue, ContGroup, ProcStates
  <2>4. /\ pc' \in PCs
        /\ want' \in {"FG", "BG"}
        /\ cur' \in Pids \union {NoPid}
        /\ slot' \in Slots \union {NoSlot}
    BY <1>11, <2>2 DEF Continue, PCs
  <2> QED
    BY <1>11, <2>3, <2>4 DEF Continue
<1> QED
  BY <1>1, <1>2, <1>3, <1>4, <1>5, <1>6, <1>7, <1>8, <1>9, <1>10, <1>11 DEF Main

\* Returning from a handler keeps the types of what the handlers remember.
LEMMA ReturnsType ==
  ASSUME TypeOK, NEW s \in Signals, stack # <<>>, HandlerReturns(s)
  PROVE  hnd' \in [Signals -> Handlers] /\ stack' \in Seq(Signals)
<1>1. Idle \in Handlers
  BY DEF Idle, Handlers
<1> QED
  BY <1>1 DEF HandlerReturns, TypeOK

LEMMA HandlerType ==
  ASSUME TypeOK, HandlerInv, Handler
  PROVE  TypeOK'
<1> USE SignalsType DEF Running, shell, kernel
<1>1. ASSUME NEW s \in Keyboard, KeyFindFg(s) PROVE TypeOK'
  <2>1. fgpid(jobs) \in Pids \union {NoPid}
    BY FgPidType DEF TypeOK
  <2>2. [at |-> "act", pid |-> fgpid(jobs), stopped |-> FALSE] \in Handlers
    BY <2>1 DEF Handlers
  <2>3. hnd' \in [Signals -> Handlers] /\ stack' \in Seq(Signals)
    BY <1>1, <2>2, ReturnsType DEF KeyFindFg, TypeOK
  <2> QED
    BY <1>1, <2>3 DEF KeyFindFg, TypeOK
<1>2. ASSUME NEW s \in Keyboard, KeyKill(s) PROVE TypeOK'
  <2>1. hnd' \in [Signals -> Handlers] /\ stack' \in Seq(Signals)
    BY <1>2, ReturnsType DEF KeyKill
  <2>2. sigs' \in [Pids -> SUBSET Keyboard]
    BY <1>2 DEF KeyKill, KillGroup, TypeOK
  <2> QED
    BY <1>2, <2>1, <2>2 DEF KeyKill, TypeOK
<1>3. CASE ChldWait
  <2>1. CASE Reportable = {}
    BY <1>3, <2>1, ReturnsType DEF ChldWait, TypeOK
  <2>2. CASE Reportable # {}
    <3>1. PICK p \in Reportable :
            /\ hnd' = [hnd EXCEPT !["CHLD"] = [at |-> "act", pid |-> p,
                                               stopped |-> proc[p] # "zombie"]]
            /\ proc' = IF proc[p] = "zombie" THEN [proc EXCEPT ![p] = "none"] ELSE proc
            /\ unseen' = unseen \ {p}
            /\ UNCHANGED <<stack, sigs>>
      BY <1>3, <2>2 DEF ChldWait
    <3>2. p \in Pids
      BY DEF Reportable, TypeOK
    <3>3. [at |-> "act", pid |-> p, stopped |-> proc[p] # "zombie"] \in Handlers
      BY <3>2 DEF Handlers
    <3> QED
      BY <1>3, <3>1, <3>2, <3>3 DEF ChldWait, TypeOK, ProcStates
  <2> QED
    BY <2>1, <2>2
<1>4. CASE ChldDelete
  <2>1. hnd["CHLD"].pid \in Pids
    BY <1>4 DEF ChldDelete, HandlerInv
  <2>2. jobs' \in [Slots -> Jobs]
    BY <1>4, <2>1, DeleteJobEffect DEF ChldDelete, TypeOK
  <2> QED
    BY <1>4, <2>2, ReturnsType DEF ChldDelete, TypeOK
<1>5. CASE ChldStop
  <2>1. hnd["CHLD"].pid \in Pids
    BY <1>5 DEF ChldStop, HandlerInv
  <2>2. hnd' \in [Signals -> Handlers] /\ stack' \in Seq(Signals)
    BY <1>5, ReturnsType DEF ChldStop
  <2> DEFINE i == getjobpid(jobs, hnd["CHLD"].pid)
  <2>3. CASE i = NoSlot
    <3>1. pc' = "crashed" /\ UNCHANGED jobs
      BY <1>5, <2>3 DEF ChldStop
    <3> QED
      BY <1>5, <2>2, <3>1 DEF ChldStop, TypeOK, PCs
  <2>4. CASE i # NoSlot
    <3>1. i \in Slots
      BY <2>1, <2>4, GetJobPidFinds DEF TypeOK
    <3>2. jobs' = [jobs EXCEPT ![i].state = "ST"] /\ UNCHANGED pc
      BY <1>5, <2>4 DEF ChldStop
    <3> HIDE DEF i
    <3>3. [jobs[i] EXCEPT !.state = "ST"] \in Jobs
      BY <3>1 DEF TypeOK, Jobs, JobStates
    <3>4. jobs' \in [Slots -> Jobs]
      BY <3>1, <3>2, <3>3 DEF TypeOK
    <3> QED
      BY <1>5, <2>2, <3>2, <3>4 DEF ChldStop, TypeOK
  <2> QED
    BY <2>3, <2>4
<1> QED
  BY <1>1, <1>2, <1>3, <1>4, <1>5 DEF Handler

\* What the world outside does to the shell: nothing but raise a signal, and a
\* pid neither comes into use nor is freed.
Untouched == UNCHANGED <<shell, jobs, hnd, stack>>
SamePids  == \A p \in Pids : proc'[p] = "none" <=> proc[p] = "none"

LEMMA WorldEffect ==
  ASSUME TypeOK, World
  PROVE  TypeOK' /\ Untouched /\ SamePids
<1> USE SignalsType DEF TypeOK, Untouched, SamePids, shell
<1>1. ASSUME NEW s \in Keyboard, Type(s) PROVE TypeOK' /\ Untouched /\ SamePids
  BY <1>1 DEF Type
<1>2. ASSUME NEW p \in Pids, Setpgid(p) PROVE TypeOK' /\ Untouched /\ SamePids
  BY <1>2 DEF Setpgid, ProcStates
<1>3. ASSUME NEW p \in Pids, Execve(p) PROVE TypeOK' /\ Untouched /\ SamePids
  BY <1>3 DEF Execve, ProcStates
<1>4. ASSUME NEW p \in Pids, Exit(p) PROVE TypeOK' /\ Untouched /\ SamePids
  BY <1>4 DEF Exit, ProcStates
<1>5. ASSUME NEW p \in Pids, Stop(p) PROVE TypeOK' /\ Untouched /\ SamePids
  BY <1>5 DEF Stop, ProcStates
<1>6. ASSUME NEW p \in Pids, NEW s \in Keyboard, Swallow(p, s)
      PROVE  TypeOK' /\ Untouched /\ SamePids
  BY <1>6 DEF Swallow
<1> QED
  BY <1>1, <1>2, <1>3, <1>4, <1>5, <1>6 DEF World

LEMMA DeliverType ==
  ASSUME TypeOK, NEW s \in Signals, Deliver(s)
  PROVE  TypeOK'
<1>1. Started \in Handlers
  BY DEF Started, Handlers
<1>2. hnd' \in [Signals -> Handlers] /\ stack' \in Seq(Signals)
  BY <1>1 DEF Deliver, TypeOK
<1> QED
  BY <1>2 DEF Deliver, TypeOK, shell, kernel

------------------------------------------------------------------------------
(***************************************************************************)
(* The stack of handlers.                                                  *)
(***************************************************************************)
\* The read/eval loop runs only while no handler is active.
LEMMA MainQuiet ==
  ASSUME Main
  PROVE  stack = <<>> /\ UNCHANGED <<hnd, stack>>
  BY DEF Main, MainAt, ReadCommand, ReadBgFg, Quit, Fork, ForkFails, AddJob, Unblock,
     WaitFg, PollDone, SetState, Continue

LEMMA EmptyStackIdle ==
  ASSUME TypeOK, StackInv, stack = <<>>
  PROVE  \A s \in Signals : hnd[s].at = "idle"
<1>1. Len(stack) = 0
  OBVIOUS
<1> QED
  BY <1>1 DEF StackInv

LEMMA DeliverStack ==
  ASSUME TypeOK, StackInv, NEW s \in Signals, Deliver(s)
  PROVE  StackInv'
<1>1. stack \in Seq(Signals) /\ stack' = <<s>> \o stack
  BY DEF Deliver, TypeOK
<1>2. /\ Len(stack) \in Nat
      /\ Len(stack') = Len(stack) + 1
      /\ stack'[1] = s
      /\ \A i \in 1 .. Len(stack) : stack'[i + 1] = stack[i]
  BY <1>1
<1>3. \A i \in 1 .. Len(stack') : i = 1 \/ (i - 1 \in 1 .. Len(stack) /\ stack'[i] = stack[i - 1])
  <2>1. \A i \in 1 .. Len(stack') : i # 1 => i - 1 \in 1 .. Len(stack) /\ (i - 1) + 1 = i
    BY <1>2
  <2> QED
    BY <1>2, <2>1
<1>4. \A i \in 1 .. Len(stack) : i + 1 \in 1 .. Len(stack')
  BY <1>2
<1>5. hnd[s].at = "idle" /\ hnd' = [hnd EXCEPT ![s] = Started]
  BY DEF Deliver, Deliverable
<1>6. \A i \in 1 .. Len(stack) : stack[i] # s
  BY <1>5 DEF StackInv
<1>7. ASSUME NEW t \in Signals
      PROVE  hnd'[t].at # "idle" <=> \E i \in 1 .. Len(stack') : stack'[i] = t
  <2>1. CASE t = s
    <3>1. 1 \in 1 .. Len(stack')
      BY <1>2
    <3> QED
      BY <1>2, <1>5, <2>1, <3>1 DEF Started, TypeOK
  <2>2. CASE t # s
    <3>1. hnd'[t].at # "idle" <=> \E i \in 1 .. Len(stack) : stack[i] = t
      BY <1>5, <2>2 DEF StackInv, TypeOK
    <3> QED
      BY <1>2, <1>3, <1>4, <2>2, <3>1
  <2> QED
    BY <2>1, <2>2
<1>8. ASSUME NEW i \in 1 .. Len(stack'), NEW k \in 1 .. Len(stack'), stack'[i] = stack'[k]
      PROVE  i = k
  <2>1. CASE i = 1 \/ k = 1
    <3>1. \A j \in 1 .. Len(stack') : j # 1 => stack'[j] # s
      BY <1>3, <1>6
    <3> QED
      BY <1>2, <1>8, <2>1, <3>1
  <2>2. CASE i # 1 /\ k # 1
    <3>1. i - 1 = k - 1
      BY <1>3, <1>8, <2>2 DEF StackInv
    <3> QED
      BY <1>2, <3>1
  <2> QED
    BY <2>1, <2>2
<1> QED
  BY <1>7, <1>8 DEF StackInv

LEMMA ReturnsStack ==
  ASSUME TypeOK, StackInv, NEW s \in Signals, stack # <<>>, Head(stack) = s,
         HandlerReturns(s)
  PROVE  StackInv'
<1>1. /\ stack \in Seq(Signals)
      /\ stack' = Tail(stack)
      /\ hnd' = [hnd EXCEPT ![s] = Idle]
  BY DEF HandlerReturns, TypeOK
<1>2. /\ Len(stack) \in Nat \ {0}
      /\ Len(stack') = Len(stack) - 1
      /\ stack[1] = s
      /\ \A i \in 1 .. Len(stack') : stack'[i] = stack[i + 1]
  BY <1>1
<1>3. \A i \in 1 .. Len(stack') : i + 1 \in 1 .. Len(stack) /\ i + 1 # 1
  BY <1>2
<1>4. 1 \in 1 .. Len(stack)
  BY <1>2
<1>5. \A i \in 1 .. Len(stack') : stack'[i] # s
  BY <1>2, <1>3, <1>4 DEF StackInv
<1>6. \A i \in 1 .. Len(stack) : i = 1 \/ (i - 1 \in 1 .. Len(stack') /\ stack'[i - 1] = stack[i])
  <2>1. \A i \in 1 .. Len(stack) : i # 1 => i - 1 \in 1 .. Len(stack') /\ (i - 1) + 1 = i
    BY <1>2
  <2> QED
    BY <1>2, <2>1
<1>7. ASSUME NEW t \in Signals
      PROVE  hnd'[t].at # "idle" <=> \E i \in 1 .. Len(stack') : stack'[i] = t
  <2>1. CASE t = s
    BY <1>1, <1>5, <2>1 DEF Idle, TypeOK
  <2>2. CASE t # s
    <3>1. hnd'[t].at # "idle" <=> \E i \in 1 .. Len(stack) : stack[i] = t
      BY <1>1, <2>2 DEF StackInv, TypeOK
    <3> QED
      BY <1>2, <1>3, <1>6, <2>2, <3>1
  <2> QED
    BY <2>1, <2>2
<1>8. ASSUME NEW i \in 1 .. Len(stack'), NEW k \in 1 .. Len(stack'), stack'[i] = stack'[k]
      PROVE  i = k
  <2>1. i + 1 \in 1 .. Len(stack) /\ k + 1 \in 1 .. Len(stack)
    BY <1>3
  <2>2. stack[i + 1] = stack[k + 1]
    BY <1>2, <1>8
  <2>3. i + 1 = k + 1
    BY <2>1, <2>2 DEF StackInv
  <2> QED
    BY <1>2, <2>3
<1> QED
  BY <1>7, <1>8 DEF StackInv

\* A handler that goes on to its second step stays where it is on the stack.
LEMMA StaysStack ==
  ASSUME TypeOK, StackInv, NEW s \in Signals, hnd[s].at # "idle",
         NEW h, h.at # "idle", hnd' = [hnd EXCEPT ![s] = h], UNCHANGED stack
  PROVE  StackInv'
<1>1. \A t \in Signals : hnd'[t].at # "idle" <=> hnd[t].at # "idle"
  BY DEF TypeOK
<1> QED
  BY <1>1 DEF StackInv

LEMMA HandlerStack ==
  ASSUME TypeOK, StackInv, Handler
  PROVE  StackInv'
<1> USE SignalsType DEF Running
<1>1. ASSUME NEW s \in Keyboard, KeyFindFg(s) PROVE StackInv'
  <2>1. CASE HandlerReturns(s)
    BY <1>1, <2>1, ReturnsStack DEF KeyFindFg
  <2>2. CASE ~HandlerReturns(s)
    <3> DEFINE h == [at |-> "act", pid |-> fgpid(jobs), stopped |-> FALSE]
    <3>1. hnd' = [hnd EXCEPT ![s] = h] /\ UNCHANGED stack /\ hnd[s].at # "idle"
      BY <1>1, <2>2 DEF KeyFindFg
    <3>2. h.at # "idle"
      OBVIOUS
    <3> HIDE DEF h
    <3> QED
      BY <3>1, <3>2, StaysStack
  <2> QED
    BY <2>1, <2>2
<1>2. ASSUME NEW s \in Keyboard, KeyKill(s) PROVE StackInv'
  BY <1>2, ReturnsStack DEF KeyKill
<1>3. CASE ChldWait
  <2>1. CASE Reportable = {}
    BY <1>3, <2>1, ReturnsStack DEF ChldWait
  <2>2. CASE Reportable # {}
    <3>1. PICK p \in Reportable :
            /\ hnd' = [hnd EXCEPT !["CHLD"] = [at |-> "act", pid |-> p,
                                               stopped |-> proc[p] # "zombie"]]
            /\ UNCHANGED stack
      BY <1>3, <2>2 DEF ChldWait
    <3> DEFINE h == [at |-> "act", pid |-> p, stopped |-> proc[p] # "zombie"]
    <3>2. hnd' = [hnd EXCEPT !["CHLD"] = h] /\ h.at # "idle"
      BY <3>1
    <3>3. hnd["CHLD"].at # "idle"
      BY <1>3 DEF ChldWait
    <3> HIDE DEF h
    <3> QED
      BY <3>1, <3>2, <3>3, StaysStack
  <2> QED
    BY <2>1, <2>2
<1>4. CASE ChldDelete
  BY <1>4, ReturnsStack DEF ChldDelete
<1>5. CASE ChldStop
  BY <1>5, ReturnsStack DEF ChldStop
<1> QED
  BY <1>1, <1>2, <1>3, <1>4, <1>5 DEF Handler

------------------------------------------------------------------------------
(***************************************************************************)
(* The list and the children, step by step.                                *)
(***************************************************************************)
Rest == Distinct(jobs) /\ JobsAreChildren /\ MaskInv /\ HandlerInv /\ ForegroundInv

LEMMA InitInv == Init => ShellInv
<1> SUFFICES ASSUME Init PROVE ShellInv
  OBVIOUS
<1>1. TypeOK
  BY InitType
<1>2. Listed(jobs) = {} /\ FgSlots(jobs) = {} /\ Distinct(jobs)
  BY DEF Init, initjobs, clearjob, Listed, FgSlots, Distinct
<1>3. StackInv
  BY DEF Init, StackInv, Idle
<1>4. JobsAreChildren /\ MaskInv /\ HandlerInv /\ ForegroundInv
  BY <1>2, SignalsType DEF Init, JobsAreChildren, MaskInv, HandlerInv, ForegroundInv, Idle
<1> QED
  BY <1>1, <1>2, <1>3, <1>4 DEF ShellInv

LEMMA WorldRest ==
  ASSUME ShellInv, Untouched, SamePids
  PROVE  Rest' /\ StackInv'
<1> USE DEF ShellInv, Untouched, SamePids, shell
<1>1. Distinct(jobs)' /\ StackInv'
  BY DEF Distinct, StackInv
<1>2. JobsAreChildren'
  BY DEF JobsAreChildren, Listed, TypeOK, Jobs
<1>3. MaskInv'
  BY DEF MaskInv
<1>4. HandlerInv'
  BY SignalsType DEF HandlerInv, WaitingFor, Alive
<1>5. ForegroundInv'
  BY DEF ForegroundInv, Alive
<1> QED
  BY <1>1, <1>2, <1>3, <1>4, <1>5 DEF Rest

LEMMA DeliverRest ==
  ASSUME ShellInv, NEW s \in Signals, Deliver(s)
  PROVE  Rest'
<1> USE DEF ShellInv
<1>1. /\ UNCHANGED <<pc, want, cur, slot, jobs, proc>>
      /\ hnd[s].at = "idle"
      /\ s = "CHLD" => pc \notin BlockedAt
      /\ hnd' = [hnd EXCEPT ![s] = Started]
  BY DEF Deliver, Deliverable, shell, kernel
<1>2. \A t \in Signals : hnd'[t] = IF t = s THEN Started ELSE hnd[t]
  BY <1>1 DEF TypeOK
<1>3. JobsAreChildren'
  BY <1>1, <1>2, SignalsType DEF JobsAreChildren
<1>4. MaskInv'
  BY <1>1, <1>2, SignalsType DEF MaskInv
<1>5. HandlerInv'
  BY <1>1, <1>2, SignalsType DEF HandlerInv, Started, WaitingFor, Alive
<1> QED
  BY <1>1, <1>3, <1>4, <1>5 DEF Rest, ForegroundInv, Alive, Distinct

LEMMA SigquitInv ==
  ASSUME ShellInv, Sigquit
  PROVE  ShellInv'
<1> USE DEF ShellInv, Sigquit, kernel
<1>1. TypeOK'
  BY DEF TypeOK, PCs
<1>2. StackInv' /\ Distinct(jobs)' /\ JobsAreChildren'
  BY DEF StackInv, Distinct, JobsAreChildren
<1>3. MaskInv' /\ HandlerInv' /\ ForegroundInv'
  BY DEF MaskInv, BlockedAt, HandlerInv, ForegroundInv, Alive
<1> QED
  BY <1>1, <1>2, <1>3

\* While no handler is active every job on the list is an unreaped child.
LEMMA QuietChildren ==
  ASSUME ShellInv, stack = <<>>
  PROVE  /\ \A s \in Signals : hnd[s].at = "idle"
         /\ \A p \in Listed(jobs) : proc[p] # "none"
<1>1. \A s \in Signals : hnd[s].at = "idle"
  BY EmptyStackIdle DEF ShellInv
<1> QED
  BY <1>1, SignalsType DEF ShellInv, JobsAreChildren

\* What a step of the loop has to preserve, its handlers being idle.
LEMMA MainReduce ==
  ASSUME ShellInv, Main,
         Distinct(jobs)', \A p \in Listed(jobs') : proc'[p] # "none",
         pc' = "addjob" /\ cur' \in Pids => proc'[cur'] # "none" /\ cur' \notin Listed(jobs'),
         ForegroundInv'
  PROVE  Rest'
<1>1. \A s \in Signals : hnd'[s].at = "idle"
  BY MainQuiet, QuietChildren
<1> QED
  BY <1>1, SignalsType DEF Rest, JobsAreChildren, MaskInv, HandlerInv

\* The steps of the loop that leave the list and the process table alone.
LEMMA MainPlain ==
  ASSUME ShellInv,
         ReadCommand \/ ReadBgFg \/ Quit \/ ForkFails \/ Unblock \/ WaitFg \/ PollDone
  PROVE  Rest'
<1> USE DEF MainAt, kernel
<1>1. Main /\ stack = <<>> /\ UNCHANGED <<jobs, proc>>
  BY DEF Main, ReadCommand, ReadBgFg, Quit, ForkFails, Unblock, WaitFg, PollDone
<1>2. Distinct(jobs)' /\ \A p \in Listed(jobs') : proc'[p] # "none"
  BY <1>1, QuietChildren DEF ShellInv, Distinct
<1>3. pc' = "addjob" => cur' \notin Pids
  BY NoPidAssumption
  DEF ReadCommand, ReadBgFg, Quit, ForkFails, Unblock, WaitFg, PollDone, Return
<1>4. ForegroundInv'
  <2> USE DEF ShellInv, Alive
  <2>1. CASE ReadCommand
    BY <2>1 DEF ReadCommand, ForegroundInv
  <2>2. CASE ReadBgFg
    <3>1. PICK p \in Listed(jobs) : slot' = getjobpid(jobs, p)
      BY <2>2 DEF ReadBgFg
    <3>2. p \in Pids \union {NoPid}
      BY DEF Listed, TypeOK, Jobs
    <3>3. slot' \in Slots
      BY <3>1, <3>2, GetJobPidFinds DEF TypeOK
    <3> QED
      BY <2>2, <3>3 DEF ReadBgFg, ForegroundInv
  <2>3. CASE Quit
    BY <2>3 DEF Quit, ForegroundInv
  <2>4. CASE ForkFails
    BY <2>4 DEF ForkFails, ForegroundInv
  <2>5. CASE Unblock
    BY <2>5 DEF Unblock, Return, ForegroundInv
  <2>6. CASE WaitFg
    <3>1. slot' = getjobpid(jobs, cur) /\ UNCHANGED <<want, cur, jobs>>
      BY <2>6 DEF WaitFg
    <3>2. CASE slot' = NoSlot
      BY <2>6, <3>1, <3>2 DEF WaitFg, ForegroundInv
    <3>3. CASE slot' # NoSlot
      <4>1. slot' \in Slots /\ jobs[slot'].pid = cur /\ cur # NoPid
        BY <3>1, <3>3, GetJobPidFinds DEF TypeOK, Listed
      <4>2. \A i \in Slots : jobs[i].pid = cur => i = slot'
        BY <4>1 DEF Distinct
      <4>3. FgSlots(jobs) \subseteq Slots
        BY DEF FgSlots
      <4> QED
        BY <2>6, <3>1, <3>3, <4>1, <4>2, <4>3 DEF WaitFg, ForegroundInv
    <3> QED
      BY <3>2, <3>3
  <2>7. CASE PollDone
    <3>1. slot \notin FgSlots(jobs)
      BY <2>7 DEF PollDone, FgSlots
    <3> QED
      BY <2>7, <3>1 DEF PollDone, Return, ForegroundInv
  <2> QED
    BY <2>1, <2>2, <2>3, <2>4, <2>5, <2>6, <2>7
<1> QED
  BY <1>1, <1>2, <1>3, <1>4, MainReduce

LEMMA ForkRest ==
  ASSUME ShellInv, Fork
  PROVE  Rest'
<1>1. /\ Main
      /\ stack = <<>>
      /\ pc = "fork"
      /\ UNCHANGED jobs
      /\ pc' = "addjob"
  BY DEF Fork, Main, MainAt
<1>2. PICK p \in Pids : /\ proc[p] = "none"
                        /\ cur' = p
                        /\ proc' = [proc EXCEPT ![p] = "forked"]
  BY DEF Fork
<1>3. p \notin Listed(jobs) /\ \A q \in Listed(jobs) : proc[q] # "none"
  BY <1>1, <1>2, QuietChildren
<1>4. Listed(jobs) \subseteq Pids
  BY DEF ShellInv, TypeOK, Listed, Jobs
<1>5. \A q \in Listed(jobs') : proc'[q] # "none"
  BY <1>1, <1>2, <1>3, <1>4 DEF ShellInv, TypeOK
<1>6. proc'[cur'] # "none" /\ cur' \notin Listed(jobs')
  BY <1>1, <1>2, <1>3 DEF ShellInv, TypeOK
<1>7. Distinct(jobs)'
  BY <1>1 DEF ShellInv, Distinct
<1>8. ForegroundInv'
  BY <1>1 DEF ShellInv, ForegroundInv, Alive
<1> QED
  BY <1>1, <1>5, <1>6, <1>7, <1>8, MainReduce

LEMMA AddJobRest ==
  ASSUME ShellInv, AddJob
  PROVE  Rest'
<1>1. /\ Main
      /\ stack = <<>>
      /\ pc = "addjob"
      /\ pc' = "unblock"
      /\ jobs' = addjob(jobs, cur, want)
      /\ UNCHANGED <<want, cur, slot, proc>>
  BY DEF AddJob, Main, MainAt, kernel
<1>2. /\ jobs \in [Slots -> Jobs]
      /\ cur \in Pids \union {NoPid}
      /\ want \in JobStates
  BY DEF ShellInv, TypeOK, JobStates
<1>3. cur \notin Listed(jobs) /\ (cur \in Pids => proc[cur] # "none")
  BY <1>1, <1>2 DEF ShellInv, MaskInv, Listed
<1>4. Distinct(jobs') /\ Listed(jobs') \subseteq Listed(jobs) \union {cur}
  BY <1>1, <1>2, <1>3, AddJobDistinct DEF ShellInv
<1>5. NoPid \notin Listed(jobs')
  BY DEF Listed
<1>6. \A p \in Listed(jobs') : proc'[p] # "none"
  BY <1>1, <1>2, <1>3, <1>4, <1>5, QuietChildren
<1>7. ForegroundInv'
  <2>1. \A i \in FgSlots(jobs) : jobs[i].pid = NoPid
    BY <1>1 DEF ShellInv, ForegroundInv, Alive
  <2>2. CASE jobs' = jobs
    BY <1>1, <2>1, <2>2 DEF ForegroundInv
  <2>3. CASE \E i \in FreeSlots(jobs) :
               jobs' = [jobs EXCEPT ![i] = [pid |-> cur, state |-> want]]
    <3>1. PICK i \in Slots : jobs' = [jobs EXCEPT ![i] = [pid |-> cur, state |-> want]]
      BY <2>3 DEF FreeSlots
    <3>2. \A k \in FgSlots(jobs') : k = i \/ (k \in FgSlots(jobs) /\ jobs'[k] = jobs[k])
      BY <1>2, <3>1 DEF FgSlots
    <3>3. i \in FgSlots(jobs') => want = "FG" /\ jobs'[i].pid = cur
      BY <1>2, <3>1 DEF FgSlots
    <3> QED
      BY <1>1, <2>1, <3>2, <3>3 DEF ForegroundInv
  <2> QED
    BY <1>1, <1>2, <2>2, <2>3, AddJobEffect
<1> QED
  BY <1>1, <1>4, <1>6, <1>7, MainReduce

LEMMA SetStateRest ==
  ASSUME ShellInv, SetState
  PROVE  Rest'
<1>1. /\ Main
      /\ stack = <<>>
      /\ pc = "setstate"
      /\ pc' = "cont"
      /\ jobs' = [jobs EXCEPT ![slot].state = want]
      /\ UNCHANGED <<want, cur, slot, proc>>
  BY DEF SetState, Main, MainAt, kernel
<1>2. slot \in Slots /\ jobs \in [Slots -> Jobs]
  BY <1>1 DEF ShellInv, ForegroundInv, TypeOK
<1>3. \A i \in Slots : jobs'[i].pid = jobs[i].pid
  BY <1>1, <1>2 DEF Jobs
<1>4. Distinct(jobs)' /\ Listed(jobs') = Listed(jobs)
  BY <1>3 DEF ShellInv, Distinct, Listed
<1>5. \A i \in Slots : i # slot => jobs'[i] = jobs[i]
  BY <1>1, <1>2
<1>6. jobs'[slot].state = want
  BY <1>1, <1>2 DEF Jobs
<1>7. \A i \in FgSlots(jobs) : jobs[i].pid = NoPid
  BY <1>1 DEF ShellInv, ForegroundInv, Alive
<1>8. \A i \in FgSlots(jobs') : i \in Slots /\ (i = slot \/ jobs'[i].pid = NoPid)
  BY <1>5, <1>7 DEF FgSlots
<1>9. slot \in FgSlots(jobs') => want = "FG"
  BY <1>6 DEF FgSlots
<1>10. ForegroundInv'
  BY <1>1, <1>2, <1>8, <1>9 DEF ForegroundInv
<1> QED
  BY <1>1, <1>4, <1>10, QuietChildren, MainReduce

LEMMA ContinueRest ==
  ASSUME ShellInv, Continue
  PROVE  Rest'
<1>1. /\ Main
      /\ stack = <<>>
      /\ pc = "cont"
      /\ UNCHANGED jobs
      /\ pc' # "addjob"
  BY DEF Continue, Main, MainAt, Return
<1>2. \A p \in Pids : proc[p] # "none" => proc'[p] # "none"
  BY DEF Continue, ContGroup, ShellInv, TypeOK
<1>3. Listed(jobs) \subseteq Pids
  BY DEF ShellInv, TypeOK, Listed, Jobs
<1>4. Distinct(jobs)' /\ \A p \in Listed(jobs') : proc'[p] # "none"
  BY <1>1, <1>2, <1>3, QuietChildren DEF ShellInv, Distinct
<1>5. ForegroundInv'
  BY <1>1 DEF ShellInv, ForegroundInv, Continue, Return, Alive
<1> QED
  BY <1>1, <1>4, <1>5, MainReduce

\* A handler that returns is idle, and the other handlers are as they were.
LEMMA ReturnsIdle ==
  ASSUME TypeOK, NEW s \in Signals, HandlerReturns(s)
  PROVE  /\ hnd'[s].at = "idle"
         /\ \A t \in Signals : t # s => hnd'[t] = hnd[t]
  BY DEF HandlerReturns, TypeOK, Idle

LEMMA KeyFindFgRest ==
  ASSUME ShellInv, NEW s \in Keyboard, KeyFindFg(s)
  PROVE  Rest'
<1> USE SignalsType DEF ShellInv
<1>1. /\ UNCHANGED <<pc, want, cur, slot, jobs, proc>>
      /\ Alive
      /\ s \in Signals /\ s # "CHLD"
  BY DEF KeyFindFg, shell, kernel, Running
<1>2. \A t \in Signals : t # s => hnd'[t] = hnd[t]
  BY <1>1, ReturnsIdle DEF KeyFindFg, TypeOK
<1>3. hnd'[s].at = "act" => hnd'[s].pid = fgpid(jobs) /\ fgpid(jobs) # NoPid
  <2>1. CASE fgpid(jobs) = NoPid
    BY <1>1, <2>1, ReturnsIdle DEF KeyFindFg
  <2>2. CASE fgpid(jobs) # NoPid
    BY <1>1, <2>2 DEF KeyFindFg, TypeOK
  <2> QED
    BY <2>1, <2>2
<1>4. fgpid(jobs) # NoPid => fgpid(jobs) \in Pids /\ WaitingFor(fgpid(jobs))
  BY <1>1, FgPidType DEF TypeOK, ForegroundInv, WaitingFor
<1>5. JobsAreChildren' /\ MaskInv'
  BY <1>1, <1>2 DEF JobsAreChildren, MaskInv
<1>6. HandlerInv'
  <2>1. hnd'["CHLD"] = hnd["CHLD"]
    BY <1>1, <1>2
  <2>2. ASSUME NEW t \in Signals, hnd'[t].at = "act" PROVE hnd'[t].pid \in Pids
    BY <1>2, <1>3, <1>4, <2>2 DEF HandlerInv
  <2>3. ASSUME NEW t \in Keyboard, hnd'[t].at = "act", Alive'
        PROVE  WaitingFor(hnd[t].pid)' \/ proc'[hnd'[t].pid] = "none"
    <3>1. CASE t = s
      BY <1>1, <1>3, <1>4, <2>3, <3>1 DEF WaitingFor
    <3>2. CASE t # s
      BY <1>1, <1>2, <2>3, <3>2 DEF HandlerInv, WaitingFor, Alive
    <3> QED
      BY <3>1, <3>2
  <2> QED
    BY <1>1, <2>1, <2>2, <2>3 DEF HandlerInv
<1> QED
  BY <1>1, <1>5, <1>6 DEF Rest, Distinct, ForegroundInv, Alive

LEMMA KeyKillRest ==
  ASSUME ShellInv, NEW s \in Keyboard, KeyKill(s)
  PROVE  Rest'
<1> USE SignalsType DEF ShellInv
<1>1. /\ UNCHANGED <<pc, want, cur, slot, jobs, proc>>
      /\ hnd'[s].at = "idle"
      /\ \A t \in Signals : t # s => hnd'[t] = hnd[t]
  BY ReturnsIdle DEF KeyKill, shell
<1>2. s # "CHLD"
  OBVIOUS
<1>3. JobsAreChildren' /\ MaskInv'
  BY <1>1, <1>2 DEF JobsAreChildren, MaskInv
<1>4. HandlerInv'
  BY <1>1, <1>2 DEF HandlerInv, WaitingFor, Alive
<1> QED
  BY <1>1, <1>3, <1>4 DEF Rest, Distinct, ForegroundInv, Alive

LEMMA ChldWaitRest ==
  ASSUME ShellInv, ChldWait
  PROVE  Rest'
<1> USE SignalsType DEF ShellInv
<1>1. /\ UNCHANGED <<pc, want, cur, slot, jobs>>
      /\ hnd["CHLD"].at = "start"
  BY DEF ChldWait, Running, shell
<1>2. CASE Reportable = {}
  <2>1. /\ UNCHANGED proc
        /\ hnd'["CHLD"].at = "idle"
        /\ \A t \in Signals : t # "CHLD" => hnd'[t] = hnd[t]
    BY <1>2, ReturnsIdle DEF ChldWait, kernel
  <2>2. JobsAreChildren' /\ MaskInv' /\ HandlerInv'
    BY <1>1, <2>1 DEF JobsAreChildren, MaskInv, HandlerInv, WaitingFor, Alive
  <2> QED
    BY <1>1, <2>2 DEF Rest, Distinct, ForegroundInv, Alive
<1>3. CASE Reportable # {}
  <2>1. PICK p \in Reportable :
          /\ hnd' = [hnd EXCEPT !["CHLD"] = [at |-> "act", pid |-> p,
                                             stopped |-> proc[p] # "zombie"]]
          /\ proc' = IF proc[p] = "zombie" THEN [proc EXCEPT ![p] = "none"] ELSE proc
    BY <1>3 DEF ChldWait
  <2>2. p \in Pids
    BY DEF Reportable, TypeOK
  <2>3. /\ hnd'["CHLD"].at = "act"
        /\ hnd'["CHLD"].pid = p
        /\ hnd'["CHLD"].stopped <=> proc[p] # "zombie"
        /\ \A t \in Signals : t # "CHLD" => hnd'[t] = hnd[t]
    BY <2>1 DEF TypeOK
  <2>4. /\ proc[p] = "zombie" => proc'[p] = "none"
        /\ \A q \in Pids : q # p => proc'[q] = proc[q]
        /\ \A q \in Pids : proc[q] = "none" => proc'[q] = "none"
        /\ proc[p] # "zombie" => proc' = proc
    BY <2>1, <2>2 DEF TypeOK
  <2>5. JobsAreChildren'
    <3>1. Listed(jobs) \subseteq Pids
      BY DEF TypeOK, Listed, Jobs
    <3> QED
      BY <1>1, <2>3, <2>4, <3>1 DEF JobsAreChildren
  <2>6. MaskInv'
    BY <1>1, <2>3 DEF MaskInv, BlockedAt
  <2>7. HandlerInv'
    BY <1>1, <2>2, <2>3, <2>4 DEF HandlerInv, WaitingFor, Alive
  <2> QED
    BY <1>1, <2>5, <2>6, <2>7 DEF Rest, Distinct, ForegroundInv, Alive
<1> QED
  BY <1>2, <1>3

LEMMA ChldDeleteRest ==
  ASSUME ShellInv, ChldDelete
  PROVE  Rest'
<1> USE SignalsType DEF ShellInv
<1> DEFINE p == hnd["CHLD"].pid
<1>1. /\ UNCHANGED <<pc, want, cur, slot, proc>>
      /\ hnd["CHLD"].at = "act" /\ ~hnd["CHLD"].stopped
      /\ jobs' = deletejob(jobs, p)
      /\ hnd'["CHLD"].at = "idle"
      /\ \A t \in Signals : t # "CHLD" => hnd'[t] = hnd[t]
  BY ReturnsIdle DEF ChldDelete, Running, shell, kernel
<1>2. p \in Pids /\ proc[p] = "none" /\ jobs \in [Slots -> Jobs]
  BY <1>1 DEF HandlerInv, TypeOK
<1> HIDE DEF p
<1>3. Distinct(jobs') /\ Listed(jobs') = Listed(jobs) \ {p}
  BY <1>1, <1>2, DeleteJobDistinct
<1>4. JobsAreChildren'
  BY <1>1, <1>3 DEF JobsAreChildren, p
<1>5. MaskInv'
  BY <1>1 DEF MaskInv, BlockedAt
<1>6. \A i \in Slots : \/ jobs'[i] = jobs[i]
                       \/ jobs[i].pid = p /\ jobs'[i].pid = NoPid /\ i \notin FgSlots(jobs')
  BY <1>1, <1>2, DeleteJobEffect DEF PidSlots, clearjob, FgSlots
<1>7. ForegroundInv'
  <2>1. \A i \in FgSlots(jobs') : i \in FgSlots(jobs) /\ jobs'[i] = jobs[i]
    BY <1>6 DEF FgSlots
  <2> QED
    BY <1>1, <2>1 DEF ForegroundInv, Alive
<1>8. HandlerInv'
  <2>1. ASSUME NEW t \in Keyboard, hnd'[t].at = "act", Alive'
        PROVE  WaitingFor(hnd[t].pid)' \/ proc'[hnd'[t].pid] = "none"
    <3>1. hnd'[t] = hnd[t] /\ hnd[t].at = "act" /\ Alive
      BY <1>1, <2>1 DEF Alive
    <3>2. CASE hnd[t].pid = p
      BY <1>1, <1>2, <3>1, <3>2
    <3>3. CASE hnd[t].pid # p
      <4>1. pc = "cont" => slot \in Slots
        BY DEF ForegroundInv
      <4> QED
        BY <1>1, <1>6, <3>1, <3>3, <4>1 DEF HandlerInv, WaitingFor
    <3> QED
      BY <3>2, <3>3
  <2>2. \A t \in Signals : hnd'[t].at = "act" => hnd'[t].pid \in Pids
    BY <1>1 DEF HandlerInv
  <2> QED
    BY <1>1, <2>1, <2>2 DEF HandlerInv
<1> QED
  BY <1>3, <1>4, <1>5, <1>7, <1>8 DEF Rest

LEMMA ChldStopRest ==
  ASSUME ShellInv, ChldStop
  PROVE  Rest'
<1> USE SignalsType DEF ShellInv
<1> DEFINE g == getjobpid(jobs, hnd["CHLD"].pid)
<1>1. /\ UNCHANGED <<want, cur, slot, proc>>
      /\ hnd["CHLD"].at = "act" /\ hnd["CHLD"].stopped
      /\ \/ pc' = "crashed" /\ UNCHANGED jobs
         \/ jobs' = [jobs EXCEPT ![g].state = "ST"] /\ g # NoSlot /\ UNCHANGED pc
      /\ hnd'["CHLD"].at = "idle"
      /\ \A t \in Signals : t # "CHLD" => hnd'[t] = hnd[t]
  BY ReturnsIdle DEF ChldStop, Running, kernel
<1>2. g # NoSlot => g \in Slots
  BY <1>1, GetJobPidFinds DEF HandlerInv, TypeOK
<1>3. jobs \in [Slots -> Jobs]
  BY DEF TypeOK
<1> HIDE DEF g
<1>4. \A i \in Slots : jobs'[i].pid = jobs[i].pid
  BY <1>1, <1>2, <1>3 DEF Jobs
<1>5. \A i \in FgSlots(jobs') : i \in FgSlots(jobs) /\ jobs'[i].pid = jobs[i].pid
  BY <1>1, <1>2, <1>3 DEF FgSlots, Jobs
<1>6. Distinct(jobs)' /\ Listed(jobs') = Listed(jobs)
  BY <1>4 DEF Distinct, Listed
<1>7. JobsAreChildren'
  BY <1>1, <1>6 DEF JobsAreChildren
<1>8. MaskInv'
  BY <1>1 DEF MaskInv, BlockedAt
<1>9. ForegroundInv'
  BY <1>1, <1>5 DEF ForegroundInv, Alive
<1>10. HandlerInv'
  <2>1. ASSUME NEW t \in Keyboard, hnd'[t].at = "act", Alive'
        PROVE  WaitingFor(hnd[t].pid)' \/ proc'[hnd'[t].pid] = "none"
    <3>1. hnd'[t] = hnd[t] /\ hnd[t].at = "act" /\ Alive /\ UNCHANGED pc
      BY <1>1, <2>1 DEF Alive
    <3>2. pc = "cont" => slot \in Slots
      BY DEF ForegroundInv
    <3> QED
      BY <1>1, <1>4, <3>1, <3>2 DEF HandlerInv, WaitingFor
  <2>2. \A t \in Signals : hnd'[t].at = "act" => hnd'[t].pid \in Pids
    BY <1>1 DEF HandlerInv
  <2> QED
    BY <1>1, <2>1, <2>2 DEF HandlerInv
<1> QED
  BY <1>6, <1>7, <1>8, <1>9, <1>10 DEF Rest

------------------------------------------------------------------------------
(***************************************************************************)
(* The invariant, and what follows from it.                                *)
(***************************************************************************)
LEMMA MainInv ==
  ASSUME ShellInv, Main
  PROVE  ShellInv'
<1>1. TypeOK'
  BY MainType DEF ShellInv
<1>2. StackInv'
  BY MainQuiet DEF ShellInv, StackInv
<1>3. Rest'
  BY MainPlain, ForkRest, AddJobRest, SetStateRest, ContinueRest DEF Main
<1> QED
  BY <1>1, <1>2, <1>3 DEF ShellInv, Rest

LEMMA HandlersInv ==
  ASSUME ShellInv, Handler
  PROVE  ShellInv'
<1>1. TypeOK' /\ StackInv'
  BY HandlerType, HandlerStack DEF ShellInv
<1>2. Rest'
  BY KeyFindFgRest, KeyKillRest, ChldWaitRest, ChldDeleteRest, ChldStopRest DEF Handler
<1> QED
  BY <1>1, <1>2 DEF ShellInv, Rest

LEMMA NextInv ==
  ASSUME ShellInv, [Next]_vars
  PROVE  ShellInv'
<1>1. CASE Main
  BY <1>1, MainInv
<1>2. ASSUME NEW s \in Signals, Deliver(s) PROVE ShellInv'
  <2>1. TypeOK' /\ StackInv'
    BY <1>2, DeliverType, DeliverStack DEF ShellInv
  <2> QED
    BY <1>2, <2>1, DeliverRest DEF ShellInv, Rest
<1>3. CASE Handler
  BY <1>3, HandlersInv
<1>4. CASE Sigquit
  BY <1>4, SigquitInv
<1>5. CASE World
  <2>1. TypeOK' /\ Untouched /\ SamePids
    BY <1>5, WorldEffect DEF ShellInv
  <2> QED
    BY <2>1, WorldRest DEF ShellInv, Rest
<1>6. CASE UNCHANGED vars
  <2>1. TypeOK'
    BY <1>6 DEF ShellInv, TypeOK, vars
  <2>2. Untouched /\ SamePids
    BY <1>6 DEF Untouched, SamePids, shell, vars
  <2> QED
    BY <2>1, <2>2, WorldRest DEF ShellInv, Rest
<1> QED
  BY <1>1, <1>2, <1>3, <1>4, <1>5, <1>6 DEF Next, Done

\* The inductive invariant holds in every state of the shell.
THEOREM ShellInvariant == Spec => []ShellInv
<1>1. Init => ShellInv
  BY InitInv
<1>2. ShellInv /\ [Next]_vars => ShellInv'
  BY NextInv
<1> QED
  BY <1>1, <1>2, PTL DEF Spec

\* The variables of the shell, its kernel and its children keep their types.
THEOREM TypeCorrect == Spec => []TypeOK
<1>1. ShellInv => TypeOK
  BY DEF ShellInv
<1> QED
  BY <1>1, ShellInvariant, PTL

\* The list never holds a process that is no longer a child, but for the one
\* that sigchld_handler is about to delete.
THEOREM NoStaleJobs == Spec => []JobsAreChildren
<1>1. ShellInv => JobsAreChildren
  BY DEF ShellInv
<1> QED
  BY <1>1, ShellInvariant, PTL

\* A step after which the listed processes still are, no new child is there and
\* eval has not left addjob keeps the children listed.
LEMMA StillListed ==
  ASSUME ChildrenListed, Alive' => Alive,
         Listed(jobs) \subseteq Listed(jobs'),
         \A p \in Pids : proc[p] = "none" => proc'[p] = "none",
         pc = "addjob" /\ Alive' => pc' = "addjob" /\ cur' = cur
  PROVE  ChildrenListed'
  BY DEF ChildrenListed

\* The read/eval loop: addjob finds a free slot, because the list holds no
\* process twice and not yet the new one.
LEMMA MainListed ==
  ASSUME ShellInv, ChildrenListed, Main
  PROVE  ChildrenListed'
<1> USE DEF ShellInv
<1>0. jobs \in [Slots -> Jobs] /\ Distinct(jobs)
  BY DEF TypeOK
<1>1. CASE \/ ReadCommand \/ ReadBgFg \/ Quit \/ ForkFails \/ Unblock \/ WaitFg \/ PollDone
  <2>1. UNCHANGED <<jobs, proc>> /\ pc # "addjob" /\ Alive
    BY <1>1 DEF MainAt, kernel, Alive, ReadCommand, ReadBgFg, Quit, ForkFails, Unblock,
       WaitFg, PollDone
  <2> QED
    BY <2>1, StillListed
<1>2. CASE Fork
  <2>1. /\ pc = "fork" /\ pc' = "addjob" /\ UNCHANGED jobs
        /\ \E p \in Pids : cur' = p /\ proc' = [proc EXCEPT ![p] = "forked"]
    BY <1>2 DEF Fork, MainAt
  <2>2. \A q \in Pids : q # cur' => proc'[q] = proc[q]
    BY <2>1 DEF TypeOK
  <2> QED
    BY <2>1, <2>2 DEF ChildrenListed, Alive
<1>3. CASE AddJob
  <2>1. /\ pc = "addjob" /\ pc' = "unblock" /\ UNCHANGED <<cur, proc>>
        /\ jobs' = addjob(jobs, cur, want)
    BY <1>3 DEF AddJob, MainAt, kernel
  <2>2. want \in JobStates
    BY DEF TypeOK, JobStates
  <2>3. SUFFICES ASSUME Cardinality(Pids) <= MAXJOBS, NEW p \in Pids, proc[p] # "none"
                 PROVE  p \in Listed(jobs')
    BY <2>1 DEF ChildrenListed
  <2>4. p \in Listed(jobs) \/ cur = p
    BY <2>1, <2>3 DEF ChildrenListed, Alive
  <2>5. CASE cur \in Pids
    <3>1. cur \notin Listed(jobs)
      BY <2>1, <2>5 DEF MaskInv
    <3>2. Listed(jobs') = Listed(jobs) \union {cur}
      BY <1>0, <2>1, <2>2, <2>3, <2>5, <3>1, AddJobLists
    <3> QED
      BY <2>4, <3>2
  <2>6. CASE cur = NoPid
    <3>1. jobs' = jobs
      BY <2>1, <2>6 DEF addjob
    <3> QED
      BY <2>4, <2>6, <3>1, NoPidAssumption
  <2> QED
    BY <2>5, <2>6 DEF TypeOK
<1>4. CASE SetState
  <2>1. /\ pc = "setstate" /\ pc' = "cont" /\ UNCHANGED proc
        /\ jobs' = [jobs EXCEPT ![slot].state = want]
    BY <1>4 DEF SetState, MainAt, kernel
  <2>2. \A i \in Slots : jobs'[i].pid = jobs[i].pid
    BY <1>0, <2>1 DEF Jobs
  <2>3. Listed(jobs') = Listed(jobs)
    BY <2>2 DEF Listed
  <2> QED
    BY <2>1, <2>3, StillListed DEF Alive
<1>5. CASE Continue
  <2>1. pc = "cont" /\ pc' # "addjob" /\ UNCHANGED jobs
    BY <1>5 DEF Continue, MainAt, Return
  <2>2. \A p \in Pids : proc[p] = "none" => proc'[p] = "none"
    BY <1>5 DEF Continue, ContGroup, TypeOK
  <2> QED
    BY <2>1, <2>2, StillListed DEF Alive
<1> QED
  BY <1>1, <1>2, <1>3, <1>4, <1>5 DEF Main

\* The handlers: sigchld_handler deletes a job once its child has been reaped.
LEMMA HandlersListed ==
  ASSUME ShellInv, ChildrenListed, Handler
  PROVE  ChildrenListed'
<1> USE DEF ShellInv
<1>0. jobs \in [Slots -> Jobs] /\ Distinct(jobs) /\ "CHLD" \in Signals
  BY SignalsType DEF TypeOK
<1>1. CASE \E s \in Keyboard : KeyFindFg(s) \/ KeyKill(s)
  <2>1. UNCHANGED <<pc, cur, jobs, proc>>
    BY <1>1 DEF KeyFindFg, KeyKill, shell, kernel
  <2> QED
    BY <2>1, StillListed DEF Alive
<1>2. CASE ChldWait
  <2>1. UNCHANGED <<pc, cur, jobs>> /\ \A p \in Pids : proc[p] = "none" => proc'[p] = "none"
    BY <1>2 DEF ChldWait, shell, kernel, TypeOK
  <2> QED
    BY <2>1, StillListed DEF Alive
<1>3. CASE ChldDelete
  <2>1. /\ UNCHANGED <<pc, cur, proc>>
        /\ hnd["CHLD"].at = "act" /\ ~hnd["CHLD"].stopped
        /\ jobs' = deletejob(jobs, hnd["CHLD"].pid)
    BY <1>3 DEF ChldDelete, Running, shell, kernel
  <2>2. hnd["CHLD"].pid \in Pids /\ proc[hnd["CHLD"].pid] = "none"
    BY <1>0, <2>1 DEF HandlerInv
  <2>3. Listed(jobs') = Listed(jobs) \ {hnd["CHLD"].pid}
    BY <1>0, <2>1, <2>2, DeleteJobDistinct
  <2> QED
    BY <2>1, <2>2, <2>3 DEF ChildrenListed, Alive
<1>4. CASE ChldStop
  <2> DEFINE i == getjobpid(jobs, hnd["CHLD"].pid)
  <2>1. /\ UNCHANGED <<cur, proc>>
        /\ \/ pc' = "crashed" /\ UNCHANGED jobs
           \/ UNCHANGED pc /\ jobs' = [jobs EXCEPT ![i].state = "ST"]
    BY <1>4 DEF ChldStop, kernel
  <2> HIDE DEF i
  <2>2. \A k \in Slots : jobs'[k].pid = jobs[k].pid
    BY <1>0, <2>1 DEF Jobs
  <2>3. Listed(jobs') = Listed(jobs)
    BY <2>2 DEF Listed
  <2>4. Alive
    BY <1>4 DEF ChldStop, Running
  <2> QED
    BY <2>1, <2>3, <2>4, StillListed DEF Alive
<1> QED
  BY <1>1, <1>2, <1>3, <1>4 DEF Handler

\* With a slot for every process, every child is on the list from addjob on
\* until it is reaped, whichever handlers run in between.
THEOREM EveryChildListed == Spec => []ChildrenListed
<1>1. Init => ChildrenListed
  BY DEF Init, ChildrenListed
<1>2. ShellInv /\ ChildrenListed /\ [Next]_vars => ChildrenListed'
  <2> SUFFICES ASSUME ShellInv, ChildrenListed, [Next]_vars PROVE ChildrenListed'
    OBVIOUS
  <2>1. CASE Main
    BY <2>1, MainListed
  <2>2. CASE Handler
    BY <2>2, HandlersListed
  <2>3. CASE World
    <3>1. Untouched /\ SamePids
      BY <2>3, WorldEffect DEF ShellInv
    <3> QED
      BY <3>1, StillListed DEF Untouched, SamePids, shell, Alive
  <2>4. CASE Sigquit
    BY <2>4 DEF Sigquit, ChildrenListed, Alive
  <2>5. CASE (\E s \in Signals : Deliver(s)) \/ UNCHANGED vars
    <3>1. UNCHANGED <<pc, cur, jobs, proc>>
      BY <2>5 DEF Deliver, shell, kernel, vars
    <3> QED
      BY <3>1, StillListed DEF Alive
  <2> QED
    BY <2>1, <2>2, <2>3, <2>4, <2>5 DEF Next, Done
<1> QED
  BY <1>1, <1>2, ShellInvariant, PTL DEF Spec

\* The slot of a listed process carries its state.
LEMMA StateOfListed ==
  ASSUME NEW js \in [Slots -> Jobs], NEW p \in Listed(js)
  PROVE  \E i \in Slots : js[i].pid = p /\ p # NoPid /\ StateOf(js, p) = js[i].state
<1>1. p \in Pids /\ p # NoPid
  BY DEF Listed, Jobs
<1> QED
  BY <1>1, GetJobPidFinds DEF StateOf

\* At most one job is in the foreground, the one the shell waits for, whatever
\* the handlers do between two steps of eval, do_bgfg and waitfg.
THEOREM OneForeground == Spec => [](AtMostOneFG /\ ForegroundIsWaitedFor)
<1>0. ShellInv => jobs \in [Slots -> Jobs]
  BY DEF ShellInv, TypeOK
<1>1. ShellInv => AtMostOneFG
  <2> SUFFICES ASSUME ShellInv, NEW p \in Listed(jobs), NEW q \in Listed(jobs),
                      StateOf(jobs, p) = "FG", StateOf(jobs, q) = "FG"
               PROVE  p = q
    BY DEF AtMostOneFG
  <2>1. PICK i \in Slots : jobs[i].pid = p /\ p # NoPid /\ jobs[i].state = "FG"
    BY <1>0, StateOfListed
  <2>2. PICK k \in Slots : jobs[k].pid = q /\ q # NoPid /\ jobs[k].state = "FG"
    BY <1>0, StateOfListed
  <2> QED
    BY <2>1, <2>2 DEF ShellInv, ForegroundInv, FgSlots
<1>2. ShellInv => ForegroundIsWaitedFor
  <2> SUFFICES ASSUME ShellInv, NEW p \in Listed(jobs), StateOf(jobs, p) = "FG", Alive
               PROVE  WaitingFor(p)
    BY DEF ForegroundIsWaitedFor
  <2>1. PICK i \in Slots : jobs[i].pid = p /\ p # NoPid /\ jobs[i].state = "FG"
    BY <1>0, StateOfListed
  <2> QED
    BY <2>1 DEF ShellInv, ForegroundInv, FgSlots, WaitingFor
<1> QED
  BY <1>1, <1>2, ShellInvariant, PTL

\* ctrl-c and ctrl-z are forwarded to no child but the one the shell waits for.
THEOREM KeysReachForegroundOnly == Spec => SignalsOnlyForeground
<1> DEFINE A == \A p \in Pids :
                  sigs'[p] \subseteq sigs[p] \/ proc[p] = "forked" \/ WaitingFor(p)
<1>1. ASSUME ShellInv, [Next]_vars PROVE [A]_vars
  <2> USE DEF ShellInv
  <2>1. ASSUME UNCHANGED sigs PROVE A
    BY <2>1
  <2>2. CASE Main
    <3>1. CASE Continue
      <4>1. sigs' = sigs \/ \E p \in Pids : sigs' = [sigs EXCEPT ![p] = @ \ {"TSTP"}]
        BY <3>1 DEF Continue, ContGroup, Reached
      <4> QED
        BY <1>1, <4>1 DEF TypeOK
    <3>2. CASE ~Continue
      BY <2>1, <2>2, <3>2 DEF Main, ReadCommand, ReadBgFg, Quit, Fork, ForkFails,
         AddJob, Unblock, WaitFg, PollDone, SetState, kernel
    <3> QED
      BY <3>1, <3>2
  <2>3. CASE \E s \in Signals : Deliver(s)
    BY <2>1, <2>3 DEF Deliver, kernel
  <2>4. CASE Handler
    <3>1. ASSUME NEW s \in Keyboard, KeyKill(s) PROVE A
      <4>1. s \in Signals /\ hnd[s].at = "act" /\ Alive
        BY <3>1, SignalsType DEF KeyKill, Running
      <4>2. WaitingFor(hnd[s].pid) \/ proc[hnd[s].pid] = "none"
        BY <1>1, <4>1 DEF HandlerInv
      <4>3. \A p \in Pids : sigs'[p] \subseteq sigs[p] \/ (p = hnd[s].pid /\ Reached(p))
        BY <1>1, <3>1 DEF KeyKill, KillGroup, TypeOK
      <4> QED
        BY <4>2, <4>3 DEF Reached
    <3>2. ASSUME NEW s \in Keyboard, KeyFindFg(s) PROVE A
      BY <2>1, <3>2 DEF KeyFindFg, kernel
    <3>3. CASE ChldWait \/ ChldDelete \/ ChldStop
      BY <2>1, <3>3 DEF ChldWait, ChldDelete, ChldStop, kernel
    <3> QED
      BY <2>4, <3>1, <3>2, <3>3 DEF Handler
  <2>5. CASE Sigquit
    BY <2>1, <2>5 DEF Sigquit, kernel
  <2>6. CASE World
    <3>1. ASSUME NEW s \in Keyboard, Type(s) PROVE A
      BY <3>1 DEF Type
    <3>2. ASSUME NEW p \in Pids, Setpgid(p) \/ Execve(p) PROVE A
      BY <2>1, <3>2 DEF Setpgid, Execve
    <3>3. ASSUME NEW p \in Pids, Exit(p) \/ Stop(p) \/ \E s \in Keyboard : Swallow(p, s)
          PROVE  A
      BY <1>1, <3>3 DEF Exit, Stop, Swallow, TypeOK
    <3> QED
      BY <2>6, <3>1, <3>2, <3>3 DEF World
  <2>7. CASE UNCHANGED vars
    BY <2>7
  <2> HIDE DEF A
  <2> QED
    BY <1>1, <2>2, <2>3, <2>4, <2>5, <2>6, <2>7 DEF Next, Done
<1> QED
  BY <1>1, ShellInvariant, PTL DEF Spec, SignalsOnlyForeground

------------------------------------------------------------------------------
(***************************************************************************)
(* The shell implements JobControl.                                        *)
(***************************************************************************)
LEMMA DefinedStep ==
  ASSUME ShellInv, NoInternalError, [Next]_vars
  PROVE  NoInternalError'
<1> USE DEF ShellInv
<1>1. jobs \in [Slots -> Jobs] /\ want \in {"FG", "BG"} /\ cur \in Pids \union {NoPid}
  BY DEF TypeOK
<1>2. CASE UNCHANGED jobs
  BY <1>2 DEF NoInternalError
<1>3. CASE AddJob
  <2>1. jobs' = addjob(jobs, cur, want) /\ want \in JobStates
    BY <1>1, <1>3 DEF AddJob, JobStates
  <2> QED
    BY <1>1, <2>1, AddJobEffect DEF NoInternalError, FreeSlots
<1>4. CASE SetState
  <2>1. slot \in Slots /\ jobs' = [jobs EXCEPT ![slot].state = want]
    BY <1>4 DEF SetState, MainAt, ForegroundInv
  <2> QED
    BY <1>1, <2>1 DEF NoInternalError, Jobs
<1>5. CASE ChldDelete
  <2>1. hnd["CHLD"].pid \in Pids /\ jobs' = deletejob(jobs, hnd["CHLD"].pid)
    BY <1>5, SignalsType DEF ChldDelete, Running, HandlerInv
  <2> QED
    BY <1>1, <2>1, DeleteJobEffect DEF NoInternalError, PidSlots, clearjob
<1>6. CASE ChldStop
  <2> DEFINE g == getjobpid(jobs, hnd["CHLD"].pid)
  <2>1. hnd["CHLD"].pid \in Pids
    BY <1>6, SignalsType DEF ChldStop, Running, HandlerInv
  <2>2. jobs' = jobs \/ (jobs' = [jobs EXCEPT ![g].state = "ST"] /\ g \in Slots)
    BY <1>1, <1>6, <2>1, GetJobPidFinds DEF ChldStop
  <2> HIDE DEF g
  <2> QED
    BY <1>1, <2>2 DEF NoInternalError, Jobs
<1> QED
  BY <1>2, <1>3, <1>4, <1>5, <1>6
  DEF Next, Main, ReadCommand, ReadBgFg, Quit, Fork, ForkFails, Unblock, WaitFg, PollDone,
      Continue, Deliver, Handler, KeyFindFg, KeyKill, ChldWait, Sigquit, World, Type,
      Setpgid, Execve, Exit, Stop, Swallow, Done, vars

\* listjobs always finds one of the three states it can print.
THEOREM ListedStates == Spec => []NoInternalError
<1>1. Init => NoInternalError
  BY DEF Init, NoInternalError, initjobs, clearjob
<1>2. ShellInv /\ NoInternalError /\ [Next]_vars => NoInternalError'
  BY DefinedStep
<1> QED
  BY <1>1, <1>2, ShellInvariant, PTL DEF Spec

LEMMA StateOfSlot ==
  ASSUME NEW js \in [Slots -> Jobs], Distinct(js), NEW i \in Slots, js[i].pid # NoPid
  PROVE  StateOf(js, js[i].pid) = js[i].state
<1>1. js[i].pid \in Pids /\ js[i].pid \in Listed(js)
  BY DEF Listed, Jobs
<1>2. PICK k \in Slots : js[k].pid = js[i].pid /\ StateOf(js, js[i].pid) = js[k].state
  BY <1>1, StateOfListed
<1> QED
  BY <1>2 DEF Distinct

LEMMA StateOfUnlisted ==
  ASSUME NEW js \in [Slots -> Jobs], NEW p \in Pids, p \notin Listed(js)
  PROVE  StateOf(js, p) = "none"
  BY GetJobPidFinds DEF StateOf

\* A change of one slot concerns only the processes it held before and after.
LEMMA StateOfOther ==
  ASSUME NEW js \in [Slots -> Jobs], NEW ks \in [Slots -> Jobs],
         Distinct(js), Distinct(ks), NEW i \in Slots,
         \A k \in Slots : k # i => ks[k] = js[k],
         NEW q \in Pids, q # js[i].pid, q # ks[i].pid
  PROVE  StateOf(ks, q) = StateOf(js, q)
<1>0. q # NoPid
  BY NoPidAssumption
<1>1. CASE \E k \in Slots : js[k].pid = q
  <2>1. PICK k \in Slots : js[k].pid = q
    BY <1>1
  <2>2. ks[k] = js[k]
    BY <2>1
  <2> QED
    BY <1>0, <2>1, <2>2, StateOfSlot
<1>2. CASE \A k \in Slots : js[k].pid # q
  <2>1. \A k \in Slots : ks[k].pid # q
    BY <1>2
  <2> QED
    BY <1>2, <2>1, StateOfUnlisted DEF Listed
<1> QED
  BY <1>1, <1>2

JobMap == [p \in Pids |-> StateOf(jobs, p)]

\* At the prompt and in a command that has not yet written the list, no job is
\* in the foreground.
LEMMA NoneForeground ==
  ASSUME ShellInv, pc \in {"addjob", "setstate"}
  PROVE  \A p \in Pids : StateOf(jobs, p) # "FG"
<1> SUFFICES ASSUME NEW p \in Pids PROVE StateOf(jobs, p) # "FG"
  OBVIOUS
<1>0. jobs \in [Slots -> Jobs]
  BY DEF ShellInv, TypeOK
<1>1. CASE p \in Listed(jobs)
  <2>1. PICK i \in Slots : jobs[i].pid = p /\ p # NoPid /\ StateOf(jobs, p) = jobs[i].state
    BY <1>0, <1>1, StateOfListed
  <2> QED
    BY <2>1 DEF ShellInv, ForegroundInv, FgSlots, Alive
<1>2. CASE p \notin Listed(jobs)
  BY <1>0, <1>2, StateOfUnlisted
<1> QED
  BY <1>1, <1>2

\* A step of the list is a step of JobControl or leaves its job map alone.
LEMMA JobControlStep ==
  ASSUME ShellInv, ShellInv', NoInternalError, [Next]_vars
  PROVE  JC!Next \/ UNCHANGED JobMap
<1>0. /\ jobs \in [Slots -> Jobs] /\ jobs' \in [Slots -> Jobs]
      /\ Distinct(jobs) /\ Distinct(jobs')
      /\ want \in {"FG", "BG"} /\ cur \in Pids \union {NoPid}
  BY DEF ShellInv, TypeOK
<1>1. ASSUME NEW i \in Slots, NEW p \in Pids, NEW st,
             \A k \in Slots : k # i => jobs'[k] = jobs[k],
             jobs[i].pid \in {p, NoPid}, jobs'[i].pid \in {p, NoPid},
             StateOf(jobs', p) = st
      PROVE  JobMap' = [JobMap EXCEPT ![p] = st]
  <2>1. ASSUME NEW q \in Pids, q # p PROVE StateOf(jobs', q) = StateOf(jobs, q)
    <3>1. q # jobs[i].pid /\ q # jobs'[i].pid
      BY <1>1, <2>1, NoPidAssumption
    <3> QED
      BY <1>0, <1>1, <3>1, StateOfOther
  <2> QED
    BY <1>1, <2>1 DEF JobMap
<1>2. CASE UNCHANGED jobs
  BY <1>2 DEF JobMap
<1>3. CASE AddJob
  <2>1. /\ jobs' = addjob(jobs, cur, want)
        /\ pc = "addjob"
        /\ want \in JobStates
    BY <1>0, <1>3 DEF AddJob, MainAt, JobStates
  <2>2. CASE jobs' # jobs
    <3>1. PICK i \in FreeSlots(jobs) : jobs' = [jobs EXCEPT ![i] = [pid |-> cur, state |-> want]]
      BY <1>0, <2>1, <2>2, AddJobEffect
    <3>2. cur \in Pids /\ cur # NoPid
      BY <1>0, <2>1, <2>2, NoPidAssumption DEF addjob
    <3>3. i \in Slots /\ jobs[i].pid = NoPid
      BY DEF FreeSlots
    <3>4. /\ jobs'[i].pid = cur /\ jobs'[i].state = want
          /\ \A k \in Slots : k # i => jobs'[k] = jobs[k]
      BY <1>0, <3>1, <3>3
    <3>5. StateOf(jobs', cur) = want
      BY <1>0, <3>2, <3>3, <3>4, StateOfSlot
    <3>6. JobMap' = [JobMap EXCEPT ![cur] = want]
      BY <1>1, <3>2, <3>3, <3>4, <3>5
    <3>7. StateOf(jobs, cur) = "none"
      BY <1>0, <2>1, <3>2, StateOfUnlisted DEF ShellInv, MaskInv
    <3>8. JC!Launch(cur, want)
      BY <2>1, <3>2, <3>6, <3>7, NoneForeground DEF JC!Launch, JC!NoForeground, JobMap
    <3> QED
      BY <1>0, <3>2, <3>8 DEF JC!Next
  <2> QED
    BY <1>2, <2>2
<1>4. CASE SetState
  <2>1. /\ pc = "setstate"
        /\ slot \in Slots
        /\ jobs' = [jobs EXCEPT ![slot].state = want]
    BY <1>4 DEF SetState, MainAt, ShellInv, ForegroundInv
  <2>2. /\ \A k \in Slots : k # slot => jobs'[k] = jobs[k]
        /\ jobs'[slot].pid = jobs[slot].pid
        /\ jobs'[slot].state = want
        /\ jobs[slot].pid \in Pids \union {NoPid}
    BY <1>0, <2>1 DEF Jobs
  <2>3. CASE jobs[slot].pid = NoPid
    <3>1. ASSUME NEW q \in Pids PROVE StateOf(jobs', q) = StateOf(jobs, q)
      <4>1. q # jobs[slot].pid /\ q # jobs'[slot].pid
        BY <2>2, <2>3, <3>1, NoPidAssumption
      <4>2. slot \in Slots /\ \A k \in Slots : k # slot => jobs'[k] = jobs[k]
        BY <2>1, <2>2
      <4> QED
        BY <1>0, <3>1, <4>1, <4>2, StateOfOther
    <3> QED
      BY <3>1 DEF JobMap
  <2>4. CASE jobs[slot].pid # NoPid
    <3> DEFINE p == jobs[slot].pid
    <3>1. p \in Pids
      BY <2>2, <2>4
    <3>2. StateOf(jobs', p) = want /\ StateOf(jobs, p) = jobs[slot].state
      BY <1>0, <2>1, <2>2, <2>4, StateOfSlot
    <3>3. StateOf(jobs, p) \in {"BG", "ST"}
      BY <2>1, <2>4, <3>1, <3>2, NoneForeground DEF NoInternalError
    <3> HIDE DEF p
    <3>4. JobMap' = [JobMap EXCEPT ![p] = want]
      BY <1>1, <2>1, <2>2, <3>1, <3>2 DEF p
    <3>5. JC!Resume(p, want)
      BY <2>1, <3>1, <3>3, <3>4, NoneForeground DEF JC!Resume, JC!NoForeground, JobMap
    <3> QED
      BY <1>0, <3>1, <3>5 DEF JC!Next
  <2> QED
    BY <2>3, <2>4
<1>5. CASE ChldDelete
  <2> DEFINE p == hnd["CHLD"].pid
  <2>1. p \in Pids /\ jobs' = deletejob(jobs, p)
    BY <1>5, SignalsType DEF ChldDelete, Running, ShellInv, HandlerInv
  <2> HIDE DEF p
  <2>2. CASE jobs' # jobs
    <3>1. PICK i \in Slots : jobs[i].pid = p /\ jobs' = [jobs EXCEPT ![i] = clearjob]
      BY <1>0, <2>1, <2>2, DeleteJobEffect DEF PidSlots
    <3>2. /\ \A k \in Slots : k # i => jobs'[k] = jobs[k]
          /\ jobs'[i].pid = NoPid
      BY <1>0, <3>1 DEF clearjob
    <3>3. p \notin Listed(jobs')
      BY <1>0, <2>1, DeleteJobDistinct
    <3>4. StateOf(jobs', p) = "none"
      BY <1>0, <2>1, <3>3, StateOfUnlisted
    <3>5. JobMap' = [JobMap EXCEPT ![p] = "none"]
      BY <1>1, <2>1, <3>1, <3>2, <3>4
    <3>6. StateOf(jobs, p) # "none"
      BY <1>0, <2>1, <3>1, StateOfSlot, NoPidAssumption DEF NoInternalError
    <3>7. JC!Finish(p)
      BY <2>1, <3>5, <3>6 DEF JC!Finish, JobMap
    <3> QED
      BY <2>1, <3>7 DEF JC!Next
  <2> QED
    BY <1>2, <2>2
<1>6. CASE ChldStop
  <2> DEFINE p == hnd["CHLD"].pid
             i == getjobpid(jobs, p)
  <2>1. p \in Pids
    BY <1>6, SignalsType DEF ChldStop, Running, ShellInv, HandlerInv
  <2>2. \/ UNCHANGED jobs
        \/ i \in Slots /\ jobs[i].pid = p /\ jobs' = [jobs EXCEPT ![i].state = "ST"]
    BY <1>0, <1>6, <2>1, GetJobPidFinds DEF ChldStop
  <2> HIDE DEF p, i
  <2>3. CASE i \in Slots /\ jobs[i].pid = p /\ jobs' = [jobs EXCEPT ![i].state = "ST"]
    <3>1. /\ \A k \in Slots : k # i => jobs'[k] = jobs[k]
          /\ jobs'[i].pid = p /\ jobs'[i].state = "ST"
      BY <1>0, <2>3 DEF Jobs
    <3>2. StateOf(jobs', p) = "ST" /\ StateOf(jobs, p) = jobs[i].state
      <4>1. /\ StateOf(jobs', jobs'[i].pid) = jobs'[i].state
            /\ StateOf(jobs, jobs[i].pid) = jobs[i].state
        BY <1>0, <2>1, <2>3, <3>1, StateOfSlot, NoPidAssumption
      <4> QED
        BY <2>3, <3>1, <4>1
    <3>3. jobs[i].state \in {"FG", "BG", "ST"}
      BY <2>1, <2>3, NoPidAssumption DEF NoInternalError
    <3>4. JobMap' = [JobMap EXCEPT ![p] = "ST"]
      BY <1>1, <2>1, <2>3, <3>1, <3>2
    <3>5. CASE jobs[i].state = "ST"
      BY <2>1, <3>2, <3>4, <3>5 DEF JobMap
    <3>6. CASE jobs[i].state \in {"FG", "BG"}
      <4>1. JC!Stop(p)
        BY <2>1, <3>2, <3>4, <3>6 DEF JC!Stop, JobMap
      <4> QED
        BY <2>1, <4>1 DEF JC!Next
    <3> QED
      BY <3>3, <3>5, <3>6
  <2> QED
    BY <1>2, <2>2, <2>3
<1> QED
  BY <1>2, <1>3, <1>4, <1>5, <1>6
  DEF Next, Main, ReadCommand, ReadBgFg, Quit, Fork, ForkFails, Unblock, WaitFg, PollDone,
      Continue, Deliver, Handler, KeyFindFg, KeyKill, ChldWait, Sigquit, World, Type,
      Setpgid, Execve, Exit, Stop, Swallow, Done, vars

\* Seen through the list, jobs change only as the table of job states and
\* enabling actions at the head of tsh.c allows.
THEOREM ImplementsJobControl == Spec => JobControlSpec
<1>1. Init => JC!Init
  <2> SUFFICES ASSUME Init PROVE JobMap = [p \in Pids |-> "none"]
    BY DEF JC!Init, JobMap
  <2>1. jobs \in [Slots -> Jobs] /\ Listed(jobs) = {}
    BY DEF Init, initjobs, clearjob, Jobs, JobStates, Listed
  <2> QED
    BY <2>1, StateOfUnlisted DEF JobMap
<1>2. ShellInv /\ ShellInv' /\ NoInternalError /\ [Next]_vars => [JC!Next]_JobMap
  BY JobControlStep
<1> QED
  BY <1>1, <1>2, ShellInvariant, ListedStates, PTL DEF Spec, JobControlSpec, JC!Spec, JobMap
==============================================================================
