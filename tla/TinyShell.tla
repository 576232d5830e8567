------------------------------ MODULE TinyShell ------------------------------
(***************************************************************************)
(* The tiny shell (shlab/tsh.c): the read/eval loop, its three signal      *)
(* handlers, and the children it forks.  The handlers run on the shell's   *)
(* own thread, on top of the read/eval loop and of each other; only a      *)
(* signal's own handler masks it (Signal, with an empty sa_mask), and eval *)
(* masks SIGCHLD around fork and addjob.  Everything the kernel and the    *)
(* children do is external: a child's death or stop makes SIGCHLD pending, *)
(* one bit however many children changed, and waitpid reports one child.   *)
(*                                                                         *)
(* Job ids and the text that is printed are left out: fg and bg may name   *)
(* any job on the list.  SIGCONT is sent by the shell alone, and a child   *)
(* stops only once it has called execve.                                   *)
(***************************************************************************)
EXTENDS JobList, Sequences

CONSTANT Keyboard     \* the signals the terminal may send: INT, TSTP or both

ASSUME KeyboardAssumption == Keyboard \subseteq {"INT", "TSTP"}

VARIABLES
  pc,        \* where the read/eval loop is
  want,      \* state asked for by the command: "FG" or "BG"
  cur,       \* eval, waitfg: the local variable pid
  slot,      \* do_bgfg, waitfg: the local pointer job
  jobs,      \* the job list
  hnd,       \* for each signal, the activation of its handler
  stack,     \* the signals whose handlers are active, the running one first
  pending,   \* signals pending for the shell
  proc,      \* the kernel's state of each child
  unseen,    \* stopped children whose stop waitpid has not reported
  sigs       \* keyboard signals pending for each child

shell  == <<pc, want, cur, slot>>
kernel == <<proc, unseen, sigs>>
vars   == <<pc, want, cur, slot, jobs, hnd, stack, pending, proc, unseen, sigs>>

Signals == Keyboard \union {"CHLD"}

\* none: not a child; forked: still in the shell's process group; grouped: in
\* its own group, before execve; both still have the shell's signal handlers.
ProcStates == {"none", "forked", "grouped", "running", "stopped", "zombie"}

PCs == {"read", "fork", "addjob", "unblock", "waitfg", "poll",
        "setstate", "cont", "crashed", "exited"}

Handlers == [at : {"idle", "start", "act"},
             pid : Pids \union {NoPid},
             stopped : BOOLEAN]

Idle    == [at |-> "idle",  pid |-> NoPid, stopped |-> FALSE]
Started == [at |-> "start", pid |-> NoPid, stopped |-> FALSE]

TypeOK ==
  /\ pc \in PCs
  /\ want \in {"FG", "BG"}
  /\ cur \in Pids \union {NoPid}
  /\ slot \in Slots \union {NoSlot}
  /\ jobs \in [Slots -> Jobs]
  /\ hnd \in [Signals -> Handlers]
  /\ stack \in Seq(Signals)
  /\ pending \subseteq Signals
  /\ proc \in [Pids -> ProcStates]
  /\ unseen \subseteq Pids
  /\ sigs \in [Pids -> SUBSET Keyboard]

Init ==
  /\ pc = "read"
  /\ want = "FG"
  /\ cur = NoPid
  /\ slot = NoSlot
  /\ jobs = initjobs
  /\ hnd = [s \in Signals |-> Idle]
  /\ stack = <<>>
  /\ pending = {}
  /\ proc = [p \in Pids |-> "none"]
  /\ unseen = {}
  /\ sigs = [p \in Pids |-> {}]

Alive == pc \notin {"crashed", "exited"}

------------------------------------------------------------------------------
(***************************************************************************)
(* The kernel, seen from the shell.                                        *)
(***************************************************************************)
\* Mutant: eval does not mask SIGCHLD.
BlockedAt_Never == {}

\* Mutant: eval does not unmask SIGCHLD before waitfg.
BlockedAt_Waiting == {"fork", "addjob", "unblock", "waitfg", "poll"}

\* eval has SIGCHLD blocked.
BlockedAt == {"fork", "addjob", "unblock"}

Deliverable == {s \in pending : /\ hnd[s].at = "idle"
                                /\ s = "CHLD" => pc \notin BlockedAt}

\* A child that kill(-p, .) reaches: one that leads its own process group.
Reached(p) == p \in Pids /\ proc[p] \in {"grouped", "running", "stopped"}

KillGroup(p, s) ==
  sigs' = IF Reached(p) THEN [sigs EXCEPT ![p] = @ \union {s}] ELSE sigs

\* SIGCONT discards a pending stop; a child that continues raises SIGCHLD.
ContGroup(p) ==
  IF Reached(p)
  THEN /\ sigs' = [sigs EXCEPT ![p] = @ \ {"TSTP"}]
       /\ unseen' = unseen \ {p}
       /\ IF proc[p] = "stopped"
          THEN /\ proc' = [proc EXCEPT ![p] = "running"]
               /\ pending' = pending \union {"CHLD"}
          ELSE UNCHANGED <<proc, pending>>
  ELSE UNCHANGED <<proc, unseen, sigs, pending>>

\* The children waitpid(-1, WNOHANG|WUNTRACED) may report.
Reportable == {p \in Pids : proc[p] = "zombie"} \union unseen

------------------------------------------------------------------------------
(***************************************************************************)
(* The read/eval loop.  It is suspended while a handler is active, and a   *)
(* deliverable signal interrupts it unless it is inside a system call.     *)
(***************************************************************************)
InSyscall == {"fork", "unblock", "cont"}

MainAt(l) ==
  /\ pc = l
  /\ stack = <<>>
  /\ Deliverable = {} \/ l \in InSyscall

\* The command's function returns and its local variables are gone.
Return ==
  /\ pc' = "read"
  /\ want' = "FG"
  /\ cur' = NoPid
  /\ slot' = NoSlot

\* eval: a command line that is not a built-in command; SIGCHLD is blocked.
ReadCommand ==
  /\ MainAt("read")
  /\ pc' = "fork"
  /\ want' \in {"FG", "BG"}
  /\ UNCHANGED <<cur, slot, jobs, hnd, stack, pending, kernel>>

\* do_bgfg: the command fg or bg and a job on the list.
ReadBgFg ==
  /\ MainAt("read")
  /\ pc' = "setstate"
  /\ want' \in {"FG", "BG"}
  /\ \E p \in Listed(jobs) : slot' = getjobpid(jobs, p)
  /\ UNCHANGED <<cur, jobs, hnd, stack, pending, kernel>>

\* The command quit, or end of file.
Quit ==
  /\ MainAt("read")
  /\ pc' = "exited"
  /\ UNCHANGED <<want, cur, slot, jobs, hnd, stack, pending, kernel>>

Fork ==
  /\ MainAt("fork")
  /\ pc' = "addjob"
  /\ \E p \in Pids :
       /\ proc[p] = "none"
       /\ cur' = p
       /\ proc' = [proc EXCEPT ![p] = "forked"]
  /\ UNCHANGED <<want, slot, jobs, hnd, stack, pending, unseen, sigs>>

\* fork returns -1, which eval does not look at.
ForkFails ==
  /\ MainAt("fork")
  /\ pc' = "addjob"
  /\ cur' = NoPid
  /\ UNCHANGED <<want, slot, jobs, hnd, stack, pending, kernel>>

AddJob ==
  /\ MainAt("addjob")
  /\ pc' = "unblock"
  /\ jobs' = addjob(jobs, cur, want)
  /\ UNCHANGED <<want, cur, slot, hnd, stack, pending, kernel>>

Unblock ==
  /\ MainAt("unblock")
  /\ IF want = "BG" THEN Return
     ELSE /\ pc' = "waitfg"
          /\ UNCHANGED <<want, cur, slot>>
  /\ UNCHANGED <<jobs, hnd, stack, pending, kernel>>

\* waitfg: the pointer is used without a look at whether the job was found.
WaitFg ==
  /\ MainAt("waitfg")
  /\ slot' = getjobpid(jobs, cur)
  /\ pc' = IF slot' = NoSlot THEN "crashed" ELSE "poll"
  /\ UNCHANGED <<want, cur, jobs, hnd, stack, pending, kernel>>

\* Mutant: waitfg returns at once.
PollDone_NoWait ==
  /\ MainAt("poll")
  /\ Return
  /\ UNCHANGED <<jobs, hnd, stack, pending, kernel>>

PollDone ==
  /\ MainAt("poll")
  /\ jobs[slot].state # "FG"
  /\ Return
  /\ UNCHANGED <<jobs, hnd, stack, pending, kernel>>

\* do_bgfg writes through a pointer whose slot may have been freed meanwhile.
SetState ==
  /\ MainAt("setstate")
  /\ pc' = "cont"
  /\ jobs' = [jobs EXCEPT ![slot].state = want]
  /\ UNCHANGED <<want, cur, slot, hnd, stack, pending, kernel>>

Continue ==
  /\ MainAt("cont")
  /\ ContGroup(jobs[slot].pid)
  /\ IF want = "BG" THEN Return
     ELSE /\ pc' = "waitfg"
          /\ cur' = jobs[slot].pid
          /\ UNCHANGED <<want, slot>>
  /\ UNCHANGED <<jobs, hnd, stack>>

Main == \/ ReadCommand \/ ReadBgFg \/ Quit \/ Fork \/ ForkFails \/ AddJob
        \/ Unblock \/ WaitFg \/ PollDone \/ SetState \/ Continue

------------------------------------------------------------------------------
(***************************************************************************)
(* The signal handlers.                                                    *)
(***************************************************************************)
Deliver(s) ==
  /\ Alive
  /\ s \in Deliverable
  /\ pending' = pending \ {s}
  /\ hnd' = [hnd EXCEPT ![s] = Started]
  /\ stack' = <<s>> \o stack
  /\ UNCHANGED <<shell, jobs, kernel>>

Running(s, l) ==
  /\ Alive
  /\ stack # <<>>
  /\ Head(stack) = s
  /\ hnd[s].at = l

HandlerReturns(s) ==
  /\ hnd' = [hnd EXCEPT ![s] = Idle]
  /\ stack' = Tail(stack)

\* sigint_handler, sigtstp_handler: look up the foreground job.
KeyFindFg(s) ==
  /\ Running(s, "start")
  /\ IF fgpid(jobs) = NoPid
     THEN HandlerReturns(s)
     ELSE /\ hnd' = [hnd EXCEPT ![s] = [at |-> "act", pid |-> fgpid(jobs),
                                       stopped |-> FALSE]]
          /\ UNCHANGED stack
  /\ UNCHANGED <<shell, jobs, pending, kernel>>

\* sigint_handler, sigtstp_handler: kill(-pid, s), its result ignored.
KeyKill(s) ==
  /\ Running(s, "act")
  /\ KillGroup(hnd[s].pid, s)
  /\ HandlerReturns(s)
  /\ UNCHANGED <<shell, jobs, pending, proc, unseen>>

\* sigchld_handler: waitpid reports one child, or none.
ChldWait ==
  /\ Running("CHLD", "start")
  /\ IF Reportable = {}
     THEN HandlerReturns("CHLD") /\ UNCHANGED kernel
     ELSE \E p \in Reportable :
            /\ hnd' = [hnd EXCEPT !["CHLD"] = [at |-> "act", pid |-> p,
                                              stopped |-> proc[p] # "zombie"]]
            /\ proc' = IF proc[p] = "zombie" THEN [proc EXCEPT ![p] = "none"]
                       ELSE proc
            /\ unseen' = unseen \ {p}
            /\ UNCHANGED <<stack, sigs>>
  /\ UNCHANGED <<shell, jobs, pending>>

\* Mutant: the handler takes every report for the end of the child.
ChldDelete_AnyReport ==
  /\ Running("CHLD", "act")
  /\ jobs' = deletejob(jobs, hnd["CHLD"].pid)
  /\ HandlerReturns("CHLD")
  /\ UNCHANGED <<shell, pending, kernel>>

\* sigchld_handler: a child that ended is taken off the list.
ChldDelete ==
  /\ Running("CHLD", "act")
  /\ ~hnd["CHLD"].stopped
  /\ jobs' = deletejob(jobs, hnd["CHLD"].pid)
  /\ HandlerReturns("CHLD")
  /\ UNCHANGED <<shell, pending, kernel>>

\* sigchld_handler: the job of a child that stopped becomes ST; the pointer
\* is used without a look at whether the job was found.
ChldStop ==
  /\ Running("CHLD", "act")
  /\ hnd["CHLD"].stopped
  /\ LET i == getjobpid(jobs, hnd["CHLD"].pid)
     IN  IF i = NoSlot
         THEN pc' = "crashed" /\ UNCHANGED jobs
         ELSE jobs' = [jobs EXCEPT ![i].state = "ST"] /\ UNCHANGED pc
  /\ HandlerReturns("CHLD")
  /\ UNCHANGED <<want, cur, slot, pending, kernel>>

\* sigquit_handler: the driver ends the shell.
Sigquit ==
  /\ Alive
  /\ pc' = "exited"
  /\ UNCHANGED <<want, cur, slot, jobs, hnd, stack, pending, kernel>>

Handler == \/ \E s \in Keyboard : KeyFindFg(s) \/ KeyKill(s)
           \/ ChldWait \/ ChldDelete \/ ChldStop

------------------------------------------------------------------------------
(***************************************************************************)
(* The terminal and the children.                                          *)
(***************************************************************************)
\* ctrl-c or ctrl-z goes to the shell's process group, in which a child still
\* is until it has called setpgid.
Type(s) ==
  /\ Alive
  /\ pending' = pending \union {s}
  /\ sigs' = [p \in Pids |-> IF proc[p] = "forked" THEN sigs[p] \union {s}
                                                  ELSE sigs[p]]
  /\ UNCHANGED <<shell, jobs, hnd, stack, proc, unseen>>

Setpgid(p) ==
  /\ Alive
  /\ proc[p] = "forked"
  /\ proc' = [proc EXCEPT ![p] = "grouped"]
  /\ UNCHANGED <<shell, jobs, hnd, stack, pending, unseen, sigs>>

\* Before execve the child runs the shell's handlers, on its own copy of a
\* list without a foreground job: the signal is lost.
Swallow(p, s) ==
  /\ Alive
  /\ proc[p] \in {"forked", "grouped"}
  /\ s \in sigs[p]
  /\ sigs' = [sigs EXCEPT ![p] = @ \ {s}]
  /\ UNCHANGED <<shell, jobs, hnd, stack, pending, proc, unseen>>

Execve(p) ==
  /\ Alive
  /\ proc[p] = "grouped"
  /\ proc' = [proc EXCEPT ![p] = "running"]
  /\ UNCHANGED <<shell, jobs, hnd, stack, pending, unseen, sigs>>

\* The child exits, execve having failed or not, or a signal kills it.
Exit(p) ==
  /\ Alive
  /\ proc[p] \notin {"none", "zombie"}
  /\ proc' = [proc EXCEPT ![p] = "zombie"]
  /\ unseen' = unseen \ {p}
  /\ sigs' = [sigs EXCEPT ![p] = {}]
  /\ pending' = pending \union {"CHLD"}
  /\ UNCHANGED <<shell, jobs, hnd, stack>>

\* The child is stopped, by the signal the shell sent or by another one.
Stop(p) ==
  /\ Alive
  /\ proc[p] = "running"
  /\ proc' = [proc EXCEPT ![p] = "stopped"]
  /\ unseen' = unseen \union {p}
  /\ sigs' = [sigs EXCEPT ![p] = @ \ {"TSTP"}]
  /\ pending' = pending \union {"CHLD"}
  /\ UNCHANGED <<shell, jobs, hnd, stack>>

World == \/ \E s \in Keyboard : Type(s)
         \/ \E p \in Pids : \/ Setpgid(p) \/ Execve(p) \/ Exit(p) \/ Stop(p)
                            \/ \E s \in Keyboard : Swallow(p, s)

\* The shell has ended.
Done == ~Alive /\ UNCHANGED vars

Next == \/ Main
        \/ \E s \in Signals : Deliver(s)
        \/ Handler
        \/ Sigquit
        \/ World
        \/ Done

Spec == Init /\ [][Next]_vars

\* The scheduler runs the shell, and a pending signal that is not blocked is
\* delivered.  Commands are typed, and children end or stop, at will.
Progress == \/ Fork \/ ForkFails \/ AddJob \/ Unblock \/ WaitFg \/ PollDone
            \/ SetState \/ Continue

FairSpec == /\ Spec
            /\ WF_vars(Progress)
            /\ WF_vars(Handler)
            /\ \A s \in Signals : WF_vars(Deliver(s))

------------------------------------------------------------------------------
(***************************************************************************)
(* What holds.                                                             *)
(***************************************************************************)
\* The read/eval loop is in the foreground command that launched or resumed p.
WaitingFor(p) ==
  /\ want = "FG"
  /\ \/ pc \in {"unblock", "waitfg", "poll"} /\ cur = p
     \/ pc = "cont" /\ jobs[slot].pid = p

\* Every job on the list is a child that has not been reaped, except while
\* sigchld_handler is between waitpid and deletejob: eval masks SIGCHLD so
\* that a child cannot be deleted before it is added.
JobsAreChildren ==
  \A p \in Listed(jobs) :
     \/ proc[p] # "none"
     \/ /\ hnd["CHLD"].at = "act"
        /\ hnd["CHLD"].pid = p
        /\ ~hnd["CHLD"].stopped

\* A table with a slot for every child holds every child, from addjob on,
\* until it is reaped: no job runs that the user cannot name.
ChildrenListed ==
  Alive /\ Cardinality(Pids) <= MAXJOBS =>
    \A p \in Pids : proc[p] # "none" =>
       p \in Listed(jobs) \/ (pc = "addjob" /\ cur = p)

\* A job is in the foreground only as long as the shell is in the command that
\* put it there: at the prompt there is no foreground job.
ForegroundIsWaitedFor ==
  \A p \in Listed(jobs) : StateOf(jobs, p) = "FG" /\ Alive => WaitingFor(p)

\* A job on the list is in one of the three states listjobs can print: whatever
\* is written through do_bgfg's pointer, its default case is never reached.
NoInternalError ==
  \A i \in Slots : jobs[i].pid # NoPid => jobs[i].state \in {"FG", "BG", "ST"}

\* At most 1 job can be in the FG state.
AtMostOneFG ==
  \A p, q \in Listed(jobs) : StateOf(jobs, p) = "FG" /\ StateOf(jobs, q) = "FG" => p = q

\* The keyboard handlers signal no child but the one the shell waits for,
\* even if it ends or stops between fgpid and kill.  (The terminal itself
\* reaches a child that is still in the shell's process group.)
SignalsOnlyForeground ==
  [][\A p \in Pids :
        sigs'[p] \subseteq sigs[p] \/ proc[p] = "forked" \/ WaitingFor(p)]_vars

\* The job list changes only as the user was told it would.
JC == INSTANCE JobControl WITH job <- [p \in Pids |-> StateOf(jobs, p)]
JobControlSpec == JC!Spec

\* If no two children ever wait to be reported at once, the shell returns to
\* its prompt after its foreground job has ended or stopped.
ForegroundReturns ==
  [](Cardinality(Reportable) <= 1) =>
    \A p \in Pids : (pc = "poll" /\ cur = p /\ p \in Reportable) ~> pc # "poll"

------------------------------------------------------------------------------
(***************************************************************************)
(* The inductive invariant.                                                *)
(***************************************************************************)
\* The active handlers are those on the stack, each there once.
StackInv ==
  /\ \A s \in Signals : hnd[s].at # "idle" <=> \E i \in 1 .. Len(stack) : stack[i] = s
  /\ \A i, k \in 1 .. Len(stack) : stack[i] = stack[k] => i = k

\* While eval masks SIGCHLD its handler is not active, so the new child is
\* still there and not yet on the list.
MaskInv ==
  /\ pc \in BlockedAt => hnd["CHLD"].at = "idle"
  /\ pc = "addjob" /\ cur \in Pids => proc[cur] # "none" /\ cur \notin Listed(jobs)

\* What a handler remembers between its two steps.
HandlerInv ==
  /\ \A s \in Signals : hnd[s].at = "act" => hnd[s].pid \in Pids
  /\ hnd["CHLD"].at = "act" /\ ~hnd["CHLD"].stopped => proc[hnd["CHLD"].pid] = "none"
  /\ \A s \in Keyboard : hnd[s].at = "act" /\ Alive =>
        WaitingFor(hnd[s].pid) \/ proc[hnd[s].pid] = "none"

\* The foreground slot is the one the loop has added, polls or writes to.
ForegroundInv ==
  /\ pc \in {"setstate", "cont", "poll"} => slot \in Slots
  /\ \A i \in FgSlots(jobs) : jobs[i].pid # NoPid /\ Alive =>
        /\ want = "FG"
        /\ \/ pc \in {"unblock", "waitfg"} /\ cur = jobs[i].pid
           \/ pc = "poll" /\ cur = jobs[i].pid /\ slot = i
           \/ pc = "cont" /\ slot = i
  /\ \A i, k \in FgSlots(jobs) :
        jobs[i].pid # NoPid /\ jobs[k].pid # NoPid => i = k

ShellInv == /\ TypeOK
            /\ Distinct(jobs)
            /\ JobsAreChildren
            /\ StackInv
            /\ MaskInv
            /\ HandlerInv
            /\ ForegroundInv

------------------------------------------------------------------------------
(***************************************************************************)
(* What the comments in tsh.c say and the code does not do.                *)
(***************************************************************************)
\* eval: a job running in the foreground is waited for, and then eval returns:
\* the shell does not die in waitfg for a child it has forked.
EvalReturns == ~(pc = "crashed" /\ cur \in Pids /\ slot = NoSlot)

==============================================================================
