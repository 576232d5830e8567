------------------------------ MODULE JobTable -------------------------------
(***************************************************************************)
(* The numbering of jobs in the tiny shell (shlab/tsh.c): the jid of each  *)
(* slot and the global nextjid.  A number is taken from nextjid when a job *)
(* is added; deleting a job sets nextjid just above the numbers in use;    *)
(* a number above MAXJOBS makes nextjid start again from 1.  A job's state *)
(* has no influence on its number, so every job here is in the background. *)
(***************************************************************************)
EXTENDS JobList

CONSTANT MaxJid       \* bound: no job is added once nextjid is above it

VARIABLES jobs,       \* pid and state of each slot
          jid,        \* job id of each slot, 0 when the slot is free
          nextjid     \* next job id to allocate

vars == <<jobs, jid, nextjid>>

\* Largest allocated job id, 0 if there is none.
maxjid(ids) == CHOOSE m \in {0} \union {ids[i] : i \in Slots} :
                 \A i \in Slots : ids[i] <= m

JidSlots(n) == {i \in Slots : jid[i] = n}

getjobjid(n) == IF n < 1 \/ JidSlots(n) = {} THEN NoSlot ELSE First(JidSlots(n))

pid2jid(p) == IF getjobpid(jobs, p) = NoSlot THEN 0 ELSE jid[getjobpid(jobs, p)]

TypeOK ==
  /\ jobs \in [Slots -> Jobs]
  /\ jid \in [Slots -> Nat]
  /\ nextjid \in Nat \ {0}

Init ==
  /\ jobs = initjobs
  /\ jid = [i \in Slots |-> 0]
  /\ nextjid = 1

\* The number that follows n.
NextNumber(n) == IF n + 1 > MAXJOBS THEN 1 ELSE n + 1

\* eval: a child the kernel has just created is put on the list.
AddJob(p) ==
  /\ p \notin Listed(jobs)
  /\ nextjid <= MaxJid
  /\ jobs' = addjob(jobs, p, "BG")
  /\ IF FreeSlots(jobs) = {}
     THEN UNCHANGED <<jid, nextjid>>
     ELSE /\ jid' = [jid EXCEPT ![First(FreeSlots(jobs))] = nextjid]
          /\ nextjid' = NextNumber(nextjid)

\* Mutant: nextjid is set to the largest number in use.
DeleteJob_NotAbove(p) ==
  /\ getjobpid(jobs, p) # NoSlot
  /\ jobs' = deletejob(jobs, p)
  /\ jid' = [jid EXCEPT ![getjobpid(jobs, p)] = 0]
  /\ nextjid' = maxjid(jid')

\* sigchld_handler: a child that was reaped is taken off the list.
DeleteJob(p) ==
  /\ jobs' = deletejob(jobs, p)
  /\ IF getjobpid(jobs, p) = NoSlot
     THEN UNCHANGED <<jid, nextjid>>
     ELSE /\ jid' = [jid EXCEPT ![getjobpid(jobs, p)] = 0]
          /\ nextjid' = maxjid(jid') + 1

Next == \E p \in Pids : AddJob(p) \/ DeleteJob(p)

Spec == Init /\ [][Next]_vars

------------------------------------------------------------------------------
\* A slot carries a number exactly when it carries a pid, so the searches by
\* pid, by jid and for a free slot agree on which slots are jobs.
Numbered == \A i \in Slots : jid[i] # 0 <=> jobs[i].pid # NoPid

\* As long as no number has reached MAXJOBS, the next number is above every
\* number in use: only the restart from 1 in addjob can give a number twice.
NextIsFree == maxjid(jid) < MAXJOBS => nextjid > maxjid(jid)

\* When the last job is gone, numbering starts again from 1, whatever numbers
\* were reached before.
EmptyRestarts == Listed(jobs) = {} => nextjid = 1

\* No process is on the list twice, so deletejob leaves nothing of it behind.
PidUnique == Distinct(jobs)

\* The list and the numbers together: no search of addjob, deletejob, getjobpid and
\* getjobjid is misled by a slot that another one takes for free.
NumberingInv == TypeOK /\ Numbered /\ NextIsFree /\ EmptyRestarts /\ PidUnique

\* Looking up the number printed for a process (pid2jid) leads back to it.
JidFindsJob == \A p \in Listed(jobs) : getjobjid(pid2jid(p)) = getjobpid(jobs, p)

\* fg and bg find the job that is named, until addjob starts again from 1 while small
\* numbers are in use: no other addition or deletion makes two jobs share a number.
OnlyRestartRepeats == [][JidFindsJob /\ ~JidFindsJob' => maxjid(jid) >= MAXJOBS]_vars
==============================================================================
