------------------------------- MODULE JobList -------------------------------
(***************************************************************************)
(* The job list of the tiny shell (shlab/tsh.c): a fixed array of MAXJOBS  *)
(* slots that is searched linearly.  A slot with no pid is free.  The      *)
(* operators below are the helper routines of the shell, each a pure       *)
(* function of the array.  A slot's job id does not influence any of them  *)
(* and is kept apart, in module JobTable.                                  *)
(***************************************************************************)
EXTENDS Integers, FiniteSets

CONSTANTS MAXJOBS,    \* the number of slots
          Pids,       \* the process ids the kernel may give to a child
          NoPid       \* a pid below 1: a free slot, or the result of a failed fork

ASSUME MAXJOBSAssumption == MAXJOBS \in Nat \ {0}
ASSUME NoPidAssumption   == NoPid \notin Pids
ASSUME PidsAssumption    == IsFiniteSet(Pids)   \* process ids wrap around

Slots  == 1 .. MAXJOBS
NoSlot == 0           \* the null pointer to a job

JobStates == {"UNDEF", "FG", "BG", "ST"}
Jobs      == [pid : Pids \union {NoPid}, state : JobStates]

clearjob == [pid |-> NoPid, state |-> "UNDEF"]
initjobs == [i \in Slots |-> clearjob]

\* The slot a linear search for an element of S stops at.
First(S) == CHOOSE i \in S : \A k \in S : i <= k

FreeSlots(jobs)  == {i \in Slots : jobs[i].pid = NoPid}
PidSlots(jobs, p) == {i \in Slots : jobs[i].pid = p}
FgSlots(jobs)    == {i \in Slots : jobs[i].state = "FG"}

\* The pids of the jobs on the list.
Listed(jobs) == {jobs[i].pid : i \in Slots} \ {NoPid}

\* No process is on the list twice.
Distinct(jobs) ==
  \A i, k \in Slots : jobs[i].pid = jobs[k].pid /\ jobs[i].pid # NoPid => i = k

getjobpid(jobs, p) ==
  IF p = NoPid \/ PidSlots(jobs, p) = {} THEN NoSlot ELSE First(PidSlots(jobs, p))

\* The state of a process as a job, "none" if it is not on the list.
StateOf(jobs, p) ==
  IF getjobpid(jobs, p) = NoSlot THEN "none" ELSE jobs[getjobpid(jobs, p)].state

\* Mutant: the last slot is taken, free or not.
addjob_Overwrite(jobs, p, st) ==
  IF p = NoPid THEN jobs
  ELSE [jobs EXCEPT ![MAXJOBS] = [pid |-> p, state |-> st]]

\* Mutant: the slot is taken and its state is not written.
addjob_NoState(jobs, p, st) ==
  IF p = NoPid \/ FreeSlots(jobs) = {} THEN jobs
  ELSE [jobs EXCEPT ![First(FreeSlots(jobs))].pid = p]

\* A full table and a pid below 1 leave the list as it is.
addjob(jobs, p, st) ==
  IF p = NoPid \/ FreeSlots(jobs) = {} THEN jobs
  ELSE [jobs EXCEPT ![First(FreeSlots(jobs))] = [pid |-> p, state |-> st]]

deletejob(jobs, p) ==
  IF getjobpid(jobs, p) = NoSlot THEN jobs
  ELSE [jobs EXCEPT ![getjobpid(jobs, p)] = clearjob]

\* Mutant: any job counts as the foreground job.
fgpid_AnyJob(jobs) ==
  IF Listed(jobs) = {} THEN NoPid
  ELSE jobs[First({i \in Slots : jobs[i].pid # NoPid})].pid

\* The pid of the first foreground slot; a free slot may be marked FG.
fgpid(jobs) ==
  IF FgSlots(jobs) = {} THEN NoPid ELSE jobs[First(FgSlots(jobs))].pid
==============================================================================
