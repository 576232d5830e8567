--------------------------- MODULE JobList_proofs ----------------------------
(***************************************************************************)
(* What the helper routines of the job list return and preserve, for every *)
(* number of slots and any set of processes.                               *)
(***************************************************************************)
EXTENDS JobList, FiniteSetTheorems, WellFoundedInduction, TLAPS

\* A nonempty set of naturals has a least element.
LEMMA NatLeast ==
  ASSUME NEW S \in SUBSET Nat, S # {}
  PROVE  \E m \in S : \A k \in S : m <= k
<1> DEFINE R == OpToRel(<, Nat)
<1>1. \E m \in S : \A k \in S : ~(<<k, m>> \in R)
  BY NatLessThanWellFounded, WFMin
<1>2. \A m, k \in Nat : k < m => <<k, m>> \in R
  BY DEF OpToRel
<1> HIDE DEF R
<1>3. \A m, k \in S : ~(<<k, m>> \in R) => m <= k
  BY <1>2
<1> QED
  BY <1>1, <1>3

\* A linear search stops at a slot that fits, and at none before it.
LEMMA FirstFits ==
  ASSUME NEW S \in SUBSET Slots, S # {}
  PROVE  First(S) \in S /\ \A k \in S : First(S) <= k
<1>1. S \in SUBSET Nat
  BY MAXJOBSAssumption DEF Slots
<1>2. \E i \in S : \A k \in S : i <= k
  BY <1>1, NatLeast
<1> QED
  BY <1>2 DEF First

\* The search for a pid finds a slot that holds it, or there is none.
LEMMA GetJobPidFinds ==
  ASSUME NEW jobs \in [Slots -> Jobs], NEW p \in Pids \union {NoPid}
  PROVE  \/ /\ p \in Listed(jobs)
            /\ getjobpid(jobs, p) \in Slots
            /\ getjobpid(jobs, p) # NoSlot
            /\ jobs[getjobpid(jobs, p)].pid = p
         \/ /\ p \notin Listed(jobs)
            /\ getjobpid(jobs, p) = NoSlot
<1>1. CASE p \in Listed(jobs)
  <2>1. p # NoPid /\ PidSlots(jobs, p) # {} /\ PidSlots(jobs, p) \in SUBSET Slots
    BY <1>1 DEF Listed, PidSlots
  <2>2. First(PidSlots(jobs, p)) \in PidSlots(jobs, p)
    BY <2>1, FirstFits
  <2>3. \A i \in Slots : i # NoSlot
    BY MAXJOBSAssumption DEF Slots, NoSlot
  <2> QED
    BY <1>1, <2>1, <2>2, <2>3 DEF getjobpid, PidSlots
<1>2. CASE p \notin Listed(jobs)
  BY <1>2 DEF Listed, PidSlots, getjobpid
<1> QED
  BY <1>1, <1>2

\* addjob fills one free slot, or leaves the list alone.
LEMMA AddJobEffect ==
  ASSUME NEW jobs \in [Slots -> Jobs], NEW p \in Pids \union {NoPid},
         NEW st \in JobStates
  PROVE  /\ addjob(jobs, p, st) \in [Slots -> Jobs]
         /\ \/ addjob(jobs, p, st) = jobs
            \/ /\ p # NoPid
               /\ \E i \in FreeSlots(jobs) :
                    addjob(jobs, p, st) = [jobs EXCEPT ![i] = [pid |-> p, state |-> st]]
<1>1. CASE p = NoPid \/ FreeSlots(jobs) = {}
  BY <1>1 DEF addjob
<1>2. CASE p # NoPid /\ FreeSlots(jobs) # {}
  <2>1. First(FreeSlots(jobs)) \in FreeSlots(jobs)
    BY <1>2, FirstFits DEF FreeSlots
  <2>2. [pid |-> p, state |-> st] \in Jobs
    BY DEF Jobs
  <2> QED
    BY <1>2, <2>1, <2>2 DEF addjob, FreeSlots
<1> QED
  BY <1>1, <1>2

\* deletejob clears one slot of the process, if it has one.
LEMMA DeleteJobEffect ==
  ASSUME NEW jobs \in [Slots -> Jobs], NEW p \in Pids \union {NoPid}
  PROVE  /\ deletejob(jobs, p) \in [Slots -> Jobs]
         /\ \/ p \notin Listed(jobs) /\ deletejob(jobs, p) = jobs
            \/ \E i \in PidSlots(jobs, p) :
                 deletejob(jobs, p) = [jobs EXCEPT ![i] = clearjob]
<1>1. clearjob \in Jobs
  BY DEF clearjob, Jobs, JobStates
<1> QED
  BY <1>1, GetJobPidFinds DEF deletejob, PidSlots

\* A process that is not yet listed is listed once after addjob.
LEMMA AddJobDistinct ==
  ASSUME NEW jobs \in [Slots -> Jobs], Distinct(jobs),
         NEW p \in Pids \union {NoPid}, p \notin Listed(jobs), NEW st \in JobStates
  PROVE  /\ Distinct(addjob(jobs, p, st))
         /\ Listed(addjob(jobs, p, st)) \subseteq Listed(jobs) \union {p}
<1>1. CASE addjob(jobs, p, st) = jobs
  BY <1>1
<1>2. CASE \E i \in FreeSlots(jobs) :
             addjob(jobs, p, st) = [jobs EXCEPT ![i] = [pid |-> p, state |-> st]]
  <2>1. PICK i \in Slots : addjob(jobs, p, st) = [jobs EXCEPT ![i] = [pid |-> p, state |-> st]]
    BY <1>2 DEF FreeSlots
  <2>2. \A k \in Slots : jobs[k].pid # p \/ p = NoPid
    BY DEF Listed
  <2>3. \A k \in Slots : addjob(jobs, p, st)[k].pid = IF k = i THEN p ELSE jobs[k].pid
    BY <2>1
  <2> QED
    BY <2>2, <2>3 DEF Distinct, Listed
<1> QED
  BY <1>1, <1>2, AddJobEffect

\* After deletejob the process is not listed, and the others still are.
LEMMA DeleteJobDistinct ==
  ASSUME NEW jobs \in [Slots -> Jobs], Distinct(jobs), NEW p \in Pids \union {NoPid}
  PROVE  /\ Distinct(deletejob(jobs, p))
         /\ Listed(deletejob(jobs, p)) = Listed(jobs) \ {p}
<1>1. CASE p \notin Listed(jobs) /\ deletejob(jobs, p) = jobs
  BY <1>1
<1>2. CASE \E i \in PidSlots(jobs, p) :
             deletejob(jobs, p) = [jobs EXCEPT ![i] = clearjob]
  <2>1. PICK i \in Slots : /\ jobs[i].pid = p
                           /\ deletejob(jobs, p) = [jobs EXCEPT ![i] = clearjob]
    BY <1>2 DEF PidSlots
  <2>2. \A k \in Slots : deletejob(jobs, p)[k].pid = IF k = i THEN NoPid ELSE jobs[k].pid
    BY <2>1 DEF clearjob
  <2>3. Distinct(deletejob(jobs, p))
    BY <2>2 DEF Distinct
  <2>4. \A k \in Slots : k # i => jobs[k].pid # p \/ p = NoPid
    BY <2>1 DEF Distinct
  <2>5. Listed(deletejob(jobs, p)) = {deletejob(jobs, p)[k].pid : k \in Slots} \ {NoPid}
    BY DEF Listed
  <2> QED
    BY <2>1, <2>2, <2>3, <2>4, <2>5 DEF Listed
<1> QED
  BY <1>1, <1>2, DeleteJobEffect

\* With a slot for every process, a process not yet listed leaves a free slot.
LEMMA SlotLeft ==
  ASSUME NEW jobs \in [Slots -> Jobs], Distinct(jobs), Cardinality(Pids) <= MAXJOBS,
         NEW p \in Pids, p \notin Listed(jobs)
  PROVE  FreeSlots(jobs) # {}
<1> DEFINE T == Pids \ {p}
           f == [i \in Slots |-> jobs[i].pid]
<1>1. IsFiniteSet(T) /\ Cardinality(T) = Cardinality(Pids) - 1
  BY PidsAssumption, FS_RemoveElement
<1>2. Cardinality(Pids) \in Nat
  BY PidsAssumption, FS_CardinalityType
<1>3. IsFiniteSet(Slots) /\ Cardinality(Slots) = MAXJOBS
  BY MAXJOBSAssumption, FS_Interval DEF Slots
<1>4. SUFFICES ASSUME FreeSlots(jobs) = {} PROVE FALSE
  OBVIOUS
<1>5. \A i \in Slots : jobs[i].pid \in T /\ jobs[i].pid # NoPid
  BY <1>4 DEF FreeSlots, Jobs, Listed
<1>6. f \in [Slots -> T]
  BY <1>5
<1>7. Cardinality(T) < Cardinality(Slots)
  BY <1>1, <1>2, <1>3, MAXJOBSAssumption
<1>8. PICK i, k \in Slots : i # k /\ f[i] = f[k]
  <2> HIDE DEF f, T
  <2> QED
    BY <1>1, <1>3, <1>6, <1>7, FS_PigeonHole
<1> QED
  BY <1>5, <1>8 DEF Distinct

\* ... so addjob lists it, and keeps the others.
LEMMA AddJobLists ==
  ASSUME NEW jobs \in [Slots -> Jobs], Distinct(jobs), Cardinality(Pids) <= MAXJOBS,
         NEW p \in Pids, p \notin Listed(jobs), NEW st \in JobStates
  PROVE  Listed(addjob(jobs, p, st)) = Listed(jobs) \union {p}
<1>1. p # NoPid
  BY NoPidAssumption
<1>2. First(FreeSlots(jobs)) \in FreeSlots(jobs)
  BY SlotLeft, FirstFits DEF FreeSlots
<1>3. PICK i \in Slots : /\ jobs[i].pid = NoPid
                         /\ addjob(jobs, p, st) = [jobs EXCEPT ![i] = [pid |-> p, state |-> st]]
  BY <1>1, <1>2, SlotLeft DEF addjob, FreeSlots
<1>4. \A k \in Slots : addjob(jobs, p, st)[k].pid = IF k = i THEN p ELSE jobs[k].pid
  BY <1>3
<1>5. p \in Listed(addjob(jobs, p, st))
  BY <1>1, <1>4 DEF Listed
<1>6. Listed(jobs) \subseteq Listed(addjob(jobs, p, st))
  BY <1>3, <1>4 DEF Listed
<1> QED
  BY <1>5, <1>6, AddJobDistinct
==============================================================================
