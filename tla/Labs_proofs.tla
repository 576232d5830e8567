----------------------------- MODULE Labs_proofs -----------------------------
(***************************************************************************)
(* Three parts that module Labs runs side by side, each proved on its own: *)
(* the numbering of jobs, for every number of slots, any set of processes  *)
(* and any bound on the numbers; the Tiny server, for any number of        *)
(* clients and uris; and the timing code, for words of any width and any   *)
(* number of times.                                                        *)
(***************************************************************************)
EXTENDS JobTable, Tiny, Timing, JobList_proofs, SequenceTheorems

------------------------------------------------------------------------------
\* Job numbering (JobTable)

\* maxjid is a number in use, or 0, and no number in use is above it.  Any
\* prefix of the slots has such a bound: the first that has none would have a
\* predecessor that has one, and the larger of that and its own number is one.
LEMMA MaxJidBounds ==
  ASSUME NEW ids \in [Slots -> Nat]
  PROVE  /\ maxjid(ids) \in {0} \union {ids[i] : i \in Slots}
         /\ \A i \in Slots : ids[i] <= maxjid(ids)
<1> DEFINE Used == {0} \union {ids[i] : i \in Slots}
           B == {n \in 0 .. MAXJOBS : ~\E m \in Used : \A i \in 1 .. n : ids[i] <= m}
<1> USE MAXJOBSAssumption DEF Slots
<1>1. ASSUME B # {} PROVE FALSE
  <2>1. B \in SUBSET Nat
    OBVIOUS
  <2>2. PICK b \in B : \A k \in B : b <= k
    BY <1>1, <2>1, NatLeast
  <2>3. b # 0
    <3>1. \A i \in 1 .. 0 : ids[i] <= 0
      OBVIOUS
    <3> QED BY <3>1
  <2>4. b - 1 \in 0 .. MAXJOBS /\ b - 1 \notin B
    <3>1. b \in Nat /\ b <= MAXJOBS
      BY <2>2
    <3>2. b - 1 \in 0 .. MAXJOBS /\ ~(b <= b - 1)
      BY <2>3, <3>1
    <3> QED BY <2>2, <3>2
  <2>5. PICK m \in Used : \A i \in 1 .. b-1 : ids[i] <= m
    BY <2>4
  <2>6. b \in Slots /\ m \in Nat /\ ids[b] \in Nat /\ ids[b] \in Used
    BY <2>3
  <2>7. \A i \in 1 .. b : i = b \/ i \in 1 .. b-1
    BY <2>6
  <2>8. \A i \in 1 .. b-1 : ids[i] \in Nat
    BY <2>6
  <2>9. CASE ids[b] <= m
    <3>1. \A i \in 1 .. b : ids[i] <= m
      BY <2>5, <2>7, <2>9
    <3> QED BY <3>1
  <2>10. CASE m < ids[b]
    <3>1. \A i \in 1 .. b : ids[i] <= ids[b]
      BY <2>5, <2>6, <2>7, <2>8, <2>10
    <3> QED BY <3>1, <2>6
  <2> QED
    BY <2>6, <2>9, <2>10
<1>2. \E m \in Used : \A i \in Slots : ids[i] <= m
  <2>1. MAXJOBS \in 0 .. MAXJOBS
    OBVIOUS
  <2> QED BY <1>1, <2>1
<1> QED
  BY <1>2 DEF maxjid

\* If the slots in use are the numbered ones, the list is empty exactly when
\* the largest number is 0.
LEMMA EmptyMax ==
  ASSUME NEW js \in [Slots -> Jobs], NEW ids \in [Slots -> Nat],
         \A i \in Slots : ids[i] # 0 <=> js[i].pid # NoPid
  PROVE  Listed(js) = {} <=> maxjid(ids) = 0
<1>1. /\ maxjid(ids) \in {0} \union {ids[i] : i \in Slots}
      /\ \A i \in Slots : ids[i] <= maxjid(ids)
  BY MaxJidBounds
<1>2. Listed(js) = {} <=> \A i \in Slots : js[i].pid = NoPid
  BY DEF Listed
<1>3. Listed(js) = {} <=> \A i \in Slots : ids[i] = 0
  BY <1>2
<1>4. \A i \in Slots : ids[i] \in Nat
  OBVIOUS
<1> QED
  BY <1>1, <1>3, <1>4

------------------------------------------------------------------------------
(***************************************************************************)
(* The parts of NumberingInv are inductive only together: Numbered is      *)
(* what makes the searches by pid and by number agree.                     *)
(***************************************************************************)
LEMMA InitIInv == Init => NumberingInv
<1> SUFFICES ASSUME Init PROVE NumberingInv
  OBVIOUS
<1>1. TypeOK /\ Numbered /\ PidUnique
  BY MAXJOBSAssumption DEF Init, TypeOK, Numbered, PidUnique, Distinct, initjobs,
     clearjob, Jobs, JobStates
<1>2. maxjid(jid) \in {0} \union {jid[i] : i \in Slots}
  BY <1>1, MaxJidBounds DEF TypeOK
<1>3. NextIsFree /\ EmptyRestarts
  BY <1>2 DEF Init, NextIsFree, EmptyRestarts
<1> QED
  BY <1>1, <1>3 DEF NumberingInv

LEMMA AddJobIInv ==
  ASSUME NumberingInv, NEW p \in Pids, AddJob(p)
  PROVE  NumberingInv'
<1> USE DEF NumberingInv
<1>1. jobs' \in [Slots -> Jobs] /\ Distinct(jobs')
  BY AddJobEffect, AddJobDistinct DEF AddJob, TypeOK, PidUnique, JobStates
<1>2. CASE FreeSlots(jobs) = {}
  <2>1. UNCHANGED vars
    BY <1>2 DEF AddJob, addjob, vars
  <2> QED
    BY <2>1 DEF TypeOK, Numbered, NextIsFree, EmptyRestarts, PidUnique, vars
<1>3. CASE FreeSlots(jobs) # {}
  <2> DEFINE f == First(FreeSlots(jobs))
  <2>1. f \in Slots /\ jobs[f].pid = NoPid
    BY <1>3, FirstFits DEF FreeSlots
  <2>2. jobs' = [jobs EXCEPT ![f] = [pid |-> p, state |-> "BG"]]
    BY <1>3, NoPidAssumption DEF AddJob, addjob
  <2>3. jid' = [jid EXCEPT ![f] = nextjid] /\ nextjid' = NextNumber(nextjid)
    BY <1>3 DEF AddJob
  <2> HIDE DEF f
  <2>4. TypeOK'
    <3>1. NextNumber(nextjid) \in Nat \ {0}
      BY DEF TypeOK, NextNumber
    <3>2. jid' \in [Slots -> Nat]
      BY <2>3 DEF TypeOK
    <3> QED
      BY <1>1, <2>3, <3>1, <3>2 DEF TypeOK
  <2>5. Numbered'
    BY <2>1, <2>2, <2>3, NoPidAssumption DEF Numbered, TypeOK
  <2>6. NextIsFree'
    <3>1. maxjid(jid') \in {0} \union {jid'[i] : i \in Slots} /\ \A i \in Slots : jid'[i] <= maxjid(jid')
      BY <2>4, MaxJidBounds DEF TypeOK
    <3>2. /\ maxjid(jid) \in {0} \union {jid[i] : i \in Slots}
          /\ \A i \in Slots : jid[i] <= maxjid(jid)
      BY MaxJidBounds DEF TypeOK
    <3>3. jid'[f] = nextjid /\ \A i \in Slots : i # f => jid'[i] = jid[i]
      BY <2>1, <2>3 DEF TypeOK
    <3>4. maxjid(jid) \in Nat /\ maxjid(jid') \in Nat /\ nextjid <= maxjid(jid')
      BY <2>1, <2>4, <3>1, <3>2, <3>3 DEF TypeOK
    <3>5. maxjid(jid') = 0 \/ maxjid(jid') = nextjid \/ \E i \in Slots : maxjid(jid') = jid[i]
      BY <3>1, <3>3
    <3>6. maxjid(jid') = nextjid \/ maxjid(jid') <= maxjid(jid)
      BY <3>2, <3>4, <3>5
    <3>7. \A i \in Slots : i # f => jid[i] <= maxjid(jid')
      BY <3>1, <3>3
    <3>8. jid[f] = 0
      BY <2>1 DEF Numbered
    <3>9. maxjid(jid) <= maxjid(jid')
      BY <3>2, <3>4, <3>7, <3>8
    <3> QED
      BY <2>3, <3>4, <3>6, <3>9, MAXJOBSAssumption DEF NextIsFree, NextNumber, TypeOK
  <2>7. EmptyRestarts'
    <3>1. p \in Listed(jobs')
      BY <2>1, <2>2, NoPidAssumption DEF Listed, TypeOK
    <3> QED
      BY <3>1 DEF EmptyRestarts
  <2> QED
    BY <1>1, <2>4, <2>5, <2>6, <2>7 DEF PidUnique
<1> QED
  BY <1>2, <1>3

LEMMA DeleteJobIInv ==
  ASSUME NumberingInv, NEW p \in Pids, DeleteJob(p)
  PROVE  NumberingInv'
<1> USE DEF NumberingInv
<1>1. jobs' \in [Slots -> Jobs] /\ Distinct(jobs')
  BY DeleteJobEffect, DeleteJobDistinct DEF DeleteJob, TypeOK, PidUnique
<1>2. CASE getjobpid(jobs, p) = NoSlot
  <2>1. UNCHANGED vars
    BY <1>2 DEF DeleteJob, deletejob, vars
  <2> QED
    BY <2>1 DEF TypeOK, Numbered, NextIsFree, EmptyRestarts, PidUnique, vars
<1>3. CASE getjobpid(jobs, p) # NoSlot
  <2> DEFINE g == getjobpid(jobs, p)
  <2>1. g \in Slots /\ jobs[g].pid = p
    BY <1>3, GetJobPidFinds DEF TypeOK
  <2>2. /\ jobs' = [jobs EXCEPT ![g] = clearjob]
        /\ jid' = [jid EXCEPT ![g] = 0]
        /\ nextjid' = maxjid(jid') + 1
    BY <1>3 DEF DeleteJob, deletejob
  <2> HIDE DEF g
  <2>3. jid' \in [Slots -> Nat]
    BY <2>2 DEF TypeOK
  <2>4. maxjid(jid') \in Nat
    BY <2>3, MaxJidBounds
  <2>5. TypeOK'
    BY <1>1, <2>2, <2>3, <2>4 DEF TypeOK
  <2>6. Numbered'
    BY <2>1, <2>2 DEF Numbered, TypeOK, clearjob
  <2>7. NextIsFree'
    BY <2>2, <2>4 DEF NextIsFree
  <2>8. EmptyRestarts'
    <3>1. Listed(jobs') = {} <=> maxjid(jid') = 0
      BY <2>5, <2>6, EmptyMax DEF TypeOK, Numbered
    <3> QED
      BY <2>2, <2>4, <3>1 DEF EmptyRestarts, Listed
  <2> QED
    BY <1>1, <2>5, <2>6, <2>7, <2>8 DEF PidUnique
<1> QED
  BY <1>2, <1>3

\* Slots, processes and job numbers stay consistent: every slot in use has a
\* number and a process of its own, the next number is free until a number
\* has reached MAXJOBS, and numbering restarts with an empty list.
THEOREM JobTableInvariant == Spec => []NumberingInv
<1>1. Init => NumberingInv
  BY InitIInv
<1>2. NumberingInv /\ [Next]_vars => NumberingInv'
  <2> SUFFICES ASSUME NumberingInv, [Next]_vars PROVE NumberingInv'
    OBVIOUS
  <2>1. CASE UNCHANGED vars
    BY <2>1 DEF NumberingInv, TypeOK, Numbered, NextIsFree, EmptyRestarts, PidUnique, vars
  <2>2. CASE Next
    BY <2>2, AddJobIInv, DeleteJobIInv DEF Next
  <2> QED
    BY <2>1, <2>2
<1> QED
  BY <1>1, <1>2, PTL DEF Spec

\* No process is ever on the list twice.
THEOREM JobsOnce == Spec => []PidUnique
<1>1. NumberingInv => PidUnique
  BY DEF NumberingInv
<1> QED
  BY <1>1, JobTableInvariant, PTL

\* The restart from 1 is the only way to reach a number that may be in use.
THEOREM NextNumberFree == Spec => []NextIsFree
<1>1. NumberingInv => NextIsFree
  BY DEF NumberingInv
<1> QED
  BY <1>1, JobTableInvariant, PTL

------------------------------------------------------------------------------
\* The numbers in use are all different.
DistinctNumbers == \A i, k \in Slots : jid[i] # 0 /\ jid[i] = jid[k] => i = k

\* Looking up a number printed for a job leads back to the job exactly when no
\* other job has the number: the search stops at the first slot that has it.
LEMMA JidFindsDistinct ==
  ASSUME NumberingInv
  PROVE  JidFindsJob <=> DistinctNumbers
<1>1. jobs \in [Slots -> Jobs] /\ jid \in [Slots -> Nat]
  BY DEF NumberingInv, TypeOK
<1>2. ASSUME NEW i \in Slots, jid[i] # 0
      PROVE  /\ jobs[i].pid \in Listed(jobs)
             /\ getjobpid(jobs, jobs[i].pid) = i
             /\ pid2jid(jobs[i].pid) = jid[i]
             /\ i \in JidSlots(jid[i])
             /\ getjobjid(jid[i]) = First(JidSlots(jid[i]))
  <2> DEFINE p == jobs[i].pid
  <2>1. p # NoPid /\ p \in Pids /\ p \in Listed(jobs)
    BY <1>1, <1>2 DEF NumberingInv, Numbered, Listed, Jobs
  <2>2. getjobpid(jobs, p) \in Slots /\ getjobpid(jobs, p) # NoSlot /\ jobs[getjobpid(jobs, p)].pid = p
    BY <1>1, <2>1, GetJobPidFinds
  <2>3. getjobpid(jobs, p) = i
    BY <2>1, <2>2 DEF NumberingInv, PidUnique, Distinct
  <2>4. jid[i] \in Nat /\ ~(jid[i] < 1) /\ i \in JidSlots(jid[i])
    BY <1>1, <1>2 DEF JidSlots
  <2> QED
    BY <2>1, <2>2, <2>3, <2>4 DEF pid2jid, getjobjid
<1>3. ASSUME JidFindsJob, NEW i \in Slots, NEW k \in Slots, jid[i] # 0, jid[i] = jid[k]
      PROVE  i = k
  <2>1. getjobjid(jid[i]) = i
    BY <1>2, <1>3 DEF JidFindsJob
  <2>2. getjobjid(jid[k]) = k
    BY <1>2, <1>3 DEF JidFindsJob
  <2> QED
    BY <1>3, <2>1, <2>2
<1>4. ASSUME DistinctNumbers, NEW p \in Listed(jobs)
      PROVE  getjobjid(pid2jid(p)) = getjobpid(jobs, p)
  <2>1. PICK i \in Slots : jobs[i].pid = p /\ p # NoPid
    BY <1>4 DEF Listed
  <2>2. jid[i] # 0
    BY <2>1 DEF NumberingInv, Numbered
  <2>3. JidSlots(jid[i]) = {i}
    BY <1>4, <2>2 DEF DistinctNumbers, JidSlots
  <2>4. First(JidSlots(jid[i])) = i
    BY <2>3, FirstFits
  <2> QED
    BY <1>2, <2>1, <2>2, <2>4
<1> QED
  BY <1>3, <1>4 DEF JidFindsJob, DistinctNumbers

\* An addition below the limit gives a number above all in use; with a full
\* list it changes nothing.
LEMMA AddJobDistinctNumbers ==
  ASSUME NumberingInv, DistinctNumbers, maxjid(jid) < MAXJOBS, NEW p \in Pids, AddJob(p)
  PROVE  DistinctNumbers'
<1>1. CASE FreeSlots(jobs) = {}
  BY <1>1 DEF AddJob, DistinctNumbers
<1>2. CASE FreeSlots(jobs) # {}
  <2>1. PICK f \in Slots : jid' = [jid EXCEPT ![f] = nextjid]
    BY <1>2, FirstFits DEF AddJob, FreeSlots
  <2>2. \A i \in Slots : jid[i] <= maxjid(jid)
    BY MaxJidBounds DEF NumberingInv, TypeOK
  <2>3. jid \in [Slots -> Nat] /\ nextjid \in Nat /\ maxjid(jid) < nextjid
    BY MaxJidBounds, MAXJOBSAssumption DEF NumberingInv, TypeOK, NextIsFree
  <2>4. maxjid(jid) \in Nat
    BY <2>3, MaxJidBounds
  <2>5. \A i \in Slots : jid[i] # nextjid
    BY <2>2, <2>3, <2>4
  <2> QED
    BY <2>1, <2>3, <2>5 DEF DistinctNumbers
<1> QED
  BY <1>1, <1>2

\* fg and bg find the job that is named: the only step that can give a number
\* twice is an addition after a number has reached MAXJOBS.
THEOREM NumbersRepeatOnlyAfterRestart == Spec => OnlyRestartRepeats
<1>1. NumberingInv /\ NumberingInv' /\ [Next]_vars
        => [JidFindsJob /\ ~JidFindsJob' => maxjid(jid) >= MAXJOBS]_vars
  <2> SUFFICES ASSUME NumberingInv, NumberingInv', Next, DistinctNumbers,
                      ~(maxjid(jid) >= MAXJOBS)
               PROVE  DistinctNumbers'
    <3>1. NumberingInv => (JidFindsJob <=> DistinctNumbers)
      BY JidFindsDistinct
    <3>2. NumberingInv' => (JidFindsJob' <=> DistinctNumbers')
      BY JidFindsDistinct, PTL
    <3> QED
      BY <3>1, <3>2
  <2>1. maxjid(jid) \in Nat /\ maxjid(jid) < MAXJOBS
    BY MaxJidBounds, MAXJOBSAssumption DEF NumberingInv, TypeOK
  <2>2. ASSUME NEW p \in Pids, AddJob(p) PROVE DistinctNumbers'
    BY <2>1, <2>2, AddJobDistinctNumbers
  <2>3. ASSUME NEW p \in Pids, DeleteJob(p) PROVE DistinctNumbers'
    <3>1. CASE UNCHANGED jid
      BY <3>1 DEF DistinctNumbers
    <3>2. CASE jid' = [jid EXCEPT ![getjobpid(jobs, p)] = 0]
      BY <3>2 DEF DistinctNumbers, NumberingInv, TypeOK
    <3> QED
      BY <2>3, <3>1, <3>2 DEF DeleteJob
  <2> QED
    BY <2>2, <2>3 DEF Next
<1> QED
  BY <1>1, JobTableInvariant, PTL DEF Spec, OnlyRestartRepeats

------------------------------------------------------------------------------
\* The Tiny server (Tiny): what a client gets is a response to what it has asked
\* for, and what stops the server is a client that has left or a file that it cannot open and
\* map, or a call that the system refuses.  Nothing is said about a client that has left, so the invariant is about the
\* others.

\* What stat may find.
Kinds == {"file", "refused", "unreadable", "program", "unexecutable", "missing"}

\* What is written, and what stands for a step between two writes.
Codes  == {"501", "404", "403"}
Pieces == Codes \union {"200", "type", "length", "text", "server", "output", "file", "refused",
                         "open", "run", "wait"}

ConnType == [request : Requests \union {NoRequest}, lines : Seq(Requests \union {Blank, Cut, Broken}),
             blank : BOOLEAN, left : BOOLEAN, got : Seq(Pieces), closed : BOOLEAN]

TypeInv == /\ files \in [Uris -> Kinds]
           /\ backlog \in Seq(Clients)
           /\ conn \in [Clients -> ConnType]
           /\ pc \in {"accept", "request", "headers", "stat", "write", "blocked", "close",
                    "dead", "failed"}
           /\ client \in Clients
           /\ todo \in Seq(Pieces)
           /\ request \in Requests \union {NoRequest}
           /\ pc \in {"headers", "stat", "write", "blocked"} => request \in Requests

\* A file stays as it is until it is gone.
FilesInv == \A u \in Uris : files[u] \in {Kind[u], "missing"}

Serving(c) == pc # "accept" /\ client = c

\* A client waits in one place, and is not served while it waits.
QueueInv == /\ \A i, j \in 1 .. Len(backlog) : backlog[i] = backlog[j] => i = j
            /\ \A i \in 1 .. Len(backlog) : ~conn[backlog[i]].closed /\ ~Serving(backlog[i])

Whole(r) == {Response(r, kind) : kind \in {Kind[r.uri], "missing"}}

\* A response that its program has left without an end.
Endless(r, g) == /\ r.method = "GET" /\ Kind[r.uri] = "program" /\ files[r.uri] = "missing"
                 /\ g = <<"200", "server">>

\* What has been written and what is still to do.
Plain(r, g, t)   == g \o t \in Whole(r) /\ \A i \in 1 .. Len(t) : t[i] \notin {"open", "run", "wait"}
Static(r, g, t)  ==
  LET k == Kind[r.uri] IN
  /\ r.method = "GET" /\ k \in {"file", "refused"}
  /\ \/ g = <<>> /\ t = <<"200", "open", k>>
     \/ g = <<"200">> /\ t = <<"open", k>>
Dynamic(r, g, t) ==
  /\ r.method = "GET" /\ Kind[r.uri] = "program"
  /\ \/ g = <<>> /\ t = <<"200", "server", "run">>
     \/ g = <<"200">> /\ t = <<"server", "run">>
     \/ g = <<"200", "server">> /\ t \in {<<"run">>, <<"wait">>}
Progress(r, g, t) == \/ Plain(r, g, t) \/ Static(r, g, t) \/ Dynamic(r, g, t)
                     \/ Endless(r, g) /\ t = <<>>

\* The lines of a client from which none has been read.
Sent(x) == IF x.request = NoRequest THEN <<>>
           ELSE IF x.blank THEN <<x.request, Blank>> ELSE <<x.request>>

\* The connection that is served.
ServedInv(x) ==
  /\ ~x.closed /\ pc # "close"
  /\ pc \in {"headers", "stat", "write", "blocked", "dead"} =>
       request = x.request /\ request \in Requests
  /\ pc \in {"headers", "stat"} => x.got = <<>> /\ request.method = "GET"
  /\ pc = "headers" => x.lines = IF x.blank THEN <<Blank>> ELSE <<>>
  /\ pc \in {"write", "blocked"} => Progress(request, x.got, todo)
  /\ pc = "dead" => files[request.uri] \in {"missing", "refused"}
  /\ pc \in {"dead", "failed"} /\ x.got # <<>> => \E w \in Whole(x.request) : IsPrefix(x.got, w)

ConnInv(c) ==
  LET x == conn[c] IN
  ~x.left =>
    /\ x.request = NoRequest => ~x.blank
    /\ x.closed => x.request \in Requests /\ (x.got \in Whole(x.request) \/ Endless(x.request, x.got))
    /\ ~x.closed /\ (Serving(c) => pc = "request") => x.got = <<>> /\ x.lines = Sent(x)
    /\ Serving(c) => ServedInv(x)

ServerInv == TypeInv /\ FilesInv /\ QueueInv /\ \A c \in Clients : ConnInv(c)

------------------------------------------------------------------------------
\* Short sequences, and what they are put together from.
LEMMA TwoElements ==
  ASSUME NEW S, NEW s \in Seq(S), Len(s) = 2
  PROVE  s = <<s[1], s[2]>>
  OBVIOUS

LEMMA ThreeElements ==
  ASSUME NEW S, NEW s \in Seq(S), Len(s) = 3
  PROVE  s = <<s[1], s[2], s[3]>>
  OBVIOUS

LEMMA OneAndOne ==
  ASSUME NEW a, NEW b
  PROVE  <<a>> \o <<b>> = <<a, b>>
<1> DEFINE g == <<a>>  h == <<b>>  s == g \o h
<1>1. /\ g \in Seq({a, b}) /\ Len(g) = 1 /\ g[1] = a
      /\ h \in Seq({a, b}) /\ Len(h) = 1 /\ h[1] = b
  OBVIOUS
<1> HIDE DEF g, h
<1>2. /\ s \in Seq({a, b}) /\ Len(s) = Len(g) + Len(h)
      /\ \A i \in 1 .. Len(g) + Len(h) : s[i] = IF i <= Len(g) THEN g[i] ELSE h[i - Len(g)]
  BY SMTT(30), <1>1, ConcatProperties
<1> HIDE DEF s
<1>3. Len(s) = 2 /\ s[1] = a /\ s[2] = b
  BY <1>1, <1>2
<1>4. s = <<s[1], s[2]>>
  BY <1>2, <1>3, TwoElements
<1> QED
  BY <1>3, <1>4 DEF s, g, h

LEMMA TwoAndOne ==
  ASSUME NEW a, NEW b, NEW c
  PROVE  <<a, b>> \o <<c>> = <<a, b, c>>
<1> DEFINE g == <<a, b>>  h == <<c>>  s == g \o h
<1>1. /\ g \in Seq({a, b, c}) /\ Len(g) = 2 /\ g[1] = a /\ g[2] = b
      /\ h \in Seq({a, b, c}) /\ Len(h) = 1 /\ h[1] = c
  OBVIOUS
<1> HIDE DEF g, h
<1>2. /\ s \in Seq({a, b, c}) /\ Len(s) = Len(g) + Len(h)
      /\ \A i \in 1 .. Len(g) + Len(h) : s[i] = IF i <= Len(g) THEN g[i] ELSE h[i - Len(g)]
  BY <1>1, ConcatProperties
<1> HIDE DEF s
<1>3. Len(s) = 3 /\ s[1] = a /\ s[2] = b /\ s[3] = c
  BY <1>1, <1>2
<1>4. s = <<s[1], s[2], s[3]>>
  BY <1>2, <1>3, ThreeElements
<1> QED
  BY <1>3, <1>4 DEF s, g, h

LEMMA AppendOne ==
  ASSUME NEW S, NEW g \in Seq(S), NEW b \in S
  PROVE  Append(g, b) = g \o <<b>>
  BY AppendIsConcat

\* Moving the first piece from what is to do to what has been got.
LEMMA Moved ==
  ASSUME NEW S, NEW g \in Seq(S), NEW t \in Seq(S), t # <<>>
  PROVE  Append(g, Head(t)) \o Tail(t) = g \o t
  OBVIOUS

LEMMA FirstPart ==
  ASSUME NEW S, NEW g \in Seq(S), NEW t \in Seq(S)
  PROVE  IsPrefix(g, g \o t)
  BY DEF IsPrefix

LEMMA OneMore ==
  ASSUME NEW a, NEW b
  PROVE  Append(<<>>, a) = <<a>> /\ Append(<<a>>, b) = <<a, b>>
<1>1. \A S : \A g \in Seq(S), x \in S : Append(g, x) = g \o <<x>>
  BY AppendOne
<1>2. <<a>> \in Seq({a, b}) /\ b \in {a, b}
  OBVIOUS
<1>3. Append(<<a>>, b) = <<a>> \o <<b>>
  BY <1>1, <1>2, Zenon
<1>4. Append(<<>>, a) = <<a>>
  OBVIOUS
<1> QED
  BY <1>3, <1>4, OneAndOne, Zenon

LEMMA OneMoreThanTwo ==
  ASSUME NEW a, NEW b, NEW c
  PROVE  Append(<<a, b>>, c) = <<a, b, c>>
<1>1. \A S : \A g \in Seq(S), x \in S : Append(g, x) = g \o <<x>>
  BY AppendOne
<1>2. <<a, b>> \in Seq({a, b, c}) /\ c \in {a, b, c}
  OBVIOUS
<1>3. Append(<<a, b>>, c) = <<a, b>> \o <<c>>
  BY <1>1, <1>2, Zenon
<1> QED
  BY <1>3, TwoAndOne, Zenon

------------------------------------------------------------------------------
\* What has been got while a response is written is a part of a response.
LEMMA WholeResponses ==
  ASSUME NEW r \in Requests, Kind \in [Uris -> Kinds]
  PROVE  /\ r.method # "GET" => Whole(r) = {Error("501")}
         /\ r.method = "GET" =>
              /\ Error("404") \in Whole(r)
              /\ Kind[r.uri] \in {"unreadable", "unexecutable"} => Error("403") \in Whole(r)
              /\ Kind[r.uri] \in {"file", "refused"} => <<"200", Kind[r.uri]>> \in Whole(r)
              /\ Kind[r.uri] = "program" => <<"200", "server", "output">> \in Whole(r)
<1>1. r.uri \in Uris /\ Kind[r.uri] \in Kinds
  BY RequestsAssumption
<1>2. \A kind : kind \in {Kind[r.uri], "missing"} => Response(r, kind) \in Whole(r)
  BY DEF Whole
<1>3. CASE r.method # "GET"
  BY <1>3 DEF Whole, Response
<1>4. CASE r.method = "GET"
  <2>1. Response(r, "missing") = Error("404")
    BY <1>4 DEF Response
  <2>2. Kind[r.uri] \in {"unreadable", "unexecutable"} => Response(r, Kind[r.uri]) = Error("403")
    BY <1>4 DEF Response
  <2>3. Kind[r.uri] \in {"file", "refused"} => Response(r, Kind[r.uri]) = <<"200", Kind[r.uri]>>
    BY <1>4 DEF Response
  <2>4. Kind[r.uri] = "program" => Response(r, Kind[r.uri]) = <<"200", "server", "output">>
    BY <1>4 DEF Response
  <2> QED
    BY <1>2, <1>4, <2>1, <2>2, <2>3, <2>4, Zenon
<1> QED
  BY <1>3, <1>4

LEMMA ProgressIsPart ==
  ASSUME NEW r \in Requests, Kind \in [Uris -> Kinds],
         NEW g \in Seq(Pieces), NEW t \in Seq(Pieces), Progress(r, g, t), g # <<>>
  PROVE  \E w \in Whole(r) : IsPrefix(g, w)
<1>1. CASE Plain(r, g, t)
  BY <1>1, FirstPart DEF Plain
<1>2. CASE Static(r, g, t)
  <2>1. <<"200", Kind[r.uri]>> \in Whole(r) /\ g = <<"200">>
    BY <1>2, WholeResponses DEF Static
  <2>2. IsPrefix(g, <<"200", Kind[r.uri]>>)
    BY <2>1 DEF IsPrefix
  <2> QED
    BY <2>1, <2>2
<1>3. CASE Dynamic(r, g, t) \/ Endless(r, g)
  <2>1. <<"200", "server", "output">> \in Whole(r) /\ (g = <<"200">> \/ g = <<"200", "server">>)
    BY <1>3, WholeResponses DEF Dynamic, Endless
  <2>2. CASE g = <<"200">>
    <3> IsPrefix(g, <<"200", "server", "output">>)
      BY <2>2 DEF IsPrefix
    <3> QED
      BY <2>1
  <2>3. CASE g = <<"200", "server">>
    <3> IsPrefix(g, <<"200", "server", "output">>)
      BY <2>3 DEF IsPrefix
    <3> QED
      BY <2>1
  <2> QED
    BY <2>1, <2>2, <2>3
<1>4. \/ Plain(r, g, t) \/ Static(r, g, t)
      \/ Dynamic(r, g, t) \/ Endless(r, g)
  BY DEF Progress
<1> QED
  BY <1>1, <1>2, <1>3, <1>4, Zenon

------------------------------------------------------------------------------
LEMMA InitKeeps ==
  ASSUME Kind \in [Uris -> Kinds], InitServer
  PROVE  ServerInv
<1>1. NewConn \in ConnType
  BY DEF NewConn, ConnType
<1>2. TypeInv
  BY <1>1 DEF InitServer, TypeInv
<1>3. FilesInv /\ QueueInv
  BY DEF InitServer, FilesInv, QueueInv
<1>4. \A c \in Clients : ConnInv(c)
  BY DEF InitServer, ConnInv, NewConn, Serving, Sent
<1> QED
  BY <1>2, <1>3, <1>4 DEF ServerInv

\* A client that is not served and whose connection stays as it is.
LEMMA OthersKept ==
  ASSUME ServerInv, NEW c \in Clients, UNCHANGED <<files, conn>>, ~Serving(c), ~Serving(c)'
  PROVE  ConnInv(c)'
  BY DEF ServerInv, ConnInv, Serving, Endless

\* The same when another connection changes.
LEMMA OtherConnections ==
  ASSUME ServerInv, NEW c \in Clients, UNCHANGED files, conn'[c] = conn[c],
         ~Serving(c), ~Serving(c)'
  PROVE  ConnInv(c)'
  BY DEF ServerInv, ConnInv, Serving, Endless

\* The same when nothing else changes.
LEMMA ConnKept ==
  ASSUME ServerInv, NEW c \in Clients, UNCHANGED <<files, pc, client, request, todo>>,
         conn'[c] = conn[c]
  PROVE  ConnInv(c)'
<1>1. CASE ~Serving(c)
  BY <1>1, OtherConnections DEF Serving
<1>2. CASE Serving(c)
  <2>1. ConnInv(c)
    BY DEF ServerInv
  <2>2. ServedInv(conn[c]) => ServedInv(conn[c])'
    BY DEF ServedInv, Progress, Plain, Static, Dynamic, Endless
  <2> QED
    BY <1>2, <2>1, <2>2 DEF ConnInv, Serving, Endless
<1> QED
  BY <1>1, <1>2

\* The steps of a client.
LEMMA ConnectKeeps ==
  ASSUME ServerInv, NEW c \in Clients, Connect(c)
  PROVE  ServerInv'
<1> USE DEF Connect
<1>1. backlog' \in Seq(Clients) /\ Len(backlog') = Len(backlog) + 1 /\ backlog'[Len(backlog) + 1] = c
  BY AppendProperties DEF ServerInv, TypeInv
<1>2. \A i \in 1 .. Len(backlog) : backlog'[i] = backlog[i] /\ backlog[i] # c
  BY AppendProperties DEF ServerInv, TypeInv, Range
<1>3. Len(backlog) \in Nat
  BY DEF ServerInv, TypeInv
<1>4. QueueInv'
  <2>1. ~conn[c].closed /\ ~Serving(c)
    BY DEF NewConn, Serving
  <2> QED
    BY <1>1, <1>2, <1>3, <2>1 DEF ServerInv, QueueInv, Serving
<1>5. TypeInv' /\ FilesInv'
  BY <1>1 DEF ServerInv, TypeInv, FilesInv
<1>6. \A d \in Clients : ConnInv(d)'
  BY DEF ServerInv, ConnInv, Serving, Endless, ServedInv, Progress, Plain, Static, Dynamic
<1> QED
  BY <1>4, <1>5, <1>6 DEF ServerInv

LEMMA SendRequestKeeps ==
  ASSUME ServerInv, NEW c \in Clients, SendRequest(c)
  PROVE  ServerInv'
<1> DEFINE x == conn[c]
<1>1. PICK r \in Requests :
        conn' = [conn EXCEPT ![c].request = r, ![c].lines = Append(@, r)]
  BY DEF SendRequest
<1>2. x \in ConnType /\ conn \in [Clients -> ConnType]
  BY DEF ServerInv, TypeInv
<1>3. conn'[c] = [x EXCEPT !.request = r, !.lines = Append(@, r)]
      /\ \A d \in Clients : d # c => conn'[d] = conn[d]
  BY <1>1, <1>2
<1>4. Append(x.lines, r) \in Seq(Requests \union {Blank, Cut, Broken})
  BY <1>2, AppendProperties DEF ConnType
<1>5. conn'[c] \in ConnType
  BY <1>2, <1>3, <1>4 DEF ConnType
<1>6. TypeInv'
  BY <1>1, <1>2, <1>3, <1>5 DEF SendRequest, ServerInv, TypeInv
<1>7. FilesInv'
  BY DEF SendRequest, ServerInv, FilesInv
<1>8. conn'[c].closed = x.closed /\ conn'[c].left = x.left /\ conn'[c].blank = x.blank
      /\ conn'[c].got = x.got /\ conn'[c].request = r /\ conn'[c].lines = Append(x.lines, r)
  BY <1>2, <1>3 DEF ConnType
<1>9. QueueInv'
  BY <1>3, <1>8 DEF SendRequest, ServerInv, QueueInv, Serving, TypeInv
<1>10. x.request = NoRequest /\ ~x.left /\ r # NoRequest /\ pc # "failed"
  BY RequestsAssumption DEF SendRequest, Connected, Alive, NoRequest, Line
<1>11. NoRequest \notin Requests
  BY RequestsAssumption DEF NoRequest, Line
<1>12. ConnInv(c)
  BY DEF ServerInv
<1>13. ~x.closed /\ ~x.blank /\ (Serving(c) => pc = "request")
  BY <1>10, <1>11, <1>12 DEF ConnInv, ServedInv, ServerInv, TypeInv, Serving
<1>14. x.got = <<>> /\ x.lines = <<>>
  BY <1>10, <1>12, <1>13 DEF ConnInv, Sent
<1>15. Append(<<>>, r) = <<r>>
  BY OneMore
<1>16. ConnInv(c)'
  BY <1>8, <1>10, <1>13, <1>14, <1>15 DEF ConnInv, Sent, Serving, ServedInv, SendRequest
<1>17. \A d \in Clients : d # c => ConnInv(d)'
  BY <1>3, ConnKept DEF SendRequest
<1> QED
  BY <1>6, <1>7, <1>9, <1>16, <1>17 DEF ServerInv

LEMMA SendBlankKeeps ==
  ASSUME ServerInv, NEW c \in Clients, SendBlank(c)
  PROVE  ServerInv'
<1> DEFINE x == conn[c]
<1>1. conn' = [conn EXCEPT ![c].blank = TRUE, ![c].lines = Append(@, Blank)]
  BY DEF SendBlank
<1>2. x \in ConnType /\ conn \in [Clients -> ConnType]
  BY DEF ServerInv, TypeInv
<1>3. conn'[c] = [x EXCEPT !.blank = TRUE, !.lines = Append(@, Blank)]
      /\ \A d \in Clients : d # c => conn'[d] = conn[d]
  BY <1>1, <1>2
<1>4. Append(x.lines, Blank) \in Seq(Requests \union {Blank, Cut, Broken})
  BY <1>2, AppendProperties DEF ConnType
<1>5. conn'[c] \in ConnType
  BY <1>2, <1>3, <1>4 DEF ConnType
<1>6. TypeInv'
  BY <1>1, <1>2, <1>3, <1>5 DEF SendBlank, ServerInv, TypeInv
<1>7. FilesInv'
  BY DEF SendBlank, ServerInv, FilesInv
<1>8. conn'[c].closed = x.closed /\ conn'[c].left = x.left /\ conn'[c].blank
      /\ conn'[c].got = x.got /\ conn'[c].request = x.request
      /\ conn'[c].lines = Append(x.lines, Blank)
  BY <1>2, <1>3 DEF ConnType
<1>9. QueueInv'
  BY <1>3, <1>8 DEF SendBlank, ServerInv, QueueInv, Serving, TypeInv
<1>10. x.request # NoRequest /\ ~x.left /\ ~x.blank
  BY DEF SendBlank, Connected
<1>11. ConnInv(c)
  BY DEF ServerInv
<1>12. Append(<<>>, Blank) = <<Blank>> /\ Append(<<x.request>>, Blank) = <<x.request, Blank>>
  BY OneMore
<1>13. ~x.closed /\ (Serving(c) => pc = "request") => ConnInv(c)'
  BY <1>8, <1>10, <1>11, <1>12 DEF ConnInv, Sent, Serving, ServedInv, SendBlank
<1>14. Serving(c) /\ pc # "request" => ConnInv(c)'
  <2> SUFFICES ASSUME Serving(c), pc # "request"
               PROVE  ConnInv(c)'
    OBVIOUS
  <2>1. ServedInv(x)
    BY <1>10, <1>11 DEF ConnInv
  <2>2. ServedInv(conn[c])'
    BY <1>8, <1>10, <1>12, <2>1
       DEF SendBlank, ServedInv, Progress, Plain, Static, Dynamic, Endless
  <2> QED
    BY <1>8, <1>10, <2>1, <2>2 DEF ConnInv, Serving, SendBlank, ServedInv
<1>15. x.closed => Serving(c)
  BY <1>10 DEF SendBlank, Connected, Serving, ServerInv, QueueInv, TypeInv, Range
<1>16. Serving(c) => ~x.closed
  BY <1>10, <1>11 DEF ConnInv, ServedInv
<1>17. \A d \in Clients : d # c => ConnInv(d)'
  BY <1>3, ConnKept DEF SendBlank
<1> QED
  BY <1>6, <1>7, <1>9, <1>13, <1>14, <1>15, <1>16, <1>17 DEF ServerInv

LEMMA LeaveKeeps ==
  ASSUME ServerInv, NEW c \in Clients, Leave(c)
  PROVE  ServerInv'
<1> DEFINE x == conn[c]
<1>1. PICK lines \in {x.lines, <<Broken>>, Append(x.lines, Cut)} :
        conn' = [conn EXCEPT ![c].left = TRUE, ![c].lines = lines]
  BY DEF Leave
<1>2. x \in ConnType /\ conn \in [Clients -> ConnType]
  BY DEF ServerInv, TypeInv
<1>3. conn'[c] = [x EXCEPT !.left = TRUE, !.lines = lines]
      /\ \A d \in Clients : d # c => conn'[d] = conn[d]
  BY <1>1, <1>2
<1>4. lines \in Seq(Requests \union {Blank, Cut, Broken})
  <2> DEFINE S == Requests \union {Blank, Cut, Broken}
  <2>1. Cut \in S /\ Broken \in S /\ x.lines \in Seq(S)
    BY <1>2 DEF ConnType
  <2> HIDE DEF S
  <2>2. <<Broken>> \in Seq(S) /\ Append(x.lines, Cut) \in Seq(S)
    BY <2>1, AppendProperties
  <2> QED
    BY <1>1, <2>1, <2>2 DEF S
<1>5. conn'[c] \in ConnType
  BY <1>2, <1>3, <1>4 DEF ConnType
<1>6. TypeInv'
  BY <1>1, <1>2, <1>3, <1>5 DEF Leave, ServerInv, TypeInv
<1>7. FilesInv'
  BY DEF Leave, ServerInv, FilesInv
<1>8. conn'[c].closed = x.closed /\ conn'[c].left
  BY <1>2, <1>3 DEF ConnType
<1>9. QueueInv'
  BY <1>3, <1>8 DEF Leave, ServerInv, QueueInv, Serving, TypeInv
<1>10. ConnInv(c)'
  BY <1>8 DEF ConnInv
<1>11. \A d \in Clients : d # c => ConnInv(d)'
  BY <1>3, ConnKept DEF Leave
<1> QED
  BY <1>6, <1>7, <1>9, <1>10, <1>11 DEF ServerInv

\* A file that goes makes no response wrong: Endless and the server's end allow for it.
LEMMA RemoveFileKeeps ==
  ASSUME ServerInv, NEW u \in Uris, RemoveFile(u)
  PROVE  ServerInv'
<1>1. files \in [Uris -> Kinds] /\ files' = [files EXCEPT ![u] = "missing"]
  BY DEF ServerInv, TypeInv, RemoveFile
<1>2. UNCHANGED <<backlog, conn, pc, client, request, todo>>
  BY DEF RemoveFile
<1>3. \A v \in Uris : files'[v] \in {files[v], "missing"}
  BY <1>1
<1>4. TypeInv'
  BY <1>1, <1>2 DEF ServerInv, TypeInv, Kinds
<1>5. FilesInv'
  BY <1>3 DEF ServerInv, FilesInv
<1>6. QueueInv'
  BY <1>2 DEF ServerInv, QueueInv, Serving
<1>7. \A r \in Requests : \A g : Endless(r, g) => Endless(r, g)'
  BY <1>3, RequestsAssumption DEF Endless
<1>8. ASSUME NEW c \in Clients
      PROVE  ConnInv(c)'
  <2>1. ConnInv(c)
    BY DEF ServerInv
  <2>2. Serving(c)' = Serving(c) /\ conn'[c] = conn[c] /\ Sent(conn[c])' = Sent(conn[c])
    BY <1>2 DEF Serving, Sent
  <2>3. ServedInv(conn[c]) => ServedInv(conn[c])'
    <3>1. request \in Requests => files'[request.uri] \in {files[request.uri], "missing"}
      BY <1>3, RequestsAssumption
    <3>2. request \in Requests /\ Progress(request, conn[c].got, todo)
            => Progress(request, conn[c].got, todo)'
      BY <1>2, <1>7 DEF Progress, Plain, Static, Dynamic
    <3> QED
      BY <1>2, <3>1, <3>2 DEF ServedInv
  <2> QED
    BY <1>2, <1>7, <2>1, <2>2, <2>3 DEF ConnInv
<1> QED
  BY <1>4, <1>5, <1>6, <1>8 DEF ServerInv

------------------------------------------------------------------------------
\* The steps of the server.
LEMMA AcceptKeeps ==
  ASSUME ServerInv, Accept
  PROVE  ServerInv'
<1>1. /\ backlog \in Seq(Clients) /\ backlog # <<>> /\ client' = backlog[1]
      /\ backlog' = Tail(backlog) /\ pc = "accept" /\ pc' \in {"request", "failed"}
      /\ UNCHANGED <<files, conn, request, todo>>
  BY DEF Accept, Refused, ServerInv, TypeInv
<1>2. /\ backlog' \in Seq(Clients) /\ Len(backlog') = Len(backlog) - 1 /\ Len(backlog) \in Nat
      /\ \A i \in 1 .. Len(backlog) - 1 : backlog'[i] = backlog[i + 1]
      /\ 1 \in 1 .. Len(backlog) /\ backlog[1] \in Clients
  BY <1>1
<1>3. TypeInv'
  BY <1>1, <1>2 DEF ServerInv, TypeInv
<1>4. FilesInv'
  BY <1>1 DEF ServerInv, FilesInv
<1>5. QueueInv'
  <2>1. \A i, j \in 1 .. Len(backlog') : backlog'[i] = backlog'[j] => i = j
    BY <1>2 DEF ServerInv, QueueInv
  <2>2. \A i \in 1 .. Len(backlog') : ~conn[backlog'[i]].closed /\ backlog'[i] # client'
    BY <1>1, <1>2 DEF ServerInv, QueueInv
  <2> QED
    BY <1>1, <2>1, <2>2 DEF QueueInv, Serving
<1>6. ~conn[client'].closed
  BY <1>1, <1>2 DEF ServerInv, QueueInv
<1>7. ASSUME NEW c \in Clients, c = client'
      PROVE  ConnInv(c)'
  <2>1. ConnInv(c)
    BY DEF ServerInv
  <2> QED
    BY <1>1, <1>6, <1>7, <2>1 DEF ConnInv, Serving, ServedInv, Sent
<1>8. \A c \in Clients : c # client' => ConnInv(c)'
  BY <1>1, OtherConnections DEF Serving
<1> QED
  BY <1>1, <1>2, <1>3, <1>4, <1>5, <1>7, <1>8 DEF ServerInv

\* A step while a client is served changes no other connection.
LEMMA ServerStep ==
  ASSUME ServerInv, pc # "accept", UNCHANGED <<files, backlog, client>>, TypeInv',
         \A d \in Clients : d # client => conn'[d] = conn[d],
         NEW c \in Clients, c = client, ConnInv(c)'
  PROVE  ServerInv'
<1>1. FilesInv'
  BY DEF ServerInv, FilesInv
<1>2. QueueInv'
  BY DEF ServerInv, QueueInv, Serving, TypeInv
<1>3. \A d \in Clients : d # c => ConnInv(d)'
  BY OtherConnections DEF Serving
<1> QED
  BY <1>1, <1>2, <1>3 DEF ServerInv

\* What the invariant says of the client that is served.
LEMMA Served ==
  ASSUME ServerInv, pc # "accept", ~conn[client].left
  PROVE  ServedInv(conn[client]) /\ (conn[client].request = NoRequest => ~conn[client].blank)
  BY DEF ServerInv, TypeInv, ConnInv, Serving

\* A line that is read leaves a connection of the same type.
LEMMA ReadLineKeeps ==
  ASSUME ServerInv, ReadLine
  PROVE  /\ conn' \in [Clients -> ConnType]
         /\ \A d \in Clients : d # client => conn'[d] = conn[d]
         /\ conn'[client] = [conn[client] EXCEPT !.lines = Tail(@)]
         /\ Head(conn[client].lines) \in Requests \union {Blank, Cut, Broken}
<1>1. /\ conn \in [Clients -> ConnType] /\ client \in Clients
      /\ conn' = [conn EXCEPT ![client].lines = Tail(@)]
      /\ conn[client].lines # <<>>
  BY DEF ServerInv, TypeInv, Unread, ReadLine
<1>2. conn[client].lines \in Seq(Requests \union {Blank, Cut, Broken})
  BY <1>1 DEF ConnType
<1>3. Tail(conn[client].lines) \in Seq(Requests \union {Blank, Cut, Broken})
      /\ Head(conn[client].lines) \in Requests \union {Blank, Cut, Broken}
  BY <1>1, <1>2
<1>4. [conn[client] EXCEPT !.lines = Tail(@)] \in ConnType
  BY <1>1, <1>3 DEF ConnType
<1> QED
  BY <1>1, <1>3, <1>4

LEMMA ErrorPieces ==
  ASSUME NEW code \in Codes
  PROVE  /\ Error(code) \in Seq(Pieces) /\ Error(code) # <<>>
         /\ <<>> \o Error(code) = Error(code)
         /\ \A i \in 1 .. Len(Error(code)) : Error(code)[i] \in {code, "type", "length", "text"}
<1>1. Error(code) \in Seq(Pieces) /\ Len(Error(code)) = 4
  BY DEF Error, Codes, Pieces
<1>2. \A i \in 1 .. 4 : i = 1 \/ i = 2 \/ i = 3 \/ i = 4
  OBVIOUS
<1>3. /\ Error(code)[1] = code /\ Error(code)[2] = "type"
      /\ Error(code)[3] = "length" /\ Error(code)[4] = "text"
  BY DEF Error
<1>4. \A i \in 1 .. Len(Error(code)) : Error(code)[i] \in {code, "type", "length", "text"}
  BY <1>1, <1>2, <1>3
<1>5. <<>> \o Error(code) = Error(code)
  BY <1>1, ConcatEmptySeq
<1> QED
  BY <1>1, <1>4, <1>5

\* The start of an error.
LEMMA ErrorStarts ==
  ASSUME NEW r \in Requests, NEW code \in Codes, Error(code) \in Whole(r)
  PROVE  Error(code) \in Seq(Pieces) /\ Progress(r, <<>>, Error(code))
<1>1. \A x \in {code, "type", "length", "text"} : x \notin {"open", "run", "wait"}
  BY DEF Codes
<1>2. Plain(r, <<>>, Error(code))
  BY <1>1, ErrorPieces DEF Plain
<1> QED
  BY <1>1, <1>2, ErrorPieces DEF Progress

\* A connection that ends with an error is that of a client that has left.
LEMMA NoReset ==
  ASSUME ServerInv, pc \in {"request", "headers"}, Reset
  PROVE  conn[client].left
<1> SUFFICES ASSUME ~conn[client].left
             PROVE  FALSE
  OBVIOUS
<1> DEFINE x == conn[client]
<1>1. ServedInv(x) /\ ConnInv(client) /\ x.lines # <<>> /\ Head(x.lines) = Broken
  BY Served DEF ServerInv, TypeInv, Reset, Unread
<1>2. x.request \in Requests \union {NoRequest}
  BY DEF ServerInv, TypeInv, ConnType
<1>3. pc = "request" => x.lines = Sent(x)
  BY <1>1 DEF ConnInv, ServedInv
<1>4. pc = "headers" => x.lines = <<Blank>>
  BY <1>1 DEF ServedInv
<1>5. x.lines = Sent(x) => Head(x.lines) \in Requests
  BY <1>1, <1>2 DEF Sent
<1>6. Broken \notin Requests /\ Broken # Blank
  BY RequestsAssumption DEF Broken, Blank, Line
<1> QED
  BY <1>1, <1>3, <1>4, <1>5, <1>6

LEMMA ReadRequestKeeps ==
  ASSUME ServerInv, ReadRequest, Kind \in [Uris -> Kinds]
  PROVE  ServerInv'
<1>1. /\ pc = "request" /\ UNCHANGED <<files, backlog, client>> /\ client \in Clients
      /\ conn \in [Clients -> ConnType]
  BY DEF ReadRequest, ServerInv, TypeInv
<1>2. CASE ((AtEnd /\ pc' = "close") \/ ReadError) /\ UNCHANGED <<conn, request, todo>>
  <2>1. TypeInv'
    BY <1>1, <1>2 DEF ServerInv, TypeInv, ReadError
  <2>2. AtEnd \/ Reset => conn[client].left
    BY <1>1, NoReset DEF AtEnd
  <2>3. ASSUME NEW c \in Clients, c = client
        PROVE  ConnInv(c)'
    BY <1>1, <1>2, <2>2, <2>3 DEF ConnInv, ReadError
  <2> QED
    BY <1>1, <1>2, <2>1, <2>3, ServerStep
<1>3. CASE /\ ReadLine
           /\ \E r \in Scanned(Head(conn[client].lines)) :
                /\ request' = r
                /\ IF r.method = "GET" THEN pc' = "headers" /\ UNCHANGED todo
                                       ELSE Answer(Error("501"))
  <2>1. PICK r \in Scanned(Head(conn[client].lines)) :
          /\ request' = r
          /\ IF r.method = "GET" THEN pc' = "headers" /\ UNCHANGED todo
                                 ELSE Answer(Error("501"))
    BY <1>3
  <2>2. r \in Requests /\ (Head(conn[client].lines) \in Requests => r = Head(conn[client].lines))
    BY DEF Scanned
  <2>3. todo' \in Seq(Pieces)
    <3>1. Error("501") \in Seq(Pieces)
      BY ErrorPieces DEF Codes
    <3> QED
      BY <2>1, <3>1 DEF Answer, ServerInv, TypeInv
  <2>4. TypeInv'
    BY <1>1, <1>3, <2>1, <2>2, <2>3, ReadLineKeeps DEF Answer, ServerInv, TypeInv
  <2>5. ASSUME NEW c \in Clients, c = client
        PROVE  ConnInv(c)'
    <3>1. conn'[c] = [conn[c] EXCEPT !.lines = Tail(@)] /\ conn[c] \in ConnType
      BY <1>1, <1>3, <2>5, ReadLineKeeps
    <3>2. /\ conn'[c].left = conn[c].left /\ conn'[c].closed = conn[c].closed
          /\ conn'[c].request = conn[c].request /\ conn'[c].blank = conn[c].blank
          /\ conn'[c].got = conn[c].got /\ conn'[c].lines = Tail(conn[c].lines)
      BY <3>1 DEF ConnType
    <3> SUFFICES ASSUME ~conn[c].left
                 PROVE  ConnInv(c)'
      BY <3>2 DEF ConnInv
    <3>3. ServedInv(conn[c]) /\ ConnInv(c)
      BY <1>1, <2>5, Served DEF ServerInv
    <3>4. ~conn[c].closed /\ conn[c].got = <<>> /\ conn[c].lines = Sent(conn[c])
      BY <1>1, <3>3 DEF ConnInv, ServedInv
    <3>5. conn[c].request # NoRequest /\ conn[c].request \in Requests
      BY <1>3, <2>5, <3>1, <3>4 DEF ReadLine, Unread, Sent, ConnType
    <3>6. r = conn[c].request
      <4>1. Head(conn[c].lines) = conn[c].request
        BY <3>4, <3>5 DEF Sent
      <4> QED
        BY <2>2, <2>5, <3>5, <4>1
    <3>7. Tail(conn[c].lines) = IF conn[c].blank THEN <<Blank>> ELSE <<>>
      BY <3>4, <3>5 DEF Sent
    <3>8. CASE r.method = "GET"
      <4>1. pc' = "headers" /\ request' = r
        BY <2>1, <3>8
      <4>2. ServedInv(conn[c])'
        BY <2>2, <3>2, <3>4, <3>6, <3>7, <3>8, <4>1 DEF ServedInv
      <4> QED
        BY <1>1, <2>5, <3>2, <3>3, <3>4, <4>1, <4>2 DEF ConnInv, Serving
    <3>9. CASE r.method # "GET"
      <4>1. pc' = "write" /\ request' = r /\ todo' = Error("501")
        BY <2>1, <3>9 DEF Answer
      <4>2. Progress(r, <<>>, Error("501"))
        BY <2>2, <3>9, WholeResponses, ErrorStarts DEF Codes
      <4>3. Progress(request, conn[c].got, todo)'
        BY <1>1, <3>2, <3>4, <4>1, <4>2
           DEF Progress, Plain, Static, Dynamic, Endless
      <4>4. ServedInv(conn[c])'
        BY <2>2, <3>2, <3>4, <3>6, <4>1, <4>3 DEF ServedInv
      <4> QED
        BY <2>5, <3>2, <3>3, <3>4, <4>1, <4>4, <1>1 DEF ConnInv, Serving
    <3> QED
      BY <3>8, <3>9
  <2> QED
    BY <1>1, <1>3, <2>4, <2>5, ReadLineKeeps, ServerStep
<1> QED
  BY <1>2, <1>3 DEF ReadRequest

LEMMA ReadHeaderKeeps ==
  ASSUME ServerInv, ReadHeader
  PROVE  ServerInv'
<1>1. /\ pc = "headers" /\ UNCHANGED <<files, backlog, client, request, todo>> /\ client \in Clients
      /\ conn \in [Clients -> ConnType] /\ request \in Requests
  BY DEF ReadHeader, ServerInv, TypeInv
<1>2. CASE ((AtEnd /\ UNCHANGED pc) \/ ReadError) /\ UNCHANGED conn
  <2>1. TypeInv'
    BY <1>1, <1>2 DEF ServerInv, TypeInv, ReadError
  <2>2. AtEnd \/ Reset => conn[client].left
    BY <1>1, NoReset DEF AtEnd
  <2>3. ASSUME NEW c \in Clients, c = client
        PROVE  ConnInv(c)'
    BY <1>1, <1>2, <2>2, <2>3 DEF ConnInv, ReadError
  <2> QED
    BY <1>1, <1>2, <2>1, <2>3, ServerStep
<1>3. CASE ReadLine /\ pc' = IF Head(conn[client].lines) = Blank THEN "stat" ELSE pc
  <2>1. TypeInv'
    BY <1>1, <1>3, ReadLineKeeps DEF ServerInv, TypeInv
  <2>2. ASSUME NEW c \in Clients, c = client
        PROVE  ConnInv(c)'
    <3>1. conn'[c] = [conn[c] EXCEPT !.lines = Tail(@)] /\ conn[c] \in ConnType
      BY <1>1, <1>3, <2>2, ReadLineKeeps
    <3>2. /\ conn'[c].left = conn[c].left /\ conn'[c].closed = conn[c].closed
          /\ conn'[c].request = conn[c].request /\ conn'[c].blank = conn[c].blank
          /\ conn'[c].got = conn[c].got /\ conn'[c].lines = Tail(conn[c].lines)
      BY <3>1 DEF ConnType
    <3> SUFFICES ASSUME ~conn[c].left
                 PROVE  ConnInv(c)'
      BY <3>2 DEF ConnInv
    <3>3. ServedInv(conn[c]) /\ ConnInv(c)
      BY <1>1, <2>2, Served DEF ServerInv
    <3>4. Head(conn[c].lines) = Blank
      BY <1>1, <1>3, <2>2, <3>3 DEF ServedInv, ReadLine, Unread
    <3>5. pc' = "stat"
      BY <1>3, <2>2, <3>4
    <3>6. ServedInv(conn[c])'
      BY <1>1, <3>2, <3>3, <3>5 DEF ServedInv
    <3> QED
      BY <1>1, <2>2, <3>2, <3>3, <3>5, <3>6 DEF ConnInv, Serving, ServedInv
  <2> QED
    BY <1>1, <1>3, <2>1, <2>2, ReadLineKeeps, ServerStep
<1> QED
  BY <1>2, <1>3 DEF ReadHeader

\* What stat decides on is a part of the invariant's progress.
LEMMA AnswerStarts ==
  ASSUME NEW r \in Requests, Kind \in [Uris -> Kinds], r.method = "GET",
         NEW kind \in Kinds, kind \in {Kind[r.uri], "missing"}
  PROVE  /\ kind = "missing" => Progress(r, <<>>, Error("404"))
         /\ kind \in {"unreadable", "unexecutable"} => Progress(r, <<>>, Error("403"))
         /\ kind = "program" => Progress(r, <<>>, <<"200", "server", "run">>)
         /\ kind \in {"file", "refused"} => Progress(r, <<>>, <<"200", "open", kind>>)
<1>1. Kind[r.uri] \in Kinds
  BY RequestsAssumption
<1>2. Error("404") \in Whole(r)
      /\ (Kind[r.uri] \in {"unreadable", "unexecutable"} => Error("403") \in Whole(r))
  BY WholeResponses
<1>3. "404" \in Codes /\ "403" \in Codes
  BY DEF Codes
<1>4. Progress(r, <<>>, Error("404"))
  BY <1>2, <1>3, ErrorStarts
<1>5. Kind[r.uri] \in {"unreadable", "unexecutable"} => Progress(r, <<>>, Error("403"))
  BY <1>2, <1>3, ErrorStarts
<1>6. Kind[r.uri] = "program" => Progress(r, <<>>, <<"200", "server", "run">>)
  BY DEF Progress, Dynamic
<1>7. Kind[r.uri] \in {"file", "refused"} => Progress(r, <<>>, <<"200", "open", Kind[r.uri]>>)
  BY DEF Progress, Static
<1> QED
  BY <1>4, <1>5, <1>6, <1>7

LEMMA StatKeeps ==
  ASSUME ServerInv, Stat, Kind \in [Uris -> Kinds]
  PROVE  ServerInv'
<1> DEFINE kind == files[request.uri]
<1>1. /\ pc = "stat" /\ UNCHANGED <<files, backlog, conn, client, request>> /\ client \in Clients
      /\ request \in Requests
  BY DEF Stat, ServerInv, TypeInv
<1>2. kind \in Kinds /\ kind \in {Kind[request.uri], "missing"}
  BY <1>1, RequestsAssumption DEF ServerInv, TypeInv, FilesInv
<1>4. pc' = "write"
  BY <1>2 DEF Stat, Answer, Kinds
<1>5. /\ kind = "missing" => todo' = Error("404")
      /\ kind \in {"unreadable", "unexecutable"} => todo' = Error("403")
      /\ kind = "program" => todo' = <<"200", "server", "run">>
      /\ kind \in {"file", "refused"} => todo' = <<"200", "open", kind>>
  BY DEF Stat, Answer
<1>6. TypeInv'
  <2>1. Error("404") \in Seq(Pieces) /\ Error("403") \in Seq(Pieces)
    BY ErrorPieces DEF Codes
  <2>2. <<"200", "server", "run">> \in Seq(Pieces)
    BY DEF Pieces
  <2>3. kind \in {"file", "refused"} => <<"200", "open", kind>> \in Seq(Pieces)
    BY DEF Pieces
  <2>4. todo' \in Seq(Pieces)
    BY <1>2, <1>5, <2>1, <2>2, <2>3 DEF Kinds
  <2> QED
    BY <1>1, <1>4, <2>4 DEF ServerInv, TypeInv
<1>7. ASSUME NEW c \in Clients, c = client
      PROVE  ConnInv(c)'
  <2> SUFFICES ASSUME ~conn[c].left
               PROVE  ConnInv(c)'
    BY <1>1 DEF ConnInv
  <2>1. ServedInv(conn[c]) /\ ConnInv(c)
    BY <1>1, <1>7, Served DEF ServerInv
  <2>2. conn[c].got = <<>> /\ request.method = "GET"
    BY <1>1, <2>1 DEF ServedInv
  <2>3. Progress(request, <<>>, todo')
    BY <1>1, <1>2, <1>5, <2>2, AnswerStarts DEF Kinds
  <2>4. Progress(request, conn[c].got, todo)'
    BY <1>1, <2>2, <2>3 DEF Progress, Plain, Static, Dynamic, Endless
  <2>5. ServedInv(conn[c])'
    BY <1>1, <1>4, <2>1, <2>4 DEF ServedInv
  <2> QED
    BY <1>1, <1>4, <1>7, <2>1, <2>5 DEF ConnInv, Serving, ServedInv
<1> QED
  BY <1>1, <1>6, <1>7, ServerStep

\* What is to do begins with a piece to write, with the file, or with the program.
LEMMA ProgressWrites ==
  ASSUME NEW r \in Requests, NEW g \in Seq(Pieces), NEW t \in Seq(Pieces), t # <<>>,
         Head(t) \notin {"open", "run", "wait"}, Progress(r, g, t)
  PROVE  Progress(r, Append(g, Head(t)), Tail(t))
<1>1. CASE Plain(r, g, t)
  <2>1. Append(g, Head(t)) \o Tail(t) = g \o t
    BY Moved
  <2>2. \A i \in 1 .. Len(Tail(t)) : Tail(t)[i] = t[i + 1] /\ i + 1 \in 1 .. Len(t)
    OBVIOUS
  <2> QED
    BY <1>1, <2>1, <2>2 DEF Plain, Progress
<1>2. CASE Static(r, g, t)
  <2>1. g = <<>> /\ t = <<"200", "open", Kind[r.uri]>>
    BY <1>2 DEF Static
  <2>2. Head(t) = "200" /\ Tail(t) = <<"open", Kind[r.uri]>>
    BY <2>1
  <2>3. Append(g, Head(t)) = <<"200">>
    BY <2>1, <2>2, OneMore
  <2> QED
    BY <1>2, <2>2, <2>3 DEF Static, Progress
<1>3. CASE Dynamic(r, g, t)
  <2>1. CASE g = <<>> /\ t = <<"200", "server", "run">>
    <3>1. Head(t) = "200" /\ Tail(t) = <<"server", "run">>
      BY <2>1
    <3>2. Append(g, Head(t)) = <<"200">>
      BY <2>1, <3>1, OneMore
    <3> QED
      BY <1>3, <3>1, <3>2 DEF Dynamic, Progress
  <2>2. CASE g = <<"200">> /\ t = <<"server", "run">>
    <3>1. Head(t) = "server" /\ Tail(t) = <<"run">>
      BY <2>2
    <3>2. Append(g, Head(t)) = <<"200", "server">>
      BY <2>2, <3>1, OneMore
    <3> QED
      BY <1>3, <3>1, <3>2 DEF Dynamic, Progress
  <2> QED
    BY <1>3, <2>1, <2>2 DEF Dynamic
<1> QED
  BY <1>1, <1>2, <1>3 DEF Progress

LEMMA ProgressOpens ==
  ASSUME NEW r \in Requests, NEW g \in Seq(Pieces), NEW t \in Seq(Pieces), t # <<>>,
         Head(t) = "open", Progress(r, g, t)
  PROVE  /\ r.method = "GET" /\ Kind[r.uri] \in {"file", "refused"}
         /\ g = <<"200">> /\ t = <<"open", Kind[r.uri]>>
<1>1. ~Plain(r, g, t)
  <2>1. 1 \in 1 .. Len(t) /\ t[1] = "open"
    OBVIOUS
  <2> QED
    BY <2>1 DEF Plain
<1>2. ~Dynamic(r, g, t)
  BY DEF Dynamic
<1> QED
  BY <1>1, <1>2 DEF Progress, Static

LEMMA ProgressRuns ==
  ASSUME NEW r \in Requests, NEW g \in Seq(Pieces), NEW t \in Seq(Pieces), t # <<>>,
         Head(t) \in {"run", "wait"}, Progress(r, g, t)
  PROVE  r.method = "GET" /\ Kind[r.uri] = "program" /\ g = <<"200", "server">>
<1>1. ~Plain(r, g, t)
  <2>1. 1 \in 1 .. Len(t) /\ t[1] = Head(t)
    OBVIOUS
  <2> QED
    BY <2>1 DEF Plain
<1>2. ~Static(r, g, t)
  BY DEF Static
<1> QED
  BY <1>1, <1>2 DEF Progress, Dynamic

\* A step of the response: the connection of the client gets more, or stays.
LEMMA ResponseStep ==
  ASSUME ServerInv, pc \in {"write", "blocked"}, UNCHANGED <<files, backlog, client, request>>,
         NEW g \in Seq(Pieces),
         conn' = IF conn[client].left THEN conn ELSE [conn EXCEPT ![client].got = g],
         pc' \in {"write", "blocked", "dead", "failed"}, todo' \in Seq(Pieces),
         ~conn[client].left =>
           /\ pc' \in {"write", "blocked"} => Progress(request, g, todo')
           /\ pc' = "dead" => files[request.uri] \in {"missing", "refused"}
           /\ pc' \in {"dead", "failed"} => \E w \in Whole(request) : IsPrefix(g, w)
  PROVE  ServerInv'
<1>1. client \in Clients /\ conn \in [Clients -> ConnType] /\ request \in Requests
  BY DEF ServerInv, TypeInv
<1>2. [conn[client] EXCEPT !.got = g] \in ConnType
  BY <1>1 DEF ConnType
<1>3. conn' \in [Clients -> ConnType] /\ \A d \in Clients : d # client => conn'[d] = conn[d]
  BY <1>1, <1>2
<1>4. TypeInv'
  BY <1>1, <1>3 DEF ServerInv, TypeInv
<1>5. ASSUME NEW c \in Clients, c = client
      PROVE  ConnInv(c)'
  <2>1. CASE conn[c].left
    BY <1>5, <2>1 DEF ConnInv
  <2>2. CASE ~conn[c].left
    <3>1. conn'[c] = [conn[c] EXCEPT !.got = g] /\ conn[c] \in ConnType
      BY <1>1, <1>5, <2>2
    <3>2. /\ conn'[c].left = conn[c].left /\ conn'[c].closed = conn[c].closed
          /\ conn'[c].request = conn[c].request /\ conn'[c].blank = conn[c].blank
          /\ conn'[c].got = g
      BY <3>1 DEF ConnType
    <3>3. ServedInv(conn[c]) /\ ConnInv(c)
      BY <1>1, <1>5, <2>2, Served DEF ServerInv
    <3>4. pc' \in {"write", "blocked"} => Progress(request, conn[c].got, todo)'
      BY <1>5, <2>2, <3>2 DEF Progress, Plain, Static, Dynamic, Endless
    <3>5. ServedInv(conn[c])'
      BY <1>5, <2>2, <3>2, <3>3, <3>4 DEF ServedInv
    <3> QED
      BY <1>5, <2>2, <3>2, <3>3, <3>5 DEF ConnInv, Serving, ServedInv
  <2> QED
    BY <2>1, <2>2
<1> QED
  BY <1>1, <1>3, <1>4, <1>5, ServerStep

\* While a response is written to a client that stays.
LEMMA Writing ==
  ASSUME ServerInv, pc \in {"write", "blocked"}
  PROVE  /\ client \in Clients /\ conn \in [Clients -> ConnType] /\ request \in Requests
         /\ todo \in Seq(Pieces) /\ conn[client].got \in Seq(Pieces)
         /\ request.uri \in Uris /\ files[request.uri] \in {Kind[request.uri], "missing"}
         /\ ~conn[client].left => Progress(request, conn[client].got, todo)
<1>1. /\ client \in Clients /\ conn \in [Clients -> ConnType] /\ request \in Requests
      /\ todo \in Seq(Pieces)
  BY DEF ServerInv, TypeInv
<1>2. conn[client].got \in Seq(Pieces)
  BY <1>1 DEF ConnType
<1>3. request.uri \in Uris /\ files[request.uri] \in {Kind[request.uri], "missing"}
  BY <1>1, RequestsAssumption DEF ServerInv, FilesInv
<1>4. ~conn[client].left => Progress(request, conn[client].got, todo)
  BY Served DEF ServedInv
<1> QED
  BY <1>1, <1>2, <1>3, <1>4

\* A connection to which nothing is written.
LEMMA SameGot ==
  ASSUME ServerInv, UNCHANGED conn
  PROVE  conn' = IF conn[client].left THEN conn
                 ELSE [conn EXCEPT ![client].got = conn[client].got]
<1>1. client \in Clients /\ conn \in [Clients -> ConnType]
  BY DEF ServerInv, TypeInv
<1>2. [conn[client] EXCEPT !.got = conn[client].got] = conn[client]
  BY <1>1 DEF ConnType
<1> QED
  BY <1>1, <1>2

LEMMA WriteKeeps ==
  ASSUME ServerInv, Write
  PROVE  ServerInv'
<1> DEFINE g == conn[client].got
<1>1. /\ pc = "write" /\ todo # <<>> /\ Head(todo) \notin {"open", "run", "wait"}
      /\ UNCHANGED <<files, backlog, client, request>>
  BY DEF Write
<1>2. /\ Append(g, Head(todo)) \in Seq(Pieces) /\ Tail(todo) \in Seq(Pieces)
      /\ ~conn[client].left => Progress(request, Append(g, Head(todo)), Tail(todo))
  <2>1. todo \in Seq(Pieces) /\ g \in Seq(Pieces) /\ request \in Requests
        /\ (~conn[client].left => Progress(request, g, todo))
    BY <1>1, Writing
  <2>2. Head(todo) \in Pieces /\ Tail(todo) \in Seq(Pieces)
    BY <1>1, <2>1
  <2>3. Append(g, Head(todo)) \in Seq(Pieces)
    BY <2>1, <2>2, AppendProperties
  <2> QED
    BY <1>1, <2>1, <2>2, <2>3, ProgressWrites
<1>3. CASE /\ conn' = IF conn[client].left THEN conn
                      ELSE [conn EXCEPT ![client].got = Append(@, Head(todo))]
           /\ todo' = Tail(todo) /\ UNCHANGED pc
  <2>1. conn' = IF conn[client].left THEN conn
                ELSE [conn EXCEPT ![client].got = Append(g, Head(todo))]
    BY <1>3
  <2> QED
    BY <1>1, <1>2, <1>3, <2>1, ResponseStep
<1>4. CASE pc' = (IF conn[client].left THEN "dead" ELSE "blocked") /\ UNCHANGED <<conn, todo>>
  <2>1. /\ g \in Seq(Pieces) /\ todo \in Seq(Pieces)
        /\ ~conn[client].left => Progress(request, g, todo)
    BY <1>1, Writing
  <2>2. conn' = IF conn[client].left THEN conn ELSE [conn EXCEPT ![client].got = g]
    BY <1>4, SameGot
  <2> QED
    BY <1>1, <1>4, <2>1, <2>2, ResponseStep
<1> QED
  BY <1>3, <1>4 DEF Write

LEMMA EndWaitKeeps ==
  ASSUME ServerInv, EndWait
  PROVE  ServerInv'
<1>1. /\ pc = "blocked" /\ conn[client].left /\ pc' = "dead"
      /\ UNCHANGED <<files, backlog, conn, client, request, todo>>
  BY DEF EndWait
<1>2. conn[client].got \in Seq(Pieces) /\ todo \in Seq(Pieces)
  BY <1>1, Writing
<1> QED
  BY <1>1, <1>2, ResponseStep

LEMMA OpenFileKeeps ==
  ASSUME ServerInv, OpenFile, Kind \in [Uris -> Kinds]
  PROVE  ServerInv'
<1> DEFINE g == conn[client].got
           k == Kind[request.uri]
           Unopened == {"missing", "refused", "unreadable"}
<1>1. /\ pc = "write" /\ todo # <<>> /\ Head(todo) = "open"
      /\ UNCHANGED <<files, backlog, conn, client, request>>
      /\ \/ files[request.uri] \notin Unopened /\ todo' = Tail(todo) /\ UNCHANGED pc
         \/ files[request.uri] \in Unopened /\ pc' = "dead" /\ UNCHANGED todo
         \/ pc' = "failed" /\ UNCHANGED todo
  BY DEF OpenFile, Refused
<1>2. /\ g \in Seq(Pieces) /\ todo \in Seq(Pieces) /\ request \in Requests
      /\ files[request.uri] \in {k, "missing"}
      /\ ~conn[client].left => Progress(request, g, todo)
  BY <1>1, Writing
<1>3. Tail(todo) \in Seq(Pieces)
  BY <1>1, <1>2
<1>4. ~conn[client].left => /\ request.method = "GET" /\ k \in {"file", "refused"}
                            /\ g = <<"200">> /\ todo = <<"open", k>>
  BY <1>1, <1>2, ProgressOpens
<1>5. ~conn[client].left => Progress(request, g, Tail(todo))
  <2> SUFFICES ASSUME ~conn[client].left
               PROVE  Progress(request, g, Tail(todo))
    OBVIOUS
  <2>1. Tail(todo) = <<k>> /\ g = <<"200">>
    <3>1. todo = <<"open", k>> /\ g = <<"200">>
      BY <1>4
    <3>2. \A x : Tail(<<"open", x>>) = <<x>>
      OBVIOUS
    <3> QED
      BY <3>1, <3>2, Zenon
  <2>2. g \o Tail(todo) = <<"200", k>>
    BY <2>1, OneAndOne
  <2>3. <<"200", k>> \in Whole(request)
    BY <1>2, <1>4, WholeResponses
  <2>4. \A i \in 1 .. Len(Tail(todo)) : Tail(todo)[i] \notin {"open", "run", "wait"}
    BY <1>4, <2>1
  <2> QED
    BY <2>2, <2>3, <2>4 DEF Progress, Plain
<1>6. ~conn[client].left => \E w \in Whole(request) : IsPrefix(g, w)
  BY <1>2, <1>4, ProgressIsPart
<1>7. ~conn[client].left /\ files[request.uri] \in Unopened =>
        files[request.uri] \in {"missing", "refused"}
  BY <1>2, <1>4
<1>8. conn' = IF conn[client].left THEN conn ELSE [conn EXCEPT ![client].got = g]
  BY <1>1, SameGot
<1> QED
  BY <1>1, <1>2, <1>3, <1>5, <1>6, <1>7, <1>8, ResponseStep

LEMMA RunProgramKeeps ==
  ASSUME ServerInv, RunProgram, Kind \in [Uris -> Kinds]
  PROVE  ServerInv'
<1> DEFINE g == conn[client].got
<1>1. /\ pc = "write" /\ todo # <<>> /\ Head(todo) = "run"
      /\ UNCHANGED <<files, backlog, conn, client, request>>
      /\ \/ todo' = (IF files[request.uri] = "program" THEN <<"wait">> ELSE <<>>) /\ UNCHANGED pc
         \/ pc' = "failed" /\ UNCHANGED todo
  BY DEF RunProgram, Refused
<1>2. /\ g \in Seq(Pieces) /\ todo \in Seq(Pieces) /\ request \in Requests
      /\ files[request.uri] \in {Kind[request.uri], "missing"}
      /\ ~conn[client].left => Progress(request, g, todo)
  BY <1>1, Writing
<1>3. todo' \in Seq(Pieces)
  <2>1. "wait" \in Pieces
    BY DEF Pieces
  <2>2. <<"wait">> \in Seq(Pieces) /\ <<>> \in Seq(Pieces)
    BY <2>1
  <2> QED
    BY <1>1, <1>2, <2>2
<1>4. ~conn[client].left => /\ request.method = "GET" /\ Kind[request.uri] = "program"
                            /\ g = <<"200", "server">>
  BY <1>1, <1>2, ProgressRuns
<1>5. ~conn[client].left /\ pc' = "write" => Progress(request, g, todo')
  BY <1>1, <1>2, <1>4 DEF Progress, Dynamic, Endless
<1>7. ~conn[client].left => \E w \in Whole(request) : IsPrefix(g, w)
  BY <1>2, <1>4, ProgressIsPart
<1>6. conn' = IF conn[client].left THEN conn ELSE [conn EXCEPT ![client].got = g]
  BY <1>1, SameGot
<1> QED
  BY <1>1, <1>2, <1>3, <1>5, <1>6, <1>7, ResponseStep

LEMMA ChildWritesKeeps ==
  ASSUME ServerInv, ChildWrites, Kind \in [Uris -> Kinds]
  PROVE  ServerInv'
<1> DEFINE g == conn[client].got
<1>1. /\ pc = "write" /\ todo = <<"wait">>
      /\ UNCHANGED <<files, backlog, client, request>>
  BY DEF ChildWrites
<1>2. /\ g \in Seq(Pieces) /\ todo \in Seq(Pieces) /\ request \in Requests
      /\ ~conn[client].left => Progress(request, g, todo)
  BY <1>1, Writing
<1>3. Append(g, "output") \in Seq(Pieces) /\ <<>> \in Seq(Pieces)
  <2>1. "output" \in Pieces
    BY DEF Pieces
  <2>2. Append(g, "output") \in Seq(Pieces)
    BY <1>2, <2>1, AppendProperties
  <2>3. <<>> \in Seq(Pieces)
    OBVIOUS
  <2> QED
    BY <2>2, <2>3
<1>4. ~conn[client].left => /\ request.method = "GET" /\ Kind[request.uri] = "program"
                            /\ g = <<"200", "server">>
  <2>1. todo # <<>> /\ Head(todo) = "wait"
    BY <1>1
  <2> QED
    BY <1>2, <2>1, ProgressRuns
<1>5. ~conn[client].left => Progress(request, Append(g, "output"), <<>>)
  <2> SUFFICES ASSUME ~conn[client].left
               PROVE  Progress(request, Append(g, "output"), <<>>)
    OBVIOUS
  <2>1. Append(g, "output") = <<"200", "server", "output">>
    BY <1>4, OneMoreThanTwo
  <2>2. <<"200", "server", "output">> \in Whole(request)
    BY <1>2, <1>4, WholeResponses
  <2>3. Append(g, "output") \o <<>> = Append(g, "output")
    BY <1>1, <1>3, ConcatEmptySeq
  <2>4. Len(<<>>) = 0
    OBVIOUS
  <2>5. \A i \in 1 .. Len(<<>>) : <<>>[i] \notin {"open", "run", "wait"}
    BY <2>4
  <2> QED
    BY <2>1, <2>2, <2>3, <2>5 DEF Progress, Plain
<1>6. CASE /\ todo' = <<>> /\ UNCHANGED pc
           /\ conn' = IF conn[client].left THEN conn
                      ELSE [conn EXCEPT ![client].got = Append(g, "output")]
  BY <1>1, <1>3, <1>5, <1>6, ResponseStep
<1>7. CASE pc' = "blocked" /\ UNCHANGED <<conn, todo>>
  <2>1. conn' = IF conn[client].left THEN conn ELSE [conn EXCEPT ![client].got = g]
    BY <1>7, SameGot
  <2> QED
    BY <1>1, <1>2, <1>7, <2>1, ResponseStep
<1> QED
  BY <1>6, <1>7 DEF ChildWrites

LEMMA CloseKeeps ==
  ASSUME ServerInv, Close
  PROVE  ServerInv'
<1> DEFINE x == conn[client]
<1>1. /\ pc = "close" \/ (pc = "write" /\ todo = <<>>)
      /\ pc' = "accept" /\ request' = NoRequest
      /\ conn' = [conn EXCEPT ![client].closed = TRUE, ![client].lines = <<>>]
      /\ UNCHANGED <<files, backlog, client, todo>>
  BY DEF Close
<1>2. client \in Clients /\ conn \in [Clients -> ConnType] /\ x \in ConnType
  BY DEF ServerInv, TypeInv
<1>3. conn'[client] = [x EXCEPT !.closed = TRUE, !.lines = <<>>]
      /\ \A d \in Clients : d # client => conn'[d] = conn[d]
  BY <1>1, <1>2
<1>4. [x EXCEPT !.closed = TRUE, !.lines = <<>>] \in ConnType
  <2>1. <<>> \in Seq(Requests \union {Blank, Cut, Broken})
    OBVIOUS
  <2>2. \A y \in ConnType, e \in Seq(Requests \union {Blank, Cut, Broken}) :
          [y EXCEPT !.closed = TRUE, !.lines = e] \in ConnType
    BY DEF ConnType
  <2> QED
    BY <1>2, <2>1, <2>2
<1>5. conn' \in [Clients -> ConnType]
  BY <1>1, <1>2, <1>4
<1>6. TypeInv'
  BY <1>1, <1>5 DEF ServerInv, TypeInv
<1>7. FilesInv'
  BY <1>1 DEF ServerInv, FilesInv
<1>8. QueueInv'
  <2>1. \A i \in 1 .. Len(backlog) : backlog[i] \in Clients /\ backlog[i] # client
    BY <1>1 DEF ServerInv, TypeInv, QueueInv, Serving
  <2>2. \A i \in 1 .. Len(backlog) : ~conn'[backlog[i]].closed
    BY <1>3, <2>1 DEF ServerInv, QueueInv
  <2>3. \A i, j \in 1 .. Len(backlog) : backlog[i] = backlog[j] => i = j
    BY DEF ServerInv, QueueInv
  <2> QED
    BY <1>1, <2>2, <2>3 DEF QueueInv, Serving
<1>9. ASSUME NEW c \in Clients, c # client
      PROVE  ConnInv(c)'
  BY <1>1, <1>3, <1>9, OtherConnections DEF Serving
<1>10. ASSUME NEW c \in Clients, c = client
       PROVE  ConnInv(c)'
  <2>1. /\ conn'[c].left = x.left /\ conn'[c].closed /\ conn'[c].request = x.request
        /\ conn'[c].blank = x.blank /\ conn'[c].got = x.got
    BY <1>2, <1>3, <1>10 DEF ConnType
  <2> SUFFICES ASSUME ~x.left
               PROVE  ConnInv(c)'
    BY <2>1 DEF ConnInv
  <2>2. ServedInv(x) /\ (x.request = NoRequest => ~x.blank)
    BY <1>1, Served
  <2>3. pc = "write" /\ todo = <<>> /\ request = x.request /\ request \in Requests
        /\ Progress(request, x.got, todo)
    BY <1>1, <2>2 DEF ServedInv
  <2>4. x.got \in Seq(Pieces) /\ x.got \o <<>> = x.got
    BY <1>2, ConcatEmptySeq DEF ConnType
  <2>5. x.got \in Whole(x.request) \/ Endless(x.request, x.got)
    BY <2>3, <2>4 DEF Progress, Plain, Static, Dynamic
  <2> QED
    BY <1>1, <2>1, <2>2, <2>3, <2>5 DEF ConnInv, Serving, Endless
<1> QED
  BY <1>6, <1>7, <1>8, <1>9, <1>10 DEF ServerInv

------------------------------------------------------------------------------
\* Requests, and the connections of clients that have not left, are as the server's place in
\* doit says: what is still to be written follows what has been. The properties of the
\* server rest on it.
THEOREM ServerInvariant ==
  ASSUME Kind \in [Uris -> Kinds]
  PROVE  ServerSpec => []ServerInv
<1>1. InitServer => ServerInv
  BY InitKeeps
<1>2. ServerInv /\ [ServerNext]_server => ServerInv'
  <2> SUFFICES ASSUME ServerInv, [ServerNext]_server
               PROVE  ServerInv'
    OBVIOUS
  <2>1. CASE Serve
    BY <2>1, AcceptKeeps, ReadRequestKeeps, ReadHeaderKeeps, StatKeeps, WriteKeeps, EndWaitKeeps,
       OpenFileKeeps, RunProgramKeeps, ChildWritesKeeps, CloseKeeps DEF Serve
  <2>2. CASE \E c \in Clients : Connect(c) \/ Send(c) \/ Leave(c)
    BY <2>2, ConnectKeeps, SendRequestKeeps, SendBlankKeeps, LeaveKeeps DEF Send
  <2>3. CASE \E u \in Uris : RemoveFile(u)
    BY <2>3, RemoveFileKeeps
  <2>4. CASE UNCHANGED server
    <3>1. UNCHANGED <<files, backlog, conn, pc, client, request, todo>>
      BY <2>4 DEF server
    <3>2. TypeInv' /\ FilesInv' /\ QueueInv'
      BY <3>1 DEF ServerInv, TypeInv, FilesInv, QueueInv, Serving
    <3>3. \A c \in Clients : ConnInv(c)'
      BY <3>1, ConnKept
    <3> QED
      BY <3>2, <3>3 DEF ServerInv
  <2> QED
    BY <2>1, <2>2, <2>3, <2>4 DEF ServerNext
<1> QED
  BY <1>1, <1>2, PTL DEF ServerSpec

\* For any number of clients and uris, a client gets nothing but the start of a response to
\* its own request, and the whole of it if it stays (doit, serve_static, serve_dynamic and
\* clienterror).
THEOREM ResponsesAreExact ==
  ASSUME Kind \in [Uris -> Kinds]
  PROVE  ServerSpec => []ResponsesExact
<1>1. ServerInv => ResponsesExact
  <2> SUFFICES ASSUME ServerInv, NEW c \in Clients, ~conn[c].left
               PROVE  /\ conn[c].got # <<>> =>
                           \E w \in Whole(conn[c].request) : IsPrefix(conn[c].got, w)
                      /\ conn[c].closed =>
                           \/ conn[c].got \in Whole(conn[c].request)
                           \/ /\ Kind[conn[c].request.uri] = "program"
                              /\ files[conn[c].request.uri] = "missing" /\ Len(conn[c].got) = 2
    BY DEF ResponsesExact, Whole
  <2> DEFINE x == conn[c]
  <2>1. ConnInv(c) /\ x \in ConnType /\ todo \in Seq(Pieces)
    BY DEF ServerInv, TypeInv
  <2>2. x.got \in Seq(Pieces)
    BY <2>1 DEF ConnType
  <2>3. IsPrefix(x.got, x.got)
    BY <2>2, ConcatEmptySeq DEF IsPrefix
  <2>4. x.closed => /\ x.request \in Requests
                    /\ x.got \in Whole(x.request) \/ Endless(x.request, x.got)
    BY <2>1 DEF ConnInv
  <2>5. Endless(x.request, x.got) => x.got = <<"200", "server">> /\ Len(x.got) = 2
    BY DEF Endless
  <2>6. ASSUME x.closed, x.got # <<>>
        PROVE  \E w \in Whole(x.request) : IsPrefix(x.got, w)
    <3>1. CASE x.got \in Whole(x.request)
      BY <2>3, <3>1
    <3>2. CASE Endless(x.request, x.got)
      <4>1. <<>> \in Seq(Pieces) /\ Progress(x.request, x.got, <<>>)
        BY <3>2 DEF Progress
      <4> QED
        BY <2>2, <2>4, <2>6, <4>1, ProgressIsPart
    <3> QED
      BY <2>4, <2>6, <3>1, <3>2
  <2>7. ASSUME ~x.closed, x.got # <<>>
        PROVE  \E w \in Whole(x.request) : IsPrefix(x.got, w)
    <3>1. Serving(c) /\ pc # "request" /\ ServedInv(x)
      BY <2>1, <2>7 DEF ConnInv
    <3>2. pc \in {"write", "blocked", "dead", "failed"}
      BY <2>7, <3>1 DEF ServedInv, Serving, ServerInv, TypeInv
    <3>3. pc \in {"write", "blocked"} =>
            x.request \in Requests /\ Progress(x.request, x.got, todo)
      BY <3>1 DEF ServedInv
    <3>4. pc \in {"dead", "failed"} => \E w \in Whole(x.request) : IsPrefix(x.got, w)
      BY <2>7, <3>1 DEF ServedInv
    <3> QED
      BY <2>1, <2>2, <2>7, <3>2, <3>3, <3>4, ProgressIsPart
  <2> QED
    BY <2>4, <2>5, <2>6, <2>7 DEF Endless
<1> QED
  BY <1>1, ServerInvariant, PTL

\* For any number of clients and uris, the server ends, or reads at the end of the input for
\* ever, only if the client it serves has left, or for a file that cannot be opened and mapped
\* although stat called it readable, or that has gone since; or because the system refuses one
\* of the calls of Refused (accept, getnameinfo, fork, open and mmap), which StopsOnlyFor leaves
\* out.
THEOREM ServerStopsOnlyFor ==
  ASSUME Kind \in [Uris -> Kinds]
  PROVE  ServerSpec => []StopsOnlyFor
<1>1. ServerInv => StopsOnlyFor
  <2> SUFFICES ASSUME ServerInv, pc = "dead" \/ Spinning, ~conn[client].left
               PROVE  files[request.uri] \in {"missing", "refused"}
    BY DEF StopsOnlyFor
  <2>1. pc = "dead"
    BY DEF Spinning, AtEnd
  <2> QED
    BY <2>1, Served DEF ServedInv
<1> QED
  BY <1>1, ServerInvariant, PTL

------------------------------------------------------------------------------
\* Timing (Timing): the difference of two readings of the cycle counter is the number
\* of cycles between them, and the sampler keeps the least of the times, in order.

LEMMA DivMod ==
  ASSUME NEW w \in Nat \ {0}, NEW n \in Int
  PROVE  n \div w \in Int /\ n % w \in 0 .. w - 1 /\ n = w * (n \div w) + (n % w)
  OBVIOUS

LEMMA ModUnique ==
  ASSUME NEW w \in Nat \ {0}, NEW k \in Int, NEW r \in 0 .. w - 1
  PROVE  (w * k + r) % w = r
  OBVIOUS

\* Subtraction of digits: d is the digit of l - l0, with a borrow of 0 or 1.
LEMMA Digit ==
  ASSUME NEW w \in Nat \ {0}, NEW l \in 0 .. w - 1, NEW l0 \in 0 .. w - 1
  PROVE  /\ (l - l0) % w \in 0 .. w - 1
         /\ (l - l0) % w = l - l0 + w * (IF (l - l0) % w > l THEN 1 ELSE 0)
<1>1. CASE l >= l0
  <2>1. l - l0 \in 0 .. w - 1 /\ (w * 0 + (l - l0)) % w = l - l0
    BY <1>1, ModUnique
  <2> QED
    BY <1>1, <2>1
<1>2. CASE l < l0
  <2>1. l - l0 + w \in 0 .. w - 1 /\ (w * (-1) + (l - l0 + w)) % w = l - l0 + w
    BY <1>2, ModUnique
  <2>2. (l - l0) % w = l - l0 + w
    BY <2>1
  <2> QED
    BY <1>2, <2>1, <2>2
<1> QED
  BY <1>1, <1>2

\* get_counter of perflab/clock.c returns the cycles since start_counter, also when the low
\* word has wrapped, the high word has, or both have, if fewer have passed than both words
\* count.
THEOREM DifferenceExact ==
  ASSUME UWord \in Nat \ {0}, NEW t0 \in Nat, NEW t \in Nat, t0 <= t, t - t0 < UWord * UWord
  PROVE  get_counter(access_counter(t0), t) = t - t0
<1> DEFINE w  == UWord
           q0 == t0 \div w   l0 == t0 % w   a0 == q0 \div w   h0 == q0 % w
           q  == t \div w    l  == t % w    a  == q \div w    h  == q % w
           lo == (l - l0) % w
           b  == IF lo > l THEN 1 ELSE 0
           e  == q - q0 - b
<1>1. /\ q0 \in Int /\ l0 \in 0 .. w - 1 /\ t0 = w * q0 + l0
      /\ q \in Int /\ l \in 0 .. w - 1 /\ t = w * q + l
  BY DivMod
<1>2. /\ a0 \in Int /\ h0 \in 0 .. w - 1 /\ q0 = w * a0 + h0
      /\ a \in Int /\ h \in 0 .. w - 1 /\ q = w * a + h
  BY <1>1, DivMod
<1>3. lo \in 0 .. w - 1 /\ lo = l - l0 + w * b /\ b \in {0, 1}
  BY <1>1, Digit
<1>4. get_counter(access_counter(t0), t) = ((h - h0 - b) % w) * w + lo
  BY DEF get_counter, access_counter
<1> HIDE DEF q0, l0, a0, h0, q, l, a, h, lo, b
<1>5. t - t0 = w * e + lo
  BY <1>1, <1>3
<1>6. e \in 0 .. w - 1
  BY <1>1, <1>3, <1>5
<1>7. h - h0 - b = w * (a0 - a) + e
  BY <1>1, <1>2, <1>3
<1>8. (h - h0 - b) % w = e
  <2>1. (w * (a0 - a) + e) % w = e
    BY <1>2, <1>6, ModUnique
  <2> QED
    BY <1>7, <2>1
<1> QED
  <2>1. e * w = w * e
    BY <1>6
  <2> QED
    BY <1>4, <1>5, <1>8, <2>1

------------------------------------------------------------------------------
\* The samples are sequences of integers; the code has doubles, of which only the order
\* matters.
LEMMA Part ==
  ASSUME NEW q \in Seq(Int), NEW a \in Nat \ {0}, NEW z \in Nat, z <= Len(q)
  PROVE  /\ SubSeq(q, a, z) \in Seq(Int)
         /\ Len(SubSeq(q, a, z)) = IF a <= z THEN z - a + 1 ELSE 0
         /\ \A n \in 1 .. z - a + 1 : SubSeq(q, a, z)[n] = q[a + n - 1]
<1>1. \A n \in a .. z : q[n] \in Int
  BY ElementOfSeq, LenProperties
<1> QED
  BY <1>1, SubSeqProperties

\* Element e put in at place k.
LEMMA InsertAtIs ==
  ASSUME NEW q \in Seq(Int), NEW k \in 1 .. Len(q) + 1, NEW e \in Int
  PROVE  /\ InsertAt(q, k, e) \in Seq(Int)
         /\ Len(InsertAt(q, k, e)) = Len(q) + 1
         /\ \A n \in 1 .. Len(q) + 1 :
              InsertAt(q, k, e)[n] = IF n < k THEN q[n] ELSE IF n = k THEN e ELSE q[n - 1]
<1> DEFINE u == SubSeq(q, 1, k - 1)
           w == SubSeq(q, k, Len(q))
           v == u \o <<e>>
<1>1. Len(q) \in Nat
  BY LenProperties
<1>2. u \in Seq(Int) /\ Len(u) = k - 1 /\ \A n \in 1 .. k - 1 : u[n] = q[n]
  <2>1. /\ u \in Seq(Int) /\ Len(u) = IF 1 <= k - 1 THEN k - 1 - 1 + 1 ELSE 0
        /\ \A n \in 1 .. k - 1 - 1 + 1 : u[n] = q[1 + n - 1]
    BY <1>1, Part
  <2> HIDE DEF u
  <2> QED
    BY <1>1, <2>1
<1>3. /\ w \in Seq(Int) /\ Len(w) = Len(q) - k + 1
      /\ \A n \in 1 .. Len(q) - k + 1 : w[n] = q[k + n - 1]
  <2>1. /\ w \in Seq(Int) /\ Len(w) = IF k <= Len(q) THEN Len(q) - k + 1 ELSE 0
        /\ \A n \in 1 .. Len(q) - k + 1 : w[n] = q[k + n - 1]
    BY <1>1, Part
  <2> HIDE DEF w
  <2> QED
    BY <1>1, <2>1
<1>4. InsertAt(q, k, e) = v \o w
  BY DEF InsertAt
<1> HIDE DEF u, w
<1>5. <<e>> \in Seq(Int) /\ Len(<<e>>) = 1 /\ <<e>>[1] = e
  OBVIOUS
<1>6. /\ v \in Seq(Int) /\ Len(v) = k
      /\ \A n \in 1 .. k : v[n] = IF n <= k - 1 THEN u[n] ELSE <<e>>[n - (k - 1)]
  <2>1. /\ v \in Seq(Int) /\ Len(v) = Len(u) + 1
        /\ \A n \in 1 .. Len(u) + 1 : v[n] = IF n <= Len(u) THEN u[n] ELSE <<e>>[n - Len(u)]
    BY <1>2, <1>5, ConcatProperties
  <2> HIDE DEF v
  <2> QED
    BY <1>1, <1>2, <2>1
<1> HIDE DEF v
<1>7. /\ v \o w \in Seq(Int) /\ Len(v \o w) = Len(v) + Len(w)
      /\ \A n \in 1 .. Len(v) + Len(w) :
           (v \o w)[n] = IF n <= Len(v) THEN v[n] ELSE w[n - Len(v)]
  BY <1>3, <1>6, ConcatProperties
<1>8. Len(v \o w) = Len(q) + 1
  BY <1>1, <1>3, <1>6, <1>7
<1>9. ASSUME NEW n \in 1 .. Len(q) + 1
      PROVE  (v \o w)[n] = IF n < k THEN q[n] ELSE IF n = k THEN e ELSE q[n - 1]
  <2>0. n \in 1 .. Len(v) + Len(w) /\ Len(v) = k
    BY <1>1, <1>3, <1>6
  <2>1. (v \o w)[n] = IF n <= k THEN v[n] ELSE w[n - k]
    BY <1>7, <2>0
  <2>2. CASE n < k
    <3>1. n \in 1 .. k /\ n <= k - 1 /\ n \in 1 .. k - 1 /\ n <= k
      BY <1>1, <2>2
    <3>2. v[n] = u[n] /\ u[n] = q[n]
      BY <1>2, <1>6, <3>1
    <3> QED
      BY <2>1, <2>2, <3>1, <3>2
  <2>3. CASE n = k
    BY <1>1, <1>5, <1>6, <2>1, <2>3
  <2>4. CASE n > k
    <3>1. n - k \in 1 .. Len(q) - k + 1 /\ k + (n - k) - 1 = n - 1
      BY <1>1, <2>4
    <3>2. w[n - k] = q[k + (n - k) - 1]
      BY <1>3, <3>1
    <3> QED
      BY <1>1, <2>1, <2>4, <3>1, <3>2
  <2>5. n < k \/ n = k \/ n > k
    BY <1>1
  <2> QED
    BY <2>2, <2>3, <2>4, <2>5
<1> QED
  BY <1>4, <1>7, <1>8, <1>9

\* A sequence without its last element.
LEMMA RemoveLast ==
  ASSUME NEW q \in Seq(Int), NEW m \in Nat \ {0}, m = Len(q)
  PROVE  /\ RemoveAt(q, m) \in Seq(Int)
         /\ Len(RemoveAt(q, m)) = m - 1
         /\ \A n \in 1 .. m - 1 : RemoveAt(q, m)[n] = q[n]
<1> DEFINE u == SubSeq(q, 1, m - 1)
           w == SubSeq(q, m + 1, Len(q))
<1>1. u \in Seq(Int) /\ Len(u) = m - 1 /\ \A n \in 1 .. m - 1 : u[n] = q[n]
  <2>1. /\ u \in Seq(Int) /\ Len(u) = IF 1 <= m - 1 THEN m - 1 - 1 + 1 ELSE 0
        /\ \A n \in 1 .. m - 1 - 1 + 1 : u[n] = q[1 + n - 1]
    BY Part
  <2> HIDE DEF u
  <2> QED
    BY <2>1
<1>2. w \in Seq(Int) /\ Len(w) = 0
  BY Part
<1>3. RemoveAt(q, m) = u \o w
  BY DEF RemoveAt
<1> HIDE DEF u, w
<1>4. /\ u \o w \in Seq(Int) /\ Len(u \o w) = Len(u) + Len(w)
      /\ \A n \in 1 .. Len(u) + Len(w) :
           (u \o w)[n] = IF n <= Len(u) THEN u[n] ELSE w[n - Len(u)]
  BY <1>1, <1>2, ConcatProperties
<1> QED
  BY <1>1, <1>2, <1>3, <1>4

Sorted(q, m) == \A n, k \in 1 .. m : n <= k => q[n] <= q[k]

\* In an ordered sequence the value at the end has a place to sink to: behind the values that
\* are not greater, which are as many as stand before it.
LEMMA PlaceExists ==
  ASSUME NEW q \in Seq(Int), NEW pos \in 1 .. Len(q), Sorted(q, pos - 1)
  PROVE  \E to \in 1 .. pos : /\ \A r \in to .. pos - 1 : q[r] > q[pos]
                              /\ (to > 1 => q[to - 1] <= q[pos])
<1> DEFINE D == {r \in 1 .. pos - 1 : q[r] <= q[pos]}
           c == Cardinality(D)
<1>1. pos \in Nat /\ \A r \in 1 .. pos : q[r] \in Int
  BY LenProperties, ElementOfSeq
<1>2. IsFiniteSet(D) /\ c \in Nat
  <2>1. IsFiniteSet(1 .. pos - 1) /\ D \in SUBSET (1 .. pos - 1)
    BY <1>1, FS_Interval
  <2> QED
    BY <2>1, FS_Subset, FS_CardinalityType
<1>3. ASSUME NEW r \in D PROVE r \in 1 .. c
  <2>1. 1 .. r \in SUBSET D
    <3>1. ASSUME NEW n \in 1 .. r PROVE n \in 1 .. pos - 1 /\ q[n] <= q[pos]
      <4>1. r \in 1 .. pos - 1 /\ n \in 1 .. pos - 1 /\ n <= r /\ q[r] <= q[pos]
        BY <1>1
      <4>2. q[n] <= q[r]
        BY <4>1 DEF Sorted
      <4> QED
        BY <1>1, <4>1, <4>2
    <3> QED
      BY <3>1
  <2>2. r \in Nat /\ r >= 1
    BY <1>1
  <2> HIDE DEF D
  <2>3. Cardinality(1 .. r) <= c
    BY <1>2, <2>1, FS_Subset
  <2>4. Cardinality(1 .. r) = r
    BY <2>2, FS_Interval
  <2> QED
    BY <1>2, <2>2, <2>3, <2>4
<1>4. D = 1 .. c
  <2>0. c = Cardinality(D)
    OBVIOUS
  <2> HIDE DEF c
  <2>1. D \in SUBSET (1 .. c)
    BY <1>3
  <2>3. IsFiniteSet(1 .. c)
    BY <1>2, FS_Interval
  <2> HIDE DEF D
  <2>2. Cardinality(1 .. c) = c
    BY <1>2, FS_Interval
  <2> QED
    BY <2>0, <2>1, <2>2, <2>3, FS_Subset
<1>5. c <= pos - 1
  <2>1. c \in D \/ c = 0
    <3> HIDE DEF D, c
    <3> QED
      BY <1>2, <1>4
  <2> HIDE DEF c
  <2> QED
    BY <1>1, <2>1
<1>6. \A r \in c + 1 .. pos - 1 : q[r] > q[pos]
  <2>1. ASSUME NEW r \in c + 1 .. pos - 1 PROVE r \in 1 .. pos - 1 /\ ~(r \in D)
    <3> HIDE DEF D, c
    <3> QED
      BY <1>1, <1>2, <1>4
  <2> QED
    BY <1>1, <2>1
<1>7. c + 1 > 1 => q[(c + 1) - 1] <= q[pos]
  <2>1. c >= 1 => c \in D
    <3> HIDE DEF D, c
    <3> QED
      BY <1>2, <1>4
  <2> HIDE DEF c
  <2> QED
    BY <1>2, <2>1
<1> HIDE DEF D, c
<1> DEFINE to == c + 1
<1>8. to \in 1 .. pos /\ to - 1 = c
  BY <1>1, <1>2, <1>5
<1>9. \A r \in to .. pos - 1 : q[r] > q[pos]
  BY <1>6
<1>10. to > 1 => q[to - 1] <= q[pos]
  BY <1>7
<1> HIDE DEF to
<1> QED
  BY <1>8, <1>9, <1>10

\* w is v with t put in at place to, behind the values that are not greater.
Sunk(w, v, t, to, m) ==
  /\ \A n \in to .. m - 1 : v[n] > t
  /\ to > 1 => v[to - 1] <= t
  /\ \A n \in 1 .. to - 1 : w[n] = v[n]
  /\ w[to] = t
  /\ \A n \in to + 1 .. m : w[n] = v[n - 1]

\* What Sink returns: the last element moved to its place, the others in their order.
LEMMA SinkIs ==
  ASSUME NEW q \in Seq(Int), NEW m \in Nat \ {0}, m = Len(q), Sorted(q, m - 1)
  PROVE  /\ Sink(q, m) \in Seq(Int) /\ Len(Sink(q, m)) = m
         /\ \E to \in 1 .. m : Sunk(Sink(q, m), q, q[m], to, m)
<1> DEFINE Place(to) == /\ \A r \in to .. m - 1 : q[r] > q[m]
                        /\ (to > 1 => q[to - 1] <= q[m])
           to == CHOOSE p \in 1 .. m : Place(p)
           R  == RemoveAt(q, m)
           w  == Sink(q, m)
<1>1. to \in 1 .. m /\ Place(to)
  <2>1. m \in 1 .. Len(q)
    OBVIOUS
  <2>2. \E p \in 1 .. m : Place(p)
    BY <2>1, PlaceExists
  <2> HIDE DEF Place
  <2> QED
    BY <2>2
<1>2. w = InsertAt(R, to, q[m])
  BY DEF Sink
<1>3. R \in Seq(Int) /\ Len(R) = m - 1 /\ \A n \in 1 .. m - 1 : R[n] = q[n]
  BY RemoveLast
<1> HIDE DEF to, R, w
<1>4. q[m] \in Int /\ to \in 1 .. Len(R) + 1 /\ Len(R) + 1 = m
  BY <1>1, <1>3, ElementOfSeq
<1>5. /\ w \in Seq(Int) /\ Len(w) = m
      /\ \A n \in 1 .. m : w[n] = IF n < to THEN R[n] ELSE IF n = to THEN q[m] ELSE R[n - 1]
  <2>1. /\ InsertAt(R, to, q[m]) \in Seq(Int)
        /\ Len(InsertAt(R, to, q[m])) = Len(R) + 1
        /\ \A n \in 1 .. Len(R) + 1 : InsertAt(R, to, q[m])[n] =
              IF n < to THEN R[n] ELSE IF n = to THEN q[m] ELSE R[n - 1]
    BY ZenonT(60), <1>3, <1>4, InsertAtIs
  <2> QED
    BY <1>2, <1>4, <2>1
<1>6. ASSUME NEW n \in 1 .. to - 1 PROVE w[n] = q[n]
  <2>1. n \in 1 .. m /\ n < to /\ n \in 1 .. m - 1
    BY <1>1
  <2> QED
    BY <1>3, <1>5, <2>1
<1>7. w[to] = q[m]
  BY <1>1, <1>5
<1>8. ASSUME NEW n \in to + 1 .. m PROVE w[n] = q[n - 1]
  <2>1. n \in 1 .. m /\ ~(n < to) /\ n # to /\ n - 1 \in 1 .. m - 1
    BY <1>1
  <2>2. w[n] = R[n - 1]
    BY <1>5, <2>1
  <2> QED
    BY <1>3, <2>1, <2>2
<1>9. Sunk(w, q, q[m], to, m)
  BY <1>1, <1>6, <1>7, <1>8 DEF Sunk
<1> QED
  BY <1>1, <1>5, <1>9 DEF w

\* It is in order.
LEMMA SunkSorted ==
  ASSUME NEW m \in Nat \ {0}, NEW v, NEW w, NEW t \in Int, NEW to \in 1 .. m,
         \A n \in 1 .. m - 1 : v[n] \in Int, Sorted(v, m - 1), Sunk(w, v, t, to, m)
  PROVE  Sorted(w, m)
<1>1. ASSUME NEW n \in 1 .. to - 1 PROVE v[n] <= t
  <2>1. n \in 1 .. m - 1 /\ to - 1 \in 1 .. m - 1 /\ n <= to - 1 /\ to > 1
    OBVIOUS
  <2>2. v[n] <= v[to - 1] /\ v[to - 1] <= t
    BY <2>1 DEF Sorted, Sunk
  <2> QED
    BY <2>1, <2>2
<1> SUFFICES ASSUME NEW n \in 1 .. m, NEW k \in 1 .. m, n < k
             PROVE  w[n] <= w[k] /\ w[n] \in Int /\ w[k] \in Int
  <2>1. ASSUME NEW n \in 1 .. m PROVE w[n] \in Int
    <3>1. n \in 1 .. to - 1 \/ n = to \/ (n \in to + 1 .. m /\ n - 1 \in 1 .. m - 1)
      OBVIOUS
    <3>2. n \in 1 .. to - 1 => n \in 1 .. m - 1
      OBVIOUS
    <3> QED
      BY <3>1, <3>2 DEF Sunk
  <2> QED
    BY <2>1 DEF Sorted
<1>2. CASE k < to
  <2>1. n \in 1 .. to - 1 /\ k \in 1 .. to - 1 /\ n \in 1 .. m - 1 /\ k \in 1 .. m - 1
    BY <1>2
  <2>2. w[n] = v[n] /\ w[k] = v[k] /\ v[n] <= v[k]
    BY <2>1 DEF Sorted, Sunk
  <2> QED
    BY <2>1, <2>2
<1>3. CASE k = to
  <2>1. n \in 1 .. to - 1 /\ n \in 1 .. m - 1
    BY <1>3
  <2>2. w[n] = v[n] /\ w[k] = t /\ v[n] <= t
    BY <1>1, <1>3, <2>1 DEF Sunk
  <2> QED
    BY <2>1, <2>2
<1>4. CASE k > to
  <2>1. k \in to + 1 .. m /\ k - 1 \in 1 .. m - 1 /\ k - 1 \in to .. m - 1
    BY <1>4
  <2>2. w[k] = v[k - 1] /\ v[k - 1] > t /\ v[k - 1] \in Int
    BY <2>1 DEF Sunk
  <2>3. CASE n < to
    <3>1. n \in 1 .. to - 1 /\ n \in 1 .. m - 1
      BY <2>3
    <3>2. w[n] = v[n] /\ v[n] <= t /\ v[n] \in Int
      BY <1>1, <3>1 DEF Sunk
    <3> QED
      BY <2>2, <3>2
  <2>4. CASE n = to
    BY <2>2, <2>4 DEF Sunk
  <2>5. CASE n > to
    <3>1. n \in to + 1 .. m /\ n - 1 \in 1 .. m - 1 /\ n - 1 <= k - 1
      BY <2>5
    <3>2. w[n] = v[n - 1] /\ v[n - 1] <= v[k - 1] /\ v[n - 1] \in Int
      BY <2>1, <3>1 DEF Sorted, Sunk
    <3> QED
      BY <2>2, <3>2
  <2> QED
    BY <2>3, <2>4, <2>5
<1> QED
  BY <1>2, <1>3, <1>4

\* j2 is j, places among g times, with that of the next time put in at place to.
Extended(j2, j, to, m, g) ==
  /\ j2 \in [1 .. m -> 1 .. g + 1]
  /\ \A n, k \in 1 .. m : j2[n] = j2[k] => n = k
  /\ \A n \in 1 .. to - 1 : j2[n] = j[n]
  /\ j2[to] = g + 1
  /\ \A n \in to + 1 .. m : j2[n] = j[n - 1]

LEMMA PlacesExtended ==
  ASSUME NEW m \in Nat \ {0}, NEW g \in Nat, NEW to \in 1 .. m, NEW j,
         \A n \in 1 .. m - 1 : j[n] \in 1 .. g,
         \A n, k \in 1 .. m - 1 : j[n] = j[k] => n = k
  PROVE  \E j2 : Extended(j2, j, to, m, g)
<1> DEFINE f(n) == IF n < to THEN j[n] ELSE IF n = to THEN g + 1 ELSE j[n - 1]
           j2 == [n \in 1 .. m |-> f(n)]
<1>1. ASSUME NEW n \in 1 .. to - 1 PROVE j2[n] = j[n] /\ n \in 1 .. m - 1
  OBVIOUS
<1>2. j2[to] = g + 1
  OBVIOUS
<1>3. ASSUME NEW n \in to + 1 .. m PROVE j2[n] = j[n - 1] /\ n - 1 \in 1 .. m - 1
  OBVIOUS
<1>4. j2 = [n \in 1 .. m |-> j2[n]]
  OBVIOUS
<1> HIDE DEF f, j2
<1>5. ASSUME NEW n \in 1 .. m
      PROVE  \/ n \in 1 .. to - 1 /\ n \in 1 .. m - 1 /\ j2[n] = j[n]
             \/ n = to /\ j2[n] = g + 1
             \/ n \in to + 1 .. m /\ n - 1 \in 1 .. m - 1 /\ j2[n] = j[n - 1]
  <2>1. n \in 1 .. to - 1 \/ n = to \/ n \in to + 1 .. m
    OBVIOUS
  <2> QED
    BY <1>1, <1>2, <1>3, <2>1
<1>6. ASSUME NEW n \in 1 .. m PROVE j2[n] \in 1 .. g + 1
  BY <1>5
<1>7. ASSUME NEW n \in 1 .. m, NEW k \in 1 .. m, j2[n] = j2[k] PROVE n = k
  <2>1. ASSUME NEW x \in 1 .. m - 1 PROVE j[x] # g + 1
    BY <2>1
  <2>2. CASE n = to \/ k = to
    BY <1>5, <1>7, <2>1, <2>2
  <2>3. CASE n \in 1 .. to - 1 /\ k \in 1 .. to - 1
    BY <1>1, <1>7, <2>3
  <2>4. CASE n \in to + 1 .. m /\ k \in to + 1 .. m
    <3>1. n - 1 = k - 1
      BY <1>3, <1>7, <2>4
    <3> QED
      BY <3>1
  <2>5. CASE n \in 1 .. to - 1 /\ k \in to + 1 .. m
    <3>1. n = k - 1
      BY <1>1, <1>3, <1>7, <2>5
    <3> QED
      BY <2>5, <3>1
  <2>6. CASE k \in 1 .. to - 1 /\ n \in to + 1 .. m
    <3>1. k = n - 1
      BY <1>1, <1>3, <1>7, <2>6
    <3> QED
      BY <2>6, <3>1
  <2>7. \A x \in 1 .. m : x \in 1 .. to - 1 \/ x = to \/ x \in to + 1 .. m
    OBVIOUS
  <2> QED
    BY <2>2, <2>3, <2>4, <2>5, <2>6, <2>7
<1>8. j2 \in [1 .. m -> 1 .. g + 1]
  BY <1>4, <1>6
<1> QED
  BY <1>1, <1>2, <1>3, <1>7, <1>8 DEF Extended

------------------------------------------------------------------------------
VARIABLES sampler,   \* values and samplecount
          given      \* the times that were given to add_sample

\* The loop of fcyc: the function is timed until the best samples have converged.
SamplerInit == sampler = init_sampler /\ given = <<>>

TakeSample ==
  /\ Sampling(sampler)
  /\ \E t \in Int : sampler' = add_sample(sampler, t) /\ given' = Append(given, t)

SamplerSpec == SamplerInit /\ [][TakeSample]_<<sampler, given>>

\* The place of each value among the times: no time is taken twice, and one that is not
\* taken is not less than the last of kbest values.
Picked(j, v) ==
  /\ j \in [1 .. Len(v) -> 1 .. Len(given)]
  /\ \A n, k \in 1 .. Len(v) : j[n] = j[k] => n = k
  /\ \A n \in 1 .. Len(v) : v[n] = given[j[n]]
  /\ \A i \in 1 .. Len(given) :
       \/ \E n \in 1 .. Len(v) : j[n] = i
       \/ Len(v) = kbest /\ v[kbest] <= given[i]

\* The sampler holds the kbest least of the times, in order.
KeepsLeast ==
  LET v == sampler.values
  IN  /\ v \in Seq(Int) /\ given \in Seq(Int)
      /\ sampler.samplecount = Len(given)
      /\ Len(v) = IF Len(given) < kbest THEN Len(given) ELSE kbest
      /\ Sorted(v, Len(v))
      /\ \E j : Picked(j, v)

\* A time t that sinks into the values: behind them, or in place of the last of kbest values.
LEMMA SinkKeeps ==
  ASSUME kbest \in Nat \ {0}, KeepsLeast, NEW t \in Int, NEW q \in Seq(Int), NEW m \in Nat \ {0},
         m = Len(q), q[m] = t, \A n \in 1 .. m - 1 : q[n] = sampler.values[n],
         \/ m = Len(sampler.values) + 1
         \/ m = Len(sampler.values) /\ m = kbest /\ t < sampler.values[m],
         given' = Append(given, t),
         sampler' = [values |-> Sink(q, m), samplecount |-> sampler.samplecount + 1],
         m = IF Len(given) + 1 < kbest THEN Len(given) + 1 ELSE kbest
  PROVE  KeepsLeast'
<1>1. PICK v, g : v = sampler.values /\ g = Len(given)
  OBVIOUS
<1>2. /\ v \in Seq(Int) /\ given \in Seq(Int) /\ sampler.samplecount = g
      /\ Sorted(v, Len(v)) /\ \E j : Picked(j, v)
  BY <1>1 DEF KeepsLeast
<1>3. /\ g \in Nat /\ Len(v) \in Nat
      /\ \A n \in 1 .. Len(v) : v[n] \in Int
      /\ \A n \in 1 .. g : given[n] \in Int
  BY <1>1, <1>2, LenProperties, ElementOfSeq
<1>4. PICK j : Picked(j, v)
  BY <1>2
<1>5. /\ given' \in Seq(Int) /\ Len(given') = g + 1
      /\ given'[g + 1] = t /\ \A i \in 1 .. g : given'[i] = given[i]
  BY <1>1, <1>2
<1>6. m \in {Len(v), Len(v) + 1}
  BY <1>1
<1>7. ASSUME NEW n \in 1 .. m - 1 PROVE n \in 1 .. Len(v) /\ q[n] = v[n] /\ v[n] \in Int
  BY <1>1, <1>3, <1>6
<1>8. Sorted(q, m - 1) /\ Sorted(v, m - 1)
  BY <1>2, <1>7 DEF Sorted
<1>9. PICK w : w = Sink(q, m)
  OBVIOUS
<1>10. PICK to \in 1 .. m :
         w \in Seq(Int) /\ Len(w) = m /\ Sunk(w, q, t, to, m)
  BY <1>8, <1>9, SinkIs
<1>11. Sunk(w, v, t, to, m)
  <2>1. \A n \in to .. m - 1 : n \in 1 .. m - 1
    OBVIOUS
  <2>2. \A n \in 1 .. to - 1 : n \in 1 .. m - 1
    OBVIOUS
  <2>3. to > 1 => to - 1 \in 1 .. m - 1
    OBVIOUS
  <2>4. \A n \in to + 1 .. m : n - 1 \in 1 .. m - 1
    OBVIOUS
  <2> QED
    BY <1>7, <1>10, <2>1, <2>2, <2>3, <2>4 DEF Sunk
<1>12. Sorted(w, m)
  BY <1>7, <1>8, <1>11, SunkSorted
<1>13. sampler'.values = w /\ sampler'.samplecount = g + 1
  BY <1>2, <1>9
<1>14. ASSUME NEW n \in 1 .. m - 1 PROVE j[n] \in 1 .. g /\ v[n] = given[j[n]]
  BY <1>1, <1>4, <1>7 DEF Picked
<1>15. ASSUME NEW n \in 1 .. m - 1, NEW k \in 1 .. m - 1, j[n] = j[k] PROVE n = k
  BY <1>4, <1>7, <1>15 DEF Picked
<1>16. PICK j2 : Extended(j2, j, to, m, g)
  <2>1. \A n \in 1 .. m - 1 : j[n] \in 1 .. g
    BY <1>14
  <2>2. \A n, k \in 1 .. m - 1 : j[n] = j[k] => n = k
    BY <1>15
  <2> QED
    BY <1>3, <1>10, <2>1, <2>2, PlacesExtended
<1>17. ASSUME NEW n \in 1 .. m PROVE w[n] = given'[j2[n]]
  <2>1. CASE n \in 1 .. to - 1
    <3>1. n \in 1 .. m - 1
      BY <2>1
    <3>2. w[n] = v[n] /\ j2[n] = j[n]
      BY <1>11, <1>16, <2>1 DEF Extended, Sunk
    <3> QED
      BY <1>5, <1>14, <3>1, <3>2
  <2>2. CASE n = to
    BY <1>5, <1>11, <1>16, <2>2 DEF Extended, Sunk
  <2>3. CASE n \in to + 1 .. m
    <3>1. n - 1 \in 1 .. m - 1
      BY <2>3
    <3>2. w[n] = v[n - 1] /\ j2[n] = j[n - 1]
      BY <1>11, <1>16, <2>3 DEF Extended, Sunk
    <3> QED
      BY <1>5, <1>14, <3>1, <3>2
  <2>4. n \in 1 .. to - 1 \/ n = to \/ n \in to + 1 .. m
    BY <1>10
  <2> QED
    BY <2>1, <2>2, <2>3, <2>4
<1>18. ASSUME NEW n \in 1 .. m - 1 PROVE \E k \in 1 .. m : j2[k] = j[n]
  <2>1. CASE n \in 1 .. to - 1
    <3>1. n \in 1 .. m
      OBVIOUS
    <3> QED
      BY <1>16, <2>1, <3>1 DEF Extended
  <2>2. CASE ~(n \in 1 .. to - 1)
    <3>1. n + 1 \in to + 1 .. m /\ n + 1 \in 1 .. m /\ (n + 1) - 1 = n
      BY <2>2
    <3>2. j2[n + 1] = j[n]
      BY <1>16, <3>1 DEF Extended
    <3> QED
      BY <3>1, <3>2
  <2> QED
    BY <2>1, <2>2
<1>19. ASSUME m = Len(v), t < v[m] PROVE w[m] <= v[m]
  <2>1. v[m] \in Int /\ m \in 1 .. Len(v)
    BY <1>3, <1>19
  <2>2. CASE to = m
    BY <1>11, <1>19, <2>1, <2>2 DEF Sunk
  <2>3. CASE to # m
    <3>1. m \in to + 1 .. m /\ m - 1 \in 1 .. Len(v) /\ m - 1 <= m
      BY <1>19, <2>3
    <3>2. w[m] = v[m - 1] /\ v[m - 1] <= v[m]
      BY <1>2, <1>11, <2>1, <3>1 DEF Sorted, Sunk
    <3> QED
      BY <3>2
  <2> QED
    BY <2>2, <2>3
<1>20. ASSUME NEW i \in 1 .. g + 1
       PROVE  \/ \E n \in 1 .. m : j2[n] = i
              \/ m = kbest /\ w[kbest] <= given'[i]
  <2>1. CASE i = g + 1
    BY <1>16, <2>1 DEF Extended
  <2>2. ASSUME i \in 1 .. g, NEW n \in 1 .. Len(v), j[n] = i
        PROVE  \/ \E k \in 1 .. m : j2[k] = i
               \/ m = kbest /\ w[kbest] <= given'[i]
    <3>1. CASE n \in 1 .. m - 1
      BY <1>18, <2>2, <3>1
    <3>2. CASE ~(n \in 1 .. m - 1)
      <4>1. n = m /\ m = Len(v)
        BY <1>3, <1>6, <3>2
      <4>2. m = kbest /\ t < v[m]
        BY <1>1, <1>3, <4>1
      <4>3. v[m] = given[i] /\ given'[i] = given[i]
        BY <1>4, <1>5, <2>2, <4>1 DEF Picked
      <4> QED
        BY <1>19, <4>1, <4>2, <4>3
    <3> QED
      BY <3>1, <3>2
  <2>3. CASE i \in 1 .. g /\ ~(\E n \in 1 .. Len(v) : j[n] = i)
    <3>1. Len(v) = kbest /\ v[kbest] <= given[i] /\ given'[i] = given[i]
      BY <1>1, <1>4, <1>5, <2>3 DEF Picked
    <3>2. m = Len(v) /\ m = kbest /\ t < v[m]
      BY <1>1, <1>3, <3>1
    <3>3. w[m] \in Int /\ v[m] \in Int /\ given[i] \in Int
      BY <1>3, <1>10, <2>3, <3>2, ElementOfSeq
    <3>4. w[m] <= v[m]
      BY <1>19, <3>2
    <3> QED
      BY SMTT(30), <3>1, <3>2, <3>3, <3>4
  <2>4. i = g + 1 \/ i \in 1 .. g
    BY <1>3
  <2>5. CASE i \in 1 .. g /\ \E n \in 1 .. Len(v) : j[n] = i
    BY <2>2, <2>5
  <2> QED
    BY <2>1, <2>3, <2>4, <2>5
<1>21. Picked(j2, w)'
  <2>1. /\ j2 \in [1 .. Len(w) -> 1 .. Len(given')]
        /\ \A n, k \in 1 .. Len(w) : j2[n] = j2[k] => n = k
    BY <1>5, <1>10, <1>16 DEF Extended
  <2>2. \A n \in 1 .. Len(w) : w[n] = given'[j2[n]]
    BY <1>10, <1>17
  <2>3. \A i \in 1 .. Len(given') :
          \/ \E n \in 1 .. Len(w) : j2[n] = i
          \/ Len(w) = kbest /\ w[kbest] <= given'[i]
    BY <1>5, <1>10, <1>20
  <2> QED
    BY <2>1, <2>2, <2>3 DEF Picked
<1>22. Len(w) = IF Len(given') < kbest THEN Len(given') ELSE kbest
  BY <1>1, <1>5, <1>10
<1>23. Sorted(w, Len(w)) /\ w \in Seq(Int)
  BY <1>10, <1>12
<1>24. \E i : Picked(i, w)'
  BY <1>21
<1> QED
  BY <1>5, <1>13, <1>22, <1>23, <1>24 DEF KeepsLeast

\* add_sample of perflab/fcyc.c keeps the least of the times: while the sampler is not full
\* every time has a place of its own, and later the one that is dropped is the greatest.
LEMMA SampleKeeps ==
  ASSUME kbest \in Nat \ {0}, KeepsLeast, TakeSample
  PROVE  KeepsLeast'
<1>1. PICK t \in Int : sampler' = add_sample(sampler, t) /\ given' = Append(given, t)
  BY DEF TakeSample
<1>2. PICK v, g : v = sampler.values /\ g = Len(given)
  OBVIOUS
<1>3. /\ v \in Seq(Int) /\ given \in Seq(Int) /\ sampler.samplecount = g
      /\ Len(v) = (IF g < kbest THEN g ELSE kbest)
      /\ Sorted(v, Len(v)) /\ \E j : Picked(j, v)
  BY <1>2 DEF KeepsLeast
<1>4. /\ g \in Nat /\ Len(v) \in Nat
      /\ \A n \in 1 .. Len(v) : v[n] \in Int
      /\ \A n \in 1 .. g : given[n] \in Int
  BY <1>2, <1>3, LenProperties, ElementOfSeq
<1>5. CASE g < kbest
  <2>1. PICK q : q = Append(v, t)
    OBVIOUS
  <2>2. q \in Seq(Int) /\ Len(q) = g + 1 /\ q[g + 1] = t /\ \A n \in 1 .. g : q[n] = v[n]
    BY <1>3, <1>5, <2>1
  <2>3. sampler' = [values |-> Sink(q, g + 1), samplecount |-> sampler.samplecount + 1]
    BY <1>1, <1>2, <1>3, <1>4, <1>5, <2>1 DEF add_sample
  <2>4. g + 1 \in Nat \ {0} /\ g + 1 = (IF g + 1 < kbest THEN g + 1 ELSE kbest) /\ (g + 1) - 1 = g
    BY <1>4, <1>5
  <2>5. /\ \A n \in 1 .. (g + 1) - 1 : q[n] = sampler.values[n]
        /\ g + 1 = Len(sampler.values) + 1
    BY <1>2, <1>3, <1>5, <2>2, <2>4
  <2>6. g + 1 = IF Len(given) + 1 < kbest THEN Len(given) + 1 ELSE kbest
    BY <1>2, <2>4
  <2> QED
    BY <1>1, <2>2, <2>3, <2>4, <2>5, <2>6, SinkKeeps
<1>6. CASE g >= kbest /\ t < v[kbest]
  <2>1. PICK q : q = [v EXCEPT ![kbest] = t]
    OBVIOUS
  <2>2. Len(v) = kbest /\ kbest \in 1 .. Len(v)
    BY <1>3, <1>4, <1>6
  <2>3. /\ q \in Seq(Int) /\ Len(q) = kbest /\ q[kbest] = t
        /\ \A n \in 1 .. kbest - 1 : q[n] = v[n]
    BY <1>3, <2>1, <2>2
  <2>4. sampler' = [values |-> Sink(q, kbest), samplecount |-> sampler.samplecount + 1]
    BY <1>1, <1>2, <1>3, <1>4, <1>6, <2>1 DEF add_sample
  <2>5. kbest = IF g + 1 < kbest THEN g + 1 ELSE kbest
    BY <1>4, <1>6
  <2> QED
    BY <1>1, <1>2, <1>6, <2>2, <2>3, <2>4, <2>5, SinkKeeps
<1>7. CASE g >= kbest /\ ~(t < v[kbest])
  <2>1. sampler' = [values |-> v, samplecount |-> g + 1]
    BY <1>1, <1>2, <1>3, <1>4, <1>7 DEF add_sample
  <2>2. Len(v) = kbest /\ v[kbest] \in Int /\ v[kbest] <= t
    BY <1>3, <1>4, <1>7
  <2>3. /\ given' \in Seq(Int) /\ Len(given') = g + 1
        /\ given'[g + 1] = t /\ \A i \in 1 .. g : given'[i] = given[i]
    BY <1>1, <1>2, <1>3
  <2>4. PICK j : Picked(j, v)
    BY <1>3
  <2>5. Picked(j, v)'
    <3>1. /\ j \in [1 .. Len(v) -> 1 .. g]
          /\ \A n, k \in 1 .. Len(v) : j[n] = j[k] => n = k
          /\ \A n \in 1 .. Len(v) : j[n] \in 1 .. g /\ v[n] = given[j[n]]
      BY <1>2, <2>4 DEF Picked
    <3>2. j \in [1 .. Len(v) -> 1 .. g + 1]
      <4>1. 1 .. g \subseteq 1 .. g + 1
        BY <1>4
      <4> QED
        BY <3>1, <4>1
    <3>3. \A n \in 1 .. Len(v) : v[n] = given'[j[n]]
      BY <2>3, <3>1
    <3>4. ASSUME NEW i \in 1 .. g + 1
          PROVE  \/ \E n \in 1 .. Len(v) : j[n] = i
                 \/ Len(v) = kbest /\ v[kbest] <= given'[i]
      <4>1. CASE i = g + 1
        BY <2>2, <2>3, <4>1
      <4>2. CASE i \in 1 .. g
        BY <1>2, <2>3, <2>4, <4>2 DEF Picked
      <4> QED
        BY <1>4, <4>1, <4>2
    <3> QED
      BY <2>3, <3>1, <3>2, <3>3, <3>4 DEF Picked
  <2>6. sampler'.values = v /\ sampler'.samplecount = Len(given')
    BY <2>1, <2>3
  <2>7. Len(v) = IF Len(given') < kbest THEN Len(given') ELSE kbest
    BY <1>4, <1>7, <2>2, <2>3
  <2>8. \E i : Picked(i, v)'
    BY <2>5
  <2> QED
    BY <1>3, <2>3, <2>6, <2>7, <2>8 DEF KeepsLeast
<1>8. g < kbest \/ (g >= kbest /\ t < v[kbest]) \/ (g >= kbest /\ ~(t < v[kbest]))
  BY <1>4
<1> QED
  BY <1>5, <1>6, <1>7, <1>8

\* The sampler of perflab/fcyc.c and malloclab/fcyc.c holds, after any number of times, the
\* kbest least of them, in order and each as often as it was taken (the second part of
\* TimesExact).
THEOREM SamplerKeepsLeast ==
  ASSUME kbest \in Nat \ {0}
  PROVE  SamplerSpec => []KeepsLeast
<1>1. SamplerInit => KeepsLeast
  <2> SUFFICES ASSUME SamplerInit PROVE KeepsLeast
    OBVIOUS
  <2>1. sampler.values = <<>> /\ sampler.samplecount = 0 /\ given = <<>>
    BY DEF SamplerInit, init_sampler
  <2>2. Picked(<<>>, <<>>)
    BY <2>1 DEF Picked
  <2>3. <<>> \in Seq(Int) /\ Len(<<>>) = 0 /\ Sorted(<<>>, Len(<<>>))
    BY DEF Sorted
  <2> QED
    BY <2>1, <2>2, <2>3 DEF KeepsLeast
<1>2. KeepsLeast /\ [TakeSample]_<<sampler, given>> => KeepsLeast'
  <2> SUFFICES ASSUME KeepsLeast, [TakeSample]_<<sampler, given>> PROVE KeepsLeast'
    OBVIOUS
  <2>1. CASE TakeSample
    BY <2>1, SampleKeeps
  <2>2. CASE UNCHANGED <<sampler, given>>
    BY ZenonT(60), <2>2 DEF KeepsLeast, Picked
  <2> QED
    BY <2>1, <2>2
<1> QED
  BY <1>1, <1>2, PTL DEF SamplerSpec
==============================================================================
