----------------------------- MODULE JobControl ------------------------------
(***************************************************************************)
(* What the user of the tiny shell is promised about jobs: the table of    *)
(* job states and enabling actions at the head of shlab/tsh.c, completed   *)
(* with the birth of a job and the stop of a background job by a signal    *)
(* the shell did not send.  While a job is in the foreground the shell     *)
(* accepts no command, so nothing is launched or resumed.                  *)
(***************************************************************************)
CONSTANT Pids

VARIABLE job          \* the state of each process as a job of the shell

NoForeground == \A p \in Pids : job[p] # "FG"

Init == job = [p \in Pids |-> "none"]

\* A command line that is not a built-in command, with or without a final &.
Launch(p, st) ==
  /\ NoForeground
  /\ job[p] = "none"
  /\ job' = [job EXCEPT ![p] = st]

\* The built-in commands fg and bg: ST -> FG, BG -> FG, ST -> BG.
Resume(p, st) ==
  /\ NoForeground
  /\ job[p] \in {"BG", "ST"}
  /\ job' = [job EXCEPT ![p] = st]

\* ctrl-z in the foreground, a stop signal of someone else's in the background.
Stop(p) ==
  /\ job[p] \in {"FG", "BG"}
  /\ job' = [job EXCEPT ![p] = "ST"]

Finish(p) ==
  /\ job[p] # "none"
  /\ job' = [job EXCEPT ![p] = "none"]

Next ==
  \E p \in Pids :
     \/ \E st \in {"FG", "BG"} : Launch(p, st) \/ Resume(p, st)
     \/ Stop(p)
     \/ Finish(p)

Spec == Init /\ [][Next]_job
==============================================================================
