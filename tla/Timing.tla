-------------------------------- MODULE Timing --------------------------------
(***************************************************************************)
(* How the performance and the malloc lab time a function: the cycle       *)
(* counter of perflab/clock.c, read as two unsigned words, and the K-best  *)
(* sampling of perflab/fcyc.c (the files of malloclab do the same).  A     *)
(* word has the values below UWord, 2^32 in the code; epsilon is a number  *)
(* of percent.                                                             *)
(***************************************************************************)
EXTENDS Integers, Sequences, SequencesExt

CONSTANTS UWord, kbest, maxsamples, epsilon

access_counter(cycles) == [hi |-> (cycles \div UWord) % UWord, lo |-> cycles % UWord]

\* Mutant: the low words are subtracted without a borrow.
get_counter_NoBorrow(start, cycles) ==
  LET now == access_counter(cycles)
  IN  ((now.hi - start.hi) % UWord) * UWord + ((now.lo - start.lo) % UWord)

\* The cycles since the counter was read as start.
get_counter(start, cycles) ==
  LET now == access_counter(cycles)
      lo     == (now.lo - start.lo) % UWord
      borrow == IF lo > now.lo THEN 1 ELSE 0
      hi     == (now.hi - start.hi - borrow) % UWord
  IN  hi * UWord + lo

------------------------------------------------------------------------------
init_sampler == [values |-> <<>>, samplecount |-> 0]

\* The values with the one at pos moved to the left past the greater ones.
Sink(values, pos) ==
  LET to == CHOOSE q \in 1 .. pos : /\ \A r \in q .. pos - 1 : values[r] > values[pos]
                                    /\ (q > 1 => values[q - 1] <= values[pos])
  IN  InsertAt(RemoveAt(values, pos), to, values[pos])

\* The kbest least values so far, in order.
add_sample(s, val) ==
  [values |-> CASE s.samplecount < kbest -> Sink(Append(s.values, val), s.samplecount + 1)
                [] s.samplecount >= kbest /\ val < s.values[kbest] ->
                     Sink([s.values EXCEPT ![kbest] = val], kbest)
                [] OTHER -> s.values,
   samplecount |-> s.samplecount + 1]

has_converged(s) == /\ s.samplecount >= kbest
                    /\ (100 + epsilon) * s.values[1] >= 100 * s.values[kbest]

\* fcyc goes on sampling.
Sampling(s) == s.samplecount = 0 \/ (~has_converged(s) /\ s.samplecount < maxsamples)
===============================================================================
