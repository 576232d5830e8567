------------------------------ MODULE CommandLine ------------------------------
(***************************************************************************)
(* How the tiny shell takes a command line apart: parseline of shlab/tsh.c *)
(* and what eval makes of its answer.  A line is a sequence of characters. *)
(***************************************************************************)
EXTENDS Integers, Sequences, SequencesExt

Space == " "
Quote == "'"

\* Mutant: the argument behind a quoted one is looked for at the closing quote.
Rest_AtQuote(s, delim) == IF s[delim] = Quote THEN delim ELSE delim + 1

\* Where the search for the next argument goes on.
Rest(s, delim) == delim + 1

\* The arguments: each ends at a space, or at the next quote if it begins with one; what has
\* no end is left out. The last character of the line is taken for its newline.
Arguments(cmdline) ==
  LET s == [cmdline EXCEPT ![Len(cmdline)] = Space]
      Firsts(from, P(_)) == {k \in from .. Len(s) : P(s[k])}
      Least(ks) == CHOOSE k \in ks : \A m \in ks : k <= m
      args[from \in 1 .. Len(s) + 1] ==
        LET begins == Firsts(from, LAMBDA c : c # Space)
            quoted == begins # {} /\ s[Least(begins)] = Quote
            first  == IF begins = {} THEN Len(s) + 1 ELSE Least(begins) + (IF quoted THEN 1 ELSE 0)
            ends   == Firsts(first, LAMBDA c : c = (IF quoted THEN Quote ELSE Space))
        IN  IF ends = {} THEN <<>>
            ELSE <<SubSeq(s, first, Least(ends) - 1)>> \o args[Rest(s, Least(ends))]
  IN  args[1]

\* The arguments without a last one that begins with &, and whether there was one; a blank
\* line counts as one in the background.
parseline(cmdline) ==
  LET argv == Arguments(cmdline)
      bg   == argv # <<>> /\ Last(argv) # <<>> /\ Head(Last(argv)) = "&"
  IN  [argv |-> IF bg THEN Front(argv) ELSE argv, bg |-> bg \/ argv = <<>>]
================================================================================
