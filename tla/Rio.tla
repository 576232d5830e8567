---------------------------------- MODULE Rio ----------------------------------
(***************************************************************************)
(* The robust I/O functions of csapp.c, on which the proxy and the Tiny    *)
(* server read and write their sockets.  What the calls of read and write  *)
(* will do is given beforehand: a plan of how many bytes each of the next  *)
(* calls moves, or "EINTR" for a call that a signal interrupts; later      *)
(* calls move all they can.  At the end of its data a descriptor gives     *)
(* "EOF", or "error".                                                      *)
(***************************************************************************)
EXTENDS Integers, Sequences, SequencesExt

CONSTANTS RIO_BUFSIZE,      \* the bytes of the internal buffer, at least 1
          NewLine           \* the byte that ends a line

\* A descriptor to read from: the bytes to come, the plan and the end.
Descriptor(data, plan, end) == [data |-> data, plan |-> plan, end |-> end]

Limit(a, b) == IF a < b THEN a ELSE b

\* read(fd, buf, n): the bytes got, what happened, and the descriptor after it.
read(fd, n) ==
  LET rest  == [fd EXCEPT !.plan = IF @ = <<>> THEN @ ELSE Tail(@)]
      most  == Limit(n, Len(fd.data))
      count == IF fd.plan = <<>> THEN most ELSE Limit(fd.plan[1], most)
  IN  CASE fd.plan # <<>> /\ fd.plan[1] = 0 -> [got |-> <<>>, is |-> "EINTR", fd |-> rest]
        [] ~(fd.plan # <<>> /\ fd.plan[1] = 0) /\ fd.data = <<>> ->
             [got |-> <<>>, is |-> fd.end, fd |-> rest]
        [] OTHER -> [got |-> SubSeq(fd.data, 1, count), is |-> "data",
                     fd |-> [rest EXCEPT !.data = SubSeq(@, count + 1, Len(@))]]

------------------------------------------------------------------------------
(* Unbuffered.                                                             *)

\* The loops go on while they have something to do: at most once for each byte and once for
\* each entry of the plan.
rio_readn(fd, n) ==
  LET most == n + Len(fd.plan)
      loop[k \in 0 .. most] ==
        IF k = 0 THEN [got |-> <<>>, is |-> "data", fd |-> fd]
        ELSE LET s == loop[k - 1]
             IN  IF Len(s.got) = n \/ s.is \notin {"data", "EINTR"} THEN s
                 ELSE LET r == read(s.fd, n - Len(s.got))
                      IN  [got |-> s.got \o r.got, is |-> r.is, fd |-> r.fd]
      last == loop[most]
  IN  [got |-> last.got, ret |-> IF last.is = "error" THEN -1 ELSE Len(last.got)]

\* A call of write moves what the plan says, 0 bytes when it is interrupted; then either
\* a call moves the rest, or it fails.
rio_writen(data, plan, end) ==
  LET sent[k \in 0 .. Len(plan)] ==
        IF k = 0 THEN 0 ELSE LET s == sent[k - 1] IN s + Limit(plan[k], Len(data) - s)
      count == IF end = "error" THEN sent[Len(plan)] ELSE Len(data)
  IN  [sent |-> SubSeq(data, 1, count), ret |-> IF count = Len(data) THEN count ELSE -1]

------------------------------------------------------------------------------
(* Buffered: the buffer holds what was read and not yet given out.         *)
rio_readinitb(fd) == [fd |-> fd, buf |-> <<>>]

\* Mutant: an interrupted call counts as the end of the data.
Refill_NoRetry(rp) == LET r == read(rp.fd, RIO_BUFSIZE)
                      IN  [is |-> IF r.is = "EINTR" THEN "EOF" ELSE r.is,
                           rp |-> [fd |-> r.fd, buf |-> r.got]]

\* Reads into an empty buffer until a call is not interrupted.
Refill(rp) ==
  LET try[k \in 0 .. Len(rp.fd.plan) + 1] ==
        IF k = 0 THEN [is |-> "EINTR", rp |-> rp]
        ELSE LET t == try[k - 1]
             IN  IF t.is # "EINTR" THEN t
                 ELSE LET r == read(t.rp.fd, RIO_BUFSIZE)
                      IN  [is |-> r.is, rp |-> [fd |-> r.fd, buf |-> r.got]]
  IN  try[Len(rp.fd.plan) + 1]

\* Up to n bytes of the buffer, which is filled first if it is empty.
rio_read(rp, n) ==
  LET f     == IF rp.buf = <<>> THEN Refill(rp) ELSE [is |-> "data", rp |-> rp]
      count == Limit(n, Len(f.rp.buf))
  IN  [got |-> SubSeq(f.rp.buf, 1, count), is |-> f.is,
       rp |-> [f.rp EXCEPT !.buf = SubSeq(@, count + 1, Len(@))]]

\* ret is -1 for an error; got is then of no use.
rio_readnb(rp, n) ==
  LET loop[k \in 0 .. n] ==
        IF k = 0 THEN [got |-> <<>>, is |-> "data", rp |-> rp]
        ELSE LET s == loop[k - 1]
             IN  IF Len(s.got) = n \/ s.is # "data" THEN s
                 ELSE LET r == rio_read(s.rp, n - Len(s.got))
                      IN  [got |-> s.got \o r.got, is |-> r.is, rp |-> r.rp]
      last == loop[n]
  IN  [got |-> last.got, ret |-> IF last.is = "error" THEN -1 ELSE Len(last.got),
       rp |-> last.rp]

\* A line of at most maxlen - 1 bytes, its end included.
rio_readlineb(rp, maxlen) ==
  LET loop[k \in 0 .. maxlen - 1] ==
        IF k = 0 THEN [got |-> <<>>, is |-> "data", rp |-> rp]
        ELSE LET s == loop[k - 1]
             IN  IF s.is # "data" \/ (s.got # <<>> /\ Last(s.got) = NewLine) THEN s
                 ELSE LET r == rio_read(s.rp, 1)
                      IN  [got |-> s.got \o r.got, is |-> r.is, rp |-> r.rp]
      last == loop[maxlen - 1]
  IN  [got |-> last.got, ret |-> IF last.is = "error" THEN -1 ELSE Len(last.got),
       rp |-> last.rp]
================================================================================
