------------------------------- MODULE MCProxy -------------------------------
EXTENDS Proxy, TLC

\* All URLs have one hash code.
MCHash == [u \in URL |-> 7]

Sized(length, rest) == [kind |-> "sized", length |-> length, rest |-> rest]

\* With MAX_CACHE_OBJECT = 7 and MAXBUF = 2: a response that is too long by one byte,
\* the last piece of which does not fit; one with a NUL that the server cuts short;
\* two chunks, the last of size 0; one that ends with the connection.
MCResponse ==
  {Sized(6, <<3, 3, 3, 3, 3, 3>>), Sized(3, <<3, Nul>>),
   [kind |-> "chunked", length |-> -1,
    rest |-> <<SizeLine(1), 3, Eol, SizeLine(0), Eol>>],
   [kind |-> "eof", length |-> -1, rest |-> <<4>>]}

MCStaleByte == {Nul, 5}

\* Two responses that fit, one with a NUL.
TwoResponses == {Sized(1, <<3>>), Sized(2, <<Nul, 3>>)}

\* The choice of response does not matter to what waits for the lock.
OneResponse == {Sized(1, <<3>>)}
==============================================================================
