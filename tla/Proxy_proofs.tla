---------------------------- MODULE Proxy_proofs -----------------------------
(***************************************************************************)
(* The proxy, for every number of threads, slots and URLs, every hash      *)
(* function, all sizes and all responses.                                  *)
(***************************************************************************)
EXTENDS Proxy, SequenceTheorems, FiniteSetTheorems, WellFoundedInduction, TLAPS

------------------------------------------------------------------------------
(***************************************************************************)
(* The steps of the tunnel, for every size of the buffers: they keep its   *)
(* types, and what is carried stays in order.                              *)
(***************************************************************************)
\* The lesser of two numbers.
LEMMA MinOfTwo ==
  ASSUME NEW a \in Int, NEW b \in Int
  PROVE  /\ Min({a, b}) \in {a, b}
         /\ Min({a, b}) <= a /\ Min({a, b}) <= b
<1>1. \E x \in {a, b} : \A y \in {a, b} : x <= y
  <2>1. CASE a <= b
    BY <2>1
  <2>2. CASE b <= a
    BY <2>2
  <2> QED
    BY <2>1, <2>2
<1> QED
  BY <1>1 DEF Min

\* Every step of a tunnel maps its state to a state of a tunnel.
LEMMA TunnelOperators ==
  ASSUME NEW T \in TunnelState
  PROVE  /\ SelectReturns(T) \in TunnelState /\ OtherSide(T) \in TunnelState
         /\ ReadNone(T) \in TunnelState
         /\ Reads(T) => ReadBytes(T) \in TunnelState
         /\ Room(T) > 0 => WriteBytes(T) \in TunnelState
         /\ \A s \in Side : /\ PeerSends(T, s) \in TunnelState
                            /\ PeerStops(T, s) \in TunnelState
                            /\ PeerReceives(T, s) \in TunnelState
<1>1. \A s \in Side : Other(s) \in Side
  BY DEF Side, Other
<1>2. SelectReturns(T) \in TunnelState /\ OtherSide(T) \in TunnelState
  BY <1>1 DEF TunnelState, SelectReturns, OtherSide, Ready, Watched, Side
<1>3. ReadNone(T) \in TunnelState
  BY DEF TunnelState, ReadNone
<1>4. ASSUME Reads(T) PROVE ReadBytes(T) \in TunnelState
  <2> DEFINE q == T.in[T.side]
             n == Min({Len(q), MAXBUF})
  <2>1. q \in Seq(Nat)
    BY DEF TunnelState
  <2>2. n \in Nat /\ n <= Len(q)
    <3>1. Len(q) \in Nat /\ Len(q) \in Int /\ MAXBUF \in Int
      BY <2>1, BufferAssumption
    <3> HIDE DEF q
    <3>2. n \in {Len(q), MAXBUF} /\ n <= Len(q)
      BY <3>1, MinOfTwo
    <3> QED
      BY <3>1, <3>2, BufferAssumption
  <2>3. SubSeq(q, 1, n) \in Seq(Nat) /\ SubSeq(q, n + 1, Len(q)) \in Seq(Nat)
    <3> HIDE DEF q, n
    <3> QED
      BY <2>1, <2>2
  <2> DEFINE buf == SubSeq(q, 1, n)
             in  == [T.in EXCEPT ![T.side] = SubSeq(q, n + 1, Len(q))]
  <2>4. ReadBytes(T) = [T EXCEPT !.buf = buf, !.in = in]
    BY DEF ReadBytes, TunnelState
  <2>5. buf \in Seq(Nat) /\ in \in [Side -> Seq(Nat)]
    <3> HIDE DEF q, n
    <3> QED
      BY <2>3 DEF TunnelState
  <2> HIDE DEF buf, in
  <2> QED
    BY <2>4, <2>5 DEF TunnelState
<1>5. ASSUME Room(T) > 0 PROVE WriteBytes(T) \in TunnelState
  <2> DEFINE o == Other(T.side)
             n == Min({Len(T.buf), Room(T)})
  <2>1. o \in Side /\ T.buf \in Seq(Nat) /\ T.out[o] \in Seq(Nat)
    BY <1>1 DEF TunnelState
  <2>2. Room(T) \in Int
    BY <2>1, SocketAssumption DEF Room
  <2>3. n \in Nat /\ n <= Len(T.buf)
    <3>1. Len(T.buf) \in Nat /\ Len(T.buf) \in Int
      BY <2>1
    <3>2. n \in {Len(T.buf), Room(T)} /\ n <= Len(T.buf)
      BY <2>2, <3>1, MinOfTwo
    <3> QED
      BY <2>2, <3>1, <3>2, <1>5
  <2>4. /\ SubSeq(T.buf, 1, n) \in Seq(Nat) /\ SubSeq(T.buf, n + 1, Len(T.buf)) \in Seq(Nat)
        /\ T.out[o] \o SubSeq(T.buf, 1, n) \in Seq(Nat)
    <3> HIDE DEF n, o
    <3>1. SubSeq(T.buf, 1, n) \in Seq(Nat) /\ SubSeq(T.buf, n + 1, Len(T.buf)) \in Seq(Nat)
      BY SMTT(30), <2>1, <2>3
    <3> QED
      BY <2>1, <3>1
  <2> DEFINE buf == SubSeq(T.buf, n + 1, Len(T.buf))
             out == [T.out EXCEPT ![o] = T.out[o] \o SubSeq(T.buf, 1, n)]
  <2>5. WriteBytes(T) = [T EXCEPT !.buf = buf, !.out = out]
    BY DEF WriteBytes, TunnelState
  <2>6. buf \in Seq(Nat) /\ out \in [Side -> Seq(Nat)]
    <3> HIDE DEF n, o
    <3> QED
      BY <2>1, <2>4 DEF TunnelState
  <2> HIDE DEF buf, out
  <2> QED
    BY <2>5, <2>6 DEF TunnelState
<1>6. ASSUME NEW s \in Side
      PROVE  /\ PeerSends(T, s) \in TunnelState /\ PeerStops(T, s) \in TunnelState
             /\ PeerReceives(T, s) \in TunnelState
  <2>1. /\ T.in[s] \in Seq(Nat) /\ T.out[s] \in Seq(Nat) /\ T.got[s] \in Seq(Nat)
        /\ T.sent[s] \in Nat
    BY DEF TunnelState
  <2>2. Append(T.in[s], T.sent[s] + 1) \in Seq(Nat) /\ T.got[s] \o T.out[s] \in Seq(Nat)
    BY <2>1
  <2>3. PeerSends(T, s) \in TunnelState
    <3> DEFINE in   == [T.in EXCEPT ![s] = Append(T.in[s], T.sent[s] + 1)]
               sent == [T.sent EXCEPT ![s] = T.sent[s] + 1]
    <3>1. PeerSends(T, s) = [T EXCEPT !.in = in, !.sent = sent]
      BY DEF TunnelState, PeerSends
    <3>2. in \in [Side -> Seq(Nat)] /\ sent \in [Side -> Nat]
      BY <2>1, <2>2 DEF TunnelState
    <3> HIDE DEF in, sent
    <3> QED
      BY <3>1, <3>2 DEF TunnelState
  <2>4. PeerStops(T, s) \in TunnelState
    BY DEF TunnelState, PeerStops
  <2>5. PeerReceives(T, s) \in TunnelState
    <3> DEFINE got == [T.got EXCEPT ![s] = T.got[s] \o T.out[s]]
               out == [T.out EXCEPT ![s] = <<>>]
    <3>1. PeerReceives(T, s) = [T EXCEPT !.got = got, !.out = out]
      BY DEF TunnelState, PeerReceives
    <3>2. got \in [Side -> Seq(Nat)] /\ out \in [Side -> Seq(Nat)]
      BY <2>1, <2>2 DEF TunnelState
    <3> HIDE DEF got, out
    <3> QED
      BY <3>1, <3>2 DEF TunnelState
  <2> QED
    BY <2>3, <2>4, <2>5
<1> QED
  BY <1>2, <1>3, <1>4, <1>5, <1>6

------------------------------------------------------------------------------
(***************************************************************************)
(* What the tunnel carries.                                                *)
(***************************************************************************)
Numbered(n) == [i \in 1 .. n |-> i]
Buffered(T, s) == IF T.side = s THEN T.buf ELSE <<>>

\* What side s has sent is, in its order, what the other side has, what waits for it, what
\* is in the buffer and what is not read; and a side is given up only at its end.
Carries(T) ==
  \A s \in Side :
    /\ T.got[Other(s)] \o T.out[Other(s)] \o Buffered(T, s) \o T.in[s] = Numbered(T.sent[s])
    /\ s \notin T.open => s \in T.shut /\ T.in[s] = <<>>

\* Sequences are joined in any order.
LEMMA Joins ==
  ASSUME NEW a \in Seq(Nat), NEW b \in Seq(Nat)
  PROVE  /\ a \o b \in Seq(Nat) /\ a \o <<>> = a
         /\ \A c \in Seq(Nat) : (a \o b) \o c = a \o (b \o c)
<1>1. a \o b \in Seq(Nat) /\ a \o <<>> = a
  BY ConcatProperties, ConcatEmptySeq
<1>2. ASSUME NEW c \in Seq(Nat) PROVE (a \o b) \o c = a \o (b \o c)
  BY SMTT(30), ConcatAssociative
<1> QED
  BY <1>1, <1>2

\* The same with a name for the operator, which the provers then take as it is.
Cat(a, b) == a \o b

LEMMA CatJoins ==
  ASSUME NEW a \in Seq(Nat), NEW b \in Seq(Nat)
  PROVE  /\ Cat(a, b) \in Seq(Nat)
         /\ \A c \in Seq(Nat) : Cat(Cat(a, b), c) = Cat(a, Cat(b, c))
  BY Joins DEF Cat

\* A part moves from one sequence to the end of the one before it.
LEMMA MovePart ==
  ASSUME NEW g \in Seq(Nat), NEW w \in Seq(Nat), NEW b1 \in Seq(Nat), NEW b2 \in Seq(Nat)
  PROVE  /\ (g \o w) \o b1 = g \o (w \o b1)
         /\ Cat(Cat(g, Cat(w, b1)), b2) = Cat(Cat(g, w), Cat(b1, b2))
<1>1. Cat(g, w) \in Seq(Nat) /\ Cat(Cat(g, w), b1) = Cat(g, Cat(w, b1))
  BY CatJoins
<1>2. Cat(Cat(Cat(g, w), b1), b2) = Cat(Cat(g, w), Cat(b1, b2))
  BY <1>1, CatJoins
<1>3. Cat(Cat(g, Cat(w, b1)), b2) = Cat(Cat(g, w), Cat(b1, b2))
  BY <1>1, <1>2
<1> QED
  BY <1>1, <1>3 DEF Cat

\* The two parts of a sequence.
LEMMA Parts ==
  ASSUME NEW q \in Seq(Nat), NEW n \in Nat, n <= Len(q)
  PROVE  /\ SubSeq(q, 1, n) \in Seq(Nat) /\ SubSeq(q, n + 1, Len(q)) \in Seq(Nat)
         /\ SubSeq(q, 1, n) \o SubSeq(q, n + 1, Len(q)) = q
<1>1. SubSeq(q, 1, n) \in Seq(Nat) /\ SubSeq(q, n + 1, Len(q)) \in Seq(Nat)
  OBVIOUS
<1>2. /\ Len(q) \in Nat /\ 1 \in 1 .. Len(q) + 1 /\ n \in 1 - 1 .. Len(q)
      /\ Len(q) \in n .. Len(q)
  OBVIOUS
<1>3. SubSeq(q, 1, n) \o SubSeq(q, n + 1, Len(q)) = SubSeq(q, 1, Len(q))
  BY <1>2, ConcatAdjacentSubSeq
<1>4. SubSeq(q, 1, Len(q)) = q
  BY SubSeqFull
<1> QED
  BY <1>1, <1>3, <1>4

\* One more is sent.
LEMMA OneMore ==
  ASSUME NEW a \in Seq(Nat), NEW q \in Seq(Nat), NEW k \in Nat, a \o q = Numbered(k)
  PROVE  a \o Append(q, k + 1) = Numbered(k + 1)
<1>1. Append(q, k + 1) = q \o <<k + 1>> /\ <<k + 1>> \in Seq(Nat)
  OBVIOUS
<1>2. a \o Append(q, k + 1) = Numbered(k) \o <<k + 1>>
  BY SMTT(30), <1>1, ConcatAssociative
<1>3. Numbered(k) \in Seq(Nat) /\ Len(Numbered(k)) = k
  BY DEF Numbered
<1>4. /\ Numbered(k) \o <<k + 1>> \in Seq(Nat)
      /\ Len(Numbered(k) \o <<k + 1>>) = k + 1
      /\ \A i \in 1 .. k + 1 : (Numbered(k) \o <<k + 1>>)[i] = i
  BY <1>1, <1>3 DEF Numbered
<1> HIDE DEF Numbered
<1>5. Numbered(k) \o <<k + 1>> = [i \in 1 .. k + 1 |-> i]
  BY <1>4
<1> QED
  BY <1>2, <1>5 DEF Numbered

\* Each operator of the tunnel carries on what the last one left.
LEMMA LoopCarries ==
  ASSUME NEW T \in TunnelState, Carries(T)
  PROVE  /\ T.buf = <<>> => Carries(SelectReturns(T)) /\ Carries(OtherSide(T))
         /\ T.buf = <<>> => Carries(ReadNone(T)) /\ ReadNone(T).buf = <<>>
         /\ T.buf = <<>> /\ Reads(T) => Carries(ReadBytes(T))
         /\ Room(T) > 0 => Carries(WriteBytes(T))
<1>0. /\ T.side \in Side /\ \A s \in Side : Other(s) \in Side /\ Other(s) # s
      /\ \A s, o \in Side : Other(s) = Other(o) => s = o
  BY DEF Side, Other, TunnelState
<1>1. ASSUME NEW s \in Side
      PROVE  /\ T.in[s] \in Seq(Nat) /\ T.out[s] \in Seq(Nat) /\ T.got[s] \in Seq(Nat)
             /\ T.got[Other(s)] \o T.out[Other(s)] \in Seq(Nat) /\ T.buf \in Seq(Nat)
             /\ T.got[Other(s)] \in Seq(Nat) /\ T.out[Other(s)] \in Seq(Nat)
             /\ Buffered(T, s) \in Seq(Nat)
             /\ T.got[Other(s)] \o T.out[Other(s)] \o Buffered(T, s) \in Seq(Nat)
             /\ T.got[Other(s)] \o T.out[Other(s)] \o Buffered(T, s) \o T.in[s]
                  = Numbered(T.sent[s])
  <2>1. /\ T.in[s] \in Seq(Nat) /\ T.out[s] \in Seq(Nat) /\ T.got[s] \in Seq(Nat)
        /\ T.got[Other(s)] \in Seq(Nat) /\ T.out[Other(s)] \in Seq(Nat) /\ T.buf \in Seq(Nat)
    BY <1>0 DEF TunnelState
  <2>2. Buffered(T, s) \in Seq(Nat) /\ T.got[Other(s)] \o T.out[Other(s)] \in Seq(Nat)
    BY <2>1 DEF Buffered
  <2>3. T.got[Other(s)] \o T.out[Other(s)] \o Buffered(T, s) \in Seq(Nat)
    BY <2>2, Joins
  <2>4. T.got[Other(s)] \o T.out[Other(s)] \o Buffered(T, s) \o T.in[s] = Numbered(T.sent[s])
    BY DEF Carries
  <2> QED
    BY <2>1, <2>2, <2>3, <2>4
<1>2. ASSUME T.buf = <<>>
      PROVE  /\ Carries(SelectReturns(T)) /\ Carries(OtherSide(T))
             /\ Carries(ReadNone(T)) /\ ReadNone(T).buf = <<>>
  <2>1. \A U \in TunnelState, s \in Side : U.buf = <<>> => Buffered(U, s) = <<>>
    BY DEF Buffered
  <2>2. Carries(SelectReturns(T))
    <3>1. /\ SelectReturns(T) \in TunnelState /\ SelectReturns(T).buf = <<>>
          /\ SelectReturns(T).got = T.got /\ SelectReturns(T).out = T.out
          /\ SelectReturns(T).in = T.in /\ SelectReturns(T).sent = T.sent
          /\ SelectReturns(T).open = T.open /\ SelectReturns(T).shut = T.shut
      BY <1>2, TunnelOperators DEF SelectReturns, TunnelState
    <3> QED
      BY <1>2, <2>1, <3>1 DEF Carries
  <2>3. Carries(OtherSide(T))
    <3>1. /\ OtherSide(T) \in TunnelState /\ OtherSide(T).buf = <<>>
          /\ OtherSide(T).got = T.got /\ OtherSide(T).out = T.out
          /\ OtherSide(T).in = T.in /\ OtherSide(T).sent = T.sent
          /\ OtherSide(T).open = T.open /\ OtherSide(T).shut = T.shut
      BY <1>2, TunnelOperators DEF OtherSide, TunnelState
    <3> QED
      BY <1>2, <2>1, <3>1 DEF Carries
  <2>4. Carries(ReadNone(T)) /\ ReadNone(T).buf = <<>>
    <3>0. ReadNone(T) \in TunnelState
      BY TunnelOperators
    <3>1. /\ ReadNone(T).buf = <<>>
          /\ ReadNone(T).got = T.got /\ ReadNone(T).out = T.out
          /\ ReadNone(T).in = T.in /\ ReadNone(T).sent = T.sent /\ ReadNone(T).shut = T.shut
          /\ ReadNone(T).open = IF ReadEnd(T) THEN T.open \ {T.side} ELSE T.open
      BY <1>2 DEF ReadNone, TunnelState
    <3>2. \A s \in Side : s \notin ReadNone(T).open => s \in T.shut /\ T.in[s] = <<>>
      BY <3>1 DEF ReadEnd, Carries
    <3> QED
      BY <1>2, <2>1, <3>0, <3>1, <3>2 DEF Carries
  <2> QED
    BY <2>2, <2>3, <2>4
<1>3. ASSUME T.buf = <<>>, Reads(T)
      PROVE  Carries(ReadBytes(T))
  <2> DEFINE q == T.in[T.side]
             n == Min({Len(q), MAXBUF})
             U == ReadBytes(T)
  <2>1. q \in Seq(Nat) /\ Len(q) \in Nat /\ Len(q) \in Int
    <3>1. q \in Seq(Nat)
      BY <1>0 DEF TunnelState
    <3> HIDE DEF q
    <3> QED
      BY <3>1
  <2>2. n \in Nat /\ n <= Len(q)
    <3> HIDE DEF q
    <3>0. MAXBUF \in Int
      BY BufferAssumption
    <3>1. n \in {Len(q), MAXBUF} /\ n <= Len(q)
      BY <2>1, <3>0, MinOfTwo
    <3> QED
      BY <2>1, <3>1, BufferAssumption
  <2>3. /\ U.buf = SubSeq(q, 1, n) /\ U.side = T.side
        /\ U.in = [T.in EXCEPT ![T.side] = SubSeq(q, n + 1, Len(q))]
        /\ U.got = T.got /\ U.out = T.out /\ U.sent = T.sent /\ U.open = T.open
        /\ U.shut = T.shut
    BY DEF ReadBytes, TunnelState
  <2> HIDE DEF U, n
  <2>4. ASSUME NEW s \in Side
        PROVE  /\ U.got[Other(s)] \o U.out[Other(s)] \o Buffered(U, s) \o U.in[s]
                     = Numbered(U.sent[s])
               /\ s \notin U.open => s \in U.shut /\ U.in[s] = <<>>
    <3>1. CASE s # T.side
      BY <1>3, <2>3, <3>1 DEF Carries, Buffered, TunnelState
    <3>2. CASE s = T.side
      <4> DEFINE x == T.got[Other(s)] \o T.out[Other(s)]
      <4>1. x \in Seq(Nat) /\ x \o <<>> \o q = Numbered(T.sent[s])
        BY <1>1, <1>3, <3>2 DEF Buffered
      <4>2. U.in[s] = SubSeq(q, n + 1, Len(q)) /\ Buffered(U, s) = SubSeq(q, 1, n)
        BY <2>3, <3>2 DEF Buffered, TunnelState
      <4>3. T.in[s] # <<>>
        BY <1>3, <3>2 DEF Reads
      <4> HIDE DEF q, x
      <4>4. x \o <<>> = x
        BY <4>1, Joins
      <4>5. x \o SubSeq(q, 1, n) \o SubSeq(q, n + 1, Len(q))
              = x \o (SubSeq(q, 1, n) \o SubSeq(q, n + 1, Len(q)))
        <5>1. x \in Seq(Nat) /\ SubSeq(q, 1, n) \in Seq(Nat)
              /\ SubSeq(q, n + 1, Len(q)) \in Seq(Nat)
          BY <2>1, <2>2, <4>1, Parts
        <5> DEFINE q1 == SubSeq(q, 1, n)
                   q2 == SubSeq(q, n + 1, Len(q))
        <5> HIDE DEF q1, q2
        <5>2. x \o q1 \o q2 = x \o (q1 \o q2)
          BY ZenonT(60), <5>1, MovePart DEF q1, q2
        <5> QED
          BY <5>2 DEF q1, q2
      <4>6. x \o SubSeq(q, 1, n) \o SubSeq(q, n + 1, Len(q)) = x \o q
        BY <2>1, <2>2, <4>5, Parts
      <4> QED
        BY <2>3, <4>1, <4>2, <4>3, <4>4, <4>6 DEF x, Carries
    <3> QED
      BY <3>1, <3>2
  <2> QED
    BY <2>4 DEF Carries, U
<1>4. ASSUME Room(T) > 0
      PROVE  Carries(WriteBytes(T))
  <2> DEFINE b == T.buf
             o == Other(T.side)
             n == Min({Len(b), Room(T)})
             U == WriteBytes(T)
  <2>1. b \in Seq(Nat) /\ Len(b) \in Nat /\ Len(b) \in Int /\ Room(T) \in Int /\ o \in Side
    <3>1. b \in Seq(Nat) /\ o \in Side /\ T.out[o] \in Seq(Nat)
      BY <1>0 DEF TunnelState
    <3>2. Len(b) \in Nat /\ Len(b) \in Int /\ Len(T.out[o]) \in Nat
      <4> HIDE DEF b, o
      <4> QED
        BY <3>1
    <3> QED
      BY <3>1, <3>2, SocketAssumption DEF Room
  <2>2. n \in Nat /\ n <= Len(b)
    <3> HIDE DEF b
    <3>1. n \in {Len(b), Room(T)} /\ n <= Len(b)
      BY <2>1, MinOfTwo
    <3> QED
      BY <2>1, <3>1, <1>4
  <2>3. /\ U.buf = SubSeq(b, n + 1, Len(b)) /\ U.side = T.side
        /\ U.out = [T.out EXCEPT ![o] = T.out[o] \o SubSeq(b, 1, n)]
        /\ U.got = T.got /\ U.in = T.in /\ U.sent = T.sent /\ U.open = T.open
        /\ U.shut = T.shut
    BY DEF WriteBytes, TunnelState
  <2> HIDE DEF U, n
  <2>4. ASSUME NEW s \in Side
        PROVE  /\ U.got[Other(s)] \o U.out[Other(s)] \o Buffered(U, s) \o U.in[s]
                     = Numbered(U.sent[s])
               /\ s \notin U.open => s \in U.shut /\ U.in[s] = <<>>
    <3>1. CASE s # T.side
      <4>1. Other(s) # o
        BY <1>0, <3>1
      <4> QED
        BY <1>0, <2>3, <3>1, <4>1 DEF Carries, Buffered, TunnelState
    <3>2. CASE s = T.side
      <4> DEFINE g == T.got[o]
                 w == T.out[o]
                 b1 == SubSeq(b, 1, n)
                 b2 == SubSeq(b, n + 1, Len(b))
      <4>1. g \in Seq(Nat) /\ w \in Seq(Nat) /\ g \o w \in Seq(Nat)
            /\ g \o w \o b \o T.in[s] = Numbered(T.sent[s])
        BY <1>1, <3>2 DEF Buffered
      <4>2. U.out[Other(s)] = w \o b1 /\ Buffered(U, s) = b2 /\ U.in[s] = T.in[s]
            /\ U.got[Other(s)] = g
        BY <2>1, <2>3, <3>2 DEF Buffered, TunnelState
      <4>3. b1 \in Seq(Nat) /\ b2 \in Seq(Nat) /\ b1 \o b2 = b
        <5> HIDE DEF b
        <5> QED
          BY <2>1, <2>2, Parts
      <4> HIDE DEF g, w, b1, b2, b, o
      <4>4. (g \o (w \o b1)) \o b2 = (g \o w) \o (b1 \o b2)
        <5>1. g \in Seq(Nat) /\ w \in Seq(Nat) /\ b1 \in Seq(Nat) /\ b2 \in Seq(Nat)
          BY <4>1, <4>3
        <5> QED
          <6>1. Cat(Cat(g, Cat(w, b1)), b2) = Cat(Cat(g, w), Cat(b1, b2))
            BY <5>1, MovePart
          <6> QED
            BY <6>1 DEF Cat
      <4> QED
        BY <2>3, <4>1, <4>2, <4>3, <4>4 DEF Carries
    <3> QED
      BY <3>1, <3>2
  <2> QED
    BY <2>4 DEF Carries, U
<1> QED
  BY <1>2, <1>3, <1>4

\* So do the steps of the peers.
LEMMA PeerCarries ==
  ASSUME NEW T \in TunnelState, Carries(T), NEW s \in Side
  PROVE  /\ s \notin T.shut => Carries(PeerSends(T, s))
         /\ Carries(PeerStops(T, s)) /\ Carries(PeerReceives(T, s))
<1>0. \A r \in Side : /\ T.in[r] \in Seq(Nat) /\ T.out[r] \in Seq(Nat) /\ T.got[r] \in Seq(Nat)
                      /\ T.sent[r] \in Nat /\ Buffered(T, r) \in Seq(Nat) /\ Other(r) \in Side
  BY DEF TunnelState, Buffered, Side, Other
<1>1. ASSUME s \notin T.shut
      PROVE  Carries(PeerSends(T, s))
  <2> DEFINE U == PeerSends(T, s)
  <2>1. /\ U.in = [T.in EXCEPT ![s] = Append(T.in[s], T.sent[s] + 1)]
        /\ U.sent = [T.sent EXCEPT ![s] = T.sent[s] + 1]
        /\ U.got = T.got /\ U.out = T.out /\ U.open = T.open /\ U.shut = T.shut
        /\ \A r \in Side : Buffered(U, r) = Buffered(T, r)
    BY DEF PeerSends, TunnelState, Buffered
  <2>2. s \in T.open
    BY <1>1 DEF Carries
  <2>3. T.got[Other(s)] \o T.out[Other(s)] \o Buffered(T, s) \in Seq(Nat)
    BY <1>0
  <2>4. T.got[Other(s)] \o T.out[Other(s)] \o Buffered(T, s) \o Append(T.in[s], T.sent[s] + 1)
          = Numbered(T.sent[s] + 1)
    <3> DEFINE x == T.got[Other(s)] \o T.out[Other(s)] \o Buffered(T, s)
    <3>1. x \in Seq(Nat) /\ x \o T.in[s] = Numbered(T.sent[s])
      BY <2>3 DEF Carries
    <3> HIDE DEF x
    <3>2. x \o Append(T.in[s], T.sent[s] + 1) = Numbered(T.sent[s] + 1)
      BY <1>0, <3>1, OneMore
    <3> QED
      BY <3>2 DEF x
  <2>5. U.in[s] = Append(T.in[s], T.sent[s] + 1) /\ U.sent[s] = T.sent[s] + 1
        /\ \A r \in Side \ {s} : U.in[r] = T.in[r] /\ U.sent[r] = T.sent[r]
    BY <2>1 DEF TunnelState
  <2> HIDE DEF U
  <2>6. ASSUME NEW r \in Side
        PROVE  /\ U.got[Other(r)] \o U.out[Other(r)] \o Buffered(U, r) \o U.in[r]
                     = Numbered(U.sent[r])
               /\ r \notin U.open => r \in U.shut /\ U.in[r] = <<>>
    BY <2>1, <2>2, <2>4, <2>5 DEF Carries
  <2> QED
    BY <2>6 DEF Carries, U
<1>2. Carries(PeerStops(T, s))
  <2> DEFINE U == PeerStops(T, s)
  <2>1. /\ U.in = T.in /\ U.sent = T.sent /\ U.got = T.got /\ U.out = T.out
        /\ U.open = T.open /\ U.shut = T.shut \union {s}
        /\ \A r \in Side : Buffered(U, r) = Buffered(T, r)
    BY DEF PeerStops, TunnelState, Buffered
  <2> HIDE DEF U
  <2> QED
    BY <2>1 DEF Carries, U
<1>3. Carries(PeerReceives(T, s))
  <2> DEFINE U == PeerReceives(T, s)
             g == T.got[s]
             w == T.out[s]
  <2>1. /\ U.in = T.in /\ U.sent = T.sent /\ U.open = T.open /\ U.shut = T.shut
        /\ U.got = [T.got EXCEPT ![s] = g \o w] /\ U.out = [T.out EXCEPT ![s] = <<>>]
        /\ \A r \in Side : Buffered(U, r) = Buffered(T, r)
    BY DEF PeerReceives, TunnelState, Buffered
  <2>2. /\ U.got[s] = g \o w /\ U.out[s] = <<>>
        /\ \A r \in Side \ {s} : U.got[r] = T.got[r] /\ U.out[r] = T.out[r]
    BY <2>1 DEF TunnelState
  <2>3. g \o w \in Seq(Nat)
    BY <1>0
  <2> HIDE DEF U
  <2>4. (g \o w) \o <<>> = g \o w
    BY <2>3, ConcatEmptySeq
  <2>5. \A r \in Side : U.got[r] \o U.out[r] = T.got[r] \o T.out[r]
    BY <2>2, <2>4
  <2>6. ASSUME NEW r \in Side
        PROVE  /\ U.got[Other(r)] \o U.out[Other(r)] \o Buffered(U, r) \o U.in[r]
                     = Numbered(U.sent[r])
               /\ r \notin U.open => r \in U.shut /\ U.in[r] = <<>>
    BY <1>0, <2>1, <2>5 DEF Carries
  <2> QED
    BY <2>6 DEF Carries, U
<1> QED
  BY <1>1, <1>2, <1>3

------------------------------------------------------------------------------
(***************************************************************************)
(* The cache's operators.                                                  *)
(***************************************************************************)
\* A nonempty set of slots has a first one.
LEMMA FirstSlot ==
  ASSUME NEW S \in SUBSET Slots, S # {}
  PROVE  Min(S) \in S
<1> DEFINE R == OpToRel(<, Nat)
<1>0. S \in SUBSET Nat
  BY SizeAssumption DEF Slots
<1>1. \E m \in S : \A k \in S : ~(<<k, m>> \in R)
  BY <1>0, NatLessThanWellFounded, WFMin
<1>2. \A m, k \in Nat : k < m => <<k, m>> \in R
  BY DEF OpToRel
<1> HIDE DEF R
<1>3. \A m, k \in S : ~(<<k, m>> \in R) => m <= k
  BY <1>0, <1>2
<1>4. \E m \in S : \A k \in S : m <= k
  BY <1>1, <1>3
<1> QED
  BY <1>4 DEF Min

\* What cache_get returns: a slot that holds the URL, or NoSlot if there is none.
LEMMA CacheGetFinds ==
  ASSUME NEW c \in Cache, NEW u \in URL
  PROVE  /\ cache_get(c, u) \in Slots \union {NoSlot}
         /\ cache_get(c, u) # NoSlot => c.url[cache_get(c, u)] = u
         /\ cache_get(c, u) = NoSlot =>
              \A i \in Slots : ~(c.hash[i] = hash_code[u] /\ c.url[i] = u)
<1> DEFINE found == {i \in Slots : c.hash[i] = hash_code[u] /\ c.url[i] = u}
<1>1. NoSlot \notin Slots
  BY SizeAssumption DEF NoSlot, Slots
<1>2. cache_get(c, u) = IF found = {} THEN NoSlot ELSE Min(found)
  BY DEF cache_get
<1>3. found # {} => Min(found) \in found
  <2>1. found \in SUBSET Slots
    OBVIOUS
  <2> HIDE DEF found
  <2> QED
    BY <2>1, FirstSlot
<1> QED
  BY <1>1, <1>2, <1>3

\* What cache_put leaves: only the slot next changes.
LEMMA CachePutFills ==
  ASSUME NEW c \in Cache, NEW u \in URL, NEW buf \in Buffer, NEW len \in Nat
  PROVE  /\ cache_put(c, u, buf, len) \in Cache
         /\ \A i \in Slots \ {c.next} :
              /\ cache_put(c, u, buf, len).hash[i] = c.hash[i]
              /\ cache_put(c, u, buf, len).len[i] = c.len[i]
              /\ cache_put(c, u, buf, len).url[i] = c.url[i]
              /\ cache_put(c, u, buf, len).data[i] = c.data[i]
         /\ cache_put(c, u, buf, len).hash[c.next] = hash_code[u]
         /\ cache_put(c, u, buf, len).len[c.next] = len
         /\ cache_put(c, u, buf, len).url[c.next] = u
         /\ cache_put(c, u, buf, len).data[c.next] = strcpy(c.data[c.next], buf)
<1> DEFINE d == cache_put(c, u, buf, len)
<1>1. /\ d = [next |-> (c.next + 1) % MAX_CACHE_COUNT,
              hash |-> [c.hash EXCEPT ![c.next] = hash_code[u]],
              len  |-> [c.len EXCEPT ![c.next] = len],
              url  |-> [c.url EXCEPT ![c.next] = u],
              data |-> [c.data EXCEPT ![c.next] = strcpy(c.data[c.next], buf)]]
  BY DEF cache_put, Cache
<1>2. (c.next + 1) % MAX_CACHE_COUNT \in Slots
  BY SizeAssumption DEF Cache, Slots
<1>3. c.next \in Slots /\ hash_code[u] \in Int
  BY HashAssumption DEF Cache
<1>4. strcpy(c.data[c.next], buf) \in Buffer
  <2>1. c.data[c.next] \in Buffer
    BY <1>3 DEF Cache
  <2> QED
    BY <2>1 DEF strcpy, Buffer
<1> HIDE DEF d
<1>5. d \in Cache
  BY <1>1, <1>2, <1>3, <1>4 DEF Cache
<1>6. c \in Cache /\ c.next \in Slots
  BY <1>3
<1> QED
  BY <1>1, <1>5, <1>6 DEF d, Cache

------------------------------------------------------------------------------
(***************************************************************************)
(* The response.                                                           *)
(***************************************************************************)
Responses == [kind : Kind, length : Int, left : Int, rest : Seq(Byte),
              size : Nat, temp : Buffer, out : Seq(Byte)]

\* cache_size counts what was sent, and cache_temp holds it as long as it fits.
Counted(r) ==
  /\ r.size = Len(r.out)
  /\ r.size < MAX_CACHE_OBJECT => \A i \in 1 .. r.size : r.temp[i] = r.out[i]

\* Rio_writen_c keeps the count right, whatever it writes.
LEMMA WriteCounts ==
  ASSUME NEW r \in Responses, NEW piece \in Seq(Byte), NEW m
  PROVE  /\ Rio_writen_c(r, m, piece) \in Responses
         /\ Rio_writen_c(r, m, piece).left = r.left
         /\ m = "GET" /\ Counted(r) => Counted(Rio_writen_c(r, m, piece))
<1> DEFINE size == r.size + Len(piece)
           w    == Rio_writen_c(r, m, piece)
           temp == [k \in DOMAIN r.temp |-> IF k \in r.size + 1 .. size
                                            THEN piece[k - r.size] ELSE r.temp[k]]
<1>1. size \in Nat /\ r.out \o piece \in Seq(Byte)
      /\ Len(r.out \o piece) = Len(r.out) + Len(piece)
  BY DEF Responses
<1>2. temp \in Buffer
  <2>1. \A k \in r.size + 1 .. size : piece[k - r.size] \in Byte
    <3>1. \A k \in r.size + 1 .. size : k - r.size \in 1 .. Len(piece)
      BY DEF Responses
    <3>2. \A j \in 1 .. Len(piece) : piece[j] \in Byte
      OBVIOUS
    <3> QED
      BY <3>1, <3>2
  <2>2. r.temp \in Buffer
    BY DEF Responses
  <2> HIDE DEF size
  <2> QED
    BY <2>1, <2>2 DEF Buffer
<1>4. /\ w \in Responses /\ w.left = r.left
      /\ w.size = IF m = "GET" THEN size ELSE r.size
      /\ w.temp = IF m # "GET" \/ size >= MAX_CACHE_OBJECT THEN r.temp ELSE temp
      /\ w.out = r.out \o piece
  <2> DEFINE newsize == IF m = "GET" THEN size ELSE r.size
             newout  == r.out \o piece
             newtemp == IF m # "GET" \/ size >= MAX_CACHE_OBJECT THEN r.temp ELSE temp
  <2>1. w = [r EXCEPT !.size = newsize, !.temp = newtemp, !.out = newout]
    BY DEF Rio_writen_c
  <2>2. newsize \in Nat
    BY <1>1 DEF Responses
  <2>3. newtemp \in Buffer
    <3> HIDE DEF temp, size
    <3> QED
      BY <1>2 DEF Responses
  <2>5. newout \in Seq(Byte)
    BY <1>1
  <2> HIDE DEF size, temp, w, newsize, newtemp, newout
  <2>4. w \in Responses /\ w.left = r.left /\ w.size = newsize /\ w.temp = newtemp /\ w.out = newout
    BY <2>1, <2>2, <2>3, <2>5 DEF Responses
  <2> QED
    BY <2>4 DEF newsize, newtemp, newout
<1>5. ASSUME m = "GET", Counted(r) PROVE Counted(w)
  <2>1. w.size = size /\ w.out = r.out \o piece
    BY <1>4, <1>5
  <2>2. w.size = Len(w.out)
    BY <2>1, <1>1, <1>5 DEF Counted
  <2>3. ASSUME size < MAX_CACHE_OBJECT, NEW i \in 1 .. size
        PROVE  w.temp[i] = w.out[i]
    <3>1. w.temp = temp
      <4>1. ~(size >= MAX_CACHE_OBJECT)
        BY <1>1, <2>3, SizeAssumption
      <4> QED
        BY <1>4, <1>5, <4>1
    <3>2. i \in DOMAIN r.temp
      BY <1>1, <2>3, SizeAssumption DEF Responses, Buffer
    <3>3. CASE i <= r.size
      <4>1. r.size < MAX_CACHE_OBJECT /\ i \in 1 .. r.size
        BY <2>3, <3>3, SizeAssumption DEF Responses
      <4>2. (r.out \o piece)[i] = r.out[i]
        BY <4>1, <1>5 DEF Counted, Responses
      <4> QED
        BY <2>1, <3>1, <3>2, <3>3, <4>1, <4>2, <1>5 DEF Counted, Responses
    <3>4. CASE i > r.size
      <4>1. i \in r.size + 1 .. size
        BY <2>3, <3>4 DEF Responses
      <4>2. (r.out \o piece)[i] = piece[i - r.size]
        BY <4>1, <1>5 DEF Counted, Responses
      <4> QED
        BY <2>1, <3>1, <3>2, <4>1, <4>2
    <3> QED
      BY <3>3, <3>4 DEF Responses
  <2> HIDE DEF size, w
  <2> QED
    BY <2>1, <2>2, <2>3 DEF Counted
<1> QED
  BY <1>4, <1>5

\* Rio_readn fills the buffer with bytes.
LEMMA ReadsBytes ==
  ASSUME NEW rest \in Seq(Byte), NEW len \in Nat, NEW piece \in Rio_readn(rest, len)
  PROVE  piece \in Seq(Byte)
<1> DEFINE n == Min({len, Len(rest)})
<1>1. n \in Nat /\ n <= len /\ n <= Len(rest)
  <2>1. len \in Int /\ Len(rest) \in Nat /\ Len(rest) \in Int
    OBVIOUS
  <2>2. /\ n \in {len, Len(rest)}
        /\ n <= len /\ n <= Len(rest)
    BY <2>1, MinOfTwo
  <2> HIDE DEF n
  <2> QED
    BY <2>1, <2>2
<1>2. PICK stale \in [1 .. len - n -> StaleByte] : piece = SubSeq(rest, 1, n) \o stale
  BY DEF Rio_readn
<1> HIDE DEF n
<1>3. SubSeq(rest, 1, n) \in Seq(Byte)
  BY <1>1
<1>4. stale \in Seq(Byte)
  <2>1. len - n \in Nat /\ stale \in [1 .. len - n -> Byte]
    BY <1>1, StaleAssumption
  <2> QED
    BY <2>1
<1> QED
  BY <1>2, <1>3, <1>4

\* A part of a sequence of bytes; a piece that begins past the end is empty.
LEMMA PartOfBytes ==
  ASSUME NEW rest \in Seq(Byte), NEW m \in Nat \ {0}
  PROVE  /\ SubSeq(rest, m, Len(rest)) \in Seq(Byte)
         /\ \A n \in Nat : n <= Len(rest) => SubSeq(rest, 1, n) \in Seq(Byte)
         /\ ReadLine(rest) \in Seq(Byte)
<1> DEFINE n == Min({1, Len(rest)})
<1>1. 1 \in Int /\ Len(rest) \in Nat /\ Len(rest) \in Int
  OBVIOUS
<1>2. /\ n \in {1, Len(rest)}
      /\ n <= Len(rest)
  BY <1>1, MinOfTwo
<1>3. ReadLine(rest) = SubSeq(rest, 1, n)
  BY DEF ReadLine
<1> HIDE DEF n
<1>4. n \in Nat
  BY <1>1, <1>2
<1>5. \A i \in Nat : i <= Len(rest) => SubSeq(rest, 1, i) \in Seq(Byte)
  OBVIOUS
<1>6. SubSeq(rest, m, Len(rest)) \in Seq(Byte)
  OBVIOUS
<1> QED
  BY <1>2, <1>3, <1>4, <1>5, <1>6

\* The beginning of a slot's data is a sequence of bytes.
LEMMA PartOfBuffer ==
  ASSUME NEW buf \in Buffer, NEW n \in Nat, n <= MAX_CACHE_OBJECT
  PROVE  /\ SubSeq(buf, 1, n) \in Seq(Byte)
         /\ Len(SubSeq(buf, 1, n)) = n
         /\ \A i \in 1 .. n : SubSeq(buf, 1, n)[i] = buf[i]
<1>1. buf \in Seq(Byte) /\ Len(buf) = MAX_CACHE_OBJECT
  BY SizeAssumption DEF Buffer
<1> QED
  BY <1>1

------------------------------------------------------------------------------
(***************************************************************************)
(* Types.                                                                  *)
(***************************************************************************)
\* What is cached, and what is about to be, is shorter than a slot: an answer from
\* the cache never reads past one.
SizeInv ==
  /\ \A i \in Slots : cache.len[i] < MAX_CACHE_OBJECT
  /\ \A t \in Threads : pc[t] \in {"putlock", "put"} => resp[t].size < MAX_CACHE_OBJECT
  /\ \A t \in Threads : pc[t] = "data" => resp[t].left > 0

\* The steps of a thread that has a request.
Serving == OnSocket \union Holding \union InTunnel \union {"lock", "putlock", "done"}

ReqInv ==
  \A t \in Threads :
    /\ pc[t] \in Serving => url[t] \in URL
    /\ pc[t] \in {"hitheader", "hitwrite", "hitunlock"} => slot[t] \in Slots

\* Thread t writes a piece of a response.
Writes(t) ==
  \E r \in Responses, piece \in Seq(Byte) :
    /\ r.size = resp[t].size /\ r.out = resp[t].out /\ r.temp = resp[t].temp
    /\ pc'[t] = "data" => r.left > 0
    /\ resp' = [resp EXCEPT ![t] = Rio_writen_c(r, met[t], piece)]

\* The steps that write a piece.
WriteStep(t) == ResponseHeader(t) \/ ChunkLine(t) \/ Data(t) \/ ChunkEnd(t) \/ UntilEof(t)

LEMMA TypeResp == TypeOK => resp \in [Threads -> Responses]
BY DEF TypeOK, Responses

LEMMA WriteSteps ==
  ASSUME TypeOK, SizeInv, NEW t \in Threads, WriteStep(t)
  PROVE  /\ Writes(t)
         /\ up /\ pc[t] \in {"response", "line", "data", "end", "eof"}
         /\ \E p \in {"line", "data", "end", "eof", "done"} : pc' = [pc EXCEPT ![t] = p]
         /\ UNCHANGED <<local, sem, cache, up, origin>>
<1> DEFINE r == resp[t]
<1>1. r \in Responses
  BY TypeResp
<1>2. CASE ResponseHeader(t)
  <2>1. PICK s \in Response :
          /\ Goto(t, "response",
                  IF s.kind = "sized" THEN IF s.length > 0 THEN "data" ELSE "done"
                  ELSE IF s.kind = "chunked" THEN "line" ELSE "eof")
          /\ resp' = [resp EXCEPT ![t] =
            Rio_writen_c([r EXCEPT !.kind = s.kind, !.length = s.length,
                                   !.left = s.length, !.rest = s.rest], met[t], <<Header>>)]
    BY <1>2 DEF ResponseHeader, Write
  <2> DEFINE q == [r EXCEPT !.kind = s.kind, !.length = s.length,
                            !.left = s.length, !.rest = s.rest]
  <2>2. q \in Responses /\ q.size = r.size /\ q.out = r.out /\ q.temp = r.temp
    BY <1>1, ResponseAssumption DEF Responses
  <2>3. <<Header>> \in Seq(Byte)
    BY DEF Header, Byte
  <2>4. pc'[t] = "data" => q.left > 0
    <3>1. q.left = s.length
      BY <1>1 DEF Responses
    <3>2. CASE s.kind = "sized"
      BY <2>1, <3>1, <3>2 DEF Goto, TypeOK
    <3>3. CASE s.kind # "sized"
      BY <2>1, <3>3 DEF Goto, TypeOK
    <3> QED
      BY <3>2, <3>3
  <2> HIDE DEF q
  <2>5. Writes(t)
    BY <2>1, <2>2, <2>3, <2>4 DEF Writes, q
  <2> QED
    BY <1>2, <2>5 DEF ResponseHeader, Goto
<1>3. CASE ChunkLine(t)
  <2> DEFINE line == ReadLine(r.rest)
             size == parse_chunked_header(line)
             q    == [r EXCEPT !.length = size, !.left = size,
                               !.rest = SubSeq(r.rest, 2, Len(r.rest))]
  <2>1. resp' = [resp EXCEPT ![t] = Rio_writen_c(q, met[t], line)]
    BY <1>3 DEF ChunkLine, Write
  <2>2. line \in Seq(Byte) /\ SubSeq(r.rest, 2, Len(r.rest)) \in Seq(Byte)
    <3>1. r.rest \in Seq(Byte) /\ 2 \in Nat \ {0}
      BY <1>1 DEF Responses
    <3> QED
      BY <3>1, PartOfBytes
  <2>3. size \in Int
    BY <2>2 DEF parse_chunked_header, SizeLine, Byte
  <2>4. q \in Responses /\ q.size = r.size /\ q.out = r.out /\ q.temp = r.temp
    <3> HIDE DEF size
    <3> QED
      BY <1>1, <2>2, <2>3 DEF Responses
  <2>5. pc'[t] = "data" => q.left > 0
    <3>1. Goto(t, "line", IF size > 0 THEN "data" ELSE "end")
      BY <1>3 DEF ChunkLine
    <3>2. q.left = size
      BY <1>1 DEF Responses
    <3> HIDE DEF q, size
    <3> QED
      BY <3>1, <3>2, <2>3 DEF Goto, TypeOK
  <2> HIDE DEF q, line, size
  <2>6. Writes(t)
    BY <2>1, <2>2, <2>4, <2>5 DEF Writes
  <2> QED
    BY <1>3, <2>6 DEF ChunkLine, Goto
<1>4. CASE Data(t)
  <2> DEFINE len == Min({r.left, MAXBUF})
             q   == [r EXCEPT !.left = r.left - len,
                              !.rest = SubSeq(r.rest, len + 1, Len(r.rest))]
  <2>1. PICK piece \in Rio_readn(r.rest, len) :
          resp' = [resp EXCEPT ![t] = Rio_writen_c(q, met[t], piece)]
    BY <1>4 DEF Data, Write
  <2>2. r.left \in Nat /\ r.left > 0
    BY <1>1, <1>4 DEF Responses, SizeInv, Data, Goto
  <2>3. len \in Nat /\ len <= r.left
    <3>1. r.left \in Int /\ MAXBUF \in Int /\ MAXBUF \in Nat
      BY <2>2, BufferAssumption
    <3>2. len \in {r.left, MAXBUF} /\ len <= r.left
      BY <3>1, MinOfTwo
    <3> HIDE DEF len
    <3> QED
      BY <2>2, <3>1, <3>2
  <2>4. Goto(t, "data", IF r.left > len THEN "data"
                        ELSE IF r.kind = "chunked" THEN "end" ELSE "done")
    BY <1>4 DEF Data
  <2>5. UNCHANGED <<local, sem, cache, up, origin>>
    BY <1>4 DEF Data
  <2> HIDE DEF len
  <2>6. r.rest \in Seq(Byte) /\ len + 1 \in Nat \ {0}
    BY <1>1, <2>3 DEF Responses
  <2>7. piece \in Seq(Byte) /\ SubSeq(r.rest, len + 1, Len(r.rest)) \in Seq(Byte)
    BY <2>3, <2>6, ReadsBytes, PartOfBytes
  <2>8. q \in Responses /\ q.size = r.size /\ q.out = r.out /\ q.temp = r.temp
        /\ q.left = r.left - len
    <3> DEFINE left == r.left - len
               rest == SubSeq(r.rest, len + 1, Len(r.rest))
    <3>1. left \in Int /\ rest \in Seq(Byte)
      BY <2>2, <2>3, <2>7
    <3> HIDE DEF left, rest
    <3>2. q = [r EXCEPT !.left = left, !.rest = rest]
      BY DEF left, rest
    <3>3. q \in Responses /\ q.size = r.size /\ q.out = r.out /\ q.temp = r.temp
          /\ q.left = left
      BY <1>1, <3>1, <3>2 DEF Responses
    <3> QED
      BY <3>3 DEF left
  <2> HIDE DEF q
  <2>9. CASE r.left > len
    <3>1. up /\ pc[t] = "data" /\ pc' = [pc EXCEPT ![t] = "data"]
      BY <2>4, <2>9 DEF Goto
    <3>2. q.left > 0
      BY <2>2, <2>3, <2>8, <2>9
    <3>3. Writes(t)
      BY <2>1, <2>7, <2>8, <3>2 DEF Writes
    <3> QED
      BY <2>5, <3>1, <3>3
  <2>10. CASE ~(r.left > len)
    <3>1. pc' = [pc EXCEPT ![t] = "end"] \/ pc' = [pc EXCEPT ![t] = "done"]
      BY <2>4, <2>10 DEF Goto
    <3>2. pc'[t] # "data"
      BY <3>1 DEF TypeOK
    <3> QED
      BY <2>1, <2>4, <2>5, <2>7, <2>8, <3>1, <3>2 DEF Writes, Goto
  <2> QED
    BY <2>9, <2>10
<1>5. CASE ChunkEnd(t)
  <2> DEFINE q == [r EXCEPT !.rest = SubSeq(r.rest, 2, Len(r.rest))]
  <2>1. resp' = [resp EXCEPT ![t] = Rio_writen_c(q, met[t], ReadLine(r.rest))]
    BY <1>5 DEF ChunkEnd, Write
  <2>2. ReadLine(r.rest) \in Seq(Byte) /\ SubSeq(r.rest, 2, Len(r.rest)) \in Seq(Byte)
    <3>1. r.rest \in Seq(Byte) /\ 2 \in Nat \ {0}
      BY <1>1 DEF Responses
    <3> QED
      BY <3>1, PartOfBytes
  <2>3. q \in Responses /\ q.size = r.size /\ q.out = r.out /\ q.temp = r.temp
    BY <1>1, <2>2 DEF Responses
  <2> HIDE DEF q
  <2>4. pc'[t] # "data"
    BY <1>5 DEF ChunkEnd, Goto, TypeOK
  <2>5. Writes(t)
    BY <2>1, <2>2, <2>3, <2>4 DEF Writes
  <2> QED
    BY <1>5, <2>5 DEF ChunkEnd, Goto
<1>6. CASE UntilEof(t)
  <2> DEFINE n == Min({Len(r.rest), MAXBUF})
             q == [r EXCEPT !.rest = SubSeq(r.rest, n + 1, Len(r.rest))]
  <2>1. resp' = [resp EXCEPT ![t] = Rio_writen_c(q, met[t], SubSeq(r.rest, 1, n))]
    BY <1>6 DEF UntilEof, Write
  <2>2. n \in Nat /\ n <= Len(r.rest)
    <3>1. Len(r.rest) \in Nat /\ Len(r.rest) \in Int /\ MAXBUF \in Nat /\ MAXBUF \in Int
      BY <1>1, BufferAssumption DEF Responses
    <3>2. n \in {Len(r.rest), MAXBUF} /\ n <= Len(r.rest)
      BY <3>1, MinOfTwo
    <3> HIDE DEF n
    <3> QED
      BY <3>1, <3>2
  <2> HIDE DEF n
  <2>3. SubSeq(r.rest, 1, n) \in Seq(Byte)
        /\ SubSeq(r.rest, n + 1, Len(r.rest)) \in Seq(Byte)
    BY <1>1, <2>2, PartOfBytes DEF Responses
  <2>4. q \in Responses /\ q.size = r.size /\ q.out = r.out /\ q.temp = r.temp
    BY <1>1, <2>3 DEF Responses
  <2> HIDE DEF q
  <2>5. pc'[t] # "data"
    BY <1>6 DEF UntilEof, Goto, TypeOK
  <2>6. Writes(t)
    BY <2>1, <2>3, <2>4, <2>5 DEF Writes
  <2> QED
    BY <1>6, <2>6 DEF UntilEof, Goto
<1> QED
  BY <1>2, <1>3, <1>4, <1>5, <1>6 DEF WriteStep

\* A step that sets what was sent; it leaves the rest of the response alone.
LEMMA SetOut ==
  ASSUME NEW f \in [Threads -> Responses], NEW t \in Threads, NEW o \in Seq(Byte), NEW g,
         g = [f EXCEPT ![t].out = o]
  PROVE  /\ g \in [Threads -> Responses]
         /\ g[t].out = o /\ g[t].size = f[t].size /\ g[t].temp = f[t].temp
         /\ g[t].left = f[t].left
         /\ \A s \in Threads \ {t} : g[s] = f[s]
<1>1. f[t] \in Responses
  OBVIOUS
<1>2. g[t] = [f[t] EXCEPT !.out = o] /\ \A s \in Threads \ {t} : g[s] = f[s]
  OBVIOUS
<1>3. g[t] \in Responses
  BY <1>1, <1>2 DEF Responses
<1>4. DOMAIN g = Threads /\ g = [s \in Threads |-> g[s]]
  OBVIOUS
<1> QED
  BY <1>1, <1>2, <1>3, <1>4 DEF Responses

TypeInv == TypeOK /\ SizeInv /\ ReqInv

LEMMA TypeInit == Init => TypeInv
<1> SUFFICES ASSUME Init PROVE TypeInv
  OBVIOUS
<1>1. 0 \in Slots /\ MAX_CACHE_OBJECT > 0
  BY SizeAssumption DEF Slots
<1>2. cache_init \in Cache
  BY <1>1 DEF cache_init, Cache, Buffer, Byte, Nul
<1>3. NoResponse \in Responses
  BY DEF NoResponse, Responses, Kind, Buffer, Byte, Nul
<1>4. TunnelStart \in TunnelState
  BY DEF TunnelStart, TunnelState, Side
<1>5. TypeOK
  BY <1>2, <1>3, <1>4 DEF Init, InitialSem, TypeOK, PC, Responses
<1>6. SizeInv
  BY <1>1 DEF Init, SizeInv, cache_init
<1>7. ReqInv
  BY DEF Init, ReqInv, Serving, InTunnel, OnSocket, ClientHeader, Holding
<1> QED
  BY <1>5, <1>6, <1>7 DEF TypeInv

\* What Finish makes of the response of its thread.
LEMMA FinishSets ==
  ASSUME TypeInv, NEW t \in Threads, Finish(t)
  PROVE  \E n \in Responses, p \in {"putlock", "next", "close"} :
           /\ resp' = [resp EXCEPT ![t] = n] /\ pc' = [pc EXCEPT ![t] = p]
           /\ p = "putlock" =>
                /\ met[t] = "GET" /\ n.size = resp[t].size /\ n.size < MAX_CACHE_OBJECT
                /\ n.out = resp[t].out
                /\ \A i \in 1 .. n.size : n.temp[i] = resp[t].temp[i]
           /\ p # "putlock" => n.out = <<>>
<1> DEFINE r == resp[t]
<1>1. r \in Responses /\ NoResponse \in Responses
  BY TypeResp DEF TypeInv, NoResponse, Responses, Kind, Buffer, Byte, Nul
<1>2. CASE met[t] = "GET" /\ r.size < MAX_CACHE_OBJECT
  <2> DEFINE n == [NoResponse EXCEPT !.size = r.size, !.temp = [r.temp EXCEPT ![r.size + 1] = Nul],
                                     !.out = r.out]
  <2>1. resp' = [resp EXCEPT ![t] = n] /\ pc' = [pc EXCEPT ![t] = "putlock"]
    BY <1>2 DEF Finish, Goto
  <2>2. r.size + 1 \in 1 .. MAX_CACHE_OBJECT /\ [r.temp EXCEPT ![r.size + 1] = Nul] \in Buffer
    <3>1. r.size \in Nat /\ r.temp \in Buffer /\ Nul \in Byte
      BY <1>1 DEF Responses, Nul, Byte
    <3> HIDE DEF r
    <3>2. r.size + 1 \in 1 .. MAX_CACHE_OBJECT
      BY <1>2, <3>1, SizeAssumption
    <3> QED
      BY <3>1, <3>2 DEF Buffer
  <2>3. n \in Responses /\ n.size = r.size /\ n.out = r.out
        /\ n.temp = [r.temp EXCEPT ![r.size + 1] = Nul]
    <3> DEFINE b == [r.temp EXCEPT ![r.size + 1] = Nul]
    <3>1. b \in Buffer /\ r.size \in Nat /\ r.out \in Seq(Byte)
      BY <1>1, <2>2 DEF Responses
    <3> HIDE DEF b, r
    <3> QED
      BY <1>1, <3>1 DEF Responses, b
  <2>4. \A i \in 1 .. r.size : n.temp[i] = r.temp[i]
    <3>1. r.size \in Nat /\ r.temp \in Buffer /\ r.size + 1 \in 1 .. MAX_CACHE_OBJECT
      BY <1>1, <2>2 DEF Responses
    <3> HIDE DEF r, n
    <3> QED
      BY <2>3, <3>1, SizeAssumption DEF Buffer
  <2> HIDE DEF n
  <2> QED
    BY <1>2, <2>1, <2>3, <2>4
<1>3. CASE ~(met[t] = "GET" /\ r.size < MAX_CACHE_OBJECT)
  <2> DEFINE n == [NoResponse EXCEPT !.size = r.size, !.temp = r.temp, !.out = <<>>]
  <2>1. resp' = [resp EXCEPT ![t] = n]
    BY <1>3 DEF Finish
  <2>2. PICK p \in {"next", "close"} : pc' = [pc EXCEPT ![t] = p]
    BY <1>3 DEF Finish, Goto, Again
  <2>3. n \in Responses /\ n.out = <<>>
    <3> DEFINE o == <<>>
    <3>1. r.size \in Nat /\ r.temp \in Buffer /\ o \in Seq(Byte)
      BY <1>1 DEF Responses
    <3> HIDE DEF r, o
    <3>2. n \in Responses /\ n.out = o
      BY <1>1, <3>1 DEF Responses, o
    <3> QED
      BY <3>2 DEF o
  <2> HIDE DEF n
  <2> QED
    BY <2>1, <2>2, <2>3
<1> QED
  BY <1>2, <1>3

(***************************************************************************)
(* The tunnel.                                                             *)
(***************************************************************************)
\* A step of a tunnel keeps its thread in the tunnel or ends it, and touches nothing else.
LEMMA TunnelMoves ==
  ASSUME TypeOK, NEW t \in Threads, Tunnel(t)
  PROVE  /\ pc[t] \in InTunnel \union {"tunnel"}
         /\ \E p \in InTunnel \union {"close"} : pc' = [pc EXCEPT ![t] = p]
         /\ up' \in BOOLEAN /\ UNCHANGED <<local, resp, sem, cache, origin>>
<1>1. \A T : AfterSide(T) \in InTunnel \union {"close"}
  BY DEF AfterSide, InTunnel
<1>2. CASE Peer(t)
  <2>1. pc' = [pc EXCEPT ![t] = pc[t]] /\ pc[t] \in InTunnel /\ up' \in BOOLEAN
    BY <1>2 DEF Peer, TypeOK
  <2> QED
    BY <1>2, <2>1 DEF Tunnel, TunnelLoop, Peer, Select, TunnelRead, TunnelWrite
<1>3. CASE TunnelOpen(t)
  BY <1>3 DEF Tunnel, TunnelLoop, TunnelOpen, Select, TunnelRead, TunnelWrite, Goto, InTunnel, TypeOK
<1>4. CASE TunnelLoop(t)
  <2>1. CASE Select(t)
    BY <1>4, <2>1 DEF TunnelLoop, Select, Goto, InTunnel, TypeOK
  <2>2. CASE TunnelRead(t)
    <3>1. \E p \in InTunnel \union {"close"} : Goto(t, "read", p)
      BY <1>1, <2>2 DEF TunnelRead, InTunnel
    <3> QED
      BY <1>4, <2>2, <3>1 DEF TunnelLoop, TunnelRead, Goto, InTunnel, TypeOK
  <2>3. CASE TunnelWrite(t)
    <3>1. \E p \in InTunnel \union {"close"} : Goto(t, "write", p)
      BY <1>1, <2>3 DEF TunnelWrite, InTunnel
    <3> QED
      BY <1>4, <2>3, <3>1 DEF TunnelLoop, TunnelWrite, Goto, InTunnel, TypeOK
  <2> QED
    BY <1>4, <2>1, <2>2, <2>3 DEF TunnelLoop
<1> QED
  BY <1>2, <1>3, <1>4 DEF Tunnel

LEMMA TunnelTypeStep ==
  ASSUME TypeOK, NEW t \in Threads, Step(t)
  PROVE  tun' \in [Threads -> TunnelState]
<1>1. tun \in [Threads -> TunnelState] /\ tun[t] \in TunnelState
  BY DEF TypeOK
<1>2. TunnelStart \in TunnelState
  BY DEF TunnelStart, TunnelState, Side
<1>3. tun' = tun \/ \E T \in TunnelState : tun' = [tun EXCEPT ![t] = T]
  <2>1. CASE Request(t) /\ UNCHANGED tun
    BY <2>1
  <2>2. CASE Close(t) /\ Tun(t, TunnelStart)
    BY <1>2, <2>2 DEF Tun
  <2>3. CASE TunnelOpen(t)
    BY <2>3 DEF TunnelOpen
  <2>4. CASE Select(t)
    BY <1>1, <2>4, TunnelOperators DEF Select, Tun
  <2>5. CASE TunnelRead(t)
    <3>1. ReadNone(tun[t]) \in TunnelState
      BY <1>1, TunnelOperators
    <3>2. OtherSide(ReadNone(tun[t])) \in TunnelState
      BY <3>1, TunnelOperators
    <3> QED
      BY <1>1, <2>5, <3>2, TunnelOperators DEF TunnelRead, Tun
  <2>6. CASE TunnelWrite(t)
    <3>1. Room(tun[t]) > 0 => WriteBytes(tun[t]) \in TunnelState
      BY <1>1, TunnelOperators
    <3>2. Room(tun[t]) > 0 => OtherSide(WriteBytes(tun[t])) \in TunnelState
      BY <3>1, TunnelOperators
    <3> QED
      BY <2>6, <3>1, <3>2 DEF TunnelWrite, Tun
  <2>7. CASE Peer(t)
    <3>1. PICK s \in Side :
            \/ Tun(t, PeerSends(tun[t], s)) \/ Tun(t, PeerStops(tun[t], s))
            \/ Tun(t, PeerReceives(tun[t], s))
      BY <2>7, Zenon DEF Peer
    <3> QED
      BY <1>1, <3>1, TunnelOperators DEF Tun
  <2> QED
    BY <2>1, <2>2, <2>3, <2>4, <2>5, <2>6, <2>7 DEF Step, Tunnel, TunnelLoop
<1> QED
  BY <1>1, <1>3

\* Types and sizes are preserved by every step.
LEMMA TypeStep ==
  ASSUME TypeInv, NEW t \in Threads, Step(t)
  PROVE  TypeOK' /\ SizeInv'
<1> USE DEF TypeInv
<1>0. resp \in [Threads -> Responses] /\ NoResponse \in Responses
  BY TypeResp DEF NoResponse, Responses, Kind, Buffer, Byte, Nul
<1>01. tun' \in [Threads -> TunnelState]
  BY TunnelTypeStep
<1> USE <1>01
<1>1. CASE Accept(t)
  BY <1>1 DEF Accept, Goto, local, TypeOK, SizeInv, PC
<1>2. CASE ReadNothing(t)
  BY <1>2 DEF ReadNothing, Goto, local, TypeOK, SizeInv, PC
<1>3. CASE ReadRequest(t)
  <2>1. PICK m \in {"GET", "POST", "CONNECT", "UNKNOWN"}, u \in URL,
              p \in {"lock", "forward", "tunnel", "refuse"} :
          /\ met' = [met EXCEPT ![t] = m] /\ url' = [url EXCEPT ![t] = u]
          /\ pc' = [pc EXCEPT ![t] = p]
          /\ UNCHANGED <<keep, slot, resp, sem, cache, up, origin>>
    BY <1>3 DEF ReadRequest
  <2> QED
    BY <2>1 DEF TypeOK, SizeInv, PC, OnSocket, ClientHeader
<1>4. CASE Refuse(t)
  BY <1>4 DEF Refuse, Goto, Again, TypeOK, SizeInv, PC
<1>5. CASE Tunnel(t)
  BY ZenonT(60), <1>5, TunnelMoves DEF InTunnel, local, TypeOK, SizeInv, PC
<1>6. CASE Close(t)
  <2>1. resp' \in [Threads -> Responses]
    BY <1>0, <1>6 DEF Close
  <2>2. TypeOK'
    BY <1>6, <2>1 DEF Close, Goto, TypeOK, PC, Responses
  <2> QED
    BY <1>6, <2>2 DEF Close, Goto, TypeOK, SizeInv
<1>7. CASE Lock(t)
  <2>1. sem' \in Nat /\ UNCHANGED <<met, url, keep, slot, resp, cache, up, origin>>
    BY <1>7 DEF Lock, local, TypeOK
  <2>2. CASE pc[t] = "lock" /\ pc' = [pc EXCEPT ![t] = "get"]
    BY <2>1, <2>2 DEF TypeOK, SizeInv, PC, Holding
  <2>3. CASE pc[t] = "putlock" /\ pc' = [pc EXCEPT ![t] = "put"]
    BY <2>1, <2>3 DEF TypeOK, SizeInv, PC, Holding
  <2> QED
    BY <1>7, <2>2, <2>3 DEF Lock, Goto
<1>8. CASE CacheGet(t)
  <2>1. url[t] \in URL
    BY <1>8 DEF CacheGet, Goto, ReqInv, Serving, Holding
  <2>2. cache_get(cache, url[t]) \in Slots \union {NoSlot}
    BY <2>1, CacheGetFinds DEF TypeOK
  <2>3. PICK p \in {"missunlock", "hitheader"} : pc' = [pc EXCEPT ![t] = p]
    BY <1>8 DEF CacheGet, Goto
  <2> QED
    BY <1>8, <2>2, <2>3 DEF CacheGet, TypeOK, SizeInv, PC, Holding
<1>9. CASE HitHeader(t)
  BY <1>9 DEF HitHeader, Goto, TypeOK, SizeInv, PC, Holding, OnSocket
<1>10. CASE HitWrite(t)
  <2> DEFINE o == SubSeq(cache.data[slot[t]], 1, cache.len[slot[t]])
  <2>1. o \in Seq(Byte)
    <3>1. slot[t] \in Slots
      BY <1>10 DEF HitWrite, Goto, ReqInv
    <3>2. /\ cache.data[slot[t]] \in Buffer /\ cache.len[slot[t]] \in Nat
          /\ cache.len[slot[t]] <= MAX_CACHE_OBJECT
      BY <3>1, SizeAssumption DEF TypeOK, Cache, SizeInv
    <3> QED
      BY <3>2, PartOfBuffer
  <2>2. resp' = [resp EXCEPT ![t].out = o]
    BY <1>10 DEF HitWrite
  <2> HIDE DEF o
  <2>3. /\ resp' \in [Threads -> Responses]
        /\ resp'[t].size = resp[t].size /\ resp'[t].left = resp[t].left
        /\ \A s \in Threads \ {t} : resp'[s] = resp[s]
    BY <1>0, <2>1, <2>2, SetOut
  <2>4. pc' = [pc EXCEPT ![t] = "hitunlock"] /\ UNCHANGED <<local, sem, cache, up, origin>>
    BY <1>10 DEF HitWrite, Goto
  <2> QED
    BY <2>3, <2>4 DEF local, TypeOK, SizeInv, PC, Holding, Responses
<1>11. CASE HitUnlock(t)
  <2> DEFINE o == <<>>
  <2>1. resp' = [resp EXCEPT ![t].out = o] /\ o \in Seq(Byte)
    BY <1>11 DEF HitUnlock
  <2> HIDE DEF o
  <2>2. /\ resp' \in [Threads -> Responses]
        /\ resp'[t].size = resp[t].size /\ resp'[t].left = resp[t].left
        /\ \A s \in Threads \ {t} : resp'[s] = resp[s]
    BY <1>0, <2>1, SetOut
  <2>3. PICK p \in {"next", "close"} : pc' = [pc EXCEPT ![t] = p]
    BY <1>11 DEF HitUnlock, Goto, Again
  <2>4. sem' = sem + 1 /\ slot' = [slot EXCEPT ![t] = NoSlot]
        /\ UNCHANGED <<met, url, keep, cache, up, origin>>
    BY <1>11 DEF HitUnlock
  <2>5. sem' \in Nat /\ slot' \in [Threads -> Slots \union {NoSlot}]
    BY <2>4 DEF TypeOK
  <2>6. TypeOK'
    BY <2>2, <2>3, <2>4, <2>5 DEF TypeOK, PC, Responses
  <2> QED
    BY <2>2, <2>3, <2>4, <2>6 DEF TypeOK, SizeInv
<1>12. CASE MissUnlock(t)
  <2>1. resp' = [resp EXCEPT ![t] = [resp[t] EXCEPT !.size = 0]]
    BY <1>0, <1>12 DEF MissUnlock
  <2>2. [resp[t] EXCEPT !.size = 0] \in Responses
    BY <1>0 DEF Responses
  <2>3. /\ resp' \in [Threads -> Responses]
        /\ \A s \in Threads \ {t} : resp'[s] = resp[s]
    BY <1>0, <2>1, <2>2
  <2>4. pc' = [pc EXCEPT ![t] = "forward"] /\ sem' = sem + 1
        /\ UNCHANGED <<local, cache, up, origin>>
    BY <1>12 DEF MissUnlock, Goto
  <2>5. sem' \in Nat
    BY <2>4 DEF TypeOK
  <2>6. TypeOK'
    BY <2>3, <2>4, <2>5 DEF local, TypeOK, PC, OnSocket, ClientHeader, Responses
  <2> QED
    BY <2>3, <2>4, <2>6 DEF TypeOK, SizeInv
<1>13. CASE Forward(t)
  BY <1>13 DEF Forward, Goto, TypeOK, SizeInv, PC, OnSocket
<1>14. CASE WriteStep(t)
  <2>1. PICK r \in Responses, piece \in Seq(Byte) :
          /\ pc'[t] = "data" => r.left > 0
          /\ resp' = [resp EXCEPT ![t] = Rio_writen_c(r, met[t], piece)]
    BY <1>14, WriteSteps DEF Writes
  <2>2. PICK p \in {"line", "data", "end", "eof", "done"} : pc' = [pc EXCEPT ![t] = p]
    BY <1>14, WriteSteps
  <2>3. UNCHANGED <<met, url, keep, slot, sem, cache, up, origin>>
    BY <1>14, WriteSteps DEF local
  <2>4. resp' \in [Threads -> Responses]
    BY <1>0, <2>1, WriteCounts
  <2>5. TypeOK'
    BY <2>2, <2>3, <2>4 DEF TypeOK, PC, OnSocket, Responses
  <2>6. Rio_writen_c(r, met[t], piece).left = r.left
    BY <2>1, WriteCounts
  <2>7. \A s \in Threads : pc'[s] = "data" => resp'[s].left > 0
    BY <1>0, <2>1, <2>2, <2>6 DEF TypeOK, SizeInv
  <2>8. \A s \in Threads : pc'[s] \in {"putlock", "put"} => resp'[s].size < MAX_CACHE_OBJECT
    BY <1>0, <2>1, <2>2 DEF TypeOK, SizeInv
  <2> QED
    BY <2>3, <2>5, <2>7, <2>8 DEF SizeInv
<1>15. CASE Finish(t)
  <2>1. PICK n \in Responses, p \in {"putlock", "next", "close"} :
          /\ resp' = [resp EXCEPT ![t] = n] /\ pc' = [pc EXCEPT ![t] = p]
          /\ p = "putlock" => n.size < MAX_CACHE_OBJECT
    BY <1>15, FinishSets
  <2>2. resp' \in [Threads -> Responses]
    BY <1>0, <2>1
  <2>3. UNCHANGED <<local, sem, cache, up, origin>>
    BY <1>15 DEF Finish
  <2> QED
    BY <1>0, <2>1, <2>2, <2>3 DEF local, TypeOK, SizeInv, PC, Responses
<1>16. CASE CachePut(t)
  <2>1. /\ pc[t] = "put" /\ pc' = [pc EXCEPT ![t] = "putunlock"]
        /\ cache' = cache_put(cache, url[t], resp[t].temp, resp[t].size)
        /\ origin' = [origin EXCEPT ![cache.next] = [url |-> url[t], out |-> resp[t].out]]
        /\ UNCHANGED <<met, url, keep, slot, resp, sem, up>>
    BY <1>16 DEF CachePut, Goto, local
  <2>2. url[t] \in URL /\ resp[t].size < MAX_CACHE_OBJECT
    BY <2>1 DEF ReqInv, Serving, Holding, SizeInv
  <2>3. cache \in Cache /\ resp[t].temp \in Buffer /\ resp[t].size \in Nat
        /\ resp[t].out \in Seq(Byte)
    BY <1>0 DEF TypeOK, Responses
  <2>4. cache' \in Cache /\ \A i \in Slots : cache'.len[i] < MAX_CACHE_OBJECT
    <3>1. cache' \in Cache /\ cache'.len[cache.next] = resp[t].size
          /\ \A i \in Slots \ {cache.next} : cache'.len[i] = cache.len[i]
      BY <2>1, <2>2, <2>3, CachePutFills
    <3> QED
      BY <2>2, <3>1 DEF SizeInv
  <2>5. origin' \in [Slots -> [url : URL \union {NoUrl}, out : Seq(Byte)]]
    BY <2>1, <2>2, <2>3 DEF TypeOK
  <2>6. TypeOK'
    BY <2>1, <2>4, <2>5 DEF TypeOK, PC, Holding
  <2> QED
    BY <2>1, <2>4, <2>6 DEF TypeOK, SizeInv
<1>17. CASE PutUnlock(t)
  <2> DEFINE o == <<>>
  <2>1. resp' = [resp EXCEPT ![t].out = o] /\ o \in Seq(Byte)
    BY <1>17 DEF PutUnlock
  <2> HIDE DEF o
  <2>2. /\ resp' \in [Threads -> Responses]
        /\ resp'[t].size = resp[t].size /\ resp'[t].left = resp[t].left
        /\ \A s \in Threads \ {t} : resp'[s] = resp[s]
    BY <1>0, <2>1, SetOut
  <2>3. PICK p \in {"next", "close"} : pc' = [pc EXCEPT ![t] = p]
    BY <1>17 DEF PutUnlock, Goto, Again
  <2>4. sem' = sem + 1 /\ UNCHANGED <<local, cache, up, origin>>
    BY <1>17 DEF PutUnlock
  <2>5. sem' \in Nat
    BY <2>4 DEF TypeOK
  <2>6. TypeOK'
    BY <2>2, <2>3, <2>4, <2>5 DEF local, TypeOK, PC, Responses
  <2> QED
    BY <2>2, <2>3, <2>4, <2>6 DEF TypeOK, SizeInv
<1>18. CASE HeaderCut(t)
  <2>1. pc' = [pc EXCEPT ![t] = "spin"] /\ UNCHANGED <<local, resp, sem, cache, up, origin>>
    BY <1>18 DEF HeaderCut, Goto
  <2> QED
    BY <2>1 DEF local, TypeOK, SizeInv, PC
<1>19. CASE Exit(t)
  BY <1>19 DEF Exit, local, TypeOK, SizeInv
<1> QED
  BY <1>1, <1>2, <1>3, <1>4, <1>5, <1>6, <1>7, <1>8, <1>9, <1>10, <1>11, <1>12, <1>13,
     <1>14, <1>15, <1>16, <1>17, <1>18, <1>19 DEF Step, Request, WriteStep

LEMMA ReqStep ==
  ASSUME TypeInv, NEW t \in Threads, Step(t)
  PROVE  ReqInv'
<1> USE DEF TypeInv, TypeOK, ReqInv, Serving, InTunnel, OnSocket, ClientHeader, Holding
<1>1. CASE Accept(t) \/ ReadNothing(t) \/ Refuse(t) \/ Close(t)
  BY <1>1 DEF Accept, ReadNothing, Refuse, Close, Goto, Again, local
<1>7. CASE Tunnel(t)
  <2>1. PICK p \in InTunnel \union {"close"} : pc' = [pc EXCEPT ![t] = p]
    BY <1>7, TunnelMoves, Zenon
  <2>2. pc[t] \in InTunnel \union {"tunnel"} /\ UNCHANGED <<url, slot>>
    BY <1>7, TunnelMoves DEF local
  <2> QED
    BY <2>1, <2>2 DEF InTunnel
<1>2. CASE ReadRequest(t)
  <2>1. PICK u \in URL, p \in {"lock", "forward", "tunnel", "refuse"} :
          /\ url' = [url EXCEPT ![t] = u] /\ pc' = [pc EXCEPT ![t] = p]
          /\ slot' = slot
    BY <1>2 DEF ReadRequest
  <2> QED
    BY <2>1
<1>3. CASE Lock(t) \/ HitHeader(t) \/ HitWrite(t) \/ HitUnlock(t) \/ MissUnlock(t)
  BY SMTT(30), <1>3 DEF Lock, HitHeader, HitWrite, HitUnlock, MissUnlock, Goto, Again, local
<1>4. CASE CacheGet(t)
  <2>1. url[t] \in URL
    BY <1>4 DEF CacheGet, Goto
  <2>2. cache_get(cache, url[t]) # NoSlot => cache_get(cache, url[t]) \in Slots
    BY <2>1, CacheGetFinds
  <2> QED
    BY <1>4, <2>2 DEF CacheGet, Goto
<1>5. CASE Forward(t) \/ Finish(t) \/ CachePut(t) \/ PutUnlock(t) \/ HeaderCut(t) \/ Exit(t)
  BY SMTT(30), <1>5 DEF Forward, Finish, CachePut, PutUnlock, HeaderCut, Exit, Goto, Again, local
<1>6. CASE WriteStep(t)
  <2>1. PICK p \in {"line", "data", "end", "eof", "done"} : pc' = [pc EXCEPT ![t] = p]
    BY <1>6, WriteSteps
  <2>2. pc[t] \in {"response", "line", "data", "end", "eof"} /\ UNCHANGED <<url, slot>>
    BY <1>6, WriteSteps DEF local
  <2> QED
    BY <2>1, <2>2
<1> QED
  BY <1>1, <1>2, <1>3, <1>4, <1>5, <1>6, <1>7 DEF Step, Request, WriteStep

\* The invariant of types is inductive.
LEMMA TypeNext ==
  ASSUME TypeInv, [Next]_vars
  PROVE  TypeInv'
<1>1. CASE \E t \in Threads : Step(t)
  BY <1>1, TypeStep, ReqStep DEF TypeInv
<1>2. CASE UNCHANGED vars
  BY <1>2 DEF vars, local, TypeInv, TypeOK, SizeInv, ReqInv
<1> QED
  BY <1>1, <1>2 DEF Next, Idle

\* Every variable of the proxy keeps its type: among them the index of the slot to fill and
\* of the one that a thread has found. (That strings end inside their buffers is
\* StringsEndInside.)
THEOREM TypeCorrect == Spec => []TypeOK
<1>1. Init => TypeInv
  BY TypeInit
<1>2. TypeInv /\ [Next]_vars => TypeInv'
  BY TypeNext
<1>3. TypeInv => TypeOK
  BY DEF TypeInv
<1> QED
  BY <1>1, <1>2, <1>3, PTL DEF Spec

------------------------------------------------------------------------------
(***************************************************************************)
(* The lock.                                                               *)
(***************************************************************************)
\* The semaphore is 0 while a thread holds the lock, and only one does.
LockInv ==
  /\ sem \in {0, 1}
  /\ \A t \in Threads : pc[t] \in Holding => sem = 0
  /\ \A s, t \in Threads : pc[s] \in Holding /\ pc[t] \in Holding => s = t

LEMMA LockStep ==
  ASSUME TypeInv, LockInv, NEW t \in Threads, Step(t)
  PROVE  LockInv'
<1>0. pc \in [Threads -> PC] /\ sem \in {0, 1}
  BY DEF TypeInv, TypeOK, LockInv
<1> DEFINE Moves(p) == pc' = [pc EXCEPT ![t] = p]
           Keeps    == sem' = sem /\ \E p \in PC : Moves(p) /\ (p \in Holding => pc[t] \in Holding)
           Takes    == sem = 1 /\ sem' = 0 /\ \E p \in PC : Moves(p)
           Releases == sem' = sem + 1 /\ pc[t] \in Holding
                       /\ \E p \in PC : Moves(p) /\ p \notin Holding
<1>1. ASSUME Accept(t) \/ ReadNothing(t) \/ Refuse(t) \/ Close(t)
      PROVE  Keeps
  <2>1. sem' = sem /\ \E p \in {"first", "close", "next", "idle"} : Moves(p)
    BY <1>1 DEF Accept, ReadNothing, Refuse, Close, Goto, Again
  <2> QED
    BY <2>1 DEF PC, Holding
<1>12. ASSUME Tunnel(t)
       PROVE  Keeps
  <2>1. sem' = sem /\ \E p \in InTunnel \union {"close"} : Moves(p)
    BY <1>12, TunnelMoves DEF TypeInv
  <2> QED
    BY <2>1 DEF InTunnel, PC, Holding
<1>2. ASSUME ReadRequest(t)
      PROVE  Keeps
  <2>1. sem' = sem /\ \E p \in {"lock", "forward", "tunnel", "refuse"} : Moves(p)
    BY <1>2 DEF ReadRequest
  <2> QED
    BY <2>1 DEF PC, Holding, OnSocket, ClientHeader
<1>3. ASSUME Lock(t)
      PROVE  Takes
  <2>1. sem = 1 /\ sem' = 0 /\ \E p \in {"get", "put"} : Moves(p)
    BY <1>0, <1>3 DEF Lock, Goto
  <2> QED
    BY <2>1 DEF PC, Holding
<1>4. ASSUME CacheGet(t) \/ HitHeader(t) \/ HitWrite(t) \/ CachePut(t)
      PROVE  Keeps
  <2>1. /\ sem' = sem /\ pc[t] \in {"get", "hitheader", "hitwrite", "put"}
        /\ \E p \in {"missunlock", "hitheader", "hitwrite", "hitunlock", "putunlock"} : Moves(p)
    BY <1>4 DEF CacheGet, HitHeader, HitWrite, CachePut, Goto
  <2> QED
    BY <2>1 DEF PC, Holding
<1>5. ASSUME HitUnlock(t) \/ MissUnlock(t) \/ PutUnlock(t)
      PROVE  Releases
  <2>1. /\ sem' = sem + 1 /\ pc[t] \in {"hitunlock", "missunlock", "putunlock"}
        /\ \E p \in {"next", "close", "forward"} : Moves(p)
    BY <1>5 DEF HitUnlock, MissUnlock, PutUnlock, Goto, Again
  <2> QED
    BY <2>1 DEF PC, Holding, OnSocket, ClientHeader
<1>6. ASSUME Forward(t) \/ Finish(t) \/ HeaderCut(t)
      PROVE  Keeps
  <2>1. sem' = sem /\ \E p \in {"response", "putlock", "next", "close", "spin"} : Moves(p)
    BY <1>6 DEF Forward, Finish, HeaderCut, Goto, Again
  <2> QED
    BY <2>1 DEF PC, Holding, OnSocket
<1>7. ASSUME WriteStep(t)
      PROVE  Keeps
  <2>1. sem' = sem /\ \E p \in {"line", "data", "end", "eof", "done"} : Moves(p)
    BY <1>7, WriteSteps DEF TypeInv
  <2> QED
    BY <2>1 DEF PC, Holding, OnSocket
<1>8. CASE Exit(t)
  BY <1>8 DEF Exit, LockInv
<1>9. ASSUME Keeps PROVE LockInv'
  BY <1>0, <1>9 DEF LockInv
<1>10. ASSUME Takes PROVE LockInv'
  BY <1>0, <1>10 DEF LockInv
<1>11. ASSUME Releases PROVE LockInv'
  BY <1>0, <1>11 DEF LockInv
<1> QED
  BY <1>1, <1>2, <1>3, <1>4, <1>5, <1>6, <1>7, <1>8, <1>9, <1>10, <1>11, <1>12
     DEF Step, Request, WriteStep

------------------------------------------------------------------------------
(***************************************************************************)
(* What is fetched.                                                        *)
(***************************************************************************)
Empty    == {"idle", "first", "next", "refuse", "lock", "get", "missunlock", "forward",
             "response"}
Fetched  == {"forward", "response", "line", "data", "end", "eof", "done", "putlock", "put"}

\* Nothing is sent before there is a response; of the response to a GET everything
\* that was sent is counted.
BodyInv ==
  \A t \in Threads :
    /\ pc[t] \in {"lock", "get", "missunlock", "putlock", "put"} => met[t] = "GET"
    /\ pc[t] \in Empty => resp[t].out = <<>>
    /\ pc[t] \in Fetched /\ met[t] = "GET" => Counted(resp[t])

LEMMA BodyStep ==
  ASSUME TypeInv, BodyInv, NEW t \in Threads, Step(t)
  PROVE  BodyInv'
<1> USE DEF TypeInv, TypeOK, BodyInv, Empty, Fetched
<1>0. resp \in [Threads -> Responses] /\ resp' \in [Threads -> Responses]
  BY TypeResp, TypeStep DEF Responses
<1>1. CASE Accept(t) \/ ReadNothing(t) \/ Refuse(t) \/ Close(t)
  BY SMTT(30), <1>1 DEF Accept, ReadNothing, Refuse, Close, Goto, Again, local, NoResponse
<1>10. CASE Tunnel(t)
  BY <1>10, TunnelMoves DEF InTunnel, local
<1>2. CASE ReadRequest(t)
  <2>1. PICK m \in {"GET", "POST", "CONNECT", "UNKNOWN"},
              p \in {"lock", "forward", "tunnel", "refuse"} :
          /\ met' = [met EXCEPT ![t] = m] /\ pc' = [pc EXCEPT ![t] = p]
          /\ p = "lock" => m = "GET"
          /\ p = "forward" => m # "GET"
    BY <1>2 DEF ReadRequest
  <2>2. pc[t] \in {"first", "next"} /\ resp' = resp
    BY <1>2 DEF ReadRequest
  <2> QED
    BY <2>1, <2>2
<1>3. CASE Lock(t) \/ CacheGet(t) \/ HitHeader(t) \/ CachePut(t)
  BY SMTT(30), <1>3 DEF Lock, CacheGet, HitHeader, CachePut, Goto, local
<1>4. CASE HitWrite(t)
  <2>1. \A s \in Threads \ {t} : resp'[s] = resp[s]
    BY <1>0, <1>4 DEF HitWrite
  <2> QED
    BY <1>4, <2>1 DEF HitWrite, Goto, local
<1>5. CASE HitUnlock(t) \/ PutUnlock(t)
  <2>1. resp' = [resp EXCEPT ![t].out = <<>>]
    BY <1>5 DEF HitUnlock, PutUnlock
  <2>2. resp'[t].out = <<>> /\ \A s \in Threads \ {t} : resp'[s] = resp[s]
    BY <1>0, <2>1 DEF Responses
  <2>3. PICK p \in {"next", "close"} : pc' = [pc EXCEPT ![t] = p]
    BY <1>5 DEF HitUnlock, PutUnlock, Goto, Again
  <2>4. met' = met
    BY <1>5 DEF HitUnlock, PutUnlock, local
  <2> QED
    BY <2>2, <2>3, <2>4
<1>6. CASE MissUnlock(t)
  <2>1. /\ resp'[t].out = resp[t].out /\ resp'[t].size = 0
        /\ \A s \in Threads \ {t} : resp'[s] = resp[s]
    BY <1>0, <1>6 DEF MissUnlock, Responses
  <2>2. pc[t] = "missunlock" /\ pc' = [pc EXCEPT ![t] = "forward"] /\ met' = met
    BY <1>6 DEF MissUnlock, Goto, local
  <2>3. Counted(resp'[t])
    BY <2>1, <2>2 DEF Counted
  <2> QED
    BY <2>1, <2>2, <2>3
<1>7. CASE Forward(t) \/ HeaderCut(t) \/ Exit(t)
  BY <1>7 DEF Forward, HeaderCut, Exit, Goto, local
<1>8. CASE WriteStep(t)
  <2>1. PICK r \in Responses, piece \in Seq(Byte) :
          /\ r.size = resp[t].size /\ r.out = resp[t].out /\ r.temp = resp[t].temp
          /\ resp' = [resp EXCEPT ![t] = Rio_writen_c(r, met[t], piece)]
    BY <1>8, WriteSteps DEF Writes
  <2>2. PICK p \in {"line", "data", "end", "eof", "done"} : pc' = [pc EXCEPT ![t] = p]
    BY <1>8, WriteSteps
  <2>3. pc[t] \in {"response", "line", "data", "end", "eof"} /\ met' = met
    BY <1>8, WriteSteps DEF local
  <2>4. met[t] = "GET" => Counted(r)
    BY <2>1, <2>3 DEF Counted
  <2>5. met[t] = "GET" => Counted(resp'[t])
    BY <1>0, <2>1, <2>4, WriteCounts
  <2>6. \A s \in Threads \ {t} : resp'[s] = resp[s]
    BY <1>0, <2>1
  <2> QED
    BY <2>2, <2>3, <2>5, <2>6
<1>9. CASE Finish(t)
  <2>1. PICK n \in Responses, p \in {"putlock", "next", "close"} :
           /\ resp' = [resp EXCEPT ![t] = n] /\ pc' = [pc EXCEPT ![t] = p]
           /\ p = "putlock" =>
                /\ met[t] = "GET" /\ n.size = resp[t].size /\ n.size < MAX_CACHE_OBJECT
                /\ n.out = resp[t].out
                /\ \A i \in 1 .. n.size : n.temp[i] = resp[t].temp[i]
           /\ p # "putlock" => n.out = <<>>
    BY <1>9, FinishSets
  <2>2. pc[t] = "done" /\ met' = met
    BY <1>9 DEF Finish, Goto, local
  <2>3. p = "putlock" => Counted(n)
    BY <2>1, <2>2 DEF Counted
  <2>4. resp'[t] = n /\ \A s \in Threads \ {t} : resp'[s] = resp[s]
    BY <1>0, <2>1
  <2> QED
    BY <2>1, <2>2, <2>3, <2>4
<1> QED
  BY <1>1, <1>2, <1>3, <1>4, <1>5, <1>6, <1>7, <1>8, <1>9, <1>10 DEF Step, Request, WriteStep

------------------------------------------------------------------------------
(***************************************************************************)
(* What is cached, and what is sent from the cache.                        *)
(***************************************************************************)
\* A slot that was filled holds the length, and up to the first NUL the bytes, of what
\* the client was sent whose request filled it.
SlotInv(i) ==
  cache.url[i] # NoUrl =>
    /\ cache.hash[i] = hash_code[cache.url[i]]
    /\ origin[i].url = cache.url[i]
    /\ cache.len[i] = Len(origin[i].out)
    /\ \A k \in 1 .. cache.len[i] :
         InString(origin[i].out, k) => cache.data[i][k] = origin[i].out[k]

\* What a thread found under the lock is still there while it answers.
HitInv(t) ==
  /\ pc[t] \in {"hitheader", "hitwrite", "hitunlock"} => cache.url[slot[t]] = url[t]
  /\ pc[t] = "hitunlock" =>
       resp[t].out = SubSeq(cache.data[slot[t]], 1, cache.len[slot[t]])

CacheInv == /\ \A i \in Slots : SlotInv(i)
            /\ \A t \in Threads : HitInv(t)

ProxyInv == TypeInv /\ LockInv /\ BodyInv /\ CacheInv

\* A step changes no local of another thread.
LEMMA OthersKept ==
  ASSUME TypeInv, NEW t \in Threads, Step(t), NEW s \in Threads \ {t}
  PROVE  /\ pc'[s] = pc[s] /\ met'[s] = met[s] /\ url'[s] = url[s] /\ slot'[s] = slot[s]
         /\ resp'[s].out = resp[s].out
<1> USE DEF TypeInv, TypeOK
<1>0. resp \in [Threads -> Responses]
  BY TypeResp
<1>1. CASE WriteStep(t)
  <2>1. UNCHANGED <<met, url, slot>>
    BY <1>1, WriteSteps DEF local
  <2>2. \E p \in {"line", "data", "end", "eof", "done"} : pc' = [pc EXCEPT ![t] = p]
    BY <1>1, WriteSteps
  <2>3. PICK r \in Responses, piece \in Seq(Byte) :
          resp' = [resp EXCEPT ![t] = Rio_writen_c(r, met[t], piece)]
    <3>1. Writes(t)
      BY <1>1, WriteSteps
    <3> QED
      BY <3>1, Zenon DEF Writes
  <2> QED
    BY <1>0, <2>1, <2>2, <2>3
<1>2. CASE Accept(t) \/ ReadNothing(t) \/ ReadRequest(t) \/ Refuse(t)
           \/ Close(t) \/ Lock(t) \/ CacheGet(t) \/ HitHeader(t)
  BY <1>0, <1>2 DEF Accept, ReadNothing, ReadRequest, Refuse, Close, Lock,
     CacheGet, HitHeader, Goto, local
<1>5. CASE Tunnel(t)
  BY SMTT(30), <1>5, TunnelMoves DEF local
<1>3. CASE HitWrite(t) \/ HitUnlock(t) \/ MissUnlock(t) \/ Forward(t)
  BY <1>0, <1>3 DEF HitWrite, HitUnlock, MissUnlock, Forward, Goto, local
<1>4. CASE Finish(t) \/ CachePut(t) \/ PutUnlock(t) \/ HeaderCut(t) \/ Exit(t)
  BY <1>0, <1>4 DEF Finish, CachePut, PutUnlock, HeaderCut, Exit, Goto, local
<1> QED
  BY <1>1, <1>2, <1>3, <1>4, <1>5 DEF Step, Request, WriteStep

\* Only CachePut changes the cache.
LEMMA CacheKept ==
  ASSUME TypeInv, NEW t \in Threads, Step(t), ~CachePut(t)
  PROVE  cache' = cache /\ origin' = origin
<1>1. CASE WriteStep(t)
  BY <1>1, WriteSteps DEF TypeInv
<1>3. CASE Tunnel(t)
  BY <1>3, TunnelMoves DEF TypeInv
<1>2. CASE ~WriteStep(t) /\ ~Tunnel(t)
  BY <1>2 DEF Step, Request, WriteStep, Accept, ReadNothing, ReadRequest, Refuse, Close, Lock,
     CacheGet, HitHeader, HitWrite, HitUnlock, MissUnlock, Forward, Finish, PutUnlock,
     HeaderCut, Exit
<1> QED
  BY <1>1, <1>2, <1>3

\* What CachePut puts into the slot next, and that no thread is answering from it.
LEMMA PutStep ==
  ASSUME ProxyInv, NEW t \in Threads, CachePut(t)
  PROVE  CacheInv'
<1> DEFINE u == url[t]  temp == resp[t].temp  size == resp[t].size  out == resp[t].out
           n == cache.next
<1>1. /\ pc[t] = "put" /\ pc' = [pc EXCEPT ![t] = "putunlock"]
      /\ cache' = cache_put(cache, u, temp, size)
      /\ origin' = [origin EXCEPT ![n] = [url |-> u, out |-> out]]
      /\ UNCHANGED <<met, url, keep, slot, resp, sem, up>>
  BY DEF CachePut, Goto, local
<1>2. /\ cache \in Cache /\ u \in URL /\ temp \in Buffer /\ size \in Nat
      /\ out \in Seq(Byte) /\ size < MAX_CACHE_OBJECT /\ size = Len(out)
      /\ \A i \in 1 .. size : temp[i] = out[i]
  BY <1>1, TypeResp DEF ProxyInv, TypeInv, TypeOK, SizeInv, ReqInv, Serving, Holding,
     BodyInv, Fetched, Counted, Responses
<1> HIDE DEF u, temp, size, out
<1>3. /\ cache' \in Cache /\ n \in Slots
      /\ \A i \in Slots \ {n} :
           /\ cache'.hash[i] = cache.hash[i] /\ cache'.len[i] = cache.len[i]
           /\ cache'.url[i] = cache.url[i] /\ cache'.data[i] = cache.data[i]
      /\ cache'.hash[n] = hash_code[u] /\ cache'.len[n] = size /\ cache'.url[n] = u
      /\ cache'.data[n] = strcpy(cache.data[n], temp)
  <2>1. n \in Slots
    BY <1>2 DEF Cache
  <2> DEFINE c == cache
             d == cache_put(c, u, temp, size)
  <2>2. /\ d \in Cache
        /\ \A i \in Slots \ {c.next} :
             /\ d.hash[i] = c.hash[i] /\ d.len[i] = c.len[i]
             /\ d.url[i] = c.url[i] /\ d.data[i] = c.data[i]
        /\ d.hash[c.next] = hash_code[u] /\ d.len[c.next] = size /\ d.url[c.next] = u
        /\ d.data[c.next] = strcpy(c.data[c.next], temp)
    BY <1>2, CachePutFills
  <2>3. cache' = d
    BY <1>1
  <2> HIDE DEF d
  <2> QED
    BY <2>1, <2>2, <2>3
<1>4. /\ \A i \in Slots \ {n} : origin'[i] = origin[i]
      /\ origin'[n] = [url |-> u, out |-> out]
  BY <1>1, <1>3 DEF ProxyInv, TypeInv, TypeOK
<1>5. \A k \in 1 .. size : InString(out, k) => strcpy(cache.data[n], temp)[k] = out[k]
  <2>1. SUFFICES ASSUME NEW k \in 1 .. size, InString(out, k)
                 PROVE  strcpy(cache.data[n], temp)[k] = out[k]
    OBVIOUS
  <2>2. cache.data[n] \in Buffer /\ k \in 1 .. MAX_CACHE_OBJECT
    BY <1>2, <1>3, SizeAssumption DEF Cache
  <2>3. InString(temp, k)
    BY <1>2, <2>1 DEF InString
  <2> QED
    BY <1>2, <2>2, <2>3 DEF strcpy, Buffer
<1>6. \A i \in Slots : SlotInv(i)'
  <2>1. SUFFICES ASSUME NEW i \in Slots PROVE SlotInv(i)'
    OBVIOUS
  <2>2. CASE i = n
    BY <1>2, <1>3, <1>4, <1>5, <2>2 DEF SlotInv
  <2>3. CASE i # n
    BY <1>3, <1>4, <2>3 DEF SlotInv, ProxyInv, CacheInv
  <2> QED
    BY <2>2, <2>3
<1>7. \A s \in Threads : HitInv(s)'
  <2>1. SUFFICES ASSUME NEW s \in Threads PROVE HitInv(s)'
    OBVIOUS
  <2>2. CASE s = t
    BY <1>1, <2>2 DEF HitInv, ProxyInv, TypeInv, TypeOK
  <2>3. CASE s # t
    <3>1. pc[s] \notin Holding /\ pc'[s] = pc[s]
      BY <1>1, <2>3 DEF ProxyInv, TypeInv, TypeOK, LockInv, Holding
    <3> QED
      BY <3>1 DEF HitInv, Holding
  <2> QED
    BY <2>2, <2>3
<1> QED
  BY <1>6, <1>7 DEF CacheInv

LEMMA CacheStep ==
  ASSUME ProxyInv, NEW t \in Threads, Step(t)
  PROVE  CacheInv'
<1>1. CASE CachePut(t)
  BY <1>1, PutStep
<1>2. CASE ~CachePut(t)
  <2>1. cache' = cache /\ origin' = origin
    BY <1>2, CacheKept DEF ProxyInv
  <2>2. \A i \in Slots : SlotInv(i)'
    BY <2>1 DEF SlotInv, ProxyInv, CacheInv
  <2>3. pc \in [Threads -> PC] /\ resp \in [Threads -> Responses] /\ HitInv(t)
        /\ slot \in [Threads -> Slots \union {NoSlot}]
    BY TypeResp DEF ProxyInv, TypeInv, TypeOK, CacheInv
  <2>4. HitInv(t)'
    <3>1. CASE CacheGet(t)
      <4>1. pc[t] = "get" /\ url' = url
            /\ slot' = [slot EXCEPT ![t] = cache_get(cache, url[t])]
            /\ pc' = [pc EXCEPT ![t] = IF cache_get(cache, url[t]) = NoSlot
                                       THEN "missunlock" ELSE "hitheader"]
        BY <3>1 DEF CacheGet, Goto
      <4>2. url[t] \in URL /\ cache \in Cache
        BY <4>1 DEF ProxyInv, TypeInv, TypeOK, ReqInv, Serving, Holding
      <4>3. cache_get(cache, url[t]) # NoSlot => cache.url[cache_get(cache, url[t])] = url[t]
        BY <4>2, CacheGetFinds
      <4> QED
        BY <2>1, <2>3, <4>1, <4>3 DEF HitInv
    <3>2. CASE HitHeader(t)
      BY <2>1, <2>3, <3>2 DEF HitHeader, Goto, HitInv
    <3>3. CASE HitWrite(t)
      <4>1. resp'[t].out = SubSeq(cache.data[slot[t]], 1, cache.len[slot[t]])
        BY <2>3, <3>3 DEF HitWrite, Responses
      <4> QED
        BY <2>1, <2>3, <3>3, <4>1 DEF HitWrite, Goto, local, HitInv
    <3>4. CASE Exit(t)
      BY <2>1, <2>3, <3>4 DEF Exit, local, HitInv
    <3>5. CASE ~(CacheGet(t) \/ HitHeader(t) \/ HitWrite(t) \/ Exit(t))
      <4>1. pc'[t] \notin {"hitheader", "hitwrite", "hitunlock"}
        <5>1. CASE WriteStep(t)
          <6>1. \E p \in {"line", "data", "end", "eof", "done"} : pc' = [pc EXCEPT ![t] = p]
            BY <5>1, WriteSteps DEF ProxyInv, TypeInv
          <6> QED
            BY <2>3, <6>1
        <5>2. CASE ReadRequest(t)
          <6>1. \E p \in {"lock", "forward", "tunnel", "refuse"} : pc' = [pc EXCEPT ![t] = p]
            BY <5>2 DEF ReadRequest
          <6> QED
            BY <2>3, <6>1
        <5>4. CASE Tunnel(t)
          <6>1. \E p \in InTunnel \union {"close"} : pc' = [pc EXCEPT ![t] = p]
            BY <5>4, TunnelMoves DEF ProxyInv, TypeInv
          <6> QED
            BY <2>3, <6>1 DEF InTunnel
        <5>3. CASE ~WriteStep(t) /\ ~ReadRequest(t) /\ ~Tunnel(t)
          BY <1>2, <2>3, <3>5, <5>3 DEF Step, Request, WriteStep, Accept, ReadNothing, Refuse,
             Close, Lock, HitUnlock, MissUnlock, Forward, Finish, PutUnlock, HeaderCut,
             Goto, Again
        <5> QED
          BY <5>1, <5>2, <5>3, <5>4
      <4> QED
        BY <4>1 DEF HitInv
    <3> QED
      BY <3>1, <3>2, <3>3, <3>4, <3>5
  <2>5. ASSUME NEW s \in Threads \ {t}
        PROVE  HitInv(s)'
    <3>1. pc'[s] = pc[s] /\ url'[s] = url[s] /\ slot'[s] = slot[s] /\ resp'[s].out = resp[s].out
      BY OthersKept DEF ProxyInv
    <3> QED
      BY <2>1, <3>1 DEF HitInv, ProxyInv, CacheInv
  <2> QED
    BY <2>2, <2>4, <2>5 DEF CacheInv
<1> QED
  BY <1>1, <1>2

\* The invariant is inductive.
LEMMA ProxyInit == Init => ProxyInv
<1> SUFFICES ASSUME Init PROVE ProxyInv
  OBVIOUS
<1>1. LockInv
  BY DEF Init, InitialSem, LockInv, Holding
<1>2. BodyInv
  BY DEF Init, BodyInv, Empty, Fetched, NoResponse
<1>3. CacheInv
  BY DEF Init, CacheInv, SlotInv, HitInv, cache_init
<1> QED
  BY <1>1, <1>2, <1>3, TypeInit DEF ProxyInv

LEMMA ProxyNext ==
  ASSUME ProxyInv, [Next]_vars
  PROVE  ProxyInv'
<1>1. TypeInv'
  BY TypeNext DEF ProxyInv
<1>2. CASE \E t \in Threads : Step(t)
  BY <1>1, <1>2, LockStep, BodyStep, CacheStep DEF ProxyInv
<1>3. CASE UNCHANGED vars
  BY <1>1, <1>3 DEF vars, local, ProxyInv, LockInv, BodyInv, Counted, CacheInv, SlotInv, HitInv
<1> QED
  BY <1>2, <1>3 DEF Next, Idle

\* For every number of threads and slots, every hash function and whatever servers send
\* and clients do: a client answered from the cache is sent what the client was sent whose
\* request filled the slot, in full length and up to the first NUL.
THEOREM HitsRepeatMisses == Spec => []HitRepeatsMiss
<1>1. Init => ProxyInv
  BY ProxyInit
<1>2. ProxyInv /\ [Next]_vars => ProxyInv'
  BY ProxyNext
<1>3. ProxyInv => HitRepeatsMiss
  <2>1. SUFFICES ASSUME ProxyInv, NEW t \in Threads, pc[t] = "hitunlock"
                 PROVE  /\ origin[slot[t]].url = url[t]
                        /\ Repeats(resp[t].out, origin[slot[t]].out)
    BY DEF HitRepeatsMiss
  <2> DEFINE i == slot[t]
  <2>2. i \in Slots /\ url[t] \in URL /\ cache.url[i] = url[t]
        /\ resp[t].out = SubSeq(cache.data[i], 1, cache.len[i])
    BY <2>1 DEF ProxyInv, TypeInv, ReqInv, Serving, Holding, CacheInv, HitInv
  <2>3. /\ cache.data[i] \in Buffer /\ cache.len[i] \in Nat
        /\ cache.len[i] <= MAX_CACHE_OBJECT /\ cache.url[i] # NoUrl /\ SlotInv(i)
    BY <2>1, <2>2, SizeAssumption, UrlAssumption
       DEF ProxyInv, TypeInv, TypeOK, Cache, SizeInv, CacheInv
  <2>4. /\ Len(resp[t].out) = cache.len[i]
        /\ \A k \in 1 .. cache.len[i] : resp[t].out[k] = cache.data[i][k]
    BY <2>2, <2>3, PartOfBuffer
  <2> QED
    BY <2>2, <2>3, <2>4 DEF SlotInv, Repeats
<1> QED
  BY <1>1, <1>2, <1>3, PTL DEF Spec

------------------------------------------------------------------------------
(***************************************************************************)
(* The ends of the strings.                                                *)
(***************************************************************************)
\* A NUL within the size of the buffer.
Terminated(buffer) == \E k \in 1 .. MAX_CACHE_OBJECT : buffer[k] = Nul

\* What cache_put copies, and every slot, is a string that ends inside its buffer.
EndInv == /\ \A t \in Threads : pc[t] \in {"putlock", "put"} => Terminated(resp[t].temp)
          /\ \A i \in Slots : Terminated(cache.data[i])

\* What strcpy leaves ends where the string does that it copies, at its first NUL.
LEMMA CopyEnds ==
  ASSUME NEW buffer \in Buffer, NEW string \in Buffer, Terminated(string)
  PROVE  Terminated(strcpy(buffer, string))
<1> DEFINE R == OpToRel(<, Nat)
           S == {k \in 1 .. MAX_CACHE_OBJECT : string[k] = Nul}
<1>0. S \in SUBSET Nat /\ S # {}
  BY SizeAssumption DEF Terminated
<1>1. PICK m \in S : \A k \in S : ~(<<k, m>> \in R)
  BY <1>0, NatLessThanWellFounded, WFMin
<1>2. \A i, k \in Nat : k < i => <<k, i>> \in R
  BY DEF OpToRel
<1> HIDE DEF R
<1>3. m \in 1 .. MAX_CACHE_OBJECT /\ string[m] = Nul
  OBVIOUS
<1>4. ASSUME NEW k \in 1 .. m - 1 PROVE string[k] # Nul
  <2>1. k \in Nat /\ m \in Nat /\ k < m /\ k \in 1 .. MAX_CACHE_OBJECT
    BY <1>3, SizeAssumption
  <2> QED
    BY <1>1, <1>2, <2>1
<1>5. InString(string, m)
  BY <1>4 DEF InString
<1>6. strcpy(buffer, string)[m] = Nul
  BY <1>3, <1>5 DEF strcpy, Buffer
<1> QED
  BY <1>3, <1>6 DEF Terminated

\* What a thread is about to put keeps its end, or has just got it.
LEMMA TempKept ==
  ASSUME TypeInv, NEW t \in Threads, Step(t), NEW s \in Threads, pc'[s] \in {"putlock", "put"}
  PROVE  \/ pc[s] \in {"putlock", "put"} /\ resp'[s].temp = resp[s].temp
         \/ Terminated(resp'[s].temp)
<1> USE DEF TypeInv, TypeOK
<1>0. resp \in [Threads -> Responses]
  BY TypeResp
<1>1. CASE WriteStep(t)
  <2>1. PICK p \in {"line", "data", "end", "eof", "done"} : pc' = [pc EXCEPT ![t] = p]
    BY <1>1, WriteSteps
  <2>2. PICK r \in Responses, piece \in Seq(Byte) :
          resp' = [resp EXCEPT ![t] = Rio_writen_c(r, met[t], piece)]
    <3>1. Writes(t)
      BY <1>1, WriteSteps
    <3> QED
      BY <3>1, Zenon DEF Writes
  <2> QED
    BY <1>0, <2>1, <2>2
<1>2. CASE Accept(t) \/ ReadNothing(t) \/ ReadRequest(t) \/ Refuse(t)
           \/ Close(t) \/ Lock(t) \/ CacheGet(t) \/ HitHeader(t)
  BY <1>0, <1>2 DEF Accept, ReadNothing, ReadRequest, Refuse, Close, Lock,
     CacheGet, HitHeader, Goto, Again, local
<1>3. CASE Tunnel(t)
  <2>1. resp' = resp
    BY <1>3, TunnelMoves
  <2>2. PICK p \in InTunnel \union {"close"} : pc' = [pc EXCEPT ![t] = p]
    BY <1>3, TunnelMoves
  <2>3. p \notin {"putlock", "put"}
    BY DEF InTunnel
  <2> QED
    BY <2>1, <2>2, <2>3
<1>4. CASE HitWrite(t) \/ HitUnlock(t) \/ MissUnlock(t) \/ Forward(t)
  BY <1>0, <1>4 DEF HitWrite, HitUnlock, MissUnlock, Forward, Goto, Again, local
<1>5. CASE Finish(t)
  <2>1. CASE s # t
    BY <1>0, <1>5, <2>1 DEF Finish, Goto
  <2>2. CASE s = t
    <3> DEFINE r == resp[t]
    <3>1. met[t] = "GET" /\ r.size < MAX_CACHE_OBJECT
      BY <1>5, <2>2 DEF Finish, Goto, Again
    <3>2. r.size \in Nat /\ r.temp \in Buffer
      BY <1>0 DEF Responses
    <3>3. resp'[t].temp = [r.temp EXCEPT ![r.size + 1] = Nul]
      BY <1>0, <1>5, <3>1 DEF Finish, NoResponse
    <3> HIDE DEF r
    <3>4. r.size + 1 \in 1 .. MAX_CACHE_OBJECT
      <4>1. PICK n \in Nat : n = r.size
        BY <3>2
      <4>2. n < MAX_CACHE_OBJECT
        BY <3>1, <4>1
      <4>3. n + 1 \in 1 .. MAX_CACHE_OBJECT
        BY <4>2, SizeAssumption
      <4> QED
        BY <4>1, <4>3
    <3>5. resp'[t].temp[r.size + 1] = Nul
      BY <3>2, <3>3, <3>4 DEF Buffer
    <3> QED
      BY <2>2, <3>4, <3>5 DEF Terminated
  <2> QED
    BY <2>1, <2>2
<1>6. CASE CachePut(t) \/ PutUnlock(t) \/ HeaderCut(t) \/ Exit(t)
  BY <1>0, <1>6 DEF CachePut, PutUnlock, HeaderCut, Exit, Goto, Again, local
<1> QED
  BY <1>1, <1>2, <1>3, <1>4, <1>5, <1>6 DEF Step, Request, WriteStep

LEMMA EndStep ==
  ASSUME ProxyInv, EndInv, NEW t \in Threads, Step(t)
  PROVE  EndInv'
<1>1. \A s \in Threads : pc'[s] \in {"putlock", "put"} => Terminated(resp'[s].temp)
  BY TempKept DEF ProxyInv, EndInv
<1>2. CASE ~CachePut(t)
  BY <1>1, <1>2, CacheKept DEF ProxyInv, EndInv
<1>3. CASE CachePut(t)
  <2> DEFINE n == cache.next  temp == resp[t].temp  d == cache_put(cache, url[t], temp, resp[t].size)
  <2>1. pc[t] = "put" /\ cache' = d
    BY <1>3 DEF CachePut, Goto
  <2>2. /\ cache \in Cache /\ url[t] \in URL /\ temp \in Buffer /\ resp[t].size \in Nat
    BY <2>1, TypeResp DEF ProxyInv, TypeInv, TypeOK, ReqInv, Serving, Holding, Responses
  <2>3. n \in Slots /\ cache.data[n] \in Buffer
    BY <2>2 DEF Cache
  <2>4. Terminated(temp)
    BY <2>1 DEF EndInv
  <2> HIDE DEF temp
  <2>6. d.data[n] = strcpy(cache.data[n], temp) /\ \A i \in Slots \ {n} : d.data[i] = cache.data[i]
    BY <2>2, CachePutFills
  <2> HIDE DEF d, n
  <2>5. \A i \in Slots : Terminated(d.data[i])
    BY <2>2, <2>3, <2>4, <2>6, CopyEnds DEF EndInv
  <2> QED
    BY <1>1, <2>1, <2>5 DEF EndInv
<1> QED
  BY <1>2, <1>3

\* Nothing is written or read outside cache_temp and the slots by the calls that take no
\* size from them: the strcpy of cache_put ends at a NUL inside cache_temp, which is inside
\* the slot as well, whatever bytes the response holds and whatever the slot held before;
\* and the Rio_writen of a hit takes no more bytes than a slot has. (Rio_writen_c, which has
\* the size, leaves out what would not fit.)
THEOREM StringsEndInside ==
  Spec => [](/\ \A t \in Threads : pc[t] = "put" => Terminated(resp[t].temp)
             /\ \A i \in Slots : Terminated(cache.data[i])
             /\ \A t \in Threads : pc[t] = "hitwrite" => cache.len[slot[t]] < MAX_CACHE_OBJECT)
<1>1. Init => ProxyInv /\ EndInv
  <2> SUFFICES ASSUME Init PROVE ProxyInv /\ EndInv
    OBVIOUS
  <2>1. 1 \in 1 .. MAX_CACHE_OBJECT
    BY SizeAssumption
  <2>2. \A i \in Slots : cache.data[i] = [k \in 1 .. MAX_CACHE_OBJECT |-> Nul]
    BY DEF Init, cache_init
  <2>3. EndInv
    BY <2>1, <2>2 DEF Init, EndInv, Terminated
  <2> QED
    BY <2>3, ProxyInit
<1>2. ProxyInv /\ EndInv /\ [Next]_vars => (ProxyInv /\ EndInv)'
  <2> SUFFICES ASSUME ProxyInv, EndInv, [Next]_vars PROVE ProxyInv' /\ EndInv'
    OBVIOUS
  <2>1. ASSUME NEW t \in Threads, Step(t) PROVE EndInv'
    BY <2>1, EndStep
  <2>2. ASSUME UNCHANGED vars PROVE EndInv'
    BY <2>2 DEF vars, EndInv, Terminated
  <2>3. ProxyInv'
    BY ProxyNext
  <2> QED
    BY <2>1, <2>2, <2>3 DEF Next, Idle
<1>3. ProxyInv /\ EndInv =>
        /\ \A t \in Threads : pc[t] = "put" => Terminated(resp[t].temp)
        /\ \A i \in Slots : Terminated(cache.data[i])
        /\ \A t \in Threads : pc[t] = "hitwrite" => cache.len[slot[t]] < MAX_CACHE_OBJECT
  BY DEF ProxyInv, TypeInv, SizeInv, ReqInv, EndInv
<1> QED
  BY <1>1, <1>2, <1>3, PTL DEF Spec

\* Whatever is put into the cache is the whole of what the client was sent.
THEOREM PutsAreComplete == Spec => []PutIsComplete
<1>1. Init => ProxyInv
  BY ProxyInit
<1>2. ProxyInv /\ [Next]_vars => ProxyInv'
  BY ProxyNext
<1>3. ProxyInv => PutIsComplete
  BY DEF ProxyInv, TypeInv, SizeInv, BodyInv, Fetched, Counted, PutIsComplete
<1> QED
  BY <1>1, <1>2, <1>3, PTL DEF Spec

\* The sections between P and V never overlap: the answer to a hit, which reads a header
\* and writes the object, and the two other sections.
THEOREM OneHolder == Spec => [](\A s, t \in Threads :
                                   pc[s] \in Holding /\ pc[t] \in Holding => s = t)
<1>1. Init => ProxyInv
  BY ProxyInit
<1>2. ProxyInv /\ [Next]_vars => ProxyInv'
  BY ProxyNext
<1>3. ProxyInv => \A s, t \in Threads : pc[s] \in Holding /\ pc[t] \in Holding => s = t
  BY DEF ProxyInv, LockInv
<1> QED
  BY <1>1, <1>2, <1>3, PTL DEF Spec

------------------------------------------------------------------------------
(***************************************************************************)
(* Copies of a URL.                                                        *)
(***************************************************************************)
\* A slot has the hash code of its URL, and only a GET is looked up and put.
HashInv == /\ \A i \in Slots : cache.url[i] # NoUrl => cache.hash[i] = hash_code[cache.url[i]]
           /\ \A t \in Threads : pc[t] \in {"lock", "get", "missunlock", "putlock", "put"} =>
                                   met[t] = "GET"

LEMMA HashHolds == ProxyInv => HashInv
BY DEF ProxyInv, CacheInv, SlotInv, BodyInv, HashInv

\* The sets that CopiesBounded counts are finite.
LEMMA FiniteCounts ==
  /\ \A S \in SUBSET Slots : IsFiniteSet(S) /\ Cardinality(S) \in Nat
  /\ \A S \in SUBSET Threads : IsFiniteSet(S) /\ Cardinality(S) \in Nat
                               /\ Cardinality(S) <= Cardinality(Threads)
  /\ IsFiniteSet(Threads) /\ Cardinality(Threads) \in Nat
<1>1. IsFiniteSet(Slots)
  BY SizeAssumption, FS_Interval DEF Slots
<1> QED
  BY <1>1, ThreadAssumption, FS_Subset, FS_CardinalityType

\* A step of t other than CacheGet does not make t a thread that fetches, and none
\* changes what the others fetch.
LEMMA FetchingKept ==
  ASSUME ProxyInv, NEW t \in Threads, Step(t), NEW u \in URL
  PROVE  /\ \A s \in Threads \ {t} : s \in Fetching(u)' <=> s \in Fetching(u)
         /\ ~CacheGet(t) => (t \in Fetching(u)' => t \in Fetching(u))
<1> USE DEF ProxyInv, TypeInv, TypeOK
<1>1. \A s \in Threads \ {t} : s \in Fetching(u)' <=> s \in Fetching(u)
  BY OthersKept DEF Fetching
<1>2. ASSUME ~CacheGet(t), pc'[t] \in InFlight, met'[t] = "GET", url'[t] = u
      PROVE  pc[t] \in InFlight /\ met[t] = "GET" /\ url[t] = u
  <2>1. CASE WriteStep(t)
    <3>1. pc[t] \in {"response", "line", "data", "end", "eof"} /\ UNCHANGED <<met, url>>
      BY <2>1, WriteSteps DEF local
    <3> QED
      BY <1>2, <3>1 DEF InFlight
  <2>2. CASE ReadRequest(t)
    <3>1. PICK m \in {"GET", "POST", "CONNECT", "UNKNOWN"},
                p \in {"lock", "forward", "tunnel", "refuse"} :
            /\ met' = [met EXCEPT ![t] = m] /\ pc' = [pc EXCEPT ![t] = p]
            /\ p = "forward" => m # "GET"
      BY <2>2 DEF ReadRequest
    <3> QED
      BY <1>2, <3>1 DEF InFlight
  <2>3. CASE Accept(t) \/ ReadNothing(t) \/ Refuse(t) \/ Close(t)
    BY <1>2, <2>3 DEF Accept, ReadNothing, Refuse, Close, Goto, Again, InFlight
  <2>7. CASE Tunnel(t)
    BY <1>2, <2>7, TunnelMoves DEF InTunnel, local, InFlight
  <2>4. CASE Lock(t)
    BY <1>2, <2>4 DEF Lock, Goto, local, InFlight
  <2>5. CASE HitHeader(t) \/ HitWrite(t) \/ HitUnlock(t) \/ PutUnlock(t) \/ HeaderCut(t)
             \/ CachePut(t)
    BY <1>2, <2>5 DEF HitHeader, HitWrite, HitUnlock, PutUnlock, HeaderCut, CachePut, Goto,
       Again, InFlight
  <2>6. CASE MissUnlock(t) \/ Forward(t) \/ Finish(t) \/ Exit(t)
    BY <1>2, <2>6 DEF MissUnlock, Forward, Finish, Exit, Goto, Again, local, InFlight
  <2> QED
    BY <1>2, <2>1, <2>2, <2>3, <2>4, <2>5, <2>6, <2>7 DEF Step, Request, WriteStep
<1> QED
  BY <1>1, <1>2 DEF Fetching

LEMMA CopiesStep ==
  ASSUME ProxyInv, CopiesBounded, NEW t \in Threads, Step(t)
  PROVE  CopiesBounded'
<1> SUFFICES ASSUME NEW u \in URL
             PROVE  Cardinality(Copies(u)') + Cardinality(Fetching(u)') <= Cardinality(Threads)
  BY DEF CopiesBounded
<1>0. /\ Cardinality(Copies(u)) + Cardinality(Fetching(u)) <= Cardinality(Threads)
      /\ {Copies(u), Copies(u)'} \subseteq SUBSET Slots
      /\ {Fetching(u), Fetching(u)'} \subseteq SUBSET Threads
  BY DEF CopiesBounded, Copies, Fetching
<1>1. ASSUME Copies(u)' \subseteq Copies(u), Fetching(u)' \subseteq Fetching(u)
      PROVE  Cardinality(Copies(u)') + Cardinality(Fetching(u)') <= Cardinality(Threads)
  <2>1. /\ Cardinality(Copies(u)') <= Cardinality(Copies(u))
        /\ Cardinality(Fetching(u)') <= Cardinality(Fetching(u))
    BY <1>0, <1>1, FiniteCounts, FS_Subset
  <2> QED
    BY <1>0, <2>1, FiniteCounts
<1>2. CASE CacheGet(t)
  <2>1. /\ pc[t] = "get" /\ UNCHANGED <<met, url, cache>>
        /\ pc' = [pc EXCEPT ![t] = IF cache_get(cache, url[t]) = NoSlot
                                   THEN "missunlock" ELSE "hitheader"]
    BY <1>2 DEF CacheGet, Goto
  <2>2. pc \in [Threads -> PC] /\ url[t] \in URL /\ cache \in Cache /\ HashInv
    BY <2>1, HashHolds DEF ProxyInv, TypeInv, TypeOK, ReqInv, Serving, Holding
  <2>3. Copies(u)' = Copies(u)
    BY <2>1 DEF Copies
  <2>4. CASE url[t] = u /\ cache_get(cache, url[t]) = NoSlot
    <3>1. Copies(u)' = {}
      BY <2>2, <2>3, <2>4, CacheGetFinds, UrlAssumption DEF Copies, HashInv
    <3> QED
      BY <1>0, <3>1, FiniteCounts, FS_EmptySet
  <2>5. CASE ~(url[t] = u /\ cache_get(cache, url[t]) = NoSlot)
    <3>1. t \notin Fetching(u)'
      BY <2>1, <2>2, <2>5 DEF Fetching, InFlight
    <3>2. Fetching(u)' \subseteq Fetching(u)
      BY <1>0, <3>1, FetchingKept
    <3> QED
      BY <1>1, <2>3, <3>2
  <2> QED
    BY <2>4, <2>5
<1>3. CASE ~CacheGet(t) /\ ~CachePut(t)
  <2>1. Copies(u)' = Copies(u)
    BY <1>3, CacheKept DEF Copies, ProxyInv
  <2>2. Fetching(u)' \subseteq Fetching(u)
    BY <1>0, <1>3, FetchingKept
  <2> QED
    BY <1>1, <2>1, <2>2
<1>4. CASE CachePut(t)
  <2> DEFINE n == cache.next
  <2>1. /\ pc[t] = "put" /\ pc' = [pc EXCEPT ![t] = "putunlock"] /\ UNCHANGED <<met, url>>
        /\ cache' = cache_put(cache, url[t], resp[t].temp, resp[t].size)
    BY <1>4 DEF CachePut, Goto, local
  <2>2. /\ pc \in [Threads -> PC] /\ url[t] \in URL /\ cache \in Cache /\ met[t] = "GET"
        /\ resp[t].temp \in Buffer /\ resp[t].size \in Nat /\ n \in Slots
    BY <2>1, TypeResp DEF ProxyInv, TypeInv, TypeOK, ReqInv, Serving, Holding, BodyInv,
       Responses, Cache
  <2>3. cache'.url[n] = url[t] /\ \A i \in Slots \ {n} : cache'.url[i] = cache.url[i]
    BY <2>1, <2>2, CachePutFills
  <2>4. ~CacheGet(t)
    BY <2>1 DEF CacheGet, Goto
  <2>5. Fetching(u)' \subseteq Fetching(u)
    BY <1>0, <2>4, FetchingKept
  <2>6. CASE url[t] = u
    <3>1. Copies(u)' \subseteq Copies(u) \union {n}
      BY <2>3 DEF Copies
    <3>2. t \in Fetching(u) /\ t \notin Fetching(u)'
      BY <2>1, <2>2, <2>6 DEF Fetching, InFlight
    <3>3. Fetching(u)' \subseteq Fetching(u) \ {t}
      BY <2>5, <3>2
    <3>4. Cardinality(Copies(u)') <= Cardinality(Copies(u)) + 1
      <4>1. IsFiniteSet(Copies(u)) /\ Cardinality(Copies(u)) \in Nat
        BY <1>0, FiniteCounts
      <4>2. IsFiniteSet(Copies(u) \union {n})
            /\ Cardinality(Copies(u) \union {n}) <= Cardinality(Copies(u)) + 1
        <5>1. /\ IsFiniteSet(Copies(u) \union {n})
              /\ \/ Cardinality(Copies(u) \union {n}) = Cardinality(Copies(u))
                 \/ Cardinality(Copies(u) \union {n}) = Cardinality(Copies(u)) + 1
          BY <4>1, FS_AddElement
        <5> QED
          BY <4>1, <5>1
      <4>3. Cardinality(Copies(u)') <= Cardinality(Copies(u) \union {n})
        BY <3>1, <4>2, FS_Subset
      <4>4. Cardinality(Copies(u) \union {n}) \in Nat /\ Cardinality(Copies(u)') \in Nat
        BY <1>0, <4>2, FiniteCounts, FS_CardinalityType
      <4> QED
        BY <4>1, <4>2, <4>3, <4>4
    <3>5. Cardinality(Fetching(u)') <= Cardinality(Fetching(u)) - 1
      <4>1. IsFiniteSet(Fetching(u)) /\ Cardinality(Fetching(u)) \in Nat
        BY <1>0, FiniteCounts
      <4>2. IsFiniteSet(Fetching(u) \ {t})
            /\ Cardinality(Fetching(u) \ {t}) = Cardinality(Fetching(u)) - 1
        BY <3>2, <4>1, FS_RemoveElement
      <4>3. Cardinality(Fetching(u)') <= Cardinality(Fetching(u) \ {t})
        BY <3>3, <4>2, FS_Subset
      <4> QED
        BY <4>2, <4>3
    <3> QED
      BY <1>0, <3>4, <3>5, FiniteCounts
  <2>7. CASE url[t] # u
    <3>1. Copies(u)' \subseteq Copies(u)
      BY <2>3, <2>7 DEF Copies
    <3> QED
      BY <1>1, <2>5, <3>1
  <2> QED
    BY <2>6, <2>7
<1> QED
  BY <1>2, <1>3, <1>4

\* Threads that miss the same URL each put it, and the same thread may miss it again when
\* its copies are gone; still, copies and fetches of a URL together are never more than
\* the threads.
THEOREM FewCopies == Spec => []CopiesBounded
<1>1. Init => ProxyInv
  BY ProxyInit
<1>2. Init => CopiesBounded
  <2>1. SUFFICES ASSUME Init, NEW u \in URL
                 PROVE  Cardinality(Copies(u)) + Cardinality(Fetching(u)) <= Cardinality(Threads)
    BY DEF CopiesBounded
  <2>2. Copies(u) = {} /\ Fetching(u) = {}
    BY <2>1, UrlAssumption DEF Init, cache_init, Copies, Fetching, InFlight
  <2> QED
    BY <2>2, FiniteCounts, FS_EmptySet
<1>3. ProxyInv /\ CopiesBounded /\ [Next]_vars => ProxyInv' /\ CopiesBounded'
  <2>1. SUFFICES ASSUME ProxyInv, CopiesBounded, [Next]_vars
                 PROVE  ProxyInv' /\ CopiesBounded'
    OBVIOUS
  <2>2. ProxyInv'
    BY <2>1, ProxyNext
  <2>3. CASE \E t \in Threads : Step(t)
    BY <2>1, <2>2, <2>3, CopiesStep
  <2>4. CASE UNCHANGED vars
    BY <2>1, <2>2, <2>4 DEF vars, local, CopiesBounded, Copies, Fetching
  <2> QED
    BY <2>1, <2>3, <2>4 DEF Next, Idle
<1> QED
  BY <1>1, <1>2, <1>3, PTL DEF Spec
------------------------------------------------------------------------------
(***************************************************************************)
(* What the tunnel carries.                                                *)
(***************************************************************************)
TunnelInv ==
  \A t \in Threads :
    /\ Carries(tun[t])
    /\ pc[t] # "write" => tun[t].buf = <<>>
    /\ pc[t] \notin InTunnel => \A s \in Side : tun[t].in[s] = <<>>

\* A request's step is none of a thread that is in a tunnel, but for the exit.
LEMMA RequestOutside ==
  ASSUME TypeInv, NEW t \in Threads, Request(t)
  PROVE  pc[t] \notin InTunnel \/ pc' = pc
<1>1. CASE ReadRequest(t)
  BY <1>1 DEF ReadRequest, InTunnel
<1>2. CASE WriteStep(t)
  BY <1>2, WriteSteps DEF TypeInv, InTunnel
<1>3. CASE Accept(t) \/ ReadNothing(t) \/ Refuse(t) \/ Lock(t) \/ CacheGet(t)
           \/ HitHeader(t) \/ HitWrite(t) \/ HitUnlock(t) \/ MissUnlock(t)
  BY <1>3 DEF Accept, ReadNothing, Refuse, Lock, CacheGet, HitHeader, HitWrite, HitUnlock,
     MissUnlock, Goto, InTunnel
<1>4. CASE Forward(t) \/ Finish(t) \/ CachePut(t) \/ PutUnlock(t) \/ HeaderCut(t) \/ Exit(t)
  BY <1>4 DEF Forward, Finish, CachePut, PutUnlock, HeaderCut, Exit, Goto, InTunnel, ClientHeader
<1> QED
  BY <1>1, <1>2, <1>3, <1>4 DEF Request, WriteStep

LEMMA TunnelStep ==
  ASSUME TypeInv, TunnelInv, NEW t \in Threads, Step(t)
  PROVE  TunnelInv'
<1> DEFINE Good(p, T) == /\ Carries(T)
                         /\ p # "write" => T.buf = <<>>
                         /\ p \notin InTunnel => \A s \in Side : T.in[s] = <<>>
<1>0. pc \in [Threads -> PC] /\ tun \in [Threads -> TunnelState] /\ Good(pc[t], tun[t])
      /\ tun[t] \in TunnelState
  BY DEF TypeInv, TypeOK, TunnelInv
<1>1. tun' \in [Threads -> TunnelState] /\ pc' \in [Threads -> PC]
  BY TunnelTypeStep, TypeStep DEF TypeInv, TypeOK
<1>2. ASSUME NEW s \in Threads \ {t}
      PROVE  pc'[s] = pc[s] /\ tun'[s] = tun[s]
  <2>1. pc'[s] = pc[s]
    BY OthersKept
  <2>2. tun' = tun \/ \E T : tun' = [tun EXCEPT ![t] = T]
    BY Zenon DEF Step, Tunnel, TunnelLoop, TunnelOpen, Select, TunnelRead, TunnelWrite, Peer, Tun
  <2> QED
    BY <1>0, <2>1, <2>2
<1>3. Good(pc'[t], tun'[t])
  <2>1. CASE Request(t) /\ UNCHANGED tun
    <3>1. pc[t] \notin InTunnel \/ pc' = pc
      BY <2>1, RequestOutside
    <3>2. "write" \in InTunnel
      BY DEF InTunnel
    <3> QED
      BY <1>0, <2>1, <3>1, <3>2
  <2>2. CASE Close(t) /\ Tun(t, TunnelStart)
    <3>1. tun'[t] = TunnelStart
      BY <1>0, <2>2 DEF Tun
    <3>2. \A s \in Side : TunnelStart.in[s] = <<>> /\ Other(s) \in Side
                          /\ TunnelStart.got[s] = <<>> /\ TunnelStart.out[s] = <<>>
                          /\ Buffered(TunnelStart, s) = <<>> /\ TunnelStart.sent[s] = 0
      BY DEF TunnelStart, Side, Other, Buffered
    <3>3. <<>> \o <<>> \o <<>> \o <<>> = Numbered(0) /\ TunnelStart.open = Side
          /\ TunnelStart.buf = <<>>
      BY DEF Numbered, TunnelStart
    <3>4. Carries(TunnelStart)
      BY <3>2, <3>3 DEF Carries
    <3> QED
      BY <3>1, <3>2, <3>3, <3>4
  <2>3. CASE TunnelOpen(t)
    BY <1>0, <2>3 DEF TunnelOpen, Goto, InTunnel
  <2>4. CASE Select(t)
    <3>1. pc[t] = "select" /\ pc'[t] = "read" /\ tun'[t] = SelectReturns(tun[t])
      BY <1>0, <2>4 DEF Select, Goto, Tun
    <3>2. Carries(SelectReturns(tun[t])) /\ SelectReturns(tun[t]).buf = <<>>
      BY <1>0, <3>1, LoopCarries DEF SelectReturns, TunnelState
    <3> QED
      BY <3>1, <3>2 DEF InTunnel
  <2>5. CASE TunnelRead(t)
    <3>0. pc[t] = "read" /\ tun[t].buf = <<>>
      BY <1>0, <2>5 DEF TunnelRead, Goto
    <3>1. CASE Reads(tun[t])
      <4>1. pc'[t] = "write" /\ tun'[t] = ReadBytes(tun[t])
        BY <1>0, <2>5, <3>1 DEF TunnelRead, Goto, Tun
      <4> QED
        BY <1>0, <3>0, <3>1, <4>1, LoopCarries DEF InTunnel
    <3>2. CASE ~Reads(tun[t])
      <4> DEFINE R == ReadNone(tun[t])
      <4>1. pc'[t] = AfterSide(R) /\ tun'[t] = OtherSide(R)
        BY <1>0, <2>5, <3>2 DEF TunnelRead, Goto, Tun
      <4>2. R \in TunnelState /\ Carries(R) /\ R.buf = <<>>
        BY <1>0, <3>0, LoopCarries, TunnelOperators
      <4> HIDE DEF R
      <4>3. Carries(OtherSide(R)) /\ OtherSide(R).buf = <<>> /\ OtherSide(R).in = R.in
        BY <4>2, LoopCarries DEF OtherSide, TunnelState
      <4>4. AfterSide(R) \notin InTunnel => \A s \in Side : R.in[s] = <<>>
        BY <4>2 DEF AfterSide, InTunnel, Carries
      <4> QED
        BY <4>1, <4>3, <4>4
    <3> QED
      BY <3>1, <3>2
  <2>6. CASE TunnelWrite(t)
    <3> DEFINE W == WriteBytes(tun[t])
    <3>1. CASE Room(tun[t]) > 0
      <4>0. W \in TunnelState /\ Carries(W)
        BY <1>0, <3>1, LoopCarries, TunnelOperators
      <4>1. /\ W \in TunnelState /\ Carries(W) /\ pc[t] = "write"
            /\ W.open = tun[t].open /\ W.in = tun[t].in
        <5>1. pc[t] = "write"
          BY <2>6 DEF TunnelWrite, Goto
        <5>2. W.open = tun[t].open /\ W.in = tun[t].in
          BY <1>0 DEF WriteBytes, TunnelState
        <5> QED
          BY <4>0, <5>1, <5>2
      <4>4. \/ W.buf # <<>> /\ Goto(t, "write", "write") /\ Tun(t, W)
            \/ W.buf = <<>> /\ Goto(t, "write", AfterSide(tun[t])) /\ Tun(t, OtherSide(W))
        <5>1. ~(Room(tun[t]) <= 0)
          <6>1. Len(tun[t].out[Other(tun[t].side)]) \in Nat
            <7>1. tun[t].out[Other(tun[t].side)] \in Seq(Nat)
              BY <1>0 DEF TunnelState, Side, Other
            <7> QED
              BY <7>1
          <6> QED
            BY <3>1, <6>1, SocketAssumption DEF Room
        <5> QED
          BY <2>6, <5>1 DEF TunnelWrite
      <4>2. CASE W.buf # <<>>
        <5>1. pc'[t] = "write" /\ tun'[t] = W
          BY <1>0, <4>2, <4>4 DEF Goto, Tun
        <5> QED
          BY <4>1, <5>1 DEF InTunnel
      <4>3. CASE W.buf = <<>>
        <5>1. pc'[t] = AfterSide(tun[t]) /\ tun'[t] = OtherSide(W)
          BY <1>0, <4>3, <4>4 DEF Goto, Tun
        <5>2. AfterSide(tun[t]) \notin InTunnel => tun[t].open = {}
          BY DEF AfterSide, InTunnel
        <5> HIDE DEF W
        <5>3. Carries(OtherSide(W)) /\ OtherSide(W).buf = <<>> /\ OtherSide(W).in = W.in
          BY <4>1, <4>3, LoopCarries DEF OtherSide, TunnelState
        <5>4. W.open = {} => \A s \in Side : W.in[s] = <<>>
          BY <4>1 DEF Carries
        <5>5. AfterSide(tun[t]) # "write"
          BY DEF AfterSide
        <5> QED
          BY <4>1, <5>1, <5>2, <5>3, <5>4, <5>5
      <4> QED
        BY <4>2, <4>3
    <3>2. CASE ~(Room(tun[t]) > 0)
      <4>1. pc'[t] = "write" /\ tun'[t] = tun[t]
        BY <1>0, <2>6, <3>2 DEF TunnelWrite, Goto
      <4> QED
        BY <1>0, <4>1 DEF InTunnel
    <3> QED
      BY <3>1, <3>2
  <2>7. CASE Peer(t)
    <3>1. pc' = pc /\ pc[t] \in InTunnel
      BY <2>7 DEF Peer
    <3>2. PICK s \in Side :
            \/ s \notin tun[t].shut /\ Tun(t, PeerSends(tun[t], s))
            \/ Tun(t, PeerStops(tun[t], s)) \/ Tun(t, PeerReceives(tun[t], s))
      BY <2>7, Zenon DEF Peer
    <3>3. /\ PeerSends(tun[t], s).buf = tun[t].buf /\ PeerStops(tun[t], s).buf = tun[t].buf
          /\ PeerReceives(tun[t], s).buf = tun[t].buf
      BY <1>0 DEF PeerSends, PeerStops, PeerReceives, TunnelState
    <3>4. Carries(tun'[t]) /\ tun'[t].buf = tun[t].buf
      BY <1>0, <3>2, <3>3, PeerCarries DEF Tun
    <3> QED
      BY <1>0, <3>1, <3>4
  <2> QED
    BY <2>1, <2>2, <2>3, <2>4, <2>5, <2>6, <2>7 DEF Step, Tunnel, TunnelLoop
<1>4. \A s \in Threads : Good(pc'[s], tun'[s])
  BY <1>2, <1>3 DEF TunnelInv
<1> QED
  BY <1>4 DEF TunnelInv, Carries, Buffered

\* For every size of the buffers: whatever the peers of a tunnel send, and whenever they
\* stop, the bytes arrive in their order, and a tunnel that has ended left none unread.
THEOREM TunnelsAreIntact == Spec => []TunnelIntact
<1>1. Init => TypeInv /\ TunnelInv
  <2> SUFFICES ASSUME Init PROVE TunnelInv
    BY TypeInit
  <2>1. \A t \in Threads : tun[t] = TunnelStart /\ pc[t] = "idle"
    BY DEF Init
  <2>2. \A s \in Side : TunnelStart.in[s] = <<>> /\ Other(s) \in Side
                        /\ TunnelStart.got[s] = <<>> /\ TunnelStart.out[s] = <<>>
                        /\ Buffered(TunnelStart, s) = <<>> /\ TunnelStart.sent[s] = 0
    BY DEF TunnelStart, Side, Other, Buffered
  <2>3. <<>> \o <<>> \o <<>> \o <<>> = Numbered(0) /\ TunnelStart.open = Side
        /\ TunnelStart.buf = <<>>
    BY DEF Numbered, TunnelStart
  <2>4. Carries(TunnelStart)
    BY <2>2, <2>3 DEF Carries
  <2> QED
    BY <2>1, <2>2, <2>3, <2>4 DEF TunnelInv
<1>2. TypeInv /\ TunnelInv /\ [Next]_vars => TypeInv' /\ TunnelInv'
  <2> SUFFICES ASSUME TypeInv, TunnelInv, [Next]_vars PROVE TypeInv' /\ TunnelInv'
    OBVIOUS
  <2>1. CASE \E t \in Threads : Step(t)
    BY <2>1, TypeNext, TunnelStep
  <2>2. CASE UNCHANGED vars
    BY <2>2, TypeNext DEF vars, TunnelInv, Carries, Buffered
  <2> QED
    BY <2>1, <2>2 DEF Next, Idle
<1>3. TunnelInv => TunnelIntact
  <2> SUFFICES ASSUME TunnelInv, NEW t \in Threads, NEW s \in Side
               PROVE  /\ tun[t].got[Other(s)] \o tun[t].out[Other(s)]
                           \o Buffered(tun[t], s) \o tun[t].in[s] = Numbered(tun[t].sent[s])
                      /\ pc[t] = "close" => tun[t].in[s] = <<>>
    BY DEF TunnelIntact, Buffered, Numbered
  <2> QED
    BY DEF TunnelInv, Carries, InTunnel
<1> QED
  BY <1>1, <1>2, <1>3, PTL DEF Spec
==============================================================================
