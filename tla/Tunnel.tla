------------------------------- MODULE Tunnel --------------------------------
(***************************************************************************)
(* The tunnel of the proxy (proxylab/proxy.c, tunnel): bytes are carried   *)
(* both ways between a client and a server over descriptors that do not    *)
(* block, until both have stopped sending.  Here are its steps as          *)
(* functions of one thread's state; module Proxy makes actions of them.    *)
(***************************************************************************)
EXTENDS Integers, Sequences, FiniteSets, FiniteSetsExt

CONSTANTS MAXBUF,        \* bytes of a buffer
          SocketBuffer,  \* bytes a socket takes before its peer has read any
          MaxSent        \* bound: bytes each peer sends

ASSUME BufferAssumption == MAXBUF \in Nat \ {0}
ASSUME SocketAssumption == SocketBuffer \in Nat \ {0} /\ MaxSent \in Nat

Side     == {"client", "server"}
Other(s) == IF s = "client" THEN "server" ELSE "client"

\* The bytes a peer sends are numbered. open is client_open and server_open.
TunnelState ==
  [open : SUBSET Side, rest : SUBSET Side,
   side : Side,               \* whose turn it is in the body of the loop
   buf  : Seq(Nat),           \* read and not yet written
   in   : [Side -> Seq(Nat)], \* sent by the peer, not read here
   out  : [Side -> Seq(Nat)], \* written here, not received by the peer
   sent : [Side -> Nat],      \* history: how many bytes the peer has sent
   got  : [Side -> Seq(Nat)], \* history: what the peer has received
   shut : SUBSET Side]        \* the peers that will send no more

TunnelStart ==
  [open |-> Side, rest |-> {}, side |-> "client", buf |-> <<>>,
   in   |-> [s \in Side |-> <<>>], out |-> [s \in Side |-> <<>>],
   sent |-> [s \in Side |-> 0],    got |-> [s \in Side |-> <<>>], shut |-> {}]

\* Mutant: FD_SET only before the first call.
Watched_Once(T) == IF T.rest = {} THEN T.open ELSE T.rest

\* The set given to select: what the last call left in it stays.
Watched(T) == T.rest \union T.open
Ready(T)   == {s \in Watched(T) : T.in[s] # <<>> \/ s \in T.shut}

SelectReturns(T) == [T EXCEPT !.rest = Ready(T), !.side = "client"]

\* Whether the body of the loop is at an end.
LastSide(T)   == T.side = "server"
OtherSide(T)  == [T EXCEPT !.side = Other(@)]

\* read: some bytes; or the end, and the side is no longer open; or neither.
Reads(T)   == T.side \in T.rest /\ T.in[T.side] # <<>>
ReadEnd(T) == T.side \in T.rest /\ T.in[T.side] = <<>> /\ T.side \in T.shut

ReadBytes(T) ==
  LET n == Min({Len(T.in[T.side]), MAXBUF})
  IN  [T EXCEPT !.buf = SubSeq(T.in[T.side], 1, n),
                !.in[T.side] = SubSeq(@, n + 1, Len(@))]

\* Mutant: the end of a side is taken for "nothing to read".
ReadNone_Ignored(T) == T

ReadNone(T) == [T EXCEPT !.open = IF ReadEnd(T) THEN @ \ {T.side} ELSE @]

\* One write of the loop in Rio_writen.
Room(T) == SocketBuffer - Len(T.out[Other(T.side)])
WriteBytes(T) ==
  LET n == Min({Len(T.buf), Room(T)})
  IN  [T EXCEPT !.buf = SubSeq(@, n + 1, Len(@)),
                !.out[Other(T.side)] = @ \o SubSeq(T.buf, 1, n)]

\* The peer on side s.
PeerSends(T, s)    == [T EXCEPT !.in[s] = Append(@, T.sent[s] + 1), !.sent[s] = @ + 1]
PeerStops(T, s)    == [T EXCEPT !.shut = @ \union {s}]
PeerReceives(T, s) == [T EXCEPT !.got[s] = @ \o T.out[s], !.out[s] = <<>>]
==============================================================================
