-------------------------------- MODULE Proxy --------------------------------
(***************************************************************************)
(* The caching proxy (proxylab/proxy.c): a thread for each connection, one *)
(* cache, one semaphore around it.  A step is a call or a loop iteration.  *)
(* A thread looks its URL up under the lock; a hit is answered under the   *)
(* lock, a miss drops it, fetches from the server, and takes it again to   *)
(* put the response.  The peers are nondeterministic: what a client asks,  *)
(* what a server answers, where either stops.                              *)
(***************************************************************************)
EXTENDS ProxyCache, Tunnel

CONSTANTS Threads,       \* the threads, each serving one connection at a time
          Response,      \* what servers answer
          StaleByte,     \* what bytes of transfer_response's buffer not read into may hold
          ClientsLeave   \* a client may leave before its header is complete

\* A response: how its end is found (by the Content-Length if it has one), the
\* Content-Length or -1, and the bytes the server sends after the header until it
\* closes, which may be too few.
Kind == {"sized", "chunked", "eof"}
ASSUME ResponseAssumption ==
         /\ \A r \in Response : /\ r.kind \in Kind /\ r.length \in Int
                                /\ r.rest \in Seq(Byte)
ASSUME ThreadAssumption == IsFiniteSet(Threads)
ASSUME StaleAssumption == StaleByte \subseteq Byte

VARIABLES pc,       \* where each thread is
          met, url, \* its request
          keep,     \* the client asked to keep the connection
          slot,     \* what cache_get returned
          resp,     \* the response: what is left of it, cache_temp, cache_size
          sem,      \* cache_lock
          cache,
          up,       \* the process has not exited
          tun,      \* its tunnel
          origin    \* history: for each slot, what the client whose request filled
                    \* it was sent

vars  == <<pc, met, url, keep, slot, resp, sem, cache, up, tun, origin>>
local == <<met, url, keep, slot>>

\* The steps of a request that touch the sockets, and those that a client's header ends.
ClientHeader == {"hitheader", "forward", "refuse", "tunnel"}
OnSocket     == ClientHeader \union {"hitwrite", "response", "line", "data", "end", "eof",
                                 "write"}
\* The loop of the tunnel.
InTunnel == {"select", "read", "write"}
\* The steps of a thread that holds the lock.
Holding == {"get", "hitheader", "hitwrite", "hitunlock", "missunlock", "put", "putunlock"}
PC == OnSocket \union Holding \union InTunnel
        \union {"idle", "first", "next", "lock", "putlock", "done", "close", "spin"}

Header      == 1                  \* a header, as one byte
Eol         == 2                  \* "\r\n"
SizeLine(n) == 10 + n             \* the size line of a chunk of n bytes
NoResponse  == [kind |-> "sized", length |-> 0, left |-> 0, rest |-> <<>>,
                size |-> 0, temp |-> [k \in 1 .. MAX_CACHE_OBJECT |-> Nul], out |-> <<>>]

TypeOK ==
  /\ pc \in [Threads -> PC]
  /\ met \in [Threads -> {"GET", "POST", "CONNECT", "UNKNOWN"}]
  /\ url \in [Threads -> URL \union {NoUrl}]
  /\ keep \in [Threads -> BOOLEAN]
  /\ slot \in [Threads -> Slots \union {NoSlot}]
  /\ resp \in [Threads -> [kind : Kind, length : Int, left : Int, rest : Seq(Byte),
                           size : Nat, temp : Buffer, out : Seq(Byte)]]
  /\ sem \in Nat
  /\ cache \in Cache
  /\ up \in BOOLEAN
  /\ tun \in [Threads -> TunnelState]
  /\ origin \in [Slots -> [url : URL \union {NoUrl}, out : Seq(Byte)]]

\* Mutant: two threads may hold the lock.
InitialSem_Two == 2

InitialSem == 1

Init ==
  /\ pc = [t \in Threads |-> "idle"]
  /\ met = [t \in Threads |-> "UNKNOWN"] /\ url = [t \in Threads |-> NoUrl]
  /\ keep = [t \in Threads |-> FALSE]
  /\ slot = [t \in Threads |-> NoSlot]
  /\ resp = [t \in Threads |-> NoResponse]
  /\ sem = InitialSem
  /\ cache = cache_init
  /\ up = TRUE
  /\ tun = [t \in Threads |-> TunnelStart]
  /\ origin = [i \in Slots |-> [url |-> NoUrl, out |-> <<>>]]

Goto(t, from, to) == up /\ pc[t] = from /\ pc' = [pc EXCEPT ![t] = to]
Again(t) == IF keep'[t] THEN "next" ELSE "close"

------------------------------------------------------------------------------
(***************************************************************************)
(* A connection and its requests.                                          *)
(***************************************************************************)
Accept(t) ==
  /\ Goto(t, "idle", "first")
  /\ UNCHANGED <<local, resp, sem, cache, up, origin>>

\* The client closes instead of sending a request, or sends a blank line.
ReadNothing(t) ==
  /\ \E p \in {"first", "next"} : Goto(t, p, "close")
  /\ UNCHANGED <<local, resp, sem, cache, up, origin>>

\* CONNECT makes a tunnel only as the first request of a connection.
ReadRequest(t) ==
  /\ up /\ pc[t] \in {"first", "next"}
  /\ \E m \in {"GET", "POST", "CONNECT", "UNKNOWN"}, u \in URL :
       /\ met' = [met EXCEPT ![t] = m]
       /\ url' = [url EXCEPT ![t] = u]
       /\ pc' = [pc EXCEPT ![t] = CASE m = "GET"  -> "lock"
                                    [] m = "POST" -> "forward"
                                    [] m = "CONNECT" /\ @ = "first" -> "tunnel"
                                    [] OTHER -> "refuse"]
  /\ UNCHANGED <<keep, slot, resp, sem, cache, up, origin>>

\* read_header and proxy_error.
Refuse(t) ==
  /\ \E k \in BOOLEAN : keep' = [keep EXCEPT ![t] = k]
  /\ Goto(t, "refuse", Again(t))
  /\ UNCHANGED <<met, url, slot, resp, sem, cache, up, origin>>

\* The thread ends and with it its locals.
Close(t) ==
  /\ Goto(t, "close", "idle")
  /\ met' = [met EXCEPT ![t] = "UNKNOWN"] /\ url' = [url EXCEPT ![t] = NoUrl]
  /\ keep' = [keep EXCEPT ![t] = FALSE] /\ slot' = [slot EXCEPT ![t] = NoSlot]
  /\ resp' = [resp EXCEPT ![t] = NoResponse]
  /\ UNCHANGED <<sem, cache, up, origin>>

------------------------------------------------------------------------------
(***************************************************************************)
(* A GET: the lookup and the answer to a hit, under the lock.              *)
(***************************************************************************)
Lock(t) ==
  /\ \/ Goto(t, "lock", "get")
     \/ Goto(t, "putlock", "put")
  /\ sem > 0 /\ sem' = sem - 1
  /\ UNCHANGED <<local, resp, cache, up, origin>>

CacheGet(t) ==
  /\ Goto(t, "get", IF cache_get(cache, url[t]) = NoSlot THEN "missunlock" ELSE "hitheader")
  /\ slot' = [slot EXCEPT ![t] = cache_get(cache, url[t])]
  /\ UNCHANGED <<met, url, keep, resp, sem, cache, up, origin>>

HitHeader(t) ==
  /\ Goto(t, "hitheader", "hitwrite")
  /\ \E k \in BOOLEAN : keep' = [keep EXCEPT ![t] = k]
  /\ UNCHANGED <<met, url, slot, resp, sem, cache, up, origin>>

HitWrite(t) ==
  /\ Goto(t, "hitwrite", "hitunlock")
  /\ resp' = [resp EXCEPT ![t].out = SubSeq(cache.data[slot[t]], 1, cache.len[slot[t]])]
  /\ UNCHANGED <<local, sem, cache, up, origin>>

\* The pointer is not used again.
HitUnlock(t) ==
  /\ UNCHANGED <<met, url, keep>>
  /\ Goto(t, "hitunlock", Again(t))
  /\ sem' = sem + 1
  /\ slot' = [slot EXCEPT ![t] = NoSlot]
  /\ resp' = [resp EXCEPT ![t].out = <<>>]
  /\ UNCHANGED <<cache, up, origin>>

\* Mutant: the miss path goes to the server with the lock.
MissUnlock_Kept(t) ==
  /\ Goto(t, "missunlock", "forward")
  /\ resp' = [resp EXCEPT ![t].size = 0]
  /\ UNCHANGED <<local, sem, cache, up, origin>>

MissUnlock(t) ==
  /\ Goto(t, "missunlock", "forward")
  /\ sem' = sem + 1
  /\ resp' = [resp EXCEPT ![t].size = 0]
  /\ UNCHANGED <<local, cache, up, origin>>

------------------------------------------------------------------------------
(***************************************************************************)
(* forward and transfer_response, without the lock.                        *)
(***************************************************************************)
\* Mutant: the size grows only when the bytes are kept.
Rio_writen_c_Skip(r, m, piece) ==
  LET size == r.size + Len(piece)
      kept == m = "GET" /\ size < MAX_CACHE_OBJECT
  IN  [r EXCEPT !.size = IF kept THEN size ELSE @,
                !.temp = IF ~kept THEN @
                         ELSE [k \in DOMAIN @ |-> IF k \in r.size + 1 .. size
                                                  THEN piece[k - r.size] ELSE @[k]],
                !.out  = @ \o piece]

\* Write piece to the client. In answer to a GET count it and, as long as it fits,
\* keep it in cache_temp.
Rio_writen_c(r, m, piece) ==
  LET size == r.size + Len(piece)
  IN  [r EXCEPT !.size = IF m = "GET" THEN size ELSE @,
                !.temp = IF m # "GET" \/ size >= MAX_CACHE_OBJECT THEN @
                         ELSE [k \in DOMAIN @ |-> IF k \in r.size + 1 .. size
                                                  THEN piece[k - r.size] ELSE @[k]],
                !.out  = @ \o piece]

Write(t, r, piece) == resp' = [resp EXCEPT ![t] = Rio_writen_c(r, met[t], piece)]

\* What Rio_readn(len) may leave in the buffer when the server sends rest and then
\* closes: what is missing is what the buffer held.
Rio_readn(rest, len) ==
  LET n == Min({len, Len(rest)})
  IN  {SubSeq(rest, 1, n) \o stale : stale \in [1 .. len - n -> StaleByte]}

\* The client's header and payload are read, and the request is sent.
Forward(t) ==
  /\ Goto(t, "forward", "response")
  /\ \E k \in BOOLEAN : keep' = [keep EXCEPT ![t] = k]
  /\ UNCHANGED <<met, url, slot, resp, sem, cache, up, origin>>

\* The server's header.
ResponseHeader(t) ==
  /\ \E r \in Response :
       /\ Goto(t, "response", IF r.kind = "sized" THEN IF r.length > 0 THEN "data" ELSE "done"
                              ELSE IF r.kind = "chunked" THEN "line" ELSE "eof")
       /\ Write(t, [resp[t] EXCEPT !.kind = r.kind, !.length = r.length,
                                   !.left = r.length, !.rest = r.rest], <<Header>>)
  /\ UNCHANGED <<local, sem, cache, up, origin>>

\* A line of a chunked response; nothing, if the server has closed.
ReadLine(rest) == SubSeq(rest, 1, Min({1, Len(rest)}))
parse_chunked_header(line) ==
  IF line # <<>> /\ line[1] >= SizeLine(0) THEN line[1] - SizeLine(0) ELSE 0

ChunkLine(t) ==
  LET r    == resp[t]
      line == ReadLine(r.rest)
      size == parse_chunked_header(line)
  IN  /\ Goto(t, "line", IF size > 0 THEN "data" ELSE "end")
      /\ Write(t, [r EXCEPT !.length = size, !.left = size,
                            !.rest = SubSeq(r.rest, 2, Len(r.rest))], line)
      /\ UNCHANGED <<local, sem, cache, up, origin>>

\* One iteration over the bytes of a chunk or of a response with a Content-Length.
Data(t) ==
  LET r   == resp[t]
      len == Min({r.left, MAXBUF})
  IN  /\ Goto(t, "data", IF r.left > len THEN "data"
                         ELSE IF r.kind = "chunked" THEN "end" ELSE "done")
      /\ \E piece \in Rio_readn(r.rest, len) :
           Write(t, [r EXCEPT !.left = r.left - len,
                              !.rest = SubSeq(r.rest, len + 1, Len(r.rest))], piece)
      /\ UNCHANGED <<local, sem, cache, up, origin>>

\* The end of a chunk; the last one has size 0.
ChunkEnd(t) ==
  LET r == resp[t]
  IN  /\ Goto(t, "end", IF r.length = 0 THEN "done" ELSE "line")
      /\ Write(t, [r EXCEPT !.rest = SubSeq(r.rest, 2, Len(r.rest))], ReadLine(r.rest))
      /\ UNCHANGED <<local, sem, cache, up, origin>>

\* One iteration over a response that ends when the server closes.
UntilEof(t) ==
  LET r == resp[t]
      n == Min({Len(r.rest), MAXBUF})
  IN  /\ Goto(t, "eof", IF n > 0 THEN "eof" ELSE "done")
      /\ Write(t, [r EXCEPT !.rest = SubSeq(r.rest, n + 1, Len(r.rest))],
                  SubSeq(r.rest, 1, n))
      /\ UNCHANGED <<local, sem, cache, up, origin>>

\* transfer_response returns. The response to a GET is put if it fits, as a string.
Finish(t) ==
  LET r   == resp[t]
      put == met[t] = "GET" /\ r.size < MAX_CACHE_OBJECT
  IN  /\ UNCHANGED local
      /\ Goto(t, "done", IF put THEN "putlock" ELSE Again(t))
      /\ resp' = [resp EXCEPT ![t] =
                    [NoResponse EXCEPT
                       !.size = r.size,
                       !.temp = IF put THEN [r.temp EXCEPT ![r.size + 1] = Nul] ELSE r.temp,
                       !.out  = IF put THEN r.out ELSE <<>>]]
      /\ UNCHANGED <<sem, cache, up, origin>>

CachePut(t) ==
  /\ Goto(t, "put", "putunlock")
  /\ cache' = cache_put(cache, url[t], resp[t].temp, resp[t].size)
  /\ origin' = [origin EXCEPT ![cache.next] = [url |-> url[t], out |-> resp[t].out]]
  /\ UNCHANGED <<local, resp, sem, up>>

PutUnlock(t) ==
  /\ UNCHANGED local
  /\ Goto(t, "putunlock", Again(t))
  /\ sem' = sem + 1
  /\ resp' = [resp EXCEPT ![t].out = <<>>]
  /\ UNCHANGED <<cache, up, origin>>

------------------------------------------------------------------------------
(***************************************************************************)
(* tunnel.                                                                 *)
(***************************************************************************)
Tun(t, T) == tun' = [tun EXCEPT ![t] = T]

\* read_header, the answer to the client, and the connection to the server.
TunnelOpen(t) ==
  /\ Goto(t, "tunnel", "select")
  /\ UNCHANGED <<up, tun>>

Select(t) ==
  /\ Goto(t, "select", "read")
  /\ Ready(tun[t]) # {}
  /\ Tun(t, SelectReturns(tun[t]))
  /\ UNCHANGED up

\* Mutant: the loop ends when one side has stopped.
AfterSide_Either(T) == IF ~LastSide(T) THEN "read" ELSE IF T.open # Side THEN "close" ELSE "select"

\* Where the loop goes on when a side is done.
AfterSide(T) == IF ~LastSide(T) THEN "read" ELSE IF T.open = {} THEN "close" ELSE "select"

TunnelRead(t) ==
  LET T == tun[t]
  IN  /\ IF Reads(T) THEN Goto(t, "read", "write") /\ Tun(t, ReadBytes(T))
                     ELSE /\ Goto(t, "read", AfterSide(ReadNone(T)))
                          /\ Tun(t, OtherSide(ReadNone(T)))
      /\ UNCHANGED up

\* Rio_writen takes the answer "full" of a socket for an error, which exits.
TunnelWrite(t) ==
  LET T == tun[t]
      W == WriteBytes(T)
  IN  \/ /\ Room(T) > 0
         /\ IF W.buf # <<>> THEN Goto(t, "write", "write") /\ Tun(t, W)
                            ELSE Goto(t, "write", AfterSide(T)) /\ Tun(t, OtherSide(W))
         /\ UNCHANGED up
      \/ Room(T) <= 0 /\ Goto(t, "write", "write") /\ up' = FALSE /\ UNCHANGED tun

\* The peers of a tunnel send, stop sending and receive when they like.
Peer(t) ==
  /\ up /\ pc[t] \in InTunnel
  /\ \E s \in Side :
       \/ s \notin tun[t].shut /\ tun[t].sent[s] < MaxSent /\ Tun(t, PeerSends(tun[t], s))
       \/ s \notin tun[t].shut /\ Tun(t, PeerStops(tun[t], s))
       \/ tun[t].out[s] # <<>> /\ Tun(t, PeerReceives(tun[t], s))
  /\ UNCHANGED <<pc, up>>

TunnelLoop(t) ==
  /\ Select(t) \/ TunnelRead(t) \/ TunnelWrite(t)
  /\ UNCHANGED <<local, resp, sem, cache, origin>>

Tunnel(t) ==
  \/ TunnelLoop(t)
  \/ (TunnelOpen(t) \/ Peer(t)) /\ UNCHANGED <<local, resp, sem, cache, origin>>

------------------------------------------------------------------------------
(***************************************************************************)
(* What may go wrong in a call.                                            *)
(***************************************************************************)
\* A header that ends before its blank line: Read_line returns an empty line for
\* ever, and read_header never leaves its loop.
HeaderCut(t) ==
  /\ \/ ClientsLeave /\ \E p \in ClientHeader : Goto(t, p, "spin")
     \/ Goto(t, "response", "spin")
  /\ UNCHANGED <<local, resp, sem, cache, up, origin>>

\* Any error of a socket call is a unix_error, which exits; a write to a client that
\* has closed raises SIGPIPE; a Content-Length where read_header has no buffer is
\* printed to NULL; parse_first_line and parse_url use what strtok_r and strchr did not
\* find. Each ends the process.
Exit(t) ==
  /\ up /\ pc[t] \in OnSocket \union {"idle", "first", "next"}
  /\ up' = FALSE
  /\ UNCHANGED <<pc, local, resp, sem, cache, origin>>

\* Nothing happens any more, or not to a thread in the loop of HeaderCut.
Idle == /\ ~up \/ \E t \in Threads : pc[t] = "spin"
        /\ UNCHANGED vars

Request(t) ==
  \/ Accept(t) \/ ReadNothing(t) \/ ReadRequest(t) \/ Refuse(t)
  \/ Lock(t) \/ CacheGet(t) \/ HitHeader(t) \/ HitWrite(t) \/ HitUnlock(t) \/ MissUnlock(t)
  \/ Forward(t) \/ ResponseHeader(t) \/ ChunkLine(t) \/ Data(t) \/ ChunkEnd(t)
  \/ UntilEof(t) \/ Finish(t) \/ CachePut(t) \/ PutUnlock(t)
  \/ HeaderCut(t) \/ Exit(t)

Step(t) ==
  \/ Request(t) /\ UNCHANGED tun
  \/ Tunnel(t)
  \/ Close(t) /\ Tun(t, TunnelStart)

Next == Idle \/ \E t \in Threads : Step(t)

Spec == Init /\ [][Next]_vars

\* A thread with the lock takes its steps, and a semaphore that is free again and again
\* is given to each that waits. A client that is answered from the cache sends the rest
\* of its header and takes the answer. Servers, and clients of a miss, may stall.
UnderLock(t) ==
  /\ \/ CacheGet(t) \/ MissUnlock(t) \/ HitHeader(t) \/ HitWrite(t) \/ HitUnlock(t)
     \/ CachePut(t) \/ PutUnlock(t)
  /\ UNCHANGED tun

LockFairness == \A t \in Threads : SF_vars(Lock(t) /\ UNCHANGED tun) /\ WF_vars(UnderLock(t))
LockSpec     == Spec /\ LockFairness

\* A thread goes on with its tunnel, whatever others do.
TunnelSpec == Spec /\ \A t \in Threads : WF_vars(TunnelLoop(t))

------------------------------------------------------------------------------
(***************************************************************************)
(* Properties.                                                             *)
(***************************************************************************)
\* What an answer from the cache repeats: the length, and the bytes up to the first
\* NUL, of what another client was sent.
Repeats(out, sent) ==
  /\ Len(out) = Len(sent)
  /\ \A i \in 1 .. Len(out) : InString(sent, i) => out[i] = sent[i]

\* A client answered from the cache gets what the client got whose request brought
\* the response, and it asked for the same URL, although other threads fill slots
\* while it is answered (dispatcher's P and V around cache_get and Rio_writen).
HitRepeatsMiss ==
  \A t \in Threads : pc[t] = "hitunlock" =>
    /\ origin[slot[t]].url = url[t]
    /\ Repeats(resp[t].out, origin[slot[t]].out)

\* What is put into the cache is all that the client was sent, however many pieces it
\* came in, and never a part of it (Rio_writen_c and the test of cache_size).
PutIsComplete ==
  \A t \in Threads : pc[t] = "put" =>
    /\ resp[t].size = Len(resp[t].out)
    /\ \A i \in 1 .. resp[t].size : resp[t].temp[i] = resp[t].out[i]

Copies(u)  == {i \in Slots : cache.url[i] = u}
InFlight   == {"missunlock", "forward", "response", "line", "data", "end", "eof", "done",
               "putlock", "put"}
Fetching(u) == {t \in Threads : met[t] = "GET" /\ url[t] = u /\ pc[t] \in InFlight}

\* Threads that miss the same URL at the same time all put it. Still a URL never
\* takes more slots than there are threads (cache_get before, cache_put after).
CopiesBounded ==
  \A u \in URL : Cardinality(Copies(u)) + Cardinality(Fetching(u)) <= Cardinality(Threads)

\* What a peer of a tunnel sends reaches the other peer in its order, nothing lost or
\* twice, and a tunnel ends only when all that was sent has been written: a side that has
\* stopped does not cut off the other (tunnel's loop and its two flags).
TunnelIntact ==
  \A t \in Threads, s \in Side :
    LET T == tun[t]
        o == Other(s)
    IN  /\ T.got[o] \o T.out[o] \o (IF T.side = s THEN T.buf ELSE <<>>) \o T.in[s]
             = [i \in 1 .. T.sent[s] |-> i]
        /\ pc[t] = "close" => T.in[s] = <<>>

\* Bytes that a peer has sent are taken although the other side has stopped and select,
\* whose set is never cleared, returns at once for that side.
TunnelRelays ==
  \A t \in Threads, s \in Side : tun[t].in[s] # <<>> ~> tun[t].in[s] = <<>> \/ ~up

\* When both peers have stopped sending the tunnel ends.
TunnelEnds ==
  \A t \in Threads : tun[t].shut = Side ~> pc[t] \notin InTunnel \/ ~up

\* Whatever servers do, a thread that waits for the cache gets it, unless the process
\* ends: head-of-line blocking, the concurrency test of proxylab/driver.sh.
WaitersServed ==
  \A t \in Threads : pc[t] \in {"lock", "putlock"} ~> pc[t] \notin {"lock", "putlock"} \/ ~up

\* What comes from the cache is "a cached copy" (proxylab/driver.sh 381, which compares
\* the two at 387): it is equal, byte for byte, to what was sent when it was fetched.
HitIsExact ==
  \A t \in Threads : pc[t] = "hitunlock" => resp[t].out = origin[slot[t]].out
==============================================================================
