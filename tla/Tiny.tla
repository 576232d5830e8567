---------------------------------- MODULE Tiny ----------------------------------
(***************************************************************************)
(* The Tiny web server, proxylab/tiny/tiny.c: one process that serves one  *)
(* connection after the other.  A connection carries the lines of a        *)
(* request one way (module Rio says that lines are read whole however they *)
(* arrive) and the pieces of a response, one for each write, the other.    *)
(* Clients come and go as they like, with or without an error on the       *)
(* connection, and may stay without reading; a file may be removed at any  *)
(* time, a program may run for ever, and the system may refuse a call.     *)
(***************************************************************************)
EXTENDS Integers, Sequences, SequencesExt, FiniteSets

CONSTANTS Clients, Uris,
          Requests,         \* what clients may ask for
          Removed,          \* the uris whose files may be removed
          Kind              \* what stat finds at first for each uri: "file", "refused" (a file that
                            \* stat calls readable and that Open or Mmap refuses: another user's,
                            \* or empty), "unreadable", "program", "unexecutable", or "missing"

VARIABLES files,            \* what stat finds now
          backlog,          \* clients that wait for the server to accept them
          conn,             \* what each client has sent and got
          pc, client,       \* where the server is, and whom it serves
          request,          \* the method and uri it has read
          todo              \* the pieces it still has to write
server == <<files, backlog, conn, pc, client, request, todo>>

ASSUME RequestsAssumption == Requests \subseteq [method : {"GET", "other"}, uri : Uris]

Line(what) == [method |-> what, uri |-> "none"]
NoRequest  == Line("none")
Blank      == Line("blank")     \* the line that ends the headers
Cut        == Line("cut")       \* a line without an end

Broken     == Line("broken")    \* no line: the connection has ended with an error

\* What a client has asked for, its lines that are not read yet, whether it has sent all, has
\* left, what it has got, and whether the server has closed the connection.
NewConn   == [request |-> NoRequest, lines |-> <<>>, blank |-> FALSE, left |-> FALSE,
              got |-> <<>>, closed |-> FALSE]

\* The four writes of clienterror.
Error(code) == <<code, "type", "length", "text">>

------------------------------------------------------------------------------
InitServer == /\ files = Kind
              /\ backlog = <<>>
              /\ conn = [c \in Clients |-> NewConn]
              /\ pc = "accept" /\ client \in Clients
              /\ request = NoRequest /\ todo = <<>>

\* The system closes the sockets of a process that has ended.
Alive == pc \notin {"dead", "failed"}

Connect(c) == /\ Alive /\ conn[c] = NewConn /\ c \notin Range(backlog)
              /\ ~(pc # "accept" /\ client = c)
              /\ backlog' = Append(backlog, c)
              /\ UNCHANGED <<files, conn, pc, client, request, todo>>

Connected(c) == /\ Alive /\ ~conn[c].left
                /\ c \in Range(backlog) \/ (pc # "accept" /\ client = c)

SendRequest(c) == /\ Connected(c) /\ conn[c].request = NoRequest
                  /\ \E r \in Requests :
                       conn' = [conn EXCEPT ![c].request = r, ![c].lines = Append(@, r)]
                  /\ UNCHANGED <<files, backlog, pc, client, request, todo>>

\* The blank line that ends the headers. (A header before it changes nothing but the time.)
SendBlank(c) == /\ Connected(c) /\ conn[c].request # NoRequest /\ ~conn[c].blank
                /\ conn' = [conn EXCEPT ![c].blank = TRUE, ![c].lines = Append(@, Blank)]
                /\ UNCHANGED <<files, backlog, pc, client, request, todo>>

\* The client closes its socket, perhaps in the middle of a line; or its connection ends with
\* an error, a reset or that of a client which cannot be reached, in place of what the server
\* has not read. (If the server reads that before the error, the error comes after it has.)
Leave(c) ==
  /\ Connected(c)
  /\ \E lines \in {conn[c].lines, <<Broken>>}
                  \union (IF conn[c].blank THEN {} ELSE {Append(conn[c].lines, Cut)}) :
       conn' = [conn EXCEPT ![c].left = TRUE, ![c].lines = lines]
  /\ UNCHANGED <<files, backlog, pc, client, request, todo>>

RemoveFile(u) == /\ Alive /\ u \in Removed /\ files[u] # "missing"
                 /\ files' = [files EXCEPT ![u] = "missing"]
                 /\ UNCHANGED <<backlog, conn, pc, client, request, todo>>

------------------------------------------------------------------------------
\* A call that the system refuses ends the process, whoever is to blame for it: accept and
\* getnameinfo, fork, open and mmap.
Refused == pc' = "failed"

Accept == /\ pc = "accept" /\ backlog # <<>>
          /\ client' = Head(backlog) /\ backlog' = Tail(backlog)
          /\ pc' = "request" \/ Refused
          /\ UNCHANGED <<files, conn, request, todo>>

\* Rio_readlineb, which ends the process if the connection has ended with an error.
AtEnd == conn[client].lines = <<>> /\ conn[client].left
Unread == conn[client].lines # <<>>
Reset == Unread /\ Head(conn[client].lines) = Broken
ReadError == Reset /\ pc' = "dead"
ReadLine == Unread /\ ~Reset /\ conn' = [conn EXCEPT ![client].lines = Tail(@)]

\* Of a line that is cut off, or empty, sscanf leaves what it does not find as it was.
Scanned(line) == IF line \in Requests THEN {line} ELSE Requests

Answer(pieces) == pc' = "write" /\ todo' = pieces

\* doit: the request line. The headers of a request with another method are not read.
ReadRequest ==
  /\ pc = "request"
  /\ \/ /\ (AtEnd /\ pc' = "close") \/ ReadError
        /\ UNCHANGED <<conn, request, todo>>
     \/ /\ ReadLine
        /\ \E r \in Scanned(Head(conn[client].lines)) :
             /\ request' = r
             /\ IF r.method = "GET" THEN pc' = "headers" /\ UNCHANGED todo
                                    ELSE Answer(Error("501"))
  /\ UNCHANGED <<files, backlog, client>>

\* Mutant: the blank line is compared without its carriage return.
ReadHeader_NoReturn == /\ pc = "headers"
                       /\ \/ ReadLine /\ UNCHANGED pc
                          \/ ((AtEnd /\ UNCHANGED pc) \/ ReadError) /\ UNCHANGED conn
                       /\ UNCHANGED <<files, backlog, client, request, todo>>

\* read_requesthdrs: at the end of the input it reads, and compares the same line, for ever.
ReadHeader == /\ pc = "headers"
              /\ \/ /\ ReadLine
                    /\ pc' = IF Head(conn[client].lines) = Blank THEN "stat" ELSE pc
                 \/ /\ (AtEnd /\ UNCHANGED pc) \/ ReadError
                    /\ UNCHANGED conn
              /\ UNCHANGED <<files, backlog, client, request, todo>>

\* Mutant: doit goes on after the error.
Stat_GoesOn == /\ pc = "stat"
               /\ LET kind == files[request.uri]
                  IN  Answer(IF kind = "missing" THEN Error("404") \o <<"200">> ELSE <<"200", kind>>)
               /\ UNCHANGED <<files, backlog, conn, client, request>>

\* Mutant: doit does not look whether the owner may read the file.
Stat_Unchecked == /\ pc = "stat"
                  /\ LET kind == files[request.uri]
                     IN  CASE kind = "missing" -> Answer(Error("404"))
                           [] kind = "unexecutable" -> Answer(Error("403"))
                           [] kind = "program" -> Answer(<<"200", "server", "run">>)
                           [] kind \in {"file", "refused", "unreadable"} -> Answer(<<"200", "open", kind>>)
                  /\ UNCHANGED <<files, backlog, conn, client, request>>

\* doit, after the headers: stat decides the answer.
Stat == /\ pc = "stat"
        /\ LET kind == files[request.uri]
           IN  CASE kind = "missing" -> Answer(Error("404"))
                 [] kind \in {"unreadable", "unexecutable"} -> Answer(Error("403"))
                 [] kind = "program" -> Answer(<<"200", "server", "run">>)
                 [] kind \in {"file", "refused"} -> Answer(<<"200", "open", kind>>)
        /\ UNCHANGED <<files, backlog, conn, client, request>>

\* Rio_writen. To a client that has left, the first write may be lost and the next ones end
\* the process, by an error or by SIGPIPE, which is not caught. A client that stays may read
\* nothing any more; then the write has no room at some time, and waits for ever.
Write ==
  /\ pc = "write" /\ todo # <<>> /\ Head(todo) \notin {"open", "run", "wait"}
  /\ \/ /\ conn' = IF conn[client].left THEN conn
                   ELSE [conn EXCEPT ![client].got = Append(@, Head(todo))]
        /\ todo' = Tail(todo) /\ UNCHANGED pc
     \/ /\ pc' = IF conn[client].left THEN "dead" ELSE "blocked"
        /\ UNCHANGED <<conn, todo>>
  /\ UNCHANGED <<files, backlog, client, request>>

\* Or until that client leaves.
EndWait == /\ pc = "blocked" /\ todo # <<"wait">> /\ conn[client].left
           /\ pc' = "dead"
           /\ UNCHANGED <<files, backlog, conn, client, request, todo>>

\* serve_static: Open and Mmap end the process when they fail.
OpenFile == /\ pc = "write" /\ todo # <<>> /\ Head(todo) = "open"
            /\ \/ /\ files[request.uri] \notin {"missing", "refused", "unreadable"}
                  /\ todo' = Tail(todo) /\ UNCHANGED pc
               \/ /\ files[request.uri] \in {"missing", "refused", "unreadable"}
                  /\ pc' = "dead" /\ UNCHANGED todo
               \/ Refused /\ UNCHANGED todo
            /\ UNCHANGED <<files, backlog, conn, client, request>>

\* serve_dynamic: the child writes the rest of the response; Wait returns when it has ended.
\* A program that is gone by now only ends the child.
RunProgram ==
  /\ pc = "write" /\ todo # <<>> /\ Head(todo) = "run"
  /\ \/ /\ todo' = IF files[request.uri] = "program" THEN <<"wait">> ELSE <<>>
        /\ UNCHANGED pc
     \/ Refused /\ UNCHANGED todo
  /\ UNCHANGED <<files, backlog, conn, client, request>>

\* The program ends, or it never does (it loops, or writes to a client that reads nothing).
ChildWrites == /\ pc = "write" /\ todo = <<"wait">>
               /\ \/ /\ todo' = <<>> /\ UNCHANGED pc
                     /\ conn' = IF conn[client].left THEN conn
                                ELSE [conn EXCEPT ![client].got = Append(@, "output")]
                  \/ pc' = "blocked" /\ UNCHANGED <<conn, todo>>
               /\ UNCHANGED <<files, backlog, client, request>>

Close == /\ pc = "close" \/ (pc = "write" /\ todo = <<>>)
         /\ pc' = "accept" /\ request' = NoRequest
         /\ conn' = [conn EXCEPT ![client].closed = TRUE, ![client].lines = <<>>]
         /\ UNCHANGED <<files, backlog, client, todo>>
Serve == Accept \/ ReadRequest \/ ReadHeader \/ Stat \/ Write \/ EndWait \/ OpenFile
           \/ RunProgram \/ ChildWrites \/ Close

Send(c) == SendRequest(c) \/ SendBlank(c)

ServerNext == \/ Serve
              \/ \E c \in Clients : Connect(c) \/ Send(c) \/ Leave(c)
              \/ \E u \in Uris : RemoveFile(u)

\* The server runs, and a client that has connected sends its whole request, or leaves before.
Fairness == /\ WF_server(Serve)
            /\ \A c \in Clients : WF_server(Send(c) \/ (~conn[c].blank /\ Leave(c)))

ServerSpec == InitServer /\ [][ServerNext]_server /\ Fairness

------------------------------------------------------------------------------
Spinning == pc = "headers" /\ AtEnd

\* The pieces of a response, by what stat finds.
Response(r, kind) ==
  CASE r.method # "GET" -> Error("501")
    [] r.method = "GET" /\ kind = "missing" -> Error("404")
    [] r.method = "GET" /\ kind \in {"unreadable", "unexecutable"} -> Error("403")
    [] r.method = "GET" /\ kind = "program" -> <<"200", "server", "output">>
    [] r.method = "GET" /\ kind \in {"file", "refused"} -> <<"200", kind>>

\* A client has got nothing but a first part of the response to its own request, and the
\* whole of it when the server has closed a connection that the client has kept; only a
\* program that is removed between stat and Execve leaves its response without an end.
ResponsesExact ==
  \A c \in Clients :
    LET r     == conn[c].request
        whole == {Response(r, kind) : kind \in {Kind[r.uri], "missing"}}
    IN  /\ conn[c].got # <<>> =>
             \/ \E w \in whole : IsPrefix(conn[c].got, w)
             \/ conn[c].left
        /\ conn[c].closed /\ ~conn[c].left =>
             \/ conn[c].got \in whole
             \/ Kind[r.uri] = "program" /\ files[r.uri] = "missing" /\ Len(conn[c].got) = 2

\* As long as the system refuses no call, the server ends, or reads for ever, only if the
\* client it serves has left, by closing or by an error, or for a file that cannot be opened
\* and mapped although stat called it readable, or that has gone since.
StopsOnlyFor ==
  pc = "dead" \/ Spinning =>
    conn[client].left \/ files[request.uri] \in {"missing", "refused"}

\* A client that has sent its whole request, and waits, is served and its connection closed,
\* if those that come before it send theirs or leave; or else the server has ended or is held
\* for ever by another: it reads at the end of a request that is cut off, or waits for a client
\* that reads nothing or a program that does not end.
ClientsServed ==
  \A c \in Clients :
    conn[c].blank ~> (conn[c].closed \/ conn[c].left \/ Spinning
                        \/ pc \in {"dead", "failed", "blocked"})

==================================================================================
