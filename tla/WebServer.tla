----------------------------- MODULE WebServer -----------------------------
(***************************************************************************)
(* The web plugin (src/muxMedia/src/web).  One thread selects, accepts one *)
(* client, gives every connection an event and then lets the state machine *)
(* of each connection handle it.  Connections live in MaxConnections slots *)
(* that move between a free queue and a ready queue.                       *)
(*                                                                         *)
(* Time is counted in waits of select (REQUEST_TIMEOUT/30 seconds), files  *)
(* and socket buffers in units of one header.  A client sends a request    *)
(* only when it has read the answer to the last one.                       *)
(***************************************************************************)
EXTENDS Integers, FiniteSets, Sequences

CONSTANTS
    Slots,          \* the connections allocated by _initQueue
    Requests,       \* the kinds of request clients send
    Plans,          \* what a CGI program may write, chunk by chunk
    KaMax,          \* KeepAliveMax
    KaTimeout,      \* KeepAliveTimeout, in waits of select
    RequestTimeout, \* REQUEST_TIMEOUT, in waits of select
    FileSize,       \* units of a page
    HeaderBuffer,   \* headers that fit into the buffer of a connection
    Room,           \* units that fit into the buffer of a socket
    ErrorCount,     \* units WEB_CLIENT_S_ERROR is counted for by a writer
    MaxClients,     \* bound on the clients that connect
    Resets,         \* whether clients may reset their connection
    ForkFails       \* whether fork may fail

\* What a request asks for: a page, a page with "Connection: close", a file that
\* does not exist, a file of no bytes, a CGI program, a POST whose body comes
\* with its header or later, a header cut within a line.
RequestKind == {"page", "last", "missing", "empty", "cgi", "post", "late", "cut"}

\* A chunk of CGI output: with the end of a header ("Content-type" or other,
\* "Status:", "Location:"), or without.
Chunk == {"head", "status", "location", "part"}

ASSUME WebAssumption ==
    /\ IsFiniteSet(Slots)
    /\ Requests \subseteq RequestKind
    /\ Plans \subseteq Seq(Chunk)
    /\ {KaMax, KaTimeout, RequestTimeout, FileSize, HeaderBuffer, Room, ErrorCount} \subseteq Nat \ {0}
    /\ MaxClients \in Nat
    /\ {Resets, ForkFails} \subseteq BOOLEAN

VARIABLES
    free, ready,    \* the two queues, as sets
    total,          \* totalConnections
    todo,           \* connections process_requests has still to come to
    conn,           \* conn[s]: the WEB_CLIENT_CONN of slot s
    crashed,        \* the process is gone
    backlog,        \* clients waiting to be accepted
    arrived,        \* clients that have connected
    link,           \* link[s]: what the client did with the connection
    inbuf,          \* inbuf[s]: what the socket has received
    room,           \* room[s]: free units of the socket's send buffer
    script, pipe    \* what the CGI program has still to write, and has written

queueVars == <<free, ready, total>>
socketVars == <<link, inbuf, room, script, pipe>>
clientVars == <<backlog, arrived>>
vars == <<queueVars, todo, conn, crashed, clientVars, socketVars>>

----------------------------------------------------------------------------
\* A connection as new_request hands it out.
Fresh == [status |-> "READ_HEADER", event |-> "NONE", keepalive |-> "INACTIVE",
          kacount |-> KaMax, logline |-> FALSE, age |-> 0, request |-> "none",
          body |-> FALSE, cgi_status |-> "PARSE", buffer |-> 0, left |-> 0,
          heads |-> 0, announced |-> "none"]

Init ==
    /\ free = Slots /\ ready = {} /\ total = 0 /\ todo = {}
    /\ conn = [s \in Slots |-> Fresh]
    /\ crashed = FALSE /\ backlog = 0 /\ arrived = 0
    /\ link = [s \in Slots |-> "closed"]
    /\ inbuf = [s \in Slots |-> "none"]
    /\ room = [s \in Slots |-> Room]
    /\ script = [s \in Slots |-> << >>]
    /\ pipe = [s \in Slots |-> << >>]

Least(m, n) == IF m < n THEN m ELSE n

\* Nothing of the next request has been read.
Waiting(c) == c.status = "READ_HEADER" /\ ~c.logline

Readable(s) == inbuf[s] # "none" \/ link[s] \in {"fin", "reset"}
Writable(s) == room[s] > 0 \/ link[s] = "reset"

\* select reports the socket: for reading while a request is awaited, else for writing.
Polled(s) == IF conn[s].status = "READ_HEADER" THEN Readable(s) ELSE Writable(s)

----------------------------------------------------------------------------
(* The loop of the server thread                                           *)

Become(s, c) == conn' = [conn EXCEPT ![s] = [c EXCEPT !.age = 0]]

\* Mutant of Close: the connection is still counted.
MutClose(s) ==
    /\ ready' = ready \ {s} /\ free' = free \cup {s} /\ total' = total
    /\ conn' = [conn EXCEPT ![s] = Fresh]
    /\ link' = [link EXCEPT ![s] = "closed"] /\ inbuf' = [inbuf EXCEPT ![s] = "none"]
    /\ room' = [room EXCEPT ![s] = Room]
    /\ script' = [script EXCEPT ![s] = << >>] /\ pipe' = [pipe EXCEPT ![s] = << >>]
    /\ UNCHANGED crashed

\* The socket is closed and the connection goes back to the free queue.
Close(s) ==
    /\ ready' = ready \ {s}
    /\ free' = free \cup {s}
    /\ total' = total - 1
    /\ conn' = [conn EXCEPT ![s] = Fresh]
    /\ link' = [link EXCEPT ![s] = "closed"]
    /\ inbuf' = [inbuf EXCEPT ![s] = "none"]
    /\ room' = [room EXCEPT ![s] = Room]
    /\ script' = [script EXCEPT ![s] = << >>]
    /\ pipe' = [pipe EXCEPT ![s] = << >>]
    /\ UNCHANGED crashed

Incoming == total <= Cardinality(Slots) /\ backlog > 0

\* A client is accepted, or its socket closed again because no connection is free.
NewConnection ==
    /\ Incoming
    /\ backlog' = backlog - 1
    /\ \/ /\ free = {}
          /\ UNCHANGED <<queueVars, link>>
       \/ \E s \in free :
            /\ free' = free \ {s}
            /\ ready' = ready \cup {s}
            /\ total' = total + 1
            /\ link' = [link EXCEPT ![s] = "open"]

\* Mutant of CheckState: the keep-alive time also runs before the first request.
MutCheckState(s, age) ==
    IF Polled(s) THEN "READY"
    ELSE IF age >= KaTimeout /\ ~conn[s].logline THEN "TIMEOUT" ELSE conn[s].event

\* The event of a connection after a wait; it keeps the last one if nothing applies.
CheckState(s, age) ==
    LET c == conn[s] IN
    IF Polled(s) THEN "READY"
    ELSE IF c.kacount < KaMax /\ age >= KaTimeout /\ ~c.logline THEN "TIMEOUT"
    ELSE IF age > RequestTimeout THEN "TIMEOUT"
    ELSE c.event

\* One turn of svrWebMainLoop up to process_requests.
Loop ==
    /\ ~crashed /\ todo = {}
    /\ \/ NewConnection
       \/ ~Incoming /\ UNCHANGED <<queueVars, backlog, link>>
    /\ \E tick \in 0..1 :
         /\ Incoming \/ (\E s \in ready : Polled(s)) \/ tick = 1
         /\ conn' = [s \in Slots |->
                        IF s \in ready
                        THEN [conn[s] EXCEPT !.event = CheckState(s, conn[s].age + tick),
                                             !.age = conn[s].age + tick]
                        ELSE conn[s]]
    /\ todo' = ready'
    /\ UNCHANGED <<crashed, arrived, inbuf, room, script, pipe>>

----------------------------------------------------------------------------
(* The handlers of the state machine                                       *)

Crash == crashed' = TRUE /\ UNCHANGED <<queueVars, conn, socketVars>>

\* The program is started with its output in a pipe; a failed fork returns 0, which is CONTINUE.
NewProcess(s, c) ==
    \/ \E plan \in Plans :
         /\ Become(s, [c EXCEPT !.status = "CGI_READ", !.cgi_status = "PARSE"])
         /\ script' = [script EXCEPT ![s] = plan]
    \/ ForkFails /\ Become(s, c) /\ UNCHANGED script

CgiCreate(s, c) == NewProcess(s, [c EXCEPT !.keepalive = "STOPPED"])

\* The parsed request; HTTP/1.1 keeps the connection unless the client says "close".
Parsed(c, r) ==
    [c EXCEPT !.logline = TRUE, !.request = r, !.body = (r = "post"), !.heads = 0,
              !.announced = "none",
              !.keepalive = IF r = "last" THEN "STOPPED" ELSE "ACTIVE",
              !.status = IF r \in {"post", "late"} THEN "BODY_READ" ELSE "HTTP_WRITE"]

ReadHeader(s) ==
    LET c == conn[s]  r == inbuf[s] IN
    /\ c.status = "READ_HEADER"
    /\ \/ r = "none" /\ Close(s)
       \/ /\ r # "none"
          /\ \/ r = "cut" /\ Become(s, [c EXCEPT !.status = "ERROR"]) /\ UNCHANGED script
             \/ r = "cgi" /\ CgiCreate(s, [Parsed(c, r) EXCEPT !.status = c.status])
             \/ r \notin {"cut", "cgi"} /\ Become(s, Parsed(c, r)) /\ UNCHANGED script
          /\ inbuf' = [inbuf EXCEPT ![s] = "none"]
          /\ UNCHANGED <<queueVars, crashed, link, room, pipe>>

ReadPost(s) ==
    LET c == conn[s] IN
    /\ c.status = "BODY_READ"
    /\ \/ ~c.body /\ inbuf[s] = "none" /\ Close(s)
       \/ /\ c.body \/ inbuf[s] # "none"
          /\ Become(s, [c EXCEPT !.status = "BODY_WRITE", !.body = TRUE])
          /\ inbuf' = [inbuf EXCEPT ![s] = "none"]
          /\ UNCHANGED <<queueVars, crashed, link, room, script, pipe>>

WritePost(s) ==
    /\ conn[s].status = "BODY_WRITE"
    /\ CgiCreate(s, conn[s])
    /\ UNCHANGED <<queueVars, crashed, link, inbuf, room, pipe>>

\* freeOneRequest: the connection is made ready for the next request, or left as
\* it is for the next event to close it.
FreeRequest(c) ==
    IF c.keepalive = "ACTIVE" /\ c.kacount > 0
    THEN [Fresh EXCEPT !.kacount = c.kacount - 1, !.announced = c.announced, !.heads = c.heads]
    ELSE [c EXCEPT !.status = "READ_HEADER", !.logline = FALSE]

\* What is left of n units when a failed write is taken for ErrorCount written ones;
\* -1 is beyond the end, where it stays.
Counted(n) == IF n > ErrorCount THEN n - ErrorCount ELSE IF n = ErrorCount THEN 0 ELSE -1

\* print_http_headers
Announced(c) == IF c.keepalive = "ACTIVE" /\ c.kacount > 0 THEN "keep" ELSE "close"

\* The page is prepared again at every call: a new header goes into the buffer (the
\* second one says 206), a range that is beyond its end starts again with the file.
WritePage(s) ==
    LET c == conn[s]
        want == IF c.left > 0 THEN c.left ELSE FileSize
        full == c.buffer = HeaderBuffer
        queued == IF full THEN c.buffer ELSE c.buffer + 1
        head == Least(queued, room[s])
        data == Least(want, room[s] - head)
        d == [c EXCEPT !.announced = Announced(c)]
        sent == [d EXCEPT !.buffer = queued - head, !.left = want - data,
                          !.heads = Least(2, c.heads + head)]
        lost == [d EXCEPT !.buffer = queued, !.left = Counted(want)]
    IN
    \/ link[s] # "reset" /\ full /\ Crash
    \/ /\ link[s] # "reset" /\ ~full
       /\ Become(s, IF data = want THEN FreeRequest(sent) ELSE sent)
       /\ room' = [room EXCEPT ![s] = @ - head - data]
       /\ UNCHANGED <<queueVars, crashed, link, inbuf, script, pipe>>
    \/ link[s] = "reset" /\ full /\ want # ErrorCount /\ Close(s)
    \/ /\ link[s] = "reset" /\ (full => want = ErrorCount)
       /\ Become(s, IF want = ErrorCount THEN [lost EXCEPT !.status = "READ_HEADER"] ELSE lost)
       /\ UNCHANGED <<queueVars, crashed, socketVars>>

WriteHtml(s) ==
    LET c == conn[s] IN
    /\ c.status = "HTTP_WRITE"
    /\ \/ /\ c.request = "missing"
          /\ Become(s, [c EXCEPT !.status = "ERROR"])
          /\ UNCHANGED <<queueVars, crashed, socketVars>>
       \/ c.request = "empty" /\ Crash
       \/ c.request \notin {"missing", "empty"} /\ WritePage(s)

\* Everything that is in the pipe is read at once; the end of the output reads like
\* an empty pipe.  A complete header ends the parsing: "Location:" leads to the error
\* page, "Status:" is sent as it is, any other follows a header of the server.
ReadPipe(s) ==
    LET c == conn[s]
        headed == c.cgi_status = "PARSE" /\ \E i \in DOMAIN pipe[s] : pipe[s][i] # "part"
        first == Head(pipe[s])
        out == Least(1, room[s])
    IN
    /\ c.status = "CGI_READ"
    /\ pipe' = [pipe EXCEPT ![s] = << >>]
    /\ \/ pipe[s] = << >> /\ Become(s, c) /\ UNCHANGED room
       \/ /\ pipe[s] # << >> /\ ~headed
          /\ Become(s, [c EXCEPT !.status = "CGI_WRITE", !.left = 1])
          /\ UNCHANGED room
       \/ /\ pipe[s] # << >> /\ headed /\ first = "location"
          /\ Become(s, [c EXCEPT !.status = "ERROR", !.cgi_status = "DONE"])
          /\ UNCHANGED room
       \/ /\ pipe[s] # << >> /\ headed /\ first = "status"
          /\ Become(s, [c EXCEPT !.status = "CGI_WRITE", !.cgi_status = "DONE", !.left = 1])
          /\ UNCHANGED room
       \/ /\ pipe[s] # << >> /\ headed /\ first \notin {"location", "status"}
          /\ Become(s, [c EXCEPT !.status = "CGI_WRITE", !.cgi_status = "DONE", !.left = 0,
                                 !.announced = Announced(c)])
          /\ room' = [room EXCEPT ![s] = @ - out]
    /\ UNCHANGED <<queueVars, crashed, link, inbuf, script>>

\* Mutant of Sendout: after the header the pipe is read again.
MutSendout(s) ==
    /\ conn[s].status = "CGI_WRITE"
    /\ Become(s, [conn[s] EXCEPT !.left = 0, !.status = "CGI_READ"])
    /\ UNCHANGED <<queueVars, crashed, socketVars>>

Sendout(s) ==
    LET c == conn[s]
        out == IF link[s] = "reset" \/ c.left = 0 THEN 0 ELSE Least(1, room[s])
        left == IF link[s] = "reset" /\ c.left # 0 THEN Counted(c.left) ELSE c.left - out
    IN
    /\ c.status = "CGI_WRITE"
    /\ \/ c.left = 0 /\ c.cgi_status = "DONE" /\ Close(s)
       \/ /\ c.left # 0 \/ c.cgi_status # "DONE"
          /\ Become(s, [c EXCEPT !.left = left,
                                 !.status = IF left = 0 THEN "CGI_READ" ELSE "CGI_WRITE"])
          /\ room' = [room EXCEPT ![s] = @ - out]
          /\ UNCHANGED <<queueVars, crashed, link, inbuf, script, pipe>>

\* The error page goes out as far as the socket takes it, then the connection is closed.
HandlerError(s) == conn[s].status = "ERROR" /\ Close(s)

\* process_requests, for one connection.  (No connection times out but in
\* READ_HEADER: its time starts again with every turn of the loop.)
Handle(s) ==
    /\ ~crashed /\ s \in todo
    /\ todo' = todo \ {s}
    /\ \/ /\ conn[s].event = "NONE"
          /\ Become(s, conn[s])
          /\ UNCHANGED <<queueVars, crashed, socketVars>>
       \/ conn[s].event = "TIMEOUT" /\ conn[s].status = "READ_HEADER" /\ Close(s)
       \/ /\ conn[s].event = "READY"
          /\ \/ ReadHeader(s) \/ ReadPost(s) \/ WritePost(s) \/ WriteHtml(s)
             \/ ReadPipe(s) \/ Sendout(s) \/ HandlerError(s)
    /\ UNCHANGED clientVars

----------------------------------------------------------------------------
(* Clients and CGI programs                                                *)

Connect ==
    /\ arrived < MaxClients
    /\ arrived' = arrived + 1
    /\ backlog' = backlog + 1
    /\ UNCHANGED <<queueVars, todo, conn, crashed, socketVars>>

\* A client that has read its last answer and was not told "close" asks again.
Send(s) ==
    /\ link[s] = "open" /\ inbuf[s] = "none"
    /\ Waiting(conn[s]) /\ conn[s].announced # "close"
    /\ \E r \in Requests : inbuf' = [inbuf EXCEPT ![s] = r]
    /\ room' = [room EXCEPT ![s] = Room]
    /\ UNCHANGED <<queueVars, todo, conn, crashed, clientVars, link, script, pipe>>

SendBody(s) ==
    /\ link[s] = "open"
    /\ \/ inbuf[s] = "late" /\ inbuf' = [inbuf EXCEPT ![s] = "post"]
       \/ /\ inbuf[s] = "none" /\ conn[s].request = "late" /\ conn[s].status = "BODY_READ"
          /\ inbuf' = [inbuf EXCEPT ![s] = "body"]
    /\ UNCHANGED <<queueVars, todo, conn, crashed, clientVars, link, room, script, pipe>>

Drain(s) ==
    /\ link[s] \in {"open", "fin"} /\ room[s] < Room
    /\ room' = [room EXCEPT ![s] = Room]
    /\ UNCHANGED <<queueVars, todo, conn, crashed, clientVars, link, inbuf, script, pipe>>

Fin(s) ==
    /\ link[s] = "open"
    /\ link' = [link EXCEPT ![s] = "fin"]
    /\ UNCHANGED <<queueVars, todo, conn, crashed, clientVars, inbuf, room, script, pipe>>

Reset(s) ==
    /\ Resets /\ link[s] \in {"open", "fin"}
    /\ link' = [link EXCEPT ![s] = "reset"]
    /\ inbuf' = [inbuf EXCEPT ![s] = "none"]
    /\ UNCHANGED <<queueVars, todo, conn, crashed, clientVars, room, script, pipe>>

CgiWrites(s) ==
    /\ script[s] # << >>
    /\ pipe' = [pipe EXCEPT ![s] = Append(@, Head(script[s]))]
    /\ script' = [script EXCEPT ![s] = Tail(@)]
    /\ UNCHANGED <<queueVars, todo, conn, crashed, clientVars, link, inbuf, room>>

Next ==
    \/ Loop \/ Connect
    \/ \E s \in Slots :
         Handle(s) \/ Send(s) \/ SendBody(s) \/ Drain(s) \/ Fin(s) \/ Reset(s) \/ CgiWrites(s)

Spec == Init /\ [][Next]_vars

\* The thread of the plugin runs; clients read and programs write what they have to; a
\* process can be started in the end.
FairSpec ==
    /\ Spec
    /\ WF_vars(Loop)
    /\ \A s \in Slots :
         /\ WF_vars(Handle(s)) /\ WF_vars(Drain(s)) /\ WF_vars(CgiWrites(s))
         /\ SF_vars(Handle(s) /\ conn'[s].status = "CGI_READ")

----------------------------------------------------------------------------
Status == {"READ_HEADER", "HTTP_WRITE", "BODY_READ", "BODY_WRITE", "CGI_READ", "CGI_WRITE", "ERROR"}

Conn == [status : Status, event : {"NONE", "READY", "TIMEOUT"},
         keepalive : {"INACTIVE", "STOPPED", "ACTIVE"}, kacount : 0..KaMax,
         logline : BOOLEAN, age : Nat, request : RequestKind \cup {"none"}, body : BOOLEAN,
         cgi_status : {"PARSE", "DONE"}, buffer : 0..HeaderBuffer, left : Int,
         heads : 0..2, announced : {"none", "keep", "close"}]

\* Every variable keeps to its range; the count of requests a connection may still
\* serve is not reduced below 0.
TypeOK ==
    /\ free \subseteq Slots /\ ready \subseteq Slots /\ total \in Int /\ todo \subseteq ready
    /\ conn \in [Slots -> Conn] /\ crashed \in BOOLEAN
    /\ backlog \in Int /\ arrived \in Nat
    /\ link \in [Slots -> {"closed", "open", "fin", "reset"}]
    /\ inbuf \in [Slots -> RequestKind \cup {"none", "body"}]
    /\ room \in [Slots -> 0..Room]
    /\ script \in [Slots -> Seq(Chunk)] /\ pipe \in [Slots -> Seq(Chunk)]

\* Every connection is in exactly one queue, and totalConnections, which decides
\* whether the server listens, counts the ready ones.
SlotsAccounted ==
    /\ free \cup ready = Slots /\ free \cap ready = {}
    /\ total = Cardinality(ready)

\* Between two requests, a connection that was announced to be kept has no event that
\* would make the server read from a client that sent nothing, and a connection that
\* was announced to be closed has one.
AnnouncementIsKept ==
    \A s \in ready : Waiting(conn[s]) =>
        LET c == conn[s] IN
        /\ c.announced = "close" => c.event # "NONE"
        /\ c.announced = "keep" =>
             \/ c.event = "NONE"
             \/ s \in todo /\ c.event = "READY" /\ Readable(s)
             \/ s \in todo /\ c.event = "TIMEOUT" /\ c.kacount < KaMax /\ c.age >= KaTimeout

Closes(s) == s \in ready /\ s \notin ready'

\* The server never closes a connection before its first request, or one it announced
\* to keep, unless the client has closed it or the keep-alive time has passed.
KeptConnectionWaits ==
    [][\A s \in Slots :
         Closes(s) /\ Waiting(conn[s]) /\ conn[s].announced # "close" =>
            \/ link[s] # "open"
            \/ conn[s].kacount < KaMax /\ conn[s].age >= KaTimeout]_vars

\* What the code leaves without an end: a request whose CGI program could not be
\* started, and the output of one that wrote "Status:".
LeftOpen(c) ==
    \/ c.request = "cgi" /\ c.status = "READ_HEADER"
    \/ c.cgi_status = "DONE" /\ c.status = "CGI_READ" /\ c.announced = "none"

\* A request is followed by the end of its connection (by the server, or because the
\* client reset it), or by an answer that promised to keep the connection, after which
\* the server waits for the next request; unless it is left open or the process ends.
RequestIsEnded ==
    \A s \in Slots :
        inbuf[s] \in RequestKind ~>
            \/ link[s] \in {"closed", "reset"} \/ LeftOpen(conn[s]) \/ crashed
            \/ inbuf[s] = "none" /\ Waiting(conn[s]) /\ conn[s].announced = "keep"
=============================================================================
