-------------------------- MODULE WebServer_proofs --------------------------
(***************************************************************************)
(* The web plugin loses no connection and keeps what it announces, for any *)
(* number of slots and clients and for all limits, buffers and page sizes. *)
(***************************************************************************)
EXTENDS WebServer, FiniteSetTheorems, TLAPS

\* A free connection is as new_request will hand it out.
FreeIsFresh == \A s \in free : conn[s] = Fresh /\ link[s] = "closed" /\ inbuf[s] = "none"

\* Between "a request was read" and freeOneRequest its line is kept, and the body of a
\* POST is on the socket only while it is read.
RequestRead(c, in) ==
    /\ c.status \notin {"READ_HEADER", "ERROR"} => c.logline
    /\ in = "body" => c.status = "BODY_READ"

\* The time of a connection starts again with every turn of the loop.
Served == crashed \/ \A s \in ready \ todo : conn[s].age = 0

\* A connection that is not to be closed has no event but one its client or the
\* keep-alive time has caused in this turn of the loop; ...
Awaits(s) ==
    \/ conn[s].event = "NONE"
    \/ s \in todo /\ conn[s].event = "READY" /\ Readable(s)
    \/ s \in todo /\ conn[s].event = "TIMEOUT" /\ conn[s].kacount < KaMax /\ conn[s].age >= KaTimeout

\* ... one that is to be closed has an event.
Announcements ==
    \A s \in ready : Waiting(conn[s]) =>
        IF conn[s].announced = "close" THEN conn[s].event # "NONE" ELSE Awaits(s)

IInv ==
    /\ TypeOK /\ SlotsAccounted /\ FreeIsFresh /\ Served /\ Announcements
    /\ \A s \in Slots : RequestRead(conn[s], inbuf[s])

\* What a handler may make of a connection.
Handled(c, in) ==
    /\ RequestRead(c, in)
    /\ Waiting(c) => (c.announced = "close" <=> c.event # "NONE")

\* A handler that does not close the connection.
Moves(s) ==
    /\ UNCHANGED <<queueVars, crashed, link>>
    /\ \E c \in Conn : Become(s, c) /\ Handled(c, inbuf'[s])
    /\ inbuf' \in {inbuf, [inbuf EXCEPT ![s] = "none"]}
    /\ room' \in [Slots -> 0..Room]
    /\ script' \in [Slots -> Seq(Chunk)] /\ pipe' \in [Slots -> Seq(Chunk)]

----------------------------------------------------------------------------
(* Data                                                                    *)

LEMMA Limits ==
    /\ KaMax \in Nat \ {0} /\ KaTimeout \in Nat \ {0} /\ RequestTimeout \in Nat \ {0}
    /\ FileSize \in Nat \ {0} /\ HeaderBuffer \in Nat \ {0} /\ Room \in Nat \ {0}
    /\ ErrorCount \in Nat \ {0}
BY WebAssumption

LEMMA FreshType == Fresh \in Conn /\ Fresh.status = "READ_HEADER" /\ Fresh.event = "NONE"
BY WebAssumption DEF Fresh, Conn, Status

LEMMA ParsedType ==
    ASSUME NEW c \in Conn, NEW r \in RequestKind
    PROVE  Parsed(c, r) \in Conn
  <1> DEFINE body == r = "post"
             keep == IF r = "last" THEN "STOPPED" ELSE "ACTIVE"
             next == IF r \in {"post", "late"} THEN "BODY_READ" ELSE "HTTP_WRITE"
  <1>1. body \in BOOLEAN
    OBVIOUS
  <1>2. keep \in {"INACTIVE", "STOPPED", "ACTIVE"} /\ next \in Status
    BY DEF Status
  <1>3. PICK none \in 0..2 : none = 0
    OBVIOUS
  <1>4. Parsed(c, r) = [c EXCEPT !.logline = TRUE, !.request = r, !.body = body, !.heads = none,
                                 !.announced = "none", !.keepalive = keep, !.status = next]
    BY <1>3 DEF Parsed
  <1> HIDE DEF body, keep, next
  <1> QED
    BY <1>1, <1>2, <1>4 DEF Conn

LEMMA ParsedFields ==
    ASSUME NEW c \in Conn, NEW r
    PROVE  Parsed(c, r).logline /\ Parsed(c, r).status \in {"BODY_READ", "HTTP_WRITE"}
BY DEF Parsed, Conn

LEMMA FreeRequestType ==
    ASSUME NEW c \in Conn
    PROVE  FreeRequest(c) \in Conn
  <1>1. CASE c.keepalive = "ACTIVE" /\ c.kacount > 0
    <2>1. c.kacount - 1 \in 0..KaMax /\ c.announced \in {"none", "keep", "close"} /\ c.heads \in 0..2
      BY <1>1, WebAssumption DEF Conn
    <2>2. FreeRequest(c) = [Fresh EXCEPT !.kacount = c.kacount - 1, !.announced = c.announced, !.heads = c.heads]
      BY <1>1 DEF FreeRequest
    <2> QED
      BY <2>1, <2>2, FreshType DEF Conn
  <1>2. CASE ~(c.keepalive = "ACTIVE" /\ c.kacount > 0)
    BY <1>2 DEF FreeRequest, Conn, Status
  <1> QED
    BY <1>1, <1>2

\* The connection is kept only if that was announced, and then waits without an event.
LEMMA FreeRequestHandled ==
    ASSUME NEW c \in Conn, c.announced = Announced(c), c.event = "READY", NEW in, in # "body"
    PROVE  Handled(FreeRequest(c), in)
BY DEF FreeRequest, Announced, Handled, RequestRead, Waiting, Fresh, Conn

LEMMA WrittenType ==
    ASSUME NEW c \in Conn, NEW a \in {"none", "keep", "close"}, NEW b \in 0..HeaderBuffer,
           NEW n \in Int
    PROVE  /\ [c EXCEPT !.announced = a, !.buffer = b, !.left = n] \in Conn
           /\ \A h \in 0..2 : [c EXCEPT !.announced = a, !.buffer = b, !.left = n, !.heads = h] \in Conn
BY DEF Conn

LEMMA ReadType ==
    ASSUME NEW c \in Conn, NEW st \in Status, NEW cs \in {"PARSE", "DONE"}, NEW n \in Int,
           NEW a \in {"none", "keep", "close"}
    PROVE  /\ [c EXCEPT !.status = st, !.left = n] \in Conn
           /\ [c EXCEPT !.status = st, !.cgi_status = cs] \in Conn
           /\ [c EXCEPT !.status = st, !.cgi_status = cs, !.left = n] \in Conn
           /\ [c EXCEPT !.status = st, !.cgi_status = cs, !.left = n, !.announced = a] \in Conn
BY DEF Conn

LEMMA TurnType ==
    ASSUME NEW c \in Conn, NEW e \in {"NONE", "READY", "TIMEOUT"}, NEW n \in Nat
    PROVE  [c EXCEPT !.event = e, !.age = n] \in Conn
BY DEF Conn

LEMMA CountedType ==
    ASSUME NEW n \in Int
    PROVE  Counted(n) \in Int
BY Limits DEF Counted

LEMMA AgeType ==
    ASSUME NEW c \in Conn, NEW n \in Nat
    PROVE  [c EXCEPT !.age = n] \in Conn
BY DEF Conn

----------------------------------------------------------------------------
LEMMA InitIInv == Init => IInv
  <1> SUFFICES ASSUME Init PROVE IInv
    OBVIOUS
  <1> USE WebAssumption DEF Init
  <1>1. SlotsAccounted
    BY FS_EmptySet DEF SlotsAccounted
  <1>2. TypeOK
    <2>1. room \in [Slots -> 0..Room]
      BY Limits
    <2>2. script \in [Slots -> Seq(Chunk)] /\ pipe \in [Slots -> Seq(Chunk)]
      OBVIOUS
    <2>3. conn \in [Slots -> Conn]
      BY FreshType
    <2>4. /\ link \in [Slots -> {"closed", "open", "fin", "reset"}]
          /\ inbuf \in [Slots -> RequestKind \cup {"none", "body"}]
      OBVIOUS
    <2>5. free \subseteq Slots /\ ready \subseteq Slots /\ total \in Int /\ todo \subseteq ready
      OBVIOUS
    <2>6. crashed \in BOOLEAN
      BY Zenon
    <2>7. backlog \in Int /\ arrived \in Nat
      OBVIOUS
    <2> QED
      BY ONLY <2>1, <2>2, <2>3, <2>4, <2>5, <2>6, <2>7 DEF TypeOK
  <1>3. FreeIsFresh /\ Announcements
    BY DEF FreeIsFresh, Announcements
  <1>4. Served
    BY DEF Served
  <1>5. \A s \in Slots : RequestRead(conn[s], inbuf[s])
    BY DEF RequestRead, Fresh
  <1> QED
    BY <1>1, <1>2, <1>3, <1>4, <1>5 DEF IInv

----------------------------------------------------------------------------
(* The handlers: each closes the connection, moves it, or ends the process. *)

LEMMA NewProcessMoves ==
    ASSUME NEW s \in Slots, NEW c \in Conn, TypeOK, c.logline, NewProcess(s, c)
    PROVE  /\ \E d \in Conn : /\ Become(s, d) /\ d.logline /\ d.status \in {c.status, "CGI_READ"}
           /\ script' \in [Slots -> Seq(Chunk)]
  <1> DEFINE e == [c EXCEPT !.status = "CGI_READ", !.cgi_status = "PARSE"]
  <1>1. e \in Conn /\ e.logline /\ e.status = "CGI_READ"
    BY DEF Conn, Status
  <1>2. CASE \E plan \in Plans : Become(s, e) /\ script' = [script EXCEPT ![s] = plan]
    BY <1>1, <1>2, WebAssumption DEF TypeOK
  <1>3. CASE Become(s, c) /\ UNCHANGED script
    BY <1>3 DEF TypeOK
  <1> QED
    BY <1>2, <1>3 DEF NewProcess

LEMMA CgiCreateMoves ==
    ASSUME NEW s \in Slots, NEW c \in Conn, TypeOK, c.logline, CgiCreate(s, c)
    PROVE  /\ \E d \in Conn : /\ Become(s, d) /\ d.logline /\ d.status \in {c.status, "CGI_READ"}
           /\ script' \in [Slots -> Seq(Chunk)]
  <1> DEFINE d == [c EXCEPT !.keepalive = "STOPPED"]
  <1>1. d \in Conn /\ d.logline /\ d.status = c.status
    BY DEF Conn
  <1>2. NewProcess(s, d)
    BY Zenon DEF CgiCreate
  <1> HIDE DEF d
  <1> QED
    BY <1>1, <1>2, NewProcessMoves

LEMMA ReadHeaderMoves ==
    ASSUME NEW s \in ready, IInv, conn[s].event = "READY", ReadHeader(s)
    PROVE  Close(s) \/ Moves(s)
  <1> DEFINE c == conn[s]
             r == inbuf[s]
  <1>1. s \in Slots /\ c \in Conn /\ c.status = "READ_HEADER"
    BY DEF IInv, TypeOK, ReadHeader
  <1>2. CASE Close(s)
    BY <1>2
  <1>3. CASE ~Close(s)
    <2>1. /\ r # "none" /\ inbuf' = [inbuf EXCEPT ![s] = "none"]
          /\ UNCHANGED <<queueVars, crashed, link, room, pipe>>
      BY <1>3 DEF ReadHeader
    <2>2. r \in RequestKind /\ inbuf'[s] = "none"
      BY <1>1, <2>1 DEF IInv, TypeOK, RequestRead
    <2>3. room' \in [Slots -> 0..Room] /\ pipe' \in [Slots -> Seq(Chunk)]
      BY <2>1 DEF IInv, TypeOK
    <2>4. SUFFICES /\ \E d \in Conn : Become(s, d) /\ Handled(d, "none")
                   /\ script' \in [Slots -> Seq(Chunk)]
      BY <2>1, <2>2, <2>3 DEF Moves
    <2>5. CASE r = "cut" /\ Become(s, [c EXCEPT !.status = "ERROR"]) /\ UNCHANGED script
      <3>1. [c EXCEPT !.status = "ERROR"] \in Conn /\ Handled([c EXCEPT !.status = "ERROR"], "none")
        BY <1>1 DEF Conn, Status, Handled, RequestRead, Waiting
      <3> QED
        BY <2>5, <3>1 DEF IInv, TypeOK
    <2>6. CASE r = "cgi" /\ CgiCreate(s, [Parsed(c, r) EXCEPT !.status = c.status])
      <3> DEFINE d == [Parsed(c, r) EXCEPT !.status = c.status]
      <3>1. d \in Conn /\ d.logline /\ d.status = "READ_HEADER"
        <4>1. Parsed(c, r) \in Conn /\ Parsed(c, r).logline
          BY <1>1, <2>2, ParsedType, ParsedFields
        <4> QED
          BY <1>1, <4>1 DEF Conn, Status
      <3> HIDE DEF d
      <3>2. PICK e \in Conn : Become(s, e) /\ e.logline /\ e.status \in {d.status, "CGI_READ"}
        BY <1>1, <2>6, <3>1, CgiCreateMoves DEF IInv, d
      <3>3. script' \in [Slots -> Seq(Chunk)]
        BY <1>1, <2>6, <3>1, CgiCreateMoves DEF IInv, d
      <3>4. Handled(e, "none")
        BY <3>2 DEF Handled, RequestRead, Waiting
      <3> QED
        BY <3>2, <3>3, <3>4
    <2>7. CASE r \notin {"cut", "cgi"} /\ Become(s, Parsed(c, r)) /\ UNCHANGED script
      <3>1. Parsed(c, r) \in Conn /\ Handled(Parsed(c, r), "none")
        BY <1>1, <2>2, ParsedType, ParsedFields DEF Handled, RequestRead, Waiting
      <3> QED
        BY <2>7, <3>1 DEF IInv, TypeOK
    <2> QED
      BY <1>3, <2>5, <2>6, <2>7 DEF ReadHeader
  <1> QED
    BY <1>2, <1>3

LEMMA PostMoves ==
    ASSUME NEW s \in ready, IInv, conn[s].event = "READY", ReadPost(s) \/ WritePost(s)
    PROVE  Close(s) \/ Moves(s)
  <1> DEFINE c == conn[s]
  <1>1. s \in Slots /\ c \in Conn /\ RequestRead(c, inbuf[s])
    BY DEF IInv, TypeOK
  <1>2. ASSUME ReadPost(s), ~Close(s) PROVE Moves(s)
    <2> DEFINE d == [c EXCEPT !.status = "BODY_WRITE", !.body = TRUE]
    <2>1. /\ Become(s, d) /\ inbuf' = [inbuf EXCEPT ![s] = "none"]
          /\ UNCHANGED <<queueVars, crashed, link, room, script, pipe>>
      BY <1>2 DEF ReadPost
    <2>2. c.logline /\ inbuf'[s] = "none"
      BY <1>1, <1>2, <2>1 DEF ReadPost, RequestRead, IInv, TypeOK
    <2>3. d \in Conn /\ Handled(d, "none")
      BY <1>1, <2>2 DEF Conn, Status, Handled, RequestRead, Waiting
    <2> QED
      BY <2>1, <2>2, <2>3 DEF Moves, IInv, TypeOK
  <1>3. ASSUME WritePost(s) PROVE Moves(s)
    <2>1. c.logline /\ c.status = "BODY_WRITE" /\ inbuf[s] # "body"
      BY <1>1, <1>3 DEF WritePost, RequestRead
    <2>2. CgiCreate(s, c) /\ UNCHANGED <<queueVars, crashed, link, inbuf, room, pipe>>
      BY <1>3 DEF WritePost
    <2>3. PICK e \in Conn : Become(s, e) /\ e.logline /\ e.status \in {"BODY_WRITE", "CGI_READ"}
      BY <1>1, <2>1, <2>2, CgiCreateMoves DEF IInv
    <2>4. script' \in [Slots -> Seq(Chunk)]
      BY <1>1, <2>1, <2>2, CgiCreateMoves DEF IInv
    <2>5. Handled(e, inbuf'[s])
      BY <2>1, <2>2, <2>3 DEF Handled, RequestRead, Waiting
    <2> QED
      BY <2>2, <2>3, <2>4, <2>5 DEF Moves, IInv, TypeOK
  <1> QED
    BY <1>2, <1>3

LEMMA WritePageMoves ==
    ASSUME NEW s \in ready, IInv, conn[s].event = "READY", conn[s].status = "HTTP_WRITE", WritePage(s)
    PROVE  Close(s) \/ Moves(s) \/ Crash
  <1> DEFINE c == conn[s]
             want == IF c.left > 0 THEN c.left ELSE FileSize
             full == c.buffer = HeaderBuffer
             queued == IF full THEN c.buffer ELSE c.buffer + 1
             head == Least(queued, room[s])
             data == Least(want, room[s] - head)
             d == [c EXCEPT !.announced = Announced(c)]
             sent == [d EXCEPT !.buffer = queued - head, !.left = want - data,
                               !.heads = Least(2, c.heads + head)]
             lost == [d EXCEPT !.buffer = queued, !.left = Counted(want)]
             in == inbuf'[s]
  <1>1. s \in Slots /\ c \in Conn /\ c.logline /\ inbuf[s] # "body"
    BY DEF IInv, TypeOK, RequestRead
  <1>2. want \in Nat /\ want > 0 /\ queued \in 0..HeaderBuffer /\ c.heads \in 0..2 /\ room[s] \in 0..Room
    BY <1>1, Limits DEF Conn, IInv, TypeOK
  <1>3. /\ queued - head \in 0..HeaderBuffer /\ want - data \in Int
        /\ Least(2, c.heads + head) \in 0..2
        /\ room[s] - head - data \in 0..Room
    <2> HIDE DEF want, queued
    <2> QED
      BY <1>2, Limits DEF Least
  <1>4. Announced(c) \in {"none", "keep", "close"}
    BY DEF Announced
  <1>5. sent \in Conn /\ lost \in Conn
    <2> HIDE DEF want, queued, head, data
    <2>1. Counted(want) \in Int
      BY <1>2, CountedType
    <2> QED
      BY <1>1, <1>2, <1>3, <1>4, <2>1, WrittenType
  <1>6. /\ sent.announced = Announced(sent) /\ sent.event = "READY" /\ sent.logline
        /\ sent.status = "HTTP_WRITE" /\ lost.logline /\ lost.status = "HTTP_WRITE"
    <2> HIDE DEF want, queued, head, data
    <2> QED
      BY <1>1 DEF Announced, Conn
  <1> HIDE DEF want, queued, head, data, sent, lost
  <1>7. CASE /\ Become(s, IF data = want THEN FreeRequest(sent) ELSE sent)
             /\ room' = [room EXCEPT ![s] = @ - head - data]
             /\ UNCHANGED <<queueVars, crashed, link, inbuf, script, pipe>>
    <2>1. FreeRequest(sent) \in Conn /\ Handled(FreeRequest(sent), in)
      BY <1>1, <1>5, <1>6, <1>7, FreeRequestType, FreeRequestHandled
    <2>2. Handled(sent, in)
      BY <1>1, <1>6, <1>7 DEF Handled, RequestRead, Waiting
    <2>3. room' \in [Slots -> 0..Room]
      BY <1>1, <1>3, <1>7 DEF IInv, TypeOK
    <2> QED
      BY <1>5, <1>7, <2>1, <2>2, <2>3 DEF Moves, IInv, TypeOK
  <1>8. CASE /\ Become(s, IF want = ErrorCount THEN [lost EXCEPT !.status = "READ_HEADER"] ELSE lost)
             /\ UNCHANGED <<queueVars, crashed, socketVars>>
    <2> DEFINE read == [lost EXCEPT !.status = "READ_HEADER"]
    <2>1. read \in Conn /\ read.logline /\ read.status = "READ_HEADER"
      BY <1>5, <1>6 DEF Conn, Status
    <2> HIDE DEF read
    <2>2. Handled(read, in) /\ Handled(lost, in)
      BY <1>1, <1>6, <1>8, <2>1 DEF Handled, RequestRead, Waiting, socketVars
    <2> QED
      BY <1>5, <1>8, <2>1, <2>2 DEF Moves, IInv, TypeOK, socketVars, read
  <1> QED
    BY <1>7, <1>8 DEF WritePage, want, queued, head, data, sent, lost

LEMMA WriteHtmlMoves ==
    ASSUME NEW s \in ready, IInv, conn[s].event = "READY", WriteHtml(s)
    PROVE  Close(s) \/ Moves(s) \/ Crash
  <1> DEFINE c == conn[s]
             d == [c EXCEPT !.status = "ERROR"]
  <1>1. s \in Slots /\ c \in Conn /\ c.logline /\ inbuf[s] # "body" /\ c.status = "HTTP_WRITE"
    BY DEF IInv, TypeOK, RequestRead, WriteHtml
  <1>2. CASE Become(s, d) /\ UNCHANGED <<queueVars, crashed, socketVars>>
    <2>1. d \in Conn /\ Handled(d, inbuf'[s])
      BY <1>1, <1>2 DEF Conn, Status, Handled, RequestRead, Waiting, socketVars
    <2> QED
      BY <1>2, <2>1 DEF Moves, IInv, TypeOK, socketVars
  <1> QED
    BY <1>1, <1>2, WritePageMoves DEF WriteHtml

LEMMA ReadPipeMoves ==
    ASSUME NEW s \in ready, IInv, conn[s].event = "READY", ReadPipe(s)
    PROVE  Moves(s)
  <1> DEFINE c == conn[s]
             out == Least(1, room[s])
             written == [c EXCEPT !.status = "CGI_WRITE", !.left = 1]
             error == [c EXCEPT !.status = "ERROR", !.cgi_status = "DONE"]
             status == [c EXCEPT !.status = "CGI_WRITE", !.cgi_status = "DONE", !.left = 1]
             done == [c EXCEPT !.status = "CGI_WRITE", !.cgi_status = "DONE", !.left = 0,
                               !.announced = Announced(c)]
             Read(d) == d \in Conn /\ d.logline /\ d.status # "READ_HEADER"
  <1>1. s \in Slots /\ c \in Conn /\ c.logline /\ inbuf[s] # "body" /\ c.status = "CGI_READ"
    BY DEF IInv, TypeOK, RequestRead, ReadPipe
  <1>2. Announced(c) \in {"none", "keep", "close"}
    BY DEF Announced
  <1>3. Read(c) /\ Read(written) /\ Read(error) /\ Read(status) /\ Read(done)
    <2>1. "CGI_WRITE" \in Status /\ "ERROR" \in Status /\ 0 \in Int /\ 1 \in Int
      BY DEF Status
    <2>2. written \in Conn /\ error \in Conn /\ status \in Conn /\ done \in Conn
      BY <1>1, <1>2, <2>1, ReadType
    <2>3. /\ written.logline /\ written.status = "CGI_WRITE" /\ error.logline /\ error.status = "ERROR"
          /\ status.logline /\ status.status = "CGI_WRITE" /\ done.logline /\ done.status = "CGI_WRITE"
      BY <1>1 DEF Conn
    <2> QED
      BY <1>1, <2>2, <2>3
  <1>4. /\ UNCHANGED <<queueVars, crashed, link, inbuf, script>>
        /\ pipe' = [pipe EXCEPT ![s] = << >>]
    BY DEF ReadPipe
  <1>5. pipe' \in [Slots -> Seq(Chunk)]
    BY <1>4 DEF IInv, TypeOK
  <1>6. room[s] - out \in 0..Room
    BY <1>1, Limits DEF IInv, TypeOK, Least
  <1> HIDE DEF written, error, status, done, out
  <1>7. \E d \in {c, written, error, status, done} :
            Become(s, d) /\ (UNCHANGED room \/ room' = [room EXCEPT ![s] = @ - out])
    BY DEF ReadPipe, written, error, status, done, out
  <1>8. PICK d \in {c, written, error, status, done} :
            Become(s, d) /\ (UNCHANGED room \/ room' = [room EXCEPT ![s] = @ - out])
    BY <1>7
  <1>9. room' \in [Slots -> 0..Room]
    BY <1>1, <1>6, <1>8 DEF IInv, TypeOK
  <1>10. d \in Conn /\ Handled(d, inbuf'[s])
    <2>1. Read(d)
      BY <1>3, <1>8
    <2> QED
      BY <1>1, <1>4, <2>1 DEF Handled, RequestRead, Waiting
  <1> QED
    BY <1>4, <1>5, <1>8, <1>9, <1>10 DEF Moves, IInv, TypeOK

LEMMA SendoutMoves ==
    ASSUME NEW s \in ready, IInv, conn[s].event = "READY", Sendout(s)
    PROVE  Close(s) \/ Moves(s)
  <1> DEFINE c == conn[s]
             out == IF link[s] = "reset" \/ c.left = 0 THEN 0 ELSE Least(1, room[s])
             left == IF link[s] = "reset" /\ c.left # 0 THEN Counted(c.left) ELSE c.left - out
             next == IF left = 0 THEN "CGI_READ" ELSE "CGI_WRITE"
             d == [c EXCEPT !.left = left, !.status = next]
  <1>1. s \in Slots /\ c \in Conn /\ c.logline /\ inbuf[s] # "body" /\ c.status = "CGI_WRITE"
    BY DEF IInv, TypeOK, RequestRead, Sendout
  <1>2. room[s] - out \in 0..Room /\ out \in Int /\ c.left \in Int
    BY <1>1, Limits DEF IInv, TypeOK, Least, Conn
  <1>3. left \in Int /\ next \in {"CGI_READ", "CGI_WRITE"}
    BY <1>2, CountedType
  <1> HIDE DEF out, left, next
  <1>4. d \in Conn /\ d.logline /\ d.status # "READ_HEADER" /\ d.status # "ERROR"
    BY <1>1, <1>3 DEF Conn, Status
  <1> HIDE DEF d
  <1>5. CASE /\ Become(s, d) /\ room' = [room EXCEPT ![s] = @ - out]
             /\ UNCHANGED <<queueVars, crashed, link, inbuf, script, pipe>>
    <2>1. Handled(d, inbuf'[s])
      BY <1>1, <1>4, <1>5 DEF Handled, RequestRead, Waiting
    <2>2. room' \in [Slots -> 0..Room]
      BY <1>1, <1>2, <1>5 DEF IInv, TypeOK
    <2> QED
      BY <1>4, <1>5, <2>1, <2>2 DEF Moves, IInv, TypeOK
  <1> QED
    BY <1>5 DEF Sendout, d, next, left, out

LEMMA HandlerOutcome ==
    ASSUME NEW s \in ready, IInv, conn[s].event = "READY",
           \/ ReadHeader(s) \/ ReadPost(s) \/ WritePost(s) \/ WriteHtml(s)
           \/ ReadPipe(s) \/ Sendout(s) \/ HandlerError(s)
    PROVE  Close(s) \/ Moves(s) \/ (Crash /\ conn[s].status = "HTTP_WRITE")
BY ReadHeaderMoves, PostMoves, WriteHtmlMoves, ReadPipeMoves, SendoutMoves DEF WriteHtml, HandlerError

----------------------------------------------------------------------------
(* The steps of the thread keep the invariant.                             *)

LEMMA ClosePreserves ==
    ASSUME NEW s \in todo, IInv, Close(s), todo' = todo \ {s}, UNCHANGED clientVars
    PROVE  IInv'
  <1>1. s \in ready /\ s \in Slots
    BY DEF IInv, TypeOK
  <1>2. /\ conn' = [conn EXCEPT ![s] = Fresh] /\ link' = [link EXCEPT ![s] = "closed"]
        /\ inbuf' = [inbuf EXCEPT ![s] = "none"] /\ crashed' = crashed
        /\ ready' = ready \ {s} /\ free' = free \cup {s} /\ total' = total - 1
    BY DEF Close
  <1>3. TypeOK'
    <2>1. conn' \in [Slots -> Conn]
      BY <1>2, FreshType DEF IInv, TypeOK
    <2>2. room' \in [Slots -> 0..Room]
      BY Limits DEF Close, IInv, TypeOK
    <2>3. script' \in [Slots -> Seq(Chunk)] /\ pipe' \in [Slots -> Seq(Chunk)]
      BY DEF Close, IInv, TypeOK
    <2>4. /\ free' \subseteq Slots /\ ready' \subseteq Slots /\ todo' \subseteq ready'
          /\ link' \in [Slots -> {"closed", "open", "fin", "reset"}]
          /\ inbuf' \in [Slots -> RequestKind \cup {"none", "body"}]
      BY <1>1, <1>2 DEF IInv, TypeOK
    <2>5. total' \in Int /\ backlog' \in Int /\ arrived' \in Nat
      BY <1>2 DEF IInv, TypeOK, clientVars
    <2> QED
      BY <1>2, <2>1, <2>2, <2>3, <2>4, <2>5 DEF IInv, TypeOK
  <1>4. SlotsAccounted'
    <2>1. IsFiniteSet(ready)
      BY FS_Subset, WebAssumption DEF IInv, TypeOK
    <2>2. Cardinality(ready') = Cardinality(ready) - 1
      BY <1>1, <1>2, <2>1, FS_RemoveElement
    <2> QED
      BY <1>1, <1>2, <2>2 DEF IInv, SlotsAccounted
  <1>5. \A t \in Slots : t # s => conn'[t] = conn[t] /\ link'[t] = link[t] /\ inbuf'[t] = inbuf[t]
    BY <1>2 DEF IInv, TypeOK
  <1>6. conn'[s] = Fresh /\ link'[s] = "closed" /\ inbuf'[s] = "none"
    BY <1>1, <1>2 DEF IInv, TypeOK
  <1>7. FreeIsFresh'
    BY <1>2, <1>5, <1>6 DEF IInv, TypeOK, FreeIsFresh
  <1>8. Served'
    BY <1>2, <1>5 DEF IInv, TypeOK, Served
  <1>9. Announcements'
    BY <1>2, <1>5 DEF IInv, TypeOK, Announcements, Awaits, Readable
  <1>10. \A t \in Slots : RequestRead(conn'[t], inbuf'[t])
    BY <1>5, <1>6, FreshType DEF IInv, RequestRead
  <1> QED
    BY <1>3, <1>4, <1>7, <1>8, <1>9, <1>10 DEF IInv

LEMMA MovesPreserves ==
    ASSUME NEW s \in todo, IInv, Moves(s), todo' = todo \ {s}, UNCHANGED clientVars
    PROVE  IInv'
  <1>1. s \in ready /\ s \in Slots /\ s \notin free
    BY DEF IInv, TypeOK, SlotsAccounted
  <1>2. PICK c \in Conn : Become(s, c) /\ Handled(c, inbuf'[s])
    BY DEF Moves
  <1> DEFINE d == [c EXCEPT !.age = 0]
  <1>3. /\ d \in Conn /\ d.age = 0 /\ Handled(d, inbuf'[s])
        /\ conn' = [conn EXCEPT ![s] = d] /\ conn'[s] = d
    BY <1>1, <1>2, AgeType DEF Become, Conn, Handled, RequestRead, Waiting, IInv, TypeOK
  <1> HIDE DEF d
  <1>4. UNCHANGED <<queueVars, crashed, link>>
    BY DEF Moves
  <1>5. \A t \in Slots : t # s => conn'[t] = conn[t] /\ inbuf'[t] = inbuf[t]
    BY <1>1, <1>3 DEF Moves, IInv, TypeOK
  <1>6. TypeOK'
    <2>1. conn' \in [Slots -> Conn]
      BY <1>3 DEF IInv, TypeOK
    <2>2. inbuf' \in [Slots -> RequestKind \cup {"none", "body"}]
      BY DEF Moves, IInv, TypeOK
    <2>3. /\ room' \in [Slots -> 0..Room]
          /\ script' \in [Slots -> Seq(Chunk)] /\ pipe' \in [Slots -> Seq(Chunk)]
      BY DEF Moves
    <2>4. todo' \subseteq ready'
      BY <1>4 DEF IInv, TypeOK, queueVars
    <2> QED
      BY <1>4, <2>1, <2>2, <2>3, <2>4 DEF IInv, TypeOK, queueVars, clientVars
  <1>7. SlotsAccounted'
    BY <1>4 DEF IInv, SlotsAccounted, queueVars
  <1>8. FreeIsFresh'
    BY <1>1, <1>4, <1>5 DEF IInv, TypeOK, FreeIsFresh, queueVars
  <1>9. Served'
    BY <1>3, <1>4, <1>5 DEF IInv, TypeOK, Served, queueVars
  <1>10. Announcements'
    <2>1. ASSUME NEW t \in ready, t # s, Waiting(conn'[t])
          PROVE  (IF conn[t].announced = "close" THEN conn[t].event # "NONE" ELSE Awaits(t))'
      BY <1>4, <1>5, <2>1 DEF IInv, TypeOK, Announcements, Awaits, Readable
    <2>2. ASSUME Waiting(conn'[s])
          PROVE  (IF conn[s].announced = "close" THEN conn[s].event # "NONE" ELSE Awaits(s))'
      BY <1>3, <2>2 DEF Handled, Awaits
    <2> QED
      BY <1>4, <2>1, <2>2 DEF Announcements, queueVars
  <1>11. \A t \in Slots : RequestRead(conn'[t], inbuf'[t])
    BY <1>3, <1>5 DEF IInv, Handled
  <1> QED
    BY <1>6, <1>7, <1>8, <1>9, <1>10, <1>11 DEF IInv

LEMMA CrashPreserves ==
    ASSUME NEW s \in todo, IInv, Crash, conn[s].status = "HTTP_WRITE", todo' = todo \ {s}, UNCHANGED clientVars
    PROVE  IInv'
  <1> USE DEF Crash, queueVars, socketVars, clientVars
  <1>1. TypeOK'
    BY DEF IInv, TypeOK
  <1>2. SlotsAccounted' /\ FreeIsFresh' /\ Served'
    BY DEF IInv, SlotsAccounted, FreeIsFresh, Served
  <1>3. Announcements'
    BY DEF IInv, Announcements, Awaits, Waiting, Readable
  <1>4. \A t \in Slots : RequestRead(conn'[t], inbuf'[t])
    BY DEF IInv
  <1> QED
    BY <1>1, <1>2, <1>3, <1>4 DEF IInv

LEMMA HandlePreserves ==
    ASSUME NEW s \in Slots, IInv, Handle(s)
    PROVE  IInv'
  <1>1. s \in todo /\ s \in ready /\ todo' = todo \ {s} /\ UNCHANGED clientVars
    BY DEF Handle, IInv, TypeOK
  <1>2. CASE conn[s].event = "NONE" /\ Become(s, conn[s]) /\ UNCHANGED <<queueVars, crashed, socketVars>>
    <2>1. conn[s] \in Conn /\ Handled(conn[s], inbuf'[s])
      BY <1>1, <1>2 DEF IInv, TypeOK, Announcements, Handled, socketVars
    <2>2. Moves(s)
      BY <1>2, <2>1 DEF Moves, IInv, TypeOK, socketVars
    <2> QED
      BY <1>1, <2>2, MovesPreserves
  <1>3. CASE Close(s)
    BY <1>1, <1>3, ClosePreserves
  <1>4. CASE conn[s].event = "READY" /\ (ReadHeader(s) \/ ReadPost(s) \/ WritePost(s) \/ WriteHtml(s)
                                        \/ ReadPipe(s) \/ Sendout(s) \/ HandlerError(s))
    BY <1>1, <1>4, HandlerOutcome, ClosePreserves, MovesPreserves, CrashPreserves
  <1> QED
    BY <1>2, <1>3, <1>4 DEF Handle

LEMMA CheckStateType ==
    ASSUME NEW s \in Slots, NEW age \in Nat, conn[s] \in Conn
    PROVE  CheckState(s, age) \in {"NONE", "READY", "TIMEOUT"}
BY DEF CheckState, Conn

\* The first turn after a connection was handled cannot exceed REQUEST_TIMEOUT.
LEMMA CheckStateAwaits ==
    ASSUME NEW s \in Slots, NEW age \in 0..1, conn[s] \in Conn, Waiting(conn[s]), conn[s].event = "NONE"
    PROVE  \/ CheckState(s, age) = "NONE"
           \/ CheckState(s, age) = "READY" /\ Readable(s)
           \/ CheckState(s, age) = "TIMEOUT" /\ conn[s].kacount < KaMax /\ age >= KaTimeout
  <1>1. ~(age > RequestTimeout)
    BY Limits
  <1> QED
    BY <1>1 DEF CheckState, Waiting, Polled

LEMMA LoopPreserves == IInv /\ Loop => IInv'
  <1> SUFFICES ASSUME IInv, Loop PROVE IInv'
    OBVIOUS
  <1>1. PICK tick \in 0..1 :
          conn' = [s \in Slots |->
                      IF s \in ready
                      THEN [conn[s] EXCEPT !.event = CheckState(s, conn[s].age + tick),
                                           !.age = conn[s].age + tick]
                      ELSE conn[s]]
    BY DEF Loop
  <1>2. /\ ~crashed /\ todo = {} /\ todo' = ready'
        /\ UNCHANGED <<crashed, arrived, inbuf, room, script, pipe>>
    BY DEF Loop
  <1>3. \/ UNCHANGED <<queueVars, link>>
        \/ \E s \in free : /\ free' = free \ {s} /\ ready' = ready \cup {s} /\ total' = total + 1
                           /\ link' = [link EXCEPT ![s] = "open"]
    BY DEF Loop, NewConnection
  <1>4. backlog' \in Int
    <2>1. backlog' = backlog - 1 \/ backlog' = backlog
      BY DEF Loop, NewConnection
    <2>2. backlog \in Int
      BY DEF IInv, TypeOK
    <2> QED
      BY <2>1, <2>2
  <1>5. \A s \in ready : s \in Slots /\ s \notin free /\ conn[s] \in Conn /\ conn[s].age = 0
    BY <1>2 DEF IInv, TypeOK, SlotsAccounted, Served
  <1>6. ASSUME NEW s \in ready
        PROVE  /\ conn'[s] = [conn[s] EXCEPT !.event = CheckState(s, tick), !.age = tick]
               /\ link'[s] = link[s]
    <2>1. conn[s].age + tick = tick
      BY <1>5
    <2>2. conn'[s] = [conn[s] EXCEPT !.event = CheckState(s, conn[s].age + tick),
                                     !.age = conn[s].age + tick]
      BY <1>1, <1>5
    <2>3. link'[s] = link[s]
      BY <1>3, <1>5 DEF IInv, TypeOK
    <2> QED
      BY <2>1, <2>2, <2>3
  <1>7. \A s \in Slots \ ready : conn'[s] = conn[s]
    BY <1>1
  <1>8. ASSUME NEW s \in ready
        PROVE  /\ conn'[s] \in Conn /\ conn'[s].event = CheckState(s, tick) /\ conn'[s].age = tick
               /\ conn'[s].status = conn[s].status /\ conn'[s].logline = conn[s].logline
               /\ conn'[s].announced = conn[s].announced /\ conn'[s].kacount = conn[s].kacount
    <2>1. s \in Slots /\ conn[s] \in Conn /\ tick \in Nat
      BY <1>5
    <2>2. CheckState(s, tick) \in {"NONE", "READY", "TIMEOUT"}
      BY <2>1, CheckStateType
    <2>3. conn'[s] = [conn[s] EXCEPT !.event = CheckState(s, tick), !.age = tick]
      BY <1>6
    <2>4. conn'[s] \in Conn
      <3>1. [conn[s] EXCEPT !.event = CheckState(s, tick), !.age = tick] \in Conn
        BY <2>1, <2>2, TurnType
      <3> QED
        BY <2>3, <3>1
    <2>5. /\ conn'[s].event = CheckState(s, tick) /\ conn'[s].age = tick
          /\ conn'[s].status = conn[s].status
          /\ conn'[s].announced = conn[s].announced /\ conn'[s].kacount = conn[s].kacount
      BY <2>1, <2>3 DEF Conn
    <2>6. conn'[s].logline = conn[s].logline
      BY <2>1, <2>3 DEF Conn
    <2> QED
      BY <2>4, <2>5, <2>6
  <1>9. TypeOK'
    <2>1. conn' \in [Slots -> Conn]
      <3>1. conn' = [s \in Slots |-> conn'[s]]
        BY <1>1
      <3>2. \A s \in Slots : conn'[s] \in Conn
        BY <1>7, <1>8 DEF IInv, TypeOK
      <3> QED
        BY <3>1, <3>2
    <2>2. /\ free' \subseteq Slots /\ ready' \subseteq Slots /\ total' \in Int
          /\ link' \in [Slots -> {"closed", "open", "fin", "reset"}]
      <3>1. CASE UNCHANGED <<queueVars, link>>
        BY <3>1 DEF IInv, TypeOK, queueVars
      <3>2. ASSUME NEW s \in free, free' = free \ {s}, ready' = ready \cup {s}, total' = total + 1,
                   link' = [link EXCEPT ![s] = "open"]
            PROVE  /\ free' \subseteq Slots /\ ready' \subseteq Slots /\ total' \in Int
                   /\ link' \in [Slots -> {"closed", "open", "fin", "reset"}]
        BY <3>2 DEF IInv, TypeOK
      <3> QED
        BY <1>3, <3>1, <3>2
    <2> QED
      BY <1>2, <1>4, <2>1, <2>2 DEF IInv, TypeOK
  <1>10. SlotsAccounted'
    <2>1. CASE UNCHANGED <<queueVars, link>>
      BY <2>1 DEF IInv, SlotsAccounted, queueVars
    <2>2. ASSUME NEW s \in free, free' = free \ {s}, ready' = ready \cup {s}, total' = total + 1
          PROVE  SlotsAccounted'
      <3>1. IsFiniteSet(ready)
        BY FS_Subset, WebAssumption DEF IInv, TypeOK
      <3>2. s \notin ready
        BY DEF IInv, SlotsAccounted
      <3>3. Cardinality(ready') = Cardinality(ready) + 1
        BY <2>2, <3>1, <3>2, FS_AddElement
      <3> QED
        BY <2>2, <3>3 DEF IInv, SlotsAccounted
    <2> QED
      BY <1>3, <2>1, <2>2
  <1>11. FreeIsFresh'
    <2>1. \A s \in free' : s \in free /\ s \notin ready /\ link'[s] = link[s]
      BY <1>3 DEF IInv, TypeOK, SlotsAccounted, queueVars
    <2> QED
      BY <1>2, <1>7, <2>1 DEF IInv, TypeOK, FreeIsFresh
  <1>12. Served'
    BY <1>2 DEF Served
  <1>13. Announcements'
    <2>1. ASSUME NEW s \in ready', s \notin ready
          PROVE  conn'[s].event = "NONE" /\ conn'[s].announced = "none"
      <3>1. s \in free
        BY <1>3, <2>1 DEF queueVars
      <3>2. conn'[s] = Fresh
        BY <1>7, <2>1, <3>1 DEF IInv, TypeOK, FreeIsFresh
      <3> QED
        BY <3>2 DEF Fresh
    <2>2. ASSUME NEW s \in ready, s \in ready', Waiting(conn'[s])
          PROVE  (IF conn[s].announced = "close" THEN conn[s].event # "NONE" ELSE Awaits(s))'
      <3>1. /\ conn'[s].event = CheckState(s, tick) /\ conn'[s].age = tick
            /\ conn'[s].announced = conn[s].announced /\ conn'[s].kacount = conn[s].kacount
            /\ Waiting(conn[s])
        BY <1>8, <2>2 DEF Waiting
      <3>2. CASE conn[s].announced = "close"
        BY <3>1, <3>2 DEF IInv, Announcements, CheckState
      <3>3. CASE conn[s].announced # "close"
        <4>1. conn[s].event = "NONE"
          BY <1>2, <3>1, <3>3 DEF IInv, Announcements, Awaits
        <4>2. Readable(s) => Readable(s)'
          BY <1>2, <1>6 DEF Readable
        <4> QED
          BY <1>2, <1>5, <2>2, <3>1, <3>3, <4>1, <4>2, CheckStateAwaits DEF Awaits
      <3> QED
        BY <3>2, <3>3
    <2> QED
      BY <2>1, <2>2 DEF Announcements, Awaits
  <1>14. \A s \in Slots : RequestRead(conn'[s], inbuf'[s])
    BY <1>2, <1>7, <1>8 DEF IInv, RequestRead
  <1> QED
    BY <1>9, <1>10, <1>11, <1>12, <1>13, <1>14 DEF IInv

----------------------------------------------------------------------------
(* Clients and programs disturb no connection but their own, and make it   *)
(* readable if anything.                                                   *)

LEMMA OutsidePreserves ==
    ASSUME IInv, UNCHANGED <<queueVars, todo, conn, crashed>>, TypeOK',
           \A s \in Slots : \/ link'[s] = link[s] /\ inbuf'[s] = inbuf[s]
                            \/ /\ link[s] # "closed" /\ Readable(s)'
                               /\ inbuf'[s] = "body" => conn[s].status = "BODY_READ"
    PROVE  IInv'
  <1>1. SlotsAccounted' /\ Served'
    BY DEF IInv, SlotsAccounted, Served, queueVars
  <1>2. FreeIsFresh'
    <2>1. ASSUME NEW s \in free PROVE link'[s] = link[s] /\ inbuf'[s] = inbuf[s]
      BY DEF IInv, TypeOK, FreeIsFresh
    <2> QED
      BY <2>1 DEF IInv, FreeIsFresh, queueVars
  <1>3. Announcements'
    <2>1. \A s \in Slots : Readable(s) => Readable(s)'
      BY DEF Readable
    <2>2. \A s \in Slots : Awaits(s) => Awaits(s)'
      BY <2>1 DEF Awaits
    <2>3. ready' = ready /\ conn' = conn /\ ready \subseteq Slots
      BY DEF queueVars, IInv, TypeOK
    <2> QED
      BY <2>2, <2>3 DEF IInv, Announcements
  <1>4. \A s \in Slots : RequestRead(conn'[s], inbuf'[s])
    BY DEF IInv, RequestRead
  <1> QED
    BY <1>1, <1>2, <1>3, <1>4 DEF IInv

LEMMA ClientPreserves ==
    ASSUME NEW s \in Slots, IInv,
           Send(s) \/ SendBody(s) \/ Drain(s) \/ Fin(s) \/ Reset(s) \/ CgiWrites(s)
    PROVE  IInv'
  <1> USE DEF queueVars, clientVars
  <1> DEFINE Outside == \A t \in Slots : \/ link'[t] = link[t] /\ inbuf'[t] = inbuf[t]
                                         \/ /\ link[t] # "closed" /\ Readable(t)'
                                            /\ inbuf'[t] = "body" => conn[t].status = "BODY_READ"
  <1>1. UNCHANGED <<queueVars, todo, conn, crashed>>
    BY DEF Send, SendBody, Drain, Fin, Reset, CgiWrites
  <1>2. CASE Send(s)
    <2>1. PICK r \in Requests : inbuf' = [inbuf EXCEPT ![s] = r]
      BY <1>2 DEF Send
    <2>2. r \in RequestKind /\ r # "none" /\ r # "body"
      BY WebAssumption DEF RequestKind
    <2>3. room' \in [Slots -> 0..Room]
      BY <1>2, Limits DEF Send, IInv, TypeOK
    <2>4. TypeOK'
      BY <1>2, <2>1, <2>2, <2>3 DEF Send, IInv, TypeOK
    <2>5. Outside
      BY <1>2, <2>1, <2>2 DEF Send, IInv, TypeOK, Readable
    <2> QED
      BY <1>1, <2>4, <2>5, OutsidePreserves
  <1>3. CASE SendBody(s)
    <2>1. PICK r \in {"post", "body"} : /\ inbuf' = [inbuf EXCEPT ![s] = r]
                                        /\ r = "body" => conn[s].status = "BODY_READ"
      BY <1>3 DEF SendBody
    <2>2. r \in RequestKind \cup {"none", "body"} /\ r # "none"
      BY DEF RequestKind
    <2>3. TypeOK'
      <3>1. inbuf' \in [Slots -> RequestKind \cup {"none", "body"}]
        BY <2>1, <2>2 DEF IInv, TypeOK
      <3> QED
        BY <1>3, <3>1 DEF SendBody, IInv, TypeOK
    <2>4. Outside
      BY <1>3, <2>1, <2>2 DEF SendBody, IInv, TypeOK, Readable
    <2> QED
      BY <1>1, <2>3, <2>4, OutsidePreserves
  <1>4. CASE Drain(s)
    <2>1. room' \in [Slots -> 0..Room]
      BY <1>4, Limits DEF Drain, IInv, TypeOK
    <2>2. TypeOK' /\ Outside
      BY <1>4, <2>1 DEF Drain, IInv, TypeOK
    <2> QED
      BY <1>1, <2>2, OutsidePreserves
  <1>5. CASE Fin(s)
    <2>1. TypeOK'
      <3>1. link' \in [Slots -> {"closed", "open", "fin", "reset"}]
        BY <1>5 DEF Fin, IInv, TypeOK
      <3> QED
        BY <1>5, <3>1 DEF Fin, IInv, TypeOK
    <2>2. inbuf[s] = "body" => conn[s].status = "BODY_READ"
      BY DEF IInv, RequestRead
    <2>3. Outside
      BY <1>5, <2>2 DEF Fin, IInv, TypeOK, Readable
    <2> QED
      BY <1>1, <2>1, <2>3, OutsidePreserves
  <1>6. CASE Reset(s)
    <2>1. TypeOK'
      BY <1>6 DEF Reset, IInv, TypeOK
    <2>2. Outside
      BY <1>6 DEF Reset, IInv, TypeOK, Readable
    <2> QED
      BY <1>1, <2>1, <2>2, OutsidePreserves
  <1>7. CASE CgiWrites(s)
    <2>1. script[s] \in Seq(Chunk) /\ script[s] # << >> /\ pipe[s] \in Seq(Chunk)
      BY <1>7 DEF CgiWrites, IInv, TypeOK
    <2>2. Append(pipe[s], Head(script[s])) \in Seq(Chunk) /\ Tail(script[s]) \in Seq(Chunk)
      BY <2>1
    <2>3. script' \in [Slots -> Seq(Chunk)] /\ pipe' \in [Slots -> Seq(Chunk)]
      BY <1>7, <2>2 DEF CgiWrites, IInv, TypeOK
    <2>4. TypeOK' /\ Outside
      BY <1>7, <2>3 DEF CgiWrites, IInv, TypeOK
    <2> QED
      BY <1>1, <2>4, OutsidePreserves
  <1> QED
    BY <1>2, <1>3, <1>4, <1>5, <1>6, <1>7

LEMMA ConnectPreserves == IInv /\ Connect => IInv'
  <1> SUFFICES ASSUME IInv, Connect PROVE IInv'
    OBVIOUS
  <1>1. TypeOK'
    <2>1. backlog' \in Int /\ arrived' \in Nat
      BY DEF Connect, IInv, TypeOK
    <2> QED
      BY <2>1 DEF Connect, IInv, TypeOK, queueVars, socketVars
  <1>2. UNCHANGED <<queueVars, todo, conn, crashed>> /\ UNCHANGED <<link, inbuf>>
    BY DEF Connect, socketVars
  <1> QED
    BY <1>1, <1>2, OutsidePreserves

LEMMA StutterPreserves == IInv /\ UNCHANGED vars => IInv'
  <1> SUFFICES ASSUME IInv, UNCHANGED vars PROVE IInv'
    OBVIOUS
  <1> USE DEF vars, queueVars, clientVars, socketVars
  <1>1. TypeOK'
    BY DEF IInv, TypeOK
  <1> QED
    BY <1>1, OutsidePreserves

LEMMA NextPreserves == IInv /\ [Next]_vars => IInv'
BY LoopPreserves, HandlePreserves, ClientPreserves, ConnectPreserves, StutterPreserves DEF Next

\* IInv, the invariant the theorems below rest on, holds in every reachable state of the
\* server, whatever clients and CGI programs do.
THEOREM Invariance == Spec => []IInv
  <1>1. Init => IInv
    BY InitIInv
  <1>2. IInv /\ [Next]_vars => IInv'
    BY NextPreserves
  <1> QED
    BY <1>1, <1>2, PTL DEF Spec

----------------------------------------------------------------------------
\* Every variable keeps to its range (the whole state of the plugin).
THEOREM TypeCorrect == Spec => []TypeOK
  <1>1. IInv => TypeOK
    BY DEF IInv
  <1> QED
    BY <1>1, Invariance, PTL

\* No handler, failed write or closed client loses a connection of the pool or lets
\* totalConnections drift away from the ready queue.
THEOREM SlotsNeverLost == Spec => []SlotsAccounted
  <1>1. IInv => SlotsAccounted
    BY DEF IInv
  <1> QED
    BY <1>1, Invariance, PTL

\* Whatever event _checkStates left behind, a connection between two requests is
\* treated as its last header announced.
THEOREM AnnouncementsKept == Spec => []AnnouncementIsKept
  <1>1. IInv => AnnouncementIsKept
    BY DEF IInv, Announcements, Awaits, AnnouncementIsKept
  <1> QED
    BY <1>1, Invariance, PTL

\* A client is hung up on between requests only when it left, was told so, or let the
\* keep-alive time pass.
THEOREM KeptConnectionsWait == Spec => KeptConnectionWaits
  <1> DEFINE Hangup(s) == Closes(s) /\ Waiting(conn[s]) /\ conn[s].announced # "close" =>
                             \/ link[s] # "open"
                             \/ conn[s].kacount < KaMax /\ conn[s].age >= KaTimeout
  <1>1. ASSUME IInv, Next, NEW s \in Slots, Closes(s), Waiting(conn[s]), conn[s].announced # "close"
        PROVE  link[s] # "open" \/ (conn[s].kacount < KaMax /\ conn[s].age >= KaTimeout)
    <2>1. PICK t \in Slots : Handle(t)
      BY <1>1 DEF Next, Closes, Loop, NewConnection, Connect, Send, SendBody, Drain, Fin, Reset,
                  CgiWrites, queueVars
    <2>2. t \in ready /\ t \in todo
      BY <1>1, <2>1 DEF Handle, IInv, TypeOK
    <2>3. ~Moves(t) /\ ~Crash /\ ~UNCHANGED queueVars
      BY <1>1 DEF Closes, Moves, Crash, queueVars
    <2>4. Close(t)
      BY <1>1, <2>1, <2>2, <2>3, HandlerOutcome DEF Handle
    <2>5. s = t /\ Awaits(s)
      BY <1>1, <2>4 DEF Close, Closes, IInv, Announcements
    <2>6. CASE conn[s].event = "READY"
      <3>1. ReadHeader(s)
        <4>1. conn[s].status = "READ_HEADER"
          BY <1>1 DEF Waiting
        <4>2. \/ ReadHeader(s) \/ ReadPost(s) \/ WritePost(s) \/ WriteHtml(s)
              \/ ReadPipe(s) \/ Sendout(s) \/ HandlerError(s)
          BY <2>1, <2>5, <2>6 DEF Handle
        <4> QED
          BY <4>1, <4>2 DEF ReadPost, WritePost, WriteHtml, ReadPipe, Sendout, HandlerError
      <3>2. inbuf[s] = "none"
        <4>1. UNCHANGED <<queueVars, crashed, link, room, pipe>> => UNCHANGED queueVars
          OBVIOUS
        <4> QED
          BY <2>3, <3>1, <4>1 DEF ReadHeader
      <3>3. Readable(s)
        BY <2>5, <2>6 DEF Awaits
      <3>4. link[s] # "open"
        BY <3>2, <3>3 DEF Readable
      <3> QED
        BY <3>4
    <2>7. CASE conn[s].event = "TIMEOUT"
      BY <2>5, <2>7 DEF Awaits
    <2> QED
      BY <2>1, <2>3, <2>5, <2>6, <2>7 DEF Handle
  <1>2. IInv /\ [Next]_vars => [\A s \in Slots : Hangup(s)]_vars
    BY <1>1
  <1> QED
    BY <1>2, Invariance, PTL DEF Spec, KeptConnectionWaits
=============================================================================
