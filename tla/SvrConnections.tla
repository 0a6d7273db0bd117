-------------------------- MODULE SvrConnections ---------------------------
(***************************************************************************)
(* The streaming server: one thread owns the connections and runs them as  *)
(* state machines fed from its own queue; the capture thread hands every   *)
(* packet to the connections in the feed's list; clients come, ask, pause  *)
(* and vanish.  Requests and packets are abstracted to their kind, the one  *)
(* media feed stands for all.                                              *)
(***************************************************************************)
EXTENDS Naturals, FiniteSets

CONSTANTS
    HttpConn, RtspConn,         \* the clients that may connect to each service
    PushConn,                   \* RTMP, HLS and multicast services of the configuration
    HttpMonitor, RtspMonitor,   \* the two listening connections
    MaxConnections,             \* svrConfig.maxConnections
    FifoSize,                   \* svrConfig.fifoSize
    Resuming,                   \* clients send PLAY after a PAUSE
    None

Client == HttpConn \cup RtspConn
Monitor == {HttpMonitor, RtspMonitor}
Conn == Client \cup PushConn
Any == Conn \cup Monitor

ASSUME SvrAssumption ==
    /\ MaxConnections \in Nat /\ FifoSize \in Nat \ {0} /\ Resuming \in BOOLEAN
    /\ IsFiniteSet(Conn) /\ Monitor \cap Conn = {}
    /\ HttpConn \cap RtspConn = {} /\ Client \cap PushConn = {}
    /\ None \notin Any

HttpRequest == {"LIVE", "POST", "REPLY"}
\* ERROR is any other method; OPTIONS changes nothing in any state and is left out.
RtspRequest == {"DESCRIBE", "SETUP", "PLAY", "PAUSE", "TEARDOWN", "ERROR"}
State == {"NONE", "INIT", "READY", "PLAY", "DATA", "ERROR", "CLOSING", "FREED"}
EventType == {"START", "POLL_IN", "POLL_OUT", "DATA"} \cup HttpRequest \cup RtspRequest

VARIABLES
    peer,           \* the client's end of the connection
    incoming,       \* clients with a request that waits in the socket
    paused,         \* clients that have sent PAUSE
    state,          \* svrConn->state, with NONE before and FREED after its life
    request,        \* the first request of an HTTP connection: readBuffer keeps it
    feed,           \* feed->svrConns
    looped,         \* an element of feed->svrConns is its own successor
    fifo,           \* packets in svrConn->fifo, and one half sent in svrConn->dataBuffer
    nbConnections,
    queue,          \* the events of the server thread
    phase,          \* where the main loop of the server thread is
    visit,          \* connections that muxSvrCloseConnect has still to visit
    victim,         \* the connection it is closing
    walking,        \* the capture thread holds feed->connsMutex
    todo            \* members of the feed that still get the packet

clientVars == <<peer, incoming, paused>>
connVars   == <<request, fifo>>
feedVars   == <<feed, looped>>
closeVars  == <<visit, victim>>
captureVars == <<walking, todo>>
vars == <<clientVars, state, connVars, feedVars, nbConnections, queue, phase, closeVars, captureVars>>

Event == [event : EventType, myConn : Any]
E(event, c) == [event |-> event, myConn |-> c]

Listen(c) == IF c \in HttpConn THEN HttpMonitor ELSE RtspMonitor
Alive == {c \in Conn : state[c] \notin {"NONE", "FREED"}}
ServiceConns == Alive \cap Client       \* IS_SERVICE_CONNECT: those that may be closed

Init ==
    /\ peer = [c \in Client |-> "none"]
    /\ incoming = {} /\ paused = {}
    /\ state = [c \in Any |-> IF c \in Client THEN "NONE" ELSE "INIT"]
    /\ request = [c \in HttpConn |-> None]
    /\ feed = {} /\ looped = FALSE
    /\ fifo = [c \in Conn |-> 0]
    /\ nbConnections = 0
    /\ queue = {E("START", c) : c \in Monitor \cup PushConn}
    /\ phase = "drain"
    /\ visit = {} /\ victim = None
    /\ walking = FALSE /\ todo = {}

----------------------------------------------------------------------------
(* The clients. *)

Connect(c) ==
    /\ peer[c] = "none"
    /\ peer' = [peer EXCEPT ![c] = "connecting"]
    /\ UNCHANGED <<incoming, paused>>

\* What a client asks for is told when the server reads it.
Send(c) ==
    /\ peer[c] = "open" /\ c \notin incoming
    /\ incoming' = incoming \cup {c}
    /\ UNCHANGED <<peer, paused>>

\* The connection is reset.  A peer that only ends its sending is not noticed (ReadNothing)
\* and is here like one that stays silent.
Leave(c) ==
    /\ peer[c] = "open"
    /\ peer' = [peer EXCEPT ![c] = "reset"]
    /\ UNCHANGED <<incoming, paused>>

ClientStep ==
    /\ \E c \in Client : Connect(c) \/ Send(c) \/ Leave(c)
    /\ UNCHANGED <<state, connVars, feedVars, nbConnections, queue, phase, closeVars, captureVars>>

----------------------------------------------------------------------------
(* The capture thread: muxSvrFeedSendPacket under feed->connsMutex. *)

CaptureBegin ==
    /\ ~walking /\ feed # {}
    /\ walking' = TRUE /\ todo' = feed
    /\ UNCHANGED fifo

\* A full fifo drops the packet.  A list that has been closed to a loop has no end.
CaptureGive(c) ==
    /\ walking /\ c \in todo
    /\ fifo' = [fifo EXCEPT ![c] = IF @ < FifoSize THEN @ + 1 ELSE @]
    /\ todo' = IF looped THEN todo ELSE todo \ {c}
    /\ UNCHANGED walking

CaptureEnd ==
    /\ walking /\ todo = {}
    /\ walking' = FALSE
    /\ UNCHANGED <<todo, fifo>>

CaptureStep ==
    /\ CaptureBegin \/ CaptureEnd \/ \E c \in Conn : CaptureGive(c)
    /\ UNCHANGED <<clientVars, state, request, feedVars, nbConnections,
                   queue, phase, closeVars>>

----------------------------------------------------------------------------
(* The events of one pass of the main loop.  Each connection has at most   *)
(* one event of each kind in it, so the queue is a set; the events of the  *)
(* poll may be taken in any order, as the order of the list may be any.    *)
(* POLL_OUT and DATA are left out where no state machine handles them.     *)

Readable(c) == peer[c] = "reset" \/ c \in incoming

PollEvents ==
    {E("POLL_IN", c) : c \in {d \in ServiceConns : Readable(d)}}
      \cup {E("POLL_IN", Listen(c)) : c \in {d \in Client : peer[d] = "connecting"}}
      \cup {E("POLL_OUT", c) : c \in {d \in HttpConn : state[d] = "DATA"}}
      \cup {E("DATA", c) : c \in {d \in feed : d \notin HttpConn /\ state[d] \in {"PLAY", "DATA"}}}

\* select(), _handleConnection and _iterateOneFeed, which walks the list too.
Poll ==
    /\ phase = "close" /\ visit = {} /\ ~looped
    /\ phase' = "drain" /\ queue' = PollEvents
    /\ UNCHANGED <<clientVars, state, connVars, feedVars, nbConnections, closeVars>>

\* The state machines' tables: the events that have a handler.
Handled(c) ==
    CASE c \in Monitor /\ state[c] = "INIT" -> {"START"}
      [] c \in Monitor /\ state[c] = "DATA" -> {"POLL_IN"}
      [] c \in HttpConn /\ state[c] = "INIT" -> {"POLL_IN", "REPLY", "LIVE", "ERROR"}
      [] c \in HttpConn /\ state[c] = "DATA" -> {"POLL_IN", "POLL_OUT", "ERROR"}
      [] c \in RtspConn /\ state[c] = "INIT" -> {"POLL_IN", "ERROR", "DESCRIBE", "SETUP"}
      [] c \in RtspConn /\ state[c] = "READY" -> {"POLL_IN", "ERROR", "PLAY", "SETUP"}
      [] c \in RtspConn /\ state[c] = "PLAY" ->
             {"POLL_IN", "DATA", "ERROR", "PAUSE", "TEARDOWN", "SETUP", "PLAY"}
      [] c \in PushConn /\ state[c] = "INIT" -> {"START"}
      [] c \in PushConn /\ state[c] = "DATA" -> {"DATA", "ERROR"}
      [] OTHER -> {}

\* The queue is a fifo: the events of the sockets, those of the listening connections
\* first because these head the list, then those of the feed, then what handlers emit.
Rank(e) ==
    CASE e.myConn \in Monitor /\ e.event \in {"START", "POLL_IN"} -> 0
      [] e.event \in {"START", "POLL_IN", "POLL_OUT"} -> 1
      [] e.event = "DATA" -> 2
      [] OTHER -> 3

MyTurn(e) ==
    /\ phase = "drain" /\ e \in queue
    /\ \A other \in queue : Rank(e) <= Rank(other)

\* The server thread takes the event and may emit others.
On(event, c, emitted) ==
    /\ MyTurn(E(event, c)) /\ event \in Handled(c)
    /\ queue' = (queue \ {E(event, c)}) \cup emitted
    /\ UNCHANGED <<phase, closeVars>>

Ignore(e) ==
    /\ MyTurn(e) /\ e.event \notin Handled(e.myConn)
    /\ queue' = queue \ {e}
    /\ UNCHANGED <<clientVars, state, connVars, feedVars, nbConnections, phase, closeVars>>

Goto(c, s) == state' = [state EXCEPT ![c] = s]

\* ENABLE_SVR_CONN pushes the connection in front of the list; one that is in it
\* already becomes its own successor, or the successor of one behind it.
EnableSvrConn(c) ==
    /\ ~walking
    /\ feed' = feed \cup {c}
    /\ looped' = (looped \/ c \in feed)

\* DISABLE_SVR_CONN goes through the whole list.
DisableSvrConn(c) ==
    /\ ~walking /\ ~looped
    /\ feed' = feed \ {c} /\ UNCHANGED looped

----------------------------------------------------------------------------
(* Listening and push connections. *)

StartMonitor(m) ==
    /\ On("START", m, {})
    /\ \E s \in {"DATA", "ERROR"} : Goto(m, s)
    /\ UNCHANGED <<clientVars, connVars, feedVars, nbConnections>>

\* The handler gives back EXIT_SUCCESS, which is MUX_SVR_STATE_CONTINUE.
Accept(m) ==
    /\ On("POLL_IN", m, {}) /\ nbConnections < MaxConnections
    /\ \E c \in Client :
          /\ Listen(c) = m /\ peer[c] = "connecting"
          /\ peer' = [peer EXCEPT ![c] = "open"]
          /\ Goto(c, "INIT")
    /\ nbConnections' = nbConnections + 1
    /\ UNCHANGED <<incoming, paused, connVars, feedVars>>

\* -EXIT_FAILURE is MUX_SVR_STATE_CLOSING, for the listening connection itself:
\* the server never accepts another client of this service.
RefuseAccept(m) ==
    /\ On("POLL_IN", m, {}) /\ nbConnections >= MaxConnections
    /\ \E c \in Client :
          /\ Listen(c) = m /\ peer[c] = "connecting"
          /\ peer' = [peer EXCEPT ![c] = "reset"]
    /\ Goto(m, "CLOSING")
    /\ UNCHANGED <<incoming, paused, connVars, feedVars, nbConnections>>

StartPush(c) ==
    /\ On("START", c, {}) /\ c \in PushConn
    /\ EnableSvrConn(c) /\ Goto(c, "DATA")
    /\ nbConnections' = nbConnections + 1
    /\ UNCHANGED <<clientVars, connVars>>

\* _serviceConnStop: the service is not started again.
StopPush(c) ==
    /\ On("ERROR", c, {}) /\ c \in PushConn
    /\ DisableSvrConn(c) /\ Goto(c, "ERROR")
    /\ UNCHANGED <<clientVars, connVars, nbConnections>>

----------------------------------------------------------------------------
(* Reading a request. *)

\* The request is not complete yet, or the peer has ended its sending: both give 0.
ReadNothing(c) ==
    /\ On("POLL_IN", c, {}) /\ c \in incoming /\ peer[c] # "reset"
    /\ incoming' = incoming \ {c}
    /\ UNCHANGED <<peer, paused, state, connVars, feedVars, nbConnections>>

\* Mutant: an error of read is taken for a request that is not complete.
MutReadError(c) ==
    /\ On("POLL_IN", c, {}) /\ peer[c] = "reset"
    /\ UNCHANGED <<clientVars, state, connVars, feedVars, nbConnections>>

ReadError(c) ==
    /\ On("POLL_IN", c, {}) /\ peer[c] = "reset"
    /\ Goto(c, "CLOSING")
    /\ UNCHANGED <<clientVars, connVars, feedVars, nbConnections>>

\* A request of another version of RTSP is not answered.
WrongVersion(c) ==
    /\ On("POLL_IN", c, {}) /\ c \in RtspConn \cap incoming /\ peer[c] # "reset"
    /\ incoming' = incoming \ {c}
    /\ Goto(c, "CLOSING")
    /\ UNCHANGED <<peer, paused, connVars, feedVars, nbConnections>>

\* What the request is answered with; a live stream may exceed the bandwidth.
HttpEvents(r) ==
    CASE r = "LIVE" -> {"LIVE", "REPLY"} [] r = "POST" -> {"POST"} [] OTHER -> {"REPLY"}

\* svrHttpMsgRecv parses the buffer from its start, so a second request repeats the first.
HttpMsgRecv(c) ==
    \E r \in IF request[c] = None THEN HttpRequest ELSE {request[c]} :
        /\ c \in HttpConn /\ peer[c] # "reset" /\ c \in incoming
        /\ \E event \in HttpEvents(r) : On("POLL_IN", c, {E(event, c)})
        /\ incoming' = incoming \ {c}
        /\ request' = [request EXCEPT ![c] = r]
        /\ UNCHANGED <<peer, paused, state, fifo, feedVars, nbConnections>>

RtspMsgRecv(c) ==
    \E r \in RtspRequest :
        /\ c \in RtspConn /\ peer[c] # "reset" /\ c \in incoming
        /\ r = "PLAY" /\ c \in paused => Resuming
        /\ On("POLL_IN", c, {E(r, c)})
        /\ incoming' = incoming \ {c}
        /\ paused' = IF r = "PAUSE" THEN paused \cup {c} ELSE paused
        /\ UNCHANGED <<peer, state, connVars, feedVars, nbConnections>>

----------------------------------------------------------------------------
(* The handlers of the service connections. *)

\* httpEventError, httpEventInfo, httpEventRedirectParsed, the status page and
\* rtspEventError write their answer and end the connection.
ReplyAndClose(c) ==
    /\ c \in Client
    /\ On("REPLY", c, {}) \/ On("ERROR", c, {})
    /\ Goto(c, "CLOSING")
    /\ UNCHANGED <<clientVars, connVars, feedVars, nbConnections>>

\* A redirection whose stream is not found is answered by httpEventError.
RedirectFails(c) ==
    /\ On("REPLY", c, {E("ERROR", c)})
    /\ UNCHANGED <<clientVars, state, connVars, feedVars, nbConnections>>

LiveStream(c) ==
    /\ On("LIVE", c, {})
    /\ EnableSvrConn(c) /\ Goto(c, "DATA")
    /\ UNCHANGED <<clientVars, connVars, nbConnections>>

\* Mutant: the connection is not closed.
MutLiveStreamFails(c) ==
    /\ On("LIVE", c, {})
    /\ UNCHANGED <<clientVars, state, connVars, feedVars, nbConnections>>

\* The header of the stream cannot be written.
LiveStreamFails(c) ==
    /\ On("LIVE", c, {})
    /\ Goto(c, "CLOSING")
    /\ UNCHANGED <<clientVars, connVars, feedVars, nbConnections>>

\* muxSvrConnSendPacket: the rest of the last packet, or the next one.  It is gone when
\* it is sent or cannot be encoded, and stays when it does not fit into the socket.
SendPacket(c) ==
    /\ fifo[c] > 0
    /\ On("POLL_OUT", c, {}) \/ On("DATA", c, {})
    /\ \E gone \in {0, 1} : fifo' = [fifo EXCEPT ![c] = @ - gone]
    /\ UNCHANGED <<clientVars, state, request, feedVars, nbConnections>>

SendFails(c) ==
    /\ fifo[c] > 0 /\ (c \in Client => peer[c] = "reset")
    /\ On("POLL_OUT", c, {E("ERROR", c)}) \/ On("DATA", c, {E("ERROR", c)})
    /\ UNCHANGED <<clientVars, state, connVars, feedVars, nbConnections>>

NothingToSend(c) ==
    /\ On("POLL_OUT", c, {}) \/ On("DATA", c, {})
    /\ fifo[c] = 0
    /\ UNCHANGED <<clientVars, state, connVars, feedVars, nbConnections>>

\* Any RTSP handler may find the request wrong: muxSvrRtspEventErrorInfo.
RtspRefuse(c) ==
    /\ \E event \in {"DESCRIBE", "SETUP", "PLAY", "PAUSE"} : On(event, c, {})
    /\ Goto(c, "CLOSING")
    /\ UNCHANGED <<clientVars, connVars, feedVars, nbConnections>>

RtspDescribe(c) ==
    /\ On("DESCRIBE", c, {})
    /\ UNCHANGED <<clientVars, state, connVars, feedVars, nbConnections>>

\* Mutant: SETUP leads to READY from every state.
MutRtspSetup(c) ==
    /\ On("SETUP", c, {})
    /\ Goto(c, "READY")
    /\ UNCHANGED <<clientVars, connVars, feedVars, nbConnections>>

RtspSetup(c) ==
    /\ On("SETUP", c, {})
    /\ Goto(c, IF state[c] = "INIT" THEN "READY" ELSE state[c])
    /\ UNCHANGED <<clientVars, connVars, feedVars, nbConnections>>

RtspPlay(c) ==
    /\ On("PLAY", c, {}) /\ state[c] = "READY"
    /\ EnableSvrConn(c) /\ Goto(c, "PLAY")
    /\ UNCHANGED <<clientVars, connVars, nbConnections>>

\* The connection stays in the feed's list.
RtspPause(c) ==
    /\ On("PAUSE", c, {})
    /\ Goto(c, "READY")
    /\ UNCHANGED <<clientVars, connVars, feedVars, nbConnections>>

\* Mutant: the connection goes on playing.
MutRtspTeardown(c) ==
    /\ On("TEARDOWN", c, {})
    /\ DisableSvrConn(c) /\ UNCHANGED state
    /\ UNCHANGED <<clientVars, connVars, nbConnections>>

RtspTeardown(c) ==
    /\ On("TEARDOWN", c, {})
    /\ DisableSvrConn(c) /\ Goto(c, "CLOSING")
    /\ UNCHANGED <<clientVars, connVars, nbConnections>>

Handle ==
    \/ \E m \in Monitor : StartMonitor(m) \/ Accept(m) \/ RefuseAccept(m)
    \/ \E c \in PushConn : StartPush(c) \/ StopPush(c)
    \/ \E c \in Client : ReadNothing(c) \/ ReadError(c) \/ ReplyAndClose(c)
    \/ \E c \in HttpConn : HttpMsgRecv(c) \/ RedirectFails(c) \/ LiveStream(c) \/ LiveStreamFails(c)
    \/ \E c \in RtspConn : WrongVersion(c) \/ RtspMsgRecv(c) \/ RtspRefuse(c) \/ RtspDescribe(c)
                             \/ RtspSetup(c) \/ RtspPlay(c) \/ RtspPause(c) \/ RtspTeardown(c)
    \/ \E c \in Conn : SendPacket(c) \/ SendFails(c) \/ NothingToSend(c)
    \/ \E e \in queue : Ignore(e)

----------------------------------------------------------------------------
(* muxSvrCloseConnect: only when the queue is empty. *)

\* Mutant: one event per pass of the main loop.
MutBeginClose ==
    /\ phase = "drain"
    /\ phase' = "close" /\ visit' = {c \in ServiceConns : state[c] = "CLOSING"}
    /\ UNCHANGED <<clientVars, state, connVars, feedVars, nbConnections, queue, victim>>

BeginClose ==
    /\ phase = "drain" /\ queue = {}
    /\ phase' = "close" /\ visit' = {c \in ServiceConns : state[c] = "CLOSING"}
    /\ UNCHANGED <<clientVars, state, connVars, feedVars, nbConnections, queue, victim>>

\* Mutant: the connection stays in the feed's list.
MutUnlink(c) ==
    /\ phase = "close" /\ c \in visit
    /\ visit' = visit \ {c}
    /\ phase' = "free" /\ victim' = c
    /\ UNCHANGED <<clientVars, state, connVars, feedVars, nbConnections, queue>>

\* A connection without a stream is in no list and needs no mutex.
\* The loop removes the element at its index and goes on with the next index:
\* the connection behind the removed one is not visited in this pass.
Unlink(c) ==
    /\ phase = "close" /\ c \in visit
    /\ \E skipped \in {{}} \cup {{d} : d \in visit \ {c}} : visit' = visit \ ({c} \cup skipped)
    /\ DisableSvrConn(c) \/ (c \notin feed /\ UNCHANGED feedVars)
    /\ phase' = "free" /\ victim' = c
    /\ UNCHANGED <<clientVars, state, connVars, nbConnections, queue>>

\* Mutant: the connection goes on being counted.
MutCloseConnection ==
    /\ phase = "free"
    /\ fifo' = [fifo EXCEPT ![victim] = 0]
    /\ peer' = [peer EXCEPT ![victim] = "closed"]
    /\ incoming' = incoming \ {victim} /\ paused' = paused \ {victim}
    /\ request' = [c \in HttpConn |-> IF c = victim THEN None ELSE request[c]]
    /\ Goto(victim, "FREED")
    /\ phase' = "close" /\ victim' = None
    /\ UNCHANGED <<feedVars, nbConnections, queue, visit>>

\* __closeConnection and av_free.
CloseConnection ==
    /\ phase = "free"
    /\ fifo' = [fifo EXCEPT ![victim] = 0]
    /\ peer' = [peer EXCEPT ![victim] = "closed"]
    /\ incoming' = incoming \ {victim} /\ paused' = paused \ {victim}
    /\ request' = [c \in HttpConn |-> IF c = victim THEN None ELSE request[c]]
    /\ Goto(victim, "FREED") /\ nbConnections' = nbConnections - 1
    /\ phase' = "close" /\ victim' = None
    /\ UNCHANGED <<feedVars, queue, visit>>

CloseConnect == BeginClose \/ (\E c \in Client : Unlink(c)) \/ CloseConnection

ServerStep == (Poll \/ Handle \/ CloseConnect) /\ UNCHANGED captureVars

Next == ClientStep \/ CaptureStep \/ ServerStep

Spec == Init /\ [][Next]_vars

\* The capture thread leaves its loop; a mutex asked for again and again is got.
FairSpec == Spec /\ SF_vars(ServerStep)
                 /\ WF_vars(CaptureStep /\ (CaptureEnd \/ \E c \in Conn : CaptureGive(c)))

----------------------------------------------------------------------------
TypeOK ==
    /\ peer \in [Client -> {"none", "connecting", "open", "reset", "closed"}]
    /\ state \in [Any -> State]
    /\ request \in [HttpConn -> HttpRequest \cup {None}]
    /\ incoming \subseteq Client /\ paused \subseteq Client /\ feed \subseteq Conn
    /\ fifo \in [Conn -> 0..FifoSize]
    /\ nbConnections \in Nat /\ queue \subseteq Event
    /\ phase \in {"drain", "close", "free"}
    /\ visit \subseteq Client /\ victim \in Client \cup {None}
    /\ walking \in BOOLEAN /\ looped \in BOOLEAN /\ todo \subseteq Conn

\* Neither the capture thread's list nor the part of it that it walks through names a
\* connection that the server thread has freed (connsMutex, DISABLE_SVR_CONN).
MembersAlive == feed \cup todo \subseteq Alive \ {victim}

\* No event in the queue is about a connection that has been freed: connections are
\* closed only between two passes (muxSvrThreadMain.c:520).
EventsAlive == \A e \in queue : e.myConn \in Conn => e.myConn \in Alive

\* Every packet given to a connection has been sent or freed when the connection is
\* gone: nothing reaches the fifo after __closeConnection has emptied it.
NoPacketLeft == \A c \in Conn : state[c] = "FREED" => fifo[c] = 0

\* A connection is in the feed's list while it plays, and leaves it only to be closed;
\* a paused one keeps getting packets until its fifo is full.
PlayersAreFed ==
    \A c \in Conn :
        /\ state[c] \in {"PLAY", "DATA"} => c \in feed
        /\ c \in feed => state[c] \in {"PLAY", "DATA", "CLOSING"} \/ (state[c] = "READY" /\ c \in paused)

\* nbConnections, which decides whether a client is accepted, counts the clients that
\* are served and the push services that were ever started.
CountIsExact ==
    nbConnections = Cardinality(ServiceConns) + Cardinality({c \in PushConn : state[c] # "INIT"})

\* A client whose request can be answered gets the answer or the stream.
RequestIsAnswered ==
    \A c \in HttpConn :
        request[c] \in {"LIVE", "REPLY"} ~> state[c] \in {"DATA", "CLOSING", "FREED"}

\* What an RTSP client sends is read: each of the methods that rtspEventOptions announces
\* leaves a server that goes on serving (muxSvrRtspHandlers.c:86).
RequestIsRead == \A c \in RtspConn : c \in incoming ~> c \notin incoming

\* A connection that the peer has reset is freed.
ResetIsNoticed ==
    \A c \in Client : peer[c] = "reset" /\ state[c] # "NONE" ~> state[c] \in {"NONE", "FREED"}
=============================================================================
