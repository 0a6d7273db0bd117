----------------------- MODULE SvrConnections_proofs ------------------------
(***************************************************************************)
(* The streaming server keeps freed connections out of the reach of the    *)
(* capture thread and of its own queue, for any number of clients, push    *)
(* services, fifo places and for every limit of connections.               *)
(***************************************************************************)
EXTENDS SvrConnections, FiniteSetTheorems, TLAPS

\* A client has a connection from the moment it was accepted.
Accepted == \A c \in Client : peer[c] \in {"none", "connecting"} => state[c] = "NONE"

\* Push connections are never closed.
PushAlive == \A c \in PushConn : state[c] \in {"INIT", "DATA", "ERROR"}

\* The capture thread walks through the list as it is.
Walk == todo \subseteq feed /\ (~walking => todo = {})

\* A paused client is remembered from its request on.
PauseKnown == \A c \in Conn : E("PAUSE", c) \in queue => c \in paused

\* Connections are closed only between two passes, one after the other.
Closing ==
    /\ phase # "drain" => queue = {}
    /\ phase = "drain" => visit = {}
    /\ phase = "free" => victim \in Client \ (feed \cup visit) /\ state[victim] = "CLOSING"
    /\ phase # "free" => victim = None
    /\ \A c \in visit : state[c] = "CLOSING"

IInv ==
    /\ TypeOK /\ EventsAlive /\ NoPacketLeft /\ PlayersAreFed /\ CountIsExact
    /\ Accepted /\ PushAlive /\ Walk /\ PauseKnown /\ Closing

\* The actions of the server thread that leave the connections' states alone, ...
Quiet ==
    \/ \E c \in Client : ReadNothing(c)
    \/ \E c \in HttpConn : HttpMsgRecv(c) \/ RedirectFails(c)
    \/ \E c \in RtspConn : RtspMsgRecv(c) \/ RtspDescribe(c)
    \/ \E c \in Conn : SendPacket(c) \/ SendFails(c) \/ NothingToSend(c)
    \/ \E e \in queue : Ignore(e)

\* ... those that change the state of one client and leave the list alone.
Ending(c) ==
    \/ ReadError(c) \/ ReplyAndClose(c)
    \/ c \in HttpConn /\ LiveStreamFails(c)
    \/ c \in RtspConn /\ (WrongVersion(c) \/ RtspRefuse(c) \/ RtspSetup(c) \/ RtspPause(c))

\* An event that has a handler is about a connection that lives.
LEMMA HandledStates ==
    ASSUME NEW c \in Any, NEW event, event \in Handled(c)
    PROVE  state[c] \in {"INIT", "READY", "PLAY", "DATA"}
BY DEF Handled

LEMMA Disjoint ==
    /\ \A c \in Conn : c \in Any /\ c \notin Monitor
    /\ Client \subseteq Conn /\ PushConn \subseteq Conn /\ HttpConn \subseteq Client /\ RtspConn \subseteq Client
    /\ \A c \in Client : c \notin PushConn /\ c # None
    /\ \A c \in RtspConn : c \notin HttpConn
BY SvrAssumption DEF Conn, Client, Any

LEMMA InitIInv == Init => IInv
  <1> SUFFICES ASSUME Init PROVE IInv
    OBVIOUS
  <1> USE SvrAssumption, Disjoint DEF Init
  <1>1. ServiceConns = {} /\ {c \in PushConn : state[c] # "INIT"} = {}
    BY DEF ServiceConns, Alive
  <1>2. CountIsExact
    BY <1>1, FS_EmptySet DEF CountIsExact
  <1>3. TypeOK
    <2>1. queue \subseteq Event
      BY DEF Event, E, EventType, Any
    <2>2. state \in [Any -> State] /\ fifo \in [Conn -> 0..FifoSize]
      BY DEF State
    <2> QED
      BY <2>1, <2>2 DEF TypeOK
  <1>4. EventsAlive /\ NoPacketLeft /\ PlayersAreFed
    BY DEF EventsAlive, NoPacketLeft, PlayersAreFed, Alive, E, Any
  <1>5. Accepted /\ PushAlive /\ Walk /\ PauseKnown /\ Closing
    BY DEF Accepted, PushAlive, Walk, PauseKnown, Closing, E, Any
  <1> QED
    BY <1>2, <1>3, <1>4, <1>5 DEF IInv

----------------------------------------------------------------------------
(* Steps that leave the states of the connections and the list alone.      *)

\* What a step keeps when it touches neither the states nor the count.
LEMMA CountKept ==
    ASSUME CountIsExact, state' = state, nbConnections' = nbConnections
    PROVE  CountIsExact'
BY DEF CountIsExact, ServiceConns, Alive

LEMMA ClientPreserves == IInv /\ ClientStep => IInv'
  <1> SUFFICES ASSUME IInv, ClientStep PROVE IInv'
    OBVIOUS
  <1> USE DEF ClientStep, connVars, feedVars, closeVars, captureVars
  <1>1. PICK c \in Client : Connect(c) \/ Send(c) \/ Leave(c)
    OBVIOUS
  <1>2. CountIsExact'
    BY CountKept DEF IInv
  <1>3. TypeOK'
    BY <1>1 DEF IInv, TypeOK, Connect, Send, Leave
  <1>4. Accepted'
    BY <1>1 DEF IInv, TypeOK, Accepted, Connect, Send, Leave
  <1>5. (PauseKnown /\ PlayersAreFed)'
    BY <1>1 DEF IInv, PauseKnown, PlayersAreFed, Connect, Send, Leave, E
  <1>6. (EventsAlive /\ NoPacketLeft /\ PushAlive /\ Walk /\ Closing)'
    BY DEF IInv, EventsAlive, NoPacketLeft, Alive, PushAlive, Walk, Closing
  <1> QED
    BY <1>2, <1>3, <1>4, <1>5, <1>6 DEF IInv

LEMMA CapturePreserves == IInv /\ CaptureStep => IInv'
  <1> SUFFICES ASSUME IInv, CaptureStep PROVE IInv'
    OBVIOUS
  <1> USE DEF CaptureStep, clientVars, feedVars, closeVars
  <1>1. CountIsExact'
    BY CountKept DEF IInv
  <1>2. (EventsAlive /\ PlayersAreFed /\ Accepted /\ PushAlive /\ PauseKnown /\ Closing)'
    BY DEF IInv, EventsAlive, Alive, PlayersAreFed, Accepted, PushAlive, PauseKnown, Closing, E
  <1>3. (TypeOK /\ NoPacketLeft /\ Walk)'
    <2>1. CASE CaptureBegin
      BY <2>1 DEF CaptureBegin, IInv, TypeOK, NoPacketLeft, Walk
    <2>2. CASE CaptureEnd
      BY <2>2 DEF CaptureEnd, IInv, TypeOK, NoPacketLeft, Walk
    <2>3. ASSUME NEW c \in Conn, CaptureGive(c) PROVE (TypeOK /\ NoPacketLeft /\ Walk)'
      <3>1. state[c] # "FREED" /\ todo' \subseteq todo
        BY <2>3 DEF CaptureGive, IInv, Walk, PlayersAreFed
      <3>2. \A d \in Conn : d # c => fifo'[d] = fifo[d]
        BY <2>3 DEF CaptureGive, IInv, TypeOK
      <3>3. fifo' \in [Conn -> 0..FifoSize]
        BY <2>3, SvrAssumption DEF CaptureGive, IInv, TypeOK
      <3>4. TypeOK'
        BY <2>3, <3>1, <3>3 DEF CaptureGive, IInv, TypeOK
      <3>5. NoPacketLeft'
        BY <3>1, <3>2 DEF IInv, NoPacketLeft
      <3>6. Walk'
        BY <2>3, <3>1 DEF CaptureGive, IInv, Walk
      <3> QED
        BY <3>4, <3>5, <3>6
    <2> QED
      BY <2>1, <2>2, <2>3
  <1> QED
    BY <1>1, <1>2, <1>3 DEF IInv

LEMMA PollPreserves == IInv /\ Poll /\ UNCHANGED captureVars => IInv'
  <1> SUFFICES ASSUME IInv, Poll, UNCHANGED captureVars PROVE IInv'
    OBVIOUS
  <1> USE DEF Poll, clientVars, connVars, feedVars, closeVars, captureVars
  <1>1. CountIsExact'
    BY CountKept DEF IInv
  <1>2. \A e \in PollEvents : e \in Event /\ e.event # "PAUSE"
    BY Disjoint DEF PollEvents, Event, E, EventType, ServiceConns, Alive, IInv, TypeOK, Any, Listen, Monitor, Client, Conn
  <1>3. \A e \in PollEvents : e.myConn \in Conn => e.myConn \in Alive
    BY Disjoint DEF PollEvents, E, ServiceConns, Alive, IInv, TypeOK, Any, Listen, Monitor, Client, Conn
  <1>4. TypeOK'
    BY <1>2 DEF IInv, TypeOK
  <1>5. (EventsAlive /\ PauseKnown)'
    BY <1>2, <1>3 DEF EventsAlive, PauseKnown, Alive, E
  <1>6. Closing'
    BY DEF IInv, Closing
  <1>7. (NoPacketLeft /\ PlayersAreFed /\ Accepted /\ PushAlive /\ Walk)'
    BY DEF IInv, NoPacketLeft, PlayersAreFed, Accepted, PushAlive, Walk
  <1> QED
    BY <1>1, <1>4, <1>5, <1>6, <1>7 DEF IInv

----------------------------------------------------------------------------
(* Handlers.  The queue loses the event and gets events of the same        *)
(* connection, which lives because the event had a handler.                *)

LEMMA QueueKept ==
    ASSUME IInv, NEW event \in EventType, NEW c \in Any, NEW emitted,
           On(event, c, emitted), emitted \subseteq {E(x, c) : x \in EventType},
           \A d \in Conn : state[d] \notin {"NONE", "FREED"} => state'[d] \notin {"NONE", "FREED"},
           paused \subseteq paused',
           E("PAUSE", c) \in emitted => c \in paused'
    PROVE  queue' \subseteq Event /\ EventsAlive' /\ PauseKnown'
  <1>1. queue' = (queue \ {E(event, c)}) \cup emitted
    BY DEF On
  <1>2. E(event, c) \in queue /\ emitted \subseteq Event
    BY DEF On, MyTurn, E, Event
  <1>3. c \in Conn => c \in Alive
    BY <1>2 DEF IInv, EventsAlive, E
  <1>4. \A d \in Alive : d \in Alive'
    BY DEF Alive
  <1>5. \A e \in emitted : e.myConn = c
    BY DEF E
  <1> QED
    BY <1>1, <1>2, <1>3, <1>4, <1>5 DEF IInv, TypeOK, EventsAlive, PauseKnown, E

LEMMA QuietPreserves == IInv /\ Quiet /\ UNCHANGED captureVars => IInv'
  <1> SUFFICES ASSUME IInv, Quiet, UNCHANGED captureVars PROVE IInv'
    OBVIOUS
  <1> USE DEF clientVars, connVars, feedVars, closeVars, captureVars
  <1>1. /\ state' = state /\ UNCHANGED <<feedVars, nbConnections, phase, closeVars>>
        /\ paused \subseteq paused' /\ phase = "drain"
    BY DEF Quiet, On, MyTurn, Ignore, ReadNothing, HttpMsgRecv, RedirectFails, RtspMsgRecv,
           RtspDescribe, SendPacket, SendFails, NothingToSend
  <1>2. CountIsExact'
    BY <1>1, CountKept DEF IInv
  <1>3. (Walk /\ Closing /\ PushAlive)'
    BY <1>1 DEF IInv, Walk, Closing, PushAlive
  <1>4. PlayersAreFed'
    BY <1>1 DEF IInv, PlayersAreFed
  <1>5. peer' = peer
    BY DEF Quiet, Ignore, ReadNothing, HttpMsgRecv, RedirectFails, RtspMsgRecv,
           RtspDescribe, SendPacket, SendFails, NothingToSend
  <1>6. Accepted'
    BY <1>1, <1>5 DEF IInv, Accepted
  <1>7. queue' \subseteq Event /\ EventsAlive' /\ PauseKnown'
    <2>1. ASSUME NEW e \in queue, Ignore(e) PROVE queue' \subseteq Event /\ EventsAlive' /\ PauseKnown'
      BY <2>1, <1>1 DEF Ignore, IInv, TypeOK, EventsAlive, Alive, PauseKnown
    <2>2. ASSUME NEW c \in Client, ReadNothing(c) PROVE queue' \subseteq Event /\ EventsAlive' /\ PauseKnown'
      <3>1. On("POLL_IN", c, {}) /\ c \in Any /\ "POLL_IN" \in EventType
        BY <2>2, Disjoint DEF ReadNothing, EventType
      <3> QED
        BY <3>1, <1>1, QueueKept
    <2>3. ASSUME NEW c \in HttpConn, HttpMsgRecv(c) PROVE queue' \subseteq Event /\ EventsAlive' /\ PauseKnown'
      <3>1. PICK r \in HttpRequest : \E event \in HttpEvents(r) : On("POLL_IN", c, {E(event, c)})
        BY <2>3 DEF HttpMsgRecv, IInv, TypeOK
      <3>2. PICK event \in HttpEvents(r) : On("POLL_IN", c, {E(event, c)})
        BY <3>1
      <3>3. event \in EventType /\ event # "PAUSE" /\ c \in Any /\ "POLL_IN" \in EventType
        BY Disjoint DEF HttpEvents, EventType, HttpRequest
      <3>4. E("PAUSE", c) \notin {E(event, c)}
        BY <3>3 DEF E
      <3> QED
        BY <3>2, <3>3, <3>4, <1>1, QueueKept
    <2>4. ASSUME NEW c \in HttpConn, RedirectFails(c) PROVE queue' \subseteq Event /\ EventsAlive' /\ PauseKnown'
      <3>1. On("REPLY", c, {E("ERROR", c)}) /\ c \in Any /\ {"REPLY", "ERROR"} \subseteq EventType
        BY <2>4, Disjoint DEF RedirectFails, EventType, HttpRequest, RtspRequest
      <3>2. E("PAUSE", c) \notin {E("ERROR", c)}
        BY DEF E
      <3> QED
        BY <3>1, <3>2, <1>1, QueueKept
    <2>5. ASSUME NEW c \in RtspConn, RtspMsgRecv(c) PROVE queue' \subseteq Event /\ EventsAlive' /\ PauseKnown'
      <3>1. PICK r \in RtspRequest : /\ On("POLL_IN", c, {E(r, c)})
                                     /\ paused' = IF r = "PAUSE" THEN paused \cup {c} ELSE paused
        BY <2>5 DEF RtspMsgRecv
      <3>2. r \in EventType /\ c \in Any /\ "POLL_IN" \in EventType
        BY Disjoint DEF EventType
      <3>3. E("PAUSE", c) \in {E(r, c)} => c \in paused'
        BY <3>1 DEF E
      <3> QED
        BY <3>1, <3>2, <3>3, <1>1, QueueKept
    <2>6. ASSUME NEW c \in RtspConn, RtspDescribe(c) PROVE queue' \subseteq Event /\ EventsAlive' /\ PauseKnown'
      <3>1. On("DESCRIBE", c, {}) /\ c \in Any /\ "DESCRIBE" \in EventType
        BY <2>6, Disjoint DEF RtspDescribe, EventType, RtspRequest
      <3> QED
        BY <3>1, <1>1, QueueKept
    <2>7. ASSUME NEW c \in Conn, SendPacket(c) \/ SendFails(c) \/ NothingToSend(c)
          PROVE  queue' \subseteq Event /\ EventsAlive' /\ PauseKnown'
      <3>1. PICK event \in {"POLL_OUT", "DATA"}, emitted \in {{}, {E("ERROR", c)}} : On(event, c, emitted)
        BY <2>7 DEF SendPacket, SendFails, NothingToSend
      <3>2. event \in EventType /\ c \in Any /\ "ERROR" \in EventType
        BY Disjoint DEF EventType, RtspRequest
      <3>3. E("PAUSE", c) \notin emitted
        BY DEF E
      <3> QED
        BY <3>1, <3>2, <3>3, <1>1, QueueKept
    <2> QED
      BY <2>1, <2>2, <2>3, <2>4, <2>5, <2>6, <2>7 DEF Quiet
  <1>8. fifo' \in [Conn -> 0..FifoSize] /\ NoPacketLeft'
    <2>1. CASE fifo' = fifo
      BY <2>1, <1>1 DEF IInv, TypeOK, NoPacketLeft
    <2>2. ASSUME NEW c \in Conn, SendPacket(c) PROVE fifo' \in [Conn -> 0..FifoSize] /\ NoPacketLeft'
      <3>1. PICK gone \in {0, 1} : fifo' = [fifo EXCEPT ![c] = @ - gone]
        BY <2>2 DEF SendPacket
      <3>2. fifo[c] \in 0..FifoSize /\ fifo[c] > 0 /\ FifoSize \in Nat
        BY <2>2, SvrAssumption DEF SendPacket, IInv, TypeOK
      <3>3. fifo[c] - gone \in 0..FifoSize
        BY <3>2
      <3>4. fifo' \in [Conn -> 0..FifoSize]
        BY <3>1, <3>3 DEF IInv, TypeOK
      <3>5. \A d \in Conn : fifo[d] = 0 => fifo'[d] = 0
        BY <3>1, <3>2 DEF IInv, TypeOK
      <3> QED
        BY <3>4, <3>5, <1>1 DEF IInv, NoPacketLeft
    <2>3. fifo' = fifo \/ \E c \in Conn : SendPacket(c)
      BY DEF Quiet, Ignore, ReadNothing, HttpMsgRecv, RedirectFails, RtspMsgRecv,
             RtspDescribe, SendFails, NothingToSend
    <2> QED
      BY <2>1, <2>2, <2>3
  <1>9. TypeOK'
    <2>1. incoming' \subseteq Client /\ paused' \subseteq Client
      BY Disjoint DEF IInv, TypeOK, Quiet, Ignore, ReadNothing, HttpMsgRecv, RedirectFails, RtspMsgRecv,
             RtspDescribe, SendPacket, SendFails, NothingToSend
    <2>2. request' \in [HttpConn -> HttpRequest \cup {None}]
      BY DEF IInv, TypeOK, Quiet, Ignore, ReadNothing, HttpMsgRecv, RedirectFails, RtspMsgRecv,
             RtspDescribe, SendPacket, SendFails, NothingToSend
    <2> QED
      BY <2>1, <2>2, <1>1, <1>5, <1>7, <1>8 DEF IInv, TypeOK
  <1> QED
    BY <1>2, <1>3, <1>4, <1>6, <1>7, <1>8, <1>9 DEF IInv

----------------------------------------------------------------------------
(* Handlers that change the state of their connection.                     *)

\* A connection that goes from one state of its life to another is counted as before.
LEMMA StateKept ==
    ASSUME IInv, NEW c \in Any, NEW s \in {"INIT", "READY", "PLAY", "DATA", "ERROR", "CLOSING"},
           state[c] \in {"INIT", "READY", "PLAY", "DATA"}, Goto(c, s), nbConnections' = nbConnections,
           c \in PushConn => state[c] # "INIT" /\ s # "INIT"
    PROVE  /\ state' \in [Any -> State] /\ CountIsExact'
           /\ \A d \in Any : d # c => state'[d] = state[d]
           /\ state'[c] = s
           /\ \A d \in Conn : state[d] \notin {"NONE", "FREED"} => state'[d] \notin {"NONE", "FREED"}
           /\ \A d \in Conn : state[d] \in {"NONE", "FREED"} => state'[d] = state[d]
           /\ \A d \in Conn : state'[d] = "FREED" => state[d] = "FREED"
  <1>1. state' \in [Any -> State]
    BY DEF Goto, IInv, TypeOK, State
  <1>2. state'[c] = s /\ \A d \in Any : d # c => state'[d] = state[d]
    BY DEF Goto, IInv, TypeOK
  <1>3. \A d \in Conn : /\ state[d] \notin {"NONE", "FREED"} => state'[d] \notin {"NONE", "FREED"}
                        /\ state[d] \in {"NONE", "FREED"} => state'[d] = state[d]
                        /\ state'[d] = "FREED" => state[d] = "FREED"
    BY <1>2, Disjoint
  <1>4. ServiceConns' = ServiceConns
    BY <1>3, Disjoint DEF ServiceConns, Alive
  <1>5. {d \in PushConn : state'[d] # "INIT"} = {d \in PushConn : state[d] # "INIT"}
    BY <1>2, Disjoint
  <1>6. CountIsExact'
    BY <1>4, <1>5 DEF IInv, CountIsExact
  <1> QED
    BY <1>1, <1>2, <1>3, <1>6

\* The parts of the invariant that speak of the main loop hold while events are handled.
LEMMA LoopKept ==
    ASSUME IInv, phase = "drain", UNCHANGED <<phase, closeVars>>
    PROVE  Closing'
BY DEF IInv, Closing, closeVars

LEMMA EndingPreserves ==
    ASSUME IInv, NEW c \in Client, Ending(c), UNCHANGED captureVars PROVE IInv'
  <1> USE DEF clientVars, connVars, feedVars, closeVars, captureVars
  <1>0. c \in Any /\ c \in Conn /\ c \notin PushConn
    BY Disjoint
  <1>1. PICK event \in EventType : On(event, c, {})
    BY DEF Ending, ReadError, ReplyAndClose, LiveStreamFails, WrongVersion, RtspRefuse, RtspSetup,
           RtspPause, EventType, HttpRequest, RtspRequest
  <1>2. state[c] \in {"INIT", "READY", "PLAY", "DATA"} /\ phase = "drain" /\ UNCHANGED <<phase, closeVars>>
    BY <1>0, <1>1, HandledStates DEF On, MyTurn
  <1>3. /\ UNCHANGED <<connVars, feedVars, nbConnections>> /\ peer' = peer /\ paused' = paused
        /\ incoming' \subseteq incoming
    BY DEF Ending, ReadError, ReplyAndClose, LiveStreamFails, WrongVersion, RtspRefuse, RtspSetup, RtspPause
  <1>4. PICK s \in {"READY", "PLAY", "DATA", "CLOSING"} :
            /\ Goto(c, s)
            /\ s # "CLOSING" => \/ s = state[c]
                                \/ s = "READY" /\ state[c] = "INIT"
                                \/ s = "READY" /\ state[c] = "PLAY" /\ c \in paused
    <2>1. CASE RtspSetup(c)
      <3>1. CASE state[c] = "INIT"
        <4>1. Goto(c, "READY")
          BY <2>1, <3>1 DEF RtspSetup, Goto
        <4> QED
          BY <3>1, <4>1
      <3>2. CASE state[c] \in {"READY", "PLAY", "DATA"}
        <4>1. Goto(c, state[c])
          BY <2>1, <3>2 DEF RtspSetup, Goto
        <4> QED
          BY <3>2, <4>1
      <3> QED
        BY <3>1, <3>2, <1>2
    <2>2. CASE c \in RtspConn /\ RtspPause(c)
      <3>1. E("PAUSE", c) \in queue /\ "PAUSE" \in Handled(c) /\ Goto(c, "READY")
        BY <2>2 DEF RtspPause, On, MyTurn
      <3>2. state[c] = "PLAY"
        BY <3>1, <2>2, <1>0, Disjoint DEF Handled
      <3> QED
        BY <3>1, <3>2, <1>0 DEF IInv, PauseKnown
    <2> QED
      BY <2>1, <2>2 DEF Ending, ReadError, ReplyAndClose, LiveStreamFails, WrongVersion, RtspRefuse
  <1>5. /\ state' \in [Any -> State] /\ CountIsExact'
        /\ \A d \in Any : d # c => state'[d] = state[d]
        /\ state'[c] = s
        /\ \A d \in Conn : state[d] \notin {"NONE", "FREED"} => state'[d] \notin {"NONE", "FREED"}
        /\ \A d \in Conn : state[d] \in {"NONE", "FREED"} => state'[d] = state[d]
        /\ \A d \in Conn : state'[d] = "FREED" => state[d] = "FREED"
    BY <1>0, <1>2, <1>3, <1>4, StateKept
  <1>6. queue' \subseteq Event /\ EventsAlive' /\ PauseKnown'
    BY <1>0, <1>1, <1>3, <1>5, QueueKept
  <1>7. Closing'
    BY <1>2, LoopKept
  <1>8. TypeOK'
    BY <1>2, <1>3, <1>5, <1>6 DEF IInv, TypeOK
  <1>9. PlayersAreFed'
    <2>1. PlayersAreFed /\ feed' = feed /\ paused' = paused
      BY <1>3 DEF IInv
    <2>2. ASSUME NEW d \in Conn, d # c
          PROVE  /\ state'[d] \in {"PLAY", "DATA"} => d \in feed'
                 /\ d \in feed' => state'[d] \in {"PLAY", "DATA", "CLOSING"} \/ (state'[d] = "READY" /\ d \in paused')
      BY <2>1, <2>2, <1>5, Disjoint DEF PlayersAreFed
    <2>3. /\ state'[c] \in {"PLAY", "DATA"} => c \in feed'
          /\ c \in feed' => state'[c] \in {"PLAY", "DATA", "CLOSING"} \/ (state'[c] = "READY" /\ c \in paused')
      BY <2>1, <1>0, <1>2, <1>4, <1>5 DEF PlayersAreFed
    <2> QED
      BY <2>2, <2>3 DEF PlayersAreFed
  <1>10. (NoPacketLeft /\ Accepted /\ PushAlive /\ Walk)'
    BY <1>0, <1>3, <1>5, Disjoint DEF IInv, NoPacketLeft, Accepted, PushAlive, Walk
  <1> QED
    BY <1>5, <1>6, <1>7, <1>8, <1>9, <1>10 DEF IInv

\* The client enters the feed's list and gets its packets.
LEMMA StreamingPreserves ==
    ASSUME IInv, NEW c \in Client,
           (c \in HttpConn /\ LiveStream(c)) \/ (c \in RtspConn /\ RtspPlay(c)), UNCHANGED captureVars
    PROVE  IInv'
  <1> USE DEF clientVars, connVars, closeVars, captureVars
  <1>0. c \in Any /\ c \in Conn /\ c \notin PushConn
    BY Disjoint
  <1>1. PICK event \in EventType : On(event, c, {})
    BY DEF LiveStream, RtspPlay, EventType, HttpRequest, RtspRequest
  <1>2. state[c] \in {"INIT", "READY", "PLAY", "DATA"} /\ phase = "drain" /\ UNCHANGED <<phase, closeVars>>
    BY <1>0, <1>1, HandledStates DEF On, MyTurn
  <1>3. UNCHANGED <<clientVars, connVars, nbConnections>> /\ feed' = feed \cup {c} /\ looped' \in BOOLEAN
    BY DEF LiveStream, RtspPlay, EnableSvrConn, IInv, TypeOK
  <1>4. PICK s \in {"PLAY", "DATA"} : Goto(c, s)
    BY DEF LiveStream, RtspPlay
  <1>5. /\ state' \in [Any -> State] /\ CountIsExact'
        /\ \A d \in Any : d # c => state'[d] = state[d]
        /\ state'[c] = s
        /\ \A d \in Conn : state[d] \notin {"NONE", "FREED"} => state'[d] \notin {"NONE", "FREED"}
        /\ \A d \in Conn : state[d] \in {"NONE", "FREED"} => state'[d] = state[d]
        /\ \A d \in Conn : state'[d] = "FREED" => state[d] = "FREED"
    BY <1>0, <1>2, <1>3, <1>4, StateKept
  <1>6. queue' \subseteq Event /\ EventsAlive' /\ PauseKnown'
    BY <1>0, <1>1, <1>3, <1>5, QueueKept
  <1>7. Closing'
    BY <1>2, LoopKept
  <1>8. TypeOK'
    BY <1>0, <1>2, <1>3, <1>5, <1>6 DEF IInv, TypeOK
  <1>9. PlayersAreFed'
    BY <1>0, <1>3, <1>5, Disjoint DEF IInv, PlayersAreFed
  <1>10. (NoPacketLeft /\ Accepted /\ PushAlive /\ Walk)'
    BY <1>0, <1>2, <1>3, <1>5, Disjoint DEF IInv, NoPacketLeft, Accepted, PushAlive, Walk
  <1> QED
    BY <1>5, <1>6, <1>7, <1>8, <1>9, <1>10 DEF IInv

\* The connection leaves the feed's list: the capture thread is not in it.
LEMMA StoppingPreserves ==
    ASSUME IInv, NEW c \in Conn, (c \in RtspConn /\ RtspTeardown(c)) \/ StopPush(c), UNCHANGED captureVars
    PROVE  IInv'
  <1> USE DEF clientVars, connVars, closeVars, captureVars
  <1>0. c \in Any /\ c \notin Monitor
    BY Disjoint
  <1>1. PICK event \in EventType : On(event, c, {}) /\ (c \in PushConn => event = "ERROR")
    BY Disjoint DEF RtspTeardown, StopPush, EventType, RtspRequest
  <1>2. state[c] \in {"INIT", "READY", "PLAY", "DATA"} /\ phase = "drain" /\ UNCHANGED <<phase, closeVars>>
    BY <1>0, <1>1, HandledStates DEF On, MyTurn
  <1>3. UNCHANGED <<clientVars, connVars, nbConnections, looped>> /\ feed' = feed \ {c} /\ ~walking
    BY DEF RtspTeardown, StopPush, DisableSvrConn
  <1>4. PICK s \in {"ERROR", "CLOSING"} : Goto(c, s) /\ (c \in PushConn => s = "ERROR")
    BY Disjoint DEF RtspTeardown, StopPush
  <1>5. c \in PushConn => state[c] # "INIT"
    BY <1>0, <1>1, Disjoint DEF On, Handled
  <1>6. /\ state' \in [Any -> State] /\ CountIsExact'
        /\ \A d \in Any : d # c => state'[d] = state[d]
        /\ state'[c] = s
        /\ \A d \in Conn : state[d] \notin {"NONE", "FREED"} => state'[d] \notin {"NONE", "FREED"}
        /\ \A d \in Conn : state[d] \in {"NONE", "FREED"} => state'[d] = state[d]
        /\ \A d \in Conn : state'[d] = "FREED" => state[d] = "FREED"
    BY <1>0, <1>2, <1>3, <1>4, <1>5, StateKept
  <1>7. queue' \subseteq Event /\ EventsAlive' /\ PauseKnown'
    BY <1>0, <1>1, <1>3, <1>6, QueueKept
  <1>8. Closing'
    BY <1>2, LoopKept
  <1>9. TypeOK'
    BY <1>0, <1>2, <1>3, <1>6, <1>7 DEF IInv, TypeOK
  <1>10. (PlayersAreFed /\ Accepted /\ PushAlive /\ NoPacketLeft)'
    BY <1>0, <1>2, <1>3, <1>4, <1>6, Disjoint DEF IInv, PlayersAreFed, NoPacketLeft, Accepted, PushAlive
  <1>11. Walk'
    BY <1>3 DEF IInv, Walk
  <1> QED
    BY <1>6, <1>7, <1>8, <1>9, <1>10, <1>11 DEF IInv

----------------------------------------------------------------------------
(* Listening and push connections, and the birth of a connection.          *)

LEMMA MonitorPreserves ==
    ASSUME IInv, NEW m \in Monitor, StartMonitor(m) \/ RefuseAccept(m), UNCHANGED captureVars
    PROVE  IInv'
  <1> USE DEF connVars, feedVars, closeVars, captureVars
  <1>0. m \in Any /\ m \notin Conn /\ m \notin PushConn
    BY Disjoint DEF Any
  <1>1. PICK event \in EventType : On(event, m, {})
    BY DEF StartMonitor, RefuseAccept, EventType
  <1>2. state[m] \in {"INIT", "READY", "PLAY", "DATA"} /\ phase = "drain" /\ UNCHANGED <<phase, closeVars>>
    BY <1>0, <1>1, HandledStates DEF On, MyTurn
  <1>3. UNCHANGED <<incoming, paused, connVars, feedVars, nbConnections>>
    BY DEF StartMonitor, RefuseAccept, clientVars
  <1>4. PICK s \in {"DATA", "ERROR", "CLOSING"} : Goto(m, s)
    BY DEF StartMonitor, RefuseAccept
  <1>5. /\ state' \in [Any -> State] /\ CountIsExact'
        /\ \A d \in Any : d # m => state'[d] = state[d]
        /\ \A d \in Conn : state[d] \notin {"NONE", "FREED"} => state'[d] \notin {"NONE", "FREED"}
        /\ \A d \in Conn : state'[d] = "FREED" => state[d] = "FREED"
    BY <1>0, <1>2, <1>3, <1>4, StateKept
  <1>6. queue' \subseteq Event /\ EventsAlive' /\ PauseKnown'
    BY <1>0, <1>1, <1>3, <1>5, QueueKept, E("PAUSE", m) \notin {}
  <1>7. Closing'
    BY <1>2, LoopKept
  <1>8. /\ peer' \in [Client -> {"none", "connecting", "open", "reset", "closed"}]
        /\ \A c \in Client : peer'[c] \in {"none", "connecting"} => peer[c] \in {"none", "connecting"}
    BY DEF IInv, TypeOK, StartMonitor, RefuseAccept, clientVars
  <1>9. TypeOK'
    BY <1>2, <1>3, <1>5, <1>6, <1>8 DEF IInv, TypeOK
  <1>10. \A d \in Conn : state'[d] = state[d]
    BY <1>0, <1>5, Disjoint
  <1>11. (NoPacketLeft /\ PlayersAreFed /\ Accepted /\ PushAlive /\ Walk)'
    BY <1>3, <1>8, <1>10, Disjoint DEF IInv, NoPacketLeft, PlayersAreFed, Accepted, PushAlive, Walk
  <1> QED
    BY <1>5, <1>6, <1>7, <1>9, <1>11 DEF IInv

\* One more connection counts: it was in neither set before.
LEMMA CountUp ==
    ASSUME IInv, NEW c \in Conn, NEW s, nbConnections' = nbConnections + 1,
           \A d \in Any : d # c => state'[d] = state[d], state'[c] = s,
           \/ c \in Client /\ state[c] = "NONE" /\ s = "INIT"
           \/ c \in PushConn /\ state[c] = "INIT" /\ s = "DATA"
    PROVE  CountIsExact'
  <1> DEFINE P == {d \in PushConn : state[d] # "INIT"}
  <1>1. IsFiniteSet(ServiceConns) /\ IsFiniteSet(P)
    <2>1. ServiceConns \subseteq Conn /\ P \subseteq Conn
      BY Disjoint DEF ServiceConns
    <2> QED
      BY <2>1, FS_Subset, SvrAssumption
  <1>2. Cardinality(ServiceConns) \in Nat /\ Cardinality(P) \in Nat
    BY <1>1, FS_CardinalityType
  <1>3. CASE c \in Client
    <2>1. c \notin ServiceConns /\ ServiceConns' = ServiceConns \cup {c}
      BY <1>3, Disjoint DEF ServiceConns, Alive
    <2>2. {d \in PushConn : state'[d] # "INIT"} = P
      BY <1>3, Disjoint
    <2>3. Cardinality(ServiceConns') = Cardinality(ServiceConns) + 1
      BY <1>1, <2>1, FS_AddElement
    <2>4. CountIsExact' <=> nbConnections' = Cardinality(ServiceConns') + Cardinality(P)
      BY <2>2 DEF CountIsExact
    <2>5. nbConnections = Cardinality(ServiceConns) + Cardinality(P)
      BY DEF IInv, CountIsExact
    <2> HIDE DEF P
    <2> QED
      BY <1>2, <2>3, <2>4, <2>5
  <1>4. CASE c \in PushConn
    <2>1. c \notin P /\ {d \in PushConn : state'[d] # "INIT"} = P \cup {c}
      BY <1>4, Disjoint
    <2>2. ServiceConns' = ServiceConns
      BY <1>4, Disjoint DEF ServiceConns, Alive
    <2>3. Cardinality(P \cup {c}) = Cardinality(P) + 1
      BY <1>1, <2>1, FS_AddElement
    <2>4. CountIsExact' <=> nbConnections' = Cardinality(ServiceConns) + Cardinality(P \cup {c})
      BY <2>1, <2>2 DEF CountIsExact
    <2>5. nbConnections = Cardinality(ServiceConns) + Cardinality(P)
      BY DEF IInv, CountIsExact
    <2> HIDE DEF P
    <2> QED
      BY <1>2, <2>3, <2>4, <2>5
  <1> QED
    BY <1>3, <1>4

LEMMA AcceptPreserves ==
    ASSUME IInv, NEW m \in Monitor, Accept(m), UNCHANGED captureVars
    PROVE  IInv'
  <1> USE DEF connVars, feedVars, closeVars, captureVars
  <1>0. m \in Any /\ m \notin Conn
    BY Disjoint DEF Any
  <1>1. PICK c \in Client : peer[c] = "connecting" /\ peer' = [peer EXCEPT ![c] = "open"] /\ Goto(c, "INIT")
    BY DEF Accept
  <1>2. On("POLL_IN", m, {}) /\ "POLL_IN" \in EventType /\ phase = "drain" /\ UNCHANGED <<phase, closeVars>>
    BY DEF Accept, On, MyTurn, EventType
  <1>3. UNCHANGED <<incoming, paused, connVars, feedVars>> /\ nbConnections' = nbConnections + 1
    BY DEF Accept
  <1>4. state[c] = "NONE" /\ c \in Conn /\ c \in Any /\ c \notin PushConn
    BY <1>1, Disjoint DEF IInv, Accepted
  <1>5. /\ state' \in [Any -> State] /\ state'[c] = "INIT"
        /\ \A d \in Any : d # c => state'[d] = state[d]
    BY <1>1, <1>4 DEF Goto, IInv, TypeOK, State
  <1>6. CountIsExact'
    BY <1>1, <1>3, <1>4, <1>5, CountUp
  <1>7. \A d \in Conn : /\ state[d] \notin {"NONE", "FREED"} => state'[d] \notin {"NONE", "FREED"}
                        /\ d # c => state'[d] = state[d]
    BY <1>5, Disjoint
  <1>8. queue' \subseteq Event /\ EventsAlive' /\ PauseKnown'
    BY <1>0, <1>2, <1>3, <1>7, QueueKept, E("PAUSE", m) \notin {}
  <1>9. Closing'
    BY <1>2, LoopKept
  <1>10. TypeOK'
    BY <1>1, <1>2, <1>3, <1>5, <1>8 DEF IInv, TypeOK
  <1>11. (NoPacketLeft /\ PlayersAreFed /\ PushAlive /\ Walk)'
    BY <1>3, <1>4, <1>5, <1>7, Disjoint DEF IInv, NoPacketLeft, PlayersAreFed, PushAlive, Walk
  <1>12. Accepted'
    BY <1>1, <1>7, Disjoint DEF IInv, TypeOK, Accepted
  <1> QED
    BY <1>6, <1>8, <1>9, <1>10, <1>11, <1>12 DEF IInv

LEMMA StartPushPreserves ==
    ASSUME IInv, NEW c \in PushConn, StartPush(c), UNCHANGED captureVars
    PROVE  IInv'
  <1> USE DEF clientVars, connVars, closeVars, captureVars
  <1>0. c \in Any /\ c \in Conn /\ c \notin Client /\ c \notin Monitor
    BY Disjoint
  <1>1. On("START", c, {}) /\ "START" \in EventType /\ phase = "drain" /\ UNCHANGED <<phase, closeVars>>
    BY DEF StartPush, On, MyTurn, EventType
  <1>2. state[c] = "INIT"
    BY <1>0, <1>1, Disjoint DEF On, Handled, IInv, PushAlive
  <1>3. /\ UNCHANGED <<clientVars, connVars>> /\ nbConnections' = nbConnections + 1
        /\ feed' = feed \cup {c} /\ looped' \in BOOLEAN
    BY DEF StartPush, EnableSvrConn, IInv, TypeOK
  <1>4. /\ state' \in [Any -> State] /\ state'[c] = "DATA"
        /\ \A d \in Any : d # c => state'[d] = state[d]
    BY <1>0 DEF StartPush, Goto, IInv, TypeOK, State
  <1>5. CountIsExact'
    BY <1>0, <1>2, <1>3, <1>4, CountUp
  <1>6. \A d \in Conn : /\ state[d] \notin {"NONE", "FREED"} => state'[d] \notin {"NONE", "FREED"}
                        /\ d # c => state'[d] = state[d]
    BY <1>4, Disjoint
  <1>7. queue' \subseteq Event /\ EventsAlive' /\ PauseKnown'
    BY <1>0, <1>1, <1>3, <1>6, QueueKept, E("PAUSE", c) \notin {}
  <1>8. Closing'
    BY <1>1, LoopKept
  <1>9. TypeOK'
    BY <1>0, <1>1, <1>3, <1>4, <1>7 DEF IInv, TypeOK
  <1>10. (NoPacketLeft /\ PlayersAreFed /\ Accepted /\ PushAlive /\ Walk)'
    BY <1>0, <1>2, <1>3, <1>4, <1>6, Disjoint DEF IInv, NoPacketLeft, PlayersAreFed, Accepted, PushAlive, Walk
  <1> QED
    BY <1>5, <1>7, <1>8, <1>9, <1>10 DEF IInv

----------------------------------------------------------------------------
(* muxSvrCloseConnect: the queue is empty.                                 *)

LEMMA BeginClosePreserves ==
    ASSUME IInv, BeginClose, UNCHANGED captureVars
    PROVE  IInv'
  <1> USE DEF BeginClose, clientVars, connVars, feedVars, closeVars, captureVars
  <1>1. CountIsExact'
    BY CountKept DEF IInv
  <1>2. visit' \subseteq Client /\ \A c \in visit' : state[c] = "CLOSING"
    BY DEF ServiceConns
  <1>3. TypeOK' /\ Closing'
    BY <1>2 DEF IInv, TypeOK, Closing
  <1>4. (EventsAlive /\ PauseKnown)'
    BY DEF IInv, EventsAlive, PauseKnown, Alive, E
  <1>5. (NoPacketLeft /\ PlayersAreFed /\ Accepted /\ PushAlive /\ Walk)'
    BY DEF IInv, NoPacketLeft, PlayersAreFed, Accepted, PushAlive, Walk
  <1> QED
    BY <1>1, <1>3, <1>4, <1>5 DEF IInv

LEMMA UnlinkPreserves ==
    ASSUME IInv, NEW c \in Client, Unlink(c), UNCHANGED captureVars
    PROVE  IInv'
  <1> USE DEF clientVars, connVars, closeVars, captureVars
  <1>1. CountIsExact'
    BY CountKept DEF IInv, Unlink
  <1>2. /\ UNCHANGED <<clientVars, state, connVars, nbConnections, queue>> /\ phase = "close" /\ phase' = "free"
        /\ victim' = c /\ c \in visit
    BY DEF Unlink
  <1>3. visit' \subseteq visit /\ c \notin visit'
    BY DEF Unlink
  <1>4. feed' = feed \ {c} /\ looped' = looped /\ (~walking \/ c \notin feed)
    BY DEF Unlink, DisableSvrConn, feedVars
  <1>5. state[c] = "CLOSING"
    BY <1>2 DEF IInv, Closing
  <1>6. TypeOK'
    BY <1>2, <1>3, <1>4 DEF IInv, TypeOK
  <1>7. Closing'
    BY <1>2, <1>3, <1>4, <1>5 DEF IInv, Closing
  <1>8. (EventsAlive /\ PauseKnown /\ NoPacketLeft /\ Accepted /\ PushAlive)'
    BY <1>2 DEF IInv, EventsAlive, PauseKnown, Alive, E, NoPacketLeft, Accepted, PushAlive
  <1>9. PlayersAreFed'
    BY <1>2, <1>4, <1>5 DEF IInv, PlayersAreFed
  <1>10. Walk'
    BY <1>4 DEF IInv, Walk
  <1> QED
    BY <1>1, <1>6, <1>7, <1>8, <1>9, <1>10 DEF IInv

LEMMA ClosePreserves ==
    ASSUME IInv, CloseConnection, UNCHANGED captureVars
    PROVE  IInv'
  <1> USE DEF feedVars, captureVars
  <1>1. /\ victim \in Client /\ victim \notin feed /\ victim \notin visit /\ state[victim] = "CLOSING" /\ queue = {}
    BY DEF CloseConnection, IInv, Closing
  <1>2. victim \in Conn /\ victim \in Any /\ victim \notin PushConn
    BY <1>1, Disjoint
  <1>3. /\ state' \in [Any -> State] /\ state'[victim] = "FREED"
        /\ \A d \in Any : d # victim => state'[d] = state[d]
    BY <1>2 DEF CloseConnection, Goto, IInv, TypeOK, State
  <1>4. /\ fifo' \in [Conn -> 0..FifoSize] /\ fifo'[victim] = 0
        /\ \A d \in Conn : d # victim => fifo'[d] = fifo[d]
    BY <1>2, SvrAssumption DEF CloseConnection, IInv, TypeOK
  <1>5. /\ peer' \in [Client -> {"none", "connecting", "open", "reset", "closed"}] /\ peer'[victim] = "closed"
        /\ \A d \in Client : d # victim => peer'[d] = peer[d]
    BY <1>1 DEF CloseConnection, IInv, TypeOK
  <1>6. UNCHANGED <<feedVars, queue, visit>> /\ phase' = "close" /\ victim' = None /\ phase = "free"
    BY DEF CloseConnection
  <1>7. CountIsExact' /\ nbConnections' \in Nat
    <2> DEFINE P == {d \in PushConn : state[d] # "INIT"}
    <2>1. ServiceConns' = ServiceConns \ {victim} /\ victim \in ServiceConns
      BY <1>1, <1>2, <1>3, Disjoint DEF ServiceConns, Alive
    <2>2. {d \in PushConn : state'[d] # "INIT"} = P
      BY <1>2, <1>3, Disjoint
    <2>3. IsFiniteSet(ServiceConns) /\ IsFiniteSet(P)
      <3>1. ServiceConns \subseteq Conn /\ P \subseteq Conn
        BY Disjoint DEF ServiceConns
      <3> QED
        BY <3>1, FS_Subset, SvrAssumption
    <2>4. Cardinality(ServiceConns) \in Nat /\ Cardinality(P) \in Nat /\ Cardinality(ServiceConns') \in Nat
      BY <2>1, <2>3, FS_CardinalityType, FS_RemoveElement
    <2>5. Cardinality(ServiceConns') = Cardinality(ServiceConns) - 1
      BY <2>1, <2>3, FS_RemoveElement
    <2>6. nbConnections = Cardinality(ServiceConns) + Cardinality(P) /\ nbConnections' = nbConnections - 1
      BY DEF IInv, CountIsExact, CloseConnection
    <2>7. CountIsExact' <=> nbConnections' = Cardinality(ServiceConns') + Cardinality(P)
      BY <2>2 DEF CountIsExact
    <2> HIDE DEF P
    <2> QED
      BY <2>4, <2>5, <2>6, <2>7
  <1>8. TypeOK'
    <2>1. request' \in [HttpConn -> HttpRequest \cup {None}]
      BY DEF CloseConnection, IInv, TypeOK
    <2>2. incoming' \subseteq Client /\ paused' \subseteq Client
      BY DEF CloseConnection, IInv, TypeOK
    <2> QED
      BY <1>3, <1>4, <1>5, <1>6, <1>7, <2>1, <2>2 DEF IInv, TypeOK
  <1>9. \A d \in Conn : d # victim => state'[d] = state[d] /\ (d \in paused => d \in paused')
    BY <1>3, Disjoint DEF CloseConnection
  <1>10. (EventsAlive /\ PauseKnown /\ Closing)'
    BY <1>1, <1>6, <1>9, Disjoint DEF EventsAlive, PauseKnown, IInv, TypeOK, Closing
  <1>11. (NoPacketLeft /\ PlayersAreFed)'
    BY <1>1, <1>2, <1>3, <1>4, <1>6, <1>9 DEF IInv, NoPacketLeft, PlayersAreFed
  <1>12. (Accepted /\ PushAlive /\ Walk)'
    BY <1>2, <1>5, <1>6, <1>9, Disjoint DEF IInv, Accepted, PushAlive, Walk
  <1> QED
    BY <1>7, <1>8, <1>10, <1>11, <1>12 DEF IInv

----------------------------------------------------------------------------
(* Every step, and what follows.                                           *)

LEMMA StutterPreserves == IInv /\ UNCHANGED vars => IInv'
  <1> SUFFICES ASSUME IInv, UNCHANGED vars PROVE IInv'
    OBVIOUS
  <1> USE DEF vars, clientVars, connVars, feedVars, closeVars, captureVars
  <1>1. CountIsExact'
    BY CountKept DEF IInv
  <1> QED
    BY <1>1 DEF IInv, TypeOK, EventsAlive, Alive, NoPacketLeft, PlayersAreFed, Accepted, PushAlive, Walk,
               PauseKnown, Closing, E

LEMMA HandlePreserves == IInv /\ Handle /\ UNCHANGED captureVars => IInv'
  <1> SUFFICES ASSUME IInv, Handle, UNCHANGED captureVars PROVE IInv'
    OBVIOUS
  <1>1. ASSUME NEW m \in Monitor, StartMonitor(m) \/ Accept(m) \/ RefuseAccept(m) PROVE IInv'
    BY <1>1, MonitorPreserves, AcceptPreserves
  <1>2. ASSUME NEW c \in PushConn, StartPush(c) \/ StopPush(c) PROVE IInv'
    BY <1>2, StartPushPreserves, StoppingPreserves, Disjoint
  <1>3. ASSUME NEW c \in Client, Ending(c) PROVE IInv'
    BY <1>3, EndingPreserves
  <1>4. ASSUME NEW c \in Client, (c \in HttpConn /\ LiveStream(c)) \/ (c \in RtspConn /\ RtspPlay(c)) PROVE IInv'
    BY <1>4, StreamingPreserves
  <1>5. ASSUME NEW c \in RtspConn, RtspTeardown(c) PROVE IInv'
    BY <1>5, StoppingPreserves, Disjoint
  <1>6. CASE Quiet
    BY <1>6, QuietPreserves
  <1>7. \/ Quiet
        \/ \E m \in Monitor : StartMonitor(m) \/ Accept(m) \/ RefuseAccept(m)
        \/ \E c \in PushConn : StartPush(c) \/ StopPush(c)
        \/ \E c \in Client : Ending(c) \/ (c \in HttpConn /\ LiveStream(c)) \/ (c \in RtspConn /\ RtspPlay(c))
        \/ \E c \in RtspConn : RtspTeardown(c)
    BY Disjoint DEF Handle, Quiet, Ending
  <1> QED
    BY <1>1, <1>2, <1>3, <1>4, <1>5, <1>6, <1>7

LEMMA NextPreserves == IInv /\ [Next]_vars => IInv'
  <1> SUFFICES ASSUME IInv, [Next]_vars PROVE IInv'
    OBVIOUS
  <1>1. CASE ClientStep
    BY <1>1, ClientPreserves
  <1>2. CASE CaptureStep
    BY <1>2, CapturePreserves
  <1>3. CASE ServerStep
    BY <1>3, PollPreserves, HandlePreserves, BeginClosePreserves, UnlinkPreserves, ClosePreserves
       DEF ServerStep, CloseConnect
  <1>4. CASE UNCHANGED vars
    BY <1>4, StutterPreserves
  <1> QED
    BY <1>1, <1>2, <1>3, <1>4 DEF Next

LEMMA Invariance == Spec => []IInv
  <1> QED
    BY InitIInv, NextPreserves, PTL DEF Spec

\* The variables of the server keep to their ranges, whatever its configuration.
THEOREM ServerTyped == Spec => []TypeOK
  <1>1. IInv => TypeOK
    BY DEF IInv
  <1> QED
    BY <1>1, Invariance, PTL

\* A connection that was freed is in no list: neither the capture thread's walk nor a later
\* one can reach it, for any number of clients and push services.
THEOREM NoDanglingMember == Spec => []MembersAlive
  <1>1. IInv => MembersAlive
    <2> SUFFICES ASSUME IInv PROVE MembersAlive
      OBVIOUS
    <2>1. victim \notin feed
      BY SvrAssumption, Disjoint DEF IInv, Closing, TypeOK
    <2>2. feed \subseteq Alive
      BY DEF IInv, PlayersAreFed, TypeOK, Alive
    <2> QED
      BY <2>1, <2>2 DEF MembersAlive, IInv, Walk
  <1> QED
    BY <1>1, Invariance, PTL

\* The server thread never handles an event of a connection that was freed.
THEOREM NoDanglingEvent == Spec => []EventsAlive
  <1>1. IInv => EventsAlive
    BY DEF IInv
  <1> QED
    BY <1>1, Invariance, PTL

\* __closeConnection leaves no packet behind.
THEOREM PacketsFreed == Spec => []NoPacketLeft
  <1>1. IInv => NoPacketLeft
    BY DEF IInv
  <1> QED
    BY <1>1, Invariance, PTL

\* A connection is in the feed's list while it plays, and leaves the list only to be closed.
THEOREM FeedMatchesStates == Spec => []PlayersAreFed
  <1>1. IInv => PlayersAreFed
    BY DEF IInv
  <1> QED
    BY <1>1, Invariance, PTL

\* nbConnections is the number of connections, for every limit and every order of refusals.
THEOREM CountExact == Spec => []CountIsExact
  <1>1. IInv => CountIsExact
    BY DEF IInv
  <1> QED
    BY <1>1, Invariance, PTL
=============================================================================
