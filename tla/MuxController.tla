--------------------------- MODULE MuxController ---------------------------
(***************************************************************************)
(* The way of a command from a client to the thread that answers it        *)
(* (cmnMuxController.c, cmnMuxJson.c, cmnMuxJsonMedia.c, muxMain.c).       *)
(*                                                                         *)
(* The controller thread accepts a client, reads one command, makes a      *)
(* DATA_CONN of it and either answers itself or puts an event with a       *)
(* pointer to the DATA_CONN into the queue of a plugin, whose thread       *)
(* answers and frees the DATA_CONN.  Both threads meet in the DATA_CONN:   *)
(* the controller looks at it once more after it has put the event into    *)
(* the queue, protected by nothing but the mutex of the DATA_CONN.         *)
(*                                                                         *)
(* The DATA_CONN of a client is named by the client.  A reply is written   *)
(* to a file descriptor, and descriptors are numbers that the kernel gives *)
(* out again, the lowest first.                                            *)
(***************************************************************************)
EXTENDS Naturals, Sequences, FiniteSets

CONSTANTS
    Client,       \* each sends one command
    Datagram,     \* the clients that use UDP; the others have a socket each
    Player,       \* answers some commands later, one at a time
    Helper,       \* plugins that answer in their event handler (recorder, server)
    Ftp,          \* the FTP thread, started before the controller
    Web,          \* the web plugin, which drops its events
    MaxFd,        \* descriptors the process may have for its clients
    QueueSize,    \* DEFAULT_THREAD_QUEUE_LENGTH
    None          \* no client, no descriptor

Plugin == {Player, Web} \cup Helper
Thread == {Player, Ftp} \cup Helper     \* those with an event queue
Fd == 1 .. MaxFd

\* What a command is apart from one for a plugin or the FTP thread: one that
\* fails tag, CRC or JSON or is not in the table; one without cmd field, data
\* array or configured plugin; one the controller executes.
Kind == Plugin \cup {Ftp} \cup {"wrong", "malformed", "main"}

ASSUME ControllerAssumption ==
    /\ None \notin Client \cup Fd /\ Datagram \subseteq Client
    /\ Player \notin Helper \cup {Web, Ftp} /\ Web \notin Helper \cup {Ftp} /\ Ftp \notin Helper
    /\ MaxFd \in Nat /\ QueueSize \in Nat \ {0}

VARIABLES
    peer,         \* what each client has done so far
    kind,         \* the command it sent, chosen when it is read
    inbox,        \* whose replies arrived at its end of the connection
    openFile,     \* the connection each descriptor stands for
    conn,         \* DATA_CONN of each client: not yet allocated, live, freed
    sock,         \* dataConn->sock
    errCode,      \* dataConn->errCode
    replies,      \* calls of cmnMuxCtrlResponse for the command (a history)
    pc, at,       \* where the controller is, and with which client
    queue,        \* the events in the queue of each thread
    loaded,       \* how far each plugin is
    taken,        \* commands that a queue took (a history)
    step, cmd,    \* where the thread of a plugin is, and with which event
    current,      \* the command the player will answer later
    down          \* the process has died

vars == <<peer, kind, inbox, openFile, conn, sock, errCode, replies, pc, at,
          queue, loaded, taken, step, cmd, current, down>>
clientVars == <<peer, kind>>
dataVars == <<inbox, openFile, conn, sock, errCode, replies>>
threadVars == <<queue, taken, step, cmd, current>>


Init ==
    /\ peer = [c \in Client |-> "idle"]
    /\ kind = [c \in Client |-> "main"]
    /\ inbox = [c \in Client |-> {}]
    /\ openFile = [f \in Fd |-> None]
    /\ conn = [c \in Client |-> "none"]
    /\ sock = [c \in Client |-> None]
    /\ errCode = [c \in Client |-> "noError"]
    /\ replies = [c \in Client |-> 0]
    /\ pc = "select" /\ at = None
    /\ queue = [t \in Thread |-> <<>>]
    /\ loaded = [p \in Plugin |-> "configured"]
    /\ taken = {}
    /\ step = [t \in Thread |-> "wait"]
    /\ cmd = [t \in Thread |-> None]
    /\ current = None
    /\ down = FALSE

----------------------------------------------------------------------------
(* The clients and the start of the plugins.                               *)

Connect(c) ==
    /\ peer[c] = "idle"
    /\ peer' = [peer EXCEPT ![c] = "connected"]
    /\ UNCHANGED <<kind, dataVars, pc, at, threadVars, loaded, down>>

Send(c) ==
    /\ peer[c] = "connected"
    /\ peer' = [peer EXCEPT ![c] = "sent"]
    /\ UNCHANGED <<kind, dataVars, pc, at, threadVars, loaded, down>>

\* A client with a socket goes away without a command.
HangUp(c) ==
    /\ peer[c] = "connected" /\ c \notin Datagram
    /\ peer' = [peer EXCEPT ![c] = "gone"]
    /\ UNCHANGED <<kind, dataVars, pc, at, threadVars, loaded, down>>

\* init of a plugin sets reportEvent, and starts the thread with the queue later;
\* the web plugin does not use its queue.
Load(p) ==
    /\ loaded[p] # "running"
    /\ loaded' = [loaded EXCEPT ![p] = IF @ = "configured" /\ p # Web THEN "registered" ELSE "running"]
    /\ UNCHANGED <<clientVars, dataVars, pc, at, threadVars, down>>

----------------------------------------------------------------------------
(* A reply, and the end of a DATA_CONN.                                    *)

\* Mutant: the socket is closed without a word when the command failed.
MutRespond(c) ==
    /\ replies' = [replies EXCEPT ![c] = IF errCode[c] = "error" THEN @ ELSE @ + 1]
    /\ openFile' = IF c \in Datagram THEN openFile ELSE [openFile EXCEPT ![sock[c]] = None]
    /\ UNCHANGED inbox

\* cmnMuxCtrlResponse: write, and close of the socket.
Respond(c) ==
    /\ replies' = [replies EXCEPT ![c] = @ + 1]
    /\ IF c \in Datagram
       THEN inbox' = [inbox EXCEPT ![c] = @ \cup {c}] /\ UNCHANGED openFile
       ELSE LET owner == openFile[sock[c]] IN
            /\ inbox' = IF owner = None THEN inbox
                        ELSE [inbox EXCEPT ![owner] = @ \cup {c}]
            /\ openFile' = [openFile EXCEPT ![sock[c]] = None]

\* cmnMuxDataConnClose: the socket once more, and the memory.
CloseDataConn(c) ==
    /\ openFile' = IF c \in Datagram THEN openFile ELSE [openFile EXCEPT ![sock[c]] = None]
    /\ conn' = [conn EXCEPT ![c] = "freed"]

----------------------------------------------------------------------------
(* The controller thread.                                                  *)

FreeFd == {f \in Fd : openFile[f] = None}
Lowest(f) == f \in FreeFd /\ \A g \in FreeFd : f <= g

\* select and accept; when no descriptor is left the client stays where it is.
Accept(c) ==
    /\ pc = "select" /\ c \notin Datagram /\ sock[c] = None /\ peer[c] # "idle"
    /\ \E f \in Fd : /\ Lowest(f)
                     /\ sock' = [sock EXCEPT ![c] = f]
                     /\ openFile' = [openFile EXCEPT ![f] = c]
    /\ pc' = "read" /\ at' = c
    /\ UNCHANGED <<clientVars, inbox, conn, errCode, replies, threadVars, loaded, down>>

\* What the command is matters from here on.
MakeDataConn(c) ==
    /\ \E k \in Kind : kind' = [kind EXCEPT ![c] = k]
    /\ conn' = [conn EXCEPT ![c] = "live"]
    /\ errCode' = [errCode EXCEPT ![c] = IF kind'[c] = "wrong" THEN "error" ELSE "noError"]
    /\ pc' = "dispatch" /\ at' = c
    /\ UNCHANGED <<peer, inbox, openFile, sock, replies, threadVars, loaded, down>>

\* The controller waits for the command of the accepted client and of no other.
Read(c) ==
    /\ pc = "read" /\ at = c /\ peer[c] = "sent"
    /\ MakeDataConn(c)

ReadDatagram(c) ==
    /\ pc = "select" /\ c \in Datagram /\ peer[c] = "sent" /\ conn[c] = "none"
    /\ MakeDataConn(c)

\* read returns nothing, or fails because another thread has closed the
\* descriptor meanwhile: the controller goes on and the descriptor stays.
ReadNothing(c) ==
    /\ pc = "read" /\ at = c
    /\ peer[c] = "gone" \/ openFile[sock[c]] # c
    /\ pc' = "select" /\ at' = None
    /\ UNCHANGED <<clientVars, dataVars, threadVars, loaded, down>>

\* A command that arrives in two pieces: the code sets errCode of a DATA_CONN
\* that has not been allocated.
ReadPiece(c) ==
    /\ pc = "read" /\ at = c /\ peer[c] = "sent"
    /\ down' = TRUE
    /\ UNCHANGED <<clientVars, dataVars, pc, at, threadVars, loaded>>

\* The controller answers; errCode is anything but IN_PROCESSING afterwards.
AnswerItself(c) ==
    /\ pc = "dispatch" /\ at = c
    /\ \/ kind[c] = "wrong" /\ errCode' = [errCode EXCEPT ![c] = "error"]
       \/ kind[c] = "main" /\ \E e \in {"noError", "error"} : errCode' = [errCode EXCEPT ![c] = e]
       \/ kind[c] = Ftp /\ Len(queue[Ftp]) >= QueueSize /\ errCode' = [errCode EXCEPT ![c] = "error"]
       \/ kind[c] \in Plugin /\ loaded[kind[c]] = "configured" /\ errCode' = [errCode EXCEPT ![c] = "error"]
    /\ Respond(c)
    /\ pc' = "close"
    /\ UNCHANGED <<clientVars, conn, sock, at, threadVars, loaded, down>>

\* CMN_CONTROLLER_REPLY_DATA_ERR before the handler is called only sets errCode.
RefuseSilently(c) ==
    /\ pc = "dispatch" /\ at = c /\ kind[c] = "malformed"
    /\ errCode' = [errCode EXCEPT ![c] = "error"]
    /\ pc' = "close"
    /\ UNCHANGED <<clientVars, inbox, openFile, conn, sock, replies, at, threadVars, loaded, down>>

\* The event goes into the queue; cmn_fifo_add refuses it when the queue is
\* full, and nobody looks at what the reportEvent of a plugin returns.
Report(c) ==
    /\ pc = "dispatch" /\ at = c
    /\ \/ kind[c] = Ftp /\ Len(queue[Ftp]) < QueueSize
       \/ kind[c] \in Plugin /\ loaded[kind[c]] = "running"
    /\ IF kind[c] = Web \/ Len(queue[kind[c]]) >= QueueSize
       THEN UNCHANGED <<queue, taken>>
       ELSE /\ queue' = [queue EXCEPT ![kind[c]] = Append(@, c)]
            /\ taken' = taken \cup {c}
    /\ pc' = "handOver"
    /\ UNCHANGED <<clientVars, dataVars, at, step, cmd, current, loaded, down>>

\* The plugin is registered but has no queue yet.
ReportTooEarly(c) ==
    /\ pc = "dispatch" /\ at = c
    /\ kind[c] \in Plugin /\ loaded[kind[c]] = "registered"
    /\ down' = TRUE
    /\ UNCHANGED <<clientVars, dataVars, pc, at, threadVars, loaded>>

\* errCode becomes IN_PROCESSING, is looked at, and the mutex is released.
HandOver(c) ==
    /\ pc = "handOver" /\ at = c
    /\ errCode' = [errCode EXCEPT ![c] = "processing"]
    /\ pc' = "select" /\ at' = None
    /\ UNCHANGED <<clientVars, inbox, openFile, conn, sock, replies, threadVars, loaded, down>>

Close(c) ==
    /\ pc = "close" /\ at = c
    /\ CloseDataConn(c)
    /\ pc' = "select" /\ at' = None
    /\ UNCHANGED <<clientVars, inbox, sock, errCode, replies, threadVars, loaded, down>>

----------------------------------------------------------------------------
(* The thread of a plugin.                                                 *)

\* Mutant: the handler does not take the mutex of the DATA_CONN.
MutLockFree(c) == c \in Client

\* The mutex of a DATA_CONN is the controller's from its first look to its last.
LockFree(c) == ~ (at = c /\ pc \in {"dispatch", "handOver"})

Get(t) ==
    /\ step[t] = "wait" /\ queue[t] # <<>>
    /\ t \in Plugin => loaded[t] = "running"
    /\ step' = [step EXCEPT ![t] = "handle"]
    /\ cmd' = [cmd EXCEPT ![t] = Head(queue[t])]
    /\ queue' = [queue EXCEPT ![t] = Tail(@)]
    /\ UNCHANGED <<clientVars, dataVars, pc, at, taken, current, loaded, down>>

\* Mutant: a second command may be left for later.
MutHandle(t) ==
    LET c == cmd[t] IN
    /\ step[t] = "handle" /\ LockFree(c)
    /\ \/ /\ \E e \in {"noError", "error"} : errCode' = [errCode EXCEPT ![c] = e]
          /\ UNCHANGED current
       \/ /\ t = Player
          /\ errCode' = [errCode EXCEPT ![c] = "processing"]
          /\ current' = c
    /\ step' = [step EXCEPT ![t] = "reply"]
    /\ UNCHANGED <<clientVars, inbox, openFile, conn, sock, replies, pc, at, cmd, queue, taken, loaded, down>>

\* The handler runs under the mutex.  Only the player may leave a command for
\* later, and only when it has no other.
Handle(t) ==
    LET c == cmd[t] IN
    /\ step[t] = "handle" /\ LockFree(c)
    /\ \/ /\ \E e \in {"noError", "error"} : errCode' = [errCode EXCEPT ![c] = e]
          /\ UNCHANGED current
       \/ /\ t = Player /\ current = None
          /\ errCode' = [errCode EXCEPT ![c] = "processing"]
          /\ current' = c
    /\ step' = [step EXCEPT ![t] = "reply"]
    /\ UNCHANGED <<clientVars, inbox, openFile, conn, sock, replies, pc, at, cmd, queue, taken, loaded, down>>

\* cmnMuxJsonPluginReplay.
Reply(t) ==
    LET c == cmd[t] IN
    /\ step[t] = "reply"
    /\ IF errCode[c] = "processing"
       THEN /\ step' = [step EXCEPT ![t] = "wait"]
            /\ UNCHANGED <<inbox, openFile, replies, current>>
       ELSE /\ Respond(c)
            /\ step' = [step EXCEPT ![t] = "close"]
            /\ current' = IF current = c THEN None ELSE current
    /\ UNCHANGED <<clientVars, conn, sock, errCode, pc, at, cmd, queue, taken, loaded, down>>

PluginClose(t) ==
    /\ step[t] = "close"
    /\ CloseDataConn(cmd[t])
    /\ step' = [step EXCEPT ![t] = "wait"]
    /\ UNCHANGED <<clientVars, inbox, sock, errCode, replies, pc, at, cmd, queue, taken, current, loaded, down>>

\* An event of the player ends its command (cmnMuxJEventReply).
Finish ==
    /\ step[Player] = "wait" /\ current # None
    /\ \E e \in {"noError", "error"} : errCode' = [errCode EXCEPT ![current] = e]
    /\ step' = [step EXCEPT ![Player] = "reply"]
    /\ cmd' = [cmd EXCEPT ![Player] = current]
    /\ UNCHANGED <<clientVars, inbox, openFile, conn, sock, replies, pc, at, queue, taken, current, loaded, down>>

----------------------------------------------------------------------------
ControllerStep ==
    \E c \in Client : Accept(c) \/ Read(c) \/ ReadDatagram(c) \/ ReadNothing(c)
                      \/ AnswerItself(c) \/ RefuseSilently(c) \/ Report(c) \/ HandOver(c) \/ Close(c)

ThreadStep(t) == Get(t) \/ Handle(t) \/ Reply(t) \/ PluginClose(t)

ClientStep == \E c \in Client : Connect(c) \/ Send(c) \/ HangUp(c)

Crash == \E c \in Client : ReadPiece(c) \/ ReportTooEarly(c)

Next ==
    /\ ~ down
    /\ \/ ClientStep \/ ControllerStep \/ Finish \/ Crash
       \/ \E p \in Plugin : Load(p)
       \/ \E t \in Thread : ThreadStep(t)

Spec == Init /\ [][Next]_vars

\* Every thread that can go on goes on, and the player finishes its command.
Fairness ==
    /\ WF_vars(~ down /\ ControllerStep)
    /\ \A t \in Thread : WF_vars(~ down /\ ThreadStep(t))
    /\ WF_vars(~ down /\ Finish)

FairSpec == Spec /\ Fairness

----------------------------------------------------------------------------
(* The variables keep to their ranges, and the controller has a client      *)
(* exactly while it is not waiting in select (_cmnMuxControllerReceive).    *)
TypeOK ==
    /\ peer \in [Client -> {"idle", "connected", "sent", "gone"}]
    /\ kind \in [Client -> Kind]
    /\ inbox \in [Client -> SUBSET Client]
    /\ openFile \in [Fd -> Client \cup {None}]
    /\ conn \in [Client -> {"none", "live", "freed"}]
    /\ sock \in [Client -> Fd \cup {None}]
    /\ errCode \in [Client -> {"noError", "error", "processing"}]
    /\ replies \in [Client -> Nat]
    /\ pc \in {"select", "read", "dispatch", "handOver", "close"}
    /\ at \in Client \cup {None} /\ (at = None <=> pc = "select")
    /\ queue \in [Thread -> Seq(Client)]
    /\ loaded \in [Plugin -> {"configured", "registered", "running"}]
    /\ taken \subseteq Client
    /\ step \in [Thread -> {"wait", "handle", "reply", "close"}]
    /\ cmd \in [Thread -> Client \cup {None}]
    /\ \A t \in Thread : step[t] # "wait" => cmd[t] \in Client
    /\ current \in Client \cup {None}
    /\ down \in BOOLEAN

Queued(t) == {queue[t][i] : i \in DOMAIN queue[t]}

\* The commands a thread has to do with.
Held(t) ==
    Queued(t) \cup (IF step[t] # "wait" THEN {cmd[t]} ELSE {})
              \cup (IF t = Player /\ current # None THEN {current} ELSE {})

(* Nobody looks at a DATA_CONN that has been freed: not the controller,     *)
(* which sets and reads errCode after the plugin may already have the       *)
(* event, nor a thread whose queue or whose current command points to it    *)
(* (_cmnMuxControllerReceive, cmnMuxJsonPluginReplay).                      *)
NoUseAfterFree ==
    /\ pc \in {"dispatch", "handOver", "close"} => conn[at] = "live"
    /\ \A t \in Thread : \A c \in Held(t) : conn[c] = "live"

(* A command gets at most one reply, whichever of the two threads gives it  *)
(* and however late (_cmnMuxJsonReply4All).                                 *)
OneReply == \A c \in Client : replies[c] <= 1

(* A connection is closed only after its reply, except for the commands     *)
(* cmnMuxCtrlDataHandle refuses before it calls their handler.              *)
NoSilentEnd ==
    \A c \in Client : conn[c] = "freed" => replies[c] = 1 \/ kind[c] = "malformed"

(* A command that a queue took stays with one thread until it is freed: in  *)
(* the queue, in the hands of the thread, or as the current command of the  *)
(* player; nothing takes the place of another (muxPlayerJSONHandle).        *)
OneOwner ==
    /\ \A t \in Thread : \A c \in Client :
          c \in Held(t) <=> c \in taken /\ conn[c] = "live" /\ kind[c] = t
    /\ \A t \in Thread : /\ \A i, j \in DOMAIN queue[t] : queue[t][i] = queue[t][j] => i = j
                         /\ step[t] # "wait" => cmd[t] \notin Queued(t)
    /\ current \notin Queued(Player)

(* Whatever a queue took is answered, although plugins leave commands for   *)
(* later and clients share the player (cmnMuxJSonPluginHandle).             *)
TakenIsAnswered == \A c \in Client : (c \in taken) ~> (replies[c] > 0 \/ down)

(* The reply is written to the connection of the client that sent the       *)
(* command: "reply the JSON message to peer" (cmnMuxJson.c:497).            *)
ReplyReachesItsSender == \A c \in Client : inbox[c] \subseteq {c}

\* How far a command for the player has come.
Stage(c) ==
    IF c \notin taken \/ kind[c] # Player THEN "unsent"
    ELSE IF replies[c] > 0 THEN "answered"
    ELSE IF current = c THEN "processing" ELSE "queued"

Engine == INSTANCE CommandEngine WITH Commands <- Client, status <- [c \in Client |-> Stage(c)]

(* Seen through the controller the player keeps its promise: each command   *)
(* is taken up once, one at a time, and answered once.                      *)
ImplementsCommandEngine == Engine!Spec
=============================================================================
