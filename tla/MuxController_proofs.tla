----------------------- MODULE MuxController_proofs -----------------------
(***************************************************************************)
(* A DATA_CONN has one owner at any time, is not looked at after it has    *)
(* been freed, gets at most one reply, and the player's promise survives   *)
(* the hand-over from the controller: for every set of clients and plugins *)
(* and every size of queue and descriptor table.                           *)
(***************************************************************************)
EXTENDS MuxController, TLAPS

\* A client that uses a socket has a descriptor once it has been accepted.
Sockets ==
    /\ \A c \in Client \ Datagram : conn[c] # "none" => sock[c] \in Fd
    /\ pc = "read" => at \notin Datagram /\ sock[at] \in Fd /\ conn[at] = "none"

\* What the controller holds belongs to no thread before it is reported, and no
\* thread has come past the mutex of what is being handed over.
Control ==
    /\ pc \in {"dispatch", "close"} => conn[at] = "live" /\ at \notin taken
    /\ pc = "handOver" => conn[at] = "live"
    /\ pc = "handOver" => /\ \A t \in Thread : step[t] \in {"reply", "close"} => cmd[t] # at
                          /\ current # at

\* When a command has been answered.
Answered ==
    /\ \A c \in Client : conn[c] = "none" => replies[c] = 0 /\ c \notin taken
    /\ pc = "dispatch" => replies[at] = 0
    /\ pc = "close" => replies[at] = 1 \/ (kind[at] = "malformed" /\ replies[at] = 0)
    /\ \A t \in Thread : step[t] = "close" => replies[cmd[t]] = 1
    /\ \A t \in Thread : \A c \in Held(t) : ~ (step[t] = "close" /\ c = cmd[t]) => replies[c] = 0

\* A thread and its current command.
Stages ==
    /\ \A t \in Thread : step[t] = "reply" /\ errCode[cmd[t]] = "processing" => t = Player /\ current = cmd[t]
    /\ step[Player] \in {"handle", "close"} => current # cmd[Player]

Inv == TypeOK /\ OneOwner /\ OneReply /\ NoSilentEnd /\ Sockets /\ Control /\ Answered /\ Stages

----------------------------------------------------------------------------
(* Queues without repetition.                                              *)

Elements(q) == {q[i] : i \in DOMAIN q}
Distinct(q) == \A i, j \in DOMAIN q : q[i] = q[j] => i = j

LEMMA AppendElements ==
    ASSUME NEW S, NEW q \in Seq(S), NEW c \in S, Distinct(q), c \notin Elements(q)
    PROVE  /\ Append(q, c) \in Seq(S)
           /\ Elements(Append(q, c)) = Elements(q) \cup {c}
           /\ Distinct(Append(q, c))
<1>1. /\ Append(q, c) \in Seq(S) /\ DOMAIN Append(q, c) = 1 .. Len(q) + 1 /\ DOMAIN q = 1 .. Len(q)
      /\ Len(q) \in Nat
  OBVIOUS
<1>2. \A i \in 1 .. Len(q) : Append(q, c)[i] = q[i]
  OBVIOUS
<1>3. Append(q, c)[Len(q) + 1] = c
  OBVIOUS
<1>4. Elements(Append(q, c)) = Elements(q) \cup {c}
  BY <1>1, <1>2, <1>3 DEF Elements
<1>5. Distinct(Append(q, c))
  BY <1>1, <1>2, <1>3 DEF Distinct, Elements
<1>6. QED
  BY <1>1, <1>4, <1>5

LEMMA TailElements ==
    ASSUME NEW S, NEW q \in Seq(S), q # <<>>, Distinct(q)
    PROVE  /\ Tail(q) \in Seq(S) /\ Head(q) \in S
           /\ Head(q) \in Elements(q)
           /\ Elements(Tail(q)) = Elements(q) \ {Head(q)}
           /\ Distinct(Tail(q))
<1>1. /\ Tail(q) \in Seq(S) /\ DOMAIN Tail(q) = 1 .. Len(q) - 1 /\ DOMAIN q = 1 .. Len(q)
      /\ Len(q) \in Nat \ {0} /\ Head(q) = q[1] /\ q[1] \in S
  OBVIOUS
<1>2. \A i \in 1 .. Len(q) - 1 : Tail(q)[i] = q[i + 1]
  OBVIOUS
<1>3. \A i \in 2 .. Len(q) : i - 1 \in 1 .. Len(q) - 1 /\ Tail(q)[i - 1] = q[i]
  BY <1>1, <1>2
<1>4. \A i \in 2 .. Len(q) : q[i] # q[1]
  BY <1>1 DEF Distinct
<1>5. Elements(Tail(q)) = Elements(q) \ {Head(q)}
  <2>1. ASSUME NEW x \in Elements(Tail(q)) PROVE x \in Elements(q) \ {Head(q)}
    BY <1>1, <1>2, <1>4 DEF Elements
  <2>2. ASSUME NEW x \in Elements(q), x # Head(q) PROVE x \in Elements(Tail(q))
    <3>1. PICK i \in 1 .. Len(q) : x = q[i]
      BY <1>1 DEF Elements
    <3>2. i \in 2 .. Len(q)
      BY <3>1, <2>2, <1>1
    <3>3. QED
      BY <3>1, <3>2, <1>1, <1>3 DEF Elements
  <2>3. QED
    BY <2>1, <2>2
<1>6. Distinct(Tail(q))
  BY <1>1, <1>2 DEF Distinct
<1>7. Head(q) \in Elements(q)
  BY <1>1, 1 \in DOMAIN q DEF Elements
<1>8. QED
  BY <1>1, <1>5, <1>6, <1>7

----------------------------------------------------------------------------
(* What a step of the controller or of a client cannot touch.              *)

LEMMA FrameHeld ==
    ASSUME UNCHANGED <<queue, step, cmd, current>>
    PROVE  \A t \in Thread : Held(t)' = Held(t) /\ Queued(t)' = Queued(t)
BY DEF Held, Queued

LEMMA FrameOwner ==
    ASSUME OneOwner, UNCHANGED <<queue, taken, step, cmd, current>>,
           \A c \in taken : conn'[c] = conn[c] /\ kind'[c] = kind[c]
    PROVE  OneOwner'
<1>1. Queued(Player)' = Queued(Player) /\ \A t \in Thread : Held(t)' = Held(t) /\ Queued(t)' = Queued(t)
  BY DEF Held, Queued
<1>2. \A t \in Thread : \A c \in Client :
        c \in Held(t)' <=> c \in taken' /\ conn'[c] = "live" /\ kind'[c] = t
  BY <1>1 DEF OneOwner
<1>3. QED
  BY <1>1, <1>2 DEF OneOwner

LEMMA InitInv == Init => Inv
<1> SUFFICES ASSUME Init PROVE Inv
  OBVIOUS
<1> USE DEF Init
<1>1. TypeOK
  <2>1. kind \in [Client -> Kind]
    BY DEF Kind
  <2>2. queue \in [Thread -> Seq(Client)]
    OBVIOUS
  <2>3. at \in Client \cup {None} /\ (at = None <=> pc = "select")
    OBVIOUS
  <2>4. QED
    BY <2>1, <2>2, <2>3 DEF TypeOK
<1>2. \A t \in Thread : Held(t) = {} /\ Queued(t) = {}
  BY DEF Held, Queued
<1>3. OneOwner
  <2>1. current \notin Queued(Player)
    BY <1>2 DEF Thread
  <2>2. \A t \in Thread : DOMAIN queue[t] = {}
    OBVIOUS
  <2>3. QED
    BY <1>2, <2>1, <2>2 DEF OneOwner
<1>4. OneReply /\ NoSilentEnd /\ Sockets /\ Control
  BY DEF OneReply, NoSilentEnd, Sockets, Control
<1>5. Answered /\ Stages
  BY <1>2 DEF Answered, Stages, Thread
<1>6. QED
  BY <1>1, <1>3, <1>4, <1>5 DEF Inv

----------------------------------------------------------------------------
(* Steps of clients and of the controller that leave the threads alone.    *)

LEMMA RespondTyped ==
    ASSUME Inv, NEW c \in Client, conn[c] = "live", Respond(c)
    PROVE  /\ inbox' \in [Client -> SUBSET Client] /\ openFile' \in [Fd -> Client \cup {None}]
           /\ replies' \in [Client -> Nat]
<1>1. replies' \in [Client -> Nat]
  BY DEF Inv, TypeOK, Respond
<1>2. ASSUME NEW x \in Client PROVE [inbox EXCEPT ![x] = inbox[x] \cup {c}] \in [Client -> SUBSET Client]
  <2>1. inbox \in [Client -> SUBSET Client] /\ inbox[x] \cup {c} \in SUBSET Client
    BY DEF Inv, TypeOK
  <2>2. QED
    BY <2>1
<1>3. CASE c \in Datagram
  <2>1. inbox' = [inbox EXCEPT ![c] = inbox[c] \cup {c}] /\ openFile' = openFile
    BY <1>3 DEF Respond
  <2>2. QED
    BY <1>1, <1>2, <2>1 DEF Inv, TypeOK
<1>4. CASE c \notin Datagram
  <2>1. sock[c] \in Fd
    BY <1>4 DEF Inv, Sockets
  <2> DEFINE owner == openFile[sock[c]]
  <2>2. owner \in Client \cup {None}
    BY <2>1 DEF Inv, TypeOK
  <2>3. /\ openFile' = [openFile EXCEPT ![sock[c]] = None]
        /\ inbox' = IF owner = None THEN inbox ELSE [inbox EXCEPT ![owner] = inbox[owner] \cup {c}]
    BY <1>4 DEF Respond
  <2> HIDE DEF owner
  <2>4. inbox' \in [Client -> SUBSET Client]
    BY <1>2, <2>2, <2>3 DEF Inv, TypeOK
  <2>5. openFile' \in [Fd -> Client \cup {None}]
    BY <2>1, <2>3 DEF Inv, TypeOK
  <2>6. QED
    BY <1>1, <2>4, <2>5
<1>5. QED
  BY <1>3, <1>4

LEMMA ConnectInv ==
    ASSUME Inv, NEW c \in Client, Connect(c)
    PROVE  Inv'
<1>0. Inv /\ \A t \in Thread : Held(t)' = Held(t) /\ Queued(t)' = Queued(t)
  BY FrameHeld DEF Connect, threadVars
<1>1. TypeOK'
  BY <1>0, ControllerAssumption DEF Inv, TypeOK, Connect, threadVars, clientVars, dataVars, Sockets
<1>2. OneOwner'
  <2>1. \A x \in taken : conn'[x] = conn[x] /\ kind'[x] = kind[x]
    BY <1>0 DEF Inv, TypeOK, Control, Sockets, Answered, Connect, threadVars, clientVars, dataVars
  <2>2. QED
    BY <1>0, <2>1, FrameOwner DEF Inv, Connect, threadVars, clientVars, dataVars
<1>3. OneReply' /\ NoSilentEnd'
  BY <1>0 DEF Inv, TypeOK, OneReply, NoSilentEnd, Control, Sockets, Answered, Connect, threadVars, clientVars, dataVars
<1>4. Sockets'
  BY <1>0, ControllerAssumption DEF Inv, TypeOK, Sockets, Control, Connect, threadVars, clientVars, dataVars
<1>5. Control'
  BY <1>0 DEF Inv, TypeOK, Control, Sockets, Stages, Connect, threadVars, clientVars, dataVars
<1>6. Answered'
  BY <1>0 DEF Inv, TypeOK, OneOwner, Answered, Control, Sockets, Connect, threadVars, clientVars, dataVars
<1>7. Stages'
  BY <1>0 DEF Inv, TypeOK, OneOwner, Stages, Control, Answered, Connect, threadVars, clientVars, dataVars
<1>8. QED
  BY <1>1, <1>2, <1>3, <1>4, <1>5, <1>6, <1>7 DEF Inv

LEMMA SendInv ==
    ASSUME Inv, NEW c \in Client, Send(c)
    PROVE  Inv'
<1>0. Inv /\ \A t \in Thread : Held(t)' = Held(t) /\ Queued(t)' = Queued(t)
  BY FrameHeld DEF Send, threadVars
<1>1. TypeOK'
  BY <1>0, ControllerAssumption DEF Inv, TypeOK, Send, threadVars, clientVars, dataVars, Sockets
<1>2. OneOwner'
  <2>1. \A x \in taken : conn'[x] = conn[x] /\ kind'[x] = kind[x]
    BY <1>0 DEF Inv, TypeOK, Control, Sockets, Answered, Send, threadVars, clientVars, dataVars
  <2>2. QED
    BY <1>0, <2>1, FrameOwner DEF Inv, Send, threadVars, clientVars, dataVars
<1>3. OneReply' /\ NoSilentEnd'
  BY <1>0 DEF Inv, TypeOK, OneReply, NoSilentEnd, Control, Sockets, Answered, Send, threadVars, clientVars, dataVars
<1>4. Sockets'
  BY <1>0, ControllerAssumption DEF Inv, TypeOK, Sockets, Control, Send, threadVars, clientVars, dataVars
<1>5. Control'
  BY <1>0 DEF Inv, TypeOK, Control, Sockets, Stages, Send, threadVars, clientVars, dataVars
<1>6. Answered'
  BY <1>0 DEF Inv, TypeOK, OneOwner, Answered, Control, Sockets, Send, threadVars, clientVars, dataVars
<1>7. Stages'
  BY <1>0 DEF Inv, TypeOK, OneOwner, Stages, Control, Answered, Send, threadVars, clientVars, dataVars
<1>8. QED
  BY <1>1, <1>2, <1>3, <1>4, <1>5, <1>6, <1>7 DEF Inv

LEMMA HangUpInv ==
    ASSUME Inv, NEW c \in Client, HangUp(c)
    PROVE  Inv'
<1>0. Inv /\ \A t \in Thread : Held(t)' = Held(t) /\ Queued(t)' = Queued(t)
  BY FrameHeld DEF HangUp, threadVars
<1>1. TypeOK'
  BY <1>0, ControllerAssumption DEF Inv, TypeOK, HangUp, threadVars, clientVars, dataVars, Sockets
<1>2. OneOwner'
  <2>1. \A x \in taken : conn'[x] = conn[x] /\ kind'[x] = kind[x]
    BY <1>0 DEF Inv, TypeOK, Control, Sockets, Answered, HangUp, threadVars, clientVars, dataVars
  <2>2. QED
    BY <1>0, <2>1, FrameOwner DEF Inv, HangUp, threadVars, clientVars, dataVars
<1>3. OneReply' /\ NoSilentEnd'
  BY <1>0 DEF Inv, TypeOK, OneReply, NoSilentEnd, Control, Sockets, Answered, HangUp, threadVars, clientVars, dataVars
<1>4. Sockets'
  BY <1>0, ControllerAssumption DEF Inv, TypeOK, Sockets, Control, HangUp, threadVars, clientVars, dataVars
<1>5. Control'
  BY <1>0 DEF Inv, TypeOK, Control, Sockets, Stages, HangUp, threadVars, clientVars, dataVars
<1>6. Answered'
  BY <1>0 DEF Inv, TypeOK, OneOwner, Answered, Control, Sockets, HangUp, threadVars, clientVars, dataVars
<1>7. Stages'
  BY <1>0 DEF Inv, TypeOK, OneOwner, Stages, Control, Answered, HangUp, threadVars, clientVars, dataVars
<1>8. QED
  BY <1>1, <1>2, <1>3, <1>4, <1>5, <1>6, <1>7 DEF Inv

LEMMA LoadInv ==
    ASSUME Inv, NEW p \in Plugin, Load(p)
    PROVE  Inv'
<1>0. Inv /\ \A t \in Thread : Held(t)' = Held(t) /\ Queued(t)' = Queued(t)
  BY FrameHeld DEF Load, threadVars
<1>1. TypeOK'
  BY <1>0, ControllerAssumption DEF Inv, TypeOK, Load, threadVars, clientVars, dataVars, Sockets
<1>2. OneOwner'
  <2>1. \A x \in taken : conn'[x] = conn[x] /\ kind'[x] = kind[x]
    BY <1>0 DEF Inv, TypeOK, Control, Sockets, Answered, Load, threadVars, clientVars, dataVars
  <2>2. QED
    BY <1>0, <2>1, FrameOwner DEF Inv, Load, threadVars, clientVars, dataVars
<1>3. OneReply' /\ NoSilentEnd'
  BY <1>0 DEF Inv, TypeOK, OneReply, NoSilentEnd, Control, Sockets, Answered, Load, threadVars, clientVars, dataVars
<1>4. Sockets'
  BY <1>0, ControllerAssumption DEF Inv, TypeOK, Sockets, Control, Load, threadVars, clientVars, dataVars
<1>5. Control'
  BY <1>0 DEF Inv, TypeOK, Control, Sockets, Stages, Load, threadVars, clientVars, dataVars
<1>6. Answered'
  BY <1>0 DEF Inv, TypeOK, OneOwner, Answered, Control, Sockets, Load, threadVars, clientVars, dataVars
<1>7. Stages'
  BY <1>0 DEF Inv, TypeOK, OneOwner, Stages, Control, Answered, Load, threadVars, clientVars, dataVars
<1>8. QED
  BY <1>1, <1>2, <1>3, <1>4, <1>5, <1>6, <1>7 DEF Inv

LEMMA ReadPieceInv ==
    ASSUME Inv, NEW c \in Client, ReadPiece(c)
    PROVE  Inv'
<1>0. Inv /\ \A t \in Thread : Held(t)' = Held(t) /\ Queued(t)' = Queued(t)
  BY FrameHeld DEF ReadPiece, threadVars
<1>1. TypeOK'
  BY <1>0, ControllerAssumption DEF Inv, TypeOK, ReadPiece, threadVars, clientVars, dataVars, Sockets
<1>2. OneOwner'
  <2>1. \A x \in taken : conn'[x] = conn[x] /\ kind'[x] = kind[x]
    BY <1>0 DEF Inv, TypeOK, Control, Sockets, Answered, ReadPiece, threadVars, clientVars, dataVars
  <2>2. QED
    BY <1>0, <2>1, FrameOwner DEF Inv, ReadPiece, threadVars, clientVars, dataVars
<1>3. OneReply' /\ NoSilentEnd'
  BY <1>0 DEF Inv, TypeOK, OneReply, NoSilentEnd, Control, Sockets, Answered, ReadPiece, threadVars, clientVars, dataVars
<1>4. Sockets'
  BY <1>0, ControllerAssumption DEF Inv, TypeOK, Sockets, Control, ReadPiece, threadVars, clientVars, dataVars
<1>5. Control'
  BY <1>0 DEF Inv, TypeOK, Control, Sockets, Stages, ReadPiece, threadVars, clientVars, dataVars
<1>6. Answered'
  BY <1>0 DEF Inv, TypeOK, OneOwner, Answered, Control, Sockets, ReadPiece, threadVars, clientVars, dataVars
<1>7. Stages'
  BY <1>0 DEF Inv, TypeOK, OneOwner, Stages, Control, Answered, ReadPiece, threadVars, clientVars, dataVars
<1>8. QED
  BY <1>1, <1>2, <1>3, <1>4, <1>5, <1>6, <1>7 DEF Inv

LEMMA ReportTooEarlyInv ==
    ASSUME Inv, NEW c \in Client, ReportTooEarly(c)
    PROVE  Inv'
<1>0. Inv /\ \A t \in Thread : Held(t)' = Held(t) /\ Queued(t)' = Queued(t)
  BY FrameHeld DEF ReportTooEarly, threadVars
<1>1. TypeOK'
  BY <1>0, ControllerAssumption DEF Inv, TypeOK, ReportTooEarly, threadVars, clientVars, dataVars, Sockets
<1>2. OneOwner'
  <2>1. \A x \in taken : conn'[x] = conn[x] /\ kind'[x] = kind[x]
    BY <1>0 DEF Inv, TypeOK, Control, Sockets, Answered, ReportTooEarly, threadVars, clientVars, dataVars
  <2>2. QED
    BY <1>0, <2>1, FrameOwner DEF Inv, ReportTooEarly, threadVars, clientVars, dataVars
<1>3. OneReply' /\ NoSilentEnd'
  BY <1>0 DEF Inv, TypeOK, OneReply, NoSilentEnd, Control, Sockets, Answered, ReportTooEarly, threadVars, clientVars, dataVars
<1>4. Sockets'
  BY <1>0, ControllerAssumption DEF Inv, TypeOK, Sockets, Control, ReportTooEarly, threadVars, clientVars, dataVars
<1>5. Control'
  BY <1>0 DEF Inv, TypeOK, Control, Sockets, Stages, ReportTooEarly, threadVars, clientVars, dataVars
<1>6. Answered'
  BY <1>0 DEF Inv, TypeOK, OneOwner, Answered, Control, Sockets, ReportTooEarly, threadVars, clientVars, dataVars
<1>7. Stages'
  BY <1>0 DEF Inv, TypeOK, OneOwner, Stages, Control, Answered, ReportTooEarly, threadVars, clientVars, dataVars
<1>8. QED
  BY <1>1, <1>2, <1>3, <1>4, <1>5, <1>6, <1>7 DEF Inv

LEMMA AcceptInv ==
    ASSUME Inv, NEW c \in Client, Accept(c)
    PROVE  Inv'
<1>0. Inv /\ \A t \in Thread : Held(t)' = Held(t) /\ Queued(t)' = Queued(t)
  BY FrameHeld DEF Accept, threadVars
<1>1. TypeOK'
  BY <1>0, ControllerAssumption DEF Inv, TypeOK, Accept, threadVars, clientVars, dataVars, Sockets
<1>2. OneOwner'
  <2>1. \A x \in taken : conn'[x] = conn[x] /\ kind'[x] = kind[x]
    BY <1>0 DEF Inv, TypeOK, Control, Sockets, Answered, Accept, threadVars, clientVars, dataVars
  <2>2. QED
    BY <1>0, <2>1, FrameOwner DEF Inv, Accept, threadVars, clientVars, dataVars
<1>3. OneReply' /\ NoSilentEnd'
  BY <1>0 DEF Inv, TypeOK, OneReply, NoSilentEnd, Control, Sockets, Answered, Accept, threadVars, clientVars, dataVars
<1>4. Sockets'
  BY <1>0, ControllerAssumption DEF Inv, TypeOK, Sockets, Control, Accept, threadVars, clientVars, dataVars
<1>5. Control'
  BY <1>0 DEF Inv, TypeOK, Control, Sockets, Stages, Accept, threadVars, clientVars, dataVars
<1>6. Answered'
  BY <1>0 DEF Inv, TypeOK, OneOwner, Answered, Control, Sockets, Accept, threadVars, clientVars, dataVars
<1>7. Stages'
  BY <1>0 DEF Inv, TypeOK, OneOwner, Stages, Control, Answered, Accept, threadVars, clientVars, dataVars
<1>8. QED
  BY <1>1, <1>2, <1>3, <1>4, <1>5, <1>6, <1>7 DEF Inv

LEMMA ReadInv ==
    ASSUME Inv, NEW c \in Client, Read(c)
    PROVE  Inv'
<1>0. Inv /\ \A t \in Thread : Held(t)' = Held(t) /\ Queued(t)' = Queued(t)
  BY FrameHeld DEF Read, MakeDataConn, threadVars
<1>1. TypeOK'
  BY <1>0, ControllerAssumption DEF Inv, TypeOK, Read, MakeDataConn, threadVars, clientVars, dataVars, Sockets
<1>2. OneOwner'
  <2>1. \A x \in taken : conn'[x] = conn[x] /\ kind'[x] = kind[x]
    BY <1>0 DEF Inv, TypeOK, Control, Sockets, Answered, Read, MakeDataConn, threadVars, clientVars, dataVars
  <2>2. QED
    BY <1>0, <2>1, FrameOwner DEF Inv, Read, MakeDataConn, threadVars, clientVars, dataVars
<1>3. OneReply' /\ NoSilentEnd'
  BY <1>0 DEF Inv, TypeOK, OneReply, NoSilentEnd, Control, Sockets, Answered, Read, MakeDataConn, threadVars, clientVars, dataVars
<1>4. Sockets'
  BY <1>0, ControllerAssumption DEF Inv, TypeOK, Sockets, Control, Read, MakeDataConn, threadVars, clientVars, dataVars
<1>5. Control'
  BY <1>0 DEF Inv, TypeOK, Answered, Control, Sockets, Stages, Read, MakeDataConn, threadVars, clientVars, dataVars
<1>6. Answered'
  BY <1>0 DEF Inv, TypeOK, OneOwner, Answered, Control, Sockets, Read, MakeDataConn, threadVars, clientVars, dataVars
<1>7. Stages'
  BY <1>0 DEF Inv, TypeOK, OneOwner, Stages, Control, Answered, Read, MakeDataConn, threadVars, clientVars, dataVars
<1>8. QED
  BY <1>1, <1>2, <1>3, <1>4, <1>5, <1>6, <1>7 DEF Inv

LEMMA ReadDatagramInv ==
    ASSUME Inv, NEW c \in Client, ReadDatagram(c)
    PROVE  Inv'
<1>0. Inv /\ \A t \in Thread : Held(t)' = Held(t) /\ Queued(t)' = Queued(t)
  BY FrameHeld DEF ReadDatagram, MakeDataConn, threadVars
<1>1. TypeOK'
  BY <1>0, ControllerAssumption DEF Inv, TypeOK, ReadDatagram, MakeDataConn, threadVars, clientVars, dataVars, Sockets
<1>2. OneOwner'
  <2>1. \A x \in taken : conn'[x] = conn[x] /\ kind'[x] = kind[x]
    BY <1>0 DEF Inv, TypeOK, Control, Sockets, Answered, ReadDatagram, MakeDataConn, threadVars, clientVars, dataVars
  <2>2. QED
    BY <1>0, <2>1, FrameOwner DEF Inv, ReadDatagram, MakeDataConn, threadVars, clientVars, dataVars
<1>3. OneReply' /\ NoSilentEnd'
  BY <1>0 DEF Inv, TypeOK, OneReply, NoSilentEnd, Control, Sockets, Answered, ReadDatagram, MakeDataConn, threadVars, clientVars, dataVars
<1>4. Sockets'
  BY <1>0, ControllerAssumption DEF Inv, TypeOK, Sockets, Control, ReadDatagram, MakeDataConn, threadVars, clientVars, dataVars
<1>5. Control'
  BY <1>0 DEF Inv, TypeOK, Answered, Control, Sockets, Stages, ReadDatagram, MakeDataConn, threadVars, clientVars, dataVars
<1>6. Answered'
  BY <1>0 DEF Inv, TypeOK, OneOwner, Answered, Control, Sockets, ReadDatagram, MakeDataConn, threadVars, clientVars, dataVars
<1>7. Stages'
  BY <1>0 DEF Inv, TypeOK, OneOwner, Stages, Control, Answered, ReadDatagram, MakeDataConn, threadVars, clientVars, dataVars
<1>8. QED
  BY <1>1, <1>2, <1>3, <1>4, <1>5, <1>6, <1>7 DEF Inv

LEMMA ReadNothingInv ==
    ASSUME Inv, NEW c \in Client, ReadNothing(c)
    PROVE  Inv'
<1>0. Inv /\ \A t \in Thread : Held(t)' = Held(t) /\ Queued(t)' = Queued(t)
  BY FrameHeld DEF ReadNothing, threadVars
<1>1. TypeOK'
  BY <1>0, ControllerAssumption DEF Inv, TypeOK, ReadNothing, threadVars, clientVars, dataVars, Sockets
<1>2. OneOwner'
  <2>1. \A x \in taken : conn'[x] = conn[x] /\ kind'[x] = kind[x]
    BY <1>0 DEF Inv, TypeOK, Control, Sockets, Answered, ReadNothing, threadVars, clientVars, dataVars
  <2>2. QED
    BY <1>0, <2>1, FrameOwner DEF Inv, ReadNothing, threadVars, clientVars, dataVars
<1>3. OneReply' /\ NoSilentEnd'
  BY <1>0 DEF Inv, TypeOK, OneReply, NoSilentEnd, Control, Sockets, Answered, ReadNothing, threadVars, clientVars, dataVars
<1>4. Sockets'
  BY <1>0, ControllerAssumption DEF Inv, TypeOK, Sockets, Control, ReadNothing, threadVars, clientVars, dataVars
<1>5. Control'
  BY <1>0 DEF Inv, TypeOK, Control, Sockets, Stages, ReadNothing, threadVars, clientVars, dataVars
<1>6. Answered'
  BY <1>0 DEF Inv, TypeOK, OneOwner, Answered, Control, Sockets, ReadNothing, threadVars, clientVars, dataVars
<1>7. Stages'
  BY <1>0 DEF Inv, TypeOK, OneOwner, Stages, Control, Answered, ReadNothing, threadVars, clientVars, dataVars
<1>8. QED
  BY <1>1, <1>2, <1>3, <1>4, <1>5, <1>6, <1>7 DEF Inv

LEMMA AnswerItselfInv ==
    ASSUME Inv, NEW c \in Client, AnswerItself(c)
    PROVE  Inv'
<1>0. Inv /\ \A t \in Thread : Held(t)' = Held(t) /\ Queued(t)' = Queued(t)
  BY FrameHeld DEF AnswerItself, Respond, threadVars
<1>a. PICK e \in {"noError", "error"} : errCode' = [errCode EXCEPT ![c] = e]
  BY DEF AnswerItself
<1>b. /\ inbox' \in [Client -> SUBSET Client] /\ openFile' \in [Fd -> Client \cup {None}]
      /\ replies' \in [Client -> Nat]
  BY RespondTyped DEF Inv, Control, AnswerItself
<1>1. TypeOK'
  BY <1>0, <1>a, <1>b DEF Inv, TypeOK, AnswerItself, threadVars, clientVars
<1>2. OneOwner'
  <2>1. \A x \in taken : conn'[x] = conn[x] /\ kind'[x] = kind[x]
    BY <1>0 DEF Inv, TypeOK, Control, Sockets, Answered, AnswerItself, Respond, threadVars, clientVars, dataVars
  <2>2. QED
    BY <1>0, <2>1, FrameOwner DEF Inv, AnswerItself, Respond, threadVars, clientVars, dataVars
<1>3. OneReply' /\ NoSilentEnd'
  BY <1>0 DEF Inv, TypeOK, OneReply, NoSilentEnd, Control, Sockets, Answered, AnswerItself, Respond, threadVars, clientVars, dataVars
<1>4. Sockets'
  BY <1>0, ControllerAssumption DEF Inv, TypeOK, Sockets, Control, AnswerItself, Respond, threadVars, clientVars, dataVars
<1>5. Control'
  BY <1>0 DEF Inv, TypeOK, Control, Sockets, Stages, AnswerItself, Respond, threadVars, clientVars, dataVars
<1>6. Answered'
  BY <1>0 DEF Inv, TypeOK, OneOwner, Answered, Control, Sockets, AnswerItself, Respond, threadVars, clientVars, dataVars
<1>7. Stages'
  BY <1>0, <1>a DEF Inv, TypeOK, OneOwner, Stages, Control, Answered, AnswerItself, Respond, threadVars, clientVars, dataVars
<1>8. QED
  BY <1>1, <1>2, <1>3, <1>4, <1>5, <1>6, <1>7 DEF Inv

LEMMA RefuseSilentlyInv ==
    ASSUME Inv, NEW c \in Client, RefuseSilently(c)
    PROVE  Inv'
<1>0. Inv /\ \A t \in Thread : Held(t)' = Held(t) /\ Queued(t)' = Queued(t)
  BY FrameHeld DEF RefuseSilently, threadVars
<1>1. TypeOK'
  BY <1>0, ControllerAssumption DEF Inv, TypeOK, RefuseSilently, threadVars, clientVars, dataVars, Sockets
<1>2. OneOwner'
  <2>1. \A x \in taken : conn'[x] = conn[x] /\ kind'[x] = kind[x]
    BY <1>0 DEF Inv, TypeOK, Control, Sockets, Answered, RefuseSilently, threadVars, clientVars, dataVars
  <2>2. QED
    BY <1>0, <2>1, FrameOwner DEF Inv, RefuseSilently, threadVars, clientVars, dataVars
<1>3. OneReply' /\ NoSilentEnd'
  BY <1>0 DEF Inv, TypeOK, OneReply, NoSilentEnd, Control, Sockets, Answered, RefuseSilently, threadVars, clientVars, dataVars
<1>4. Sockets'
  BY <1>0, ControllerAssumption DEF Inv, TypeOK, Sockets, Control, RefuseSilently, threadVars, clientVars, dataVars
<1>5. Control'
  BY <1>0 DEF Inv, TypeOK, Control, Sockets, Stages, RefuseSilently, threadVars, clientVars, dataVars
<1>6. Answered'
  BY <1>0 DEF Inv, TypeOK, OneOwner, Answered, Control, Sockets, RefuseSilently, threadVars, clientVars, dataVars
<1>7. Stages'
  BY <1>0 DEF Inv, TypeOK, OneOwner, Stages, Control, Answered, RefuseSilently, threadVars, clientVars, dataVars
<1>8. QED
  BY <1>1, <1>2, <1>3, <1>4, <1>5, <1>6, <1>7 DEF Inv

LEMMA HandOverInv ==
    ASSUME Inv, NEW c \in Client, HandOver(c)
    PROVE  Inv'
<1>0. Inv /\ \A t \in Thread : Held(t)' = Held(t) /\ Queued(t)' = Queued(t)
  BY FrameHeld DEF HandOver, threadVars
<1>1. TypeOK'
  BY <1>0, ControllerAssumption DEF Inv, TypeOK, HandOver, threadVars, clientVars, dataVars, Sockets
<1>2. OneOwner'
  <2>1. \A x \in taken : conn'[x] = conn[x] /\ kind'[x] = kind[x]
    BY <1>0 DEF Inv, TypeOK, Control, Sockets, Answered, HandOver, threadVars, clientVars, dataVars
  <2>2. QED
    BY <1>0, <2>1, FrameOwner DEF Inv, HandOver, threadVars, clientVars, dataVars
<1>3. OneReply' /\ NoSilentEnd'
  BY <1>0 DEF Inv, TypeOK, OneReply, NoSilentEnd, Control, Sockets, Answered, HandOver, threadVars, clientVars, dataVars
<1>4. Sockets'
  BY <1>0, ControllerAssumption DEF Inv, TypeOK, Sockets, Control, HandOver, threadVars, clientVars, dataVars
<1>5. Control'
  BY <1>0 DEF Inv, TypeOK, Control, Sockets, Stages, HandOver, threadVars, clientVars, dataVars
<1>6. Answered'
  BY <1>0 DEF Inv, TypeOK, OneOwner, Answered, Control, Sockets, HandOver, threadVars, clientVars, dataVars
<1>7. Stages'
  BY <1>0 DEF Inv, TypeOK, OneOwner, Stages, Control, Answered, HandOver, threadVars, clientVars, dataVars
<1>8. QED
  BY <1>1, <1>2, <1>3, <1>4, <1>5, <1>6, <1>7 DEF Inv

LEMMA CloseInv ==
    ASSUME Inv, NEW c \in Client, Close(c)
    PROVE  Inv'
<1>0. Inv /\ \A t \in Thread : Held(t)' = Held(t) /\ Queued(t)' = Queued(t)
  BY FrameHeld DEF Close, CloseDataConn, threadVars
<1>1. TypeOK'
  BY <1>0, ControllerAssumption DEF Inv, TypeOK, Close, CloseDataConn, threadVars, clientVars, dataVars, Sockets
<1>2. OneOwner'
  <2>1. \A x \in taken : conn'[x] = conn[x] /\ kind'[x] = kind[x]
    BY <1>0 DEF Inv, TypeOK, Control, Sockets, Answered, Close, CloseDataConn, threadVars, clientVars, dataVars
  <2>2. QED
    BY <1>0, <2>1, FrameOwner DEF Inv, Close, CloseDataConn, threadVars, clientVars, dataVars
<1>3. OneReply' /\ NoSilentEnd'
  BY <1>0 DEF Inv, TypeOK, OneReply, NoSilentEnd, Control, Sockets, Answered, Close, CloseDataConn, threadVars, clientVars, dataVars
<1>4. Sockets'
  BY <1>0, ControllerAssumption DEF Inv, TypeOK, Sockets, Control, Close, CloseDataConn, threadVars, clientVars, dataVars
<1>5. Control'
  BY <1>0 DEF Inv, TypeOK, Control, Sockets, Stages, Close, CloseDataConn, threadVars, clientVars, dataVars
<1>6. Answered'
  BY <1>0 DEF Inv, TypeOK, OneOwner, Answered, Control, Sockets, Close, CloseDataConn, threadVars, clientVars, dataVars
<1>7. Stages'
  BY <1>0 DEF Inv, TypeOK, OneOwner, Stages, Control, Answered, Close, CloseDataConn, threadVars, clientVars, dataVars
<1>8. QED
  BY <1>1, <1>2, <1>3, <1>4, <1>5, <1>6, <1>7 DEF Inv

----------------------------------------------------------------------------
(* Steps that move a command between the threads.                          *)

LEMMA ReportInv ==
    ASSUME Inv, NEW c \in Client, Report(c)
    PROVE  Inv'
<1>0. /\ pc = "dispatch" /\ at = c /\ pc' = "handOver" /\ at' = c /\ conn[c] = "live" /\ c \notin taken
      /\ replies[c] = 0
      /\ UNCHANGED <<peer, kind, inbox, openFile, conn, sock, errCode, replies, step, cmd, current, loaded, down>>
  BY DEF Inv, Control, Answered, Report, clientVars, dataVars
<1>1. CASE UNCHANGED <<queue, taken>>
  <2>0. \A t \in Thread : Held(t)' = Held(t) /\ Queued(t)' = Queued(t)
    BY <1>0, <1>1, FrameHeld
  <2>1. OneOwner'
    BY <1>0, <1>1, FrameOwner DEF Inv
  <2>2. \A t \in Thread : c \notin Held(t)
    BY <1>0 DEF Inv, OneOwner
  <2>3. current # c /\ \A t \in Thread : step[t] # "wait" => cmd[t] # c
    BY <2>2, ControllerAssumption DEF Held, Thread
  <2>4. TypeOK' /\ OneReply' /\ NoSilentEnd' /\ Sockets' /\ Stages'
    BY <1>0, <1>1 DEF Inv, TypeOK, OneReply, NoSilentEnd, Sockets, Stages
  <2>5. Control'
    BY <1>0, <1>1, <2>3 DEF Inv, Control
  <2>6. Answered'
    BY <1>0, <1>1, <2>0 DEF Inv, Answered
  <2>7. QED
    BY <2>1, <2>4, <2>5, <2>6 DEF Inv
<1>2. CASE ~ UNCHANGED <<queue, taken>>
  <2> DEFINE d == kind[c]
  <2>1. /\ d \in Thread /\ queue' = [queue EXCEPT ![d] = Append(queue[d], c)] /\ taken' = taken \cup {c}
    BY <1>2 DEF Report, Thread, Plugin
  <2> HIDE DEF d
  <2>2. \A t \in Thread : c \notin Held(t)
    BY <1>0 DEF Inv, OneOwner
  <2>3. /\ queue \in [Thread -> Seq(Client)] /\ queue[d] \in Seq(Client)
        /\ Distinct(queue[d]) /\ c \notin Elements(queue[d])
    BY <2>1, <2>2 DEF Inv, TypeOK, OneOwner, Distinct, Elements, Held, Queued
  <2>4. /\ Append(queue[d], c) \in Seq(Client) /\ Distinct(Append(queue[d], c))
        /\ Elements(Append(queue[d], c)) = Elements(queue[d]) \cup {c}
    BY <2>3, AppendElements
  <2>5. \A t \in Thread : queue'[t] = IF t = d THEN Append(queue[d], c) ELSE queue[t]
    BY <2>1, <2>3
  <2>6. \A t \in Thread : Queued(t)' = IF t = d THEN Queued(t) \cup {c} ELSE Queued(t)
    BY <2>4, <2>5 DEF Queued, Elements
  <2>7. \A t \in Thread : Held(t)' = IF t = d THEN Held(t) \cup {c} ELSE Held(t)
    BY <1>0, <2>6 DEF Held
  <2>8. current # c /\ \A t \in Thread : step[t] # "wait" => cmd[t] # c
    BY <2>2, ControllerAssumption DEF Held, Thread
  <2>9. TypeOK'
    BY <1>0, <2>1, <2>3, <2>4 DEF Inv, TypeOK
  <2>10. OneOwner'
    <3>1. \A t \in Thread : \A x \in Client :
            x \in Held(t)' <=> x \in taken' /\ conn'[x] = "live" /\ kind'[x] = t
      BY <1>0, <2>1, <2>2, <2>7 DEF Inv, OneOwner, d
    <3>2. \A t \in Thread : Distinct(queue'[t])
      BY <2>4, <2>5 DEF Inv, OneOwner, Distinct
    <3>3. \A t \in Thread : step'[t] # "wait" => cmd'[t] \notin Queued(t)'
      BY <1>0, <2>6, <2>8 DEF Inv, OneOwner
    <3>4. current' \notin Queued(Player)'
      BY <1>0, <2>6, <2>8 DEF Inv, OneOwner, Thread
    <3>5. QED
      BY <3>1, <3>2, <3>3, <3>4 DEF OneOwner, Distinct
  <2>11. OneReply' /\ NoSilentEnd' /\ Sockets' /\ Stages'
    BY <1>0 DEF Inv, OneReply, NoSilentEnd, Sockets, Stages
  <2>12. Control'
    BY <1>0, <2>1, <2>8 DEF Inv, Control
  <2>13. Answered'
    BY <1>0, <2>1, <2>7 DEF Inv, Answered
  <2>14. QED
    BY <2>9, <2>10, <2>11, <2>12, <2>13 DEF Inv
<1>3. QED
  BY <1>1, <1>2

LEMMA GetInv ==
    ASSUME Inv, NEW d \in Thread, Get(d)
    PROVE  Inv'
<1>0. /\ step[d] = "wait" /\ queue[d] # <<>>
      /\ step' = [step EXCEPT ![d] = "handle"] /\ cmd' = [cmd EXCEPT ![d] = Head(queue[d])]
      /\ queue' = [queue EXCEPT ![d] = Tail(queue[d])]
      /\ UNCHANGED <<peer, kind, inbox, openFile, conn, sock, errCode, replies, pc, at, taken, current, loaded, down>>
  BY DEF Get, clientVars, dataVars
<1> DEFINE c == Head(queue[d])
<1>1. /\ queue \in [Thread -> Seq(Client)] /\ queue[d] \in Seq(Client) /\ Distinct(queue[d])
  BY DEF Inv, TypeOK, OneOwner, Distinct
<1>2. /\ Tail(queue[d]) \in Seq(Client) /\ c \in Client /\ c \in Elements(queue[d])
      /\ Elements(Tail(queue[d])) = Elements(queue[d]) \ {c} /\ Distinct(Tail(queue[d]))
  BY <1>0, <1>1, TailElements
<1> HIDE DEF c
<1>3. /\ \A t \in Thread : queue'[t] = IF t = d THEN Tail(queue[d]) ELSE queue[t]
      /\ \A t \in Thread : step'[t] = IF t = d THEN "handle" ELSE step[t]
      /\ \A t \in Thread : cmd'[t] = IF t = d THEN c ELSE cmd[t]
  BY <1>0, <1>1 DEF Inv, TypeOK, c
<1>4. /\ \A t \in Thread : Queued(t)' = IF t = d THEN Queued(t) \ {c} ELSE Queued(t)
      /\ c \in Queued(d)
  <2>1. Queued(d) = Elements(queue[d]) /\ Queued(d)' = Elements(queue'[d])
    BY DEF Queued, Elements
  <2>2. \A t \in Thread : t # d => Queued(t)' = Queued(t)
    BY <1>3 DEF Queued
  <2>3. QED
    BY <1>2, <1>3, <2>1, <2>2
<1>5. \A t \in Thread : Held(t)' = Held(t)
  BY <1>0, <1>3, <1>4 DEF Held
<1>6. TypeOK'
  BY <1>0, <1>1, <1>2, <1>3 DEF Inv, TypeOK, c
<1>7. OneOwner'
  <2>1. \A t \in Thread : Distinct(queue'[t])
    BY <1>2, <1>3 DEF Inv, OneOwner, Distinct
  <2>2. \A t \in Thread : step'[t] # "wait" => cmd'[t] \notin Queued(t)'
    BY <1>3, <1>4 DEF Inv, OneOwner
  <2>3. current' \notin Queued(Player)'
    BY <1>0, <1>4 DEF Inv, OneOwner, Thread
  <2>4. \A t \in Thread : \A x \in Client :
          x \in Held(t)' <=> x \in taken' /\ conn'[x] = "live" /\ kind'[x] = t
    BY <1>0, <1>5 DEF Inv, OneOwner
  <2>5. QED
    BY <2>1, <2>2, <2>3, <2>4 DEF OneOwner, Distinct
<1>8. OneReply' /\ NoSilentEnd' /\ Sockets'
  BY <1>0 DEF Inv, OneReply, NoSilentEnd, Sockets
<1>9. Control'
  BY <1>0, <1>3 DEF Inv, Control
<1>10. Answered'
  BY <1>0, <1>3, <1>5 DEF Inv, Answered
<1>11. Stages'
  <2>1. c # current \/ d # Player
    BY <1>4 DEF Inv, OneOwner
  <2>2. QED
    BY <1>0, <1>3, <2>1 DEF Inv, Stages, Thread
<1>12. QED
  BY <1>6, <1>7, <1>8, <1>9, <1>10, <1>11 DEF Inv

\* The command a thread has to do with is live, and is its own.
LEMMA OwnCommand ==
    ASSUME Inv, NEW d \in Thread, NEW c \in Client, c \in Held(d)
    PROVE  /\ c \in taken /\ conn[c] = "live" /\ kind[c] = d
           /\ \A t \in Thread : t # d => c \notin Held(t)
BY DEF Inv, OneOwner

LEMMA HandleInv ==
    ASSUME Inv, NEW d \in Thread, Handle(d)
    PROVE  Inv'
<1> DEFINE c == cmd[d]
<1>0. /\ step[d] = "handle" /\ LockFree(c) /\ step' = [step EXCEPT ![d] = "reply"]
      /\ \/ current' = current /\ \E e \in {"noError", "error"} : errCode' = [errCode EXCEPT ![c] = e]
         \/ /\ d = Player /\ current = None /\ current' = c
            /\ errCode' = [errCode EXCEPT ![c] = "processing"]
      /\ UNCHANGED <<peer, kind, inbox, openFile, conn, sock, replies, pc, at, queue, cmd, taken, loaded, down>>
  BY DEF Handle, clientVars, dataVars
<1>1. c \in Client /\ c \in Held(d) /\ c \notin Queued(d)
  BY <1>0 DEF Inv, TypeOK, OneOwner, Held
<1>2. /\ c \in taken /\ conn[c] = "live" /\ kind[c] = d
      /\ \A t \in Thread : t # d => c \notin Held(t)
  BY <1>1, OwnCommand
<1>3. /\ \A t \in Thread : step'[t] = IF t = d THEN "reply" ELSE step[t]
      /\ \A x \in Client : x # c => errCode'[x] = errCode[x]
      /\ errCode' \in [Client -> {"noError", "error", "processing"}]
      /\ errCode'[c] = "processing" => d = Player /\ current' = c
      /\ current' \in {current, c} /\ (current' # current => d = Player)
      /\ current' # current => current = None
  <2>1. PICK e \in {"noError", "error", "processing"} :
          /\ errCode' = [errCode EXCEPT ![c] = e]
          /\ e = "processing" => d = Player /\ current = None /\ current' = c
          /\ e # "processing" => current' = current
    BY <1>0
  <2>2. errCode \in [Client -> {"noError", "error", "processing"}] /\ step \in [Thread -> {"wait", "handle", "reply", "close"}]
    BY DEF Inv, TypeOK
  <2> HIDE DEF c
  <2>3. QED
    BY <1>0, <1>1, <2>1, <2>2
<1>4. \A t \in Thread : Queued(t)' = Queued(t) /\ Held(t)' = Held(t)
  BY <1>0, <1>1, <1>3 DEF Queued, Held
<1>5. \A t \in Thread : t # d /\ step[t] # "wait" => cmd[t] # c
  BY <1>2 DEF Held
<1> HIDE DEF c
<1>6. TypeOK'
  BY <1>0, <1>1, <1>3 DEF Inv, TypeOK
<1>7. OneOwner'
  <2>1. current' \notin Queued(Player)'
    BY <1>1, <1>3, <1>4 DEF Inv, OneOwner, Thread
  <2>2. \A t \in Thread : step'[t] # "wait" => cmd'[t] \notin Queued(t)'
    BY <1>0, <1>1, <1>3, <1>4 DEF Inv, OneOwner, c
  <2>3. QED
    BY <1>0, <1>4, <2>1, <2>2 DEF Inv, OneOwner
<1>8. OneReply' /\ NoSilentEnd' /\ Sockets'
  BY <1>0 DEF Inv, OneReply, NoSilentEnd, Sockets
<1>9. Control'
  <2>1. pc = "handOver" => at # c
    BY <1>0 DEF LockFree
  <2>2. QED
    BY <1>0, <1>3, <2>1 DEF Inv, Control, c
<1>10. Answered'
  BY <1>0, <1>3, <1>4 DEF Inv, Answered
<1>11. Stages'
  <2>1. ASSUME NEW t \in Thread, step'[t] = "reply", errCode'[cmd'[t]] = "processing"
        PROVE  t = Player /\ current' = cmd'[t]
    <3>1. CASE t = d
      BY <1>0, <1>3, <2>1, <3>1 DEF c
    <3>2. CASE t # d
      <4>1. step[t] = "reply" /\ cmd[t] # c /\ cmd[t] \in Client
        BY <1>0, <1>3, <1>5, <2>1, <3>2 DEF Inv, TypeOK
      <4>2. errCode[cmd[t]] = "processing"
        BY <1>0, <1>3, <2>1, <4>1
      <4>3. t = Player /\ current = cmd[t]
        BY <4>1, <4>2 DEF Inv, Stages
      <4>4. QED
        BY <1>0, <1>3, <3>2, <4>3
    <3>3. QED
      BY <3>1, <3>2
  <2>2. step'[Player] \in {"handle", "close"} => current' # cmd'[Player]
    BY <1>0, <1>3 DEF Inv, Stages, Thread
  <2>3. QED
    BY <2>1, <2>2 DEF Stages
<1>12. QED
  BY <1>6, <1>7, <1>8, <1>9, <1>10, <1>11 DEF Inv

LEMMA FinishInv ==
    ASSUME Inv, Finish
    PROVE  Inv'
<1>0. /\ step[Player] = "wait" /\ current # None /\ step' = [step EXCEPT ![Player] = "reply"]
      /\ cmd' = [cmd EXCEPT ![Player] = current]
      /\ \E e \in {"noError", "error"} : errCode' = [errCode EXCEPT ![current] = e]
      /\ UNCHANGED <<peer, kind, inbox, openFile, conn, sock, replies, pc, at, queue, taken, current, loaded, down>>
  BY DEF Finish, clientVars, dataVars
<1>1. current \in Client /\ current \in Held(Player) /\ Player \in Thread
  BY <1>0 DEF Inv, TypeOK, Held, Thread
<1>2. \A t \in Thread : t # Player => current \notin Held(t)
  BY <1>1, OwnCommand
<1>3. /\ \A t \in Thread : step'[t] = IF t = Player THEN "reply" ELSE step[t]
      /\ \A t \in Thread : cmd'[t] = IF t = Player THEN current ELSE cmd[t]
      /\ \A x \in Client : x # current => errCode'[x] = errCode[x]
      /\ errCode' \in [Client -> {"noError", "error", "processing"}]
      /\ errCode'[current] # "processing"
  BY <1>0, <1>1 DEF Inv, TypeOK
<1>4. \A t \in Thread : Queued(t)' = Queued(t) /\ Held(t)' = Held(t)
  BY <1>0, <1>1, <1>3 DEF Queued, Held
<1>5. \A t \in Thread : t # Player /\ step[t] # "wait" => cmd[t] # current
  BY <1>2 DEF Held
<1>6. TypeOK'
  BY <1>0, <1>1, <1>3 DEF Inv, TypeOK
<1>7. OneOwner'
  BY <1>0, <1>1, <1>3, <1>4 DEF Inv, OneOwner
<1>8. OneReply' /\ NoSilentEnd' /\ Sockets' /\ Control'
  BY <1>0, <1>3 DEF Inv, OneReply, NoSilentEnd, Sockets, Control
<1>9. Answered'
  BY <1>0, <1>1, <1>3, <1>4 DEF Inv, Answered
<1>10. Stages'
  BY <1>0, <1>1, <1>3, <1>5 DEF Inv, Stages, TypeOK
<1>11. QED
  BY <1>6, <1>7, <1>8, <1>9, <1>10 DEF Inv

LEMMA ReplyInv ==
    ASSUME Inv, NEW d \in Thread, Reply(d)
    PROVE  Inv'
<1> DEFINE c == cmd[d]
<1>0. step[d] = "reply" /\ UNCHANGED <<peer, kind, conn, sock, errCode, pc, at, queue, cmd, taken, loaded, down>>
  BY DEF Reply, clientVars
<1>1. c \in Client /\ c \in Held(d) /\ c \notin Queued(d)
  BY <1>0 DEF Inv, TypeOK, OneOwner, Held
<1>2. /\ c \in taken /\ conn[c] = "live" /\ kind[c] = d
      /\ \A t \in Thread : t # d => c \notin Held(t)
  BY <1>1, OwnCommand
<1>3. \A t \in Thread : Queued(t)' = Queued(t)
  BY <1>0 DEF Queued
<1>4. CASE errCode[c] = "processing"
  <2>1. step' = [step EXCEPT ![d] = "wait"] /\ UNCHANGED <<inbox, openFile, replies, current>>
    BY <1>4 DEF Reply
  <2>2. d = Player /\ current = c
    BY <1>0, <1>4 DEF Inv, Stages
  <2>3. \A t \in Thread : step'[t] = IF t = d THEN "wait" ELSE step[t]
    BY <2>1 DEF Inv, TypeOK
  <2>4. \A t \in Thread : Held(t)' = Held(t)
    BY <1>0, <1>1, <1>3, <2>1, <2>2, <2>3, ControllerAssumption DEF Held
  <2>5. TypeOK' /\ OneReply' /\ NoSilentEnd' /\ Sockets' /\ Control'
    BY <1>0, <2>1, <2>3 DEF Inv, TypeOK, OneReply, NoSilentEnd, Sockets, Control
  <2>6. OneOwner'
    BY <1>0, <1>3, <2>1, <2>3, <2>4 DEF Inv, OneOwner, Thread
  <2>7. Answered'
    BY <1>0, <2>1, <2>3, <2>4 DEF Inv, Answered
  <2>8. Stages'
    BY <1>0, <2>1, <2>3 DEF Inv, Stages, Thread
  <2>9. QED
    BY <2>5, <2>6, <2>7, <2>8 DEF Inv
<1>5. CASE errCode[c] # "processing"
  <2>1. /\ Respond(c) /\ step' = [step EXCEPT ![d] = "close"]
        /\ current' = IF current = c THEN None ELSE current
    BY <1>5 DEF Reply
  <2>2. /\ inbox' \in [Client -> SUBSET Client] /\ openFile' \in [Fd -> Client \cup {None}]
        /\ replies' \in [Client -> Nat]
    BY <1>1, <1>2, <2>1, RespondTyped
  <2>3. replies[c] = 0 /\ replies' = [replies EXCEPT ![c] = 1]
    <3>1. replies[c] = 0
      BY <1>0, <1>1 DEF Inv, Answered
    <3>2. replies' = [replies EXCEPT ![c] = replies[c] + 1]
      BY <2>1 DEF Respond
    <3>3. QED
      BY <3>1, <3>2
  <2>4. /\ \A t \in Thread : step'[t] = IF t = d THEN "close" ELSE step[t]
        /\ \A x \in Client : replies'[x] = IF x = c THEN 1 ELSE replies[x]
    BY <1>1, <2>1, <2>3 DEF Inv, TypeOK
  <2>5. \A t \in Thread : Held(t)' = Held(t)
    BY <1>0, <1>1, <1>2, <1>3, <2>1, <2>4 DEF Held, Thread
  <2>6. TypeOK'
    BY <1>0, <2>1, <2>2, <2>4 DEF Inv, TypeOK
  <2>7. OneOwner'
    <3>1. current' \notin Queued(Player)
      <4>1. \A x \in Queued(Player) : x # None
        BY ControllerAssumption DEF Inv, TypeOK, Queued, Thread
      <4>2. QED
        BY <2>1, <4>1 DEF Inv, OneOwner
    <3>2. QED
      BY <1>0, <1>3, <2>4, <2>5, <3>1 DEF Inv, OneOwner, Thread
  <2>8. OneReply' /\ NoSilentEnd' /\ Sockets'
    <3>1. OneReply'
      BY <2>4 DEF Inv, OneReply
    <3>2. NoSilentEnd'
      BY <1>0, <1>2, <2>4 DEF Inv, NoSilentEnd
    <3>3. QED
      BY <1>0, <3>1, <3>2 DEF Inv, Sockets
  <2>9. Control'
    <3>1. pc = "handOver" => at \in Client /\ current' # at
      BY <2>1, ControllerAssumption DEF Inv, Control, TypeOK
    <3>2. QED
      BY <1>0, <2>4, <3>1 DEF Inv, Control
  <2>10. Answered'
    <3>1. pc \in {"dispatch", "close"} => at # c /\ at \in Client
      BY <1>2 DEF Inv, Control, TypeOK
    <3>2. \A t \in Thread : t # d => c \notin Held(t) /\ (step[t] = "close" => cmd[t] # c /\ cmd[t] \in Client)
      BY <1>2 DEF Held, Inv, TypeOK
    <3>3. \A x \in Client : conn'[x] = "none" => replies'[x] = 0 /\ x \notin taken'
      BY <1>0, <1>2, <2>4 DEF Inv, Answered
    <3>4. /\ pc' = "dispatch" => replies'[at'] = 0
          /\ pc' = "close" => replies'[at'] = 1 \/ (kind'[at'] = "malformed" /\ replies'[at'] = 0)
      BY <1>0, <2>4, <3>1 DEF Inv, Answered
    <3>5. \A t \in Thread : step'[t] = "close" => replies'[cmd'[t]] = 1
      BY <1>0, <1>1, <2>4, <3>2 DEF Inv, Answered
    <3>6. \A t \in Thread : \A x \in Held(t)' : ~ (step'[t] = "close" /\ x = cmd'[t]) => replies'[x] = 0
      <4>1. \A t \in Thread : Held(t) \subseteq Client
        BY DEF Held, Queued, Inv, TypeOK
      <4>2. \A t \in Thread : t # d => \A x \in Held(t) : x # c
        BY <3>2
      <4>3. QED
        BY <1>0, <2>4, <2>5, <4>1, <4>2 DEF Inv, Answered
    <3>7. QED
      BY <3>3, <3>4, <3>5, <3>6 DEF Answered
  <2>11. Stages'
    <3>1. \A t \in Thread : t # d /\ step[t] # "wait" => cmd[t] # c
      BY <1>2 DEF Held
    <3>2. current' # c
      BY <2>1, <1>1, ControllerAssumption
    <3>3. QED
      BY <1>0, <2>1, <2>4, <3>1, <3>2, ControllerAssumption DEF Inv, Stages, Thread, TypeOK
  <2>12. QED
    BY <2>6, <2>7, <2>8, <2>9, <2>10, <2>11 DEF Inv
<1>6. QED
  BY <1>4, <1>5

LEMMA PluginCloseInv ==
    ASSUME Inv, NEW d \in Thread, PluginClose(d)
    PROVE  Inv'
<1> DEFINE c == cmd[d]
<1>0. /\ step[d] = "close" /\ CloseDataConn(c) /\ step' = [step EXCEPT ![d] = "wait"]
      /\ UNCHANGED <<peer, kind, inbox, sock, errCode, replies, pc, at, queue, cmd, taken, current, loaded, down>>
  BY DEF PluginClose, clientVars
<1>1. c \in Client /\ c \in Held(d) /\ c \notin Queued(d) /\ replies[c] = 1
  BY <1>0 DEF Inv, TypeOK, OneOwner, Held, Answered
<1>2. /\ c \in taken /\ conn[c] = "live" /\ kind[c] = d
      /\ \A t \in Thread : t # d => c \notin Held(t)
  BY <1>1, OwnCommand
<1>3. current # c \/ d # Player
  BY <1>0 DEF Inv, Stages
<1>4. /\ \A t \in Thread : step'[t] = IF t = d THEN "wait" ELSE step[t]
      /\ \A x \in Client : conn'[x] = IF x = c THEN "freed" ELSE conn[x]
      /\ conn' \in [Client -> {"none", "live", "freed"}]
      /\ openFile' \in [Fd -> Client \cup {None}]
  BY <1>0, <1>1 DEF Inv, TypeOK, CloseDataConn
<1>5. /\ \A t \in Thread : Queued(t)' = Queued(t)
      /\ \A t \in Thread : Held(t)' = IF t = d THEN Held(t) \ {c} ELSE Held(t)
  BY <1>0, <1>1, <1>3, <1>4 DEF Queued, Held
<1>6. TypeOK'
  BY <1>0, <1>4 DEF Inv, TypeOK
<1>7. OneOwner'
  <2>1. \A t \in Thread : \A x \in Client :
          x \in Held(t)' <=> x \in taken' /\ conn'[x] = "live" /\ kind'[x] = t
    BY <1>0, <1>2, <1>4, <1>5 DEF Inv, OneOwner
  <2>2. QED
    BY <1>0, <1>4, <1>5, <2>1 DEF Inv, OneOwner, Thread
<1>8. OneReply' /\ NoSilentEnd'
  BY <1>0, <1>1, <1>4 DEF Inv, OneReply, NoSilentEnd
<1>9. Sockets' /\ Control'
  <2>1. pc = "read" => at \in Client /\ at # c
    BY <1>2 DEF Inv, Sockets, TypeOK
  <2>2. pc \in {"dispatch", "close", "handOver"} => at \in Client /\ at # c
    BY <1>0, <1>2 DEF Inv, Control, TypeOK
  <2>3. QED
    BY <1>0, <1>2, <1>4, <2>1, <2>2 DEF Inv, Sockets, Control
<1>10. Answered'
  BY <1>0, <1>2, <1>4, <1>5 DEF Inv, Answered
<1>11. Stages'
  BY <1>0, <1>4 DEF Inv, Stages, Thread
<1>12. QED
  BY <1>6, <1>7, <1>8, <1>9, <1>10, <1>11 DEF Inv

----------------------------------------------------------------------------
LEMMA NextInv ==
    ASSUME Inv, [Next]_vars
    PROVE  Inv'
<1>1. CASE UNCHANGED vars
  <2>1. \A t \in Thread : Held(t)' = Held(t) /\ Queued(t)' = Queued(t)
    BY <1>1, FrameHeld DEF vars
  <2>2. OneOwner'
    BY <1>1, FrameOwner DEF Inv, vars
  <2>3. QED
    BY <1>1, <2>1, <2>2 DEF Inv, TypeOK, OneReply, NoSilentEnd, Sockets, Control, Answered, Stages, vars
<1>2. CASE ClientStep
  BY <1>2, ConnectInv, SendInv, HangUpInv DEF ClientStep
<1>3. CASE ControllerStep
  BY <1>3, AcceptInv, ReadInv, ReadDatagramInv, ReadNothingInv, AnswerItselfInv, RefuseSilentlyInv,
     ReportInv, HandOverInv, CloseInv DEF ControllerStep
<1>4. CASE Finish
  BY <1>4, FinishInv
<1>5. CASE Crash
  BY <1>5, ReadPieceInv, ReportTooEarlyInv DEF Crash
<1>6. CASE \E p \in Plugin : Load(p)
  BY <1>6, LoadInv
<1>7. CASE \E t \in Thread : ThreadStep(t)
  BY <1>7, GetInv, HandleInv, ReplyInv, PluginCloseInv DEF ThreadStep
<1>8. QED
  BY <1>1, <1>2, <1>3, <1>4, <1>5, <1>6, <1>7 DEF Next

(* The inductive invariant holds in every state of every instance of the    *)
(* controller and its plugins.                                              *)
THEOREM Invariance == Spec => []Inv
<1>1. Init => Inv
  BY InitInv
<1>2. Inv /\ [Next]_vars => Inv'
  BY NextInv
<1>3. QED
  BY <1>1, <1>2, PTL DEF Spec

(* The variables of the controller keep to their ranges.                    *)
THEOREM ControllerTyped == Spec => []TypeOK
BY Invariance, PTL DEF Inv

(* No thread holds a pointer to a DATA_CONN that has been freed, however    *)
(* the controller and the plugins race at the hand-over.                    *)
THEOREM Lifetime == Spec => []NoUseAfterFree
<1>1. Inv => NoUseAfterFree
  <2> SUFFICES ASSUME Inv PROVE NoUseAfterFree
    OBVIOUS
  <2>1. \A t \in Thread : Held(t) \subseteq Client
    BY DEF Inv, TypeOK, Held, Queued
  <2>2. \A t \in Thread : \A c \in Held(t) : conn[c] = "live"
    BY <2>1 DEF Inv, OneOwner
  <2>3. QED
    BY <2>2 DEF Inv, Control, NoUseAfterFree
<1>2. QED
  BY Invariance, <1>1, PTL

(* A command that a queue took has exactly one place.                       *)
THEOREM Ownership == Spec => []OneOwner
BY Invariance, PTL DEF Inv

(* At most one reply per command.                                           *)
THEOREM AtMostOneReply == Spec => []OneReply
BY Invariance, PTL DEF Inv

(* No connection ends without its reply, the refused ones apart.            *)
THEOREM NoConnectionEndsSilently == Spec => []NoSilentEnd
BY Invariance, PTL DEF Inv

----------------------------------------------------------------------------
(* The player seen through the controller is a CommandEngine.              *)

Status == [c \in Client |-> Stage(c)]

LEMMA StageFrame ==
    ASSUME UNCHANGED <<taken, current>>,
           \A c \in taken : kind'[c] = kind[c] /\ replies'[c] = replies[c]
    PROVE  UNCHANGED Status
<1>1. \A c \in Client : Stage(c)' = Stage(c)
  BY DEF Stage
<1>2. QED
  BY <1>1 DEF Status

\* One command changes its stage and the others keep theirs.
LEMMA StageMoves ==
    ASSUME NEW c \in Client, NEW from, NEW to, Stage(c) = from, Stage(c)' = to,
           \A x \in Client \ {c} : Stage(x)' = Stage(x)
    PROVE  Engine!MovesTo(c, from, to)
BY DEF Engine!MovesTo

LEMMA ControllerStages ==
    ASSUME Inv, NEW c \in Client,
           \/ Accept(c) \/ Read(c) \/ ReadDatagram(c) \/ ReadNothing(c) \/ AnswerItself(c)
           \/ RefuseSilently(c) \/ HandOver(c) \/ Close(c)
           \/ Connect(c) \/ Send(c) \/ HangUp(c) \/ ReadPiece(c) \/ ReportTooEarly(c)
    PROVE  UNCHANGED Status
<1>1. UNCHANGED <<taken, current>>
  BY DEF Accept, Read, ReadDatagram, MakeDataConn, ReadNothing, AnswerItself, RefuseSilently, HandOver,
         Close, Connect, Send, HangUp, ReadPiece, ReportTooEarly, threadVars
<1>2. \A x \in taken : kind'[x] = kind[x]
  <2>1. CASE Read(c) \/ ReadDatagram(c)
    <3>1. c \notin taken
      BY <2>1 DEF Inv, Answered, Sockets, Read, ReadDatagram
    <3>2. \E k \in Kind : kind' = [kind EXCEPT ![c] = k]
      BY <2>1 DEF Read, ReadDatagram, MakeDataConn
    <3>3. QED
      BY <3>1, <3>2 DEF Inv, TypeOK
  <2>2. CASE ~ (Read(c) \/ ReadDatagram(c))
    BY <2>2 DEF Accept, ReadNothing, AnswerItself, RefuseSilently, HandOver,
         Close, Connect, Send, HangUp, ReadPiece, ReportTooEarly, clientVars
  <2>3. QED
    BY <2>1, <2>2
<1>3. \A x \in taken : replies'[x] = replies[x]
  <2>1. CASE AnswerItself(c)
    BY <2>1 DEF Inv, TypeOK, Control, AnswerItself, Respond
  <2>2. CASE ~ AnswerItself(c)
    BY <2>2 DEF Accept, Read, ReadDatagram, MakeDataConn, ReadNothing, RefuseSilently, HandOver,
         Close, Connect, Send, HangUp, ReadPiece, ReportTooEarly, dataVars
  <2>3. QED
    BY <2>1, <2>2
<1>4. QED
  BY <1>1, <1>2, <1>3, StageFrame

LEMMA ReportStages ==
    ASSUME Inv, NEW c \in Client, Report(c)
    PROVE  Engine!Next \/ UNCHANGED Status
<1>1. /\ c \notin taken /\ replies[c] = 0 /\ current # c /\ taken' \in {taken, taken \cup {c}}
      /\ UNCHANGED <<kind, replies, current>>
  <2>1. c \notin taken /\ replies[c] = 0
    BY DEF Inv, Control, Answered, Report
  <2>2. current # c
    BY <2>1, OwnCommand, ControllerAssumption DEF Held, Thread, Inv, TypeOK
  <2>3. taken' \in {taken, taken \cup {c}} /\ UNCHANGED <<kind, replies, current>>
    BY DEF Report, clientVars, dataVars
  <2>4. QED
    BY <2>1, <2>2, <2>3
<1>2. \A x \in Client \ {c} : Stage(x)' = Stage(x)
  BY <1>1 DEF Stage
<1>3. CASE taken' = taken \/ kind[c] # Player
  <2>1. Stage(c)' = Stage(c)
    BY <1>1, <1>3 DEF Stage
  <2>2. QED
    BY <1>2, <2>1 DEF Status
<1>4. CASE taken' = taken \cup {c} /\ kind[c] = Player
  <2>1. Stage(c) = "unsent" /\ Stage(c)' = "queued"
    BY <1>1, <1>4 DEF Stage
  <2>2. Engine!Send(c)
    BY <1>2, <2>1, StageMoves DEF Engine!Send
  <2>3. QED
    BY <2>2 DEF Engine!Next
<1>5. QED
  BY <1>1, <1>3, <1>4

LEMMA HandleStages ==
    ASSUME Inv, NEW d \in Thread, Handle(d)
    PROVE  Engine!Next \/ UNCHANGED Status
<1>0. PICK c \in Client : c = cmd[d]
  BY DEF Handle, Inv, TypeOK
<1>1. c \in Held(d) /\ replies[c] = 0
  BY <1>0 DEF Handle, Inv, Held, Answered
<1>2. c \in taken /\ kind[c] = d
  BY <1>1, OwnCommand
<1>3. UNCHANGED <<taken, kind, replies>> /\ (current' = current \/ (d = Player /\ current = None /\ current' = c))
  BY <1>0 DEF Handle, clientVars
<1>4. CASE current' = current
  BY <1>3, <1>4, StageFrame
<1>5. CASE d = Player /\ current = None /\ current' = c
  <2>1. \A x \in Client : x # None
    BY ControllerAssumption
  <2>2. \A x \in Client \ {c} : Stage(x)' = Stage(x)
    BY <1>3, <1>5, <2>1 DEF Stage
  <2>3. Stage(c) = "queued" /\ Stage(c)' = "processing"
    BY <1>1, <1>2, <1>3, <1>5, <2>1 DEF Stage
  <2>4. \A x \in Client : Stage(x) # "processing"
    BY <1>5, <2>1 DEF Stage
  <2>5. Engine!InProcessing = {}
    BY <2>4 DEF Engine!InProcessing
  <2>6. Engine!Accept(c)
    BY <1>1, <2>2, <2>3, <2>5, StageMoves DEF Engine!Accept
  <2>7. QED
    BY <1>1, <2>6 DEF Engine!Next
<1>6. QED
  BY <1>3, <1>4, <1>5

LEMMA ReplyStages ==
    ASSUME Inv, NEW d \in Thread, Reply(d)
    PROVE  Engine!Next \/ UNCHANGED Status
<1>0. PICK c \in Client : c = cmd[d]
  BY DEF Reply, Inv, TypeOK
<1>1. c \in Held(d) /\ replies[c] = 0
  BY <1>0 DEF Reply, Inv, Held, Answered
<1>2. c \in taken /\ kind[c] = d
  BY <1>1, OwnCommand
<1>3. UNCHANGED <<taken, kind>>
  BY DEF Reply, clientVars
<1>4. CASE errCode[c] = "processing"
  <2>1. UNCHANGED <<replies, current>>
    BY <1>0, <1>4 DEF Reply
  <2>2. QED
    BY <1>3, <2>1, StageFrame
<1>5. CASE errCode[c] # "processing"
  <2>1. /\ replies' = [replies EXCEPT ![c] = replies[c] + 1]
        /\ current' = IF current = c THEN None ELSE current
    BY <1>0, <1>5 DEF Reply, Respond
  <2>2. /\ replies'[c] = 1 /\ \A x \in Client \ {c} : replies'[x] = replies[x]
        /\ \A x \in Client \ {c} : (current' = x <=> current = x)
    BY <1>1, <2>1, ControllerAssumption DEF Inv, TypeOK
  <2>3. \A x \in Client \ {c} : Stage(x)' = Stage(x)
    BY <1>3, <2>2 DEF Stage
  <2>4. CASE kind[c] # Player
    <3>1. Stage(c)' = Stage(c)
      BY <1>3, <2>4 DEF Stage
    <3>2. QED
      BY <2>3, <3>1 DEF Status
  <2>5. CASE kind[c] = Player
    <3>1. Stage(c)' = "answered"
      BY <1>2, <1>3, <2>2, <2>5 DEF Stage
    <3>2. Stage(c) = "queued" \/ Stage(c) = "processing"
      BY <1>1, <1>2, <2>5 DEF Stage
    <3>3. Engine!AnswerAtOnce(c) \/ Engine!Answer(c)
      BY <1>1, <2>3, <3>1, <3>2, StageMoves DEF Engine!AnswerAtOnce, Engine!Answer
    <3>4. QED
      BY <1>1, <3>3 DEF Engine!Next
  <2>6. QED
    BY <2>4, <2>5
<1>6. QED
  BY <1>4, <1>5

(* Controller and player together keep the player's promise to its clients: *)
(* what the queue took is taken up once, one at a time, and answered once.  *)
THEOREM Refinement == Spec => ImplementsCommandEngine
<1>1. Init => Engine!Init
  <2> SUFFICES ASSUME Init PROVE Engine!Init
    OBVIOUS
  <2>1. \A c \in Client : Stage(c) = "unsent"
    BY DEF Init, Stage
  <2>2. QED
    BY <2>1 DEF Engine!Init
<1>2. Inv /\ [Next]_vars => [Engine!Next]_Status
  <2> SUFFICES ASSUME Inv, [Next]_vars PROVE Engine!Next \/ UNCHANGED Status
    OBVIOUS
  <2>1. CASE UNCHANGED vars
    BY <2>1, StageFrame DEF vars
  <2>2. CASE ClientStep \/ Crash
    BY <2>2, ControllerStages DEF ClientStep, Crash
  <2>3. CASE ControllerStep
    BY <2>3, ControllerStages, ReportStages DEF ControllerStep
  <2>4. CASE Finish \/ (\E p \in Plugin : Load(p))
    BY <2>4, StageFrame DEF Finish, Load, clientVars, dataVars, threadVars
  <2>5. CASE \E t \in Thread : ThreadStep(t)
    <3>1. PICK d \in Thread : ThreadStep(d)
      BY <2>5
    <3>2. CASE Get(d) \/ PluginClose(d)
      BY <3>2, StageFrame DEF Get, PluginClose, clientVars, dataVars
    <3>3. QED
      BY <3>1, <3>2, HandleStages, ReplyStages DEF ThreadStep
  <2>6. QED
    BY <2>1, <2>2, <2>3, <2>4, <2>5 DEF Next
<1>3. QED
  BY <1>1, <1>2, Invariance, PTL DEF Spec, ImplementsCommandEngine, Engine!Spec, Status
=============================================================================
