---------------------- MODULE MuxPlayerCommands_proofs ----------------------
(***************************************************************************)
(* What becomes of the commands of a window: each is answered at most      *)
(* once, none is forgotten, the current command is never one that has been *)
(* freed, only the startup is answered through NULL, and the window        *)
(* implements CommandEngine.  The types of the window are proved on the    *)
(* way.  At the end: a window that has got one command knows the state of  *)
(* HiPlayer.                                                               *)
(*                                                                         *)
(* The argument is in three layers.  Every helper and handler is an        *)
(* operator on a record w; it is shown to keep, to answer or to accept the *)
(* current command (Keeps, Replies, Finishes, Accepts), and these          *)
(* relations compose.  Then every step of the window is one of five kinds, *)
(* seen from its commands (StepKinds), and the invariants about queue,     *)
(* answers and current command (Books, AllKept) and the refinement are     *)
(* then carried over the five kinds instead of over every path of the code.*)
(***************************************************************************)
EXTENDS MuxPlayer_proofs

----------------------------------------------------------------------------
(* What a handler may do, seen from the commands.                            *)

\* An element of a sequence over a set is in the set.
LEMMA ElementIn == ASSUME NEW S, NEW s \in Seq(S), NEW i \in DOMAIN s PROVE s[i] \in S
OBVIOUS

\* A media has items, and so a first one.
LEMMA Item ==
    ASSUME NEW m \in DOMAIN Media
    PROVE  /\ Media[m] \in Seq([kind : Kinds, timed : BOOLEAN])
           /\ Len(Media[m]) \in Nat \ {0} /\ DOMAIN Media[m] = 1 .. Len(Media[m])
           /\ 1 \in DOMAIN Media[m]
<1>1. Media[m] \in Seq([kind : Kinds, timed : BOOLEAN]) /\ Len(Media[m]) > 0
  BY ConstantsAssumption
<1> QED BY <1>1

\* The calls of HiPlayer.
HiRequest == {"Stop", "Play", "Pause", "Resume", "Forward", "Backward", "Seek"}

\* The MUX_PLAY_T.  The number of plays, and of SetMedia threads, has no bound here:
\* MaxPlays bounds the instances TLC checks.
PlayRecord ==
    [fsm : FsmStates, cmd : {"UNKNOWN", "OPEN", "STOP", "PAUSE", "RESUME"},
     data : Sent \cup {NoJson}, count : Nat,
     mediaState : {"INIT", "WAITING", "OK", "TIMEOUT"},
     mediaThread : Nat, mediaTimer : Plays \cup {None},
     playTimer : Nat, countOfTimer : Nat, speed : 0 .. SpeedCount - 1,
     list : DOMAIN Media, index : Nat, round : Nat, repeat : Nat]

\* What the handlers work on.
WorldType ==
    [play : PlayRecord, queue : Seq(Event), answers : [Json \cup {NoJson} -> Seq({"OK", "NOK"})],
     armed : SUBSET [kind : {"media", "play"}, n : Nat], changed : BOOLEAN,
     hiReq : Seq(HiRequest), pc : {"idle", "setMedia", "OK", "IMAGE_OK"}]

\* The item that is played is in its list, and the list is not over.
PlaylistOK(p) == p.index \in DOMAIN Media[p.list] /\ (p.repeat = 0 \/ p.round < p.repeat)

\* The queue is not longer than the fifo, and no event comes from a play to come.
QueueOK(q, count) ==
    /\ Len(q) <= QueueSize
    /\ \A i \in DOMAIN q : q[i].ev # "JSON" => q[i].tag <= count

\* The commands sent so far.
RequestsOK == requests \in Seq(Command) /\ Len(requests) <= MaxJson

\* All of it.
Typed(w) ==
    /\ RequestsOK
    /\ w \in WorldType /\ PlaylistOK(w.play) /\ QueueOK(w.queue, w.play.count)

\* A handler puts state machine events at the end of the queue, never a command.
Extends(q, r) ==
    /\ Len(q) <= Len(r)
    /\ \A i \in 1 .. Len(q) : r[i] = q[i]
    /\ \A i \in Len(q) + 1 .. Len(r) : r[i].ev # "JSON"

\* The fields that follow from any handler: plays are counted up, and a SetMedia
\* thread is forgotten but never made up.
Reaches(w, x) ==
    /\ Typed(x) /\ Extends(w.queue, x.queue)
    /\ x.play.count >= w.play.count /\ x.play.mediaThread \in {w.play.mediaThread, None}

\* The current command is left alone.
SamePending(w, x) == x.play.cmd = w.play.cmd /\ x.play.data = w.play.data

\* One more answer, to id.
Answered(w, x, id) ==
    \E answer \in {"OK", "NOK"} : x.answers = [w.answers EXCEPT ![id] = Append(@, answer)]

\* A helper that has nothing to do with commands.
Keeps(w, x) == Reaches(w, x) /\ SamePending(w, x) /\ x.answers = w.answers

\* One that answers id and leaves the current command alone.
Replies(w, x, id) == Reaches(w, x) /\ SamePending(w, x) /\ Answered(w, x, id)

\* One that answers the current command, if there is one, and forgets it.
Finishes(w, x) ==
    /\ Reaches(w, x) /\ x.play.cmd = "UNKNOWN" /\ x.play.data = NoJson
    /\ \/ w.play.data = NoJson /\ x.answers = w.answers
       \/ w.play.cmd # "UNKNOWN" /\ Answered(w, x, w.play.data)

\* One that makes id the current command.
Accepts(w, x, id) ==
    /\ Reaches(w, x) /\ x.answers = w.answers
    /\ w.play.cmd = "UNKNOWN" /\ x.play.cmd # "UNKNOWN" /\ x.play.data = id

\* The parts of Typed the steps below name most often.
LEMMA PlayOf == ASSUME NEW w, Typed(w) PROVE w.play \in PlayRecord /\ PlaylistOK(w.play)
BY DEF Typed, WorldType

LEMMA CountOf == ASSUME NEW w, Typed(w) PROVE w.play.count \in Nat
BY PlayOf DEF PlayRecord

\* Keeps and Reaches compose.
LEMMA KeepsReflexive == ASSUME NEW w, Typed(w) PROVE Keeps(w, w)
<1>1. w.play.count >= w.play.count
  BY CountOf
<1>2. Extends(w.queue, w.queue)
  BY DEF Extends, Typed, WorldType
<1> QED BY <1>1, <1>2 DEF Keeps, Reaches, SamePending

LEMMA ExtendsTransitive ==
    ASSUME NEW q \in Seq(Event), NEW r \in Seq(Event), NEW s \in Seq(Event), Extends(q, r), Extends(r, s)
    PROVE  Extends(q, s)
BY DEF Extends

LEMMA ReachesTransitive ==
    ASSUME NEW w, NEW x, NEW y, Typed(w), Reaches(w, x), Reaches(x, y) PROVE Reaches(w, y)
<1>1. y.play.count >= w.play.count
  <2>1. w.play.count \in Nat /\ x.play.count \in Nat /\ y.play.count \in Nat
    BY CountOf DEF Reaches
  <2> QED BY <2>1 DEF Reaches
<1>2. Extends(w.queue, y.queue)
  BY ExtendsTransitive DEF Reaches, Typed, WorldType
<1> QED BY <1>1, <1>2 DEF Reaches

LEMMA KeepsTransitive ==
    ASSUME NEW w, NEW x, NEW y, Typed(w), Keeps(w, x), Keeps(x, y) PROVE Keeps(w, y)
BY ReachesTransitive DEF Keeps, SamePending

\* An event of the present play fits in a queue that has room.
LEMMA AppendExtends ==
    ASSUME NEW q \in Seq(Event), NEW ev \in FsmEvents, NEW tag \in Nat, NEW val \in HiStates,
           NEW count \in Nat, tag <= count, QueueOK(q, count), Len(q) < QueueSize
    PROVE  LET r == Append(q, Fsm(ev, tag, val))
           IN  r \in Seq(Event) /\ Extends(q, r) /\ QueueOK(r, count)
<1> DEFINE e == Fsm(ev, tag, val)
<1>1. e \in Event /\ e.ev # "JSON" /\ e.tag = tag
  BY DEF Fsm, Event, FsmEvents
<1> HIDE DEF e
<1>2. Append(q, e) \in Seq(Event) /\ Len(Append(q, e)) = Len(q) + 1
  BY <1>1
<1>3. \A i \in 1 .. Len(q) + 1 : Append(q, e)[i] = IF i = Len(q) + 1 THEN e ELSE q[i]
  OBVIOUS
<1>4. Extends(q, Append(q, e))
  BY <1>1, <1>2, <1>3 DEF Extends
<1>5. QueueOK(Append(q, e), count)
  BY <1>1, <1>2, <1>3, ConstantsAssumption DEF QueueOK
<1> QED BY <1>2, <1>4, <1>5 DEF e

\* The helpers, one by one: an event is sent or lost.
LEMMA SendKeeps == ASSUME NEW w, NEW ev \in FsmEvents, Typed(w) PROVE Keeps(w, Send(w, ev))
<1> DEFINE r == Append(w.queue, Fsm(ev, w.play.count, "STOP"))
<1>1. CASE Len(w.queue) < QueueSize
  <2>1. r \in Seq(Event) /\ Extends(w.queue, r) /\ QueueOK(r, w.play.count)
    BY <1>1, AppendExtends DEF Typed, WorldType, PlayRecord, HiStates
  <2>2. Send(w, ev) = [w EXCEPT !.queue = r]
    BY <1>1 DEF Send, Typed, WorldType
  <2> HIDE DEF r
  <2>3. w.play.count >= w.play.count
    BY CountOf
  <2> QED BY <2>1, <2>2, <2>3 DEF Keeps, Reaches, SamePending, Typed, WorldType
<1>2. CASE ~ (Len(w.queue) < QueueSize)
  BY <1>2, KeepsReflexive DEF Send
<1> QED BY <1>1, <1>2

\* A call of HiPlayer.
LEMMA HiCallKeeps == ASSUME NEW w, NEW req \in HiRequest, Typed(w) PROVE Keeps(w, HiCall(w, req))
<1> DEFINE r == Append(w.hiReq, req)
<1>1. r \in Seq(HiRequest)
  BY DEF Typed, WorldType
<1> HIDE DEF r
<1>2. Keeps(w, [w EXCEPT !.hiReq = r])
  BY <1>1, KeepsReflexive DEF Keeps, Reaches, SamePending, Typed, WorldType
<1> QED BY <1>2, KeepsReflexive DEF HiCall, r

LEMMA StopPlayingKeeps == ASSUME NEW w, Typed(w) PROVE Keeps(w, StopPlaying(w))
BY KeepsReflexive, HiCallKeeps DEF StopPlaying, HiRequest

\* The play record changes in fields that do not belong to the pending command.
LEMMA PlayKeeps ==
    ASSUME NEW w, Typed(w), NEW p \in PlayRecord, PlaylistOK(p), p.count >= w.play.count,
           p.cmd = w.play.cmd, p.data = w.play.data,
           p.mediaThread \in {w.play.mediaThread, None}
    PROVE  Keeps(w, [w EXCEPT !.play = p])
<1> DEFINE x == [w EXCEPT !.play = p]
<1>1. x \in WorldType /\ x.play = p /\ x.queue = w.queue /\ x.answers = w.answers
  BY DEF Typed, WorldType
<1>2. QueueOK(x.queue, p.count)
  <2>1. p.count \in Nat /\ w.play.count \in Nat /\ w.queue \in Seq(Event)
    BY DEF Typed, WorldType, PlayRecord
  <2>2. \A i \in DOMAIN w.queue : w.queue[i].ev # "JSON" => w.queue[i].tag \in Nat
    BY <2>1 DEF Event, FsmEvents
  <2> QED BY <1>1, <2>1, <2>2 DEF Typed, QueueOK
<1> HIDE DEF x
<1>3. Keeps(w, x)
  BY <1>1, <1>2, KeepsReflexive DEF Keeps, Reaches, SamePending, Typed
<1> QED BY <1>3 DEF x

\* The window changes its timers.
LEMMA ArmedKeeps ==
    ASSUME NEW w, Typed(w), NEW a \in SUBSET [kind : {"media", "play"}, n : Nat]
    PROVE  Keeps(w, [[w EXCEPT !.armed = a] EXCEPT !.changed = TRUE])
BY KeepsReflexive DEF Keeps, Reaches, SamePending, Typed, WorldType

LEMMA RemovePlayingTimerKeeps == ASSUME NEW w, Typed(w) PROVE Keeps(w, RemovePlayingTimer(w))
<1> DEFINE a == w.armed \ {Timer("play", w.play.playTimer)}
           x == [[w EXCEPT !.armed = a] EXCEPT !.changed = TRUE]
           p == [w.play EXCEPT !.playTimer = None]
<1>1. Keeps(w, x)
  BY ArmedKeeps DEF Typed, WorldType
<1>2. x.play = w.play
  BY DEF Typed, WorldType
<1>3. p \in PlayRecord /\ PlaylistOK(p) /\ p.count >= w.play.count /\ p.cmd = w.play.cmd /\ p.data = w.play.data /\ p.mediaThread = w.play.mediaThread
  <2>1. w.play \in PlayRecord /\ PlaylistOK(w.play)
    BY DEF Typed, WorldType
  <2>2. p \in PlayRecord /\ p.count = w.play.count
    BY <2>1 DEF PlayRecord, None
  <2>3. p.count >= w.play.count
    BY <2>1, <2>2 DEF PlayRecord
  <2>4. PlaylistOK(p) /\ p.cmd = w.play.cmd /\ p.data = w.play.data /\ p.mediaThread = w.play.mediaThread
    BY <2>1 DEF PlayRecord, PlaylistOK
  <2> QED BY <2>2, <2>3, <2>4
<1>4. RemovePlayingTimer(w) \in {w, [x EXCEPT !.play = p]}
  BY DEF RemovePlayingTimer, RemoveTimer, Typed, WorldType
<1> HIDE DEF x, p
<1>5. Keeps(x, [x EXCEPT !.play = p])
  BY <1>1, <1>2, <1>3, PlayKeeps DEF Keeps, Reaches
<1> QED BY <1>1, <1>4, <1>5, KeepsReflexive, KeepsTransitive

\* Fields of the play record that say nothing about the list and the command.
LEMMA FieldKeeps ==
    ASSUME NEW w, Typed(w), NEW state \in FsmStates, NEW speed \in 0 .. SpeedCount - 1,
           NEW timer \in Nat
    PROVE  /\ Keeps(w, [w EXCEPT !.play.fsm = state])
           /\ Keeps(w, [w EXCEPT !.play.speed = speed])
           /\ Keeps(w, [w EXCEPT !.play.playTimer = timer])
<1>1. w.play \in PlayRecord /\ PlaylistOK(w.play)
  BY PlayOf
<1>2. ASSUME NEW p \in {[w.play EXCEPT !.fsm = state], [w.play EXCEPT !.speed = speed],
                        [w.play EXCEPT !.playTimer = timer]}
      PROVE  p \in PlayRecord /\ PlaylistOK(p) /\ p.count >= w.play.count
             /\ p.cmd = w.play.cmd /\ p.data = w.play.data /\ p.mediaThread = w.play.mediaThread
  <2>1. p \in PlayRecord
    BY <1>1 DEF PlayRecord
  <2>2. /\ p.count = w.play.count /\ p.cmd = w.play.cmd /\ p.data = w.play.data /\ p.mediaThread = w.play.mediaThread
        /\ p.list = w.play.list /\ p.index = w.play.index
        /\ p.round = w.play.round /\ p.repeat = w.play.repeat
    BY <1>1 DEF PlayRecord
  <2>3. p.count >= w.play.count
    BY <1>1, <2>2 DEF PlayRecord
  <2> QED BY <1>1, <2>1, <2>2, <2>3 DEF PlaylistOK
<1>3. /\ Keeps(w, [w EXCEPT !.play = [w.play EXCEPT !.fsm = state]])
      /\ Keeps(w, [w EXCEPT !.play = [w.play EXCEPT !.speed = speed]])
      /\ Keeps(w, [w EXCEPT !.play = [w.play EXCEPT !.playTimer = timer]])
  BY <1>2, PlayKeeps
<1> QED BY <1>3

\* The new timer has a number no timer had.
LEMMA StartPlayingTimerKeeps == ASSUME NEW w, Typed(w) PROVE Keeps(w, StartPlayingTimer(w))
<1> DEFINE n == w.play.countOfTimer + 1
           a == w.armed \cup {Timer("play", n)}
           x == [[w EXCEPT !.armed = a] EXCEPT !.changed = TRUE]
           p == [[w.play EXCEPT !.playTimer = n] EXCEPT !.countOfTimer = n]
<1>1. CASE ~ CurrentItem(w).timed
  BY <1>1, KeepsReflexive DEF StartPlayingTimer
<1>2. CASE CurrentItem(w).timed
  <2>1. w.play \in PlayRecord /\ PlaylistOK(w.play) /\ n \in Nat
    BY PlayOf DEF PlayRecord
  <2>2. x.play = w.play /\ StartPlayingTimer(w) = [x EXCEPT !.play = p]
    BY <1>2 DEF StartPlayingTimer, AddTimer, Typed, WorldType
  <2>3. a \in SUBSET [kind : {"media", "play"}, n : Nat]
    BY <2>1 DEF Typed, WorldType, Timer
  <2> HIDE DEF n, a
  <2>4. Keeps(w, x)
    BY <2>3, ArmedKeeps
  <2>5. p \in PlayRecord /\ p.count = w.play.count
    BY <2>1 DEF PlayRecord
  <2>6. PlaylistOK(p) /\ p.cmd = w.play.cmd /\ p.data = w.play.data /\ p.mediaThread = w.play.mediaThread
    BY <2>1 DEF PlayRecord, PlaylistOK
  <2>7. p.count >= w.play.count
    BY <2>1, <2>5 DEF PlayRecord
  <2> HIDE DEF x, p
  <2>8. Keeps(x, [x EXCEPT !.play = p])
    BY <2>2, <2>4, <2>5, <2>6, <2>7, PlayKeeps DEF Keeps, Reaches
  <2> QED BY <2>2, <2>4, <2>8, KeepsTransitive
<1> QED BY <1>1, <1>2

\* A list starts with its first item, in its first round.
LEMMA InitCurrentPlaylistKeeps ==
    ASSUME NEW w, Typed(w), NEW media \in DOMAIN Media, NEW repeatNumber \in Nat \cup {-1}
    PROVE  Keeps(w, InitCurrentPlaylist(w, media, repeatNumber))
<1> DEFINE r == IF repeatNumber >= 0 THEN repeatNumber ELSE IF media \in Playlists THEN 0 ELSE 1
           p == [[[[[w.play EXCEPT !.list = media] EXCEPT !.index = 1] EXCEPT !.round = 0]
                    EXCEPT !.speed = SpeedDefault] EXCEPT !.repeat = r]
<1>1. w.play \in PlayRecord /\ r \in Nat /\ SpeedDefault \in 0 .. SpeedCount - 1
  BY PlayOf, ConstantsAssumption
<1>2. InitCurrentPlaylist(w, media, repeatNumber) = [w EXCEPT !.play = p]
  BY DEF InitCurrentPlaylist, Typed, WorldType
<1> HIDE DEF r
<1>3. p \in PlayRecord /\ p.count = w.play.count
  BY <1>1 DEF PlayRecord
<1>4. /\ p.cmd = w.play.cmd /\ p.data = w.play.data /\ p.mediaThread = w.play.mediaThread
      /\ p.list = media /\ p.index = 1 /\ p.round = 0 /\ p.repeat = r
  BY <1>1 DEF PlayRecord
<1> HIDE DEF p
<1>5. PlaylistOK(p)
  BY <1>1, <1>4, Item DEF PlaylistOK
<1>6. p.count >= w.play.count
  BY <1>3 DEF PlayRecord
<1> QED BY <1>2, <1>3, <1>4, <1>5, <1>6, PlayKeeps

\* The next item exists, or the list begins again while a round is left.
LEMMA UpdateCurrentPlaylistKeeps ==
    ASSUME NEW w, Typed(w), ListHasMore(w) \/ Unlimited(w) \/ RoundsLeft(w)
    PROVE  Keeps(w, UpdateCurrentPlaylist(w))
<1>1. w.play \in PlayRecord /\ PlaylistOK(w.play)
  BY PlayOf
<1>2. /\ w.play.list \in DOMAIN Media /\ w.play.index \in Nat /\ w.play.round \in Nat
      /\ w.play.repeat \in Nat /\ w.play.count \in Nat
  BY <1>1 DEF PlayRecord
<1>3. CASE ListHasMore(w)
  <2> DEFINE p == [w.play EXCEPT !.index = @ + 1]
  <2>1. UpdateCurrentPlaylist(w) = [w EXCEPT !.play = p]
    BY <1>3 DEF UpdateCurrentPlaylist, Typed, WorldType
  <2>2. /\ p \in PlayRecord /\ p.count = w.play.count /\ p.cmd = w.play.cmd
        /\ p.data = w.play.data /\ p.mediaThread = w.play.mediaThread /\ p.list = w.play.list /\ p.index = w.play.index + 1
        /\ p.round = w.play.round /\ p.repeat = w.play.repeat
    BY <1>1 DEF PlayRecord
  <2> HIDE DEF p
  <2>3. PlaylistOK(p)
    BY <1>1, <1>2, <1>3, <2>2, Item DEF PlaylistOK, ListHasMore
  <2> QED BY <1>2, <2>1, <2>2, <2>3, PlayKeeps
<1>4. CASE ~ ListHasMore(w) /\ Unlimited(w)
  BY <1>2, <1>4, InitCurrentPlaylistKeeps DEF UpdateCurrentPlaylist
<1>5. CASE ~ ListHasMore(w) /\ ~ Unlimited(w) /\ RoundsLeft(w)
  <2> DEFINE r == w.play.round + 1
             p == [[w.play EXCEPT !.index = 1] EXCEPT !.round = r]
  <2>0. r \in Nat /\ r = w.play.round + 1
    BY <1>2
  <2>1. UpdateCurrentPlaylist(w) = [w EXCEPT !.play = p]
    BY <1>1, <1>5 DEF UpdateCurrentPlaylist, Typed, WorldType, PlayRecord
  <2> HIDE DEF r
  <2>2. /\ p \in PlayRecord /\ p.count = w.play.count /\ p.cmd = w.play.cmd
        /\ p.data = w.play.data /\ p.mediaThread = w.play.mediaThread /\ p.list = w.play.list /\ p.index = 1
        /\ p.round = r /\ p.repeat = w.play.repeat
    BY <1>1, <2>0 DEF PlayRecord
  <2> HIDE DEF p
  <2>3. PlaylistOK(p)
    BY <1>1, <1>2, <1>5, <2>0, <2>2, Item DEF PlaylistOK, RoundsLeft
  <2> QED BY <1>2, <2>1, <2>2, <2>3, PlayKeeps
<1> QED BY <1>3, <1>4, <1>5

\* An item is played: an image at once, a stream by waiting for the thread.
LEMMA PlayCurrentKeeps == ASSUME NEW w, Typed(w) PROVE Keeps(w, PlayCurrent(w))
<1> DEFINE p == [w.play EXCEPT !.count = @ + 1]
           next == [w EXCEPT !.play = p]
           playing == [next EXCEPT !.play.mediaState = "INIT", !.pc = "setMedia"]
<1>1. w.play \in PlayRecord /\ PlaylistOK(w.play) /\ w.play.count \in Nat
  BY PlayOf DEF PlayRecord
<1>2. p \in PlayRecord /\ p.count = w.play.count + 1
  BY <1>1 DEF PlayRecord
<1>3. PlaylistOK(p) /\ p.cmd = w.play.cmd /\ p.data = w.play.data /\ p.mediaThread = w.play.mediaThread
  BY <1>1 DEF PlayRecord, PlaylistOK
<1>4. next = [w EXCEPT !.play.count = @ + 1]
  OBVIOUS
<1>5. PlayCurrent(w) \in {w, Send(next, "IMAGE_OK"), Send(next, "FAIL"), playing}
  BY <1>4 DEF PlayCurrent
<1> HIDE DEF p
<1>6. Keeps(w, next)
  BY <1>1, <1>2, <1>3, PlayKeeps
<1> HIDE DEF next
<1>7. Keeps(next, Send(next, "IMAGE_OK")) /\ Keeps(next, Send(next, "FAIL"))
  BY <1>6, SendKeeps DEF FsmEvents, Keeps, Reaches
<1>8. Keeps(next, playing)
  <2> DEFINE q == [next.play EXCEPT !.mediaState = "INIT"]
             x == [next EXCEPT !.play = q]
  <2>1. next.play \in PlayRecord /\ PlaylistOK(next.play) /\ next.play.count \in Nat
    BY <1>6, PlayOf DEF Keeps, Reaches, PlayRecord
  <2>2. q \in PlayRecord /\ q.count = next.play.count /\ q.cmd = next.play.cmd /\ q.data = next.play.data /\ q.mediaThread = next.play.mediaThread
    BY <2>1 DEF PlayRecord
  <2>3. PlaylistOK(q)
    BY <2>1 DEF PlayRecord, PlaylistOK
  <2>4. playing = [x EXCEPT !.pc = "setMedia"]
    BY <1>6 DEF Keeps, Reaches, Typed, WorldType
  <2> HIDE DEF q
  <2>5. Keeps(next, x)
    BY <1>6, <2>1, <2>2, <2>3, PlayKeeps DEF Keeps, Reaches
  <2> HIDE DEF x, playing
  <2>6. Keeps(x, x) /\ Typed(x)
    BY <2>5, KeepsReflexive DEF Keeps, Reaches
  <2>7. Keeps(x, [x EXCEPT !.pc = "setMedia"])
    BY <2>6 DEF Keeps, Reaches, SamePending, Typed, WorldType
  <2> QED BY <1>6, <2>4, <2>5, <2>7, KeepsTransitive DEF Keeps, Reaches
<1> HIDE DEF playing
<1> QED BY <1>5, <1>6, <1>7, <1>8, KeepsReflexive, KeepsTransitive

LEMMA PlayMediaKeeps ==
    ASSUME NEW w, Typed(w), NEW media \in DOMAIN Media, NEW repeatNumber \in Nat \cup {-1}
    PROVE  Keeps(w, PlayMedia(w, media, repeatNumber))
<1> DEFINE x == InitCurrentPlaylist(w, media, repeatNumber)
<1>1. Keeps(w, x)
  BY InitCurrentPlaylistKeeps
<1> HIDE DEF x
<1>2. Keeps(x, PlayCurrent(x))
  BY <1>1, PlayCurrentKeeps DEF Keeps, Reaches
<1> QED BY <1>1, <1>2, KeepsTransitive DEF PlayMedia, x

\* What a command names is a media there is.
LEMMA CommandFields ==
    ASSUME RequestsOK, NEW id \in Sent
    PROVE  /\ requests[id].media \in DOMAIN Media /\ requests[id].repeat \in Nat \cup {-1}
           /\ requests[id].cmd \in {"OPEN", "STOP", "PAUSE", "RESUME", "FORWARD", "BACKWARD"}
           /\ requests[id].cmd \in {"OPEN"} \cup Cmds
<1>1. requests[id] \in Command
  BY DEF RequestsOK, Sent
<1>2. \A c \in Command : /\ c.cmd \in {"OPEN"} \cup Cmds /\ c.media \in DOMAIN Media
                         /\ c.repeat \in Nat \cup {-1}
  BY ConstantsAssumption DEF Command
<1> QED BY <1>1, <1>2, ConstantsAssumption

LEMMA PlayAskedKeeps == ASSUME NEW w, Typed(w), NEW id \in Sent PROVE Keeps(w, PlayAsked(w, id))
BY PlayMediaKeeps, CommandFields DEF PlayAsked, Typed

LEMMA PlayNextKeeps == ASSUME NEW w, Typed(w) PROVE Keeps(w, PlayNext(w))
<1>1. CASE ListHasMore(w) \/ Unlimited(w) \/ RoundsLeft(w)
  <2> DEFINE x == UpdateCurrentPlaylist(w)
  <2>1. Keeps(w, x)
    BY <1>1, UpdateCurrentPlaylistKeeps
  <2> HIDE DEF x
  <2>2. Keeps(x, PlayCurrent(x))
    BY <2>1, PlayCurrentKeeps DEF Keeps, Reaches
  <2>3. PlayNext(w) = PlayCurrent(x)
    BY <1>1 DEF PlayNext, x
  <2> QED BY <2>1, <2>2, <2>3, KeepsTransitive
<1> QED BY <1>1, StopPlayingKeeps DEF PlayNext

----------------------------------------------------------------------------
(* Answers and the current command.                                          *)

\* A helper before or after an answer does not change what the whole does.
LEMMA Compose ==
    ASSUME NEW w, NEW x, NEW y, NEW id, Typed(w)
    PROVE  /\ Keeps(w, x) /\ Keeps(x, y) => Keeps(w, y)
           /\ Keeps(w, x) /\ Replies(x, y, id) => Replies(w, y, id)
           /\ Keeps(w, x) /\ Finishes(x, y) => Finishes(w, y)
           /\ Finishes(w, x) /\ Keeps(x, y) => Finishes(w, y)
<1>1. Reaches(w, x) /\ Reaches(x, y) => Reaches(w, y)
  BY ReachesTransitive
<1> QED BY <1>1 DEF Keeps, Replies, Finishes, SamePending, Answered

\* The answer goes to one command.
LEMMA ReplyReplies ==
    ASSUME NEW w, Typed(w), NEW id \in Sent \cup {NoJson}, NEW answer \in {"OK", "NOK"}
    PROVE  Replies(w, Reply(w, id, answer), id)
<1> DEFINE a == [w.answers EXCEPT ![id] = Append(@, answer)]
<1>1. id \in Json \cup {NoJson}
  BY ConstantsAssumption DEF Typed, RequestsOK, Sent, Json
<1>2. w.answers \in [Json \cup {NoJson} -> Seq({"OK", "NOK"})]
  BY DEF Typed, WorldType
<1>3. a \in [Json \cup {NoJson} -> Seq({"OK", "NOK"})]
  <2>1. Append(w.answers[id], answer) \in Seq({"OK", "NOK"})
    BY <1>1, <1>2
  <2> QED BY <1>2, <2>1
<1>4. Reply(w, id, answer) = [w EXCEPT !.answers = a]
  BY DEF Reply, Typed, WorldType
<1>5. \E b \in {"OK", "NOK"} : a = [w.answers EXCEPT ![id] = Append(@, b)]
  OBVIOUS
<1> HIDE DEF a
<1>6. Reaches(w, [w EXCEPT !.answers = a])
  BY <1>3, KeepsReflexive DEF Keeps, Reaches, Typed, WorldType
<1>7. SamePending(w, [w EXCEPT !.answers = a]) /\ [w EXCEPT !.answers = a].answers = a
  BY DEF SamePending, Typed, WorldType
<1> QED BY <1>4, <1>5, <1>6, <1>7 DEF Replies, Answered

\* The current command is set and nothing else.
LEMMA SetCurrentCmdReaches ==
    ASSUME NEW w, Typed(w), NEW cmd \in {"UNKNOWN", "OPEN", "STOP", "PAUSE", "RESUME"},
           NEW id \in Sent \cup {NoJson}
    PROVE  LET x == SetCurrentCmd(w, cmd, id)
           IN  Reaches(w, x) /\ x.play.cmd = cmd /\ x.play.data = id /\ x.answers = w.answers
<1> DEFINE p == [[w.play EXCEPT !.cmd = cmd] EXCEPT !.data = id]
           x == [w EXCEPT !.play = p]
<1>1. w.play \in PlayRecord /\ PlaylistOK(w.play)
  BY PlayOf
<1>2. p \in PlayRecord /\ p.cmd = cmd /\ p.data = id /\ p.count = w.play.count
      /\ p.mediaThread = w.play.mediaThread
  BY <1>1 DEF PlayRecord
<1>3. PlaylistOK(p)
  BY <1>1 DEF PlayRecord, PlaylistOK
<1>4. SetCurrentCmd(w, cmd, id) = x
  BY DEF SetCurrentCmd, Typed, WorldType
<1> HIDE DEF p
<1>5. x \in WorldType /\ x.play = p /\ x.queue = w.queue /\ x.answers = w.answers
  BY <1>2 DEF Typed, WorldType
<1> HIDE DEF x
<1>6. Typed(x)
  BY <1>2, <1>3, <1>5 DEF Typed
<1>7. Extends(w.queue, x.queue)
  BY <1>5, KeepsReflexive DEF Keeps, Reaches
<1> QED BY <1>2, <1>4, <1>5, <1>6, <1>7, CountOf DEF Reaches

\* The current command is one that was sent.
LEMMA DataSent ==
    ASSUME NEW w, Typed(w)
    PROVE  /\ w.play.data \in Sent \cup {NoJson}
           /\ w.play.cmd \in {"UNKNOWN", "OPEN", "STOP", "PAUSE", "RESUME"}
BY PlayOf DEF PlayRecord

LEMMA ClearReaches ==
    ASSUME NEW w, Typed(w)
    PROVE  LET x == ClearCurrentCmd(w)
           IN  /\ Reaches(w, x) /\ x.play.cmd = "UNKNOWN" /\ x.play.data = NoJson
               /\ x.answers = w.answers
BY SetCurrentCmdReaches DEF ClearCurrentCmd

\* Without a current command there is no JSON event behind one.
Tidy(w) == w.play.cmd = "UNKNOWN" => w.play.data = NoJson

\* The current command is answered and forgotten.
LEMMA AnswerFinishes ==
    ASSUME NEW w, Typed(w), w.play.cmd # "UNKNOWN", NEW answer \in {"OK", "NOK"}
    PROVE  Finishes(w, ClearCurrentCmd(Reply(w, w.play.data, answer)))
<1> DEFINE r == Reply(w, w.play.data, answer)
           x == ClearCurrentCmd(r)
<1>1. Replies(w, r, w.play.data)
  BY DataSent, ReplyReplies
<1> HIDE DEF r
<1>2. Reaches(r, x) /\ x.play.cmd = "UNKNOWN" /\ x.play.data = NoJson /\ x.answers = r.answers
  BY <1>1, ClearReaches DEF Replies, Reaches
<1> HIDE DEF x
<1>3. Reaches(w, x) /\ Answered(w, x, w.play.data)
  BY <1>1, <1>2, ReachesTransitive DEF Replies, Answered
<1>4. Finishes(w, x)
  BY <1>2, <1>3 DEF Finishes
<1> QED BY <1>4 DEF x, r

LEMMA ClearFinishes ==
    ASSUME NEW w, Typed(w), w.play.data = NoJson PROVE Finishes(w, ClearCurrentCmd(w))
BY ClearReaches DEF Finishes

\* if(jsonEvent) reply; then clear: it finishes, whether there is an event or not.
LEMMA ReplyPendingFinishes ==
    ASSUME NEW w, Typed(w), Tidy(w), NEW answer \in {"OK", "NOK"}
    PROVE  Finishes(w, ReplyPending(w, answer))
<1>1. CASE w.play.data = NoJson
  BY <1>1, ClearFinishes DEF ReplyPending
<1>2. CASE w.play.data # NoJson
  BY <1>2, AnswerFinishes DEF ReplyPending, Tidy
<1> QED BY <1>1, <1>2

----------------------------------------------------------------------------
(* The state machine.                                                        *)

\* A state is entered with an answer or without; STOP, INIT and IMAGE never answer.
LEMMA EnterKeepsOrFinishes ==
    ASSUME NEW w, Typed(w), Tidy(w), NEW state \in FsmStates
    PROVE  /\ Keeps(w, Enter(w, state)) \/ Finishes(w, Enter(w, state))
           /\ ~ Answering(state) => Keeps(w, Enter(w, state))
<1> DEFINE x == EnterHandler(w, state)
<1>1. /\ ~ Answering(state) => Keeps(w, x)
      /\ Keeps(w, x) \/ Finishes(w, x)
  <2>1. CASE state = "STOP"
    BY <2>1, RemovePlayingTimerKeeps DEF EnterHandler, Answering
  <2>2. CASE state # "STOP" /\ ~ Answering(state)
    BY <2>2, KeepsReflexive DEF EnterHandler
  <2>3. CASE state # "STOP" /\ Answering(state) /\ w.play.cmd = "UNKNOWN"
    BY <2>3, ClearFinishes DEF EnterHandler, Tidy
  <2>4. CASE state # "STOP" /\ Answering(state) /\ w.play.cmd # "UNKNOWN"
    <3> DEFINE answer == IF w.play.cmd \in Welcome(state) THEN "OK" ELSE "NOK"
    <3>1. answer \in {"OK", "NOK"} /\ x = ClearCurrentCmd(Reply(w, w.play.data, answer))
      BY <2>4 DEF EnterHandler
    <3> HIDE DEF answer, x
    <3> QED BY <2>4, <3>1, AnswerFinishes
  <2> QED BY <2>1, <2>2, <2>3, <2>4
<1> HIDE DEF x
<1>2. Keeps(x, [x EXCEPT !.play.fsm = state])
  <2>1. Typed(x)
    BY <1>1 DEF Keeps, Finishes, Reaches
  <2>2. x.play.speed \in 0 .. SpeedCount - 1 /\ 0 \in Nat
    BY <2>1, PlayOf DEF PlayRecord
  <2> QED BY <2>1, <2>2, FieldKeeps
<1> DEFINE y == [x EXCEPT !.play.fsm = state]
<1>3. Enter(w, state) \in {w, y} /\ (Enter(w, state) = w \/ Enter(w, state) = y)
  BY DEF Enter, x
<1> HIDE DEF y
<1>4. /\ Keeps(w, x) => Keeps(w, y)
      /\ Finishes(w, x) => Finishes(w, y)
  BY <1>2, Compose DEF y
<1> QED BY <1>1, <1>3, <1>4, KeepsReflexive

\* The media the clients can ask for are on the device or on the net, and no
\* image is taken from the net.
NoRemoteImages ==
    \A m \in DOMAIN Media : \A i \in DOMAIN Media[m] : Media[m][i].kind # "remoteImage"

\* What the handler of a state machine event does to the current command: it
\* keeps it, or answers and forgets it, or, when an image from the net cannot be
\* played, answers it and keeps it.
Outcome(w, x) ==
    \/ Keeps(w, x) \/ Finishes(w, x)
    \/ w.play.data # NoJson /\ Replies(w, x, w.play.data) /\ ~ NoRemoteImages

\* Outcome composes with what comes before.
LEMMA KeepsOutcome ==
    ASSUME NEW w, NEW x, NEW y, Typed(w), Keeps(w, x), Outcome(x, y) PROVE Outcome(w, y)
<1>1. x.play.data = w.play.data
  BY DEF Keeps, SamePending
<1> QED BY <1>1, Compose DEF Outcome

\* After a stop: the next item, the media of the pending command, or its answer.
LEMMA PlayRestartOutcome ==
    ASSUME NEW w, Typed(w), Tidy(w) PROVE Outcome(w, PlayRestart(w))
<1>1. CASE w.play.data = NoJson
  BY <1>1, PlayNextKeeps DEF PlayRestart, Outcome
<1>2. CASE w.play.data # NoJson /\ w.play.cmd = "OPEN"
  <2> DEFINE x == PlayAsked(w, w.play.data)
  <2>1. Keeps(w, x) /\ w.play.data \in Sent
    BY <1>2, PlayAskedKeeps, DataSent
  <2>2. PlayRestart(w) = IF Playable(x) THEN x ELSE Reply(x, w.play.data, "NOK")
    BY <1>2 DEF PlayRestart
  <2> HIDE DEF x
  <2>3. Replies(w, Reply(x, w.play.data, "NOK"), w.play.data)
    BY <2>1, ReplyReplies, Compose DEF Keeps, Reaches
  <2>4. ~ Playable(x) => ~ NoRemoteImages
    <3>1. x.play.list \in DOMAIN Media /\ x.play.index \in DOMAIN Media[x.play.list]
      BY <2>1, PlayOf DEF Keeps, Reaches, PlayRecord, PlaylistOK
    <3> QED BY <3>1 DEF Playable, CurrentItem, NoRemoteImages
  <2> QED BY <1>2, <2>1, <2>2, <2>3, <2>4 DEF Outcome
<1>3. CASE w.play.data # NoJson /\ w.play.cmd = "STOP"
  BY <1>3, ReplyPendingFinishes DEF PlayRestart, Outcome
<1>4. CASE w.play.data # NoJson /\ w.play.cmd \notin {"OPEN", "STOP"}
  BY <1>4, KeepsReflexive DEF PlayRestart, Outcome
<1> QED BY <1>1, <1>2, <1>3, <1>4

LEMMA CallAndEnterOutcome ==
    ASSUME NEW w, Typed(w), Tidy(w), NEW state \in FsmStates, NEW req \in HiRequest,
           NEW x \in {w, HiCall(w, req)}
    PROVE  Outcome(w, Enter(x, state))
<1>1. Keeps(w, x)
  BY HiCallKeeps, KeepsReflexive
<1>2. Typed(x) /\ Tidy(x)
  BY <1>1 DEF Keeps, Reaches, SamePending, Tidy
<1>3. Keeps(x, Enter(x, state)) \/ Finishes(x, Enter(x, state))
  BY <1>2, EnterKeepsOrFinishes
<1> QED BY <1>1, <1>3, KeepsOutcome DEF Outcome

\* The end of an image enters STOP, which answers nobody.
LEMMA LeaveImageKeeps == ASSUME NEW w, Typed(w), Tidy(w) PROVE Keeps(w, LeaveImage(w))
<1> DEFINE x == Send(w, "SEEK_FINISHED")
<1>1. Keeps(w, x)
  BY SendKeeps DEF FsmEvents
<1> HIDE DEF x
<1>2. Keeps(x, Enter(x, "STOP"))
  <2>1. Typed(x) /\ Tidy(x) /\ "STOP" \in FsmStates /\ ~ Answering("STOP")
    BY <1>1 DEF Keeps, Reaches, SamePending, Tidy, FsmStates, Answering
  <2> QED BY <2>1, EnterKeepsOrFinishes
<1> QED BY <1>1, <1>2, Compose DEF LeaveImage, x

LEMMA ForgetTimerKeeps ==
    ASSUME NEW w, Typed(w) PROVE Keeps(w, [w EXCEPT !.play.playTimer = None])
<1>1. w.play.speed \in 0 .. SpeedCount - 1 /\ w.play.fsm \in FsmStates /\ None \in Nat
  BY PlayOf DEF PlayRecord, None
<1> QED BY <1>1, FieldKeeps

LEMMA OnTimeoutKeeps == ASSUME NEW w, Typed(w), Tidy(w) PROVE Keeps(w, OnTimeout(w))
<1> DEFINE x == [w EXCEPT !.play.playTimer = None]
<1>1. Keeps(w, x)
  BY ForgetTimerKeeps
<1>2. OnTimeout(w) \in {LeaveImage(x), StopPlaying(x), w, PlayNext(w)}
  BY DEF OnTimeout
<1> HIDE DEF x
<1>3. Typed(x) /\ Tidy(x)
  BY <1>1 DEF Keeps, Reaches, SamePending, Tidy
<1>4. Keeps(w, LeaveImage(x)) /\ Keeps(w, StopPlaying(x))
  BY <1>1, <1>3, LeaveImageKeeps, StopPlayingKeeps, Compose
<1> QED BY <1>2, <1>4, PlayNextKeeps, KeepsReflexive

\* Every event of the state machine, in every state that handles it.
LEMMA HandleFsmEventOutcome ==
    ASSUME NEW w, Typed(w), Tidy(w), NEW e, e.ev \in FsmEvents, e.val \in HiStates
    PROVE  Outcome(w, HandleFsmEvent(w, e))
<1>1. e.val \in FsmStates /\ "Seek" \in HiRequest /\ "Play" \in HiRequest
  BY DEF HiStates, FsmStates, HiRequest
<1>2. Outcome(w, OnStateChanged(w, e.val)) /\ Outcome(w, OnSof(w, e.val))
  BY <1>1, CallAndEnterOutcome DEF OnStateChanged, OnSof
<1>3. Outcome(w, OnSeekFinished(w))
  BY PlayRestartOutcome, KeepsReflexive DEF OnSeekFinished, Outcome
<1>4. Outcome(w, OnEnd(w)) /\ Outcome(w, OnTimeout(w))
  BY OnTimeoutKeeps, LeaveImageKeeps, StopPlayingKeeps DEF OnEnd, Outcome
<1>5. Outcome(w, OnFail(w))
  BY ReplyPendingFinishes DEF OnFail, Outcome
<1>6. e.ev \in {"OK", "IMAGE_OK"} => Outcome(w, OnOk(w, e.ev))
  BY KeepsReflexive DEF OnOk, Outcome, Keeps, Reaches, SamePending, Typed, WorldType
<1> QED BY <1>2, <1>3, <1>4, <1>5, <1>6 DEF HandleFsmEvent, FsmEvents

----------------------------------------------------------------------------
(* The commands.                                                             *)

\* A change of speed that is asked for at that end of the speed table.
PastTable(w, id) ==
    /\ ~ Busy(w) /\ w.play.fsm # "IMAGE"
    /\ \/ requests[id].cmd = "FORWARD"  /\ w.play.speed + 1 \notin 0 .. SpeedCount - 1
       \/ requests[id].cmd = "BACKWARD" /\ w.play.speed - 1 \notin 0 .. SpeedCount - 1

\* The outcome of a command: an answer at once, or it becomes the current
\* command, or, at an end of the speed table, neither.
Taken(w, x, id) ==
    Replies(w, x, id) \/ Accepts(w, x, id) \/ (Keeps(w, x) /\ PastTable(w, id))

\* The two ways a command handler ends.
LEMMA ReplyAfter ==
    ASSUME NEW w, NEW x, Typed(w), Keeps(w, x), NEW id \in Sent, NEW answer \in {"OK", "NOK"}
    PROVE  Replies(w, Reply(x, id, answer), id)
BY ReplyReplies, Compose DEF Keeps, Reaches

LEMMA AcceptAfter ==
    ASSUME NEW w, NEW x, Typed(w), Keeps(w, x), w.play.cmd = "UNKNOWN", NEW id \in Sent,
           NEW cmd \in {"OPEN", "STOP", "PAUSE", "RESUME"}
    PROVE  Accepts(w, SetCurrentCmd(x, cmd, id), id)
<1> DEFINE y == SetCurrentCmd(x, cmd, id)
<1>1. Reaches(x, y) /\ y.play.cmd = cmd /\ y.play.data = id /\ y.answers = x.answers
  <2>1. /\ Typed(x) /\ cmd \in {"UNKNOWN", "OPEN", "STOP", "PAUSE", "RESUME"}
        /\ id \in Sent \cup {NoJson}
    BY DEF Keeps, Reaches
  <2> QED BY <2>1, SetCurrentCmdReaches
<1> HIDE DEF y
<1>2. Reaches(w, y)
  BY <1>1, ReachesTransitive DEF Keeps
<1>3. Accepts(w, y, id)
  BY <1>1, <1>2 DEF Accepts, Keeps
<1> QED BY <1>3 DEF y

\* The commands one by one: each is answered or accepted.
LEMMA PlayCommandTaken ==
    ASSUME NEW w, Typed(w), w.play.cmd = "UNKNOWN", NEW id \in Sent
    PROVE  Replies(w, PlayCommand(w, id), id) \/ Accepts(w, PlayCommand(w, id), id)
<1> DEFINE quiet == RemovePlayingTimer(w)
           x == CASE Stream(w)            -> StopPlaying(quiet)
                  [] w.play.fsm = "IMAGE" -> Send(quiet, "END")
                  [] OTHER                -> PlayAsked(quiet, id)
<1>1. Keeps(w, quiet)
  BY RemovePlayingTimerKeeps
<1>2. PlayCommand(w, id) = IF w.play.fsm = "PAUSE" THEN Reply(w, id, "NOK")
                           ELSE SetCurrentCmd(x, "OPEN", id)
  BY DEF PlayCommand
<1> HIDE DEF quiet
<1>3. Keeps(quiet, StopPlaying(quiet)) /\ Keeps(quiet, Send(quiet, "END")) /\ Keeps(quiet, PlayAsked(quiet, id))
  BY <1>1, StopPlayingKeeps, SendKeeps, PlayAskedKeeps DEF Keeps, Reaches, FsmEvents
<1>4. x \in {StopPlaying(quiet), Send(quiet, "END"), PlayAsked(quiet, id)}
  OBVIOUS
<1> HIDE DEF x
<1>5. Keeps(w, x)
  BY <1>1, <1>3, <1>4, KeepsTransitive
<1> QED BY <1>2, <1>5, ReplyReplies, AcceptAfter

LEMMA StopCommandTaken ==
    ASSUME NEW w, Typed(w), w.play.cmd = "UNKNOWN", NEW id \in Sent
    PROVE  Replies(w, StopCommand(w, id), id) \/ Accepts(w, StopCommand(w, id), id)
<1> DEFINE quiet == RemovePlayingTimer(w)
           sent == Send(quiet, "TIMEOUT")
           stopped == StopPlaying(quiet)
<1>1. Keeps(w, quiet)
  BY RemovePlayingTimerKeeps
<1>2. StopCommand(w, id) \in {Reply(w, id, "NOK"), SetCurrentCmd(sent, "STOP", id),
                              SetCurrentCmd(stopped, "STOP", id), Reply(quiet, id, "OK")}
  BY DEF StopCommand
<1> HIDE DEF quiet
<1>3. Keeps(quiet, sent) /\ Keeps(quiet, stopped)
  BY <1>1, StopPlayingKeeps, SendKeeps DEF Keeps, Reaches, FsmEvents
<1> HIDE DEF sent, stopped
<1>4. Keeps(w, sent) /\ Keeps(w, stopped)
  BY <1>1, <1>3, KeepsTransitive
<1>5. /\ Accepts(w, SetCurrentCmd(sent, "STOP", id), id)
      /\ Accepts(w, SetCurrentCmd(stopped, "STOP", id), id)
      /\ Replies(w, Reply(quiet, id, "OK"), id) /\ Replies(w, Reply(w, id, "NOK"), id)
  BY <1>1, <1>4, AcceptAfter, ReplyAfter, ReplyReplies
<1> QED BY <1>2, <1>5

LEMMA PauseCommandTaken ==
    ASSUME NEW w, Typed(w), w.play.cmd = "UNKNOWN", NEW id \in Sent
    PROVE  Replies(w, PauseCommand(w, id), id) \/ Accepts(w, PauseCommand(w, id), id)
<1> DEFINE x == HiCall(w, "Pause")
<1>1. Keeps(w, x)
  BY HiCallKeeps DEF HiRequest
<1>2. PauseCommand(w, id) \in {Reply(w, id, "NOK"), Reply(w, id, "OK"), SetCurrentCmd(x, "PAUSE", id)}
  BY DEF PauseCommand
<1> HIDE DEF x
<1> QED BY <1>1, <1>2, AcceptAfter, ReplyReplies

LEMMA SpeedKeeps ==
    ASSUME NEW w, Typed(w), NEW speed \in 0 .. SpeedCount - 1
    PROVE  Keeps(w, [w EXCEPT !.play.speed = speed])
<1>1. w.play.fsm \in FsmStates /\ None \in Nat
  BY PlayOf DEF PlayRecord, None
<1> QED BY <1>1, FieldKeeps

LEMMA ResumeCommandTaken ==
    ASSUME NEW w, Typed(w), w.play.cmd = "UNKNOWN", NEW id \in Sent
    PROVE  Replies(w, ResumeCommand(w, id), id) \/ Accepts(w, ResumeCommand(w, id), id)
<1> DEFINE x == [w EXCEPT !.play.speed = SpeedDefault]
           y == HiCall(x, "Resume")
<1>1. Keeps(w, x)
  BY SpeedKeeps, ConstantsAssumption
<1>2. ResumeCommand(w, id) \in {Reply(w, id, "OK"), SetCurrentCmd(y, "RESUME", id)}
  BY DEF ResumeCommand
<1> HIDE DEF x
<1>3. Keeps(w, y)
  BY <1>1, HiCallKeeps, KeepsTransitive DEF Keeps, Reaches, HiRequest
<1> HIDE DEF y
<1> QED BY <1>2, <1>3, AcceptAfter, ReplyReplies

LEMMA PlayspeedSetTaken ==
    ASSUME NEW w, Typed(w), w.play.cmd = "UNKNOWN", NEW id \in Sent,
           NEW index \in 0 .. SpeedCount - 1
    PROVE  Replies(w, PlayspeedSet(w, id, index), id) \/ Accepts(w, PlayspeedSet(w, id, index), id)
<1> DEFINE x == [w EXCEPT !.play.speed = index]
           req == IF index > SpeedDefault THEN "Forward" ELSE "Backward"
           y == HiCall(x, req)
<1>1. Keeps(w, x) /\ req \in HiRequest
  BY SpeedKeeps DEF HiRequest
<1>2. PlayspeedSet(w, id, index) \in {ResumeCommand(x, id), Reply(w, id, "NOK"), Reply(y, id, "OK")}
  BY DEF PlayspeedSet
<1> HIDE DEF x, req
<1>3. Keeps(w, y)
  BY <1>1, HiCallKeeps, KeepsTransitive DEF Keeps, Reaches
<1> HIDE DEF y
<1>4. Replies(w, ResumeCommand(x, id), id) \/ Accepts(w, ResumeCommand(x, id), id)
  <2> DEFINE z == ResumeCommand(x, id)
  <2>1. Replies(x, z, id) \/ Accepts(x, z, id)
    BY <1>1, ResumeCommandTaken DEF Keeps, Reaches, SamePending
  <2> HIDE DEF z
  <2>2. Accepts(x, z, id) => Accepts(w, z, id)
    BY <1>1, ReachesTransitive DEF Accepts, Keeps, SamePending
  <2>3. Replies(x, z, id) => Replies(w, z, id)
    BY <1>1, Compose
  <2> QED BY <2>1, <2>2, <2>3 DEF z
<1> QED BY <1>2, <1>3, <1>4, ReplyReplies, ReplyAfter

\* Except a change of speed past the end of the table, which is neither.
LEMMA SpeedCommandTaken ==
    ASSUME NEW w, Typed(w), w.play.cmd = "UNKNOWN", NEW id \in Sent, NEW delta
    PROVE  \/ Replies(w, SpeedCommand(w, id, delta), id) \/ Accepts(w, SpeedCommand(w, id, delta), id)
           \/ /\ Keeps(w, SpeedCommand(w, id, delta))
              /\ w.play.fsm # "IMAGE" /\ w.play.speed + delta \notin 0 .. SpeedCount - 1
BY ReplyReplies, KeepsReflexive, PlayspeedSetTaken DEF SpeedCommand

\* Every command, in every state.
LEMMA HandleJsonTaken ==
    ASSUME NEW w, Typed(w), NEW id \in Sent PROVE Taken(w, HandleJson(w, id), id)
<1>1. CASE Busy(w)
  BY <1>1, ReplyReplies DEF HandleJson, Taken
<1>2. CASE ~ Busy(w)
  <2>1. w.play.cmd = "UNKNOWN"
    BY <1>2 DEF Busy
  <2>2. requests[id].cmd \in {"OPEN", "STOP", "PAUSE", "RESUME", "FORWARD", "BACKWARD"}
    BY CommandFields DEF Typed
  <2> DEFINE cmd == requests[id].cmd
             x == HandleJson(w, id)
  <2>3. CASE cmd \in {"OPEN", "STOP", "PAUSE", "RESUME"}
    BY <1>2, <2>1, <2>3, PlayCommandTaken, StopCommandTaken, PauseCommandTaken,
       ResumeCommandTaken DEF HandleJson, Taken
  <2>4. CASE cmd = "FORWARD"
    <3>1. x = SpeedCommand(w, id, 1)
      BY <1>2, <2>4 DEF HandleJson
    <3> QED BY <1>2, <2>1, <2>4, <3>1, SpeedCommandTaken DEF Taken, PastTable
  <2>5. CASE cmd = "BACKWARD"
    <3>1. x = SpeedCommand(w, id, -1)
      BY <1>2, <2>5 DEF HandleJson
    <3>2. w.play.speed + -1 = w.play.speed - 1
      BY PlayOf DEF PlayRecord
    <3> QED BY <1>2, <2>1, <2>5, <3>1, <3>2, SpeedCommandTaken DEF Taken, PastTable
  <2> QED BY <2>2, <2>3, <2>4, <2>5
<1> QED BY <1>1, <1>2

----------------------------------------------------------------------------
(* The types of the whole state, and the steps of the window seen from its   *)
(* commands.                                                                 *)

\* The variables no handler changes.
OthersTyped ==
    /\ pc \in {"idle", "setMedia", "OK", "IMAGE_OK"}
    /\ threads \in [Plays -> [pc : {"none", "start", "waiting", "setting", "done"}, kind : Kinds]]
    /\ timerPc \in [at : {"idle", "called", "returned"}, kind : {"none", "media", "play"}, n : Nat]
    /\ hi \in HiStates

\* The types of everything, and what they rest on.
TypeInv ==
    /\ Typed(World) /\ Tidy(World)
    /\ play.mediaThread \in 0 .. play.count
    /\ OthersTyped

\* What TypeInv says about the variables.
LEMMA WorldFieldsOf ==
    ASSUME TypeInv
    PROVE  /\ World.play = play /\ World.queue = queue /\ World.answers = answers
           /\ World.armed = armed /\ World.changed = changed /\ World.hiReq = hiReq
           /\ World.pc = "idle"
           /\ play \in PlayRecord /\ PlaylistOK(play) /\ queue \in Seq(Event)
           /\ QueueOK(queue, play.count) /\ hiReq \in Seq(HiRequest)
           /\ play.count \in Nat /\ Typed(World) /\ Tidy(World)
<1>1. play \in PlayRecord /\ queue \in Seq(Event) /\ hiReq \in Seq(HiRequest)
  BY DEF TypeInv, World, Typed, WorldType
<1>2. play.count \in Nat
  BY <1>1 DEF PlayRecord
<1> QED BY <1>1, <1>2 DEF TypeInv, World, Typed

\* The state after a step that ends in w.
LEMMA BecomesWorld ==
    ASSUME NEW w, Typed(w), Becomes(w), UNCHANGED requests
    PROVE  /\ World'.play = w.play /\ World'.queue = w.queue /\ World'.answers = w.answers
           /\ Typed(World') /\ Typed(World)'
<1>1. /\ World'.play = w.play /\ World'.queue = w.queue /\ World'.answers = w.answers
      /\ World' \in WorldType
  BY DEF World, Becomes, Typed, WorldType
<1>2. Typed(World')
  BY <1>1 DEF Typed
<1>3. Event' = Event /\ Sent' = Sent /\ RequestsOK' = RequestsOK
  BY DEF Event, Sent, RequestsOK
<1>4. WorldType' = WorldType
  BY <1>3 DEF WorldType, PlayRecord
<1>5. Typed(World)'
  BY <1>2, <1>3, <1>4 DEF Typed
<1> QED BY <1>1, <1>2, <1>5

\* A step that ends in w does what the handler that made w does.
LEMMA SameBooks ==
    ASSUME NEW v, NEW w, NEW id, Typed(w), Becomes(w), UNCHANGED requests
    PROVE  /\ Reaches(v, w) => Reaches(v, World')
           /\ Keeps(v, w) => Keeps(v, World')
           /\ Replies(v, w, id) => Replies(v, World', id)
           /\ Finishes(v, w) => Finishes(v, World')
           /\ Accepts(v, w, id) => Accepts(v, World', id)
<1>1. Reaches(v, w) => Reaches(v, World')
  BY BecomesWorld DEF Reaches
<1> QED BY <1>1, BecomesWorld DEF Keeps, Replies, Finishes, Accepts, SamePending, Answered

\* Types are kept by any handler.
LEMMA StepTyped ==
    ASSUME TypeInv, NEW v, NEW w, v.play = play, Reaches(v, w), Tidy(w), Becomes(w),
           UNCHANGED requests, OthersTyped'
    PROVE  TypeInv'
<1>1. play' = w.play /\ Typed(World)' /\ Tidy(World)'
  BY BecomesWorld DEF Reaches, Becomes, Tidy
<1>2. play'.count \in Nat /\ play.count \in Nat /\ play'.count >= play.count
  BY <1>1, CountOf, WorldFieldsOf DEF Reaches
<1>3. play'.mediaThread \in 0 .. play'.count
  BY <1>1, <1>2 DEF Reaches, TypeInv, None
<1> QED BY <1>1, <1>3 DEF TypeInv

\* They are kept by the taking of an event.
LEMMA TakenTyped ==
    ASSUME TypeInv, queue # <<>>
    PROVE  /\ Typed(AfterTaking) /\ AfterTaking.play = play /\ AfterTaking.answers = answers
           /\ AfterTaking.queue = Tail(queue) /\ AfterTaking.pc = "idle"
           /\ Head(queue) \in Event
<1>1. queue \in Seq(Event) /\ QueueOK(queue, play.count)
  BY WorldFieldsOf
<1>2. Tail(queue) \in Seq(Event) /\ Head(queue) \in Event
  BY <1>1
<1>3. QueueOK(Tail(queue), play.count)
  <2>1. Len(Tail(queue)) = Len(queue) - 1 /\ \A i \in 1 .. Len(queue) - 1 : Tail(queue)[i] = queue[i + 1]
    BY <1>1
  <2> QED BY <1>1, <2>1, ConstantsAssumption DEF QueueOK
<1>4. /\ AfterTaking.play = play /\ AfterTaking.answers = answers /\ AfterTaking.pc = "idle"
      /\ AfterTaking.queue = Tail(queue) /\ AfterTaking \in WorldType
  BY <1>2, WorldFieldsOf DEF AfterTaking, Typed, WorldType, World
<1> QED BY <1>2, <1>3, <1>4, WorldFieldsOf DEF Typed

\* So is Tidy.
LEMMA StaysTidy ==
    ASSUME NEW w, NEW x, NEW id, Tidy(w),
           Keeps(w, x) \/ Finishes(w, x) \/ Replies(w, x, id) \/ Accepts(w, x, id)
    PROVE  Tidy(x) /\ Reaches(w, x)
BY DEF Tidy, Keeps, Finishes, Replies, Accepts, SamePending

\* The player thread takes an event of the state machine.
LEMMA HandleEventStep ==
    ASSUME TypeInv, HandleEvent
    PROVE  TypeInv' /\ queue # <<>> /\ Outcome(AfterTaking, World')
<1> DEFINE e == Head(queue)
           v == AfterTaking
           w == IF e.tag = play.count /\ e.ev \in Handled(play.fsm) THEN HandleFsmEvent(v, e) ELSE v
<1>1. /\ queue # <<>> /\ e.ev \in FsmEvents /\ Becomes(w) /\ pc' = w.pc
      /\ UNCHANGED <<requests, threads, timerPc, hi>>
  BY DEF HandleEvent, Continue
<1>2. Typed(v) /\ Tidy(v) /\ v.play = play /\ e \in Event
  BY <1>1, TakenTyped, WorldFieldsOf DEF Tidy
<1>3. e.val \in HiStates
  BY <1>1, <1>2 DEF Event, FsmEvents
<1> HIDE DEF v, e
<1>4. Outcome(v, w)
  BY <1>1, <1>2, <1>3, HandleFsmEventOutcome, KeepsReflexive DEF Outcome
<1> HIDE DEF w
<1>5. Reaches(v, w) /\ Tidy(w)
  BY <1>2, <1>4, StaysTidy DEF Outcome
<1>6. OthersTyped'
  BY <1>1, <1>5 DEF OthersTyped, TypeInv, Reaches, Typed, WorldType
<1>7. TypeInv'
  BY <1>1, <1>2, <1>5, <1>6, StepTyped
<1>8. Outcome(v, World')
  BY <1>1, <1>4, <1>5, SameBooks DEF Outcome, Reaches
<1> QED BY <1>1, <1>7, <1>8 DEF v

\* The player thread takes a command.
LEMMA HandleCommandStep ==
    ASSUME TypeInv, HandleCommand
    PROVE  /\ TypeInv' /\ queue # <<>> /\ Head(queue).ev = "JSON" /\ Head(queue).id \in Sent
           /\ Taken(AfterTaking, World', Head(queue).id)
<1> DEFINE v == AfterTaking
           id == Head(queue).id
           w == HandleJson(v, id)
<1>1. /\ queue # <<>> /\ Head(queue).ev = "JSON" /\ Becomes(w) /\ pc' = w.pc
      /\ UNCHANGED <<requests, threads, timerPc, hi>>
  BY DEF HandleCommand, Continue
<1>2. Typed(v) /\ Tidy(v) /\ v.play = play /\ Head(queue) \in Event
  BY <1>1, TakenTyped, WorldFieldsOf DEF Tidy
<1>3. id \in Sent
  BY <1>1, <1>2, WorldFieldsOf DEF Event, FsmEvents, Sent, Typed, RequestsOK
<1> HIDE DEF v, id
<1>4. Taken(v, w, id)
  BY <1>2, <1>3, HandleJsonTaken
<1> HIDE DEF w
<1>5. Reaches(v, w) /\ Tidy(w)
  BY <1>2, <1>4, StaysTidy DEF Taken
<1>6. OthersTyped'
  BY <1>1, <1>5 DEF OthersTyped, TypeInv, Reaches, Typed, WorldType
<1>7. TypeInv'
  BY <1>1, <1>2, <1>5, <1>6, StepTyped
<1>8. Taken(v, World', id)
  BY <1>1, <1>4, <1>5, SameBooks DEF Taken, Reaches
<1> QED BY <1>1, <1>3, <1>7, <1>8 DEF v, id

\* The end of an OK handler finishes the current command.
LEMMA FinishOkStep == ASSUME TypeInv, FinishOk PROVE TypeInv' /\ Finishes(World, World')
<1> DEFINE t == StartPlayingTimer(World)
           r == ReplyPending(t, "OK")
           w == IF pc = "IMAGE_OK" THEN Enter(r, "IMAGE") ELSE r
<1>1. Becomes(w) /\ pc' = w.pc /\ UNCHANGED <<requests, threads, timerPc, hi>>
  BY DEF FinishOk, Continue
<1>2. Keeps(World, t)
  BY StartPlayingTimerKeeps, WorldFieldsOf
<1> HIDE DEF t
<1>3. Finishes(World, r)
  <2>1. Typed(t) /\ Tidy(t)
    BY <1>2, WorldFieldsOf, StaysTidy DEF Reaches
  <2>2. Finishes(t, r)
    BY <2>1, ReplyPendingFinishes
  <2> QED BY <1>2, <2>2, WorldFieldsOf, Compose
<1> HIDE DEF r
<1>4. Finishes(World, w)
  <2>1. Typed(r) /\ Tidy(r) /\ "IMAGE" \in FsmStates /\ ~ Answering("IMAGE")
    BY <1>3, WorldFieldsOf, StaysTidy DEF Reaches, FsmStates, Answering
  <2>2. Keeps(r, Enter(r, "IMAGE"))
    BY <2>1, EnterKeepsOrFinishes
  <2>3. Finishes(World, Enter(r, "IMAGE"))
    BY <1>3, <2>2, WorldFieldsOf, Compose
  <2> QED BY <1>3, <2>3
<1> HIDE DEF w
<1>5. Reaches(World, w) /\ Tidy(w) /\ Typed(w)
  BY <1>4, WorldFieldsOf, StaysTidy DEF Reaches
<1>6. OthersTyped'
  BY <1>1, <1>5 DEF OthersTyped, TypeInv, Typed, WorldType
<1>7. TypeInv'
  BY <1>1, <1>5, <1>6, WorldFieldsOf, StepTyped
<1>8. Finishes(World, World')
  BY <1>1, <1>4, <1>5, SameBooks
<1> QED BY <1>7, <1>8

\* A step that does not concern the commands.
Silent ==
    /\ play'.cmd = play.cmd /\ play'.data = play.data
    /\ UNCHANGED <<answers, requests>>
    /\ Extends(queue, queue')

\* Silent steps: of a handler without commands, and of the rest of the program.
LEMMA SilentStep ==
    ASSUME TypeInv, NEW w, Keeps(World, w), Becomes(w), UNCHANGED requests, OthersTyped'
    PROVE  TypeInv' /\ Silent
<1>1. Reaches(World, w) /\ Tidy(w) /\ World.play = play
  BY StaysTidy, WorldFieldsOf
<1>2. TypeInv'
  BY <1>1, StepTyped
<1>3. Silent
  BY WorldFieldsOf DEF Silent, Keeps, Reaches, SamePending, Becomes
<1> QED BY <1>2, <1>3

LEMMA PlainStep ==
    ASSUME TypeInv, UNCHANGED <<play, answers, requests>>,
           queue' \in Seq(Event), Extends(queue, queue'), QueueOK(queue', play.count),
           armed' \in SUBSET [kind : {"media", "play"}, n : Nat], changed' \in BOOLEAN,
           hiReq' \in Seq(HiRequest), OthersTyped'
    PROVE  TypeInv' /\ Silent
<1> DEFINE w == [play |-> play, queue |-> queue', answers |-> answers, armed |-> armed',
                 changed |-> changed', hiReq |-> hiReq', pc |-> "idle"]
<1>1. w \in WorldType
  BY WorldFieldsOf DEF Typed, WorldType
<1>2. w.play = play /\ w.queue = queue' /\ w.answers = answers
  OBVIOUS
<1>3. Becomes(w)
  BY DEF Becomes
<1> HIDE DEF w
<1>4. Typed(w)
  BY <1>1, <1>2, WorldFieldsOf DEF Typed
<1>5. play.count >= play.count
  BY WorldFieldsOf
<1>6. Keeps(World, w)
  BY <1>2, <1>4, <1>5, WorldFieldsOf DEF Keeps, Reaches, SamePending
<1> QED BY <1>3, <1>6, SilentStep

\* A step that leaves the queue alone.
LEMMA QueueExtendsItself ==
    ASSUME TypeInv PROVE Extends(queue, queue) /\ queue \in Seq(Event) /\ QueueOK(queue, play.count)
BY WorldFieldsOf DEF Extends

\* The new thread does not read the type of the play, which may be past the
\* bound of the model.
LEMMA CreateSetMediaThreadStep == ASSUME TypeInv, CreateSetMediaThread PROVE TypeInv' /\ Silent
<1> DEFINE p == [play EXCEPT !.mediaThread = play.count]
           w == [World EXCEPT !.play = p]
<1>1. /\ p \in PlayRecord /\ p.count = play.count /\ p.cmd = play.cmd /\ p.data = play.data
      /\ p.mediaThread = play.count
  BY WorldFieldsOf DEF PlayRecord
<1>2. PlaylistOK(p)
  BY WorldFieldsOf DEF PlayRecord, PlaylistOK
<1>3. /\ play' = p /\ pc' = "idle"
      /\ UNCHANGED <<queue, requests, answers, armed, changed, timerPc, hi, hiReq>>
  BY DEF CreateSetMediaThread
<1> HIDE DEF p
<1>4. w \in WorldType /\ w.play = p /\ w.queue = queue /\ w.answers = answers
  BY <1>1, WorldFieldsOf DEF Typed, WorldType
<1>5. Becomes(w)
  BY <1>3 DEF Becomes, World
<1> HIDE DEF w
<1>6. Typed(w)
  BY <1>1, <1>2, <1>4, WorldFieldsOf DEF Typed
<1>7. Typed(World)' /\ Tidy(World)'
  BY <1>1, <1>3, <1>4, <1>5, <1>6, BecomesWorld, WorldFieldsOf DEF Tidy
<1>8. threads' \in [Plays -> [pc : {"none", "start", "waiting", "setting", "done"}, kind : Kinds]]
  BY DEF CreateSetMediaThread, TypeInv, OthersTyped
<1>9. OthersTyped'
  BY <1>3, <1>8 DEF TypeInv, OthersTyped
<1>10. play'.mediaThread \in 0 .. play'.count
  BY <1>1, <1>3, WorldFieldsOf
<1>11. Silent
  BY <1>1, <1>3, QueueExtendsItself DEF Silent
<1> QED BY <1>7, <1>9, <1>10, <1>11 DEF TypeInv

LEMMA ThreadMovesTyped ==
    ASSUME TypeInv, NEW n \in Plays, NEW from,
           NEW to \in {"none", "start", "waiting", "setting", "done"}, ThreadMoves(n, from, to),
           UNCHANGED <<pc, timerPc>>, hi' \in HiStates
    PROVE  OthersTyped'
<1>1. threads' \in [Plays -> [pc : {"none", "start", "waiting", "setting", "done"}, kind : Kinds]]
  BY DEF ThreadMoves, TypeInv, OthersTyped
<1> QED BY <1>1 DEF TypeInv, OthersTyped

\* The steps of a SetMedia thread.
LEMMA SetMediaStartStep == ASSUME TypeInv, NEW n \in Plays, SetMediaStart(n) PROVE TypeInv' /\ Silent
<1> DEFINE a == armed \cup {Timer("media", n)}
           x == [[World EXCEPT !.armed = a] EXCEPT !.changed = TRUE]
           p == [[play EXCEPT !.mediaTimer = n] EXCEPT !.mediaState = "WAITING"]
           w == [x EXCEPT !.play = p]
<1>1. a \in SUBSET [kind : {"media", "play"}, n : Nat]
  BY WorldFieldsOf DEF Typed, WorldType, Timer, Plays
<1>2. /\ p \in PlayRecord /\ p.count = play.count /\ p.cmd = play.cmd /\ p.data = play.data
      /\ p.mediaThread = play.mediaThread
  BY WorldFieldsOf DEF PlayRecord
<1>3. PlaylistOK(p)
  BY WorldFieldsOf DEF PlayRecord, PlaylistOK
<1>4. Becomes(w)
  BY DEF SetMediaStart, Becomes, AddTimer, World
<1>5. CurrentItem(World).kind \in Kinds
  <2>1. play.list \in DOMAIN Media /\ play.index \in DOMAIN Media[play.list]
    BY WorldFieldsOf DEF PlayRecord, PlaylistOK
  <2>2. Media[play.list][play.index] \in [kind : Kinds, timed : BOOLEAN]
    <3> DEFINE items == Media[play.list]
    <3>1. items \in Seq([kind : Kinds, timed : BOOLEAN]) /\ play.index \in DOMAIN items
      BY <2>1, Item
    <3> HIDE DEF items
    <3>2. items[play.index] \in [kind : Kinds, timed : BOOLEAN]
      BY <3>1, ElementIn
    <3> QED BY <3>2 DEF items
  <2> QED BY <2>2, WorldFieldsOf DEF CurrentItem
<1>6. threads' \in [Plays -> [pc : {"none", "start", "waiting", "setting", "done"}, kind : Kinds]]
  BY <1>5 DEF SetMediaStart, TypeInv, OthersTyped
<1>7. OthersTyped' /\ UNCHANGED requests
  BY <1>6 DEF SetMediaStart, TypeInv, OthersTyped
<1>8. x.play = play
  BY DEF World
<1>9. p.count >= play.count
  BY <1>2, WorldFieldsOf
<1> HIDE DEF a, p
<1>10. Keeps(World, x)
  BY <1>1, WorldFieldsOf, ArmedKeeps
<1> HIDE DEF x
<1>11. Keeps(x, w)
  BY <1>2, <1>3, <1>8, <1>9, <1>10, PlayKeeps DEF Keeps, Reaches
<1> HIDE DEF w
<1>12. Keeps(World, w)
  BY <1>10, <1>11, WorldFieldsOf, KeepsTransitive
<1> QED BY <1>4, <1>7, <1>12, SilentStep

LEMMA SetMediaEnterStep == ASSUME TypeInv, NEW n \in Plays, SetMediaEnter(n) PROVE TypeInv' /\ Silent
<1>1. OthersTyped'
  BY ThreadMovesTyped DEF SetMediaEnter, TypeInv, OthersTyped
<1>2. /\ armed \in SUBSET [kind : {"media", "play"}, n : Nat] /\ changed \in BOOLEAN
      /\ hiReq \in Seq(HiRequest)
  BY WorldFieldsOf DEF Typed, WorldType
<1> QED BY <1>1, <1>2, QueueExtendsItself, PlainStep DEF SetMediaEnter

LEMMA MediaReturnedKeeps == ASSUME TypeInv PROVE Keeps(World, MediaReturned)
<1> DEFINE p == [[[play EXCEPT !.mediaState = "OK"] EXCEPT !.mediaTimer = None]
                   EXCEPT !.mediaThread = None]
           w == [World EXCEPT !.play = p]
           a == armed \ {Timer("media", play.mediaTimer)}
           x == [[w EXCEPT !.armed = a] EXCEPT !.changed = TRUE]
<1>1. /\ p \in PlayRecord /\ p.count = play.count /\ p.cmd = play.cmd /\ p.data = play.data
      /\ p.mediaThread = None
  BY WorldFieldsOf DEF PlayRecord, None
<1>2. PlaylistOK(p)
  BY WorldFieldsOf DEF PlayRecord, PlaylistOK
<1>3. MediaReturned \in {w, x}
  BY DEF MediaReturned, RemoveTimer, World
<1>4. p.count >= play.count
  BY <1>1, WorldFieldsOf
<1>5. a \in SUBSET [kind : {"media", "play"}, n : Nat]
  BY WorldFieldsOf DEF Typed, WorldType
<1> HIDE DEF p, a
<1>6. Keeps(World, w)
  BY <1>1, <1>2, <1>4, WorldFieldsOf, PlayKeeps
<1> HIDE DEF w
<1>7. Keeps(w, x)
  BY <1>5, <1>6, ArmedKeeps DEF Keeps, Reaches
<1> HIDE DEF x
<1> QED BY <1>3, <1>6, <1>7, WorldFieldsOf, KeepsTransitive

LEMMA SetMediaFailsStep == ASSUME TypeInv, NEW n \in Plays, SetMediaFails(n) PROVE TypeInv' /\ Silent
<1> DEFINE s == StopPlaying(MediaReturned)
           w == Send(s, "FAIL")
<1>1. Becomes(w) /\ UNCHANGED requests
  BY DEF SetMediaFails
<1>2. OthersTyped'
  BY ThreadMovesTyped DEF SetMediaFails, TypeInv, OthersTyped
<1>3. Keeps(World, s)
  <2>1. Keeps(MediaReturned, s)
    BY MediaReturnedKeeps, StopPlayingKeeps DEF Keeps, Reaches
  <2> HIDE DEF s
  <2> QED BY <2>1, MediaReturnedKeeps, WorldFieldsOf, KeepsTransitive
<1> HIDE DEF s
<1>4. Keeps(s, w)
  BY <1>3, SendKeeps DEF Keeps, Reaches, FsmEvents
<1> HIDE DEF w
<1>5. Keeps(World, w)
  BY <1>3, <1>4, WorldFieldsOf, KeepsTransitive
<1> QED BY <1>1, <1>2, <1>5, SilentStep

LEMMA SetMediaSucceedsStep ==
    ASSUME TypeInv, NEW n \in Plays, SetMediaSucceeds(n) PROVE TypeInv' /\ Silent
<1> DEFINE r == MediaReturned
           called == HiCall(r, "Play")
           e == Fsm("STATE_CHANGED", play.count, "PLAY")
           reported == [r EXCEPT !.queue = Append(@, e)]
<1>1. /\ UNCHANGED requests /\ ThreadMoves(n, "setting", "done") /\ UNCHANGED <<pc, timerPc>>
      /\ \/ Becomes(Send(called, "OK")) /\ UNCHANGED hi
         \/ Becomes(Send(reported, "OK")) /\ hi' = "PLAY" /\ Len(queue) < QueueSize
  BY DEF SetMediaSucceeds
<1>2. OthersTyped'
  BY <1>1, ThreadMovesTyped DEF TypeInv, OthersTyped, HiStates
<1>3. Keeps(World, r) /\ Typed(r)
  BY MediaReturnedKeeps DEF Keeps, Reaches
<1>4. Keeps(World, called)
  <2>1. Keeps(r, called)
    BY <1>3, HiCallKeeps DEF HiRequest
  <2> HIDE DEF called, r
  <2> QED BY <1>3, <2>1, WorldFieldsOf, KeepsTransitive
<1>5. Len(queue) < QueueSize => Keeps(World, reported)
  <2> SUFFICES ASSUME Len(queue) < QueueSize PROVE Keeps(World, reported)
    OBVIOUS
  <2>1. r.queue = queue /\ r.play.count = play.count
    BY WorldFieldsOf DEF MediaReturned, RemoveTimer, World, PlayRecord
  <2> DEFINE q == Append(queue, e)
  <2>2. q \in Seq(Event) /\ Extends(queue, q) /\ QueueOK(q, play.count)
    <3>1. "STATE_CHANGED" \in FsmEvents /\ "PLAY" \in HiStates /\ play.count <= play.count
      BY WorldFieldsOf DEF FsmEvents, HiStates
    <3> QED BY <3>1, WorldFieldsOf, AppendExtends
  <2>3. reported = [r EXCEPT !.queue = q]
    BY <1>3, <2>1 DEF Typed, WorldType
  <2> HIDE DEF q, r
  <2>4. play.count >= play.count
    BY WorldFieldsOf
  <2>5. [r EXCEPT !.queue = q] \in WorldType /\ [r EXCEPT !.queue = q].play = r.play
        /\ [r EXCEPT !.queue = q].queue = q /\ [r EXCEPT !.queue = q].answers = r.answers
    BY <1>3, <2>2 DEF Typed, WorldType
  <2> DEFINE x == [r EXCEPT !.queue = q]
  <2> HIDE DEF x
  <2>6. x \in WorldType /\ x.play = r.play /\ x.queue = q /\ x.answers = r.answers
    BY <2>5 DEF x
  <2>7. Typed(x)
    BY <1>3, <2>1, <2>2, <2>6 DEF Typed
  <2>8. Keeps(World, x)
    BY <1>3, <2>1, <2>2, <2>6, <2>7, WorldFieldsOf DEF Keeps, Reaches, SamePending
  <2> QED BY <2>3, <2>8 DEF x
<1> HIDE DEF called, reported, r
<1>6. ASSUME NEW x, Keeps(World, x), Becomes(Send(x, "OK")) PROVE TypeInv' /\ Silent
  <2> DEFINE w == Send(x, "OK")
  <2>1. Keeps(x, w)
    BY <1>6, SendKeeps DEF Keeps, Reaches, FsmEvents
  <2>2. Becomes(w)
    BY <1>6
  <2> HIDE DEF w
  <2>3. Keeps(World, w)
    BY <1>6, <2>1, WorldFieldsOf, KeepsTransitive
  <2> QED BY <1>1, <1>2, <2>2, <2>3, SilentStep
<1> QED BY <1>1, <1>4, <1>5, <1>6

\* The steps of the timer thread.
LEMMA TimerFiresStep == ASSUME TypeInv, NEW t \in armed, TimerFires(t) PROVE TypeInv' /\ Silent
<1>1. t \in [kind : {"media", "play"}, n : Nat] /\ armed \in SUBSET [kind : {"media", "play"}, n : Nat]
      /\ hiReq \in Seq(HiRequest)
  BY WorldFieldsOf DEF Typed, WorldType
<1>2. timerPc' \in [at : {"idle", "called", "returned"}, kind : {"none", "media", "play"}, n : Nat]
  BY <1>1 DEF TimerFires
<1>3. OthersTyped'
  BY <1>2 DEF TimerFires, TypeInv, OthersTyped
<1> QED BY <1>1, <1>3, QueueExtendsItself, PlainStep DEF TimerFires

LEMMA MediaTimeoutStep == ASSUME TypeInv, MediaTimeout PROVE TypeInv' /\ Silent
<1> DEFINE p == [play EXCEPT !.mediaTimer = None]
           x == [World EXCEPT !.play = p]
           w == Send(x, "FAIL")
<1>1. Becomes(w) /\ UNCHANGED <<pc, requests, threads, hi>> /\ timerPc' = [timerPc EXCEPT !.at = "returned"]
  BY DEF MediaTimeout, CallbackReturns, World
<1>2. OthersTyped'
  BY <1>1 DEF TypeInv, OthersTyped
<1>3. /\ p \in PlayRecord /\ p.count = play.count /\ p.cmd = play.cmd /\ p.data = play.data
      /\ p.mediaThread = play.mediaThread
  BY WorldFieldsOf DEF PlayRecord
<1>4. PlaylistOK(p)
  BY WorldFieldsOf DEF PlayRecord, PlaylistOK
<1> HIDE DEF p
<1>5. p.count >= play.count
  BY <1>3, WorldFieldsOf
<1>6. Keeps(World, x)
  BY <1>3, <1>4, <1>5, WorldFieldsOf, PlayKeeps
<1> HIDE DEF x
<1>7. Keeps(x, w)
  BY <1>6, SendKeeps DEF Keeps, Reaches, FsmEvents
<1> HIDE DEF w
<1>8. Keeps(World, w)
  BY <1>6, <1>7, WorldFieldsOf, KeepsTransitive
<1> QED BY <1>1, <1>2, <1>8, SilentStep

LEMMA PlayTimeoutStep == ASSUME TypeInv, PlayTimeout PROVE TypeInv' /\ Silent
<1> DEFINE p == [play EXCEPT !.mediaState = "TIMEOUT"]
           x == [World EXCEPT !.play = p]
           s == Send(x, "TIMEOUT")
           w == [s EXCEPT !.play.playTimer = None]
<1>1. Becomes(w) /\ UNCHANGED <<pc, requests, threads, hi>> /\ timerPc' = [timerPc EXCEPT !.at = "returned"]
  BY DEF PlayTimeout, CallbackReturns, World
<1>2. OthersTyped'
  BY <1>1 DEF TypeInv, OthersTyped
<1>3. /\ p \in PlayRecord /\ p.count = play.count /\ p.cmd = play.cmd /\ p.data = play.data
      /\ p.mediaThread = play.mediaThread
  BY WorldFieldsOf DEF PlayRecord
<1>4. PlaylistOK(p)
  BY WorldFieldsOf DEF PlayRecord, PlaylistOK
<1> HIDE DEF p
<1>5. p.count >= play.count
  BY <1>3, WorldFieldsOf
<1>6. Keeps(World, x)
  BY <1>3, <1>4, <1>5, WorldFieldsOf, PlayKeeps
<1> HIDE DEF x
<1>7. Keeps(x, s)
  BY <1>6, SendKeeps DEF Keeps, Reaches, FsmEvents
<1> HIDE DEF s
<1>8. Keeps(s, w)
  BY <1>7, ForgetTimerKeeps DEF Keeps, Reaches
<1> HIDE DEF w
<1>9. Keeps(World, w)
  BY <1>6, <1>7, <1>8, WorldFieldsOf, KeepsTransitive
<1> QED BY <1>1, <1>2, <1>9, SilentStep

LEMMA TimerEndsStep == ASSUME TypeInv, TimerEnds PROVE TypeInv' /\ Silent
<1>1. /\ armed \in SUBSET [kind : {"media", "play"}, n : Nat] /\ changed \in BOOLEAN
      /\ hiReq \in Seq(HiRequest)
  BY WorldFieldsOf DEF Typed, WorldType
<1>2. armed' \in SUBSET [kind : {"media", "play"}, n : Nat]
  BY <1>1 DEF TimerEnds
<1>3. OthersTyped'
  BY DEF TimerEnds, TypeInv, OthersTyped, TimerThreadIdle, None
<1> QED BY <1>1, <1>2, <1>3, QueueExtendsItself, PlainStep DEF TimerEnds

LEMMA CallbackExtends ==
    ASSUME TypeInv, NEW ev \in FsmEvents, NEW state \in HiStates, Callback(ev, state)
    PROVE  queue' \in Seq(Event) /\ Extends(queue, queue') /\ QueueOK(queue', play.count)
<1>1. CASE Len(queue) < QueueSize
  <2>1. play.count <= play.count
    BY WorldFieldsOf
  <2> QED BY <1>1, <2>1, WorldFieldsOf, AppendExtends DEF Callback
<1>2. CASE ~ (Len(queue) < QueueSize)
  BY <1>2, QueueExtendsItself DEF Callback
<1> QED BY <1>1, <1>2

\* The reports of HiPlayer.
LEMMA HiPlayerStep == ASSUME TypeInv, HiPlayer PROVE TypeInv' /\ Silent
<1>1. UNCHANGED <<play, pc, requests, answers, threads, armed, changed, timerPc>>
  BY DEF HiPlayer, HiWork, HiEnds, HiRewound, HiUnchanged
<1>2. /\ UNCHANGED queue \/ \E ev \in FsmEvents, state \in HiStates : Callback(ev, state)
      /\ hi' \in HiStates
  <2>1. /\ \A state \in {"PLAY", "FORWARD", "BACKWARD", "PAUSE", "STOP"} : state \in HiStates
        /\ {"STATE_CHANGED", "SEEK_FINISHED", "SOF"} \subseteq FsmEvents /\ hi \in HiStates
    BY DEF HiStates, FsmEvents, TypeInv, OthersTyped
  <2>2. CASE HiWork
    BY <2>1, <2>2 DEF HiWork, HiServes, MovesFrom, HiMoves
  <2>3. CASE HiEnds
    BY <2>1, <2>3 DEF HiEnds, HiMoves
  <2>4. CASE HiRewound
    BY <2>1, <2>4 DEF HiRewound
  <2> QED BY <2>2, <2>3, <2>4 DEF HiPlayer
<1>3. hiReq' \in Seq(HiRequest)
  <2>1. hiReq \in Seq(HiRequest)
    BY WorldFieldsOf
  <2>2. hiReq' = hiReq \/ (hiReq # <<>> /\ hiReq' = Tail(hiReq))
    BY DEF HiPlayer, HiWork, HiEnds, HiRewound, HiUnchanged
  <2> QED BY <2>1, <2>2
<1>4. queue' \in Seq(Event) /\ Extends(queue, queue') /\ QueueOK(queue', play.count)
  BY <1>2, CallbackExtends, QueueExtendsItself
<1>5. armed \in SUBSET [kind : {"media", "play"}, n : Nat] /\ changed \in BOOLEAN
  BY WorldFieldsOf DEF Typed, WorldType
<1>6. OthersTyped'
  BY <1>1, <1>2 DEF TypeInv, OthersTyped
<1> QED BY <1>1, <1>3, <1>4, <1>5, <1>6, PlainStep

LEMMA StutterStep == ASSUME TypeInv, UNCHANGED vars PROVE TypeInv' /\ Silent
<1>1. /\ armed \in SUBSET [kind : {"media", "play"}, n : Nat] /\ changed \in BOOLEAN
      /\ hiReq \in Seq(HiRequest)
  BY WorldFieldsOf DEF Typed, WorldType
<1>2. OthersTyped'
  BY DEF vars, TypeInv, OthersTyped
<1> QED BY <1>1, <1>2, QueueExtendsItself, PlainStep DEF vars

\* A client sends a command: a new number, at the end of the queue or lost.
LEMMA SendCommandStep ==
    ASSUME TypeInv, NEW command \in Command, SendCommand(command) PROVE TypeInv'
<1> DEFINE e == [ev |-> "JSON", id |-> Len(requests) + 1]
<1>1. /\ requests' = Append(requests, command) /\ Len(requests) < MaxJson
      /\ queue' = IF Len(queue) < QueueSize THEN Append(queue, e) ELSE queue
      /\ UNCHANGED <<play, pc, answers, threads, armed, changed, timerPc, hi, hiReq>>
  BY DEF SendCommand
<1>2. requests \in Seq(Command) /\ MaxJson \in Nat /\ QueueSize \in Nat
  BY WorldFieldsOf, ConstantsAssumption DEF Typed, RequestsOK
<1>3. /\ requests' \in Seq(Command) /\ Len(requests') = Len(requests) + 1
      /\ Len(requests') <= MaxJson
  BY <1>1, <1>2
<1>4. Command' = Command
  BY DEF Command
<1>5. RequestsOK' /\ Sent \subseteq Sent' /\ Event \subseteq Event' /\ e \in Event'
  BY <1>2, <1>3, <1>4 DEF RequestsOK, Sent, Event
<1>6. queue \in Seq(Event') /\ QueueOK(queue, play.count) /\ queue \in Seq(Event)
  BY <1>5, WorldFieldsOf
<1> DEFINE q == Append(queue, e)
<1>7. q \in Seq(Event') /\ Len(q) = Len(queue) + 1
      /\ \A i \in DOMAIN q : q[i] = IF i = Len(queue) + 1 THEN e ELSE queue[i]
  <2> e \in Event' /\ queue \in Seq(Event')
    BY <1>5, <1>6
  <2> HIDE DEF e
  <2> QED OBVIOUS
<1>8. Len(queue) < QueueSize => QueueOK(q, play.count)
  BY <1>2, <1>6, <1>7 DEF QueueOK
<1> HIDE DEF q
<1>9. queue' \in Seq(Event') /\ QueueOK(queue', play.count)
  BY <1>1, <1>6, <1>7, <1>8 DEF q
<1>10. play \in PlayRecord'
  BY <1>5, WorldFieldsOf DEF PlayRecord
<1>11. World' \in WorldType'
  BY <1>1, <1>9, <1>10, WorldFieldsOf DEF World, WorldType, Typed
<1>12. /\ World'.play = play /\ World'.queue = queue'
  BY <1>1 DEF World
<1>13. Typed(World)'
  BY <1>1, <1>5, <1>9, <1>11, <1>12, WorldFieldsOf DEF Typed
<1>14. OthersTyped' /\ Tidy(World)'
  BY <1>1, <1>12, WorldFieldsOf DEF OthersTyped, TypeInv, Tidy
<1> QED BY <1>1, <1>13, <1>14 DEF TypeInv

\* The steps of the window, seen from its commands.
EventTaken ==
    /\ queue # <<>> /\ Head(queue).ev \in FsmEvents /\ UNCHANGED requests
    /\ Outcome(AfterTaking, World')

\* A command leaves the queue.
CommandTaken ==
    /\ HandleCommand /\ queue # <<>> /\ Head(queue).ev = "JSON" /\ Head(queue).id \in Sent /\ UNCHANGED requests
    /\ Taken(AfterTaking, World', Head(queue).id)

\* An OK handler ends.
CommandFinished == UNCHANGED requests /\ Finishes(World, World')

\* The controller queues a command, or fails to.
CommandSent == \E command \in Command : SendCommand(command)

\* Every step is one of the five.
LEMMA StepKinds ==
    ASSUME TypeInv, [Next]_vars
    PROVE  /\ TypeInv'
           /\ Silent \/ EventTaken \/ CommandTaken \/ CommandFinished \/ CommandSent
<1>1. CASE HandleEvent
  BY <1>1, HandleEventStep DEF EventTaken, HandleEvent, Continue
<1>2. CASE HandleCommand
  BY <1>2, HandleCommandStep DEF CommandTaken, HandleCommand, Continue
<1>3. CASE CreateSetMediaThread
  BY <1>3, CreateSetMediaThreadStep
<1>4. CASE FinishOk
  BY <1>4, FinishOkStep DEF CommandFinished, FinishOk, Continue
<1>5. ASSUME NEW n \in Plays, MediaThread(n) PROVE TypeInv' /\ Silent
  BY <1>5, SetMediaStartStep, SetMediaEnterStep, SetMediaFailsStep, SetMediaSucceedsStep DEF MediaThread
<1>6. CASE TimerThread
  BY <1>6, TimerFiresStep, MediaTimeoutStep, PlayTimeoutStep, TimerEndsStep DEF TimerThread
<1>7. CASE HiPlayer
  BY <1>7, HiPlayerStep
<1>8. CASE CommandSent
  BY <1>8, SendCommandStep DEF CommandSent
<1>9. CASE UNCHANGED vars
  BY <1>9, StutterStep
<1> QED BY <1>1, <1>2, <1>3, <1>4, <1>5, <1>6, <1>7, <1>8, <1>9 DEF Next, PlayerThread, CommandSent

\* The state muxRxInitPlayer leaves.
LEMMA InitTyped ==
    ASSUME Init
    PROVE  /\ TypeInv
           /\ requests = <<>> /\ answers = [id \in Json \cup {NoJson} |-> <<>>]
           /\ play.data = NoJson /\ \A i \in DOMAIN queue : queue[i].ev # "JSON"
<1> DEFINE w == [play |-> Blank, queue |-> <<>>, armed |-> {}, changed |-> FALSE,
                 answers |-> [id \in Json \cup {NoJson} |-> <<>>],
                 hiReq |-> <<>>, pc |-> "idle"]
<1>1. requests = <<>> /\ RequestsOK
  BY ConstantsAssumption DEF Init, RequestsOK
<1>2. Blank \in PlayRecord /\ PlaylistOK(Blank)
  BY ConstantsAssumption, Item DEF Blank, PlayRecord, PlaylistOK, FsmStates, None, NoJson
<1>3. w \in WorldType
  BY <1>2 DEF WorldType
<1>4. w.play = Blank /\ w.queue = <<>> /\ w.answers = [id \in Json \cup {NoJson} |-> <<>>]
  OBVIOUS
<1>5. Started = PlayMedia(w, StartMedia, -1)
  BY DEF Started
<1> HIDE DEF w
<1>6. Typed(w)
  BY <1>1, <1>2, <1>3, <1>4, ConstantsAssumption DEF Typed, QueueOK
<1>7. Keeps(w, Started)
  BY <1>5, <1>6, PlayMediaKeeps, ConstantsAssumption
<1>8. Typed(Started) /\ Started.play.data = NoJson /\ Started.play.mediaThread = None
      /\ Started.play.cmd = "OPEN" /\ Started.answers = w.answers /\ Extends(w.queue, Started.queue)
  BY <1>4, <1>7 DEF Keeps, Reaches, SamePending, Blank
<1>9. /\ play = Started.play /\ queue = Started.queue /\ answers = Started.answers
      /\ armed = Started.armed /\ changed = Started.changed /\ hiReq = Started.hiReq
      /\ pc = Started.pc
  BY DEF Init
<1>10. Typed(World) /\ Tidy(World)
  <2>1. World \in WorldType /\ World.play = Started.play /\ World.queue = Started.queue
    BY <1>8, <1>9 DEF World, Typed, WorldType
  <2> QED BY <2>1, <1>8 DEF Typed, Tidy
<1>11. OthersTyped
  BY <1>8, <1>9 DEF OthersTyped, Init, NoThread, TimerThreadIdle, None, Kinds, HiStates, Typed, WorldType
<1>12. play.mediaThread \in 0 .. play.count
  BY <1>8, <1>9, CountOf DEF None
<1>13. \A i \in DOMAIN queue : queue[i].ev # "JSON"
  BY <1>4, <1>8, <1>9 DEF Extends, Typed, WorldType
<1> QED BY <1>1, <1>4, <1>8, <1>9, <1>10, <1>11, <1>12, <1>13 DEF TypeInv

\* The types hold in every state.
LEMMA TypeInvariant == Spec => []TypeInv
<1>1. Init => TypeInv
  BY InitTyped
<1>2. TypeInv /\ [Next]_vars => TypeInv'
  BY StepKinds
<1> QED BY <1>1, <1>2, PTL DEF Spec

\* Within the bound of an instance the queue holds what TypeOK says.
LEMMA EventsTyped ==
    ASSUME TypeInv, play.count <= MaxPlays PROVE queue \in Seq(FsmEvent \cup JsonEvent)
<1>1. /\ queue \in Seq(Event) /\ Len(queue) \in Nat /\ play.count \in Nat
      /\ \A i \in DOMAIN queue : queue[i].ev # "JSON" => queue[i].tag <= play.count
  BY WorldFieldsOf DEF QueueOK
<1>2. Sent \subseteq Json /\ DOMAIN requests = Sent
  BY WorldFieldsOf, ConstantsAssumption DEF Typed, RequestsOK, Sent, Json
<1>3. ASSUME NEW e \in Event, e.ev # "JSON" => e.tag <= play.count
      PROVE  e \in FsmEvent \cup JsonEvent
  <2>1. CASE e \in [ev : {"JSON"}, id : DOMAIN requests]
    BY <1>2, <2>1 DEF JsonEvent
  <2>2. CASE e \in [ev : FsmEvents, tag : Nat, val : HiStates]
    <3>1. e.ev # "JSON" /\ e.tag \in 0 .. MaxPlays
      BY <1>1, <1>3, <2>2, ConstantsAssumption DEF FsmEvents
    <3> QED BY <2>2, <3>1 DEF FsmEvent
  <2> QED BY <2>1, <2>2 DEF Event
<1>4. queue \in [1 .. Len(queue) -> FsmEvent \cup JsonEvent]
  BY <1>1, <1>3
<1> QED BY <1>1, <1>4

\* Every field of the window stays in its range, for every set of media,
\* playlist, repeat number and speed table: the item that is played exists, no
\* playlist is played more rounds than its repeat number, and the speed index
\* stays in the table.  MaxPlays bounds an instance, not the code, so the
\* theorem speaks of the states in which at most MaxPlays plays have begun.
THEOREM WindowTyped == Spec => [](play.count <= MaxPlays => TypeOK)
<1> DEFINE Ranges == play.count <= MaxPlays => TypeOK
<1>1. TypeInv => Ranges
  <2> SUFFICES ASSUME TypeInv, play.count <= MaxPlays PROVE TypeOK
    OBVIOUS
  <2>1. play \in PlayRecord /\ PlaylistOK(play) /\ play.count \in Nat /\ MaxPlays \in Nat
    BY WorldFieldsOf, ConstantsAssumption
  <2>2. Sent \subseteq Json
    BY WorldFieldsOf, ConstantsAssumption DEF Typed, RequestsOK, Sent, Json
  <2>3. play \in [fsm : FsmStates, cmd : {"UNKNOWN"} \cup {"OPEN", "STOP", "PAUSE", "RESUME"},
                 data : Json \cup {NoJson}, count : 0 .. MaxPlays,
                 mediaState : {"INIT", "WAITING", "OK", "TIMEOUT"},
                 mediaThread : Plays \cup {None}, mediaTimer : Plays \cup {None},
                 playTimer : Nat, countOfTimer : Nat, speed : 0 .. SpeedCount - 1,
                 list : DOMAIN Media, index : Nat, round : Nat, repeat : Nat]
    <3>1. play.count \in 0 .. MaxPlays /\ play.mediaThread \in Plays \cup {None}
      BY <2>1 DEF TypeInv, Plays, None
    <3>2. play.data \in Json \cup {NoJson} /\ play.cmd \in {"UNKNOWN"} \cup {"OPEN", "STOP", "PAUSE", "RESUME"}
      BY <2>1, <2>2 DEF PlayRecord
    <3> QED BY <2>1, <3>1, <3>2 DEF PlayRecord
  <2>4. play.index \in DOMAIN Media[play.list] /\ (Unlimited(World) \/ play.round < play.repeat)
    BY <2>1, WorldFieldsOf DEF PlaylistOK, Unlimited
  <2>5. queue \in Seq(FsmEvent \cup JsonEvent) /\ Len(queue) <= QueueSize
    BY EventsTyped, WorldFieldsOf DEF QueueOK
  <2>6. /\ requests \in Seq(Command) /\ Len(requests) <= MaxJson
        /\ answers \in [Json \cup {NoJson} -> Seq({"OK", "NOK"})]
        /\ armed \subseteq [kind : {"media", "play"}, n : Nat] /\ changed \in BOOLEAN
        /\ hiReq \in Seq({"Stop", "Play", "Pause", "Resume", "Forward", "Backward", "Seek"})
    BY WorldFieldsOf DEF Typed, WorldType, RequestsOK, HiRequest
  <2> QED BY <2>3, <2>4, <2>5, <2>6 DEF TypeOK, TypeInv, OthersTyped
<1> QED BY <1>1, TypeInvariant, PTL

----------------------------------------------------------------------------
(* Every command is in the queue, or the current one, or answered.           *)

\* A command in the queue, and no command twice.
InQueue(q, id) == \E i \in DOMAIN q : q[i].ev = "JSON" /\ q[i].id = id
Distinct(q) == \A i, j \in DOMAIN q :
    q[i].ev = "JSON" /\ q[j].ev = "JSON" /\ q[i].id = q[j].id => i = j

\* The commands in the queue are those before the events a handler adds,
LEMMA ExtendsJson ==
    ASSUME NEW S, NEW q \in Seq(S), NEW r \in Seq(S), Extends(q, r)
    PROVE  /\ \A id : InQueue(r, id) <=> InQueue(q, id)
           /\ Distinct(q) => Distinct(r)
<1>1. /\ DOMAIN q = 1 .. Len(q) /\ DOMAIN r = 1 .. Len(r) /\ DOMAIN q \subseteq DOMAIN r
      /\ \A i \in DOMAIN q : r[i] = q[i]
      /\ \A i \in DOMAIN r : r[i].ev = "JSON" => i \in DOMAIN q
  BY DEF Extends
<1> QED BY <1>1 DEF InQueue, Distinct

\* and those behind the one that is taken.
LEMMA TailJson ==
    ASSUME NEW S, NEW q \in Seq(S), q # <<>>
    PROVE  /\ \A id : InQueue(q, id) <=> \/ InQueue(Tail(q), id)
                                         \/ Head(q).ev = "JSON" /\ Head(q).id = id
           /\ Distinct(q) => Distinct(Tail(q))
           /\ Distinct(q) /\ Head(q).ev = "JSON" => ~ InQueue(Tail(q), Head(q).id)
<1>1. /\ DOMAIN q = 1 .. Len(q) /\ Len(q) \in Nat \ {0} /\ DOMAIN Tail(q) = 1 .. Len(q) - 1
      /\ Head(q) = q[1] /\ \A i \in 1 .. Len(q) - 1 : Tail(q)[i] = q[i + 1]
  OBVIOUS
<1>2. \A i \in DOMAIN q : i = 1 \/ (i - 1 \in DOMAIN Tail(q) /\ q[i] = Tail(q)[i - 1])
  BY <1>1
<1>3. \A i \in DOMAIN Tail(q) : i + 1 \in DOMAIN q /\ i + 1 # 1 /\ Tail(q)[i] = q[i + 1]
  BY <1>1
<1>4. 1 \in DOMAIN q /\ Head(q) = q[1]
  BY <1>1
<1>5. ASSUME NEW id
      PROVE  InQueue(q, id) <=> InQueue(Tail(q), id) \/ (Head(q).ev = "JSON" /\ Head(q).id = id)
  BY <1>2, <1>3, <1>4 DEF InQueue
<1>6. ASSUME Distinct(q), NEW i \in DOMAIN Tail(q), NEW j \in DOMAIN Tail(q),
             Tail(q)[i].ev = "JSON", Tail(q)[j].ev = "JSON", Tail(q)[i].id = Tail(q)[j].id
      PROVE  i = j
  <2>1. i \in Nat /\ j \in Nat
    BY <1>1
  <2>2. i + 1 = j + 1
    BY <1>3, <1>6 DEF Distinct
  <2> QED BY <2>1, <2>2
<1>7. ASSUME Distinct(q), Head(q).ev = "JSON", NEW i \in DOMAIN Tail(q),
             Tail(q)[i].ev = "JSON", Tail(q)[i].id = Head(q).id
      PROVE  FALSE
  BY <1>3, <1>4, <1>7 DEF Distinct
<1>8. Distinct(q) => Distinct(Tail(q))
  BY <1>6 DEF Distinct
<1>9. Distinct(q) /\ Head(q).ev = "JSON" => ~ InQueue(Tail(q), Head(q).id)
  BY <1>7 DEF InQueue
<1> QED BY <1>5, <1>8, <1>9

\* q is the queue, a the answers, d the current command and n the number of
\* commands sent.  A command is in the queue once, without an answer; the
\* current command has left the queue and has no answer; no command has two.
Books(q, a, d, n) ==
    /\ d # NoJson => d \in 1 .. n /\ a[d] = <<>> /\ ~ InQueue(q, d)
    /\ \A id \in Json : InQueue(q, id) => id \in 1 .. n /\ a[id] = <<>>
    /\ Distinct(q)
    /\ \A id \in Json : Len(a[id]) <= 1 /\ (id > n => a[id] = <<>>)

\* No command of the first n is lost; none but one.
AllKept(q, a, d, n) == \A id \in 1 .. n : a[id] = <<>> => InQueue(q, id) \/ id = d

\* The command that is being taken is in neither place.
AllKeptBut(q, a, d, n, one) ==
    \A id \in 1 .. n : a[id] = <<>> /\ id # one => InQueue(q, id) \/ id = d

Answers == [Json \cup {NoJson} -> Seq({"OK", "NOK"})]

\* The books are right after each thing that happens to them: events are queued,
LEMMA BooksExtend ==
    ASSUME NEW S, NEW q \in Seq(S), NEW r \in Seq(S), Extends(q, r), NEW a, NEW d, NEW n
    PROVE  /\ Books(q, a, d, n) => Books(r, a, d, n)
           /\ AllKept(q, a, d, n) => AllKept(r, a, d, n)
BY ExtendsJson DEF Books, AllKept

LEMMA AnswerOne ==
    ASSUME NEW a \in Answers, NEW id \in Json \cup {NoJson}, NEW answer \in {"OK", "NOK"}
    PROVE  LET b == [a EXCEPT ![id] = Append(@, answer)]
           IN  /\ \A x \in Json \cup {NoJson} : x # id => b[x] = a[x]
               /\ b[id] # <<>> /\ (a[id] = <<>> => Len(b[id]) = 1)
<1>1. a[id] \in Seq({"OK", "NOK"})
  BY DEF Answers
<1>2. Append(a[id], answer) # <<>> /\ (a[id] = <<>> => Len(Append(a[id], answer)) = 1)
  BY <1>1
<1> QED BY <1>2 DEF Answers

\* A command that is in no queue and has no answer gets one, and is not the
\* current command any more.
LEMMA BooksAnswer ==
    ASSUME NEW q, NEW a \in Answers, NEW b, NEW d, NEW e, NEW n \in 0 .. MaxJson, NEW id \in 1 .. n,
           NEW answer \in {"OK", "NOK"}, b = [a EXCEPT ![id] = Append(@, answer)],
           Books(q, a, d, n), a[id] = <<>>, ~ InQueue(q, id), e = IF d = id THEN NoJson ELSE d
    PROVE  /\ Books(q, b, e, n)
           /\ AllKeptBut(q, a, d, n, id) => AllKept(q, b, e, n)
<1>1. id \in Json /\ Json \subseteq Nat /\ NoJson \notin Json /\ 1 .. n \subseteq Json
  BY ConstantsAssumption DEF Json, NoJson
<1>2. /\ \A x \in Json \cup {NoJson} : x # id => b[x] = a[x]
      /\ b[id] # <<>> /\ Len(b[id]) = 1
  BY <1>1, AnswerOne
<1>3. e # NoJson => e \in 1 .. n /\ b[e] = <<>> /\ ~ InQueue(q, e)
  BY <1>1, <1>2 DEF Books
<1>4. \A x \in Json : InQueue(q, x) => x \in 1 .. n /\ b[x] = <<>>
  BY <1>1, <1>2 DEF Books
<1>5. \A x \in Json : Len(b[x]) <= 1 /\ (x > n => b[x] = <<>>)
  BY <1>1, <1>2 DEF Books
<1>6. Distinct(q)
  BY DEF Books
<1>7. AllKeptBut(q, a, d, n, id) => AllKept(q, b, e, n)
  BY <1>1, <1>2 DEF AllKept, AllKeptBut
<1> QED BY <1>3, <1>4, <1>5, <1>6, <1>7 DEF Books

\* A command that is in no queue and has no answer becomes the current one.
LEMMA BooksAccept ==
    ASSUME NEW q, NEW a, NEW n \in 0 .. MaxJson, NEW id \in 1 .. n,
           Books(q, a, NoJson, n), a[id] = <<>>, ~ InQueue(q, id)
    PROVE  /\ Books(q, a, id, n)
           /\ AllKeptBut(q, a, NoJson, n, id) => AllKept(q, a, id, n)
BY ConstantsAssumption DEF Books, AllKept, AllKeptBut, Json, NoJson

\* An event is taken.
LEMMA BooksTail ==
    ASSUME NEW S, NEW q \in Seq(S), q # <<>>, NEW a, NEW d, NEW n, Books(q, a, d, n)
    PROVE  /\ Books(Tail(q), a, d, n)
           /\ AllKept(q, a, d, n) /\ Head(q).ev # "JSON" => AllKept(Tail(q), a, d, n)
           /\ AllKept(q, a, d, n) => AllKeptBut(Tail(q), a, d, n, Head(q).id)
BY TailJson DEF Books, AllKept, AllKeptBut

\* A command is sent.
LEMMA BooksSend ==
    ASSUME NEW S, NEW q \in Seq(S), NEW a, NEW d, NEW n \in 0 .. MaxJson - 1, NEW e \in S,
           Books(q, a, d, n), e.ev = "JSON", e.id = n + 1
    PROVE  /\ Books(q, a, d, n + 1) /\ Books(Append(q, e), a, d, n + 1)
           /\ AllKept(q, a, d, n) => AllKept(Append(q, e), a, d, n + 1)
<1> DEFINE r == Append(q, e)
<1>1. /\ DOMAIN q = 1 .. Len(q) /\ DOMAIN r = 1 .. Len(q) + 1 /\ r[Len(q) + 1] = e
      /\ \A i \in DOMAIN q : r[i] = q[i]
  OBVIOUS
<1>2. Len(q) \in Nat /\ n + 1 \in Json /\ n \in Nat /\ ~ (n + 1 \in 1 .. n)
      /\ \A x \in 1 .. n : x \in 1 .. n + 1
  BY ConstantsAssumption DEF Json
<1> HIDE DEF r
<1>3. \A i \in DOMAIN r : i \in DOMAIN q \/ i = Len(q) + 1
  BY <1>1, <1>2
<1>4. \A id : InQueue(r, id) <=> InQueue(q, id) \/ id = n + 1
  <2>1. DOMAIN q \subseteq DOMAIN r /\ Len(q) + 1 \in DOMAIN r
    BY <1>1, <1>2
  <2> QED BY <1>1, <1>3, <2>1 DEF InQueue
<1>5. ~ InQueue(q, n + 1)
  BY <1>2 DEF Books
<1>6. Distinct(r)
  <2>1. \A i \in DOMAIN q : q[i].ev = "JSON" => q[i].id # n + 1
    BY <1>5 DEF InQueue
  <2> QED BY <1>1, <1>3, <2>1 DEF Books, Distinct
<1>7. Books(q, a, d, n + 1)
  <2>1. \A id \in Json : id > n + 1 => id > n
    BY <1>2, ConstantsAssumption DEF Json
  <2> QED BY <1>2, <2>1 DEF Books
<1>8. a[n + 1] = <<>>
  <2>1. n + 1 > n
    BY <1>2
  <2> QED BY <1>2, <2>1 DEF Books
<1>9. d # NoJson => d # n + 1
  BY <1>2 DEF Books
<1>10. Books(r, a, d, n + 1)
  BY <1>2, <1>4, <1>6, <1>7, <1>8, <1>9 DEF Books
<1>11. AllKept(q, a, d, n) => AllKept(r, a, d, n + 1)
  <2>1. \A x \in 1 .. n + 1 : x \in 1 .. n \/ x = n + 1
    BY <1>2
  <2> QED BY <1>4, <2>1 DEF AllKept
<1> QED BY <1>7, <1>10, <1>11 DEF r

\* The two invariants.
CommandInv == Books(queue, answers, play.data, Len(requests))
KeptInv == AllKept(queue, answers, play.data, Len(requests))

\* The fifo takes every command; the controller is not told when it does not.
QueueTakes == requests' # requests => Len(queue) < QueueSize

\* No change of speed is asked for at that end of the speed table, where the
\* handler returns without an answer.
TableAllows == HandleCommand => ~ PastTable(AfterTaking, Head(queue).id)

\* The types the books need.
LEMMA BooksTypes ==
    ASSUME TypeInv
    PROVE  /\ Len(requests) \in 0 .. MaxJson /\ Sent = 1 .. Len(requests)
           /\ answers \in Answers /\ queue \in Seq(Event) /\ Sent \subseteq Json
BY WorldFieldsOf, ConstantsAssumption
   DEF Typed, RequestsOK, Sent, WorldType, Answers, Json

\* The five kinds of steps, one after the other.
LEMMA SilentBooks ==
    ASSUME TypeInv, TypeInv', Silent
    PROVE  (CommandInv => CommandInv') /\ (KeptInv => KeptInv')
<1>1. /\ queue \in Seq(Event) /\ queue' \in Seq(Event') /\ Event' = Event
      /\ Extends(queue, queue') /\ play'.data = play.data /\ UNCHANGED <<answers, requests>>
  BY WorldFieldsOf DEF Silent, TypeInv, World, Typed, WorldType, Event
<1> QED BY <1>1, BooksExtend DEF CommandInv, KeptInv

\* The outcome of a state machine event or of the end of an OK handler, from w on.
LEMMA OutcomeBooks ==
    ASSUME NEW w, NEW x, Outcome(w, x), Typed(w), Tidy(w), NoRemoteImages,
           NEW n, n = Len(requests), Books(w.queue, w.answers, w.play.data, n)
    PROVE  /\ Books(x.queue, x.answers, x.play.data, n)
           /\ AllKept(w.queue, w.answers, w.play.data, n) => AllKept(x.queue, x.answers, x.play.data, n)
<1>1. /\ w.queue \in Seq(Event) /\ x.queue \in Seq(Event) /\ Extends(w.queue, x.queue)
      /\ w.answers \in Answers /\ n \in 0 .. MaxJson /\ 1 .. n \subseteq Json
      /\ w.play.data \in 1 .. n \cup {NoJson}
  <2>1. Reaches(w, x)
    BY DEF Outcome, Keeps, Replies, Finishes
  <2>2. w.play.data \in Sent \cup {NoJson}
    BY DataSent
  <2> QED BY <2>1, <2>2, ConstantsAssumption
          DEF Reaches, Typed, WorldType, Answers, RequestsOK, Sent, Json
<1>2. /\ Books(x.queue, w.answers, w.play.data, n)
      /\ AllKept(w.queue, w.answers, w.play.data, n) => AllKept(x.queue, w.answers, w.play.data, n)
  BY <1>1, BooksExtend
<1>3. CASE Keeps(w, x)
  BY <1>2, <1>3 DEF Keeps, SamePending
<1>4. CASE Finishes(w, x) /\ w.play.data = NoJson
  <2>1. x.play.data = NoJson /\ \A id \in Json : x.answers[id] = w.answers[id]
    <3>1. CASE x.answers = w.answers
      BY <1>4, <3>1 DEF Finishes
    <3>2. CASE Answered(w, x, NoJson)
      <4>1. PICK answer \in {"OK", "NOK"} : x.answers = [w.answers EXCEPT ![NoJson] = Append(@, answer)]
        BY <3>2 DEF Answered
      <4> QED BY <1>1, <1>4, <4>1 DEF Finishes, Answers, Json, NoJson
    <3> QED BY <1>4, <3>1, <3>2 DEF Finishes
  <2> QED BY <1>1, <1>2, <1>4, <2>1 DEF Books, AllKept
<1>5. CASE Finishes(w, x) /\ w.play.data # NoJson
  <2>1. PICK answer \in {"OK", "NOK"} : x.answers = [w.answers EXCEPT ![w.play.data] = Append(@, answer)]
    BY <1>5 DEF Finishes, Answered
  <2>2. x.play.data = NoJson /\ w.play.data \in 1 .. n /\ w.answers[w.play.data] = <<>>
        /\ ~ InQueue(x.queue, w.play.data)
    BY <1>1, <1>2, <1>5 DEF Finishes, Books
  <2>3. /\ Books(x.queue, x.answers, x.play.data, n)
        /\ AllKeptBut(x.queue, w.answers, w.play.data, n, w.play.data)
              => AllKept(x.queue, x.answers, x.play.data, n)
    <3> DEFINE q == x.queue
               a == w.answers
               b == x.answers
               d == w.play.data
               e == x.play.data
    <3>1. /\ a \in Answers /\ n \in 0 .. MaxJson /\ d \in 1 .. n /\ answer \in {"OK", "NOK"}
          /\ b = [a EXCEPT ![d] = Append(@, answer)] /\ Books(q, a, d, n) /\ a[d] = <<>>
          /\ ~ InQueue(q, d) /\ e = NoJson
      BY <1>1, <1>2, <2>1, <2>2
    <3> HIDE DEF q, a, b, d, e
    <3>2. /\ Books(q, b, e, n)
          /\ AllKeptBut(q, a, d, n, d) => AllKept(q, b, e, n)
      BY <3>1, BooksAnswer
    <3> QED BY <3>2 DEF q, a, b, d, e
  <2> QED BY <1>2, <2>3 DEF AllKept, AllKeptBut
<1> QED BY <1>3, <1>4, <1>5 DEF Outcome

\* The outcome of a command that has just left the queue.
LEMMA TakenBooks ==
    ASSUME NEW w, NEW x, NEW n, n = Len(requests), NEW id \in 1 .. n, Taken(w, x, id), Typed(w), Tidy(w),
           Books(w.queue, w.answers, w.play.data, n),
           w.answers[id] = <<>>, ~ InQueue(w.queue, id), id # w.play.data
    PROVE  /\ Books(x.queue, x.answers, x.play.data, n)
           /\ ~ PastTable(w, id) /\ AllKeptBut(w.queue, w.answers, w.play.data, n, id)
                 => AllKept(x.queue, x.answers, x.play.data, n)
<1>1. /\ w.queue \in Seq(Event) /\ x.queue \in Seq(Event) /\ Extends(w.queue, x.queue)
      /\ w.answers \in Answers /\ n \in 0 .. MaxJson
  <2>1. Reaches(w, x)
    BY DEF Taken, Keeps, Replies, Accepts
  <2> QED BY <2>1, ConstantsAssumption
          DEF Reaches, Typed, WorldType, Answers, RequestsOK
<1>2. Books(x.queue, w.answers, w.play.data, n)
  BY <1>1, BooksExtend
<1>3. /\ ~ InQueue(x.queue, id)
      /\ AllKeptBut(w.queue, w.answers, w.play.data, n, id)
            => AllKeptBut(x.queue, w.answers, w.play.data, n, id)
  <2>1. \A y : InQueue(x.queue, y) <=> InQueue(w.queue, y)
    BY <1>1, ExtendsJson
  <2> QED BY <2>1 DEF AllKeptBut
<1>4. CASE Replies(w, x, id)
  <2>1. PICK answer \in {"OK", "NOK"} : x.answers = [w.answers EXCEPT ![id] = Append(@, answer)]
    BY <1>4 DEF Replies, Answered
  <2>2. x.play.data = w.play.data
    BY <1>4 DEF Replies, SamePending
  <2>3. /\ Books(x.queue, x.answers, w.play.data, n)
        /\ AllKeptBut(x.queue, w.answers, w.play.data, n, id)
              => AllKept(x.queue, x.answers, w.play.data, n)
    <3> DEFINE q == x.queue
               a == w.answers
               b == x.answers
               d == w.play.data
               k == id
               e == IF d = k THEN NoJson ELSE d
    <3>1. /\ a \in Answers /\ n \in 0 .. MaxJson /\ k \in 1 .. n /\ answer \in {"OK", "NOK"}
          /\ b = [a EXCEPT ![k] = Append(@, answer)] /\ Books(q, a, d, n) /\ a[k] = <<>>
          /\ ~ InQueue(q, k) /\ e = IF d = k THEN NoJson ELSE d
      BY <1>1, <1>2, <1>3, <2>1
    <3>2. e = w.play.data
      OBVIOUS
    <3> HIDE DEF q, a, b, d, k, e
    <3>3. Books(q, b, e, n)
      BY <3>1, BooksAnswer
    <3>4. AllKeptBut(q, a, d, n, k) => AllKept(q, b, e, n)
      BY <3>1, BooksAnswer
    <3> QED BY <3>2, <3>3, <3>4 DEF q, a, b, d, k
  <2> QED BY <1>3, <2>2, <2>3
<1>5. CASE Accepts(w, x, id)
  <2>1. x.answers = w.answers /\ x.play.data = id /\ w.play.data = NoJson
    BY <1>5 DEF Accepts, Tidy
  <2> QED BY <1>1, <1>2, <1>3, <2>1, BooksAccept
<1>6. CASE Keeps(w, x) /\ PastTable(w, id)
  BY <1>2, <1>6 DEF Keeps, SamePending
<1> QED BY <1>4, <1>5, <1>6 DEF Taken

LEMMA SentBooks ==
    ASSUME TypeInv, CommandSent, CommandInv
    PROVE  CommandInv' /\ (KeptInv /\ QueueTakes => KeptInv')
<1> DEFINE n == Len(requests)
           e == [ev |-> "JSON", id |-> n + 1]
<1>1. PICK command \in Command : SendCommand(command)
  BY DEF CommandSent
<1>2. /\ n < MaxJson /\ requests' = Append(requests, command)
      /\ queue' = IF Len(queue) < QueueSize THEN Append(queue, e) ELSE queue
      /\ UNCHANGED <<play, answers>>
  BY <1>1 DEF SendCommand
<1>3. n \in 0 .. MaxJson - 1 /\ requests \in Seq(Command) /\ queue \in Seq(Event)
  BY <1>2, BooksTypes, WorldFieldsOf, ConstantsAssumption DEF Typed, RequestsOK
<1>4. Len(requests') = n + 1 /\ requests' # requests
  BY <1>2, <1>3
<1> DEFINE S == Event \cup {e}
<1>5. queue \in Seq(S) /\ e \in S /\ e.ev = "JSON" /\ e.id = n + 1
  BY <1>3
<1> HIDE DEF S, e, n
<1>6. /\ Books(queue, answers, play.data, n + 1)
      /\ Books(Append(queue, e), answers, play.data, n + 1)
      /\ KeptInv => AllKept(Append(queue, e), answers, play.data, n + 1)
  BY <1>3, <1>5, BooksSend DEF CommandInv, KeptInv, n
<1> QED BY <1>2, <1>4, <1>6 DEF CommandInv, KeptInv, QueueTakes

\* The event that is taken, and what is left to do.
LEMMA TailBooks ==
    ASSUME TypeInv, queue # <<>>, CommandInv
    PROVE  LET w == AfterTaking
               n == Len(requests)
           IN  /\ Books(w.queue, w.answers, w.play.data, n)
               /\ Head(queue).ev # "JSON" /\ KeptInv => AllKept(w.queue, w.answers, w.play.data, n)
               /\ Head(queue).ev = "JSON" =>
                     LET id == Head(queue).id
                     IN  /\ id \in Json => w.answers[id] = <<>> /\ ~ InQueue(w.queue, id) /\ id # w.play.data
                         /\ KeptInv => AllKeptBut(w.queue, w.answers, w.play.data, n, id)
<1>1. queue \in Seq(Event) /\ AfterTaking.play = play /\ AfterTaking.answers = answers
      /\ AfterTaking.queue = Tail(queue)
  BY TakenTyped, WorldFieldsOf
<1>2. /\ Books(Tail(queue), answers, play.data, Len(requests))
      /\ KeptInv /\ Head(queue).ev # "JSON" => AllKept(Tail(queue), answers, play.data, Len(requests))
      /\ KeptInv => AllKeptBut(Tail(queue), answers, play.data, Len(requests), Head(queue).id)
  BY <1>1, BooksTail DEF CommandInv, KeptInv
<1>3. Head(queue).ev = "JSON" /\ Head(queue).id \in Json =>
         /\ answers[Head(queue).id] = <<>> /\ ~ InQueue(Tail(queue), Head(queue).id)
         /\ Head(queue).id # play.data
  <2>1. Head(queue).ev = "JSON" => InQueue(queue, Head(queue).id)
    BY <1>1, TailJson
  <2> QED BY <1>1, <2>1, TailJson DEF CommandInv, Books, Json, NoJson
<1> QED BY <1>1, <1>2, <1>3

\* A step of any kind keeps CommandInv, and KeptInv when it asks for nothing that the
\* player cannot do.
LEMMA CommandStep ==
    ASSUME TypeInv, TypeInv', NoRemoteImages, CommandInv,
           Silent \/ EventTaken \/ CommandTaken \/ CommandFinished \/ CommandSent
    PROVE  /\ CommandInv'
           /\ KeptInv /\ (Silent \/ (TableAllows /\ QueueTakes)) => KeptInv'
<1> DEFINE n == Len(requests)
<1>1. World'.queue = queue' /\ World'.answers = answers' /\ World'.play = play'
  BY DEF World
<1>2. CASE Silent
  BY <1>2, SilentBooks
<1>3. CASE EventTaken
  <2>1. /\ queue # <<>> /\ Head(queue).ev # "JSON" /\ requests' = requests
        /\ Outcome(AfterTaking, World') /\ Typed(AfterTaking) /\ Tidy(AfterTaking)
    BY <1>3, TakenTyped, WorldFieldsOf DEF EventTaken, FsmEvents, Tidy
  <2>2. /\ Books(World'.queue, World'.answers, World'.play.data, n)
        /\ KeptInv => AllKept(World'.queue, World'.answers, World'.play.data, n)
    BY <2>1, TailBooks, OutcomeBooks
  <2> QED BY <1>1, <2>1, <2>2 DEF CommandInv, KeptInv
<1>4. CASE CommandTaken
  <2>1. /\ queue # <<>> /\ Head(queue).ev = "JSON" /\ requests' = requests
        /\ Head(queue).id \in 1 .. n /\ Head(queue).id \in Json
        /\ Taken(AfterTaking, World', Head(queue).id) /\ Typed(AfterTaking) /\ Tidy(AfterTaking)
    BY <1>4, TakenTyped, WorldFieldsOf, BooksTypes DEF CommandTaken, Tidy
  <2>2. /\ Books(World'.queue, World'.answers, World'.play.data, n)
        /\ KeptInv /\ TableAllows => AllKept(World'.queue, World'.answers, World'.play.data, n)
    BY <1>4, <2>1, TailBooks, TakenBooks DEF CommandTaken, TableAllows
  <2>3. CommandInv' /\ (KeptInv /\ TableAllows => KeptInv')
    BY <1>1, <2>1, <2>2 DEF CommandInv, KeptInv
  <2> QED BY <2>3, SilentBooks
<1>5. CASE CommandFinished
  <2>1. Outcome(World, World') /\ requests' = requests
    BY <1>5 DEF CommandFinished, Outcome
  <2>2. /\ Books(World'.queue, World'.answers, World'.play.data, n)
        /\ KeptInv => AllKept(World'.queue, World'.answers, World'.play.data, n)
    BY <2>1, WorldFieldsOf, OutcomeBooks DEF CommandInv, KeptInv
  <2> QED BY <1>1, <2>1, <2>2 DEF CommandInv, KeptInv
<1>6. CASE CommandSent
  <2>1. CommandInv' /\ (KeptInv /\ QueueTakes => KeptInv')
    BY <1>6, SentBooks
  <2> QED BY <2>1, SilentBooks
<1> QED BY <1>2, <1>3, <1>4, <1>5, <1>6

\* At startup nothing has been sent.
LEMMA InitBooks == ASSUME Init PROVE TypeInv /\ CommandInv /\ KeptInv
<1>1. /\ TypeInv /\ Len(requests) = 0 /\ answers = [id \in Json \cup {NoJson} |-> <<>>]
      /\ play.data = NoJson /\ \A i \in DOMAIN queue : queue[i].ev # "JSON"
  BY InitTyped
<1>2. (\A id : ~ InQueue(queue, id)) /\ Distinct(queue)
  BY <1>1 DEF InQueue, Distinct
<1>3. \A id \in Json : answers[id] = <<>> /\ Len(answers[id]) <= 1
  BY <1>1
<1> QED BY <1>1, <1>2, <1>3 DEF CommandInv, KeptInv, Books, AllKept

\* CommandInv holds in every state.
LEMMA CommandInvariant == ASSUME NoRemoteImages PROVE Spec => [](TypeInv /\ CommandInv)
<1>1. Init => TypeInv /\ CommandInv
  BY InitBooks
<1>2. TypeInv /\ CommandInv /\ [Next]_vars => (TypeInv /\ CommandInv)'
  BY StepKinds, CommandStep
<1> QED BY <1>1, <1>2, PTL DEF Spec

\* Without images from the net every command is answered at most once: its JSON
\* event is freed with the answer, and no path through the handlers, the two
\* timeouts, the SetMedia threads and the reports of the library answers it again.
\* With such an image the command that asked for it is answered and stays current.
THEOREM OneAnswer == NoRemoteImages => (Spec => []AnsweredOnce)
<1> SUFFICES ASSUME NoRemoteImages PROVE Spec => []AnsweredOnce
  OBVIOUS
<1>1. TypeInv /\ CommandInv => AnsweredOnce
  BY DEF CommandInv, Books, AnsweredOnce
<1> QED BY <1>1, CommandInvariant, PTL

\* Under the same condition dataOfCurrentCmd never points to a JSON event that
\* has been answered, and so freed.
THEOREM CurrentDataNotFreed == NoRemoteImages => (Spec => []CurrentDataAlive)
<1> SUFFICES ASSUME NoRemoteImages PROVE Spec => []CurrentDataAlive
  OBVIOUS
<1>1. TypeInv /\ CommandInv => CurrentDataAlive
  BY DEF CommandInv, Books, CurrentDataAlive, Unanswered
<1> QED BY <1>1, CommandInvariant, PTL

\* KeptInv holds as long as nothing is asked that the player cannot do.
LEMMA KeptInvariant ==
    ASSUME NoRemoteImages
    PROVE  Spec /\ [][TableAllows /\ QueueTakes]_vars => [](TypeInv /\ CommandInv /\ KeptInv)
<1>1. Init => TypeInv /\ CommandInv /\ KeptInv
  BY InitBooks
<1>2. /\ TypeInv /\ CommandInv /\ KeptInv /\ [Next]_vars /\ [TableAllows /\ QueueTakes]_vars
      => (TypeInv /\ CommandInv /\ KeptInv)'
  <2> SUFFICES ASSUME TypeInv, CommandInv, KeptInv, [Next]_vars, [TableAllows /\ QueueTakes]_vars
               PROVE  (TypeInv /\ CommandInv /\ KeptInv)'
    OBVIOUS
  <2>1. Silent \/ (TableAllows /\ QueueTakes)
    BY StutterStep
  <2> QED BY <2>1, StepKinds, CommandStep
<1> QED BY <1>1, <1>2, PTL DEF Spec

\* A queued event of a command has its number and nothing else.
LEMMA QueuedIs ==
    ASSUME TypeInv, NEW id PROVE Queued(id) <=> InQueue(queue, id)
<1>1. queue \in Seq(Event)
  BY WorldFieldsOf
<1>2. \A e \in Event : e.ev = "JSON" => e = [ev |-> "JSON", id |-> e.id]
  BY DEF Event, FsmEvents
<1>3. \A i \in DOMAIN queue : queue[i] \in Event
  BY <1>1
<1> QED BY <1>2, <1>3 DEF Queued, InQueue

\* No command is forgotten, when nothing is asked that the player cannot do (an
\* image from the net, a speed past the end of the table) and the fifo takes
\* every command: one that has left the queue without an answer is the current
\* command, which a later event answers.
THEOREM NothingForgotten ==
    NoRemoteImages => (Spec /\ [][TableAllows /\ QueueTakes]_vars => []NoCommandForgotten)
<1> SUFFICES ASSUME NoRemoteImages
             PROVE  Spec /\ [][TableAllows /\ QueueTakes]_vars => []NoCommandForgotten
  OBVIOUS
<1>1. TypeInv /\ CommandInv /\ KeptInv => NoCommandForgotten
  BY QueuedIs, BooksTypes DEF KeptInv, AllKept, NoCommandForgotten, Unanswered
<1> QED BY <1>1, KeptInvariant, PTL

----------------------------------------------------------------------------
(* The refinement of CommandEngine.                                          *)

\* The status of a command with its cases in an order.
Stage(q, a, n, id) ==
    IF id \notin 1 .. n THEN "unsent"
    ELSE IF InQueue(q, id) THEN "queued"
    ELSE IF a[id] # <<>> THEN "answered" ELSE "processing"

\* The cases of Status exclude each other, because the books are right.
LEMMA StatusIs ==
    ASSUME TypeInv, CommandInv, NEW id \in Json
    PROVE  Status(id) = Stage(queue, answers, Len(requests), id)
<1> DEFINE unsent == id \notin Sent
           queued == Queued(id)
           answered == ~ Unanswered(id)
<1>1. (queued <=> InQueue(queue, id)) /\ Sent = 1 .. Len(requests) /\ Len(requests) \in Nat
      /\ id \in Nat \ {0}
  BY QueuedIs, BooksTypes DEF Json
<1>2. /\ queued => ~ unsent /\ ~ answered
      /\ unsent => ~ answered
  BY <1>1 DEF CommandInv, Books, Unanswered
<1>3. Status(id) = CASE unsent -> "unsent" [] queued -> "queued" [] answered -> "answered"
                     [] OTHER -> "processing"
  BY DEF Status
<1>4. Stage(queue, answers, Len(requests), id)
        = IF unsent THEN "unsent" ELSE IF queued THEN "queued"
          ELSE IF answered THEN "answered" ELSE "processing"
  BY <1>1 DEF Stage, Unanswered
<1> HIDE DEF unsent, queued, answered
<1> QED BY <1>2, <1>3, <1>4

\* What CommandEngine sees of the window.
Statuses == [id \in Json |-> Status(id)]

LEMMA StatusesAre ==
    TypeInv /\ CommandInv => \A id \in Json : Statuses[id] = Stage(queue, answers, Len(requests), id)
BY StatusIs DEF Statuses

LEMMA StatusesAfter ==
    (TypeInv /\ CommandInv)' => \A id \in Json :
        Statuses'[id] = Stage(queue', answers', Len(requests'), id)
<1>1. (TypeInv /\ CommandInv => \A id \in Json :
          Statuses[id] = Stage(queue, answers, Len(requests), id))'
  BY StatusesAre, PTL
<1> QED BY <1>1 DEF Stage, InQueue, Json

\* The books as the steps below change them: nothing, or one command.
SameFor(id) ==
    /\ InQueue(queue', id) <=> InQueue(queue, id)
    /\ answers'[id] = answers[id]
    /\ id \in 1 .. Len(requests') <=> id \in 1 .. Len(requests)

\* A step that leaves the books of every command alone is a stutter.
LEMMA NoneMoves ==
    ASSUME TypeInv, CommandInv, (TypeInv /\ CommandInv)', \A id \in Json : SameFor(id)
    PROVE  UNCHANGED Statuses
<1>1. \A id \in Json : Statuses'[id] = Statuses[id]
  BY StatusesAre, StatusesAfter DEF SameFor, Stage
<1> QED BY <1>1 DEF Statuses, Json

\* One that changes those of one command moves it.
LEMMA OneMoves ==
    ASSUME TypeInv, CommandInv, (TypeInv /\ CommandInv)', NEW id \in Json,
           \A x \in Json \ {id} : SameFor(x), NEW from, NEW to,
           Stage(queue, answers, Len(requests), id) = from,
           Stage(queue', answers', Len(requests'), id) = to
    PROVE  CE!MovesTo(id, from, to)
<1>1. Statuses[id] = from /\ Statuses'[id] = to
  BY StatusesAre, StatusesAfter
<1>2. \A x \in Json \ {id} : Statuses'[x] = Statuses[x]
  BY StatusesAre, StatusesAfter DEF SameFor, Stage
<1>3. Statuses' = [Statuses EXCEPT ![id] = to]
  BY <1>1, <1>2 DEF Statuses, Json
<1> QED BY <1>1, <1>3 DEF CE!MovesTo, Statuses

\* Events of the state machine may be added to the queue.
LEMMA SilentMoves ==
    ASSUME TypeInv, CommandInv, (TypeInv /\ CommandInv)', Silent
    PROVE  UNCHANGED Statuses
<1>1. /\ queue \in Seq(Event) /\ queue' \in Seq(Event') /\ Event' = Event
      /\ Extends(queue, queue') /\ UNCHANGED <<answers, requests>>
  BY WorldFieldsOf DEF Silent, TypeInv, World, Typed, WorldType, Event
<1>2. \A id \in Json : SameFor(id)
  BY <1>1, ExtendsJson DEF SameFor
<1> QED BY <1>2, NoneMoves

\* A state machine event, or the end of an OK handler, from w on, where w has
\* the commands of the state before in its books.
LEMMA OutcomeMoves ==
    ASSUME TypeInv, CommandInv, (TypeInv /\ CommandInv)', NoRemoteImages, UNCHANGED requests,
           NEW w, Typed(w), w.answers = answers, w.play = play,
           \A id \in Json : InQueue(w.queue, id) <=> InQueue(queue, id),
           Outcome(w, World')
    PROVE  UNCHANGED Statuses \/ \E id \in Json : CE!Answer(id)
<1>1. /\ w.queue \in Seq(Event) /\ queue' \in Seq(Event) /\ Extends(w.queue, queue')
      /\ World'.answers = answers' /\ World'.play = play'
  <2>1. Reaches(w, World')
    BY DEF Outcome, Keeps, Replies, Finishes
  <2> QED BY <2>1 DEF Reaches, Typed, WorldType, World
<1>2. \A id \in Json : InQueue(queue', id) <=> InQueue(queue, id)
  BY <1>1, ExtendsJson
<1>3. CASE answers' = answers
  BY <1>2, <1>3, NoneMoves DEF SameFor
<1>4. CASE \E answer \in {"OK", "NOK"} : answers' = [answers EXCEPT ![play.data] = Append(@, answer)]
  <2>1. PICK answer \in {"OK", "NOK"} : answers' = [answers EXCEPT ![play.data] = Append(@, answer)]
    BY <1>4
  <2>2. answers \in Answers /\ play.data \in Json \cup {NoJson} /\ NoJson \notin Json
    BY BooksTypes, WorldFieldsOf DEF PlayRecord, Json, NoJson
  <2> DEFINE d == play.data
  <2>3. \A id \in Json \cup {NoJson} : id # d => answers'[id] = answers[id]
    BY <2>1, <2>2, AnswerOne
  <2>4. answers'[d] # <<>>
    BY <2>1, <2>2, AnswerOne
  <2>5. \A id \in Json \ {d} : SameFor(id)
    BY <1>2, <2>3 DEF SameFor
  <2>6. CASE d = NoJson
    BY <2>2, <2>5, <2>6, NoneMoves
  <2>7. CASE d # NoJson
    <3>1. d \in Json /\ d \in 1 .. Len(requests) /\ answers[d] = <<>> /\ ~ InQueue(queue, d)
      BY <2>2, <2>7 DEF CommandInv, Books
    <3>2. Stage(queue, answers, Len(requests), d) = "processing"
      BY <3>1 DEF Stage
    <3>3. Stage(queue', answers', Len(requests'), d) = "answered"
      BY <1>2, <2>4, <3>1 DEF Stage
    <3> HIDE DEF d
    <3>4. CE!MovesTo(d, "processing", "answered")
      BY <2>5, <3>1, <3>2, <3>3, OneMoves
    <3> QED BY <3>1, <3>4 DEF CE!Answer
  <2> QED BY <2>6, <2>7
<1>5. answers' = answers \/ \E answer \in {"OK", "NOK"} : answers' = [answers EXCEPT ![play.data] = Append(@, answer)]
  BY <1>1 DEF Outcome, Keeps, Finishes, Answered
<1> QED BY <1>3, <1>4, <1>5

\* An event answers the current command or moves none.
LEMMA EventMoves ==
    ASSUME TypeInv, CommandInv, (TypeInv /\ CommandInv)', NoRemoteImages, EventTaken
    PROVE  UNCHANGED Statuses \/ \E id \in Json : CE!Answer(id)
<1>1. /\ Typed(AfterTaking) /\ AfterTaking.answers = answers /\ AfterTaking.play = play
      /\ AfterTaking.queue = Tail(queue) /\ queue \in Seq(Event)
      /\ queue # <<>> /\ Head(queue).ev # "JSON" /\ UNCHANGED requests
  BY TakenTyped, WorldFieldsOf DEF EventTaken, FsmEvents
<1>2. \A id \in Json : InQueue(Tail(queue), id) <=> InQueue(queue, id)
  BY <1>1, TailJson
<1> QED BY <1>1, <1>2, OutcomeMoves DEF EventTaken

LEMMA FinishMoves ==
    ASSUME TypeInv, CommandInv, (TypeInv /\ CommandInv)', NoRemoteImages, CommandFinished
    PROVE  UNCHANGED Statuses \/ \E id \in Json : CE!Answer(id)
<1>1. UNCHANGED requests /\ Outcome(World, World')
  BY DEF CommandFinished, Outcome
<1> QED BY <1>1, WorldFieldsOf, OutcomeMoves

\* A command that leaves the queue is answered at once or accepted; when it is
\* accepted no other one is in processing, because none was forgotten.
LEMMA TakenMoves ==
    ASSUME TypeInv, CommandInv, KeptInv, (TypeInv /\ CommandInv)', TableAllows, CommandTaken
    PROVE  \E id \in Json : CE!AnswerAtOnce(id) \/ CE!Accept(id)
<1> DEFINE v == AfterTaking
           c == Head(queue).id
<1>1. /\ Typed(v) /\ Tidy(v) /\ v.answers = answers /\ v.play = play
      /\ v.queue = Tail(queue) /\ queue \in Seq(Event) /\ queue # <<>>
      /\ Head(queue).ev = "JSON" /\ UNCHANGED requests /\ Taken(v, World', c)
      /\ c \in 1 .. Len(requests) /\ c \in Json
  BY TakenTyped, WorldFieldsOf, BooksTypes DEF CommandTaken, Tidy
<1>2. /\ v.queue \in Seq(Event) /\ queue' \in Seq(Event) /\ Extends(v.queue, queue')
      /\ World'.answers = answers' /\ World'.play = play'
  <2>1. Reaches(v, World')
    BY <1>1 DEF Taken, Keeps, Replies, Accepts
  <2> HIDE DEF v
  <2> QED BY <1>1, <2>1 DEF Reaches, Typed, WorldType, World
<1>3. InQueue(queue, c) /\ ~ InQueue(queue', c)
      /\ \A id \in Json \ {c} : InQueue(queue', id) <=> InQueue(queue, id)
  <2>1. \A id : InQueue(queue', id) <=> InQueue(v.queue, id)
    BY <1>2, ExtendsJson
  <2> QED BY <1>1, <2>1, TailJson DEF CommandInv, Books
<1>4. Stage(queue, answers, Len(requests), c) = "queued" /\ answers[c] = <<>>
  BY <1>1, <1>3 DEF Stage, CommandInv, Books
<1>5. CASE Replies(v, World', c)
  <2>1. PICK answer \in {"OK", "NOK"} : answers' = [answers EXCEPT ![c] = Append(@, answer)]
    BY <1>1, <1>2, <1>5 DEF Replies, Answered
  <2>2. answers'[c] # <<>> /\ \A id \in Json \ {c} : answers'[id] = answers[id]
    BY <1>1, <2>1, BooksTypes, AnswerOne
  <2>3. Stage(queue', answers', Len(requests'), c) = "answered"
    BY <1>1, <1>3, <2>2 DEF Stage
  <2>4. \A id \in Json \ {c} : SameFor(id)
    BY <1>1, <1>3, <2>2 DEF SameFor
  <2> HIDE DEF c, v
  <2>5. CE!MovesTo(c, "queued", "answered")
    BY <1>1, <1>4, <2>3, <2>4, OneMoves
  <2> QED BY <1>1, <2>5 DEF CE!AnswerAtOnce
<1>6. CASE Accepts(v, World', c)
  <2>1. answers' = answers /\ play.data = NoJson
    BY <1>1, <1>2, <1>6 DEF Accepts, Tidy
  <2>2. Stage(queue', answers', Len(requests'), c) = "processing"
    BY <1>1, <1>3, <1>4, <2>1 DEF Stage
  <2>3. \A id \in Json \ {c} : SameFor(id)
    BY <1>1, <1>3, <2>1 DEF SameFor
  <2>4. \A id \in Json : Statuses[id] # "processing"
    <3>1. \A id \in Json : Stage(queue, answers, Len(requests), id) # "processing"
      BY <2>1 DEF Stage, KeptInv, AllKept, NoJson, Json
    <3> QED BY <3>1, StatusesAre
  <2>5. CE!InProcessing = {}
    BY <2>4 DEF CE!InProcessing, Statuses
  <2> HIDE DEF c, v
  <2>6. CE!MovesTo(c, "queued", "processing")
    BY <1>1, <1>4, <2>2, <2>3, OneMoves
  <2> QED BY <1>1, <2>5, <2>6 DEF CE!Accept
<1>7. ~ PastTable(v, c)
  BY DEF CommandTaken, TableAllows
<1> QED BY <1>1, <1>5, <1>6, <1>7 DEF Taken

\* The command that is sent is queued.
LEMMA SentMoves ==
    ASSUME TypeInv, CommandInv, (TypeInv /\ CommandInv)', CommandSent, QueueTakes
    PROVE  \E id \in Json : CE!Send(id)
<1> DEFINE n == Len(requests)
           k == n + 1
           e == [ev |-> "JSON", id |-> k]
<1>1. /\ n < MaxJson /\ n \in Nat /\ Len(requests') = n + 1 /\ queue' = Append(queue, e)
      /\ queue \in Seq(Event) /\ UNCHANGED answers
  <2>1. PICK command \in Command : SendCommand(command)
    BY DEF CommandSent
  <2>2. requests \in Seq(Command) /\ requests' = Append(requests, command) /\ queue \in Seq(Event)
    BY <2>1, WorldFieldsOf DEF SendCommand, Typed, RequestsOK
  <2> QED BY <2>1, <2>2 DEF SendCommand, QueueTakes
<1>2. k \in Json /\ k \notin 1 .. n /\ k \in 1 .. Len(requests')
      /\ \A id \in Json \ {k} : id \in 1 .. Len(requests') <=> id \in 1 .. n
  BY <1>1, ConstantsAssumption DEF Json
<1>3. \A id \in Json : InQueue(queue', id) <=> InQueue(queue, id) \/ id = k
  <2>1. /\ DOMAIN queue = 1 .. Len(queue) /\ DOMAIN queue' = 1 .. Len(queue) + 1
        /\ queue'[Len(queue) + 1] = e /\ Len(queue) \in Nat
        /\ \A i \in DOMAIN queue : queue'[i] = queue[i]
    <3> HIDE DEF e
    <3> QED BY <1>1
  <2>2. /\ DOMAIN queue \subseteq DOMAIN queue' /\ Len(queue) + 1 \in DOMAIN queue'
        /\ \A i \in DOMAIN queue' : i \in DOMAIN queue \/ i = Len(queue) + 1
    BY <2>1
  <2>3. e.ev = "JSON" /\ e.id = k
    OBVIOUS
  <2> HIDE DEF e, k
  <2> QED BY <2>1, <2>2, <2>3 DEF InQueue
<1>4. \A id \in Json \ {k} : SameFor(id)
  BY <1>1, <1>2, <1>3 DEF SameFor
<1>5. /\ Stage(queue, answers, Len(requests), k) = "unsent"
      /\ Stage(queue', answers', Len(requests'), k) = "queued"
  BY <1>2, <1>3 DEF Stage
<1> HIDE DEF n, k, e
<1>6. CE!MovesTo(k, "unsent", "queued")
  BY <1>2, <1>4, <1>5, OneMoves
<1> QED BY <1>2, <1>6 DEF CE!Send

\* Every step of the window is one of CommandEngine or a stutter.
LEMMA RefinesStep ==
    ASSUME NoRemoteImages,
           TypeInv /\ CommandInv /\ KeptInv, (TypeInv /\ CommandInv /\ KeptInv)',
           [Next]_vars, [TableAllows /\ QueueTakes]_vars
    PROVE  CE!Next \/ UNCHANGED Statuses
<1>1. Silent \/ (TableAllows /\ QueueTakes)
  BY StutterStep
<1>2. Silent \/ EventTaken \/ CommandTaken \/ CommandFinished \/ CommandSent
  BY StepKinds
<1>3. \/ UNCHANGED Statuses
      \/ \E id \in Json : CE!Send(id) \/ CE!AnswerAtOnce(id) \/ CE!Accept(id) \/ CE!Answer(id)
  BY <1>1, <1>2, SilentMoves, EventMoves, TakenMoves, FinishMoves, SentMoves
<1> QED BY <1>3 DEF CE!Next

LEMMA RefinesInit == Init => CE!Init
<1> SUFFICES ASSUME Init PROVE CE!Init
  OBVIOUS
<1>1. TypeInv /\ CommandInv /\ Len(requests) = 0
  BY InitBooks, InitTyped
<1>2. \A id \in Json : Statuses[id] = "unsent"
  BY <1>1, StatusesAre DEF Stage
<1> QED BY <1>2 DEF CE!Init, Statuses

\* The window does for its commands what a client is promised: each is taken up
\* once and answered once, at once or after having been the only command in
\* processing.  It does so when nothing is asked that it cannot do (an image from
\* the net, a speed past the end of the table) and the fifo takes every command.
THEOREM PlayerServesCommands ==
    NoRemoteImages => (Spec /\ [][TableAllows /\ QueueTakes]_vars => ServesCommands)
<1> SUFFICES ASSUME NoRemoteImages
             PROVE  Spec /\ [][TableAllows /\ QueueTakes]_vars => ServesCommands
  OBVIOUS
<1>1. Init => CE!Init
  BY RefinesInit
<1>2. /\ TypeInv /\ CommandInv /\ KeptInv /\ (TypeInv /\ CommandInv /\ KeptInv)'
      /\ [Next]_vars /\ [TableAllows /\ QueueTakes]_vars
      => [CE!Next]_([id \in Json |-> Status(id)])
  BY RefinesStep DEF Statuses
<1> QED BY <1>1, <1>2, KeptInvariant, PTL DEF Spec, ServesCommands, CE!Spec

----------------------------------------------------------------------------
(* Startup: OPEN is the current command and no JSON event is behind it.      *)

\* After startup, no step answers through NULL and none brings startup back.
LEMMA StartedStep ==
    ASSUME TypeInv, ~ Starting,
           Silent \/ EventTaken \/ CommandTaken \/ CommandFinished \/ CommandSent
    PROVE  answers'[NoJson] = answers[NoJson] /\ ~ Starting'
<1>1. answers \in Answers /\ NoJson \notin Sent /\ Sent \subseteq Json /\ Tidy(World) /\ World.play = play
      /\ World.answers = answers /\ play.data \in Sent \cup {NoJson}
  BY BooksTypes, WorldFieldsOf DEF Sent, NoJson, PlayRecord
<1>2. World'.answers = answers' /\ World'.play = play'
  BY DEF World
<1>3. CASE Silent
  BY <1>3 DEF Silent, Starting
<1>4. CASE CommandSent
  BY <1>4 DEF CommandSent, SendCommand, Starting
<1>5. ASSUME NEW w, w.play = play, w.answers = answers, NEW id \in Sent, Replies(w, World', id)
      PROVE  answers'[NoJson] = answers[NoJson] /\ ~ Starting'
  <2>1. PICK answer \in {"OK", "NOK"} : answers' = [answers EXCEPT ![id] = Append(@, answer)]
    BY <1>2, <1>5 DEF Replies, Answered
  <2>2. answers'[NoJson] = answers[NoJson]
    BY <1>1, <2>1 DEF Answers
  <2> QED BY <1>2, <1>5, <2>2 DEF Replies, SamePending, Starting
<1>6. ASSUME NEW w, w.play = play, w.answers = answers, Keeps(w, World')
      PROVE  answers'[NoJson] = answers[NoJson] /\ ~ Starting'
  BY <1>2, <1>6 DEF Keeps, SamePending, Starting
<1>7. ASSUME NEW w, w.play = play, w.answers = answers, Finishes(w, World')
      PROVE  answers'[NoJson] = answers[NoJson] /\ ~ Starting'
  <2>1. play'.cmd = "UNKNOWN"
    BY <1>2, <1>7 DEF Finishes
  <2>2. CASE answers' = answers
    BY <2>1, <2>2 DEF Starting
  <2>3. CASE answers' # answers
    <3>1. play.cmd # "UNKNOWN" /\ Answered(w, World', play.data)
      BY <1>2, <1>7, <2>3 DEF Finishes
    <3>2. play.data \in Sent
      BY <1>1, <3>1 DEF Starting
    <3>3. PICK answer \in {"OK", "NOK"} : answers' = [answers EXCEPT ![play.data] = Append(@, answer)]
      BY <1>2, <1>7, <3>1 DEF Answered
    <3>4. answers'[NoJson] = answers[NoJson]
      BY <1>1, <3>2, <3>3 DEF Answers
    <3> QED BY <2>1, <3>4 DEF Starting
  <2> QED BY <2>2, <2>3
<1>8. CASE EventTaken
  <2>1. AfterTaking.play = play /\ AfterTaking.answers = answers /\ Outcome(AfterTaking, World')
    BY <1>8, TakenTyped DEF EventTaken
  <2> QED BY <1>1, <1>5, <1>6, <1>7, <2>1 DEF Outcome
<1>9. CASE CommandTaken
  <2>1. /\ AfterTaking.play = play /\ AfterTaking.answers = answers
        /\ Head(queue).id \in Sent /\ Taken(AfterTaking, World', Head(queue).id)
    BY <1>9, TakenTyped DEF CommandTaken
  <2>2. CASE Accepts(AfterTaking, World', Head(queue).id)
    BY <1>1, <1>2, <2>1, <2>2 DEF Accepts, Starting
  <2> QED BY <1>5, <1>6, <2>1, <2>2 DEF Taken
<1>10. CASE CommandFinished
  BY <1>1, <1>7, <1>10 DEF CommandFinished
<1> QED BY <1>3, <1>4, <1>8, <1>9, <1>10

\* For any startup media, playlists, commands and reports: only the startup itself
\* may be answered through a NULL dataOfCurrentCmd, and once it is settled a current
\* command always has its JSON event.
THEOREM NullOnlyForStartup == Spec => NullOnlyAtStartup
<1>1. TypeInv /\ [Next]_vars =>
        [/\ answers'[NoJson] # answers[NoJson] => Starting
         /\ Starting' => Starting]_vars
  BY StepKinds, StartedStep
<1> QED BY TypeInvariant, <1>1, PTL DEF Spec, NullOnlyAtStartup

----------------------------------------------------------------------------
(* The state the window believes in and the state HiPlayer is in.            *)

\* The elements of q that are in R: none, only e, only e and behind it f.
NoneOf(q, R) == \A i \in DOMAIN q : q[i] \notin R
JustOne(q, R, e) ==
    \E i \in DOMAIN q : q[i] = e /\ e \in R /\ \A j \in DOMAIN q : q[j] \in R => j = i
JustTwo(q, R, e, f) ==
    \E i, k \in DOMAIN q : /\ i < k /\ q[i] = e /\ q[k] = f /\ e \in R /\ f \in R
                           /\ \A j \in DOMAIN q : q[j] \in R => j \in {i, k}

\* In r they are the same as in q.
SamePicks(q, r, R) ==
    /\ NoneOf(q, R) => NoneOf(r, R)
    /\ \A e : JustOne(q, R, e) => JustOne(r, R, e)
    /\ \A e, f : JustTwo(q, R, e, f) => JustTwo(r, R, e, f)

\* What becomes of them when an element is appended,
LEMMA AppendPicks ==
    ASSUME NEW S, NEW q \in Seq(S), NEW R, NEW x \in S
    PROVE  /\ x \notin R => SamePicks(q, Append(q, x), R)
           /\ x \in R /\ NoneOf(q, R) => JustOne(Append(q, x), R, x)
           /\ \A e : x \in R /\ JustOne(q, R, e) => JustTwo(Append(q, x), R, e, x)
<1> DEFINE r == Append(q, x)
           n == Len(q)
<1>1. /\ n \in Nat /\ DOMAIN q = 1 .. n /\ DOMAIN r = 1 .. n + 1 /\ r[n + 1] = x
      /\ \A i \in 1 .. n : r[i] = q[i]
  OBVIOUS
<1> HIDE DEF r, n
<1>2. \A i \in DOMAIN r : (i \in DOMAIN q /\ r[i] = q[i]) \/ (i = n + 1 /\ r[i] = x)
  <2>1. \A i \in 1 .. n + 1 : i \in 1 .. n \/ i = n + 1
    BY <1>1
  <2> QED BY <1>1, <2>1
<1>3. \A i \in DOMAIN q : i \in DOMAIN r /\ r[i] = q[i] /\ i < n + 1
  BY <1>1
<1>4. x \notin R => SamePicks(q, r, R)
  <2> SUFFICES ASSUME x \notin R PROVE SamePicks(q, r, R)
    OBVIOUS
  <2>1. NoneOf(q, R) => NoneOf(r, R)
    BY <1>2 DEF NoneOf
  <2>2. ASSUME NEW e, JustOne(q, R, e) PROVE JustOne(r, R, e)
    BY <2>2, <1>2, <1>3 DEF JustOne
  <2>3. ASSUME NEW e, NEW f, JustTwo(q, R, e, f) PROVE JustTwo(r, R, e, f)
    BY <2>3, <1>2, <1>3 DEF JustTwo
  <2> QED BY <2>1, <2>2, <2>3 DEF SamePicks
<1>5. x \in R /\ NoneOf(q, R) => JustOne(r, R, x)
  BY <1>1, <1>2 DEF NoneOf, JustOne
<1>6. ASSUME NEW e, x \in R, JustOne(q, R, e) PROVE JustTwo(r, R, e, x)
  BY <1>1, <1>2, <1>3, <1>6 DEF JustOne, JustTwo
<1> QED BY <1>4, <1>5, <1>6 DEF r

\* and when the first one is taken.
LEMMA TailPicks ==
    ASSUME NEW S, NEW q \in Seq(S), q # <<>>, NEW R
    PROVE  /\ Head(q) \notin R => SamePicks(q, Tail(q), R)
           /\ NoneOf(q, R) => Head(q) \notin R
           /\ Head(q) \in R => /\ \A e : JustOne(q, R, e) => Head(q) = e /\ NoneOf(Tail(q), R)
                               /\ \A e, f : JustTwo(q, R, e, f) =>
                                                Head(q) = e /\ JustOne(Tail(q), R, f)
<1> DEFINE r == Tail(q)
           n == Len(q)
<1>1. /\ n \in Nat \ {0} /\ DOMAIN q = 1 .. n /\ DOMAIN r = 1 .. n - 1 /\ Head(q) = q[1]
      /\ \A i \in 1 .. n - 1 : r[i] = q[i + 1]
  OBVIOUS
<1> HIDE DEF r, n
<1>2. \A i \in DOMAIN r : i + 1 \in DOMAIN q /\ i + 1 # 1 /\ r[i] = q[i + 1] /\ i \in Int
  BY <1>1
<1>3. \A i \in DOMAIN q : i # 1 => i - 1 \in DOMAIN r /\ r[i - 1] = q[i]
  BY <1>1
<1>4. 1 \in DOMAIN q /\ DOMAIN q \subseteq Int /\ \A i \in DOMAIN q : i >= 1
  BY <1>1
<1>5. NoneOf(q, R) => Head(q) \notin R
  BY <1>1, <1>4 DEF NoneOf
<1>6. Head(q) \notin R => SamePicks(q, r, R)
  <2> SUFFICES ASSUME Head(q) \notin R PROVE SamePicks(q, r, R)
    OBVIOUS
  <2>1. NoneOf(q, R) => NoneOf(r, R)
    BY <1>2 DEF NoneOf
  <2>2. ASSUME NEW e, JustOne(q, R, e) PROVE JustOne(r, R, e)
    <3>1. PICK i \in DOMAIN q : q[i] = e /\ e \in R /\ \A j \in DOMAIN q : q[j] \in R => j = i
      BY <2>2 DEF JustOne
    <3>2. i - 1 \in DOMAIN r /\ r[i - 1] = e
      BY <1>1, <1>3, <3>1
    <3>3. ASSUME NEW j \in DOMAIN r, r[j] \in R PROVE j = i - 1
      BY <1>2, <1>4, <3>1, <3>3
    <3> QED BY <3>1, <3>2, <3>3 DEF JustOne
  <2>3. ASSUME NEW e, NEW f, JustTwo(q, R, e, f) PROVE JustTwo(r, R, e, f)
    <3>1. PICK i \in DOMAIN q, k \in DOMAIN q :
             /\ i < k /\ q[i] = e /\ q[k] = f /\ e \in R /\ f \in R
             /\ \A j \in DOMAIN q : q[j] \in R => j \in {i, k}
      BY <2>3 DEF JustTwo
    <3>2. /\ i - 1 \in DOMAIN r /\ r[i - 1] = e /\ k - 1 \in DOMAIN r /\ r[k - 1] = f
          /\ i - 1 < k - 1
      BY <1>1, <1>3, <1>4, <3>1
    <3>3. ASSUME NEW j \in DOMAIN r, r[j] \in R PROVE j \in {i - 1, k - 1}
      BY <1>2, <1>4, <3>1, <3>3
    <3> QED BY <3>1, <3>2, <3>3 DEF JustTwo
  <2> QED BY <2>1, <2>2, <2>3 DEF SamePicks
<1>7. ASSUME NEW e, Head(q) \in R, JustOne(q, R, e) PROVE Head(q) = e /\ NoneOf(r, R)
  BY <1>1, <1>2, <1>4, <1>7 DEF JustOne, NoneOf
<1>8. ASSUME NEW e, NEW f, Head(q) \in R, JustTwo(q, R, e, f)
      PROVE  Head(q) = e /\ JustOne(r, R, f)
  <2>1. PICK i \in DOMAIN q, k \in DOMAIN q :
           /\ i < k /\ q[i] = e /\ q[k] = f /\ e \in R /\ f \in R
           /\ \A j \in DOMAIN q : q[j] \in R => j \in {i, k}
    BY <1>8 DEF JustTwo
  <2>2. i = 1
    BY <1>1, <1>4, <1>8, <2>1
  <2>3. k - 1 \in DOMAIN r /\ r[k - 1] = f
    BY <1>3, <2>1, <2>2, <1>4
  <2>4. ASSUME NEW j \in DOMAIN r, r[j] \in R PROVE j = k - 1
    BY <1>2, <1>4, <2>1, <2>2, <2>4
  <2> QED BY <1>1, <2>1, <2>2, <2>3, <2>4 DEF JustOne
<1> QED BY <1>5, <1>6, <1>7, <1>8 DEF r

\* SamePicks composes.
LEMMA SamePicksReflexive == ASSUME NEW q, NEW R PROVE SamePicks(q, q, R)
BY DEF SamePicks

LEMMA SamePicksTransitive ==
    ASSUME NEW q, NEW r, NEW s, NEW R, SamePicks(q, r, R), SamePicks(r, s, R)
    PROVE  SamePicks(q, s, R)
BY DEF SamePicks

\* The events of this play that move the state machine, and the calls of
\* HiPlayer that have an effect of their own: a Stop can only come too late.
Reports(count) == [ev : {"STATE_CHANGED", "SOF", "SEEK_FINISHED", "IMAGE_OK"},
                   tag : {count}, val : HiStates]
Calls == HiRequest \ {"Stop"}

NoReport(w) == NoneOf(w.queue, Reports(w.play.count))
OnlyReport(w, e) == JustOne(w.queue, Reports(w.play.count), e)
NoCall(w) == NoneOf(w.hiReq, Calls)
OnlyCall(w, req) == NoReport(w) /\ JustOne(w.hiReq, Calls, req)
Moved(w, state) == Fsm("STATE_CHANGED", w.play.count, state)
Tells(w, ev) == OnlyReport(w, Fsm(ev, w.play.count, "STOP")) /\ NoCall(w)

\* The life of a play, as one token that is somewhere: in the player thread or a
\* SetMedia thread, in a call HiPlayer has still to serve, in an event of the
\* queue, or nowhere while the item goes on or nothing is left to play.  p is
\* where the player thread is, h the state of HiPlayer.
Halted(h) == h \in {"INIT", "STOP"}
Off(w, h) == w.play.fsm \in {"INIT", "STOP"} /\ Halted(h)
Free(w, p) == w.play.mediaThread = None /\ p \in {"idle", "OK"}

\* A stream is being opened.
Opening(w, p, h) ==
    /\ Off(w, h) /\ NoReport(w) /\ NoCall(w) /\ w.play.count > 0
    /\ \/ p = "setMedia" /\ w.play.mediaThread = None
       \/ p \in {"idle", "OK"} /\ w.play.mediaThread # None

\* HiPlayer has still to serve the Play.
Called(w, p, h) == Off(w, h) /\ Free(w, p) /\ OnlyCall(w, "Play")

\* HiPlayer plays, or has played, and the window does not know.
Reported(w, p, h) ==
    /\ w.play.fsm \in {"INIT", "STOP"} /\ Free(w, p) /\ NoCall(w)
    /\ \/ h = "PLAY" /\ OnlyReport(w, Moved(w, "PLAY"))
       \/ h = "STOP" /\ JustTwo(w.queue, Reports(w.play.count), Moved(w, "PLAY"), Moved(w, "STOP"))

\* The window plays, and HiPlayer does or has just stopped.
Playing(w, p, h) ==
    /\ w.play.fsm = "PLAY" /\ Free(w, p) /\ NoCall(w)
    /\ \/ h = "PLAY" /\ NoReport(w)
       \/ h = "STOP" /\ OnlyReport(w, Moved(w, "STOP"))

\* The stopped stream is rewound, then its end is reported.
Seeking(w, p, h) == w.play.fsm = "STOP" /\ Halted(h) /\ Free(w, p) /\ OnlyCall(w, "Seek")
Left(w, p, h) == w.play.fsm = "STOP" /\ Halted(h) /\ Free(w, p) /\ Tells(w, "SEEK_FINISHED")

\* An image is about to be shown, or is shown.
Showing(w, p, h) ==
    /\ Off(w, h) /\ w.play.mediaThread = None
    /\ \/ p \in {"idle", "OK"} /\ Tells(w, "IMAGE_OK")
       \/ p = "IMAGE_OK" /\ NoReport(w) /\ NoCall(w)
Image(w, p, h) ==
    w.play.fsm = "IMAGE" /\ Halted(h) /\ Free(w, p) /\ NoReport(w) /\ NoCall(w)

\* There is nothing left to play.
Ended(w, p, h) == Off(w, h) /\ Free(w, p) /\ NoReport(w) /\ NoCall(w)

\* Without a stream only these are met.
Still(w, p, h) == Showing(w, p, h) \/ Image(w, p, h) \/ Left(w, p, h) \/ Ended(w, p, h)
Phase(w, p, h) ==
    \/ Still(w, p, h) \/ Opening(w, p, h) \/ Called(w, p, h)
    \/ Reported(w, p, h) \/ Playing(w, p, h) \/ Seeking(w, p, h)

\* From w to x the token does not move.
Like(w, x) ==
    /\ x.play.fsm = w.play.fsm /\ x.play.mediaThread = w.play.mediaThread
    /\ x.play.count = w.play.count
    /\ SamePicks(w.queue, x.queue, Reports(w.play.count))
    /\ SamePicks(w.hiReq, x.hiReq, Calls)

\* Nor does the player thread, nor the list.
Alike(w, x) == Typed(x) /\ Like(w, x) /\ x.pc = w.pc /\ x.play.list = w.play.list

\* Where it is is the same before and after.
LEMMA LikePhase ==
    ASSUME NEW w, NEW x, Like(w, x), NEW p, NEW h
    PROVE  /\ Still(w, p, h) => Still(x, p, h)
           /\ Phase(w, p, h) => Phase(x, p, h)
<1>1. /\ NoReport(w) => NoReport(x)
      /\ \A e : OnlyReport(w, e) => OnlyReport(x, e)
      /\ \A e, f : JustTwo(w.queue, Reports(w.play.count), e, f)
                     => JustTwo(x.queue, Reports(x.play.count), e, f)
      /\ NoCall(w) => NoCall(x)
      /\ \A req : JustOne(w.hiReq, Calls, req) => JustOne(x.hiReq, Calls, req)
  BY DEF Like, NoReport, OnlyReport, NoCall, SamePicks
<1>2. /\ \A state : Moved(x, state) = Moved(w, state)
      /\ \A ev : Tells(w, ev) => Tells(x, ev)
      /\ \A req : OnlyCall(w, req) => OnlyCall(x, req)
      /\ Off(w, h) => Off(x, h)
      /\ Free(w, p) => Free(x, p)
  BY <1>1 DEF Like, Moved, Tells, OnlyCall, Off, Free
<1>3. /\ Showing(w, p, h) => Showing(x, p, h)
      /\ Image(w, p, h) => Image(x, p, h)
      /\ Left(w, p, h) => Left(x, p, h)
      /\ Ended(w, p, h) => Ended(x, p, h)
  BY <1>1, <1>2 DEF Like, Showing, Image, Left, Ended
<1>4. /\ Opening(w, p, h) => Opening(x, p, h)
      /\ Called(w, p, h) => Called(x, p, h)
      /\ Reported(w, p, h) => Reported(x, p, h)
      /\ Playing(w, p, h) => Playing(x, p, h)
      /\ Seeking(w, p, h) => Seeking(x, p, h)
  BY <1>1, <1>2 DEF Like, Opening, Called, Reported, Playing, Seeking
<1> QED BY <1>3, <1>4 DEF Still, Phase

\* Alike composes too.
LEMMA AlikeReflexive == ASSUME NEW w, Typed(w) PROVE Alike(w, w)
BY SamePicksReflexive DEF Alike, Like

LEMMA AlikeTransitive ==
    ASSUME NEW w, NEW x, NEW y, Alike(w, x), Alike(x, y) PROVE Alike(w, y)
BY SamePicksTransitive DEF Alike, Like

\* Fields the phases do not look at.
LEMMA FieldsAlike ==
    ASSUME NEW w, NEW x, Typed(x), x.queue = w.queue, x.hiReq = w.hiReq, x.pc = w.pc,
           x.play.fsm = w.play.fsm, x.play.mediaThread = w.play.mediaThread,
           x.play.count = w.play.count, x.play.list = w.play.list
    PROVE  Alike(w, x)
BY SamePicksReflexive DEF Alike, Like

\* Events that only the commands or nobody waits for leave the token alone.
LEMMA SendIs ==
    ASSUME NEW w, Typed(w), NEW ev \in FsmEvents
    PROVE  LET e == Fsm(ev, w.play.count, "STOP")
               x == Send(w, ev)
           IN  /\ Typed(x) /\ e \in Event /\ x.play = w.play /\ x.hiReq = w.hiReq /\ x.pc = w.pc
               /\ x.queue = w.queue \/ x.queue = Append(w.queue, e)
<1>1. Typed(Send(w, ev))
  BY SendKeeps DEF Keeps, Reaches
<1>2. Fsm(ev, w.play.count, "STOP") \in Event
  BY CountOf DEF Fsm, Event, HiStates
<1> QED BY <1>1, <1>2 DEF Send, Typed, WorldType

LEMMA SendAlike ==
    ASSUME NEW w, Typed(w), NEW ev \in {"TIMEOUT", "FAIL", "END", "OK"}
    PROVE  Alike(w, Send(w, ev))
<1> DEFINE e == Fsm(ev, w.play.count, "STOP")
           x == Send(w, ev)
<1>1. ev \in FsmEvents
  BY DEF FsmEvents
<1>2. /\ Typed(x) /\ e \in Event /\ x.play = w.play /\ x.hiReq = w.hiReq /\ x.pc = w.pc
      /\ x.queue = w.queue \/ x.queue = Append(w.queue, e)
  BY <1>1, SendIs
<1>3. e \notin Reports(w.play.count)
  BY DEF Fsm, Reports
<1> HIDE DEF e, x
<1>4. w.queue \in Seq(Event)
  BY DEF Typed, WorldType
<1>5. SamePicks(w.queue, x.queue, Reports(w.play.count))
  BY <1>2, <1>3, <1>4, AppendPicks, SamePicksReflexive
<1>6. SamePicks(w.hiReq, x.hiReq, Calls)
  BY <1>2, SamePicksReflexive
<1> QED BY <1>2, <1>5, <1>6 DEF Alike, Like, x

\* A call of HiPlayer is appended; a Stop leaves the token alone.
LEMMA HiCallIs ==
    ASSUME NEW w, Typed(w), NEW req \in HiRequest
    PROVE  LET x == HiCall(w, req)
           IN  /\ Typed(x) /\ x.play = w.play /\ x.queue = w.queue /\ x.pc = w.pc
               /\ x.hiReq = Append(w.hiReq, req) \/ (req = "Stop" /\ x.hiReq = w.hiReq)
<1> DEFINE r == Append(w.hiReq, req)
           y == [w EXCEPT !.hiReq = r]
<1>1. Typed(HiCall(w, req))
  BY HiCallKeeps DEF Keeps, Reaches
<1>2. HiCall(w, req) = y \/ (req = "Stop" /\ HiCall(w, req) = w)
  BY DEF HiCall
<1> HIDE DEF r
<1>3. y.play = w.play /\ y.queue = w.queue /\ y.pc = w.pc /\ y.hiReq = r
  BY DEF Typed, WorldType
<1> HIDE DEF y
<1> QED BY <1>1, <1>2, <1>3 DEF r

LEMMA StopPlayingAlike == ASSUME NEW w, Typed(w) PROVE Alike(w, StopPlaying(w))
<1> DEFINE x == HiCall(w, "Stop")
<1>1. /\ Typed(x) /\ x.play = w.play /\ x.queue = w.queue /\ x.pc = w.pc
      /\ x.hiReq = Append(w.hiReq, "Stop") \/ x.hiReq = w.hiReq
  BY HiCallIs DEF HiRequest
<1>2. w.hiReq \in Seq(HiRequest) /\ "Stop" \in HiRequest /\ "Stop" \notin Calls
  BY DEF Typed, WorldType, HiRequest, Calls
<1> HIDE DEF x
<1>3. SamePicks(w.hiReq, x.hiReq, Calls)
  BY <1>1, <1>2, AppendPicks, SamePicksReflexive
<1>4. SamePicks(w.queue, x.queue, Reports(w.play.count))
  BY <1>1, SamePicksReflexive
<1>5. Alike(w, x)
  BY <1>1, <1>3, <1>4 DEF Alike, Like
<1> QED BY <1>5, AlikeReflexive DEF StopPlaying, x

\* The play record changes in fields the phases do not look at.
LEMMA PlayAlike ==
    ASSUME NEW w, Typed(w), NEW p, Typed([w EXCEPT !.play = p]),
           p.fsm = w.play.fsm, p.mediaThread = w.play.mediaThread, p.count = w.play.count,
           p.list = w.play.list
    PROVE  Alike(w, [w EXCEPT !.play = p])
<1> DEFINE x == [w EXCEPT !.play = p]
<1>1. x.play = p /\ x.queue = w.queue /\ x.hiReq = w.hiReq /\ x.pc = w.pc
  BY DEF Typed, WorldType
<1> HIDE DEF x
<1>2. Typed(x)
  BY DEF x
<1>3. Alike(w, x)
  BY <1>1, <1>2, FieldsAlike
<1> QED BY <1>3 DEF x

LEMMA ReplyAlike ==
    ASSUME NEW w, Typed(w), NEW id \in Sent \cup {NoJson}, NEW answer \in {"OK", "NOK"}
    PROVE  Alike(w, Reply(w, id, answer))
<1> DEFINE a == [w.answers EXCEPT ![id] = Append(@, answer)]
           x == [w EXCEPT !.answers = a]
<1>1. Reply(w, id, answer) = x
  BY DEF Reply, Typed, WorldType
<1>2. Typed(Reply(w, id, answer))
  BY ReplyReplies DEF Replies, Reaches
<1> HIDE DEF a
<1>3. x.play = w.play /\ x.queue = w.queue /\ x.hiReq = w.hiReq /\ x.pc = w.pc
  BY DEF Typed, WorldType
<1> HIDE DEF x
<1> QED BY <1>1, <1>2, <1>3, FieldsAlike

LEMMA SetCurrentCmdAlike ==
    ASSUME NEW w, Typed(w), NEW cmd \in {"UNKNOWN", "OPEN", "STOP", "PAUSE", "RESUME"},
           NEW id \in Sent \cup {NoJson}
    PROVE  Alike(w, SetCurrentCmd(w, cmd, id))
<1> DEFINE p == [[w.play EXCEPT !.cmd = cmd] EXCEPT !.data = id]
<1>1. SetCurrentCmd(w, cmd, id) = [w EXCEPT !.play = p]
  BY DEF SetCurrentCmd, Typed, WorldType
<1>2. /\ p.fsm = w.play.fsm /\ p.mediaThread = w.play.mediaThread /\ p.count = w.play.count
      /\ p.list = w.play.list
  BY PlayOf DEF PlayRecord
<1>3. Typed(SetCurrentCmd(w, cmd, id))
  BY SetCurrentCmdReaches DEF Reaches
<1> HIDE DEF p
<1> QED BY <1>1, <1>2, <1>3, PlayAlike

LEMMA ClearAlike == ASSUME NEW w, Typed(w) PROVE Alike(w, ClearCurrentCmd(w))
BY SetCurrentCmdAlike DEF ClearCurrentCmd

LEMMA ReplyPendingAlike ==
    ASSUME NEW w, Typed(w), NEW answer \in {"OK", "NOK"} PROVE Alike(w, ReplyPending(w, answer))
<1> DEFINE x == IF w.play.data = NoJson THEN w ELSE Reply(w, w.play.data, answer)
<1>1. Alike(w, x)
  BY DataSent, ReplyAlike, AlikeReflexive
<1> HIDE DEF x
<1>2. Alike(x, ClearCurrentCmd(x))
  BY <1>1, ClearAlike DEF Alike
<1> QED BY <1>1, <1>2, AlikeTransitive DEF ReplyPending, x

LEMMA ForgetTimerAlike ==
    ASSUME NEW w, Typed(w) PROVE Alike(w, [w EXCEPT !.play.playTimer = None])
<1> DEFINE p == [w.play EXCEPT !.playTimer = None]
<1>1. [w EXCEPT !.play.playTimer = None] = [w EXCEPT !.play = p]
  BY DEF Typed, WorldType
<1>2. /\ p.fsm = w.play.fsm /\ p.mediaThread = w.play.mediaThread /\ p.count = w.play.count
      /\ p.list = w.play.list
  BY PlayOf DEF PlayRecord
<1>3. Typed([w EXCEPT !.play.playTimer = None])
  BY ForgetTimerKeeps DEF Keeps, Reaches
<1> HIDE DEF p
<1> QED BY <1>1, <1>2, <1>3, PlayAlike

LEMMA RemovePlayingTimerAlike == ASSUME NEW w, Typed(w) PROVE Alike(w, RemovePlayingTimer(w))
<1> DEFINE a == w.armed \ {Timer("play", w.play.playTimer)}
           x == [[w EXCEPT !.armed = a] EXCEPT !.changed = TRUE]
           y == [x EXCEPT !.play.playTimer = None]
<1>1. Typed(x)
  BY ArmedKeeps DEF Typed, WorldType, Keeps, Reaches
<1>2. x.play = w.play /\ x.queue = w.queue /\ x.hiReq = w.hiReq /\ x.pc = w.pc
  BY DEF Typed, WorldType
<1>3. RemovePlayingTimer(w) \in {w, y} /\ (RemovePlayingTimer(w) = w \/ RemovePlayingTimer(w) = y)
  BY DEF RemovePlayingTimer, RemoveTimer, Typed, WorldType
<1> HIDE DEF x
<1>4. Alike(w, x)
  BY <1>1, <1>2, FieldsAlike
<1>5. Alike(x, y)
  BY <1>1, ForgetTimerAlike
<1> HIDE DEF y
<1> QED BY <1>3, <1>4, <1>5, AlikeTransitive, AlikeReflexive

LEMMA StartPlayingTimerAlike == ASSUME NEW w, Typed(w) PROVE Alike(w, StartPlayingTimer(w))
<1> DEFINE n == w.play.countOfTimer + 1
           a == w.armed \cup {Timer("play", n)}
           p == [[w.play EXCEPT !.playTimer = n] EXCEPT !.countOfTimer = n]
           x == [[[w EXCEPT !.armed = a] EXCEPT !.changed = TRUE] EXCEPT !.play = p]
<1>1. Typed(StartPlayingTimer(w))
  BY StartPlayingTimerKeeps DEF Keeps, Reaches
<1>2. StartPlayingTimer(w) = w \/ StartPlayingTimer(w) = x
  BY DEF StartPlayingTimer, AddTimer, Typed, WorldType
<1> HIDE DEF n, a
<1>3. /\ p.fsm = w.play.fsm /\ p.mediaThread = w.play.mediaThread /\ p.count = w.play.count
      /\ p.list = w.play.list
  BY PlayOf DEF PlayRecord
<1> HIDE DEF p
<1>4. x.play = p /\ x.queue = w.queue /\ x.hiReq = w.hiReq /\ x.pc = w.pc
  BY DEF Typed, WorldType
<1> HIDE DEF x
<1> QED BY <1>1, <1>2, <1>3, <1>4, FieldsAlike, AlikeReflexive

LEMMA EnterHandlerAlike ==
    ASSUME NEW w, Typed(w), NEW state PROVE Alike(w, EnterHandler(w, state))
<1> DEFINE answer == IF w.play.cmd \in Welcome(state) THEN "OK" ELSE "NOK"
           r == Reply(w, w.play.data, answer)
<1>1. Alike(w, r)
  BY DataSent, ReplyAlike
<1>2. EnterHandler(w, state) \in {w, RemovePlayingTimer(w), ClearCurrentCmd(w), ClearCurrentCmd(r)}
  BY DEF EnterHandler
<1> HIDE DEF r
<1>3. Alike(w, ClearCurrentCmd(r))
  BY <1>1, ClearAlike, AlikeTransitive DEF Alike
<1> QED BY <1>2, <1>3, ClearAlike, RemovePlayingTimerAlike, AlikeReflexive

\* Entering a state changes fsm, and nothing else the phases look at.
LEMMA EnterIs ==
    ASSUME NEW w, Typed(w), Tidy(w), NEW state \in FsmStates
    PROVE  LET x == Enter(w, state)
           IN  /\ Typed(x) /\ x.play.fsm = state /\ x.pc = w.pc /\ x.play.list = w.play.list
               /\ x.play.mediaThread = w.play.mediaThread /\ x.play.count = w.play.count
               /\ SamePicks(w.queue, x.queue, Reports(w.play.count))
               /\ SamePicks(w.hiReq, x.hiReq, Calls)
<1> DEFINE y == EnterHandler(w, state)
           z == [y EXCEPT !.play.fsm = state]
<1>1. Typed(Enter(w, state))
  BY EnterKeepsOrFinishes DEF Keeps, Finishes, Reaches
<1>2. CASE state = w.play.fsm
  BY <1>1, <1>2, SamePicksReflexive DEF Enter
<1>3. CASE state # w.play.fsm
  <2>1. Enter(w, state) = z
    BY <1>3 DEF Enter
  <2>2. Alike(w, y)
    BY EnterHandlerAlike
  <2> HIDE DEF y
  <2>3. y.play \in PlayRecord /\ Typed(y)
    BY <2>2, PlayOf DEF Alike
  <2>4. /\ z.play.fsm = state /\ z.play.list = y.play.list /\ z.play.count = y.play.count
        /\ z.play.mediaThread = y.play.mediaThread
        /\ z.pc = y.pc /\ z.queue = y.queue /\ z.hiReq = y.hiReq
    BY <2>3 DEF Typed, WorldType, PlayRecord
  <2> HIDE DEF z
  <2> QED BY <1>1, <2>1, <2>2, <2>4 DEF Alike, Like
<1> QED BY <1>2, <1>3

\* The list changes with InitCurrentPlaylist, the token does not move.
LEMMA InitCurrentPlaylistLike ==
    ASSUME NEW w, Typed(w), NEW media \in DOMAIN Media, NEW repeatNumber \in Nat \cup {-1}
    PROVE  LET x == InitCurrentPlaylist(w, media, repeatNumber)
           IN  Typed(x) /\ Like(w, x) /\ x.pc = w.pc /\ x.play.list = media
<1> DEFINE r == IF repeatNumber >= 0 THEN repeatNumber ELSE IF media \in Playlists THEN 0 ELSE 1
           p == [[[[[w.play EXCEPT !.list = media] EXCEPT !.index = 1] EXCEPT !.round = 0]
                    EXCEPT !.speed = SpeedDefault] EXCEPT !.repeat = r]
           x == [w EXCEPT !.play = p]
<1>1. Typed(InitCurrentPlaylist(w, media, repeatNumber))
  BY InitCurrentPlaylistKeeps DEF Keeps, Reaches
<1>2. InitCurrentPlaylist(w, media, repeatNumber) = x
  BY DEF InitCurrentPlaylist, Typed, WorldType
<1> HIDE DEF r
<1>3. /\ p.fsm = w.play.fsm /\ p.mediaThread = w.play.mediaThread /\ p.count = w.play.count
      /\ p.list = media
  BY PlayOf DEF PlayRecord
<1> HIDE DEF p
<1>4. x.play = p /\ x.queue = w.queue /\ x.hiReq = w.hiReq /\ x.pc = w.pc
  BY DEF Typed, WorldType
<1> HIDE DEF x
<1> QED BY <1>1, <1>2, <1>3, <1>4, SamePicksReflexive DEF Like

LEMMA UpdateCurrentPlaylistAlike ==
    ASSUME NEW w, Typed(w), ListHasMore(w) \/ Unlimited(w) \/ RoundsLeft(w)
    PROVE  Alike(w, UpdateCurrentPlaylist(w))
<1> DEFINE p == [w.play EXCEPT !.index = @ + 1]
           q == [[w.play EXCEPT !.index = 1] EXCEPT !.round = @ + 1]
           x == UpdateCurrentPlaylist(w)
<1>1. Typed(x)
  BY UpdateCurrentPlaylistKeeps DEF Keeps, Reaches
<1>2. w.play \in PlayRecord
  BY PlayOf
<1>3. \/ x = [w EXCEPT !.play = p] \/ x = [w EXCEPT !.play = q]
      \/ x = InitCurrentPlaylist(w, w.play.list, w.play.repeat)
  BY <1>2 DEF UpdateCurrentPlaylist, Typed, WorldType, PlayRecord
<1>4. \A s \in {p, q} : /\ s.fsm = w.play.fsm /\ s.mediaThread = w.play.mediaThread
                        /\ s.count = w.play.count /\ s.list = w.play.list
  BY <1>2 DEF PlayRecord
<1>5. w.play.list \in DOMAIN Media /\ w.play.repeat \in Nat
  BY <1>2 DEF PlayRecord
<1> HIDE DEF p, q, x
<1>6. x = InitCurrentPlaylist(w, w.play.list, w.play.repeat) => Alike(w, x)
  BY <1>5, InitCurrentPlaylistLike DEF Alike
<1> QED BY <1>1, <1>3, <1>4, <1>6, PlayAlike DEF x

\* The events of the plays so far do not count for the next.
LEMMA Renumbered ==
    ASSUME NEW q \in Seq(Event), NEW count \in Nat, QueueOK(q, count)
    PROVE  NoneOf(q, Reports(count + 1))
<1>1. ASSUME NEW i \in DOMAIN q, q[i] \in Reports(count + 1) PROVE FALSE
  <2>1. q[i].ev # "JSON" /\ q[i].tag = count + 1
    BY <1>1 DEF Reports
  <2>2. q[i].tag <= count
    BY <2>1 DEF QueueOK
  <2> QED BY <2>1, <2>2
<1> QED BY <1>1 DEF NoneOf

\* What is played next: an image, a stream that has to be opened, or nothing.
LEMMA PlayCurrentPhase ==
    ASSUME NEW w, Typed(w), NEW h, Off(w, h), w.play.mediaThread = None, w.pc = "idle", NoCall(w)
    PROVE  LET x == PlayCurrent(w)
           IN  /\ Typed(x) /\ x.play.list = w.play.list
               /\ \/ x = w
                  \/ Still(x, x.pc, h)
                  \/ Opening(x, x.pc, h) /\ CurrentItem(w).kind \in {"stream", "dead"}
<1> DEFINE x == PlayCurrent(w)
           p == [w.play EXCEPT !.count = @ + 1]
           next == [w EXCEPT !.play = p]
           s == [next.play EXCEPT !.mediaState = "INIT"]
           open == [[next EXCEPT !.play = s] EXCEPT !.pc = "setMedia"]
<1>1. w.play \in PlayRecord /\ PlaylistOK(w.play) /\ w.play.count \in Nat
  BY PlayOf, CountOf
<1>2. /\ p \in PlayRecord /\ p.count = w.play.count + 1 /\ p.fsm = w.play.fsm
      /\ p.mediaThread = w.play.mediaThread /\ p.list = w.play.list
      /\ p.cmd = w.play.cmd /\ p.data = w.play.data
  BY <1>1 DEF PlayRecord
<1>3. PlaylistOK(p) /\ p.count >= w.play.count
  BY <1>1, <1>2 DEF PlayRecord, PlaylistOK
<1>4. CurrentItem(w).kind \in Kinds
  <2>1. w.play.list \in DOMAIN Media /\ w.play.index \in DOMAIN Media[w.play.list]
    BY <1>1 DEF PlayRecord, PlaylistOK
  <2>2. Media[w.play.list][w.play.index] \in [kind : Kinds, timed : BOOLEAN]
    BY <2>1, Item, ElementIn
  <2> QED BY <2>2 DEF CurrentItem
<1>5. next = [w EXCEPT !.play.count = @ + 1]
  OBVIOUS
<1>6. /\ CurrentItem(w).kind = "remoteImage" => x = w
      /\ CurrentItem(w).kind = "image" => x = Send(next, "IMAGE_OK")
      /\ CurrentItem(w).kind = "badImage" => x = Send(next, "FAIL")
      /\ CurrentItem(w).kind \in {"stream", "dead"}
           => x = [next EXCEPT !.play.mediaState = "INIT", !.pc = "setMedia"]
  BY <1>5 DEF PlayCurrent
<1>7. Typed(x)
  BY PlayCurrentKeeps DEF Keeps, Reaches
<1> HIDE DEF p, x
<1>8. Typed(next)
  BY <1>1, <1>2, <1>3, PlayKeeps DEF Keeps, Reaches
<1>9. next.play = p /\ next.queue = w.queue /\ next.hiReq = w.hiReq /\ next.pc = "idle"
  BY DEF Typed, WorldType
<1> HIDE DEF next
<1>10. NoReport(next) /\ NoCall(next) /\ Off(next, h) /\ next.play.mediaThread = None
  <2>1. w.queue \in Seq(Event) /\ QueueOK(w.queue, w.play.count)
    BY DEF Typed, WorldType
  <2>2. NoneOf(w.queue, Reports(w.play.count + 1))
    BY <1>1, <2>1, Renumbered
  <2> QED BY <1>2, <1>9, <2>2 DEF NoReport, NoCall, Off
<1>11. Still(next, "idle", h)
  BY <1>10 DEF Still, Ended, Free
<1>12. CASE CurrentItem(w).kind = "image"
  <2> DEFINE e == Fsm("IMAGE_OK", next.play.count, "STOP")
  <2>1. /\ e \in Event /\ x.play = next.play /\ x.hiReq = next.hiReq /\ x.pc = "idle"
        /\ x.queue = next.queue \/ x.queue = Append(next.queue, e)
    BY <1>6, <1>8, <1>9, <1>12, SendIs DEF FsmEvents
  <2>2. e \in Reports(next.play.count)
    BY DEF Fsm, Reports, HiStates
  <2> HIDE DEF e
  <2>3. CASE x.queue = next.queue
    <3>1. Like(next, x)
      BY <2>1, <2>3, SamePicksReflexive DEF Like
    <3>2. Still(x, "idle", h)
      BY <1>11, <3>1, LikePhase
    <3> QED BY <1>2, <1>7, <1>9, <2>1, <3>2 DEF x
  <2>4. CASE x.queue = Append(next.queue, e)
    <3>1. next.queue \in Seq(Event)
      BY <1>8 DEF Typed, WorldType
    <3>2. JustOne(x.queue, Reports(next.play.count), e)
      BY <1>10, <2>1, <2>2, <2>4, <3>1, AppendPicks DEF NoReport
    <3>3. Tells(x, "IMAGE_OK")
      BY <1>10, <2>1, <3>2 DEF Tells, OnlyReport, NoCall, e
    <3>4. Showing(x, "idle", h)
      BY <1>10, <2>1, <3>3 DEF Showing, Off
    <3> QED BY <1>2, <1>7, <1>9, <2>1, <3>4 DEF Still, x
  <2> QED BY <2>1, <2>3, <2>4
<1>13. CASE CurrentItem(w).kind = "badImage"
  <2>1. Alike(next, x)
    BY <1>6, <1>8, <1>13, SendAlike
  <2>2. Still(x, "idle", h)
    BY <1>11, <2>1, LikePhase DEF Alike
  <2> QED BY <1>2, <1>7, <1>9, <2>1, <2>2 DEF Alike, x
<1>14. CASE CurrentItem(w).kind \in {"stream", "dead"}
  <2>1. next.play \in PlayRecord
    BY <1>8, PlayOf
  <2>2. x = open
    BY <1>6, <1>8, <1>14 DEF Typed, WorldType
  <2>3. /\ s.fsm = next.play.fsm /\ s.mediaThread = next.play.mediaThread
        /\ s.count = next.play.count /\ s.list = next.play.list
    BY <2>1 DEF PlayRecord
  <2> HIDE DEF s
  <2>4. open.play = s /\ open.queue = next.queue /\ open.hiReq = next.hiReq /\ open.pc = "setMedia"
    BY <1>8 DEF Typed, WorldType
  <2> HIDE DEF open
  <2>5. x.play.count > 0
    BY <1>1, <1>2, <1>9, <2>2, <2>3, <2>4
  <2>6. NoReport(x) /\ NoCall(x) /\ Off(x, h) /\ x.play.mediaThread = None
    BY <1>10, <2>2, <2>3, <2>4 DEF NoReport, NoCall, Off
  <2>7. Opening(x, x.pc, h)
    BY <2>2, <2>4, <2>5, <2>6 DEF Opening
  <2> QED BY <1>2, <1>7, <1>9, <1>14, <2>2, <2>3, <2>4, <2>7 DEF x
<1> QED BY <1>4, <1>6, <1>7, <1>12, <1>13, <1>14 DEF Kinds, x

\* The media configured for startup are images.
StartsWithImagesOnly ==
    \A i \in DOMAIN Media[StartMedia] : Media[StartMedia][i].kind \notin {"stream", "dead"}

\* Where the token goes when the window plays on by itself.
LEMMA PlayNextPhase ==
    ASSUME NEW w, Typed(w), NEW h, Ended(w, "idle", h), w.pc = "idle"
    PROVE  LET x == PlayNext(w)
           IN  /\ x.play.list = w.play.list /\ Phase(x, x.pc, h)
               /\ StartsWithImagesOnly /\ w.play.list = StartMedia => Still(x, x.pc, h)
<1> DEFINE x == PlayNext(w)
           u == UpdateCurrentPlaylist(w)
<1>1. CASE ListHasMore(w) \/ Unlimited(w) \/ RoundsLeft(w)
  <2>1. Alike(w, u) /\ x = PlayCurrent(u)
    BY <1>1, UpdateCurrentPlaylistAlike DEF PlayNext
  <2> HIDE DEF u, x
  <2>2. Still(u, "idle", h)
    BY <2>1, LikePhase DEF Alike, Still
  <2>3. /\ Typed(u) /\ u.play.list = w.play.list /\ u.pc = "idle" /\ u.play.mediaThread = None
        /\ Off(u, h) /\ NoCall(u)
    BY <2>1 DEF Alike, Like, Ended, Free, Off, NoCall, SamePicks
  <2>4. /\ x.play.list = u.play.list
        /\ \/ x = u \/ Still(x, x.pc, h)
           \/ Opening(x, x.pc, h) /\ CurrentItem(u).kind \in {"stream", "dead"}
    BY <2>1, <2>3, PlayCurrentPhase
  <2>5. StartsWithImagesOnly /\ w.play.list = StartMedia => CurrentItem(u).kind \notin {"stream", "dead"}
    <3>1. u.play.index \in DOMAIN Media[u.play.list]
      BY <2>3, PlayOf DEF PlaylistOK
    <3> QED BY <2>3, <3>1 DEF StartsWithImagesOnly, CurrentItem
  <2> QED BY <2>2, <2>3, <2>4, <2>5 DEF Phase, x
<1>2. CASE ~ (ListHasMore(w) \/ Unlimited(w) \/ RoundsLeft(w))
  <2>1. Alike(w, x)
    BY <1>2, StopPlayingAlike DEF PlayNext
  <2> HIDE DEF x
  <2>2. Still(x, "idle", h) /\ x.pc = "idle"
    BY <2>1, LikePhase DEF Alike, Still
  <2> QED BY <2>1, <2>2 DEF Alike, Phase, x
<1> QED BY <1>1, <1>2

\* The handlers of the commands wait in no other place than these two.
LEMMA OkPhase ==
    ASSUME NEW w, NEW h
    PROVE  /\ Phase(w, "idle", h) <=> Phase(w, "OK", h)
           /\ Still(w, "idle", h) <=> Still(w, "OK", h)
<1>1. Free(w, "idle") <=> Free(w, "OK")
  BY DEF Free
<1>2. /\ Showing(w, "idle", h) <=> Showing(w, "OK", h)
      /\ Image(w, "idle", h) <=> Image(w, "OK", h)
      /\ Left(w, "idle", h) <=> Left(w, "OK", h)
      /\ Ended(w, "idle", h) <=> Ended(w, "OK", h)
  BY <1>1 DEF Showing, Image, Left, Ended
<1>3. /\ Opening(w, "idle", h) <=> Opening(w, "OK", h)
      /\ Called(w, "idle", h) <=> Called(w, "OK", h)
      /\ Reported(w, "idle", h) <=> Reported(w, "OK", h)
      /\ Playing(w, "idle", h) <=> Playing(w, "OK", h)
      /\ Seeking(w, "idle", h) <=> Seeking(w, "OK", h)
  BY <1>1 DEF Opening, Called, Reported, Playing, Seeking
<1> QED BY <1>2, <1>3 DEF Still, Phase

\* With one command the window is never paused and never runs at another speed.
LEMMA PhaseStates ==
    ASSUME NEW w, NEW p, NEW h, Phase(w, p, h)
    PROVE  /\ w.play.fsm \in {"INIT", "STOP", "PLAY", "IMAGE"} /\ h \in {"INIT", "STOP", "PLAY"}
           /\ w.play.fsm = "IMAGE" => Image(w, p, h)
           /\ p = "setMedia" => Opening(w, p, h)
           /\ p = "IMAGE_OK" => Showing(w, p, h)
<1>1. CASE Still(w, p, h)
  BY <1>1 DEF Still, Showing, Image, Left, Ended, Off, Halted, Free
<1>2. CASE Opening(w, p, h) \/ Called(w, p, h) \/ Seeking(w, p, h)
  BY <1>2 DEF Opening, Called, Seeking, Off, Halted, Free
<1>3. CASE Reported(w, p, h) \/ Playing(w, p, h)
  BY <1>3 DEF Reported, Playing, Free
<1> QED BY <1>1, <1>2, <1>3 DEF Phase

\* What a handler may do to the token, and what it does before the first command
\* when the media of the startup are images.
StartList(w) == StartsWithImagesOnly /\ w.play.list = StartMedia /\ w.play.data = NoJson
Lands(w, x, h) ==
    /\ Phase(x, x.pc, h)
    /\ StartList(w) /\ Still(w, "idle", h) => Still(x, x.pc, h) /\ x.play.list = StartMedia

LEMMA AlikeLands ==
    ASSUME NEW w, NEW x, NEW h, Alike(w, x), w.pc = "idle", Phase(w, "idle", h)
    PROVE  Lands(w, x, h)
BY LikePhase DEF Alike, Lands, StartList

LEMMA LeaveImageLands ==
    ASSUME NEW w, Typed(w), Tidy(w), w.pc = "idle", NEW h, Image(w, "idle", h)
    PROVE  Lands(w, LeaveImage(w), h)
<1> DEFINE e == Fsm("SEEK_FINISHED", w.play.count, "STOP")
           u == Send(w, "SEEK_FINISHED")
           x == Enter(u, "STOP")
<1>1. /\ Typed(u) /\ e \in Event /\ u.play = w.play /\ u.hiReq = w.hiReq /\ u.pc = "idle"
      /\ u.queue = w.queue \/ u.queue = Append(w.queue, e)
  BY SendIs DEF FsmEvents
<1>2. e \in Reports(w.play.count)
  BY DEF Fsm, Reports, HiStates
<1> HIDE DEF e, u
<1>3. Tidy(u)
  BY <1>1 DEF Tidy
<1>4. /\ x.play.fsm = "STOP" /\ x.pc = "idle" /\ x.play.list = w.play.list
      /\ x.play.mediaThread = w.play.mediaThread /\ x.play.count = w.play.count
      /\ SamePicks(u.queue, x.queue, Reports(w.play.count))
      /\ SamePicks(w.hiReq, x.hiReq, Calls)
  BY <1>1, <1>3, EnterIs DEF FsmStates
<1> HIDE DEF x
<1>5. Free(x, "idle") /\ NoCall(x) /\ Halted(h) /\ NoReport(w)
  BY <1>4 DEF Image, Free, NoCall, SamePicks
<1>6. ASSUME u.queue = w.queue PROVE Still(x, "idle", h)
  <2>1. NoReport(x)
    BY <1>4, <1>5, <1>6 DEF NoReport, SamePicks
  <2> QED BY <1>4, <1>5, <2>1 DEF Ended, Off, Still
<1>7. ASSUME u.queue = Append(w.queue, e) PROVE Still(x, "idle", h)
  <2>1. w.queue \in Seq(Event)
    BY DEF Typed, WorldType
  <2>2. JustOne(u.queue, Reports(w.play.count), e)
    BY <1>1, <1>2, <1>5, <1>7, <2>1, AppendPicks DEF NoReport
  <2>3. Tells(x, "SEEK_FINISHED")
    BY <1>4, <1>5, <2>2 DEF Tells, OnlyReport, SamePicks, e
  <2> QED BY <1>4, <1>5, <2>3 DEF Left, Still
<1>8. Still(x, "idle", h)
  BY <1>1, <1>6, <1>7
<1> QED BY <1>4, <1>8 DEF Lands, StartList, Phase, LeaveImage, x, u

\* Timeouts, failures, ends and OKs: only an image that is left moves the token.
LEMMA PlainEventLands ==
    ASSUME NEW w, Typed(w), Tidy(w), w.pc = "idle", NEW h, Phase(w, "idle", h),
           NEW e, e.ev \in {"TIMEOUT", "FAIL", "END", "OK"}
    PROVE  Lands(w, HandleFsmEvent(w, e), h)
<1> DEFINE x == HandleFsmEvent(w, e)
           f == [w EXCEPT !.play.playTimer = None]
<1>1. Alike(w, f) /\ Typed(f) /\ Tidy(f) /\ f.pc = "idle"
  <2>1. Alike(w, f) /\ Keeps(w, f)
    BY ForgetTimerAlike, ForgetTimerKeeps
  <2> QED BY <2>1 DEF Alike, Keeps, SamePending, Tidy
<1>2. w.play.fsm \in {"INIT", "STOP", "PLAY", "IMAGE"}
      /\ (w.play.fsm = "IMAGE" => Image(w, "idle", h))
  BY PhaseStates
<1>3. f.play.data = w.play.data
  BY ForgetTimerKeeps DEF Keeps, SamePending
<1> HIDE DEF f
<1>4. w.play.fsm = "IMAGE" => Lands(w, LeaveImage(w), h) /\ Lands(w, LeaveImage(f), h)
  <2> SUFFICES ASSUME w.play.fsm = "IMAGE"
               PROVE  Lands(w, LeaveImage(w), h) /\ Lands(w, LeaveImage(f), h)
    OBVIOUS
  <2>1. Image(w, "idle", h) /\ Phase(f, "idle", h) /\ f.play.fsm = "IMAGE"
    BY <1>1, <1>2, LikePhase DEF Alike, Like
  <2>2. Image(f, "idle", h)
    BY <2>1, PhaseStates
  <2>3. Lands(f, LeaveImage(f), h) /\ Still(f, "idle", h)
    BY <1>1, <2>2, LeaveImageLands DEF Still
  <2>4. StartList(w) => StartList(f)
    BY <1>1, <1>3 DEF StartList, Alike
  <2> QED BY <2>1, <2>3, <2>4, LeaveImageLands DEF Lands
<1>5. CASE e.ev = "TIMEOUT"
  <2>1. x = CASE w.play.fsm = "IMAGE" -> LeaveImage(f)
              [] w.play.fsm = "PLAY"  -> StopPlaying(f)
              [] w.play.fsm \in {"INIT", "STOP"} -> w
              [] OTHER -> PlayNext(w)
    BY <1>5 DEF HandleFsmEvent, OnTimeout, f
  <2> HIDE DEF x
  <2>2. Alike(w, StopPlaying(f)) /\ Alike(w, w)
    BY <1>1, StopPlayingAlike, AlikeTransitive, AlikeReflexive
  <2>3. x = w \/ x = StopPlaying(f) \/ (w.play.fsm = "IMAGE" /\ x = LeaveImage(f))
    BY <1>2, <2>1
  <2>4. Lands(w, x, h)
    BY <1>4, <2>2, <2>3, AlikeLands
  <2> QED BY <2>4 DEF x
<1>6. CASE e.ev = "END"
  <2>1. x = StopPlaying(w) \/ (w.play.fsm = "IMAGE" /\ x = LeaveImage(w))
    BY <1>6 DEF HandleFsmEvent, OnEnd
  <2> QED BY <1>4, <2>1, StopPlayingAlike, AlikeLands
<1>7. CASE e.ev = "FAIL"
  <2>1. x = ReplyPending(w, "NOK")
    BY <1>7 DEF HandleFsmEvent, OnFail
  <2> QED BY <2>1, ReplyPendingAlike, AlikeLands
<1>8. CASE e.ev = "OK"
  <2> DEFINE y == [w EXCEPT !.pc = "OK"]
  <2>1. x = y
    BY <1>8 DEF HandleFsmEvent, OnOk
  <2>2. y.play = w.play /\ y.queue = w.queue /\ y.hiReq = w.hiReq /\ y.pc = "OK"
    BY DEF Typed, WorldType
  <2> HIDE DEF y, x
  <2>3. Like(w, y)
    BY <2>2, SamePicksReflexive DEF Like
  <2>4. Phase(y, "OK", h) /\ (Still(w, "idle", h) => Still(y, "OK", h))
    BY <2>3, LikePhase, OkPhase
  <2>5. Lands(w, y, h)
    BY <2>2, <2>4 DEF Lands, StartList
  <2> QED BY <2>1, <2>5 DEF x
<1> QED BY <1>5, <1>6, <1>7, <1>8

LEMMA PlayAskedPhase ==
    ASSUME NEW w, Typed(w), NEW h, Off(w, h), w.play.mediaThread = None, w.pc = "idle", NoCall(w),
           Phase(w, "idle", h), NEW id \in Sent
    PROVE  LET x == PlayAsked(w, id)
           IN  Typed(x) /\ Phase(x, x.pc, h)
<1> DEFINE u == InitCurrentPlaylist(w, requests[id].media, requests[id].repeat)
           x == PlayAsked(w, id)
<1>1. Typed(u) /\ Like(w, u) /\ u.pc = "idle"
  BY CommandFields, InitCurrentPlaylistLike DEF Typed
<1>2. x = PlayCurrent(u)
  BY DEF PlayAsked, PlayMedia
<1> HIDE DEF u, x
<1>3. Phase(u, "idle", h) /\ Off(u, h) /\ u.play.mediaThread = None /\ NoCall(u)
  BY <1>1, LikePhase DEF Like, Off, NoCall, SamePicks
<1>4. Typed(x) /\ (x = u \/ Still(x, x.pc, h) \/ Opening(x, x.pc, h))
  BY <1>1, <1>2, <1>3, PlayCurrentPhase
<1>5. Typed(x) /\ Phase(x, x.pc, h)
  BY <1>1, <1>3, <1>4 DEF Phase
<1> QED BY <1>5 DEF x

\* After a stop the window plays on, or plays what the pending command asks for.
LEMMA PlayRestartLands ==
    ASSUME NEW w, Typed(w), Tidy(w), w.pc = "idle", NEW h, Ended(w, "idle", h)
    PROVE  Lands(w, PlayRestart(w), h)
<1>1. /\ Phase(w, "idle", h) /\ Off(w, h) /\ w.play.mediaThread = None /\ NoCall(w)
  BY DEF Phase, Still, Ended, Free
<1>2. CASE w.play.data = NoJson
  BY <1>2, PlayNextPhase DEF PlayRestart, Lands, StartList
<1>3. CASE w.play.data # NoJson /\ w.play.cmd = "OPEN"
  <2> DEFINE x == PlayAsked(w, w.play.data)
             r == Reply(x, w.play.data, "NOK")
  <2>1. Typed(x) /\ Phase(x, x.pc, h) /\ w.play.data \in Sent
    BY <1>1, <1>3, DataSent, PlayAskedPhase
  <2>2. PlayRestart(w) = x \/ PlayRestart(w) = r
    BY <1>3 DEF PlayRestart
  <2> HIDE DEF x
  <2>3. Alike(x, r)
    BY <2>1, ReplyAlike
  <2> HIDE DEF r
  <2>4. Phase(r, r.pc, h)
    BY <2>1, <2>3, LikePhase DEF Alike
  <2> QED BY <1>3, <2>1, <2>2, <2>4 DEF Lands, StartList
<1>4. CASE w.play.data # NoJson /\ w.play.cmd = "STOP"
  <2>1. PlayRestart(w) = ReplyPending(w, "OK")
    BY <1>4 DEF PlayRestart
  <2> QED BY <1>1, <2>1, ReplyPendingAlike, AlikeLands
<1>5. CASE w.play.data # NoJson /\ w.play.cmd \notin {"OPEN", "STOP"}
  BY <1>1, <1>5, AlikeReflexive, AlikeLands DEF PlayRestart
<1> QED BY <1>2, <1>3, <1>4, <1>5

\* What the taking of an event leaves.
LEMMA AfterTakingIs ==
    ASSUME TypeInv, queue # <<>>
    PROVE  /\ Typed(AfterTaking) /\ Tidy(AfterTaking) /\ AfterTaking.play = play
           /\ AfterTaking.queue = Tail(queue) /\ AfterTaking.hiReq = hiReq
           /\ AfterTaking.pc = "idle" /\ Head(queue) \in Event
<1>1. AfterTaking.hiReq = hiReq
  BY WorldFieldsOf DEF AfterTaking, World
<1> QED BY <1>1, TakenTyped, WorldFieldsOf DEF Tidy

\* The events that move the token, each in the phase that waits for it.
LEMMA ReportLands ==
    ASSUME TypeInv, queue # <<>>, Head(queue) \in Reports(play.count), Phase(World, "idle", hi)
    PROVE  /\ Head(queue).ev \in Handled(play.fsm)
           /\ Lands(World, HandleFsmEvent(AfterTaking, Head(queue)), hi)
<1> DEFINE v == AfterTaking
           e == Head(queue)
           R == Reports(play.count)
           x == HandleFsmEvent(v, e)
<1>1. /\ Typed(v) /\ Tidy(v) /\ v.play = play /\ v.queue = Tail(queue) /\ v.hiReq = hiReq
      /\ v.pc = "idle" /\ queue \in Seq(Event)
  BY AfterTakingIs, WorldFieldsOf
<1>2. World.play = play /\ World.queue = queue /\ World.hiReq = hiReq
  BY WorldFieldsOf
<1>3. /\ ~ NoneOf(queue, R)
      /\ \A f : JustOne(queue, R, f) => e = f /\ NoneOf(Tail(queue), R)
      /\ \A f, g : JustTwo(queue, R, f, g) => e = f /\ JustOne(Tail(queue), R, g)
  BY <1>1, TailPicks
<1>4. StartList(World) <=> StartList(v)
  BY <1>1, <1>2 DEF StartList
<1> HIDE DEF v, e, R
<1>5. \/ Showing(World, "idle", hi) \/ Left(World, "idle", hi)
      \/ Reported(World, "idle", hi) \/ Playing(World, "idle", hi)
  BY <1>2, <1>3 DEF Phase, Still, Image, Ended, Opening, Called, Seeking, OnlyCall, NoReport, R
<1>6. CASE Showing(World, "idle", hi)
  <2>1. e = Fsm("IMAGE_OK", play.count, "STOP") /\ NoneOf(Tail(queue), R) /\ NoneOf(hiReq, Calls)
        /\ play.fsm \in {"INIT", "STOP"} /\ Halted(hi) /\ play.mediaThread = None
    BY <1>2, <1>3, <1>6 DEF Showing, Tells, OnlyReport, NoCall, Off, R
  <2>2. e.ev = "IMAGE_OK" /\ e.ev \in Handled(play.fsm)
    BY <2>1 DEF Fsm, Handled, FsmEvents
  <2> DEFINE y == [v EXCEPT !.pc = "IMAGE_OK"]
  <2>3. x = y
    BY <2>2 DEF HandleFsmEvent, OnOk
  <2>4. y.play = play /\ y.queue = Tail(queue) /\ y.hiReq = hiReq /\ y.pc = "IMAGE_OK"
    BY <1>1 DEF Typed, WorldType
  <2> HIDE DEF x, y
  <2>5. Showing(y, "IMAGE_OK", hi)
    BY <2>1, <2>4 DEF Showing, Off, NoReport, NoCall, R
  <2>6. Lands(World, y, hi)
    BY <1>2, <2>4, <2>5 DEF Lands, StartList, Phase, Still
  <2> QED BY <2>2, <2>3, <2>6 DEF x, v, e
<1>7. CASE Left(World, "idle", hi)
  <2>1. e = Fsm("SEEK_FINISHED", play.count, "STOP") /\ NoneOf(Tail(queue), R)
        /\ NoneOf(hiReq, Calls) /\ play.fsm = "STOP" /\ Halted(hi) /\ play.mediaThread = None
    BY <1>2, <1>3, <1>7 DEF Left, Tells, OnlyReport, NoCall, Free, R
  <2>2. e.ev = "SEEK_FINISHED" /\ e.ev \in Handled(play.fsm)
    BY <2>1 DEF Fsm, Handled, FsmEvents
  <2>3. x = PlayRestart(v)
    BY <1>1, <2>1, <2>2 DEF HandleFsmEvent, OnSeekFinished
  <2> HIDE DEF x
  <2>4. Ended(v, "idle", hi)
    BY <1>1, <2>1 DEF Ended, Off, Free, NoReport, NoCall, R
  <2>5. Lands(v, x, hi)
    BY <1>1, <2>3, <2>4, PlayRestartLands
  <2>6. Lands(World, x, hi)
    BY <1>4, <2>4, <2>5 DEF Lands, Still
  <2> QED BY <2>2, <2>6 DEF x, v, e
<1>8. ASSUME NEW state \in {"PLAY", "STOP"}, e = Moved(World, state), ~ Still(World, "idle", hi),
             NEW u, Typed(u), Tidy(u), u.pc = "idle",
             x = Enter(u, state) => Phase(Enter(u, state), "idle", hi),
             IF state = "STOP" THEN u = HiCall(v, "Seek") ELSE u = v
      PROVE  /\ e.ev \in Handled(play.fsm)
             /\ Lands(World, x, hi)
  <2>1. e.ev = "STATE_CHANGED" /\ e.val = state
    BY <1>8 DEF Moved, Fsm
  <2>2. play.fsm \in FsmStates
    BY WorldFieldsOf DEF PlayRecord
  <2>3. e.ev \in Handled(play.fsm)
    BY <2>1, <2>2 DEF Handled, FsmEvents, FsmStates, Always
  <2>4. x = Enter(u, state)
    BY <1>8, <2>1 DEF HandleFsmEvent, OnStateChanged
  <2>5. Enter(u, state).pc = "idle"
    BY <1>8, EnterIs DEF FsmStates
  <2> HIDE DEF x
  <2> QED BY <1>8, <2>3, <2>4, <2>5 DEF Lands
<1>9. CASE Reported(World, "idle", hi)
  <2>1. /\ e = Moved(World, "PLAY") /\ NoneOf(hiReq, Calls) /\ play.mediaThread = None
        /\ \/ hi = "PLAY" /\ NoneOf(Tail(queue), R)
           \/ hi = "STOP" /\ JustOne(Tail(queue), R, Moved(World, "STOP"))
    BY <1>2, <1>3, <1>9 DEF Reported, OnlyReport, NoCall, Free, R
  <2> DEFINE y == Enter(v, "PLAY")
  <2>2. /\ y.play.fsm = "PLAY" /\ y.pc = "idle" /\ y.play.mediaThread = None
        /\ y.play.count = play.count
        /\ SamePicks(Tail(queue), y.queue, R) /\ SamePicks(hiReq, y.hiReq, Calls)
    BY <1>1, <2>1, EnterIs DEF FsmStates, R
  <2> HIDE DEF y, x
  <2>3. Free(y, "idle") /\ NoCall(y) /\ Moved(y, "STOP") = Moved(World, "STOP")
    BY <1>2, <2>1, <2>2 DEF Free, NoCall, SamePicks, Moved
  <2>4. Playing(y, "idle", hi)
    BY <2>1, <2>2, <2>3 DEF Playing, NoReport, OnlyReport, SamePicks, R
  <2>5. ~ Still(World, "idle", hi)
    <3>1. e.ev = "STATE_CHANGED"
      BY <2>1 DEF Moved, Fsm
    <3>2. \A ev : Tells(World, ev) => e.ev = ev
      BY <1>2, <1>3 DEF Tells, OnlyReport, Fsm, R
    <3> QED BY <1>2, <1>3, <3>1, <3>2 DEF Still, Showing, Image, Left, Ended, NoReport, R
  <2> QED BY <1>1, <1>8, <2>1, <2>4, <2>5 DEF Phase, y, x, v, e
<1>10. CASE Playing(World, "idle", hi)
  <2>1. /\ e = Moved(World, "STOP") /\ NoneOf(hiReq, Calls) /\ play.mediaThread = None
        /\ hi = "STOP" /\ NoneOf(Tail(queue), R) /\ play.fsm = "PLAY"
    BY <1>2, <1>3, <1>10 DEF Playing, OnlyReport, NoReport, NoCall, Free, R
  <2> DEFINE u == HiCall(v, "Seek")
             y == Enter(u, "STOP")
  <2>2. /\ Typed(u) /\ u.play = play /\ u.queue = Tail(queue) /\ u.pc = "idle"
        /\ u.hiReq = Append(hiReq, "Seek")
    BY <1>1, HiCallIs DEF HiRequest
  <2>3. JustOne(u.hiReq, Calls, "Seek")
    <3>1. hiReq \in Seq(HiRequest) /\ "Seek" \in HiRequest /\ "Seek" \in Calls
      BY WorldFieldsOf DEF HiRequest, Calls
    <3> QED BY <2>1, <2>2, <3>1, AppendPicks
  <2>4. Tidy(u)
    BY <1>1, <2>2 DEF Tidy
  <2>5. u = HiCall(v, "Seek")
    OBVIOUS
  <2> HIDE DEF u
  <2>6. /\ y.play.fsm = "STOP" /\ y.pc = "idle" /\ y.play.mediaThread = None
        /\ y.play.count = play.count
        /\ SamePicks(Tail(queue), y.queue, R) /\ SamePicks(u.hiReq, y.hiReq, Calls)
    BY <2>1, <2>2, <2>4, EnterIs DEF FsmStates, R
  <2> HIDE DEF y, x
  <2>7. Seeking(y, "idle", hi)
    BY <2>1, <2>3, <2>6 DEF Seeking, OnlyCall, NoReport, Free, Halted, SamePicks, R
  <2>8. ~ Still(World, "idle", hi)
    BY <1>2, <2>1 DEF Still, Showing, Image, Left, Ended, Off
  <2> QED BY <1>8, <2>1, <2>2, <2>4, <2>5, <2>7, <2>8 DEF Phase, y, x, v, e
<1> QED BY <1>5, <1>6, <1>7, <1>9, <1>10

\* The first command finds a HiPlayer that has not played yet.
LEMMA FirstCommandPhase ==
    ASSUME NEW w, Typed(w), w.pc = "idle", hi = "INIT", Still(w, "idle", hi), NEW id \in Sent
    PROVE  LET x == HandleJson(w, id) IN Phase(x, x.pc, hi)
<1> DEFINE quiet == RemovePlayingTimer(w)
           x == HandleJson(w, id)
<1>1. /\ w.play.fsm \in {"INIT", "STOP", "IMAGE"} /\ w.play.mediaThread = None /\ NoCall(w)
      /\ Phase(w, "idle", hi)
  BY DEF Still, Showing, Image, Left, Ended, Off, Free, Tells, Phase
<1>2. ASSUME NEW y, Alike(w, y) PROVE Phase(y, y.pc, hi)
  BY <1>1, <1>2, LikePhase DEF Alike
<1>3. ASSUME NEW y, Alike(w, y), NEW answer \in {"OK", "NOK"} PROVE Phase(Reply(y, id, answer), Reply(y, id, answer).pc, hi)
  <2>1. Alike(w, Reply(y, id, answer))
    BY <1>3, ReplyAlike, AlikeTransitive DEF Alike
  <2> QED BY <1>2, <2>1
<1>4. ASSUME NEW y, Typed(y), Phase(y, y.pc, hi),
             NEW cmd \in {"UNKNOWN", "OPEN", "STOP", "PAUSE", "RESUME"}
      PROVE  Phase(SetCurrentCmd(y, cmd, id), SetCurrentCmd(y, cmd, id).pc, hi)
  <2>1. Alike(y, SetCurrentCmd(y, cmd, id))
    BY <1>4, SetCurrentCmdAlike
  <2> QED BY <1>4, <2>1, LikePhase DEF Alike
<1>5. Alike(w, w) /\ Alike(w, quiet) /\ Typed(quiet)
  BY AlikeReflexive, RemovePlayingTimerAlike DEF Alike
<1> HIDE DEF quiet
<1>6. CASE Busy(w)
  BY <1>3, <1>5, <1>6 DEF HandleJson
<1> DEFINE open == PlayCommand(w, id)
           stop == StopCommand(w, id)
           pause == PauseCommand(w, id)
           resume == ResumeCommand(w, id)
<1>7. Phase(open, open.pc, hi)
  <2> DEFINE y == CASE w.play.fsm = "IMAGE" -> Send(quiet, "END") [] OTHER -> PlayAsked(quiet, id)
  <2>1. open = SetCurrentCmd(y, "OPEN", id)
    BY <1>1 DEF PlayCommand, Stream, quiet
  <2>2. Alike(w, Send(quiet, "END"))
    BY <1>5, SendAlike, AlikeTransitive
  <2>3. CASE w.play.fsm = "IMAGE"
    <3>1. Typed(y) /\ Phase(y, y.pc, hi)
      BY <1>2, <2>2, <2>3 DEF Alike
    <3> HIDE DEF y
    <3> QED BY <1>4, <2>1, <3>1
  <2>4. CASE w.play.fsm # "IMAGE"
    <3>1. /\ Phase(quiet, "idle", hi) /\ quiet.pc = "idle" /\ quiet.play.mediaThread = None
          /\ NoCall(quiet) /\ Off(quiet, hi)
      BY <1>1, <1>5, <2>4, LikePhase DEF Alike, Like, NoCall, SamePicks, Off, Halted
    <3>2. Typed(y) /\ Phase(y, y.pc, hi)
      BY <1>5, <2>4, <3>1, PlayAskedPhase
    <3> HIDE DEF y
    <3> QED BY <1>4, <2>1, <3>2
  <2> QED BY <2>3, <2>4
<1>8. Phase(stop, stop.pc, hi)
  <2> DEFINE y == Send(quiet, "TIMEOUT")
  <2>1. stop = SetCurrentCmd(y, "STOP", id) \/ stop = Reply(quiet, id, "OK")
    BY <1>1 DEF StopCommand, Stream, quiet
  <2>2. Alike(w, y)
    BY <1>5, SendAlike, AlikeTransitive
  <2> HIDE DEF y, stop
  <2>3. Phase(SetCurrentCmd(y, "STOP", id), SetCurrentCmd(y, "STOP", id).pc, hi)
    BY <1>2, <1>4, <2>2 DEF Alike
  <2> QED BY <1>3, <1>5, <2>1, <2>3
<1>9. Phase(pause, pause.pc, hi)
  <2>1. pause = Reply(w, id, "NOK") \/ pause = Reply(w, id, "OK")
    BY DEF PauseCommand
  <2> HIDE DEF pause
  <2> QED BY <1>3, <1>5, <2>1
<1>10. \A y : ResumeCommand(y, id) = Reply(y, id, "OK")
  BY DEF ResumeCommand, Resumable
<1>11. Phase(resume, resume.pc, hi)
  BY <1>3, <1>5, <1>10
<1>12. ASSUME NEW delta, delta \in {1, -1}
       PROVE  LET y == SpeedCommand(w, id, delta) IN Phase(y, y.pc, hi)
  <2> DEFINE index == w.play.speed + delta
             faster == [w EXCEPT !.play.speed = index]
             y == SpeedCommand(w, id, delta)
  <2>1. \/ y = Reply(w, id, "OK") \/ y = Reply(w, id, "NOK") \/ y = w
        \/ index \in 0 .. SpeedCount - 1 /\ y = Reply(faster, id, "OK")
    BY <1>10 DEF SpeedCommand, PlayspeedSet, HiRunning
  <2>2. index \in 0 .. SpeedCount - 1 => Alike(w, faster)
    <3> SUFFICES ASSUME index \in 0 .. SpeedCount - 1 PROVE Alike(w, faster)
      OBVIOUS
    <3> DEFINE s == [w.play EXCEPT !.speed = index]
    <3>1. Typed(faster)
      BY SpeedKeeps DEF Keeps, Reaches
    <3>2. faster = [w EXCEPT !.play = s]
      BY DEF Typed, WorldType
    <3>3. /\ s.fsm = w.play.fsm /\ s.mediaThread = w.play.mediaThread
          /\ s.count = w.play.count /\ s.list = w.play.list
      BY PlayOf DEF PlayRecord
    <3> HIDE DEF s, faster
    <3> QED BY <3>1, <3>2, <3>3, PlayAlike
  <2> HIDE DEF y, faster, index
  <2> QED BY <1>2, <1>3, <1>5, <2>1, <2>2 DEF y
<1>13. CASE ~ Busy(w)
  <2>1. requests[id].cmd \in {"OPEN", "STOP", "PAUSE", "RESUME", "FORWARD", "BACKWARD"}
    BY CommandFields DEF Typed
  <2>2. \/ x = open \/ x = stop \/ x = pause \/ x = resume
        \/ x = SpeedCommand(w, id, 1) \/ x = SpeedCommand(w, id, -1)
    BY <1>13, <2>1 DEF HandleJson
  <2> HIDE DEF open, stop, pause, resume, x
  <2> QED BY <1>7, <1>8, <1>9, <1>11, <1>12, <2>2 DEF x
<1> QED BY <1>6, <1>13

\* What has been left of the startup before the first command is handled.
Calm == hi = "INIT" /\ StartList(World) /\ Still(World, pc, hi)

\* The steps of the window, seen from the token.
TokenMoves ==
    /\ Phase(World, pc, hi) => Phase(World', pc', hi')
    /\ Calm => hi' = "INIT" /\ play'.list = StartMedia /\ Still(World', pc', hi')

\* The fields of World the phases look at, before and after a step.
LEMMA WorldNext ==
    /\ World'.play = play' /\ World'.queue = queue' /\ World'.hiReq = hiReq'
    /\ World.play = play /\ World.queue = queue /\ World.hiReq = hiReq
BY DEF World

LEMMA BecomesLike ==
    ASSUME NEW w, Becomes(w)
    PROVE  Like(w, World') /\ play' = w.play /\ queue' = w.queue /\ hiReq' = w.hiReq
<1>1. play' = w.play /\ queue' = w.queue /\ hiReq' = w.hiReq
  BY DEF Becomes
<1> QED BY <1>1, WorldNext, SamePicksReflexive DEF Like

\* A handler that does not move the token.
LEMMA LikeMoves ==
    ASSUME NEW w, Like(World, w), w.play.list = play.list, Becomes(w), UNCHANGED <<pc, hi>>
    PROVE  TokenMoves
<1>1. Phase(World, pc, hi) => Phase(w, pc, hi)
  BY LikePhase
<1>2. Still(World, pc, hi) => Still(w, pc, hi)
  BY LikePhase
<1>3. /\ Phase(w, pc, hi) => Phase(World', pc, hi)
      /\ Still(w, pc, hi) => Still(World', pc, hi)
  BY BecomesLike, LikePhase
<1> QED BY <1>1, <1>2, <1>3, BecomesLike, WorldNext DEF TokenMoves, Calm, StartList

\* A step that changes other fields of the window, or none.
LEMMA FieldsMove ==
    ASSUME UNCHANGED <<queue, hiReq, pc, hi>>, play'.fsm = play.fsm, play'.count = play.count,
           play'.mediaThread = play.mediaThread, play'.list = play.list
    PROVE  TokenMoves
<1>1. Like(World, World')
  BY WorldNext, SamePicksReflexive DEF Like
<1>2. /\ Phase(World, pc, hi) => Phase(World', pc, hi)
      /\ Still(World, pc, hi) => Still(World', pc, hi)
  BY <1>1, LikePhase
<1> QED BY <1>2, WorldNext DEF TokenMoves, Calm, StartList

\* A state machine event: it is the token, or it leaves the token alone.
LEMMA EventToken == ASSUME TypeInv, HandleEvent PROVE TokenMoves
<1> DEFINE v == AfterTaking
           e == Head(queue)
           x == HandleFsmEvent(v, e)
           w == IF e.tag = play.count /\ e.ev \in Handled(play.fsm) THEN x ELSE v
<1>1. /\ pc = "idle" /\ queue # <<>> /\ e.ev \in FsmEvents /\ Becomes(w) /\ pc' = w.pc
      /\ UNCHANGED hi
  BY DEF HandleEvent, Continue
<1>2. /\ Typed(v) /\ Tidy(v) /\ v.play = play /\ v.queue = Tail(queue) /\ v.hiReq = hiReq
      /\ v.pc = "idle" /\ e \in Event /\ queue \in Seq(Event)
  BY <1>1, AfterTakingIs, WorldFieldsOf
<1> HIDE DEF w
<1>3. ASSUME Phase(World, "idle", hi) PROVE Lands(World, w, hi)
  <2>1. CASE e \in Reports(play.count)
    <3>1. e.ev \in Handled(play.fsm) /\ Lands(World, x, hi)
      BY <1>1, <1>3, <2>1, ReportLands
    <3>2. e.tag = play.count
      BY <2>1 DEF Reports
    <3> QED BY <3>1, <3>2 DEF w
  <2>2. CASE e \notin Reports(play.count)
    <3>1. SamePicks(queue, Tail(queue), Reports(play.count))
      BY <1>1, <1>2, <2>2, TailPicks
    <3>2. Alike(World, v) /\ Phase(v, "idle", hi)
      <4>1. Alike(World, v)
        BY <1>2, <3>1, WorldFieldsOf, SamePicksReflexive DEF Alike, Like
      <4> QED BY <1>3, <4>1, LikePhase DEF Alike
    <3>3. CASE e.tag = play.count /\ e.ev \in Handled(play.fsm)
      <4>1. e.ev \in {"TIMEOUT", "FAIL", "END", "OK"}
        <5>1. e \in [ev : FsmEvents, tag : Nat, val : HiStates]
          BY <1>1, <1>2 DEF Event, FsmEvents
        <5> QED BY <2>2, <3>3, <5>1 DEF Reports, FsmEvents
      <4> HIDE DEF v, e
      <4>2. Lands(v, x, hi)
        BY <1>2, <3>2, <4>1, PlainEventLands
      <4>3. StartList(World) => StartList(v)
        BY <1>2, WorldNext DEF StartList
      <4>4. Still(World, "idle", hi) => Still(v, "idle", hi)
        BY <3>2, LikePhase DEF Alike
      <4> QED BY <3>3, <4>2, <4>3, <4>4 DEF Lands, w
    <3>4. CASE ~ (e.tag = play.count /\ e.ev \in Handled(play.fsm))
      <4>1. w = v
        BY <3>4 DEF w
      <4> QED BY <1>3, <3>2, <4>1, AlikeLands, WorldFieldsOf
    <3> QED BY <3>3, <3>4
  <2> QED BY <2>1, <2>2
<1>4. /\ Phase(w, w.pc, hi) => Phase(World', pc', hi')
      /\ Still(w, w.pc, hi) => Still(World', pc', hi')
  BY <1>1, BecomesLike, LikePhase
<1>5. play' = w.play
  BY <1>1, BecomesLike
<1> QED BY <1>1, <1>3, <1>4, <1>5 DEF TokenMoves, Calm, Lands, Phase

\* The first command is handled.
LEMMA CommandToken ==
    ASSUME TypeInv, HandleCommand, Calm PROVE Phase(World', pc', hi')
<1> DEFINE v == AfterTaking
           w == HandleJson(v, Head(queue).id)
<1>1. /\ pc = "idle" /\ queue # <<>> /\ Head(queue).ev = "JSON" /\ Becomes(w) /\ pc' = w.pc
      /\ UNCHANGED hi
  BY DEF HandleCommand, Continue
<1>2. /\ Typed(v) /\ v.play = play /\ v.queue = Tail(queue) /\ v.hiReq = hiReq
      /\ v.pc = "idle" /\ queue \in Seq(Event) /\ Head(queue).id \in Sent
  BY <1>1, AfterTakingIs, WorldFieldsOf, HandleCommandStep
<1>3. Still(v, "idle", hi)
  <2>1. Head(queue) \notin Reports(play.count)
    BY <1>1 DEF Reports
  <2>2. SamePicks(queue, Tail(queue), Reports(play.count))
    BY <1>1, <1>2, <2>1, TailPicks
  <2>3. Like(World, v)
    BY <1>2, <2>2, WorldNext, SamePicksReflexive DEF Like
  <2> QED BY <1>1, <2>3, LikePhase DEF Calm
<1> HIDE DEF v
<1>4. Phase(w, w.pc, hi)
  BY <1>2, <1>3, FirstCommandPhase DEF Calm
<1> QED BY <1>1, <1>4, BecomesLike, LikePhase

\* The OK handlers: that of an image shows it.
LEMMA FinishToken == ASSUME TypeInv, FinishOk PROVE TokenMoves
<1> DEFINE t == StartPlayingTimer(World)
           r == ReplyPending(t, "OK")
           x == Enter(r, "IMAGE")
           w == IF pc = "IMAGE_OK" THEN x ELSE r
<1>1. pc \in {"OK", "IMAGE_OK"} /\ Becomes(w) /\ pc' = w.pc /\ UNCHANGED hi
  BY DEF FinishOk, Continue
<1>2. Alike(World, r) /\ Tidy(r)
  <2>1. Alike(World, t) /\ Keeps(World, t)
    BY StartPlayingTimerAlike, StartPlayingTimerKeeps, WorldFieldsOf
  <2>2. Typed(t) /\ Tidy(t)
    BY <2>1, WorldFieldsOf, StaysTidy DEF Alike
  <2> HIDE DEF t
  <2>3. Alike(t, r) /\ Finishes(t, r)
    BY <2>2, ReplyPendingAlike, ReplyPendingFinishes
  <2> HIDE DEF r
  <2> QED BY <2>1, <2>2, <2>3, AlikeTransitive, StaysTidy
<1> HIDE DEF r
<1>3. Typed(r) /\ r.pc = "idle" /\ r.play.list = play.list
  BY <1>2, WorldFieldsOf DEF Alike
<1>4. CASE pc = "OK"
  <2>1. /\ Phase(World, "OK", hi) => Phase(r, "idle", hi)
        /\ Still(World, "OK", hi) => Still(r, "idle", hi)
    BY <1>2, LikePhase, OkPhase DEF Alike
  <2>2. w = r
    BY <1>4
  <2> HIDE DEF w
  <2>3. /\ Phase(r, "idle", hi) => Phase(World', pc', hi')
        /\ Still(r, "idle", hi) => Still(World', pc', hi')
        /\ play'.list = play.list
    BY <1>1, <1>3, <2>2, BecomesLike, LikePhase
  <2> QED BY <1>1, <1>4, <2>1, <2>3, WorldNext DEF TokenMoves, Calm, StartList
<1>5. CASE pc = "IMAGE_OK"
  <2>1. ASSUME Phase(World, pc, hi) PROVE Still(x, "idle", hi)
    <3>1. Showing(World, pc, hi)
      BY <1>5, <2>1, PhaseStates
    <3>2. Showing(World, pc, hi) => NoReport(World) /\ NoCall(World)
      BY <1>5 DEF Showing
    <3>3. /\ x.play.fsm = "IMAGE" /\ x.pc = "idle" /\ x.play.mediaThread = r.play.mediaThread
          /\ x.play.count = r.play.count
          /\ SamePicks(r.queue, x.queue, Reports(r.play.count))
          /\ SamePicks(r.hiReq, x.hiReq, Calls)
      BY <1>2, <1>3, EnterIs DEF FsmStates
    <3> HIDE DEF x
    <3>4. NoReport(x) /\ NoCall(x) /\ x.play.mediaThread = None /\ Halted(hi)
      BY <1>2, <3>1, <3>2, <3>3 DEF Alike, Like, NoReport, NoCall, SamePicks, Showing, Off
    <3> QED BY <3>3, <3>4 DEF Image, Free, Still
  <2>2. x.pc = "idle" /\ x.play.list = play.list
    BY <1>2, <1>3, EnterIs DEF FsmStates
  <2>3. w = x
    BY <1>5
  <2> HIDE DEF w, x
  <2>4. /\ Still(x, "idle", hi) => Still(World', pc', hi')
        /\ play'.list = play.list
    BY <1>1, <2>2, <2>3, BecomesLike, LikePhase
  <2> QED BY <1>1, <2>1, <2>4, WorldNext DEF TokenMoves, Calm, StartList, Phase
<1> QED BY <1>1, <1>4, <1>5

\* The SetMedia thread takes the token over.
LEMMA CreateToken == ASSUME TypeInv, CreateSetMediaThread PROVE TokenMoves
<1>1. /\ pc = "setMedia" /\ pc' = "idle" /\ UNCHANGED <<queue, hiReq, hi>>
      /\ play' = [play EXCEPT !.mediaThread = play.count] /\ play \in PlayRecord
  BY WorldFieldsOf DEF CreateSetMediaThread
<1>2. /\ play'.mediaThread = play.count /\ play'.fsm = play.fsm /\ play'.count = play.count
      /\ play.count \in Nat
  BY <1>1 DEF PlayRecord
<1>3. ~ Still(World, pc, hi)
  BY <1>1 DEF Still, Showing, Image, Left, Ended, Free
<1>4. ASSUME Phase(World, pc, hi) PROVE Phase(World', pc', hi')
  <2>1. Opening(World, pc, hi)
    BY <1>1, <1>4, PhaseStates
  <2>2. Opening(World', pc', hi')
    BY <1>1, <1>2, <2>1, WorldNext DEF Opening, Off, NoReport, NoCall, None
  <2> QED BY <2>2 DEF Phase
<1> QED BY <1>3, <1>4 DEF TokenMoves, Calm

\* The SetMedia threads and the two timeouts.
LEMMA SetMediaStartToken == ASSUME TypeInv, NEW n \in Plays, SetMediaStart(n) PROVE TokenMoves
<1>1. /\ UNCHANGED <<queue, hiReq, pc, hi>> /\ play'.fsm = play.fsm /\ play'.count = play.count
      /\ play'.mediaThread = play.mediaThread /\ play'.list = play.list
  BY WorldFieldsOf DEF SetMediaStart, Becomes, AddTimer, World, PlayRecord
<1> QED BY <1>1, FieldsMove

LEMMA MediaTimeoutToken == ASSUME TypeInv, MediaTimeout PROVE TokenMoves
<1> DEFINE p == [play EXCEPT !.mediaTimer = None]
           x == [World EXCEPT !.play = p]
           w == Send(x, "FAIL")
<1>1. Becomes(w) /\ UNCHANGED <<pc, hi>>
  BY DEF MediaTimeout, CallbackReturns, World
<1>2. /\ p \in PlayRecord /\ p.count = play.count /\ p.cmd = play.cmd /\ p.data = play.data
      /\ p.mediaThread = play.mediaThread /\ p.fsm = play.fsm /\ p.list = play.list
  BY WorldFieldsOf DEF PlayRecord
<1>3. PlaylistOK(p) /\ p.count >= play.count
  BY <1>2, WorldFieldsOf DEF PlayRecord, PlaylistOK
<1> HIDE DEF p
<1>4. Typed(x)
  BY <1>2, <1>3, WorldFieldsOf, PlayKeeps DEF Keeps, Reaches
<1>5. Alike(World, x)
  BY <1>2, <1>4, FieldsAlike DEF World
<1> HIDE DEF x
<1>6. Alike(x, w)
  BY <1>4, SendAlike
<1> HIDE DEF w
<1>7. Alike(World, w)
  BY <1>5, <1>6, AlikeTransitive
<1> QED BY <1>1, <1>7, WorldFieldsOf, LikeMoves DEF Alike

LEMMA PlayTimeoutToken == ASSUME TypeInv, PlayTimeout PROVE TokenMoves
<1> DEFINE p == [play EXCEPT !.mediaState = "TIMEOUT"]
           x == [World EXCEPT !.play = p]
           s == Send(x, "TIMEOUT")
           w == [s EXCEPT !.play.playTimer = None]
<1>1. Becomes(w) /\ UNCHANGED <<pc, hi>>
  BY DEF PlayTimeout, CallbackReturns, World
<1>2. /\ p \in PlayRecord /\ p.count = play.count /\ p.cmd = play.cmd /\ p.data = play.data
      /\ p.mediaThread = play.mediaThread /\ p.fsm = play.fsm /\ p.list = play.list
  BY WorldFieldsOf DEF PlayRecord
<1>3. PlaylistOK(p) /\ p.count >= play.count
  BY <1>2, WorldFieldsOf DEF PlayRecord, PlaylistOK
<1> HIDE DEF p
<1>4. Typed(x)
  BY <1>2, <1>3, WorldFieldsOf, PlayKeeps DEF Keeps, Reaches
<1>5. Alike(World, x)
  BY <1>2, <1>4, FieldsAlike DEF World
<1> HIDE DEF x
<1>6. Alike(x, s)
  BY <1>4, SendAlike
<1> HIDE DEF s
<1>7. Alike(s, w)
  BY <1>6, ForgetTimerAlike DEF Alike
<1> HIDE DEF w
<1>8. Alike(World, w)
  BY <1>5, <1>6, <1>7, AlikeTransitive
<1> QED BY <1>1, <1>8, WorldFieldsOf, LikeMoves DEF Alike

\* While there is a SetMedia thread the token is with it.
LEMMA OnlyOpening ==
    ASSUME NEW w, NEW p, NEW h, w.play.mediaThread # None
    PROVE  /\ ~ Still(w, p, h)
           /\ Phase(w, p, h) => p \in {"idle", "OK"} /\ Off(w, h) /\ NoReport(w) /\ NoCall(w)
<1>1. ~ Still(w, p, h)
  BY DEF Still, Showing, Image, Left, Ended, Free
<1>2. Phase(w, p, h) => Opening(w, p, h)
  BY <1>1 DEF Phase, Called, Reported, Playing, Seeking, Free
<1> QED BY <1>1, <1>2 DEF Opening

\* What the thread leaves behind: SetMedia failed, and the play is over,
LEMMA MediaReturnedIs ==
    ASSUME TypeInv
    PROVE  LET r == MediaReturned
           IN  /\ Typed(r) /\ r.queue = queue /\ r.hiReq = hiReq /\ r.pc = "idle"
               /\ r.play.fsm = play.fsm /\ r.play.count = play.count
               /\ r.play.list = play.list /\ r.play.mediaThread = None
<1>1. Typed(MediaReturned)
  BY MediaReturnedKeeps DEF Keeps, Reaches
<1> QED BY <1>1, WorldFieldsOf DEF MediaReturned, RemoveTimer, World, PlayRecord

\* When the thread has left, the token is where w has it.
LEMMA ThreadLeaves ==
    ASSUME TypeInv, play.mediaThread # None, NEW w, Becomes(w), UNCHANGED pc,
           Phase(World, pc, hi) => Phase(w, pc, hi')
    PROVE  TokenMoves
BY BecomesLike, LikePhase, OnlyOpening, WorldNext DEF TokenMoves, Calm

LEMMA SetMediaFailsToken ==
    ASSUME TypeInv, OneSetMediaThread, NEW n \in Plays, SetMediaFails(n) PROVE TokenMoves
<1> DEFINE r == MediaReturned
           s == StopPlaying(r)
           w == Send(s, "FAIL")
<1>1. Becomes(w) /\ UNCHANGED <<pc, hi>> /\ threads[n].pc = "setting"
  BY DEF SetMediaFails, ThreadMoves
<1>2. play.mediaThread # None
  BY <1>1 DEF OneSetMediaThread, Working, Plays, None
<1>3. /\ Typed(r) /\ r.queue = queue /\ r.hiReq = hiReq /\ r.play.fsm = play.fsm
      /\ r.play.count = play.count /\ r.play.mediaThread = None
  BY MediaReturnedIs
<1> HIDE DEF r
<1>4. Alike(r, s)
  BY <1>3, StopPlayingAlike
<1> HIDE DEF s
<1>5. Alike(s, w)
  BY <1>4, SendAlike DEF Alike
<1> HIDE DEF w
<1>6. Alike(r, w)
  BY <1>4, <1>5, AlikeTransitive
<1>7. ASSUME Phase(World, pc, hi) PROVE Phase(w, pc, hi)
  <2>1. pc \in {"idle", "OK"} /\ Off(World, hi) /\ NoReport(World) /\ NoCall(World)
    BY <1>2, <1>7, OnlyOpening, WorldNext
  <2>2. Ended(r, pc, hi)
    BY <1>3, <2>1, WorldNext DEF Ended, Off, Free, NoReport, NoCall
  <2>3. Phase(r, pc, hi)
    BY <2>2 DEF Phase, Still
  <2> QED BY <1>6, <2>3, LikePhase DEF Alike
<1> QED BY <1>1, <1>2, <1>7, ThreadLeaves

\* A report HiPlayer puts into the queue of w.
LEMMA ReportIs ==
    ASSUME NEW w, Typed(w), NEW ev \in {"STATE_CHANGED", "SEEK_FINISHED"}, NEW state \in HiStates,
           Len(w.queue) < QueueSize
    PROVE  LET e == Fsm(ev, w.play.count, state)
               x == [w EXCEPT !.queue = Append(@, e)]
           IN  /\ Typed(x) /\ x.play = w.play /\ x.hiReq = w.hiReq /\ x.pc = w.pc
               /\ x.queue = Append(w.queue, e) /\ e \in Event /\ e \in Reports(w.play.count)
<1> DEFINE e == Fsm(ev, w.play.count, state)
           q == Append(w.queue, e)
           x == [w EXCEPT !.queue = q]
<1>1. ev \in FsmEvents /\ w.play.count \in Nat /\ w.play.count <= w.play.count
  BY CountOf DEF FsmEvents
<1>2. w \in WorldType /\ w.queue \in Seq(Event) /\ QueueOK(w.queue, w.play.count)
  BY DEF Typed, WorldType
<1>3. q \in Seq(Event) /\ QueueOK(q, w.play.count)
  BY <1>1, <1>2, AppendExtends
<1>4. e \in Event /\ e \in Reports(w.play.count)
  BY <1>1 DEF Fsm, Event, Reports
<1>5. x = [w EXCEPT !.queue = Append(@, e)]
  BY <1>2 DEF WorldType
<1> HIDE DEF q, e
<1>6. /\ x \in WorldType /\ x.play = w.play /\ x.hiReq = w.hiReq /\ x.pc = w.pc /\ x.queue = q
  BY <1>2, <1>3 DEF WorldType
<1> HIDE DEF x
<1>7. Typed(x)
  BY <1>3, <1>6 DEF Typed
<1> QED BY <1>4, <1>5, <1>6, <1>7 DEF q, e

\* or Play has been called, or even served.
LEMMA SetMediaSucceedsToken ==
    ASSUME TypeInv, OneSetMediaThread, NEW n \in Plays, SetMediaSucceeds(n) PROVE TokenMoves
<1> DEFINE r == MediaReturned
           called == HiCall(r, "Play")
           e == Fsm("STATE_CHANGED", play.count, "PLAY")
           reported == [r EXCEPT !.queue = Append(@, e)]
<1>1. /\ UNCHANGED pc /\ threads[n].pc = "setting"
      /\ \/ Becomes(Send(called, "OK")) /\ UNCHANGED hi
         \/ /\ Becomes(Send(reported, "OK")) /\ hi' = "PLAY" /\ Len(queue) < QueueSize
            /\ hiReq = <<>>
  BY DEF SetMediaSucceeds, ThreadMoves
<1>2. play.mediaThread # None
  BY <1>1 DEF OneSetMediaThread, Working, Plays, None
<1>3. /\ Typed(r) /\ r.queue = queue /\ r.hiReq = hiReq /\ r.play.fsm = play.fsm
      /\ r.play.count = play.count /\ r.play.mediaThread = None
  BY MediaReturnedIs
<1>4. Phase(World, pc, hi) =>
         /\ pc \in {"idle", "OK"} /\ Off(r, hi) /\ Free(r, pc) /\ NoReport(r) /\ NoCall(r)
  BY <1>2, <1>3, OnlyOpening, WorldNext DEF Off, Free, NoReport, NoCall
<1> HIDE DEF r
<1>5. CASE Becomes(Send(called, "OK")) /\ UNCHANGED hi
  <2>1. /\ Typed(called) /\ called.play = r.play /\ called.queue = r.queue
        /\ called.hiReq = Append(r.hiReq, "Play")
    BY <1>3, HiCallIs DEF HiRequest
  <2>2. r.hiReq \in Seq(HiRequest) /\ "Play" \in HiRequest /\ "Play" \in Calls
    BY <1>3 DEF Typed, WorldType, HiRequest, Calls
  <2> HIDE DEF called
  <2>3. NoCall(r) => JustOne(called.hiReq, Calls, "Play")
    BY <2>1, <2>2, AppendPicks DEF NoCall
  <2>4. Phase(World, pc, hi) => Called(called, pc, hi)
    BY <1>4, <2>1, <2>3 DEF Called, OnlyCall, NoReport, Off, Free
  <2>5. Phase(World, pc, hi) => Phase(called, pc, hi')
    BY <1>5, <2>4 DEF Phase
  <2> DEFINE w == Send(called, "OK")
  <2>6. Alike(called, w) /\ Becomes(w)
    BY <1>5, <2>1, SendAlike
  <2> HIDE DEF w
  <2>7. Phase(World, pc, hi) => Phase(w, pc, hi')
    BY <2>5, <2>6, LikePhase DEF Alike
  <2> QED BY <1>1, <1>2, <2>6, <2>7, ThreadLeaves
<1>6. CASE Becomes(Send(reported, "OK")) /\ hi' = "PLAY" /\ Len(queue) < QueueSize
  <2>1. /\ Typed(reported) /\ reported.play = r.play /\ reported.hiReq = r.hiReq
        /\ reported.queue = Append(r.queue, e) /\ e \in Event /\ e \in Reports(r.play.count)
    <3> DEFINE f == Fsm("STATE_CHANGED", r.play.count, "PLAY")
               y == [r EXCEPT !.queue = Append(@, f)]
    <3>1. "PLAY" \in HiStates /\ Len(r.queue) < QueueSize
      BY <1>3, <1>6 DEF HiStates
    <3>2. /\ Typed(y) /\ y.play = r.play /\ y.hiReq = r.hiReq
          /\ y.queue = Append(r.queue, f) /\ f \in Event /\ f \in Reports(r.play.count)
      BY <1>3, <3>1, ReportIs
    <3>3. e = f
      BY <1>3
    <3> QED BY <3>2, <3>3
  <2>2. r.queue \in Seq(Event) /\ e = Moved(reported, "PLAY")
    BY <1>3, <2>1 DEF Typed, WorldType, Moved
  <2> HIDE DEF reported, e
  <2>3. NoReport(r) => OnlyReport(reported, e)
    BY <2>1, <2>2, AppendPicks DEF NoReport, OnlyReport
  <2>4. Phase(World, pc, hi) => Reported(reported, pc, "PLAY")
    BY <1>4, <2>1, <2>2, <2>3 DEF Reported, NoCall, Off, Free
  <2>5. Phase(World, pc, hi) => Phase(reported, pc, hi')
    BY <1>6, <2>4 DEF Phase
  <2> DEFINE w == Send(reported, "OK")
  <2>6. Alike(reported, w) /\ Becomes(w)
    BY <1>6, <2>1, SendAlike
  <2> HIDE DEF w
  <2>7. Phase(World, pc, hi) => Phase(w, pc, hi')
    BY <2>5, <2>6, LikePhase DEF Alike
  <2> QED BY <1>1, <1>2, <2>6, <2>7, ThreadLeaves
<1> QED BY <1>1, <1>5, <1>6

\* HiPlayer stops; the report is not lost.
LEMMA StopToken ==
    ASSUME TypeInv, hi = "PLAY", hi' = "STOP", HiMoves("STOP"), Len(queue) < QueueSize,
           UNCHANGED <<play, pc>>, SamePicks(hiReq, hiReq', Calls)
    PROVE  TokenMoves
<1> DEFINE e == Fsm("STATE_CHANGED", play.count, "STOP")
           R == Reports(play.count)
<1>1. queue' = Append(queue, e)
  BY DEF HiMoves, Callback
<1>2. queue \in Seq(Event) /\ e \in Event /\ e \in R
  BY WorldFieldsOf DEF Fsm, Event, FsmEvents, HiStates, Reports
<1>3. Moved(World, "STOP") = e /\ Moved(World', "STOP") = e
      /\ Moved(World', "PLAY") = Moved(World, "PLAY")
  BY WorldNext DEF Moved
<1> HIDE DEF e, R
<1>4. /\ NoneOf(queue, R) => JustOne(queue', R, e)
      /\ \A f : JustOne(queue, R, f) => JustTwo(queue', R, f, e)
  BY <1>1, <1>2, AppendPicks
<1>5. NoCall(World) => NoCall(World')
  BY WorldNext DEF NoCall, SamePicks
<1>6. Reported(World, pc, hi) => Reported(World', pc', hi')
  BY <1>3, <1>4, <1>5, WorldNext DEF Reported, Free, OnlyReport, R
<1>7. Playing(World, pc, hi) => Playing(World', pc', hi')
  BY <1>3, <1>4, <1>5, WorldNext DEF Playing, Free, OnlyReport, NoReport, R
<1>8. Phase(World, pc, hi) => Reported(World, pc, hi) \/ Playing(World, pc, hi)
  BY DEF Phase, Still, Showing, Image, Left, Ended, Opening, Called, Seeking, Off, Halted
<1> QED BY <1>6, <1>7, <1>8 DEF TokenMoves, Calm, Phase

\* HiPlayer takes a request.
LEMMA HiWorkToken ==
    ASSUME TypeInv, HiWork, hi' # hi => Len(queue) < QueueSize PROVE TokenMoves
<1> DEFINE req == Head(hiReq)
           R == Reports(play.count)
<1>1. /\ hiReq # <<>> /\ HiServes(req) /\ hiReq' = Tail(hiReq)
      /\ hiReq \in Seq(HiRequest) /\ req \in HiRequest /\ UNCHANGED <<play, pc>>
      /\ queue \in Seq(Event)
  BY WorldFieldsOf DEF HiWork
<1> HIDE DEF req
<1>2. /\ req \notin Calls => SamePicks(hiReq, hiReq', Calls)
      /\ NoneOf(hiReq, Calls) => req \notin Calls
      /\ \A e : req \in Calls /\ JustOne(hiReq, Calls, e) => req = e /\ NoneOf(hiReq', Calls)
  BY <1>1, TailPicks DEF req
<1>3. CASE UNCHANGED <<hi, queue>> /\ req \notin Calls
  <2>1. Like(World, World')
    BY <1>1, <1>2, <1>3, WorldNext, SamePicksReflexive DEF Like
  <2>2. /\ Phase(World, pc, hi) => Phase(World', pc, hi)
        /\ Still(World, pc, hi) => Still(World', pc, hi)
    BY <2>1, LikePhase
  <2> QED BY <1>1, <1>3, <2>2, WorldNext DEF TokenMoves, Calm, StartList
<1>4. Calm => req \notin Calls
  BY <1>2, WorldNext DEF Calm, Still, Showing, Image, Left, Ended, Tells, NoCall
<1>5. CASE req \notin Calls
  <2>1. req = "Stop"
    BY <1>1, <1>5 DEF Calls, HiRequest
  <2>2. MovesFrom(HiRunning, "STOP")
    BY <1>1, <2>1 DEF HiServes
  <2>3. CASE hi \in HiRunning
    <3>1. HiMoves("STOP") /\ hi' = "STOP" /\ hi # "INIT" /\ hi # "STOP"
      BY <2>2, <2>3 DEF MovesFrom, HiMoves, HiRunning
    <3>2. CASE hi = "PLAY"
      BY <1>1, <1>2, <1>5, <3>1, <3>2, StopToken
    <3>3. CASE hi # "PLAY"
      BY <3>1, <3>3, PhaseStates DEF TokenMoves, Calm
    <3> QED BY <3>2, <3>3
  <2>4. CASE hi \notin HiRunning
    BY <1>3, <1>5, <2>2, <2>4 DEF MovesFrom
  <2> QED BY <2>3, <2>4
<1>6. CASE req \in Calls
  <2>1. Phase(World, pc, hi) => Called(World, pc, hi) \/ Seeking(World, pc, hi)
    BY <1>2, <1>6, WorldNext
       DEF Phase, Still, Showing, Image, Left, Ended, Opening, Reported, Playing, Tells, NoCall
  <2>2. Called(World, pc, hi) => Reported(World', pc', hi')
    <3> SUFFICES ASSUME Called(World, pc, hi) PROVE Reported(World', pc', hi')
      OBVIOUS
    <3> DEFINE e == Fsm("STATE_CHANGED", play.count, "PLAY")
    <3>1. req = "Play" /\ NoneOf(hiReq', Calls) /\ hi \in {"INIT", "STOP"} /\ NoneOf(queue, R)
      BY <1>2, <1>6, WorldNext DEF Called, OnlyCall, Off, Halted, NoReport
    <3>2. hi' = "PLAY" /\ queue' = Append(queue, e)
      BY <1>1, <3>1 DEF HiServes, MovesFrom, HiMoves, Callback
    <3>3. e \in Event /\ e \in R /\ e = Moved(World', "PLAY")
      BY <1>1, WorldFieldsOf, WorldNext DEF Fsm, Event, FsmEvents, HiStates, Reports, Moved
    <3> HIDE DEF e
    <3>4. JustOne(queue', R, e)
      BY <1>1, <3>1, <3>2, <3>3, AppendPicks
    <3> QED BY <1>1, <3>1, <3>2, <3>3, <3>4, WorldNext
            DEF Called, Reported, Off, Free, NoCall, OnlyReport
  <2>3. Seeking(World, pc, hi) => Left(World', pc', hi') \/ Ended(World', pc', hi')
    <3> SUFFICES ASSUME Seeking(World, pc, hi)
                 PROVE  Left(World', pc', hi') \/ Ended(World', pc', hi')
      OBVIOUS
    <3> DEFINE e == Fsm("SEEK_FINISHED", play.count, "STOP")
    <3>1. req = "Seek" /\ NoneOf(hiReq', Calls) /\ NoneOf(queue, R)
      BY <1>2, <1>6, WorldNext DEF Seeking, OnlyCall, NoReport
    <3>2. hi' = hi /\ (queue' = Append(queue, e) \/ queue' = queue)
      BY <1>1, <3>1 DEF HiServes, Callback
    <3>3. e \in Event /\ e \in R
      BY <1>1, WorldFieldsOf DEF Fsm, Event, FsmEvents, HiStates, Reports
    <3>4. e = Fsm("SEEK_FINISHED", World'.play.count, "STOP")
      BY <1>1, WorldNext
    <3> HIDE DEF e
    <3>5. NoneOf(queue', R) \/ JustOne(queue', R, e)
      BY <1>1, <3>1, <3>2, <3>3, AppendPicks
    <3>6. /\ World'.play.fsm = "STOP" /\ Halted(hi') /\ Free(World', pc') /\ NoCall(World')
      BY <1>1, <3>1, <3>2, WorldNext DEF Seeking, Free, NoCall
    <3>7. JustOne(queue', R, e) => Left(World', pc', hi')
      BY <1>1, <3>4, <3>6, WorldNext DEF Left, Tells, OnlyReport
    <3>8. NoneOf(queue', R) => Ended(World', pc', hi')
      BY <1>1, <3>6, WorldNext DEF Ended, Off, NoReport
    <3> QED BY <3>5, <3>7, <3>8
  <2> QED BY <1>4, <1>6, <2>1, <2>2, <2>3 DEF TokenMoves, Phase, Still
<1> QED BY <1>5, <1>6

\* The steps of HiPlayer; it cannot rewind before a command asked for it.
LEMMA HiPlayerToken ==
    ASSUME TypeInv, HiPlayer, hi' # hi => Len(queue) < QueueSize PROVE TokenMoves
<1>1. CASE HiEnds
  <2>1. /\ hi \in {"PLAY", "FORWARD"} /\ HiMoves("STOP") /\ hi' = "STOP"
        /\ UNCHANGED <<play, pc, hiReq>>
    BY <1>1 DEF HiEnds, HiMoves, HiUnchanged
  <2>2. CASE hi = "PLAY"
    BY <2>1, <2>2, SamePicksReflexive, StopToken
  <2>3. CASE hi # "PLAY"
    BY <2>1, <2>3, PhaseStates DEF TokenMoves, Calm
  <2> QED BY <2>2, <2>3
<1>2. CASE HiRewound
  BY <1>2, PhaseStates DEF HiRewound, TokenMoves, Calm
<1> QED BY <1>1, <1>2, HiWorkToken DEF HiPlayer

\* Every step but those of the commands.
LEMMA TokenStep ==
    ASSUME TypeInv, OneSetMediaThread, [Next]_vars, hi' # hi => Len(queue) < QueueSize
    PROVE  TokenMoves \/ HandleCommand \/ CommandSent
<1>1. CASE PlayerThread
  BY <1>1, EventToken, CreateToken, FinishToken DEF PlayerThread
<1>2. ASSUME NEW n \in Plays, MediaThread(n) PROVE TokenMoves
  <2>1. CASE SetMediaEnter(n)
    BY <2>1, FieldsMove DEF SetMediaEnter
  <2> QED BY <1>2, <2>1, SetMediaStartToken, SetMediaFailsToken, SetMediaSucceedsToken DEF MediaThread
<1>3. CASE TimerThread
  <2>1. CASE \E t \in armed : TimerFires(t)
    BY <2>1, FieldsMove DEF TimerFires
  <2>2. CASE TimerEnds
    BY <2>2, FieldsMove DEF TimerEnds
  <2> QED BY <1>3, <2>1, <2>2, MediaTimeoutToken, PlayTimeoutToken DEF TimerThread
<1>4. CASE UNCHANGED vars
  BY <1>4, FieldsMove DEF vars
<1> QED BY <1>1, <1>2, <1>3, <1>4, HiPlayerToken DEF Next, CommandSent

\* The commands in the queue, which the steps of the others leave alone.
Waiting(q) == \E i \in DOMAIN q : q[i].ev = "JSON"
\* No command enters the queue with them.
LEMMA OtherSteps ==
    ASSUME TypeInv, TypeInv', Silent \/ EventTaken \/ CommandFinished
    PROVE  /\ UNCHANGED requests
           /\ Waiting(queue') => Waiting(queue)
           /\ Distinct(queue) => Distinct(queue')
           /\ play.data = NoJson => play'.data = NoJson
<1>1. /\ queue \in Seq(Event) /\ World'.queue = queue' /\ World'.play = play'
      /\ World.queue = queue /\ World.play = play
  BY WorldFieldsOf, WorldNext
<1>2. ASSUME NEW q \in Seq(Event), Extends(q, queue'), UNCHANGED requests
      PROVE  (Waiting(queue') => Waiting(q)) /\ (Distinct(q) => Distinct(queue'))
  <2>1. queue' \in Seq(Event)
    BY <1>1, <1>2, WorldFieldsOf DEF TypeInv, World, Typed, WorldType, Event
  <2>2. (\A id : InQueue(queue', id) <=> InQueue(q, id)) /\ (Distinct(q) => Distinct(queue'))
    BY <1>2, <2>1, ExtendsJson
  <2> QED BY <2>2 DEF Waiting, InQueue
<1>3. CASE Silent
  BY <1>1, <1>2, <1>3 DEF Silent
<1>4. CASE EventTaken
  <2>1. /\ queue # <<>> /\ Outcome(AfterTaking, World') /\ UNCHANGED requests
        /\ Tail(queue) \in Seq(Event) /\ AfterTaking.queue = Tail(queue) /\ AfterTaking.play = play
    BY <1>1, <1>4, TakenTyped DEF EventTaken
  <2>2. Extends(Tail(queue), queue') /\ (play.data = NoJson => play'.data = NoJson)
    BY <1>1, <2>1 DEF Outcome, Keeps, Replies, Finishes, Reaches, SamePending
  <2>3. (Waiting(queue') => Waiting(Tail(queue))) /\ (Distinct(Tail(queue)) => Distinct(queue'))
    BY <1>2, <2>1, <2>2
  <2>4. /\ Distinct(queue) => Distinct(Tail(queue))
        /\ \A id : InQueue(Tail(queue), id) => InQueue(queue, id)
    BY <1>1, <2>1, TailJson
  <2>5. Waiting(Tail(queue)) => Waiting(queue)
    BY <2>4 DEF Waiting, InQueue
  <2> QED BY <2>1, <2>2, <2>3, <2>4, <2>5
<1>5. CASE CommandFinished
  BY <1>1, <1>2, <1>5 DEF CommandFinished, Finishes, Reaches
<1> QED BY <1>3, <1>4, <1>5

\* Up to the first command the token is somewhere; and until that command leaves
\* the queue no stream has been played.
FirstCommandInv ==
    /\ Distinct(queue)
    /\ Len(requests) <= 1 => /\ Phase(World, pc, hi)
                             /\ requests = <<>> \/ Waiting(queue) => Calm

\* Kept by the other steps,
LEMMA OtherStepsFirst ==
    ASSUME TypeInv, TypeInv', FirstCommandInv, TokenMoves, Silent \/ EventTaken \/ CommandFinished
    PROVE  FirstCommandInv'
<1>1. /\ UNCHANGED requests /\ (Waiting(queue') => Waiting(queue))
      /\ Distinct(queue') /\ (play.data = NoJson => play'.data = NoJson)
  BY OtherSteps DEF FirstCommandInv
<1>2. Calm => Calm'
  BY <1>1, WorldNext DEF TokenMoves, Calm, StartList
<1>3. Phase(World, pc, hi) => Phase(World', pc', hi')
  BY DEF TokenMoves
<1> QED BY <1>1, <1>2, <1>3 DEF FirstCommandInv

\* by the handling of the command, which is the first and leaves no other behind,
LEMMA TakenFirst ==
    ASSUME TypeInv, FirstCommandInv, HandleCommand PROVE FirstCommandInv'
<1> DEFINE id == Head(queue).id
<1>1. /\ queue # <<>> /\ Head(queue).ev = "JSON" /\ id \in Sent /\ TypeInv'
      /\ Taken(AfterTaking, World', id) /\ UNCHANGED requests /\ queue \in Seq(Event)
      /\ AfterTaking.queue = Tail(queue) /\ World'.queue = queue'
  BY HandleCommandStep, TakenTyped, WorldFieldsOf, WorldNext DEF HandleCommand, Continue
<1>2. Extends(Tail(queue), queue')
  BY <1>1 DEF Taken, Keeps, Replies, Accepts, Reaches
<1>3. Tail(queue) \in Seq(Event) /\ queue' \in Seq(Event) /\ requests \in Seq(Command)
  BY <1>1, WorldFieldsOf DEF TypeInv, World, Typed, WorldType, Event, RequestsOK
<1>4. /\ Distinct(Tail(queue)) /\ ~ InQueue(Tail(queue), id)
      /\ Distinct(queue') /\ ~ InQueue(queue', id)
  BY <1>1, <1>2, <1>3, TailJson, ExtendsJson DEF FirstCommandInv
<1>5. ASSUME Len(requests) <= 1
      PROVE  /\ Phase(World', pc', hi') /\ requests' # <<>> /\ ~ Waiting(queue')
  <2>1. Sent = {1} /\ id = 1 /\ requests # <<>>
    BY <1>1, <1>3, <1>5 DEF Sent
  <2>2. Waiting(queue)
    BY <1>1 DEF Waiting
  <2>3. Phase(World', pc', hi')
    BY <1>5, <2>2, CommandToken DEF FirstCommandInv
  <2>4. ASSUME NEW i \in DOMAIN queue', queue'[i].ev = "JSON" PROVE FALSE
    <3>1. queue'[i] \in Event
      BY <1>3, <2>4, ElementIn
    <3>2. queue'[i].id \in DOMAIN requests
      BY <2>4, <3>1 DEF Event, FsmEvents
    <3>3. queue'[i].id = 1
      BY <1>3, <1>5, <3>2
    <3> QED BY <1>4, <2>1, <2>4, <3>3 DEF InQueue
  <2> QED BY <1>1, <2>1, <2>3, <2>4 DEF Waiting
<1> QED BY <1>1, <1>4, <1>5 DEF FirstCommandInv

\* and by its sending.
LEMMA SentFirst ==
    ASSUME TypeInv, FirstCommandInv, NEW command \in Command, SendCommand(command)
    PROVE  FirstCommandInv'
<1> DEFINE e == [ev |-> "JSON", id |-> Len(requests) + 1]
           S == Event \cup {e}
           q == Append(queue, e)
<1>1. /\ requests' = Append(requests, command) /\ (queue' = q \/ queue' = queue)
      /\ UNCHANGED <<play, pc, hi, hiReq>>
  BY DEF SendCommand
<1>2. /\ requests \in Seq(Command) /\ Len(requests') = Len(requests) + 1 /\ Len(requests) \in Nat
      /\ DOMAIN requests = 1 .. Len(requests)
  <2>1. requests \in Seq(Command)
    BY WorldFieldsOf DEF Typed, RequestsOK
  <2> QED BY <1>1, <2>1
<1>3. queue \in Seq(Event) /\ queue \in Seq(S) /\ e \in S
  BY WorldFieldsOf
<1>4. e.ev = "JSON" /\ e.id = Len(requests) + 1 /\ e \notin Reports(play.count)
  BY DEF Reports
<1>5. \A i \in DOMAIN queue : queue[i].ev = "JSON" => queue[i].id # e.id
  <2> SUFFICES ASSUME NEW i \in DOMAIN queue, queue[i].ev = "JSON" PROVE queue[i].id # e.id
    OBVIOUS
  <2>1. queue[i] \in Event
    BY <1>3, ElementIn
  <2>2. queue[i].id \in DOMAIN requests
    BY <2>1 DEF Event, FsmEvents
  <2> QED BY <1>2, <1>4, <2>2
<1> HIDE DEF e
<1>6. SamePicks(queue, queue', Reports(play.count))
  BY <1>1, <1>3, <1>4, AppendPicks, SamePicksReflexive
<1>7. Distinct(queue')
  <2>1. /\ DOMAIN q = 1 .. Len(queue) + 1 /\ DOMAIN queue = 1 .. Len(queue)
        /\ q[Len(queue) + 1] = e /\ \A i \in 1 .. Len(queue) : q[i] = queue[i]
    BY <1>3
  <2> HIDE DEF q
  <2>2. \A i \in DOMAIN q : (i \in DOMAIN queue /\ q[i] = queue[i]) \/ (i = Len(queue) + 1 /\ q[i] = e)
    BY <1>3, <2>1
  <2>3. Distinct(queue) => Distinct(q)
    BY <1>5, <2>2 DEF Distinct
  <2> QED BY <1>1, <2>3 DEF FirstCommandInv
<1>8. ASSUME Len(requests') <= 1 PROVE Phase(World', pc', hi') /\ Calm'
  <2>1. requests = <<>> /\ Len(requests) <= 1
    BY <1>2, <1>8
  <2>2. Like(World, World')
    BY <1>1, <1>6, WorldNext, SamePicksReflexive DEF Like
  <2>3. /\ Phase(World, pc, hi) => Phase(World', pc, hi)
        /\ Still(World, pc, hi) => Still(World', pc, hi)
    BY <2>2, LikePhase
  <2> QED BY <1>1, <2>1, <2>3, WorldNext DEF FirstCommandInv, Calm, StartList
<1> QED BY <1>7, <1>8 DEF FirstCommandInv

\* At startup an image is about to be shown, or nothing could be played.
LEMMA InitFirst == ASSUME Init, StartsWithImagesOnly PROVE FirstCommandInv
<1> DEFINE w == [play |-> Blank, queue |-> <<>>, armed |-> {}, changed |-> FALSE,
                 answers |-> [id \in Json \cup {NoJson} |-> <<>>],
                 hiReq |-> <<>>, pc |-> "idle"]
           u == InitCurrentPlaylist(w, StartMedia, -1)
<1>1. requests = <<>> /\ RequestsOK
  BY ConstantsAssumption DEF Init, RequestsOK
<1>2. Blank \in PlayRecord /\ PlaylistOK(Blank)
  BY ConstantsAssumption, Item DEF Blank, PlayRecord, PlaylistOK, FsmStates, None, NoJson
<1>3. w \in WorldType
  BY <1>2 DEF WorldType
<1>4. /\ w.play = Blank /\ w.queue = <<>> /\ w.hiReq = <<>> /\ w.pc = "idle"
  OBVIOUS
<1>5. Started = PlayCurrent(u)
  BY DEF Started, PlayMedia
<1> HIDE DEF w
<1>6. Typed(w)
  BY <1>1, <1>2, <1>3, <1>4, ConstantsAssumption DEF Typed, QueueOK
<1>7. Typed(u) /\ Like(w, u) /\ u.pc = "idle" /\ u.play.list = StartMedia
  <2>1. StartMedia \in DOMAIN Media /\ -1 \in Nat \cup {-1}
    BY ConstantsAssumption
  <2> QED BY <1>4, <1>6, <2>1, InitCurrentPlaylistLike
<1> HIDE DEF u
<1>8. Off(u, "INIT") /\ Free(u, "idle") /\ NoReport(u) /\ NoCall(u)
  <2>1. NoneOf(w.queue, Reports(w.play.count)) /\ NoneOf(w.hiReq, Calls)
    BY <1>4 DEF NoneOf
  <2>2. NoneOf(u.queue, Reports(u.play.count)) /\ NoneOf(u.hiReq, Calls)
    BY <1>7, <2>1 DEF Like, SamePicks
  <2> QED BY <1>4, <1>7, <2>2 DEF Like, Blank, Off, Halted, Free, NoReport, NoCall
<1>9. CurrentItem(u).kind \notin {"stream", "dead"}
  <2>1. u.play.index \in DOMAIN Media[u.play.list]
    BY <1>7, PlayOf DEF PlaylistOK
  <2> QED BY <1>7, <2>1 DEF StartsWithImagesOnly, CurrentItem
<1>10. Still(Started, Started.pc, "INIT") /\ Started.play.list = StartMedia
  <2>1. /\ Started.play.list = u.play.list
        /\ Started = u \/ Still(Started, Started.pc, "INIT")
    BY <1>5, <1>7, <1>8, <1>9, PlayCurrentPhase DEF Free
  <2>2. Still(u, u.pc, "INIT")
    BY <1>7, <1>8 DEF Still, Ended
  <2> QED BY <1>7, <2>1, <2>2
<1>11. /\ play = Started.play /\ queue = Started.queue /\ hiReq = Started.hiReq
       /\ pc = Started.pc /\ hi = "INIT"
  BY DEF Init
<1>12. Like(Started, World)
  BY <1>11, WorldNext, SamePicksReflexive DEF Like
<1>13. Still(World, pc, hi)
  BY <1>10, <1>11, <1>12, LikePhase
<1>14. Calm
  BY <1>10, <1>11, <1>13, InitTyped, WorldNext DEF Calm, StartList
<1>15. Distinct(queue)
  BY InitTyped DEF Distinct
<1> QED BY <1>13, <1>14, <1>15 DEF FirstCommandInv, Phase

\* A report of HiPlayer's state never finds the queue full.
ReportsKept == hi' # hi => Len(queue) < QueueSize

\* It holds in every state.
LEMMA FirstCommandInvariant ==
    ASSUME StartsWithImagesOnly
    PROVE  Spec /\ [][ReportsKept]_vars => [](TypeInv /\ FirstCommandInv)
<1>1. Init => TypeInv /\ FirstCommandInv
  BY InitTyped, InitFirst
<1>2. /\ TypeInv /\ FirstCommandInv /\ OneSetMediaThread /\ [Next]_vars /\ [ReportsKept]_vars
      => (TypeInv /\ FirstCommandInv)'
  <2> SUFFICES ASSUME TypeInv, FirstCommandInv, OneSetMediaThread, [Next]_vars, [ReportsKept]_vars
               PROVE  (TypeInv /\ FirstCommandInv)'
    OBVIOUS
  <2>1. hi' # hi => Len(queue) < QueueSize
    BY DEF ReportsKept, vars
  <2>2. /\ TypeInv'
        /\ Silent \/ EventTaken \/ CommandTaken \/ CommandFinished \/ CommandSent
    BY StepKinds
  <2>3. CASE HandleCommand \/ CommandTaken
    BY <2>2, <2>3, TakenFirst DEF CommandTaken
  <2>4. CASE CommandSent
    BY <2>2, <2>4, SentFirst DEF CommandSent
  <2>5. TokenMoves \/ HandleCommand \/ CommandSent
    BY <2>1, TokenStep
  <2> QED BY <2>2, <2>3, <2>4, <2>5, OtherStepsFirst
<1> QED BY <1>1, <1>2, OneThread, PTL DEF Spec

\* A window that was started with images and has got at most one command comes
\* to rest in the state the player is in, whatever it plays then: every report
\* of HiPlayer is handled in the play it belongs to, because the token of a play
\* is in one place and the count moves on only when it is there.  The hypothesis
\* is about muxPlayerReportFsmEvent, which loses an event when the fifo is full.
\* A stream at startup counts as a command: a play command between its OK and
\* its report of PLAY makes that report too late.
THEOREM StateIsKnown ==
    StartsWithImagesOnly => (Spec /\ [][ReportsKept]_vars => []StateKnown)
<1> SUFFICES ASSUME StartsWithImagesOnly PROVE Spec /\ [][ReportsKept]_vars => []StateKnown
  OBVIOUS
<1>1. TypeInv /\ FirstCommandInv => StateKnown
  <2> SUFFICES ASSUME FirstCommandInv, AtRest, Len(requests) <= 1
               PROVE  /\ play.fsm \in HiRunning => hi = play.fsm
                      /\ hi \in HiRunning => play.fsm = hi
    BY DEF StateKnown
  <2>1. /\ Phase(World, "idle", hi) /\ World.queue = <<>> /\ World.hiReq = <<>>
        /\ World.play = play /\ play.mediaThread = None
    BY WorldNext DEF FirstCommandInv, AtRest
  <2>2. /\ \A e : ~ OnlyReport(World, e)
        /\ \A R, e, f : ~ JustTwo(World.queue, R, e, f)
        /\ \A req : ~ OnlyCall(World, req)
        /\ \A ev : ~ Tells(World, ev)
    BY <2>1 DEF OnlyReport, OnlyCall, Tells, JustOne, JustTwo
  <2>3. Ended(World, "idle", hi) \/ Image(World, "idle", hi) \/ Playing(World, "idle", hi)
    BY <2>1, <2>2 DEF Phase, Still, Showing, Left, Opening, Called, Reported, Seeking
  <2> QED BY <2>1, <2>2, <2>3 DEF Ended, Image, Playing, Off, Halted, HiRunning
<1> QED BY <1>1, FirstCommandInvariant, PTL

=============================================================================
