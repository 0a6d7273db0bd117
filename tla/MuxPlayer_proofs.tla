-------------------------- MODULE MuxPlayer_proofs --------------------------
(***************************************************************************)
(* Two theorems about the player plugin, for every set of media, commands  *)
(* and repeat numbers and every size of the queue: at most one SetMedia    *)
(* thread works for a window, and the abort of the removal of the play     *)
(* timer is never reached.                                                 *)
(*                                                                         *)
(* The handlers are operators on a record w, so the argument about them is *)
(* one about operators: Goes(w, x) says what any handler, or any part of   *)
(* one, may do to the fields the two theorems depend on.  Goes is          *)
(* transitive and each helper has a lemma; the state machine and the       *)
(* commands follow by composition.                                         *)
(***************************************************************************)
EXTENDS MuxPlayer, TLAPS

WorldFields == {"play", "queue", "answers", "armed", "changed", "hiReq", "pc"}
PlayFields == {"fsm", "cmd", "data", "count", "mediaState", "mediaThread", "mediaTimer",
               "playTimer", "countOfTimer", "speed", "list", "index", "round", "repeat"}

\* What the queue may hold; the number of a command is one that was sent.
Event == [ev : FsmEvents, tag : Nat, val : HiStates]
           \cup [ev : {"JSON"}, id : DOMAIN requests]

\* The part of the type of w the argument needs, that a play timer the window
\* knows of is armed, and that no play timer is newer than countOfTimer.
Known(w) ==
    /\ DOMAIN w = WorldFields /\ DOMAIN w.play = PlayFields
    /\ w.queue \in Seq(Event)
    /\ w.armed \subseteq [kind : {"media", "play"}, n : Nat]
    /\ w.play.count \in Nat /\ w.play.countOfTimer \in Nat /\ w.play.playTimer \in Nat
    /\ w.play.playTimer # None => Timer("play", w.play.playTimer) \in w.armed
    /\ \A n \in Nat : Timer("play", n) \in w.armed => n \in 1 .. w.play.countOfTimer

\* A handler does not touch the thread pointer, and a play timer it sets is a
\* new one.
Goes(w, x) ==
    /\ Known(x)
    /\ x.play.mediaThread = w.play.mediaThread
    /\ x.play.countOfTimer >= w.play.countOfTimer
    /\ \/ x.play.playTimer \in {None, w.play.playTimer}
       \/ x.play.playTimer > w.play.countOfTimer

----------------------------------------------------------------------------
(* The helpers.                                                              *)

LEMMA GoesReflexive == ASSUME NEW w, Known(w) PROVE Goes(w, w)
BY DEF Goes, Known

LEMMA GoesTransitive ==
    ASSUME NEW w, NEW x, NEW y, Known(w), Goes(w, x), Goes(x, y) PROVE Goes(w, y)
BY DEF Goes, Known, None

\* A helper that only touches fields the argument does not look at.
LEMMA OtherFields ==
    ASSUME NEW w, NEW x, Known(w),
           DOMAIN x = WorldFields, DOMAIN x.play = PlayFields,
           x.queue \in Seq(Event), x.armed = w.armed,
           x.play.count \in Nat, x.play.countOfTimer = w.play.countOfTimer,
           x.play.playTimer = w.play.playTimer, x.play.mediaThread = w.play.mediaThread
    PROVE  Goes(w, x)
BY DEF Goes, Known, None

LEMMA SendGoes ==
    ASSUME NEW w, NEW ev \in FsmEvents, Known(w)
    PROVE  Goes(w, Send(w, ev))
<1> DEFINE e == Fsm(ev, w.play.count, "STOP")
<1>1. e \in Event
  BY DEF Known, Event, Fsm, HiStates
<1>2. Append(w.queue, e) \in Seq(Event)
  BY <1>1 DEF Known
<1> HIDE DEF e
<1>3. Goes(w, [w EXCEPT !.queue = Append(@, e)])
  BY <1>2 DEF Goes, Known, WorldFields, None
<1> QED BY <1>3, GoesReflexive DEF Send, e

LEMMA HiCallGoes == ASSUME NEW w, NEW req, Known(w) PROVE Goes(w, HiCall(w, req))
BY DEF Goes, Known, HiCall, WorldFields, None

LEMMA ReplyGoes == ASSUME NEW w, NEW id, NEW answer, Known(w) PROVE Goes(w, Reply(w, id, answer))
<1> DEFINE a == [w.answers EXCEPT ![id] = Append(@, answer)]
<1>1. Reply(w, id, answer) = [w EXCEPT !.answers = a]
  BY DEF Reply, Known, WorldFields
<1> HIDE DEF a
<1> QED BY <1>1 DEF Goes, Known, WorldFields, None

LEMMA SetCurrentCmdGoes ==
    ASSUME NEW w, NEW cmd, NEW id, Known(w) PROVE Goes(w, SetCurrentCmd(w, cmd, id))
<1> DEFINE p == [[w.play EXCEPT !.cmd = cmd] EXCEPT !.data = id]
           x == [w EXCEPT !.play = p]
<1>1. /\ DOMAIN p = PlayFields /\ p.count = w.play.count
      /\ p.countOfTimer = w.play.countOfTimer
      /\ p.playTimer = w.play.playTimer /\ p.mediaThread = w.play.mediaThread
  BY DEF Known, PlayFields
<1>2. x.play = p /\ DOMAIN x = WorldFields /\ x.armed = w.armed /\ x.queue = w.queue
  BY DEF Known, WorldFields
<1>3. SetCurrentCmd(w, cmd, id) = x
  BY DEF SetCurrentCmd, Known, WorldFields
<1> HIDE DEF p, x
<1> QED BY <1>1, <1>2, <1>3, OtherFields DEF Known

LEMMA ReplyPendingGoes ==
    ASSUME NEW w, NEW answer, Known(w) PROVE Goes(w, ReplyPending(w, answer))
<1> DEFINE x == IF w.play.data = NoJson THEN w ELSE Reply(w, w.play.data, answer)
<1>1. Goes(w, x)
  BY GoesReflexive, ReplyGoes
<1>2. Goes(x, ClearCurrentCmd(x))
  BY <1>1, SetCurrentCmdGoes DEF Goes, ClearCurrentCmd
<1>3. ReplyPending(w, answer) = ClearCurrentCmd(x)
  BY DEF ReplyPending
<1> HIDE DEF x
<1> QED BY <1>1, <1>2, <1>3, GoesTransitive

LEMMA StopPlayingGoes == ASSUME NEW w, Known(w) PROVE Goes(w, StopPlaying(w))
BY GoesReflexive, HiCallGoes DEF StopPlaying

\* The timer that is forgotten is the one that is removed.
LEMMA RemovePlayingTimerGoes == ASSUME NEW w, Known(w) PROVE Goes(w, RemovePlayingTimer(w))
BY DEF Goes, Known, RemovePlayingTimer, RemoveTimer, WorldFields, PlayFields, None, Timer

LEMMA ForgetTimerGoes ==
    ASSUME NEW w, Known(w) PROVE Goes(w, [w EXCEPT !.play.playTimer = None])
BY DEF Goes, Known, WorldFields, PlayFields, None

LEMMA SpeedGoes ==
    ASSUME NEW w, NEW speed, Known(w) PROVE Goes(w, [w EXCEPT !.play.speed = speed])
BY DEF Goes, Known, WorldFields, PlayFields, None

\* A play timer gets a number no timer has had.
LEMMA StartPlayingTimerGoes ==
    ASSUME NEW w, Known(w) PROVE Goes(w, StartPlayingTimer(w))
<1> DEFINE n == w.play.countOfTimer + 1
           a == w.armed \cup {Timer("play", n)}
           p == [[w.play EXCEPT !.playTimer = n] EXCEPT !.countOfTimer = n]
           x == [[[w EXCEPT !.armed = a] EXCEPT !.changed = TRUE] EXCEPT !.play = p]
<1>1. CASE ~ CurrentItem(w).timed
  BY <1>1, GoesReflexive DEF StartPlayingTimer
<1>2. CASE CurrentItem(w).timed
  <2>1. StartPlayingTimer(w) = x
    BY <1>2 DEF StartPlayingTimer, AddTimer, Known, WorldFields
  <2>2. /\ DOMAIN p = PlayFields /\ p.count = w.play.count /\ p.countOfTimer = n
        /\ p.playTimer = n /\ p.mediaThread = w.play.mediaThread
    BY DEF Known, PlayFields
  <2>3. x.play = p /\ DOMAIN x = WorldFields /\ x.armed = a /\ x.queue = w.queue
    BY DEF Known, WorldFields
  <2>4. n \in Nat /\ n > w.play.countOfTimer
    BY DEF Known
  <2>5. \A m \in Nat : Timer("play", m) \in a => m \in 1 .. n
    BY <2>4 DEF Known, Timer
  <2>6. a \subseteq [kind : {"media", "play"}, n : Nat] /\ Timer("play", n) \in a
    BY <2>4 DEF Known, Timer
  <2> HIDE DEF x, p, a, n
  <2> QED BY <2>1, <2>2, <2>3, <2>4, <2>5, <2>6 DEF Goes, Known
<1> QED BY <1>1, <1>2

LEMMA InitCurrentPlaylistGoes ==
    ASSUME NEW w, NEW media, NEW repeatNumber, Known(w)
    PROVE  Goes(w, InitCurrentPlaylist(w, media, repeatNumber))
<1> DEFINE r == IF repeatNumber >= 0 THEN repeatNumber ELSE IF media \in Playlists THEN 0 ELSE 1
           p == [[[[[w.play EXCEPT !.list = media] EXCEPT !.index = 1] EXCEPT !.round = 0]
                    EXCEPT !.speed = SpeedDefault] EXCEPT !.repeat = r]
           x == [w EXCEPT !.play = p]
<1>1. /\ DOMAIN p = PlayFields /\ p.count = w.play.count
      /\ p.countOfTimer = w.play.countOfTimer
      /\ p.playTimer = w.play.playTimer /\ p.mediaThread = w.play.mediaThread
  BY DEF Known, PlayFields
<1>2. x.play = p /\ DOMAIN x = WorldFields /\ x.armed = w.armed /\ x.queue = w.queue
  BY DEF Known, WorldFields
<1>3. InitCurrentPlaylist(w, media, repeatNumber) = x
  BY DEF InitCurrentPlaylist, Known, WorldFields
<1> HIDE DEF p, x
<1> QED BY <1>1, <1>2, <1>3, OtherFields DEF Known

LEMMA UpdateCurrentPlaylistGoes ==
    ASSUME NEW w, Known(w) PROVE Goes(w, UpdateCurrentPlaylist(w))
<1>1. Goes(w, [w EXCEPT !.play.index = @ + 1])
  BY DEF Goes, Known, WorldFields, PlayFields, None
<1>2. Goes(w, [w EXCEPT !.play.index = 1, !.play.round = @ + 1])
  <2> DEFINE p == [[w.play EXCEPT !.index = 1] EXCEPT !.round = @ + 1]
             x == [w EXCEPT !.play = p]
  <2>1. /\ DOMAIN p = PlayFields /\ p.count = w.play.count
        /\ p.countOfTimer = w.play.countOfTimer
        /\ p.playTimer = w.play.playTimer /\ p.mediaThread = w.play.mediaThread
    BY DEF Known, PlayFields
  <2>2. x.play = p /\ DOMAIN x = WorldFields /\ x.armed = w.armed /\ x.queue = w.queue
    BY DEF Known, WorldFields
  <2>3. [w EXCEPT !.play.index = 1, !.play.round = @ + 1] = x
    BY DEF Known, WorldFields
  <2> HIDE DEF p, x
  <2> QED BY <2>1, <2>2, <2>3, OtherFields DEF Known
<1> QED BY <1>1, <1>2, InitCurrentPlaylistGoes DEF UpdateCurrentPlaylist

LEMMA PlayCurrentGoes == ASSUME NEW w, Known(w) PROVE Goes(w, PlayCurrent(w))
<1> DEFINE next == [w EXCEPT !.play.count = @ + 1]
           playing == [next EXCEPT !.play.mediaState = "INIT", !.pc = "setMedia"]
<1>1. Goes(w, next) /\ next.play.count \in Nat
  BY DEF Goes, Known, WorldFields, PlayFields, None
<1>2. Goes(next, playing)
  <2> DEFINE x == [next EXCEPT !.play.mediaState = "INIT"]
  <2>1. Known(next) /\ playing = [x EXCEPT !.pc = "setMedia"]
    BY <1>1 DEF Goes, Known, WorldFields
  <2> HIDE DEF next, playing
  <2>2. Goes(next, x)
    BY <2>1 DEF Goes, Known, WorldFields, PlayFields, None
  <2> HIDE DEF x
  <2>3. Goes(x, [x EXCEPT !.pc = "setMedia"])
    BY <2>2 DEF Goes, Known, WorldFields, None
  <2> QED BY <2>1, <2>2, <2>3, GoesTransitive
<1>3. /\ Goes(next, Send(next, "IMAGE_OK"))
      /\ Goes(next, Send(next, "FAIL"))
  <2>1. "IMAGE_OK" \in FsmEvents /\ "FAIL" \in FsmEvents /\ None \in Nat /\ Known(next)
    BY <1>1 DEF FsmEvents, None, Goes
  <2> HIDE DEF next
  <2> QED BY <2>1, <1>1, SendGoes
<1>4. PlayCurrent(w) \in {w, Send(next, "IMAGE_OK"), Send(next, "FAIL"),
                          playing}
  BY DEF PlayCurrent
<1> HIDE DEF next, playing
<1> QED BY <1>1, <1>2, <1>3, <1>4, GoesReflexive, GoesTransitive

LEMMA PlayMediaGoes ==
    ASSUME NEW w, NEW media, NEW repeatNumber, Known(w)
    PROVE  Goes(w, PlayMedia(w, media, repeatNumber))
<1> DEFINE x == InitCurrentPlaylist(w, media, repeatNumber)
<1>1. Goes(w, x)
  BY InitCurrentPlaylistGoes
<1> HIDE DEF x
<1>2. Goes(x, PlayCurrent(x))
  BY <1>1, PlayCurrentGoes DEF Goes
<1> QED BY <1>1, <1>2, GoesTransitive DEF PlayMedia, x

LEMMA PlayNextGoes == ASSUME NEW w, Known(w) PROVE Goes(w, PlayNext(w))
<1> DEFINE x == UpdateCurrentPlaylist(w)
<1>1. Goes(w, x)
  BY UpdateCurrentPlaylistGoes
<1> HIDE DEF x
<1>2. Goes(x, PlayCurrent(x))
  BY <1>1, PlayCurrentGoes DEF Goes
<1>3. Goes(w, PlayCurrent(x))
  BY <1>1, <1>2, GoesTransitive
<1> QED BY <1>3, StopPlayingGoes DEF PlayNext, x

----------------------------------------------------------------------------
(* The state machine.                                                        *)

LEMMA EnterHandlerGoes ==
    ASSUME NEW w, NEW state, Known(w) PROVE Goes(w, EnterHandler(w, state))
<1> DEFINE x == Reply(w, w.play.data, IF w.play.cmd \in Welcome(state) THEN "OK" ELSE "NOK")
<1>1. Goes(w, x)
  BY ReplyGoes
<1>2. EnterHandler(w, state) \in {RemovePlayingTimer(w), w, ClearCurrentCmd(w), ClearCurrentCmd(x)}
  BY DEF EnterHandler
<1> HIDE DEF x
<1>3. Goes(w, ClearCurrentCmd(w)) /\ Goes(x, ClearCurrentCmd(x))
  BY <1>1, SetCurrentCmdGoes DEF ClearCurrentCmd, Goes
<1>4. Goes(w, ClearCurrentCmd(x))
  BY <1>1, <1>3, GoesTransitive
<1> QED BY <1>2, <1>3, <1>4, GoesReflexive, RemovePlayingTimerGoes

LEMMA EnterGoes == ASSUME NEW w, NEW state, Known(w) PROVE Goes(w, Enter(w, state))
<1> DEFINE x == EnterHandler(w, state)
<1>1. Goes(w, x)
  BY EnterHandlerGoes
<1> HIDE DEF x
<1>2. Goes(x, [x EXCEPT !.play.fsm = state])
  BY <1>1 DEF Goes, Known, WorldFields, PlayFields, None
<1>3. Goes(w, [x EXCEPT !.play.fsm = state])
  BY <1>1, <1>2, GoesTransitive
<1> QED BY <1>3, GoesReflexive DEF Enter, x

LEMMA PlayRestartGoes == ASSUME NEW w, Known(w) PROVE Goes(w, PlayRestart(w))
<1> DEFINE x == PlayAsked(w, w.play.data)
<1>1. Goes(w, x)
  BY PlayMediaGoes DEF PlayAsked
<1>2. PlayRestart(w) \in {PlayNext(w), x, Reply(x, w.play.data, "NOK"), ReplyPending(w, "OK"), w}
  BY DEF PlayRestart
<1> HIDE DEF x
<1>3. Goes(w, Reply(x, w.play.data, "NOK"))
  BY <1>1, ReplyGoes, GoesTransitive DEF Goes
<1> QED BY <1>1, <1>2, <1>3, PlayNextGoes, ReplyPendingGoes, GoesReflexive

LEMMA LeaveImageGoes == ASSUME NEW w, Known(w) PROVE Goes(w, LeaveImage(w))
<1> DEFINE x == Send(w, "SEEK_FINISHED")
<1>1. Goes(w, x)
  BY SendGoes DEF FsmEvents, None
<1> HIDE DEF x
<1>2. Goes(x, Enter(x, "STOP"))
  BY <1>1, EnterGoes DEF Goes
<1> QED BY <1>1, <1>2, GoesTransitive DEF LeaveImage, x

LEMMA OnTimeoutGoes == ASSUME NEW w, Known(w) PROVE Goes(w, OnTimeout(w))
<1> DEFINE x == [w EXCEPT !.play.playTimer = None]
<1>1. Goes(w, x)
  BY ForgetTimerGoes
<1>2. OnTimeout(w) \in {LeaveImage(x), StopPlaying(x), w, PlayNext(w)}
  BY DEF OnTimeout
<1> HIDE DEF x
<1>3. Goes(x, LeaveImage(x)) /\ Goes(x, StopPlaying(x))
  BY <1>1, LeaveImageGoes, StopPlayingGoes DEF Goes
<1>4. Goes(w, LeaveImage(x)) /\ Goes(w, StopPlaying(x))
  BY <1>1, <1>3, GoesTransitive
<1> QED BY <1>2, <1>4, PlayNextGoes, GoesReflexive

\* Calls the library or does not, then enters a state.
LEMMA CallAndEnterGoes ==
    ASSUME NEW w, NEW x, NEW req, NEW state, Known(w), x \in {w, HiCall(w, req)}
    PROVE  Goes(w, Enter(x, state))
<1>1. Goes(w, x)
  BY HiCallGoes, GoesReflexive
<1>2. Goes(x, Enter(x, state))
  BY <1>1, EnterGoes DEF Goes
<1> QED BY <1>1, <1>2, GoesTransitive

LEMMA HandleFsmEventGoes ==
    ASSUME NEW w, NEW e, Known(w), e.ev \in FsmEvents PROVE Goes(w, HandleFsmEvent(w, e))
<1>1. Goes(w, OnStateChanged(w, e.val)) /\ Goes(w, OnSof(w, e.val))
  BY CallAndEnterGoes DEF OnStateChanged, OnSof
<1>2. Goes(w, OnSeekFinished(w)) /\ Goes(w, OnEnd(w)) /\ Goes(w, OnFail(w))
  BY PlayRestartGoes, GoesReflexive, LeaveImageGoes, StopPlayingGoes, ReplyPendingGoes
     DEF OnSeekFinished, OnEnd, OnFail
<1>3. Goes(w, OnOk(w, e.ev))
  BY DEF OnOk, Goes, Known, WorldFields, None
<1> QED BY <1>1, <1>2, <1>3, OnTimeoutGoes DEF HandleFsmEvent, FsmEvents

----------------------------------------------------------------------------
(* The commands.                                                             *)

LEMMA PlayCommandGoes == ASSUME NEW w, NEW id, Known(w) PROVE Goes(w, PlayCommand(w, id))
<1> DEFINE quiet == RemovePlayingTimer(w)
           x == CASE Stream(w)            -> StopPlaying(quiet)
                  [] w.play.fsm = "IMAGE" -> Send(quiet, "END")
                  [] OTHER                -> PlayAsked(quiet, id)
<1>1. Goes(w, quiet)
  BY RemovePlayingTimerGoes
<1>2. PlayCommand(w, id) = IF w.play.fsm = "PAUSE" THEN Reply(w, id, "NOK")
                           ELSE SetCurrentCmd(x, "OPEN", id)
  BY DEF PlayCommand
<1> HIDE DEF quiet
<1>3. Known(quiet)
  BY <1>1 DEF Goes
<1>4. /\ Goes(quiet, StopPlaying(quiet)) /\ Goes(quiet, Send(quiet, "END"))
      /\ Goes(quiet, PlayAsked(quiet, id))
  BY <1>3, StopPlayingGoes, SendGoes, PlayMediaGoes DEF PlayAsked, FsmEvents, None
<1>5. x \in {StopPlaying(quiet), Send(quiet, "END"), PlayAsked(quiet, id)}
  OBVIOUS
<1> HIDE DEF x
<1>6. Goes(w, x)
  BY <1>1, <1>4, <1>5, GoesTransitive
<1>7. Goes(w, SetCurrentCmd(x, "OPEN", id))
  BY <1>6, SetCurrentCmdGoes, GoesTransitive DEF Goes
<1> QED BY <1>2, <1>7, ReplyGoes

LEMMA StopCommandGoes == ASSUME NEW w, NEW id, Known(w) PROVE Goes(w, StopCommand(w, id))
<1> DEFINE quiet == RemovePlayingTimer(w)
           sent == Send(quiet, "TIMEOUT")
           stopped == StopPlaying(quiet)
<1>1. Goes(w, quiet)
  BY RemovePlayingTimerGoes
<1>2. StopCommand(w, id) \in {Reply(w, id, "NOK"), SetCurrentCmd(sent, "STOP", id),
                              SetCurrentCmd(stopped, "STOP", id), Reply(quiet, id, "OK")}
  BY DEF StopCommand
<1> HIDE DEF quiet
<1>3. Goes(quiet, sent) /\ Goes(quiet, stopped)
  BY <1>1, StopPlayingGoes, SendGoes DEF Goes, FsmEvents, None
<1> HIDE DEF sent, stopped
<1>4. Goes(w, sent) /\ Goes(w, stopped)
  BY <1>1, <1>3, GoesTransitive
<1>5. /\ Goes(w, SetCurrentCmd(sent, "STOP", id)) /\ Goes(w, SetCurrentCmd(stopped, "STOP", id))
      /\ Goes(w, Reply(quiet, id, "OK"))
  BY <1>1, <1>4, SetCurrentCmdGoes, ReplyGoes, GoesTransitive DEF Goes
<1> QED BY <1>2, <1>5, ReplyGoes

LEMMA PauseCommandGoes == ASSUME NEW w, NEW id, Known(w) PROVE Goes(w, PauseCommand(w, id))
<1> DEFINE x == HiCall(w, "Pause")
<1>1. Goes(w, x)
  BY HiCallGoes
<1>2. PauseCommand(w, id) \in {Reply(w, id, "NOK"), Reply(w, id, "OK"), SetCurrentCmd(x, "PAUSE", id)}
  BY DEF PauseCommand
<1> HIDE DEF x
<1>3. Goes(w, SetCurrentCmd(x, "PAUSE", id))
  BY <1>1, SetCurrentCmdGoes, GoesTransitive DEF Goes
<1> QED BY <1>2, <1>3, ReplyGoes

LEMMA ResumeCommandGoes == ASSUME NEW w, NEW id, Known(w) PROVE Goes(w, ResumeCommand(w, id))
<1> DEFINE x == [w EXCEPT !.play.speed = SpeedDefault]
           y == HiCall(x, "Resume")
<1>1. Goes(w, x)
  BY SpeedGoes
<1>2. ResumeCommand(w, id) \in {Reply(w, id, "OK"), SetCurrentCmd(y, "RESUME", id)}
  BY DEF ResumeCommand
<1> HIDE DEF x
<1>3. Goes(w, y)
  BY <1>1, HiCallGoes, GoesTransitive DEF Goes
<1> HIDE DEF y
<1>4. Goes(w, SetCurrentCmd(y, "RESUME", id))
  BY <1>3, SetCurrentCmdGoes, GoesTransitive DEF Goes
<1> QED BY <1>2, <1>4, ReplyGoes

LEMMA PlayspeedSetGoes ==
    ASSUME NEW w, NEW id, NEW index, Known(w) PROVE Goes(w, PlayspeedSet(w, id, index))
<1> DEFINE x == [w EXCEPT !.play.speed = index]
           y == HiCall(x, IF index > SpeedDefault THEN "Forward" ELSE "Backward")
<1>1. Goes(w, x)
  BY SpeedGoes
<1>2. PlayspeedSet(w, id, index) \in {ResumeCommand(x, id), Reply(w, id, "NOK"), Reply(y, id, "OK")}
  BY DEF PlayspeedSet
<1> HIDE DEF x
<1>3. Goes(w, y) /\ Goes(w, ResumeCommand(x, id))
  BY <1>1, HiCallGoes, ResumeCommandGoes, GoesTransitive DEF Goes
<1> HIDE DEF y
<1>4. Goes(w, Reply(y, id, "OK"))
  BY <1>3, ReplyGoes, GoesTransitive DEF Goes
<1> QED BY <1>2, <1>3, <1>4, ReplyGoes

LEMMA SpeedCommandGoes ==
    ASSUME NEW w, NEW id, NEW delta, Known(w) PROVE Goes(w, SpeedCommand(w, id, delta))
BY ReplyGoes, GoesReflexive, PlayspeedSetGoes DEF SpeedCommand

LEMMA HandleJsonGoes ==
    ASSUME NEW w, NEW id \in DOMAIN requests, Known(w), requests \in Seq(Command)
    PROVE  Goes(w, HandleJson(w, id))
<1>1. requests[id].cmd \in {"OPEN", "STOP", "PAUSE", "RESUME", "FORWARD", "BACKWARD"}
  <2>1. requests[id] \in Command
    OBVIOUS
  <2>2. \A c \in Command : c.cmd \in {"OPEN"} \cup Cmds
    BY DEF Command
  <2>3. Cmds \subseteq {"OPEN", "STOP", "PAUSE", "RESUME", "FORWARD", "BACKWARD"}
    BY ConstantsAssumption
  <2>4. QED
    BY <2>1, <2>2, <2>3
<1> QED BY <1>1, PlayCommandGoes, StopCommandGoes, PauseCommandGoes, ResumeCommandGoes,
           SpeedCommandGoes, ReplyGoes DEF HandleJson

----------------------------------------------------------------------------
(* The invariant.  A play timer in the hands of the timer thread is not a     *)
(* future one, and once its callback has run the window has forgotten it.     *)

ThreadsKnown ==
    /\ DOMAIN threads = Plays
    /\ \A n \in Plays : DOMAIN threads[n] = {"pc", "kind"}

TimerInHand ==
    /\ DOMAIN timerPc = {"at", "kind", "n"} /\ timerPc.n \in Nat
    /\ timerPc.kind = "play" =>
         /\ timerPc.n \in 1 .. play.countOfTimer
         /\ timerPc.at = "returned" => play.playTimer # timerPc.n

IInv ==
    /\ Known(World)
    /\ requests \in Seq(Command)
    /\ ThreadsKnown
    /\ OneSetMediaThread
    /\ TimerInHand

\* A step of a handler leaves the threads alone and keeps the invariant.
LEMMA ContinuePreserves ==
    ASSUME IInv, NEW w, Goes(World, w), Becomes(w),
           UNCHANGED <<requests, threads>>,
           timerPc' = timerPc
    PROVE  IInv'
<1>1. /\ play' = w.play /\ queue' = w.queue /\ armed' = w.armed
      /\ Known(w) /\ Event' = Event
  BY DEF Becomes, Goes, Event
<1>2. Known(World)'
  BY <1>1 DEF Known, World, WorldFields, PlayFields
<1>3. /\ play'.mediaThread = play.mediaThread /\ play'.countOfTimer >= play.countOfTimer
      /\ play'.playTimer \in {None, play.playTimer} \/ play'.playTimer > play.countOfTimer
  BY <1>1 DEF Goes, World
<1>4. OneSetMediaThread'
  BY <1>3 DEF IInv, OneSetMediaThread, Working
<1>5. TimerInHand'
  BY <1>2, <1>3 DEF IInv, TimerInHand, Known, World, None
<1> QED BY <1>2, <1>4, <1>5 DEF IInv, ThreadsKnown

LEMMA InitInvariant == Init => IInv
<1> SUFFICES ASSUME Init PROVE IInv
  OBVIOUS
<1> DEFINE w == [play |-> Blank, queue |-> <<>>, armed |-> {}, changed |-> FALSE,
                 answers |-> [id \in Json \cup {NoJson} |-> <<>>],
                 hiReq |-> <<>>, pc |-> "idle"]
<1>1. Known(w) /\ w.play.playTimer = None /\ w.play.mediaThread = None
  BY DEF Known, Blank, WorldFields, PlayFields, None
<1>2. Started = PlayMedia(w, StartMedia, -1)
  BY DEF Started
<1> HIDE DEF w
<1>3. Goes(w, Started)
  BY <1>1, <1>2, PlayMediaGoes
<1>4. armed = Started.armed /\ play = Started.play /\ queue = Started.queue
  BY DEF Init
<1>5. Known(World)
  <2>1. /\ DOMAIN World = WorldFields /\ World.play = Started.play
        /\ World.queue = Started.queue /\ World.armed = Started.armed
    BY <1>4 DEF World, WorldFields
  <2>2. Known(Started)
    BY <1>3 DEF Goes
  <2> QED BY <2>1, <2>2 DEF Known
<1>6. ThreadsKnown
  BY DEF Init, ThreadsKnown, NoThread
<1>7. OneSetMediaThread
  BY <1>1, <1>3, <1>4 DEF Init, OneSetMediaThread, Working, NoThread, Goes, Plays, None
<1>8. TimerInHand
  BY DEF Init, TimerInHand, TimerThreadIdle, None
<1> QED BY <1>5, <1>6, <1>7, <1>8 DEF Init, IInv
\* The fields of World, and the event the player thread is about to handle.
LEMMA WorldKnown ==
    ASSUME IInv
    PROVE  /\ World.play = play /\ World.queue = queue /\ World.armed = armed
           /\ World.hiReq = hiReq /\ World.pc = "idle"
           /\ Known(World)
BY DEF World, IInv

LEMMA TakenGoes ==
    ASSUME IInv, queue # <<>>
    PROVE  Goes(World, AfterTaking) /\ Head(queue) \in Event
<1>1. queue \in Seq(Event)
  BY WorldKnown DEF Known
<1>2. Tail(queue) \in Seq(Event) /\ Head(queue) \in Event
  BY <1>1
<1>3. /\ DOMAIN AfterTaking = WorldFields /\ AfterTaking.play = play
      /\ AfterTaking.armed = armed /\ AfterTaking.queue = Tail(queue)
  BY DEF AfterTaking, World, WorldFields
<1> QED BY <1>2, <1>3, WorldKnown, OtherFields DEF Known

LEMMA HandleEventPreserves == ASSUME IInv, HandleEvent PROVE IInv'
<1> DEFINE e == Head(queue)
           w == IF e.tag = play.count /\ e.ev \in Handled(play.fsm)
                THEN HandleFsmEvent(AfterTaking, e) ELSE AfterTaking
<1>1. queue # <<>> /\ e.ev \in FsmEvents /\ Becomes(w) /\ UNCHANGED <<requests, threads, timerPc>>
  BY DEF HandleEvent, Continue
<1>2. Goes(World, w)
  BY <1>1, TakenGoes, HandleFsmEventGoes, GoesTransitive, WorldKnown DEF Goes
<1> HIDE DEF w
<1> QED BY <1>1, <1>2, ContinuePreserves

LEMMA HandleCommandPreserves == ASSUME IInv, HandleCommand PROVE IInv'
<1> DEFINE w == HandleJson(AfterTaking, Head(queue).id)
<1>1. queue # <<>> /\ Head(queue).ev = "JSON" /\ Becomes(w) /\ UNCHANGED <<requests, threads, timerPc>>
  BY DEF HandleCommand, Continue
<1>2. Head(queue).id \in DOMAIN requests
  BY <1>1, TakenGoes DEF Event, FsmEvents
<1>3. Goes(World, w)
  BY <1>1, <1>2, TakenGoes, HandleJsonGoes, GoesTransitive, WorldKnown DEF Goes, IInv
<1> HIDE DEF w
<1> QED BY <1>1, <1>3, ContinuePreserves

\* Nobody works when the pointer is NULL, so the new thread is the only one.
LEMMA CreateSetMediaThreadPreserves == ASSUME IInv, CreateSetMediaThread PROVE IInv'
<1>1. /\ DOMAIN play' = PlayFields /\ play'.mediaThread = play.count
      /\ play'.count = play.count
      /\ play'.playTimer = play.playTimer /\ play'.countOfTimer = play.countOfTimer
  BY WorldKnown DEF CreateSetMediaThread, Known, PlayFields
<1>2. UNCHANGED <<queue, requests, armed, timerPc>> /\ Event' = Event
  BY DEF CreateSetMediaThread, Event
<1>3. Known(World)'
  BY <1>1, <1>2, WorldKnown DEF Known, World, WorldFields
<1>4. OneSetMediaThread' /\ ThreadsKnown'
  <2>1. \A n \in Plays : ~ Working(n)
    BY DEF CreateSetMediaThread, IInv, OneSetMediaThread, Plays, None
  <2>2. \A n \in Plays : /\ DOMAIN threads'[n] = {"pc", "kind"}
                         /\ threads'[n].pc = IF n = play.count THEN "start" ELSE threads[n].pc
    BY DEF CreateSetMediaThread, IInv, ThreadsKnown
  <2>3. DOMAIN threads' = Plays
    BY DEF CreateSetMediaThread, IInv, ThreadsKnown
  <2> QED BY <2>1, <2>2, <2>3, <1>1 DEF OneSetMediaThread, ThreadsKnown, Working
<1>5. TimerInHand'
  BY <1>1, <1>2 DEF IInv, TimerInHand
<1> QED BY <1>2, <1>3, <1>4, <1>5 DEF IInv

LEMMA FinishOkPreserves == ASSUME IInv, FinishOk PROVE IInv'
<1> DEFINE t == StartPlayingTimer(World)
           w == ReplyPending(t, "OK")
           x == IF pc = "IMAGE_OK" THEN Enter(w, "IMAGE") ELSE w
<1>1. Becomes(x) /\ UNCHANGED <<requests, threads, timerPc>>
  BY DEF FinishOk, Continue
<1>2. Goes(World, t)
  BY WorldKnown, StartPlayingTimerGoes
<1> HIDE DEF t
<1>3. Goes(World, w)
  BY <1>2, WorldKnown, ReplyPendingGoes, GoesTransitive DEF Goes
<1> HIDE DEF w
<1>4. Goes(World, x)
  BY <1>3, WorldKnown, EnterGoes, GoesTransitive DEF Goes
<1> HIDE DEF x
<1> QED BY <1>1, <1>4, ContinuePreserves

----------------------------------------------------------------------------
(* The SetMedia threads.                                                     *)

\* Thread n goes from one place to another, the player record changes in fields
\* the argument does not look at, and no play timer is armed or removed.
LEMMA ThreadPreserves ==
    ASSUME IInv, NEW w, Becomes(w), Known(w), NEW n \in Plays,
           DOMAIN threads' = Plays, DOMAIN threads'[n] = {"pc", "kind"},
           \A m \in Plays \ {n} : threads'[m] = threads[m],
           Working(n), ~ Working(n)' => w.play.mediaThread = None,
           Working(n)' => w.play.mediaThread = play.mediaThread,
           w.play.playTimer = play.playTimer, w.play.countOfTimer = play.countOfTimer,
           UNCHANGED <<requests, timerPc>>
    PROVE  IInv'
<1>1. play' = w.play /\ queue' = w.queue /\ armed' = w.armed /\ Event' = Event
  BY DEF Becomes, Event
<1>2. Known(World)'
  <2>1. /\ (DOMAIN World = WorldFields)' /\ World'.play = w.play
        /\ World'.queue = w.queue /\ World'.armed = w.armed
    BY <1>1 DEF World, WorldFields
  <2> QED BY <2>1, <1>1 DEF Known
<1>3. OneSetMediaThread'
  <2>1. play.mediaThread = n /\ n # None
    BY DEF IInv, OneSetMediaThread, Plays, None
  <2>2. \A m \in Plays \ {n} : ~ Working(m)
    BY <2>1 DEF IInv, OneSetMediaThread
  <2>3. \A m \in Plays \ {n} : ~ Working(m)'
    BY <2>2 DEF Working
  <2>4. \A m \in Plays \ {n} : play'.mediaThread # m
    BY <1>1, <2>1 DEF Plays, None
  <2>5. Working(n)' <=> play'.mediaThread = n
    BY <1>1, <2>1
  <2>6. \A m \in Plays : Working(m)' <=> play'.mediaThread = m
    BY <2>3, <2>4, <2>5
  <2> QED BY <2>6 DEF OneSetMediaThread, Working
<1>4. TimerInHand'
  BY <1>1 DEF IInv, TimerInHand
<1>5. ThreadsKnown'
  BY DEF IInv, ThreadsKnown
<1> QED BY <1>2, <1>3, <1>4, <1>5 DEF IInv

LEMMA SetMediaStartPreserves == ASSUME IInv, NEW n \in Plays, SetMediaStart(n) PROVE IInv'
<1> DEFINE t == AddTimer(World, Timer("media", n))
           w == [t EXCEPT !.play.mediaTimer = n, !.play.mediaState = "WAITING"]
           p == [[play EXCEPT !.mediaTimer = n] EXCEPT !.mediaState = "WAITING"]
           x == [t EXCEPT !.play = p]
<1>1. Becomes(w) /\ UNCHANGED <<requests, timerPc>> /\ threads[n].pc = "start"
  BY DEF SetMediaStart
<1>2. /\ DOMAIN t = WorldFields /\ t.play = play /\ t.queue = queue
      /\ t.armed = armed \cup {Timer("media", n)}
  BY DEF AddTimer, World, WorldFields
<1>3. /\ DOMAIN p = PlayFields /\ p.count = play.count /\ p.mediaThread = play.mediaThread
      /\ p.playTimer = play.playTimer /\ p.countOfTimer = play.countOfTimer
  BY WorldKnown DEF Known, PlayFields
<1> HIDE DEF t
<1>4. w = x
  BY <1>2, WorldKnown DEF Known, WorldFields
<1>5. /\ DOMAIN x = WorldFields /\ x.play = p /\ x.queue = queue
      /\ x.armed = armed \cup {Timer("media", n)}
  BY <1>2 DEF WorldFields
<1> HIDE DEF w, x, p
<1>6. Known(x)
  BY <1>3, <1>5, WorldKnown DEF Known, Timer, Plays
<1>7. /\ DOMAIN threads' = Plays /\ DOMAIN threads'[n] = {"pc", "kind"}
      /\ threads'[n].pc = "waiting" /\ \A m \in Plays \ {n} : threads'[m] = threads[m]
  BY DEF SetMediaStart, IInv, ThreadsKnown
<1> QED BY <1>1, <1>3, <1>4, <1>5, <1>6, <1>7, ThreadPreserves DEF Working

LEMMA SetMediaEnterPreserves == ASSUME IInv, NEW n \in Plays, SetMediaEnter(n) PROVE IInv'
<1>1. /\ DOMAIN threads' = Plays /\ DOMAIN threads'[n] = {"pc", "kind"}
      /\ threads'[n].pc = "setting" /\ threads[n].pc = "waiting"
      /\ \A m \in Plays \ {n} : threads'[m] = threads[m]
  BY DEF SetMediaEnter, ThreadMoves, IInv, ThreadsKnown
<1>2. Becomes(World) /\ UNCHANGED <<requests, timerPc>>
  BY DEF SetMediaEnter, Becomes, World
<1> QED BY <1>1, <1>2, WorldKnown, ThreadPreserves DEF Working

\* After SetMedia: the pointer is NULL, the play timer is as it was.
LEMMA MediaReturnedKnown ==
    ASSUME IInv
    PROVE  /\ Known(MediaReturned) /\ MediaReturned.play.mediaThread = None
           /\ MediaReturned.play.playTimer = play.playTimer
           /\ MediaReturned.play.countOfTimer = play.countOfTimer
           /\ MediaReturned.play.count = play.count
           /\ MediaReturned.queue = queue
<1> DEFINE w == [World EXCEPT !.play.mediaState = "OK", !.play.mediaTimer = None,
                              !.play.mediaThread = None]
           p == [[[play EXCEPT !.mediaState = "OK"] EXCEPT !.mediaTimer = None]
                   EXCEPT !.mediaThread = None]
           x == [World EXCEPT !.play = p]
<1>1. /\ DOMAIN p = PlayFields /\ p.count = play.count /\ p.mediaThread = None
      /\ p.playTimer = play.playTimer /\ p.countOfTimer = play.countOfTimer
  BY WorldKnown DEF Known, PlayFields
<1>2. w = x
  BY WorldKnown DEF Known, WorldFields
<1>3. DOMAIN w = WorldFields /\ w.play = p /\ w.queue = queue /\ w.armed = armed
  BY <1>2, WorldKnown DEF Known, WorldFields
<1>4. MediaReturned \in {w, RemoveTimer(w, Timer("media", play.mediaTimer))}
  BY DEF MediaReturned
<1> HIDE DEF w, x, p
<1>5. /\ DOMAIN MediaReturned = WorldFields /\ MediaReturned.play = p
      /\ MediaReturned.queue = queue
      /\ MediaReturned.armed \in {armed, armed \ {Timer("media", play.mediaTimer)}}
  BY <1>3, <1>4 DEF RemoveTimer, WorldFields
<1> QED BY <1>1, <1>5, WorldKnown DEF Known, Timer

LEMMA SetMediaDone ==
    ASSUME IInv, NEW n \in Plays, ThreadMoves(n, "setting", "done"),
           NEW w, Goes(MediaReturned, w), Becomes(w),
           w.play.playTimer = play.playTimer, w.play.countOfTimer = play.countOfTimer,
           UNCHANGED <<requests, timerPc>>
    PROVE  IInv'
<1>1. /\ DOMAIN threads' = Plays /\ DOMAIN threads'[n] = {"pc", "kind"}
      /\ threads'[n].pc = "done" /\ threads[n].pc = "setting"
      /\ \A m \in Plays \ {n} : threads'[m] = threads[m]
  BY DEF ThreadMoves, IInv, ThreadsKnown
<1>2. Known(w) /\ w.play.mediaThread = None
  BY MediaReturnedKnown DEF Goes
<1> QED BY <1>1, <1>2, ThreadPreserves DEF Working

\* Sending and calling the library leave the play record alone.
LEMMA PlayUntouched ==
    ASSUME NEW w, Known(w), NEW req, NEW ev
    PROVE  HiCall(w, req).play = w.play /\ Send(w, ev).play = w.play
BY DEF HiCall, Send, Known, WorldFields

LEMMA SetMediaFailsPreserves == ASSUME IInv, NEW n \in Plays, SetMediaFails(n) PROVE IInv'
<1> DEFINE r == MediaReturned
           s == StopPlaying(r)
           w == Send(s, "FAIL")
<1>1. Becomes(w) /\ ThreadMoves(n, "setting", "done") /\ UNCHANGED <<requests, timerPc>>
  BY DEF SetMediaFails
<1>2. Goes(r, s) /\ Known(r) /\ Known(s) /\ s.play = r.play
  BY MediaReturnedKnown, StopPlayingGoes, PlayUntouched DEF StopPlaying, Goes
<1> HIDE DEF s
<1>3. Goes(s, w) /\ w.play = s.play
  BY <1>2, SendGoes, PlayUntouched DEF FsmEvents, Plays
<1> HIDE DEF w
<1>4. Goes(r, w)
  BY <1>2, <1>3, GoesTransitive
<1> QED BY <1>1, <1>2, <1>3, <1>4, MediaReturnedKnown, SetMediaDone

LEMMA SetMediaSucceedsPreserves == ASSUME IInv, NEW n \in Plays, SetMediaSucceeds(n) PROVE IInv'
<1> DEFINE r == MediaReturned
           called == HiCall(r, "Play")
           playing == Fsm("STATE_CHANGED", play.count, "PLAY")
           reported == [r EXCEPT !.queue = Append(@, playing)]
<1>1. /\ ThreadMoves(n, "setting", "done") /\ UNCHANGED <<requests, timerPc>>
      /\ Becomes(Send(called, "OK")) \/ Becomes(Send(reported, "OK"))
  BY DEF SetMediaSucceeds
<1>2. Goes(r, called) /\ called.play = r.play
  BY MediaReturnedKnown, HiCallGoes, PlayUntouched
<1>3. Goes(r, reported) /\ reported.play = r.play
  <2>1. playing \in Event
    BY WorldKnown DEF Known, Event, Fsm, FsmEvents, HiStates, None
  <2>2. Append(r.queue, playing) \in Seq(Event)
    BY <2>1, MediaReturnedKnown DEF Known
  <2> HIDE DEF playing
  <2> QED BY <2>2, MediaReturnedKnown DEF Goes, Known, WorldFields, None
<1> HIDE DEF called, reported
<1>4. ASSUME NEW x, Goes(r, x), x.play = r.play, Becomes(Send(x, "OK")) PROVE IInv'
  <2> DEFINE w == Send(x, "OK")
  <2>0. Known(x) /\ "OK" \in FsmEvents /\ n \in Nat
    BY <1>4 DEF FsmEvents, Plays, Goes
  <2>1. Goes(x, w) /\ w.play = x.play
    BY <2>0, SendGoes, PlayUntouched
  <2>2. Becomes(w)
    BY <1>4
  <2> HIDE DEF w
  <2>3. Goes(r, w)
    BY <1>4, <2>1, GoesTransitive, MediaReturnedKnown
  <2> QED BY <1>1, <1>4, <2>1, <2>2, <2>3, MediaReturnedKnown, SetMediaDone
<1> QED BY <1>1, <1>2, <1>3, <1>4

----------------------------------------------------------------------------
(* The timer thread, HiPlayer and the clients.                               *)

LEMMA TimerFiresPreserves == ASSUME IInv, NEW t \in armed, TimerFires(t) PROVE IInv'
<1>1. /\ UNCHANGED <<play, queue, requests, threads, armed>> /\ Event' = Event
      /\ DOMAIN timerPc' = {"at", "kind", "n"} /\ timerPc'.kind = t.kind /\ timerPc'.n = t.n
      /\ t.kind = "play" => timerPc'.at = "called"
  BY DEF TimerFires, Event
<1>2. Known(World)' /\ OneSetMediaThread' /\ ThreadsKnown'
  BY <1>1, WorldKnown DEF World, Known, IInv, OneSetMediaThread, Working, ThreadsKnown
<1>3. t \in [kind : {"media", "play"}, n : Nat]
  BY WorldKnown DEF Known
<1>4. t.kind = "play" => t = Timer("play", t.n)
  BY <1>3 DEF Timer
<1>5. t.kind = "play" => t.n \in 1 .. play.countOfTimer
  BY <1>3, <1>4, WorldKnown DEF Known
<1>6. TimerInHand'
  BY <1>1, <1>3, <1>5 DEF TimerInHand
<1> QED BY <1>1, <1>2, <1>6 DEF IInv

\* A step that changes nothing of the play record but fields the argument does
\* not look at, and no thread.
LEMMA CallbackPreserves ==
    ASSUME IInv, NEW w, Goes(World, w), Becomes(w), UNCHANGED <<requests, threads>>,
           DOMAIN timerPc' = {"at", "kind", "n"}, timerPc'.kind = timerPc.kind,
           timerPc'.n = timerPc.n,
           timerPc.kind = "play" => w.play.playTimer = None
    PROVE  IInv'
<1>1. play' = w.play /\ queue' = w.queue /\ armed' = w.armed /\ Known(w) /\ Event' = Event
  BY DEF Becomes, Goes, Event
<1>2. Known(World)'
  <2>1. /\ (DOMAIN World = WorldFields)' /\ World'.play = w.play
        /\ World'.queue = w.queue /\ World'.armed = w.armed
    BY <1>1 DEF World, WorldFields
  <2> QED BY <2>1, <1>1 DEF Known
<1>3. play'.mediaThread = play.mediaThread /\ play'.countOfTimer >= play.countOfTimer
  BY <1>1 DEF Goes, World
<1>4. OneSetMediaThread' /\ ThreadsKnown'
  BY <1>3 DEF IInv, OneSetMediaThread, Working, ThreadsKnown
<1>5. play.countOfTimer \in Nat /\ play'.countOfTimer \in Nat
  BY <1>1, WorldKnown DEF Known
<1>6. timerPc'.n \in Nat /\ (timerPc'.kind = "play" => timerPc'.n \in 1 .. play'.countOfTimer)
  BY <1>3, <1>5 DEF IInv, TimerInHand
<1>7. timerPc'.kind = "play" => play'.playTimer # timerPc'.n
  BY <1>1, <1>6 DEF None
<1>8. TimerInHand'
  BY <1>6, <1>7 DEF TimerInHand
<1> QED BY <1>2, <1>4, <1>8 DEF IInv

LEMMA MediaTimeoutPreserves == ASSUME IInv, MediaTimeout PROVE IInv'
<1> DEFINE x == [World EXCEPT !.play.mediaTimer = None]
           w == Send(x, "FAIL")
<1>1. /\ Becomes(w) /\ UNCHANGED <<requests, threads>> /\ timerPc.kind = "media"
      /\ timerPc' = [timerPc EXCEPT !.at = "returned"]
  BY DEF MediaTimeout, CallbackReturns
<1>2. /\ DOMAIN timerPc' = {"at", "kind", "n"} /\ timerPc'.kind = timerPc.kind
      /\ timerPc'.n = timerPc.n /\ timerPc.n \in Nat
  BY <1>1 DEF IInv, TimerInHand
<1>3. Goes(World, x)
  BY WorldKnown DEF Goes, Known, WorldFields, PlayFields, None
<1> HIDE DEF x
<1>4. Goes(World, w)
  BY <1>2, <1>3, WorldKnown, SendGoes, GoesTransitive DEF Goes, FsmEvents
<1> HIDE DEF w
<1> QED BY <1>1, <1>2, <1>4, CallbackPreserves

LEMMA PlayTimeoutPreserves == ASSUME IInv, PlayTimeout PROVE IInv'
<1> DEFINE x == [World EXCEPT !.play.mediaState = "TIMEOUT"]
           s == Send(x, "TIMEOUT")
           w == [s EXCEPT !.play.playTimer = None]
<1>1. /\ Becomes(w) /\ UNCHANGED <<requests, threads>>
      /\ timerPc' = [timerPc EXCEPT !.at = "returned"]
  BY DEF PlayTimeout, CallbackReturns
<1>2. /\ DOMAIN timerPc' = {"at", "kind", "n"} /\ timerPc'.kind = timerPc.kind
      /\ timerPc'.n = timerPc.n
  BY <1>1 DEF IInv, TimerInHand
<1>3. Goes(World, x)
  BY WorldKnown DEF Goes, Known, WorldFields, PlayFields, None
<1> HIDE DEF x
<1>4. Goes(World, s)
  BY <1>3, WorldKnown, SendGoes, GoesTransitive DEF Goes, FsmEvents, None
<1> HIDE DEF s
<1>5. Goes(World, w)
  BY <1>4, WorldKnown, ForgetTimerGoes, GoesTransitive DEF Goes
<1>6. w.play.playTimer = None
  BY <1>4 DEF Goes, Known, WorldFields, PlayFields
<1> HIDE DEF w
<1> QED BY <1>1, <1>2, <1>5, <1>6, CallbackPreserves

\* The timer that goes is not the one the window knows of: that one is newer,
\* or there is none.
LEMMA TimerEndsPreserves == ASSUME IInv, TimerEnds PROVE IInv'
<1> DEFINE gone == Timer(timerPc.kind, timerPc.n)
<1>1. /\ UNCHANGED <<play, queue, requests, threads>> /\ Event' = Event
      /\ armed' \in {armed, armed \ {gone}} /\ timerPc.at = "returned"
      /\ timerPc' = TimerThreadIdle
  BY DEF TimerEnds, Event
<1>2. play.playTimer # None => Timer("play", play.playTimer) # gone
  BY <1>1 DEF IInv, TimerInHand, Timer
<1> HIDE DEF gone
<1>3. Known(World)'
  <2>1. /\ (DOMAIN World = WorldFields)' /\ World'.play = play
        /\ World'.queue = queue /\ World'.armed = armed'
    BY <1>1 DEF World, WorldFields
  <2> QED BY <2>1, <1>1, <1>2, WorldKnown DEF Known
<1>4. OneSetMediaThread' /\ ThreadsKnown' /\ TimerInHand'
  BY <1>1 DEF IInv, OneSetMediaThread, Working, ThreadsKnown, TimerInHand, TimerThreadIdle, None
<1> QED BY <1>1, <1>3, <1>4 DEF IInv

\* A step that only adds an event to the queue.
LEMMA QueuePreserves ==
    ASSUME IInv, queue' \in Seq(Event'), requests' \in Seq(Command),
           UNCHANGED <<play, armed, threads, timerPc>>
    PROVE  IInv'
<1>1. Known(World)'
  <2>1. /\ (DOMAIN World = WorldFields)' /\ World'.play = play
        /\ World'.queue = queue' /\ World'.armed = armed
    BY DEF World, WorldFields
  <2> QED BY <2>1, WorldKnown DEF Known
<1> QED BY <1>1 DEF IInv, OneSetMediaThread, Working, ThreadsKnown, TimerInHand

LEMMA CallbackQueues ==
    ASSUME IInv, NEW ev \in FsmEvents, NEW state \in HiStates, Callback(ev, state)
    PROVE  queue' \in Seq(Event)
<1>1. Fsm(ev, play.count, state) \in Event
  BY WorldKnown DEF Known, Event, Fsm, None
<1>2. queue \in Seq(Event)
  BY WorldKnown DEF Known
<1> QED BY <1>1, <1>2 DEF Callback

LEMMA HiPlayerPreserves == ASSUME IInv, HiPlayer PROVE IInv'
<1>1. UNCHANGED <<play, armed, threads, timerPc, requests>> /\ Event' = Event
  BY DEF HiPlayer, HiWork, HiEnds, HiRewound, HiUnchanged, HiServes, Event
<1>2. \/ UNCHANGED queue
      \/ \E ev \in FsmEvents, state \in HiStates : Callback(ev, state)
  <2>1. /\ \A state \in {"PLAY", "FORWARD", "BACKWARD", "PAUSE", "STOP"} : state \in HiStates
        /\ {"STATE_CHANGED", "SEEK_FINISHED", "SOF"} \subseteq FsmEvents
    BY DEF HiStates, FsmEvents
  <2>2. CASE HiWork
    BY <2>1, <2>2 DEF HiWork, HiServes, MovesFrom, HiMoves
  <2>3. CASE HiEnds
    BY <2>1, <2>3 DEF HiEnds, HiMoves
  <2>4. CASE HiRewound
    BY <2>1, <2>4 DEF HiRewound
  <2> QED BY <2>2, <2>3, <2>4 DEF HiPlayer
<1>3. queue' \in Seq(Event)
  BY <1>2, CallbackQueues, WorldKnown DEF Known
<1> QED BY <1>1, <1>3, QueuePreserves DEF IInv

LEMMA SendCommandPreserves ==
    ASSUME IInv, NEW command \in Command, SendCommand(command) PROVE IInv'
<1> DEFINE e == [ev |-> "JSON", id |-> Len(requests) + 1]
<1>1. requests' = Append(requests, command) /\ UNCHANGED <<play, armed, threads, timerPc>>
      /\ queue' \in {queue, Append(queue, e)}
  BY DEF SendCommand
<1>2. /\ requests' \in Seq(Command) /\ DOMAIN requests \subseteq DOMAIN requests'
      /\ Len(requests) + 1 \in DOMAIN requests'
  BY <1>1 DEF IInv
<1>3. Event \subseteq Event' /\ e \in Event'
  BY <1>2 DEF Event
<1>4. queue \in Seq(Event) /\ queue \in Seq(Event')
  BY <1>3, WorldKnown DEF Known
<1> HIDE DEF e
<1>5. queue' \in Seq(Event')
  BY <1>1, <1>3, <1>4
<1> QED BY <1>1, <1>2, <1>5, QueuePreserves

----------------------------------------------------------------------------
(* The theorems.                                                             *)

LEMMA StepInvariant == IInv /\ [Next]_vars => IInv'
<1> SUFFICES ASSUME IInv, [Next]_vars PROVE IInv'
  OBVIOUS
<1>1. CASE PlayerThread
  BY <1>1, HandleEventPreserves, HandleCommandPreserves, CreateSetMediaThreadPreserves,
     FinishOkPreserves DEF PlayerThread
<1>2. ASSUME NEW n \in Plays, MediaThread(n) PROVE IInv'
  BY <1>2, SetMediaStartPreserves, SetMediaEnterPreserves, SetMediaFailsPreserves,
     SetMediaSucceedsPreserves DEF MediaThread
<1>3. CASE TimerThread
  BY <1>3, TimerFiresPreserves, MediaTimeoutPreserves, PlayTimeoutPreserves,
     TimerEndsPreserves DEF TimerThread
<1>4. CASE HiPlayer
  BY <1>4, HiPlayerPreserves
<1>5. ASSUME NEW command \in Command, SendCommand(command) PROVE IInv'
  BY <1>5, SendCommandPreserves
<1>6. CASE UNCHANGED vars
  <2>1. queue \in Seq(Event') /\ requests \in Seq(Command)
    BY <1>6, WorldKnown DEF vars, Known, Event, IInv
  <2> QED BY <1>6, <2>1, QueuePreserves DEF vars
<1> QED BY <1>1, <1>2, <1>3, <1>4, <1>5, <1>6 DEF Next

LEMMA Invariant == Spec => []IInv
BY InitInvariant, StepInvariant, PTL DEF Spec

\* At most one SetMedia thread works for a window and mediaThread is it, for
\* every set of media and commands and every size of the queue: a new thread is
\* created only after the last one has cleared the pointer under PLAY_LOCK.
THEOREM OneThread == Spec => []OneSetMediaThread
<1>1. IInv => OneSetMediaThread
  BY DEF IInv
<1> QED BY <1>1, Invariant, PTL

\* The play timer of the window can always be removed: the abort of
\* muxPlayerRemovePlayingTimer is never reached, however timer callbacks that
\* stay armed, commands and the end of media interleave.
THEOREM TimerRemovable == Spec => []PlayTimerRemovable
<1>1. IInv => PlayTimerRemovable
  BY WorldKnown DEF PlayTimerRemovable, Known
<1> QED BY <1>1, Invariant, PTL

=============================================================================
