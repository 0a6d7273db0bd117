----------------------------- MODULE MuxPlayer -----------------------------
(***************************************************************************)
(* One window of the player plugin: the player thread with its event queue *)
(* and state machine (muxPlayerFsm.c, muxPlayerJSon.c), the thread that is *)
(* created for every stream to call the blocking SetMedia                  *)
(* (muxRxPlayCmdSetMedia.c), the timer thread that runs the two timeout    *)
(* callbacks of the window, and the HiPlayer library underneath, which is  *)
(* not part of the program and is modelled from its header's contract.     *)
(*                                                                         *)
(* The player thread handles one queued event at a time.  A handler is one *)
(* step of the model unless it waits: for the previous SetMedia thread     *)
(* (muxRxPlayerSetMedia) or for the previous play timer                    *)
(* (muxPlayerStartPlayingTimer).  A region under PLAY_LOCK is one step.    *)
(*                                                                         *)
(* The handlers are written as operators on a record w that holds what the *)
(* player thread can change, so that a handler that calls a helper in C    *)
(* applies the operator of that helper here.                               *)
(***************************************************************************)
EXTENDS Integers, Sequences, FiniteSets

CONSTANTS
    MaxJson,       \* number of commands the clients send
    Cmds,          \* the commands they choose from
    Media,         \* name of a file, stream or playlist -> its items
    Playlists,     \* the names that are configured playlists
    Repeats,       \* the repeat numbers of play commands, -1 when a command has none
    StartMedia,    \* the media configured for the window at startup
    SpeedCount,    \* number of entries in _playSpeeds
    SpeedDefault,  \* index of the normal speed
    QueueSize,     \* capacity of the player thread's fifo
    MaxPlays,      \* bound on countOfPlay, the most any behaviour of the run reaches
    EndsUntil      \* bound: the last play that ends by itself (0: all go on for ever)

\* Kinds of playlist item: what IS_LOCAL_IMAGE_FILE, the image check, the
\* decoder and SetMedia make of a url.
Kinds == {"stream", "dead", "image", "badImage", "remoteImage"}

ASSUME ConstantsAssumption ==
    /\ MaxJson \in Nat /\ Repeats \subseteq Nat \cup {-1} /\ QueueSize \in Nat
    /\ MaxPlays \in Nat \ {0} /\ EndsUntil \in Nat
    /\ SpeedCount \in Nat /\ SpeedDefault \in 0 .. SpeedCount - 1
    /\ StartMedia \in DOMAIN Media /\ Playlists \subseteq DOMAIN Media
    /\ \A m \in DOMAIN Media : /\ Media[m] \in Seq([kind : Kinds, timed : BOOLEAN])
                               /\ Len(Media[m]) > 0
                               /\ m \notin Playlists => Len(Media[m]) = 1
    /\ Cmds \subseteq {"OPEN", "STOP", "PAUSE", "RESUME", "FORWARD", "BACKWARD"}

VARIABLES
    play,       \* the MUX_PLAY_T of the window
    queue,      \* the fifo of the player thread
    pc,         \* where the player thread is: idle, or waiting in a handler
    requests,   \* the commands sent so far; the i-th is the JSON event i
    answers,    \* the replies each command got; NoJson: replies through NULL,
                \* where the model goes on and the program may crash
    threads,    \* the SetMedia threads, one per play that needs one
    armed,      \* the timers of the window in the timer thread's list
    changed,    \* the timer list's timersChanged
    timerPc,    \* the callback the timer thread is in
    hi,         \* the state of HiPlayer
    hiReq       \* asynchronous requests HiPlayer has accepted, in order

vars == <<play, queue, pc, requests, answers, threads, armed, changed,
          timerPc, hi, hiReq>>

NoJson == 0
Json == 1 .. MaxJson
None == 0                       \* a NULL thread or timer pointer

Plays == 1 .. MaxPlays

FsmStates == {"INIT", "PLAY", "FORWARD", "BACKWARD", "PAUSE", "STOP", "IMAGE"}
HiStates  == {"INIT", "PLAY", "FORWARD", "BACKWARD", "PAUSE", "STOP"}
HiRunning == {"PLAY", "FORWARD", "BACKWARD", "PAUSE"}
FsmEvents == {"STATE_CHANGED", "SEEK_FINISHED", "SOF", "TIMEOUT", "FAIL", "OK",
              "IMAGE_OK", "END"}

FsmEvent == [ev : FsmEvents, tag : 0 .. MaxPlays, val : HiStates]
JsonEvent == [ev : {"JSON"}, id : Json]

\* An event as the queue holds it.  tag is statusCode, the countOfPlay at the
\* moment of sending; val is the state a STATE_CHANGED or SOF reports (STOP
\* elsewhere).
Fsm(ev, tag, val) == [ev |-> ev, tag |-> tag, val |-> val]

Timer(kind, n) == [kind |-> kind, n |-> n]
TimerThreadIdle == [at |-> "idle", kind |-> "none", n |-> None]

----------------------------------------------------------------------------
(* Helpers the handlers call.  w is the part of the state the player thread, *)
(* a SetMedia thread or a timeout callback changes under PLAY_LOCK.          *)

World == [play |-> play, queue |-> queue, answers |-> answers, armed |-> armed,
          changed |-> changed, hiReq |-> hiReq, pc |-> "idle"]

Becomes(w) ==
    /\ play' = w.play /\ queue' = w.queue /\ answers' = w.answers
    /\ armed' = w.armed /\ changed' = w.changed /\ hiReq' = w.hiReq

\* muxPlayerReportFsmEvent: a full queue loses the event, nobody is told.
Send(w, ev) ==
    IF Len(w.queue) < QueueSize
    THEN [w EXCEPT !.queue = Append(@, Fsm(ev, w.play.count, "STOP"))]
    ELSE w

\* An asynchronous call of the library; a second Stop right behind a Stop
\* changes nothing.
HiCall(w, req) ==
    IF req = "Stop" /\ w.hiReq # <<>> /\ w.hiReq[Len(w.hiReq)] = "Stop"
    THEN w
    ELSE [w EXCEPT !.hiReq = Append(@, req)]

\* cmnMuxJsonPluginReplay: the answer goes out and the JSON event is freed.
Reply(w, id, answer) == [w EXCEPT !.answers[id] = Append(@, answer)]

\* PLAYER_SET_CURRENT_CMD, and the two assignments that undo it.
SetCurrentCmd(w, cmd, id) == [w EXCEPT !.play.cmd = cmd, !.play.data = id]
ClearCurrentCmd(w) == SetCurrentCmd(w, "UNKNOWN", NoJson)

\* if(jsonEvent) reply; then clear.
ReplyPending(w, answer) ==
    ClearCurrentCmd(IF w.play.data = NoJson THEN w ELSE Reply(w, w.play.data, answer))

\* muxPlayerCheckStatus: in INIT and STOP it says yes whatever is asked.
CheckStatus(w, state) == hi = state \/ w.play.fsm \in {"INIT", "STOP"}

StopPlaying(w) == IF CheckStatus(w, "PLAY") THEN HiCall(w, "Stop") ELSE w

\* cmn_remove_timer and cmn_add_timer on the window's part of the list.
RemoveTimer(w, t) == [w EXCEPT !.armed = @ \ {t}, !.changed = TRUE]
AddTimer(w, t) == [w EXCEPT !.armed = @ \cup {t}, !.changed = TRUE]

RemovePlayingTimer(w) ==
    IF w.play.playTimer = None THEN w
    ELSE [RemoveTimer(w, Timer("play", w.play.playTimer)) EXCEPT !.play.playTimer = None]

CurrentItem(w) == Media[w.play.list][w.play.index]

\* muxPlayerInitCurrentPlaylist; it also resets the speed.  Without a repeat
\* number a playlist goes on for ever (repeat 0) and a file is played once.
InitCurrentPlaylist(w, media, repeatNumber) ==
    [w EXCEPT !.play.list = media, !.play.index = 1, !.play.round = 0,
              !.play.speed = SpeedDefault,
              !.play.repeat = IF repeatNumber >= 0 THEN repeatNumber
                              ELSE IF media \in Playlists THEN 0 ELSE 1]

\* muxPlayerUpdateCurrentPlaylist: is there another item, and which.
Unlimited(w) == w.play.repeat = 0
ListHasMore(w) == w.play.index < Len(Media[w.play.list])
\* Mutant: the last round is counted once too often.
MutRoundsLeft(w) == w.play.round < w.play.repeat
RoundsLeft(w) == w.play.round < w.play.repeat - 1
UpdateCurrentPlaylist(w) ==
    IF ListHasMore(w) THEN [w EXCEPT !.play.index = @ + 1]
    ELSE IF Unlimited(w) THEN InitCurrentPlaylist(w, w.play.list, w.play.repeat)
    ELSE [w EXCEPT !.play.index = 1, !.play.round = @ + 1]

\* The second half of muxPlayerPlaying, for the item that is current now.  A
\* stream leaves the handler waiting for the previous SetMedia thread.
Playable(w) == CurrentItem(w).kind # "remoteImage"
PlayCurrent(w) ==
    LET item == CurrentItem(w)
        next == [w EXCEPT !.play.count = @ + 1]
    IN  CASE item.kind = "remoteImage" -> w
          [] item.kind = "image"    -> Send(next, "IMAGE_OK")
          [] item.kind = "badImage" -> Send(next, "FAIL")
          [] OTHER -> [next EXCEPT !.play.mediaState = "INIT", !.pc = "setMedia"]

\* muxPlayerPlaying with isInit TRUE and FALSE.
PlayMedia(w, media, repeatNumber) ==
    PlayCurrent(InitCurrentPlaylist(w, media, repeatNumber))
PlayAsked(w, id) == PlayMedia(w, requests[id].media, requests[id].repeat)
PlayNext(w) ==
    IF ListHasMore(w) \/ Unlimited(w) \/ RoundsLeft(w)
    THEN PlayCurrent(UpdateCurrentPlaylist(w))
    ELSE StopPlaying(w)

----------------------------------------------------------------------------
(* The state machine: the handler tables, the enter handlers, and what each  *)
(* event handler does.                                                       *)

Always == {"STATE_CHANGED", "TIMEOUT", "FAIL", "OK"}
Handled(state) ==
    CASE state \in {"INIT", "BACKWARD"} -> FsmEvents \ {"END"}
      [] state = "PLAY"                 -> FsmEvents
      [] state \in {"FORWARD", "PAUSE"} -> FsmEvents \ {"SOF", "END"}
      [] state = "STOP"                 -> FsmEvents \ {"SOF"}
      [] state = "IMAGE"                -> Always \cup {"END"}

\* The pending commands an enter handler answers with success; any other
\* pending command is answered NOT_SUPPORT.
Welcome(state) ==
    CASE state = "PLAY" -> {"OPEN", "RESUME"} [] OTHER -> {state}
Answering(state) == state \in {"PLAY", "FORWARD", "BACKWARD", "PAUSE"}

\* Mutants: entering a state answers whether or not a command is pending, and
\* answers a command without forgetting it.
MutAnswerAlways(w, state) ==
    IF state = "STOP" THEN RemovePlayingTimer(w)
    ELSE IF ~ Answering(state) THEN w
    ELSE ClearCurrentCmd(
             Reply(w, w.play.data, IF w.play.cmd \in Welcome(state) THEN "OK" ELSE "NOK"))

MutAnswerAndKeep(w, state) ==
    IF state = "STOP" THEN RemovePlayingTimer(w)
    ELSE IF ~ Answering(state) \/ w.play.cmd = "UNKNOWN" THEN w
    ELSE Reply(w, w.play.data, IF w.play.cmd \in Welcome(state) THEN "OK" ELSE "NOK")

EnterHandler(w, state) ==
    IF state = "STOP" THEN RemovePlayingTimer(w)
    ELSE IF ~ Answering(state) THEN w
    ELSE IF w.play.cmd = "UNKNOWN" THEN ClearCurrentCmd(w)
    ELSE ClearCurrentCmd(
             Reply(w, w.play.data, IF w.play.cmd \in Welcome(state) THEN "OK" ELSE "NOK"))

\* cmnFsmHandle: entering the state one is in does nothing.
Enter(w, state) ==
    IF state = w.play.fsm THEN w
    ELSE [EnterHandler(w, state) EXCEPT !.play.fsm = state]

\* __playRestart: the queue of the window after a media has been stopped.
PlayRestart(w) ==
    IF w.play.data = NoJson THEN PlayNext(w)
    ELSE CASE w.play.cmd = "OPEN" ->
                LET opened == PlayAsked(w, w.play.data)
                IN  IF Playable(opened) THEN opened ELSE Reply(opened, w.play.data, "NOK")
           [] w.play.cmd = "STOP" -> ReplyPending(w, "OK")
           [] OTHER -> w

OnStateChanged(w, state) ==
    Enter(IF state = "STOP" THEN HiCall(w, "Seek") ELSE w, state)

OnSof(w, state) ==
    Enter(IF state = "BACKWARD" THEN HiCall(w, "Play") ELSE w, state)

OnSeekFinished(w) == IF w.play.fsm = "STOP" THEN PlayRestart(w) ELSE w

\* End of an image: the window goes to STOP by itself and reports the end of
\* the seek that a stream would have made.
LeaveImage(w) == Enter(Send(w, "SEEK_FINISHED"), "STOP")

\* _playerTimeoutHandlerInPlaying in PLAY and IMAGE, _playerTimeoutHandler
\* elsewhere.  The first forgets the timer without removing it.
\* Mutant: in PLAY the next item is played without stopping this one.
MutOnTimeout(w) ==
    CASE w.play.fsm = "IMAGE" -> LeaveImage([w EXCEPT !.play.playTimer = None])
      [] w.play.fsm \in {"INIT", "STOP"} -> w
      [] OTHER -> PlayNext([w EXCEPT !.play.playTimer = None])

OnTimeout(w) ==
    CASE w.play.fsm = "IMAGE" -> LeaveImage([w EXCEPT !.play.playTimer = None])
      [] w.play.fsm = "PLAY"  -> StopPlaying([w EXCEPT !.play.playTimer = None])
      [] w.play.fsm \in {"INIT", "STOP"} -> w
      [] OTHER -> PlayNext(w)

OnEnd(w) == IF w.play.fsm = "IMAGE" THEN LeaveImage(w) ELSE StopPlaying(w)

\* Mutant: a failed play is only logged.
MutOnFail(w) == ClearCurrentCmd(w)

OnFail(w) == ReplyPending(w, "NOK")

\* The OK handlers first start the play timer, and may wait for the old one.
OnOk(w, ev) == [w EXCEPT !.pc = ev]

HandleFsmEvent(w, e) ==
    CASE e.ev = "STATE_CHANGED" -> OnStateChanged(w, e.val)
      [] e.ev = "SOF"           -> OnSof(w, e.val)
      [] e.ev = "SEEK_FINISHED" -> OnSeekFinished(w)
      [] e.ev = "TIMEOUT"       -> OnTimeout(w)
      [] e.ev = "END"           -> OnEnd(w)
      [] e.ev = "FAIL"          -> OnFail(w)
      [] e.ev \in {"OK", "IMAGE_OK"} -> OnOk(w, e.ev)

----------------------------------------------------------------------------
(* The commands.  Each operator is one handler of _jsonPlayerActionHandlers. *)

Stream(w) == w.play.fsm \notin {"STOP", "INIT", "IMAGE"}

PlayCommand(w, id) ==
    LET quiet == RemovePlayingTimer(w)
    IN  IF w.play.fsm = "PAUSE" THEN Reply(w, id, "NOK")
        ELSE SetCurrentCmd(
               CASE Stream(w)           -> StopPlaying(quiet)
                 [] w.play.fsm = "IMAGE" -> Send(quiet, "END")
                 [] OTHER                -> PlayAsked(quiet, id),
               "OPEN", id)

StopCommand(w, id) ==
    LET quiet == RemovePlayingTimer(w)
    IN  CASE w.play.fsm = "PAUSE" -> Reply(w, id, "NOK")
          [] w.play.fsm = "IMAGE" -> SetCurrentCmd(Send(quiet, "TIMEOUT"), "STOP", id)
          [] Stream(w) -> SetCurrentCmd(StopPlaying(quiet), "STOP", id)
          [] OTHER     -> Reply(quiet, id, "OK")

\* A refused pause, resume or change of speed is answered NOERROR with a text
\* that says it failed: for the client that is an OK.
PauseCommand(w, id) ==
    CASE w.play.fsm = "PAUSE" -> Reply(w, id, "NOK")
      [] w.play.fsm \in {"FORWARD", "BACKWARD", "IMAGE"} \/ hi # "PLAY" -> Reply(w, id, "OK")
      [] OTHER -> SetCurrentCmd(HiCall(w, "Pause"), "PAUSE", id)

Resumable == {"PAUSE", "FORWARD", "BACKWARD"}
ResumeCommand(w, id) ==
    IF w.play.fsm \notin Resumable \/ hi \notin Resumable THEN Reply(w, id, "OK")
    ELSE SetCurrentCmd(HiCall([w EXCEPT !.play.speed = SpeedDefault], "Resume"), "RESUME", id)

\* muxPlayerPlayspeedSet: at the normal speed the command becomes a resume;
\* elsewhere TPlay is called and the client is answered at once.  The index
\* is put back only when TPlay fails.
\* Mutant: a change of speed is also left to the state machine to answer.
MutPlayspeedSet(w, id, index) ==
    LET faster == [w EXCEPT !.play.speed = index]
    IN  IF index = SpeedDefault THEN ResumeCommand(faster, id)
        ELSE IF hi \notin HiRunning THEN Reply(w, id, "NOK")
        ELSE SetCurrentCmd(
               Reply(HiCall(faster, IF index > SpeedDefault THEN "Forward" ELSE "Backward"), id, "OK"),
               "RESUME", id)

PlayspeedSet(w, id, index) ==
    LET faster == [w EXCEPT !.play.speed = index]
    IN  IF index = SpeedDefault THEN ResumeCommand(faster, id)
        ELSE IF hi \notin HiRunning THEN Reply(w, id, "NOK")
        ELSE Reply(HiCall(faster, IF index > SpeedDefault THEN "Forward" ELSE "Backward"), id, "OK")

\* At the end of the speed table the handler returns with no answer and no
\* current command.
SpeedCommand(w, id, delta) ==
    LET index == w.play.speed + delta
    IN  IF w.play.fsm = "IMAGE" THEN Reply(w, id, "OK")
        ELSE IF index \in 0 .. SpeedCount - 1 THEN PlayspeedSet(w, id, index)
        ELSE w

\* Mutant: only IS_PLAYER_SET_MEDIA is asked.
MutBusy(w) == w.play.mediaState = "WAITING"

\* IS_PLAYER_SET_MEDIA and IS_PLAYER_BUSY.
Busy(w) == w.play.mediaState = "WAITING" \/ w.play.cmd # "UNKNOWN"

HandleJson(w, id) ==
    IF Busy(w) THEN Reply(w, id, "NOK")
    ELSE LET cmd == requests[id].cmd
         IN  CASE cmd = "OPEN"     -> PlayCommand(w, id)
               [] cmd = "STOP"     -> StopCommand(w, id)
               [] cmd = "PAUSE"    -> PauseCommand(w, id)
               [] cmd = "RESUME"   -> ResumeCommand(w, id)
               [] cmd = "FORWARD"  -> SpeedCommand(w, id, 1)
               [] cmd = "BACKWARD" -> SpeedCommand(w, id, -1)

----------------------------------------------------------------------------
(* Startup: the window is in INIT, with OPEN as its current command and no   *)
(* JSON event behind it, and muxPlayerPlaying is called for the configured   *)
(* media (muxRxInitPlayer.c).                                                *)

Blank == [fsm |-> "INIT", cmd |-> "OPEN", data |-> NoJson, count |-> 0,
          mediaState |-> "INIT", mediaThread |-> None, mediaTimer |-> None,
          playTimer |-> None, countOfTimer |-> 0, speed |-> SpeedDefault,
          list |-> StartMedia, index |-> 1, round |-> 0, repeat |-> 1]

Started == PlayMedia([play |-> Blank, queue |-> <<>>, armed |-> {}, changed |-> FALSE,
                      answers |-> [id \in Json \cup {NoJson} |-> <<>>],
                      hiReq |-> <<>>, pc |-> "idle"], StartMedia, -1)

NoThread == [pc |-> "none", kind |-> "stream"]

Init ==
    /\ play = Started.play /\ queue = Started.queue /\ pc = Started.pc
    /\ answers = Started.answers /\ requests = <<>>
    /\ armed = Started.armed /\ changed = Started.changed
    /\ threads = [n \in Plays |-> NoThread] /\ timerPc = TimerThreadIdle
    /\ hi = "INIT" /\ hiReq = Started.hiReq

----------------------------------------------------------------------------
(* The player thread.                                                        *)

\* _playerEventHandler takes the next event; a state machine event sent for an
\* earlier play is dropped, and so is one the current state does not handle.
AfterTaking == [World EXCEPT !.queue = Tail(queue)]

Continue(w) ==
    /\ Becomes(w) /\ pc' = w.pc
    /\ UNCHANGED <<requests, threads, timerPc, hi>>

HandleEvent ==
    /\ pc = "idle" /\ queue # <<>> /\ Head(queue).ev \in FsmEvents
    /\ LET e == Head(queue)
       IN  Continue(IF e.tag = play.count /\ e.ev \in Handled(play.fsm)
                    THEN HandleFsmEvent(AfterTaking, e) ELSE AfterTaking)

HandleCommand ==
    /\ pc = "idle" /\ queue # <<>> /\ Head(queue).ev = "JSON"
    /\ Continue(HandleJson(AfterTaking, Head(queue).id))

\* Mutant: nobody waits for the previous thread.
MutCreateSetMediaThread ==
    /\ pc = "setMedia"
    /\ play' = [play EXCEPT !.mediaThread = play.count]
    /\ threads' = [threads EXCEPT ![play.count].pc = "start"]
    /\ pc' = "idle"
    /\ UNCHANGED <<queue, requests, answers, armed, changed, timerPc, hi, hiReq>>

\* muxRxPlayerSetMedia: wait until the previous SetMedia thread has gone, then
\* create one for this play.
CreateSetMediaThread ==
    /\ pc = "setMedia" /\ play.mediaThread = None
    /\ play' = [play EXCEPT !.mediaThread = play.count]
    /\ threads' = [threads EXCEPT ![play.count].pc = "start"]
    /\ pc' = "idle"
    /\ UNCHANGED <<queue, requests, answers, armed, changed, timerPc, hi, hiReq>>

\* The OK handlers: start the play timer of an item that has a duration, once
\* the previous one is gone; answer; an image then enters IMAGE.
StartPlayingTimer(w) ==
    IF ~ CurrentItem(w).timed THEN w
    ELSE LET n == w.play.countOfTimer + 1
         IN  [AddTimer(w, Timer("play", n)) EXCEPT !.play.playTimer = n,
                                                   !.play.countOfTimer = n]
FinishOk ==
    /\ pc \in {"OK", "IMAGE_OK"}
    /\ CurrentItem(World).timed => play.playTimer = None
    /\ LET w == ReplyPending(StartPlayingTimer(World), "OK")
       IN  Continue(IF pc = "IMAGE_OK" THEN Enter(w, "IMAGE") ELSE w)

----------------------------------------------------------------------------
(* The SetMedia threads.                                                     *)

ThreadMoves(n, from, to) ==
    /\ threads[n].pc = from
    /\ threads' = [threads EXCEPT ![n].pc = to]

\* First critical section: arm the media timer.  The url is read here.
SetMediaStart(n) ==
    /\ threads[n].pc = "start"
    /\ threads' = [threads EXCEPT ![n] = [pc |-> "waiting", kind |-> CurrentItem(World).kind]]
    /\ Becomes([AddTimer(World, Timer("media", n))
                  EXCEPT !.play.mediaTimer = n, !.play.mediaState = "WAITING"])
    /\ UNCHANGED <<pc, requests, timerPc, hi>>

\* Poll until HiPlayer, or the state machine, is where SetMedia is allowed.
SetMediaEnter(n) ==
    /\ ThreadMoves(n, "waiting", "setting")
    /\ hi \in {"STOP", "INIT"} \/ play.fsm \in {"STOP", "INIT"} \/ play.count = 1
    /\ UNCHANGED <<play, queue, pc, requests, answers, armed, changed, timerPc, hi, hiReq>>

\* Second critical section, after SetMedia has returned.
MediaReturned ==
    LET w == [World EXCEPT !.play.mediaState = "OK", !.play.mediaTimer = None,
                           !.play.mediaThread = None]
    IN  IF play.mediaTimer = None THEN w ELSE RemoveTimer(w, Timer("media", play.mediaTimer))

SetMediaFails(n) ==
    /\ ThreadMoves(n, "setting", "done")
    /\ Becomes(Send(StopPlaying(MediaReturned), "FAIL"))
    /\ UNCHANGED <<pc, requests, timerPc, hi>>

\* Play is asynchronous: HiPlayer may serve it after the OK has been queued, or
\* report PLAY before the thread gets to queue the OK.
SetMediaSucceeds(n) ==
    /\ ThreadMoves(n, "setting", "done")
    /\ threads[n].kind = "stream"
    /\ \/ Becomes(Send(HiCall(MediaReturned, "Play"), "OK")) /\ UNCHANGED hi
       \/ /\ hiReq = <<>> /\ hi \in {"INIT", "STOP"} /\ Len(queue) < QueueSize
          /\ hi' = "PLAY"
          /\ LET playing == Fsm("STATE_CHANGED", play.count, "PLAY")
             IN  Becomes(Send([MediaReturned EXCEPT !.queue = Append(@, playing)], "OK"))
    /\ UNCHANGED <<pc, requests, timerPc>>

----------------------------------------------------------------------------
(* The timer thread (cmnTimer.c) with the two callbacks of the window.       *)

\* Bound: an interval is whole seconds, a timer that is kept does not fire again
\* before its first TIMEOUT has left the queue.
NoTimeoutQueued == \A i \in DOMAIN queue : queue[i].ev # "TIMEOUT"

\* The timer thread calls a callback without its own lock.  _mediaTimeoutCallback
\* compares its timer with the window's before it takes PLAY_LOCK.
TimerFires(t) ==
    /\ timerPc.at = "idle" /\ t \in armed
    /\ t.kind = "play" => play.count <= EndsUntil /\ NoTimeoutQueued
    /\ timerPc' = [at |-> IF t.kind = "media" /\ t.n # play.mediaTimer THEN "returned" ELSE "called",
                   kind |-> t.kind, n |-> t.n]
    /\ changed' = FALSE
    /\ UNCHANGED <<play, queue, pc, requests, answers, threads, armed, hi, hiReq>>

CallbackReturns(w) ==
    /\ Becomes(w)
    /\ timerPc' = [timerPc EXCEPT !.at = "returned"]
    /\ UNCHANGED <<pc, requests, threads, hi>>

\* Mutants: the media timeout tells nobody; the play timeout leaves its timer set.
MutMediaTimeout ==
    /\ timerPc.at = "called" /\ timerPc.kind = "media"
    /\ CallbackReturns([World EXCEPT !.play.mediaTimer = None])

MutPlayTimeout ==
    /\ timerPc.at = "called" /\ timerPc.kind = "play"
    /\ CallbackReturns(Send([World EXCEPT !.play.mediaState = "TIMEOUT"], "TIMEOUT"))

MediaTimeout ==
    /\ timerPc.at = "called" /\ timerPc.kind = "media"
    /\ CallbackReturns(Send([World EXCEPT !.play.mediaTimer = None], "FAIL"))

PlayTimeout ==
    /\ timerPc.at = "called" /\ timerPc.kind = "play"
    /\ CallbackReturns([Send([World EXCEPT !.play.mediaState = "TIMEOUT"], "TIMEOUT")
                          EXCEPT !.play.playTimer = None])

\* Both callbacks return 0, which removes the timer unless the list changed
\* meanwhile, by this window or by another: then it stays and will fire again.
TimerEnds ==
    /\ timerPc.at = "returned"
    /\ \E kept \in IF changed THEN {TRUE} ELSE BOOLEAN :
         armed' = IF kept THEN armed ELSE armed \ {Timer(timerPc.kind, timerPc.n)}
    /\ timerPc' = TimerThreadIdle
    /\ UNCHANGED <<play, queue, pc, requests, answers, threads, changed, hi, hiReq>>

----------------------------------------------------------------------------
(* HiPlayer (external): asynchronous requests, each ending in a callback.    *)

\* muxEventCallBack tags the event with the count at the time of the callback.
Callback(ev, state) ==
    queue' = IF Len(queue) < QueueSize THEN Append(queue, Fsm(ev, play.count, state))
             ELSE queue

HiMoves(state) == hi' = state /\ Callback("STATE_CHANGED", state)

\* A request HiPlayer is in no state for changes nothing.
MovesFrom(states, state) ==
    IF hi \in states THEN HiMoves(state) ELSE UNCHANGED <<hi, queue>>

HiServes(req) ==
    \/ req = "Stop"     /\ MovesFrom(HiRunning, "STOP")
    \/ req = "Play"     /\ MovesFrom({"INIT", "STOP", "BACKWARD"}, "PLAY")
    \/ req = "Pause"    /\ MovesFrom({"PLAY"}, "PAUSE")
    \/ req = "Resume"   /\ MovesFrom(Resumable, "PLAY")
    \/ req = "Forward"  /\ MovesFrom(HiRunning, "FORWARD")
    \/ req = "Backward" /\ MovesFrom(HiRunning, "BACKWARD")
    \/ req = "Seek"     /\ UNCHANGED hi /\ Callback("SEEK_FINISHED", "STOP")

HiWork ==
    /\ hiReq # <<>>
    /\ HiServes(Head(hiReq))
    /\ hiReq' = Tail(hiReq)
    /\ UNCHANGED <<play, pc, requests, answers, threads, armed, changed, timerPc>>

HiUnchanged == UNCHANGED <<play, pc, requests, answers, threads, armed, changed, timerPc, hiReq>>

\* The media ends by itself.
HiEnds ==
    /\ play.count <= EndsUntil
    /\ hi \in {"PLAY", "FORWARD"} /\ HiMoves("STOP") /\ HiUnchanged

\* Rewinding reaches the start of the file.
HiRewound ==
    /\ hi = "BACKWARD" /\ hiReq = <<>>
    /\ \A i \in DOMAIN queue : queue[i].ev # "SOF"
    /\ Callback("SOF", "BACKWARD") /\ UNCHANGED hi /\ HiUnchanged

----------------------------------------------------------------------------
(* The clients, through the controller thread.                               *)

\* Only a play command has a media and a repeat number.
Command == {[cmd |-> "OPEN", media |-> media, repeat |-> n] :
               media \in DOMAIN Media, n \in Repeats}
             \cup [cmd : Cmds \ {"OPEN"}, media : {StartMedia}, repeat : {-1}]

SendCommand(command) ==
    /\ Len(requests) < MaxJson
    /\ requests' = Append(requests, command)
    /\ queue' = IF Len(queue) < QueueSize
                THEN Append(queue, [ev |-> "JSON", id |-> Len(requests) + 1]) ELSE queue
    /\ UNCHANGED <<play, pc, answers, threads, armed, changed, timerPc, hi, hiReq>>

PlayerThread == HandleEvent \/ HandleCommand \/ CreateSetMediaThread \/ FinishOk

MediaThread(n) ==
    SetMediaStart(n) \/ SetMediaEnter(n) \/ SetMediaFails(n) \/ SetMediaSucceeds(n)

TimerThread == (\E t \in armed : TimerFires(t)) \/ MediaTimeout \/ PlayTimeout \/ TimerEnds

HiPlayer == HiWork \/ HiEnds \/ HiRewound

Next ==
    \/ PlayerThread
    \/ \E n \in Plays : MediaThread(n)
    \/ TimerThread
    \/ HiPlayer
    \/ \E command \in Command : SendCommand(command)

Spec == Init /\ [][Next]_vars

----------------------------------------------------------------------------
\* The player takes the events of its queue and a fair mutex lets it on.
\* A media timer that stays armed expires: the timer thread looks at the whole
\* list every millisecond, and no other timer is due that often.  HiPlayer serves
\* the requests it accepted.  Nothing is assumed about SetMedia returning, about
\* media ending or about clients.
Fairness ==
    /\ WF_vars(PlayerThread)
    /\ \A n \in Plays : WF_vars(SetMediaStart(n))
    /\ \A n \in Plays : SF_vars(\E t \in armed : t = Timer("media", n) /\ TimerFires(t))
    /\ WF_vars(MediaTimeout \/ PlayTimeout \/ TimerEnds)
    /\ WF_vars(HiWork)

FairSpec == Spec /\ Fairness

----------------------------------------------------------------------------
(* Properties.                                                               *)

\* Every field stays in its range.  The item that is played exists, and a
\* playlist is not played more rounds than its repeat number.
TypeOK ==
    /\ play \in [fsm : FsmStates, cmd : {"UNKNOWN"} \cup {"OPEN", "STOP", "PAUSE", "RESUME"},
                 data : Json \cup {NoJson}, count : 0 .. MaxPlays,
                 mediaState : {"INIT", "WAITING", "OK", "TIMEOUT"},
                 mediaThread : Plays \cup {None}, mediaTimer : Plays \cup {None},
                 playTimer : Nat, countOfTimer : Nat, speed : 0 .. SpeedCount - 1,
                 list : DOMAIN Media, index : Nat, round : Nat, repeat : Nat]
    /\ play.index \in DOMAIN Media[play.list]
    /\ Unlimited(World) \/ play.round < play.repeat
    /\ queue \in Seq(FsmEvent \cup JsonEvent) /\ Len(queue) <= QueueSize
    /\ pc \in {"idle", "setMedia", "OK", "IMAGE_OK"}
    /\ requests \in Seq(Command) /\ Len(requests) <= MaxJson
    /\ answers \in [Json \cup {NoJson} -> Seq({"OK", "NOK"})]
    /\ threads \in [Plays -> [pc : {"none", "start", "waiting", "setting", "done"}, kind : Kinds]]
    /\ armed \subseteq [kind : {"media", "play"}, n : Nat] /\ changed \in BOOLEAN
    /\ timerPc \in [at : {"idle", "called", "returned"}, kind : {"none", "media", "play"}, n : Nat]
    /\ hi \in HiStates
    /\ hiReq \in Seq({"Stop", "Play", "Pause", "Resume", "Forward", "Backward", "Seek"})

Sent == 1 .. Len(requests)
Queued(id) == \E i \in DOMAIN queue : queue[i] = [ev |-> "JSON", id |-> id]
Unanswered(id) == answers[id] = <<>>

\* No command is forgotten: a command that is out of the queue and has had no
\* answer is the window's current command, the one some later event answers.
NoCommandForgotten ==
    \A id \in Sent : Unanswered(id) => Queued(id) \/ play.data = id

\* A JSON event is freed with its answer (cmnMuxJsonPluginReplay), so no path
\* through the handlers answers it twice.
AnsweredOnce == \A id \in Json : Len(answers[id]) <= 1

\* dataOfCurrentCmd never points to a JSON event that has been freed: what the
\* next enter handler or PlayRestart dereferences is still there.
CurrentDataAlive == play.data # NoJson => Unanswered(play.data)

\* The startup's OPEN is the current command and has no JSON event: the one case
\* in which an enter handler dereferences a NULL dataOfCurrentCmd.
Starting == play.cmd # "UNKNOWN" /\ play.data = NoJson

\* A NULL dataOfCurrentCmd is replied through by nobody but the startup: when PLAY
\* is reported before the OK of a window's first stream has been handled
\* (_playerPlayingStateEnter does not look, _playerOKHandler does).  Once OK, FAIL
\* or an enter handler has settled the startup, no order of commands and reports
\* leaves a current command without its JSON event again.
NullOnlyAtStartup ==
    [][ /\ answers'[NoJson] # answers[NoJson] => Starting
        /\ Starting' => Starting ]_vars

\* At most one SetMedia thread works for the window, and mediaThread is it.
Working(n) == threads[n].pc \in {"start", "waiting", "setting"}
OneSetMediaThread == \A n \in Plays : Working(n) <=> play.mediaThread = n

\* The abort of muxPlayerRemovePlayingTimer is never reached: a play timer the
\* window knows of is in the timer list.
PlayTimerRemovable == play.playTimer # None => Timer("play", play.playTimer) \in armed

\* A window that has got at most one command and has come to rest is in the
\* state the player is in: no report of a state was lost or dropped as late.
\* With a second command it may be: a play command taken between OK and the
\* report of PLAY moves countOfPlay, and the report comes too late.  The startup
\* counts as a command unless its media are images.
AtRest == queue = <<>> /\ hiReq = <<>> /\ pc = "idle" /\ play.mediaThread = None
StateKnown == AtRest /\ Len(requests) <= 1 =>
    /\ play.fsm \in HiRunning => hi = play.fsm
    /\ hi \in HiRunning => play.fsm = hi

\* What the clients of the window see: CommandEngine, with the status of a
\* command read off the queue, the current command and the answers.
Status(id) ==
    CASE id \notin Sent    -> "unsent"
      [] Queued(id)        -> "queued"
      [] ~ Unanswered(id)  -> "answered"
      [] OTHER             -> "processing"

CE == INSTANCE CommandEngine WITH Commands <- Json, status <- [id \in Json |-> Status(id)]
ServesCommands == CE!Spec

\* Every command the controller queued is answered in the end.
EveryCommandAnswered == \A id \in Json :
    (id \in Sent /\ Unanswered(id)) ~> (id \in Sent /\ ~ Unanswered(id))
=============================================================================
