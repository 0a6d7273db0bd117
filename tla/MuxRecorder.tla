---------------------------- MODULE MuxRecorder ----------------------------
(***************************************************************************)
(* The recorder plugin (muxRecorderInit.c): one recording task that three  *)
(* threads work on under one mutex.  The recorder thread executes the      *)
(* commands, HiPlayer's capture thread delivers the packets and ends the   *)
(* recording when it is long enough, the player thread tells that playing  *)
(* pauses or stops.  Opening and closing the file remounts the SD card, in *)
(* steps between which other users of the card run.                        *)
(***************************************************************************)
EXTENDS SdCard, Integers

CONSTANTS
    RecFile,      \* names that clients give to their recordings
    RecHandle,    \* descriptors the recorder may have open at a time
    Duration,     \* length of a recording, in steps of the clock
    MaxCommand    \* bound: commands that clients send

ASSUME RecorderAssumption ==
    RecFile \subseteq File /\ RecHandle \subseteq Handle \cap Nat
    /\ Duration \in Nat \ {0} /\ MaxCommand \in Nat

VARIABLES
    capture,      \* state of the main player, as getCaptureState reads it
    entering,     \* the state it has announced and not entered yet, or None
    failing,      \* av_write_frame fails: the disk is full, or has an error
    sent,         \* commands put into the recorder's queue
    answered,     \* commands replied to
    thread,       \* "running", or "gone": it ended, its queue is freed
    section,      \* what the holder of mutexLock is in the middle of
    status,       \* currentTask->status; "none" without a task
    media,        \* currentTask->filename
    out,          \* currentTask->outCtx, as its descriptor
    since,        \* cmnGetTimeMs() - currentTask->startTime; -1 when that is -1
    recorded,     \* currentTask->recordedTime
    elapsed,      \* time the task was in RECORDING (a history)
    abandoned     \* descriptors no task knows of any more (a history)

taskVars == <<status, media, out, since, recorded, elapsed, abandoned>>
outsideVars == <<capture, entering, failing>>
recorderVars == <<outsideVars, sent, answered, thread, section, taskVars>>

State == {"PLAY", "PAUSE", "STOP"}
Closing == {"commandCloses", "packetCloses", "notifyCloses"}
Active == {"RECORDING", "PAUSE"}

RecorderInit ==
    /\ capture = "STOP" /\ entering = None /\ failing = FALSE
    /\ sent = 0 /\ answered = 0 /\ thread = "running" /\ section = "free"
    /\ status = "none" /\ media = None /\ out = None
    /\ since = 0 /\ recorded = 0 /\ elapsed = 0 /\ abandoned = {}

----------------------------------------------------------------------------
(* What the commands, the packets and the notifications share.             *)

\* Mutant: recordedTime is set, not added to.
MutHold ==
    /\ status' = "PAUSE" /\ since' = -1 /\ recorded' = since
    /\ UNCHANGED <<media, out, elapsed, abandoned>>

Hold ==
    /\ status' = "PAUSE" /\ since' = -1 /\ recorded' = recorded + since
    /\ UNCHANGED <<media, out, elapsed, abandoned>>

\* muxRecordFfmpegClose, first the file, with the lock held: whatever
\* av_write_trailer says, it is closed ...
BeginClose(who, time) ==
    /\ CloseFile(out, "complete")
    /\ recorded' = time
    /\ section' = who
    /\ UNCHANGED <<card, spoiled, status, media, out, since, elapsed, abandoned>>

\* ... then the card and the status; only a command has somebody to answer to.
\* startTime keeps its value, which is not read again.
EndClose ==
    /\ section \in Closing
    /\ MakeReadOnly(media)
    /\ section' = "free"
    /\ status' = "STOPPED"
    /\ recorded' = recorded + (IF since # -1 THEN since ELSE 0)
    /\ answered' = IF section = "commandCloses" THEN answered + 1 ELSE answered
    /\ since' = -1 /\ elapsed' = 0
    /\ UNCHANGED <<outsideVars, sent, thread, file, writing, spoiled, media, out, abandoned>>

----------------------------------------------------------------------------
(* Commands: the recorder thread.                                          *)

\* _muxRecorderReportEvent; clients do not know whether the thread still runs.
ReportEvent ==
    /\ sent < MaxCommand /\ sent' = sent + 1
    /\ UNCHANGED <<outsideVars, answered, thread, section, taskVars, cardVars>>

Command == thread = "running" /\ sent > answered /\ section = "free"

Answer == answered' = answered + 1 /\ UNCHANGED <<sent, thread>>

\* status, and every command that is refused.
AnswerOnly ==
    /\ Command /\ Answer
    /\ UNCHANGED <<outsideVars, section, taskVars, cardVars>>

MayStart == capture = "PLAY" /\ status # "RECORDING"

\* The old task is freed as it is: a file it has open stays open.
NewTask(f) ==
    /\ status' = "INIT" /\ media' = f /\ out' = None
    /\ since' = 0 /\ recorded' = 0 /\ elapsed' = 0
    /\ abandoned' = IF status = "PAUSE" THEN abandoned \cup {out} ELSE abandoned

\* Mutant: the mutex stays locked on the way out.
MutStartUnknownFormat(f) ==
    /\ Command /\ MayStart /\ Answer
    /\ NewTask(f)
    /\ section' = "locked"
    /\ UNCHANGED <<outsideVars, cardVars>>

StartUnknownFormat(f) ==
    /\ Command /\ MayStart /\ Answer
    /\ NewTask(f)
    /\ UNCHANGED <<outsideVars, section, cardVars>>

\* _muxRecorderStart up to avio_open.
Start(f) ==
    /\ Command /\ MayStart
    /\ NewTask(f)
    /\ MakeWritable(f)
    /\ section' = "opening"
    /\ UNCHANGED <<outsideVars, sent, answered, thread, file, writing, spoiled>>

\* The kernel gives out the lowest descriptor that is free.
Lowest(h) == writing[h] = None /\ \A g \in RecHandle : writing[g] = None => h <= g

OpenOutput(h) ==
    /\ section = "opening" /\ section' = "free" /\ Answer
    /\ Lowest(h) /\ Open(h, media)
    /\ status' = "RECORDING" /\ out' = h /\ since' = 0
    /\ UNCHANGED <<outsideVars, card, spoiled, media, recorded, elapsed, abandoned>>

\* The file cannot be opened, or its header not be written: then the context is
\* freed with the file open.  The client is told to try again, but the handler
\* returns -1 and the thread ends, with its queue and its CmnThread freed.  The latter
\* is a static variable; the model goes on where the C library lets the program go on.
OpenFails ==
    /\ section = "opening" /\ section' = "free"
    /\ \/ UNCHANGED <<file, writing, abandoned>>
       \/ \E h \in RecHandle : Lowest(h) /\ Open(h, media) /\ abandoned' = abandoned \cup {h}
    /\ spoiled' = TRUE
    /\ status' = "STOPPED"
    /\ answered' = answered + 1 /\ thread' = "gone"
    /\ UNCHANGED <<outsideVars, sent, card, media, out, since, recorded, elapsed>>

Pause ==
    /\ Command /\ status = "RECORDING" /\ Answer
    /\ Hold
    /\ UNCHANGED <<outsideVars, section, cardVars>>

Resume ==
    /\ Command /\ status = "PAUSE" /\ Answer
    /\ status' = "RECORDING" /\ since' = 0
    /\ UNCHANGED <<outsideVars, section, media, out, recorded, elapsed, abandoned, cardVars>>

Stop ==
    /\ Command /\ status \in Active
    /\ BeginClose("commandCloses", recorded)
    /\ UNCHANGED <<outsideVars, sent, answered, thread>>

----------------------------------------------------------------------------
(* Packets, time, and the main player.                                     *)

\* Mutant: the length must be met, not reached.
MutLastPacket ==
    /\ section = "free" /\ status = "RECORDING" /\ capture # "STOP" /\ ~failing
    /\ recorded + since = Duration
    /\ BeginClose("packetCloses", Duration)
    /\ UNCHANGED <<outsideVars, sent, answered, thread>>

\* _muxRecorderConsumerReceivePkt: a packet that is written when the recording
\* is long enough.  Other packets change nothing here; for one that cannot be
\* written the handler returns before it looks at the length.
LastPacket ==
    /\ section = "free" /\ status = "RECORDING" /\ capture # "STOP" /\ ~failing
    /\ recorded + since >= Duration
    /\ BeginClose("packetCloses", Duration)
    /\ UNCHANGED <<outsideVars, sent, answered, thread>>

Tick ==
    /\ status = "RECORDING" /\ since < Duration
    /\ since' = since + 1 /\ elapsed' = elapsed + 1
    /\ UNCHANGED <<outsideVars, sent, answered, thread, section, status, media, out,
                   recorded, abandoned, cardVars>>

\* Mutant: the file of a paused recording is closed too, but not its status.
MutNotify(s) ==
    /\ entering = None /\ s # capture /\ entering' = s /\ section = "free"
    /\ IF s = "STOP" /\ status \in Active
       THEN CloseFile(out, "complete") /\ UNCHANGED <<taskVars, section, card, spoiled>>
       ELSE IF s = "PAUSE" /\ status = "RECORDING" THEN Hold /\ UNCHANGED <<section, cardVars>>
       ELSE UNCHANGED <<taskVars, section, cardVars>>
    /\ UNCHANGED <<capture, failing, sent, answered, thread>>

\* The main player announces the state it enters.  A recording that is paused
\* hears nothing.
Notify(s) ==
    /\ entering = None /\ s # capture /\ entering' = s /\ section = "free"
    /\ IF s = "STOP" /\ status = "RECORDING" THEN BeginClose("notifyCloses", recorded)
       ELSE IF s = "PAUSE" /\ status = "RECORDING" THEN Hold /\ UNCHANGED <<section, cardVars>>
       ELSE UNCHANGED <<taskVars, section, cardVars>>
    /\ UNCHANGED <<capture, failing, sent, answered, thread>>

\* cmnFsmHandle sets currentState after the enter handler has returned.
Enter ==
    /\ entering # None /\ section # "notifyCloses"
    /\ capture' = entering /\ entering' = None
    /\ UNCHANGED <<failing, sent, answered, thread, section, taskVars, cardVars>>

\* The disk fills up or fails; later there is room again.
DiskFails ==
    /\ failing' = ~failing
    /\ UNCHANGED <<capture, entering, sent, answered, thread, section, taskVars, cardVars>>

Execute ==
    \/ AnswerOnly \/ Pause \/ Resume \/ Stop
    \/ \E f \in RecFile : StartUnknownFormat(f) \/ Start(f)

Opened == OpenFails \/ \E h \in RecHandle : OpenOutput(h)

RecorderNext ==
    \/ ReportEvent \/ Execute \/ Opened \/ EndClose
    \/ LastPacket \/ Tick \/ Enter \/ DiskFails
    \/ \E s \in State : Notify(s)

----------------------------------------------------------------------------
(* Properties.                                                             *)

RecorderTypeOK ==
    /\ capture \in State /\ entering \in State \cup {None} /\ failing \in BOOLEAN
    /\ sent \in 0 .. MaxCommand /\ answered \in 0 .. sent
    /\ thread \in {"running", "gone"}
    /\ section \in {"free", "opening"} \cup Closing
    /\ status \in {"none", "INIT", "STOPPED"} \cup Active
    /\ media \in RecFile \cup {None} /\ out \in RecHandle \cup {None}
    /\ since \in -1 .. Duration /\ recorded \in Nat /\ elapsed \in Nat
    /\ abandoned \subseteq RecHandle

\* The context a task is recorded into is open exactly while the task is in
\* RECORDING or PAUSE: no thread writes a packet to a context that another has
\* closed, and none but the contexts given up with their task stays open.
OutputMatchesStatus ==
    /\ status \in Active => \/ section \in Closing /\ writing[out] = None
                            \/ section = "free" /\ writing[out] = media /\ out \notin abandoned
    /\ \A h \in RecHandle \ abandoned : writing[h] # None => status \in Active /\ h = out

\* Pauses, by command or by the player, and resumes in any order leave
\* recordedTime with the time spent in RECORDING, which decides when the
\* recording ends.
RecordedTimeIsRight ==
    section = "free" =>
        /\ status = "PAUSE" => recorded = elapsed
        /\ status = "RECORDING" => recorded + since = elapsed

\* A recording whose source plays on ends, by command or when it is long enough,
\* unless its packets fail to be written again and again: the length is looked at
\* only after a packet has been written, so a recording on a full disk goes on
\* until somebody stops it.  A disk that fails for a time only delays the end.
RecordingEnds ==
    \/ status = "RECORDING" ~> (status # "RECORDING" \/ capture # "PLAY")
    \/ []<>failing

\* Every command is answered as long as the thread of the recorder is there.
CommandIsAnswered ==
    \A n \in 1 .. MaxCommand : sent >= n ~> (answered >= n \/ thread = "gone")
=============================================================================
