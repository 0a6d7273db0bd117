# Verification of muxMedia

TLA+ models of the media agent under `src/muxMedia`, checked with TLC, with
proofs checked by TLAPS. muxMedia is a C program for HiSilicon set-top boards: it
plays streams and images in several windows, takes JSON commands over TCP, UDP
and a local socket, edits playlists, downloads files by FTP, records what the
board captures to an SD card, and serves it over RTSP and HTTP. The rest of the
repository (ffmpeg, an RTMP module for nginx, earlier servers, a CGI library) is
vendored or superseded and is not modelled.

## 1. The system

### Parts, state and operations

| part | code | state | operations |
|---|---|---|---|
| queues | `cmnFifo.c` | list of elements, `etat`, semaphore, mutex | `cmn_fifo_init/add/get/tryget` |
| state machine engine | `cmnFsm.c` | `currentState` of an owner | `cmnFsmHandle` |
| timer thread | `cmnTimer.c` | one list of timers, `timersChanged` | add, remove, the check every millisecond |
| thread registry | `cmnThread.c` | list of threads, each with its fifo | create, add event, run, destroy |
| controller | `cmnMuxController.c`, `cmnMuxJson.c`, `cmnMuxJsonMedia.c`, `muxMain.c` | connections, a `DATA_CONN` per command with `errCode`, the plugins | accept, read a command, dispatch, report to a plugin, reply, close |
| player | `src/player` | per window: state machine, current command, SetMedia state, thread and timers, playlist, speed | the commands, the events, SetMedia, two timer callbacks |
| recorder | `muxRecorderInit.c` | one task: status, file, start time, recorded time | start, stop, pause, resume, status, packet, notification of the player |
| SD card | `cmnMediaScanFileList.c` | how the card is mounted | remount for writing and for reading |
| FTP | `cmnMuxFtpThread.c`, `FtpXfer` of `cmnFtpLib.c` | a list of files and the list of those done | connect, one file after the other, reply |
| server | `src/server` | connections with a state machine and a fifo each, the feed's list, a count, an event queue | accept, request, packet, close, push |
| playlists | `cmnMuxPlaylist.c`, `cmnMuxSaveConfig.c` | the configured playlists and their file | find, add, modify, save |
| web | `src/web` | connections in a free and a ready queue, a count, per connection a state, an event, a buffer, the file or the CGI program's pipe | one turn: accept, poll, give events, handle; read a header, read and write a body, write a page, read and send CGI output, close |
| CGI programs | `cgi` | none | print a page, ask the controller |
| HiPlayer | the board's library | state of a player | SetMedia (blocking), Play, Stop, Pause, Resume, TPlay, Seek (asynchronous), callbacks |

### How they interact

The controller thread parses a command and puts it into the fifo of the plugin's
thread, with a pointer to the command's `DATA_CONN`; the plugin replies and frees
it, or leaves it to a later event. The player has one thread for all windows; it
takes JSON events and state machine events from the same fifo. A command that
cannot be finished at once becomes the *current command* of the window. For every
stream the player creates a thread that calls the blocking SetMedia and then
reports OK or FAIL through the fifo; it is accompanied by a timer that reports
FAIL when SetMedia takes too long. The timer thread runs the callbacks with its
own lock released; HiPlayer's callback runs in HiPlayer's thread.

HiPlayer's capture thread hands each packet to the recorder and to the server.
The recorder writes it under the task's mutex and may find that the recording is
long enough; the server puts it into the fifo of every connection in the feed's
list, under `connsMutex`, and tells the server thread, which sends it. The player
tells the recorder when playing pauses or stops. Recorder and FTP thread make
the SD card writable and read-only again, without knowing of each other.

The web plugin has one thread that goes round on its own: it drops the events the controller
reports, and its CGI programs talk to the controller as any client does. Each turn waits
in `select`, accepts at most one client, gives every connection an event and lets its
state machine handle it.

### What is hard

- Events carry the number of the play that is current when they are *sent*; a
  play that is replaced in between makes a report late, or a late one current.
- Three threads race around SetMedia: its own, the timer's and the player's.
- The player thread waits inside handlers: for the previous SetMedia thread and
  for the previous play timer. One window that waits stops all of them.
- A timer callback may run after its timer has been removed, and a one-shot timer
  may fire twice because the list changed while it ran.
- A command can be started, answered or dropped on many paths; a JSON event is
  freed by its answer.
- A `DATA_CONN` is read by the controller after the plugin has it.
- Three threads may end one recording; the card is remounted in several steps.
- A connection of the server may be closed while the capture thread walks through
  the list it is in, and while events about it are queued.
- Queues drop or refuse events when they are full, and hardly any caller looks.
- The web server's connections outlive a request: what the next turn does with one depends
  on the event, the count and the announcement the last answer left, and every write may
  take a part, nothing, or fail.

### What makes each part correct

- queues: a bounded FIFO; the semaphore never promises an element that is not
  there; the mutex is always given back.
- timer thread: after the lock was released the walk goes on only in a list it
  knows, owners never hold a freed timer, every due timer fires, none too soon.
- player: every command gets one answer, and not from freed memory; one SetMedia
  thread at a time; a play timer the window knows of can be removed; at rest the
  state machine and the player agree.
- controller: nobody touches a freed `DATA_CONN`, one reply per command, to the
  client that sent it, and none without a reply.
- recorder: the output is open exactly while recording, the length is right, a
  recording and every command end.
- FTP: success means that every file is there; a download ends.
- SD card: read-only whenever nobody writes.
- server: no freed connection in the feed's list or in an event, no packet left
  behind, who plays is fed, the count is exact, requests are read and answered.
- web: no connection is lost or counted wrongly, a connection is kept or closed as its
  last answer announced, requests end.

## 2. How the models were ordered

Queues and player first, since every command depends on them; then the timers the
player relies on, the way a command takes from its client to a plugin, and the
plugins with threads of their own.

| module | models | composes |
|---|---|---|
| `BoundedQueue` | abstract bounded queue | |
| `CmnFifo` | `cmnFifo.c`, implements `BoundedQueue` | |
| `CommandEngine` | a client's view of the player | |
| `MuxPlayer` | one window with its threads, implements `CommandEngine` | queue as a bounded sequence, timers of the window, HiPlayer |
| `TimerSet` | abstract set of timers | |
| `CmnTimer` | the timer list with several owners and addresses that are used again, implements `TimerSet` | |
| `MuxController` | life of a `DATA_CONN` between controller and plugins, implements `CommandEngine` | queues as bounded sequences, descriptors of the kernel |
| `SdCard`, `MuxRecorder`, `FtpDownload` | card and files; one recording task; one download | |
| `Storage` | | recorder and FTP thread on one card |
| `SvrConnections` | the streaming server next to the capture thread | |
| `WebServer` | the web plugin's thread, its connections, clients and CGI programs | sockets and pipes of the kernel |

Abstract specifications are `BoundedQueue`, `TimerSet` and `CommandEngine`; the
last is implemented twice, by the window alone and by the controller together with
a player of which only the taking and the answering of commands is left. Proofs are
in the module named after the component with `_proofs` (those about the commands of a
window in `MuxPlayerCommands_proofs`); `MCCmnFifo`, `MCMuxPlayer`,
`MCStorage` and `MCWebServer` define values for the configurations.

## 3. Modules

### CmnFifo

One action per step between two points where other threads can run: waiting for
the semaphore, taking the mutex, the critical section, posting, releasing. `etat`
is the cached full/empty verdict of the code, `qisempty` the semaphore,
`qislocked` the mutex with its owner. `MaxSize` may be 0, as in the code: the
verdict is tested before the element is added, so such a queue holds one.
`cmn_fifo_insert`, which nobody calls, and `cmn_fifo_free` are left out.
`BoundedQueue` is what users rely on: add appends or is refused when full, get and
tryget remove the oldest element.

### MuxPlayer

State: `play` is the window's `MUX_PLAY_T` (`fsm` = `muxFsm.currentState`, `cmd`
and `data` = `currentCmd` and `dataOfCurrentCmd`, `count` = `countOfPlay`, the
SetMedia fields, the playlist as name, index, round and repeat number, `speed`);
`queue` the player thread's fifo; `pc` where the player thread waits inside a
handler; `threads` the SetMedia threads by the play they were created for;
`armed`, `changed`, `timerPc` the window's part of the timer thread; `hi`,
`hiReq` HiPlayer and the requests it has accepted. `requests` and `answers`
record what clients sent and got; the code has neither.

Steps: a handler of the player thread is one step unless it waits; a region under
`PLAY_LOCK` is one step; the library, the timer thread and the SetMedia threads
interleave between them. The handlers are operators on a record `w`, named as the
C functions they translate, and call each other as those do. The step of the
timer thread before its lock is a step of its own (`TimerFires`), because the code
compares the timer outside the lock there.

HiPlayer is external. From its header: SetMedia is synchronous and may take any
time or fail, the other calls are queued and each reports its state change by a
callback; a Stop of a player that does not run, and any request that does not fit
the state, is ignored. Media may end by itself (`EndsUntil`), and rewinding may
reach the start.

Data is abstracted to the kinds of media the control flow tells apart: an image
on the device, an image that cannot be decoded, an image that is not on the
device, a stream, and a stream that cannot be opened. A playlist is a sequence of
items with or without a duration; it is never empty. The play command's repeat
number is chosen from `Repeats`; -1, no number, is used at startup.

Left out, because nothing in the modelled state depends on it: drawing, OSD locks
(their failure makes a handler return the value of INIT), HDMI, subtitles,
buffering pauses (`playerState` is never set, so the branch is dead), EOF, stream
changes, errors and network reports (logged only), the queries and attributes
answered within their handler, the `media` argument being absent, and `close`,
which `__playRestart` treats as stop. Timers are identified by number, so a
freed timer's address is never taken for a new one's (`CmnTimer` has the
addresses). A pause, resume or change of speed that is refused is answered NOERROR
with a text that says it failed; the model calls that an OK, as the client's
`status` does.

### CmnTimer

The list is the sequence `timers` of addresses, `data` what is stored at each;
`walk` are the local variables of `__threaded_timer_check`, `pc` where the timer
thread is. What the pointers do is done by operators on the sequence: `NextOf` is
`a->next`, `UpTo(prev) \o From(next)` the list after `prev->next = next`. The thread
looks at one element per step and holds the mutex while `pc = "walking"`; it calls
back without it. A freed address may be allocated again, so an old pointer can be
taken for a new timer. The owners are windows with their lock, as in
`muxRxPlayCmdSetMedia.c`: a window adds a timer when it knows of none, removes the
one it knows of, and a callback that returns 0 clears the window's pointer, with
or without comparing it first (the play timer's and the media timer's callback).
`held` is that pointer. A callback may also return a new interval, as the
interface says. What is read from a freed block, the clock's wrap-around and
`cmn_cancel_timers` (only at shutdown) are left out.

`TimerSet` is what the owners rely on: a set of armed timers, one of them firing;
only the owner takes one out, or the end of its own firing, and not even that when
the set was touched meanwhile. A one-shot timer may thus fire again: the code
does so, and the window's models hold in spite of it.

### CommandEngine

What a client of the player may rely on: a command is queued, at most one is being
processed, each is answered once. `MuxPlayer!ServesCommands` is this specification
with a command's status read from queue, current command and answers;
`MuxController!ImplementsCommandEngine` reads it from the queue that took it, the
player's current command and the replies.

### MuxController

A command and its `DATA_CONN` are named by the client that sends it. `pc` and `at`
are the controller thread, which is in `select`, reading, dispatching, or between
`cmnMuxCtrlDataHandle` and the look at `errCode` (`handOver`), the only part of
its work that the plugin's thread runs next to; `step` and `cmd` are where each
plugin's thread is with its event. `sock` is a number and `openFile` what the
kernel has behind it: a closed number is given out again, the lowest first. `kind`
is what the command is, as far as its way depends on it: for one of the plugins,
for the FTP thread, for the controller itself, wrong (answered with an error) or
malformed (closed without a reply). The controller locks the `DATA_CONN` while it
reports the event and looks at `errCode`; `LockFree` is the guard that the plugin's
thread needs to go past it. `Report` refuses an event when the queue is full, and
`ReportTooEarly` ends the process when the plugin's thread does not have its queue
yet, as the code does. Datagrams have no socket of their own, and the web plugin
accepts its events and drops them. The player keeps one command for later
(`current`) and refuses others meanwhile; which ones, is `MuxPlayer`'s business.

`replies` and `taken` are histories. What the commands that the controller executes
itself read and write, and the end of the program, are left out.

### Storage: SdCard, MuxRecorder, FtpDownload

`SdCard` has the files, the handles that are open on them and how the card is
mounted. `cmnMediaCheckSDCardFile` says no to a file that does not exist yet, so
neither making the card writable nor making it read-only again happens for one;
the kernel refuses to make the card read-only while a file on it is open for
writing. `MuxRecorder` has the one task with its `status`, `media` (file name),
`out` (context, as a descriptor), `since` (time since `startTime`) and `recorded`
(`recordedTime`); `section` is what the holder of the task's mutex is in the middle
of: between opening and being opened, between the two halves of
`muxRecordFfmpegClose`. Commands run in the recorder thread, packets
(`LastPacket`: the one that is written and finds the time is up; the others, those that cannot be written
among them, change nothing that is modelled; `failing` says whether writes fail, `DiskFails` turns it) in the capture thread, notifications in the player thread, which announces
a state before it has entered it (`entering`, `Enter`). `elapsed` is the
time the task really was in RECORDING, `abandoned` holds the contexts whose task
was freed without closing them, `spoiled` says that somebody failed and left the
card as it was. A failed open ends the recorder thread (`thread = "gone"`).

`FtpDownload` has the FTP thread on its way through the list of one command (`index` is the loop's `i`):
`Prepare` makes the card writable, `OpenLocal` to `Received` is `FtpXfer`, `Store`
is the remount and the entry in the results; every step may fail, and all
failures but that of the connection end in `GiveUp`. A broken connection is taken
for the end of the file: `Received` leaves the file complete or not.

`Storage` puts the two next to each other. It assumes that no recording has the name
of a file that is downloaded; nothing in the code prevents it, but clients choose both names.

### SvrConnections

A connection is named by its client, push service or listening socket; it lives
once. `state` is `svrConn->state`, with `NONE` before and `FREED` after its life. The
server thread goes round: `phase = "drain"` handles the events of the queue, then
`Unlink` and `CloseConnection` close the connections in CLOSING, one after the
other (`visit`, `victim`), then `Poll` looks at the sockets and puts the next events into
the queue. In one pass each connection has at most one event of a kind, so the queue
is a set with an order between the kinds: sockets first, then the feed, then what
handlers emit (`Rank`, `MyTurn`). The capture thread holds `connsMutex` over its walk (`walking`), in which `todo` are the
connections it has not reached; `EnableSvrConn` and `DisableSvrConn`, which change the list, wait
for the mutex. `fifo` counts packets in the connection's fifo and the one half sent.
A client connects, sends requests in any order, and may reset its connection at any time.

`On(event, c, ...)` is the lookup in the state machine's tables, `Ignore` the event
that has no entry; the handlers are named after the C functions. Requests are their
kind: `LIVE`, `POST`, `REPLY` (everything answered with an error, a redirect or a page) for
HTTP, the methods for RTSP, `ERROR` for any other one.

`Resuming` says whether clients send PLAY after a PAUSE. The server does not survive
that (section 4), so everything else is checked and proved for clients that do not:
`paused` remembers who has sent PAUSE, and with `Resuming = FALSE` such a client
sends no further PLAY.

Left out: bandwidth (a live request may be refused at any time instead), JSON
queries (read only), RTP and encoders below a connection, configuration, a second
feed, and RECORD, which no method leads to.

### WebServer

`Loop` is one turn of `svrWebMainLoop` up to `process_requests`: the server socket is polled
when `totalConnections` allows (`Incoming`), a client takes a connection from the free queue
or is refused, and `_checkStates` gives each connection an event (`CheckState`). `todo` are the
connections `process_requests` has still to come to, one `Handle` each; clients act in between.
`conn[s]` is the `WEB_CLIENT_CONN`: `age` is the current time minus `time_last`, in waits of
`select`; `logline` says that a request was read and not yet answered; `buffer` counts
headers in the connection's buffer, `left` what is left of the page's range or of the CGI
output that was read, 0 when none. `heads` (headers the client got for one answer)
and `announced` (what the last header said of the connection) are histories.

The handlers are named after the C functions. A handler either closes the connection
(`Close` is `ecpwsHandlerTimeout`, which all of them return through), or moves it and starts
its time again (`Become`), or ends the process (`Crash`). Sizes are in units of a header: a page has `FileSize`,
a socket takes `Room`, a connection's buffer `HeaderBuffer` headers. A failed write gives
`WEB_CLIENT_S_ERROR`, 9, and is counted as `ErrorCount` units written (`Counted`). A request is its kind: a
page, the last page of a connection, a missing or an empty file, a CGI program, a POST
with its body or without it, a header cut within a line.

External are the clients (`Connect`, `Send`, `SendBody`, `Drain`, `Fin`, `Reset`) and the CGI program,
which writes its plan chunk by chunk. A client sends a request only after the last answer, and
none after "Connection: close", as the protocol asks.

Left out: HEAD, HTTP/1.0 and 0.9, ranges the client asks for, directories, aliases, authentication,
the cache of mapped files, files too large to be mapped (their state has no handler in the
table), NPH programs, a full disk below a POST, signals, and several requests sent at once.

## 4. Runs

| run | checks | bounds | states |
|---|---|---|---|
| `fifo` | semaphore and list agree, consumers never find it empty, refinement of `BoundedQueue`, return of every call | 1 producer, 2 consumers, 2 elements, size 2 | 20 586 |
| `timers` | owners' pointers, spacing of firings, refinement of `TimerSet`, every due timer fires, no deadlock | 2 windows, 2 addresses, intervals of 3 ms rounded to 4, slices of 2, clock up to 5 | 94 644 |
| `player_open` | types, no command forgotten, one SetMedia thread, refinement of `CommandEngine` | 2 commands of play and stop; image, stream, dead stream; repeat 0 or 1; plays 1 and 2 may end by themselves | 431 003 |
| `player_live` | every command is answered | 2 commands, media go on for ever | 14 504 |
| `player_controls` | no double answer, no use of a freed event, no reply through NULL but the startup's | a window that starts with a stream, which may end by itself; 2 of all 6 commands, speed table of 3 | 6 409 190 |
| `player_timers` | play timer removable, state known at rest | 2 commands, timed playlist of a stream and an image played twice, the first 3 plays may time out or end | 2 051 043 |
| `controller` | no use after free, no silent end, refinement of `CommandEngine`, what a queue took is answered | 2 clients with sockets, 1 with UDP, player, FTP thread and web plugin with queues of 1, 2 descriptors | 411 632 |
| `storage` | output open as status says, recorded time, card protected, stored files; recordings, commands and downloads end | 2 commands, a disk that fails and works again at any time, a recording of 2 ticks with 2 descriptors, downloads of 2 files, one on the card | 288 252 |
| `server` | no freed connection in list or queue, no packet left, who plays is fed, count exact; requests read and answered, resets noticed | an HTTP client, an RTSP client, a push service, a limit of 2 connections, fifos of 1 | 68 637 |
| `web` | connections accounted for, none closed before its time; requests end | 1 connection, 3 clients, all requests, resets, failed forks, up to 2 requests after the first, a page of 4 units on a socket of 3 | 24 427 |
| `reply_to_peer` | *violated*: a reply reaches its sender | 3 clients with sockets, player and recorder, 2 descriptors | |
| `resume_after_pause` | *violated*: requests are read | one RTSP client that resumes | |

### What the violations show

- `reply_to_peer`: `cmnMuxCtrlResponse` closes the descriptor (line 333) and
  `cmnMuxDataConnClose` closes the same number again (line 290). In between the
  controller may have accepted another client on that number, who loses its
  connection, and the number goes to a third one, who receives the second one's
  reply. `cmnMuxJson.c:497` says that the reply goes to the peer.
- `resume_after_pause`: `rtspEventPause` leaves the connection in the feed's list, so
  the next PLAY adds it a second time and makes it its own successor. The capture
  thread then goes round for ever with `connsMutex` taken, and the server thread
  stops at the mutex. The server announces both methods (`muxSvrRtspHandlers.c:86`).

### Bounds

`MaxPlays` bounds `countOfPlay` and is the largest value a behaviour of the run
reaches, so it cuts nothing off (`TypeOK`, which has it as the range of `count`,
holds in each of these instances, also where it is not listed). `EndsUntil` is a real bound: an endless
playlist would otherwise count for ever; it is large enough for a playlist to wrap
in `player_timers` and for a media to end before and after a command in
`player_open`. `QueueSize` 12 is never full in the player's runs. `NoTimeoutQueued` keeps a
timer that stays armed from flooding the queue: a play timer's interval is whole
seconds, so its previous event has left the queue. In `timers` the clock stops at
`MaxClock`, which leaves time for a timer to fire and to fall due again with its
second interval; the walks go on, so a timer due at the end must still fire. Two
commands are the least with which one can meet another's trace. `player_controls` starts with a
stream, as the shipped `muxPlayer.conf` does for every window: the control commands find one playing, and PLAY
may be reported before the OK of the startup has been handled.

`controller`: queues of one place are full as soon as two commands meet, and two
descriptors for three clients are enough for a number to be used again. Each client
sends one command, as the client library does on its connection. `storage`: with two ticks a
recording can be paused in the middle; the second of two commands meets every state the first leaves;
one of the two files is on the card, next to the recording's own, so that the remounts of both
threads meet. `server` has one connection of each kind, which is enough for every pair of handlers that
share the list, the count or the queue; a fifo of one is full with the second
packet, and a limit of two refuses the last client that comes.

`web`: connections share only the two queues and the count, so one of them and clients that come one
after the other meet every handler in every state; that connections do not disturb each other is in
the proofs, which are for any number. Three clients let one wait in front of a full server and give it a
connection that was used before. `KaMax` 2 gives requests with and without the promise to be
kept; `KaTimeout` 1 is reached within one turn, the most that ever passes; a page of 4 units on a socket of 3
is written in parts and, with a buffer of 2 headers, overflows; a socket takes more than the
buffer holds, so a client that reads, which here empties the socket, always lets the server go on (section 7
has the one that reads a little at a time). `ErrorCount` 2 falls before,
at and behind the end of what is left. `RequestTimeout` 30 is the code's 60 seconds in
waits of 2. All CGI programs write a header.

A deadlock check would report the end of every behaviour of `player_*`, `controller`,
`storage`, the server and the web server, since clients send a bounded number of commands and the
program then idles: `CHECK_DEADLOCK FALSE` is set for these. `fifo` and `timers`
check for deadlock.

### Fairness

For the fifo: strong fairness of taking the mutex (a thread that wants
it competes with others and gets it in the end), weak fairness inside. For the
timers the same: weak fairness of the timer thread, strong fairness of windows that
wait for its mutex and of a callback that waits for a window's lock. For the
player: weak fairness of the player thread, of a SetMedia thread's start, of a
callback that has begun and of HiPlayer serving its requests; strong fairness of a
media timer, since the timer thread goes through the list every millisecond but
may be in another callback. Nothing is assumed of SetMedia returning.

For the controller: weak fairness of its thread, of each plugin's thread and of
the player finishing its current command. For storage: strong fairness of the
recorder thread and of the packet that ends a recording (each competes with the
others for the task's mutex, and packets keep coming), weak fairness inside a
section, of the clock, of a state that was announced, and of the FTP thread, whose
server answers or goes away. The fairness of that packet is
only towards a disk that works: `LastPacket` is disabled while `failing`, which may last
for ever. Whether a command comes, a player pauses or a disk recovers, is not
assumed. For the server: strong fairness of the server thread as a whole, which waits for
`connsMutex` that the capture thread takes again and again, and weak fairness of the
capture thread's walk, not of its coming. For the web server: weak fairness of its thread
in each of its steps, of a client reading what it was sent and of a CGI program writing its
output; strong fairness of a process being started, since a fork fails for want of memory
and may be tried again. No client has to send a request or a body.

### Deliberate limits of the properties

Several properties are stated for what the code can keep. `StateKnown` is about windows with at
most one command, the startup counted in unless its media are images. `NoSilentEnd` excepts malformed commands and `TakenIsAnswered` is
about commands a queue took. `OutputMatchesStatus` excepts contexts whose task was
freed, `CardIsProtected` a card that a failed operation left behind, `RecordingEnds`
a source that stopped playing and a disk that fails again and again or for ever, `NullOnlyAtStartup` the startup itself, `CommandIsAnswered` a thread that is gone.
`SuccessIsStored` says that a file is there, not that it is whole. `PlayersAreFed`
lets a paused client be fed, `ResetIsNoticed` is about a reset, not about an end of sending,
and `CountIsExact` counts push services that were started once. `RequestIsEnded` lets a reset client, the end
of the process and two kinds of CGI requests go (`LeftOpen`), does not say that the answer was the right one,
and is about the programs of the run, which write a header. Section 7
says what lies behind these limits.

## 5. Proofs

Eight modules of proofs; the assumptions of each are those of the component on its
constants (for instance that the sets of threads are finite and disjoint), which TLC
evaluates in the runs. Where a type invariant or another part of the inductive
invariant is not among the run's properties, the theorem is what establishes it.

`CmnFifo_proofs` proves, for any sets of producers and consumers, any elements and
any `MaxSize`, the safety properties of the `fifo` run, that `etat` is exact and
that the mutex is held inside the critical sections only. The inductive invariant
adds where each thread stands: the semaphore plus the consumers that passed it
plus the producers that have added and not yet posted count the list. Without that
sum neither the list's length nor the verdict can be carried over a step of
another thread. The refinement maps the abstract queue to the part of the list
that has been posted.

`MuxPlayer_proofs` proves two invariants of a window, for every set of media,
commands and repeat numbers and every capacity of the queue: `OneSetMediaThread`
and `PlayTimerRemovable`. The argument is about the handlers as operators:
`Goes(w, x)` says what any of them may do to the fields the theorems depend on
(the thread pointer stays, a play timer is kept, forgotten or new, a forgotten or
removed timer is the window's own), it is transitive, and there is one lemma per
helper and handler, so that each handler follows by composition. The inductive
invariant adds to the two what each needs: no play timer in the list or in the
hands of the timer thread is newer than `countOfTimer`, and one whose callback has
returned is no longer the window's. Without the latter the timer thread, which
removes the timer after the callback without asking the window, could take away
the timer the window is about to remove. It also keeps the commands in the queue
among those sent. The bounds `MaxPlays` and `EndsUntil` are arbitrary in it.

`MuxPlayerCommands_proofs` proves what becomes of the commands of a window: `TypeOK`,
`AnsweredOnce`, `CurrentDataAlive`, `NoCommandForgotten`, `NullOnlyAtStartup`, `StateKnown` and the refinement of
`CommandEngine`, again for every set of media, commands and repeat numbers, every speed table and every
capacity of the queue, and any number of plays. Every helper and handler is an operator on `w`, and
each is shown to keep the current command, to answer one, to answer and forget the current one, or
to accept one (`Keeps`, `Replies`, `Finishes`, `Accepts`). These compose, so that `StepKinds` can say that
every step of the program is one of five kinds as the commands see it. The invariant is `Books`:
a command is in the queue at most once and then has no answer, the current command has left the queue and
has no answer, and no command has two. It is what makes the cases of `Status` exclude each other. `AllKept`
is `NoCommandForgotten` itself; the refinement needs it for `Accept`, which requires that no
other command is in processing: the window only looks at `cmd`.

Some of it holds only for what the code can do, and the theorems say so. For each condition
there is a behaviour TLC finds when it is left out:

| condition | theorems | without it |
|---|---|---|
| `NoRemoteImages`: no media has an image from the net | `OneAnswer`, `CurrentDataNotFreed`, `NothingForgotten`, `PlayerServesCommands` | such an image is refused on restart and its command stays current (`muxPlayerJSon.c:252`): it is answered again |
| `TableAllows`: no change of speed is taken at that end of the table | `NothingForgotten`, `PlayerServesCommands` | the handler returns without an answer (`muxPlayerJSon.c:166`) |
| `QueueTakes`: the fifo has room when a command is sent | the same | the command is lost |
| `StartsWithImagesOnly`: all media of the startup are images | `StateIsKnown` | a play command between the OK and the PLAY of the startup's stream makes the report of PLAY too late |
| `ReportsKept`: the fifo has room for a report of HiPlayer's state | the same | the report is lost (`muxPlayerReportFsmEvent`) and the window stays in the old state |

`TableAllows`, `QueueTakes` and `ReportsKept` restrict the steps of a behaviour, not the constants; `WindowTyped`
speaks of the states in which at most `MaxPlays` plays have begun, because `TypeOK` names that bound.
`NullOnlyForStartup` needs none of these conditions: seen from the five kinds of steps, a current command comes
in with its event or goes out together with it, so that only the OPEN of the startup has none. That one may be answered
through NULL, whatever the media: no condition on them is left in the theorem, because windows start with streams
(section 7).

`StateIsKnown` compares the window with HiPlayer at rest, so its invariant has to say what every mixture of queued
reports, accepted requests and waiting handlers will lead to. It does so with a token: up to the first
command a play is at one place only (`Phase`): in the player thread or a SetMedia thread, in the one call
HiPlayer has still to serve, in the one report (or a PLAY and a STOP, in this order) that waits in the queue, or
nowhere while the item goes on. `Like` says which changes of a window leave the token alone; the helpers compose
under it as they do under `Keeps`. Before the first command leaves the queue only images have been shown
(`Calm`), which is why it cannot move `countOfPlay` under a report that is on its way. That the token is with the
SetMedia thread as long as there is one uses `OneThread`. TLC checked the invariant for playlists of
streams, dead streams, images that fail and images from the net, with and without durations, before it was proved.

`CmnTimer_proofs` proves `TypeOK`, `WalkTrusted`, `HeldIsMine`, `NeverTooSoon` and the refinement
of `TimerSet` for any windows, addresses, intervals and slice. It first shows what
putting an address in front of a list without repetition and taking one out of it
do, then that the two pointer assignments of the code take out exactly the element
the walk is at (`Unlinked`, `EndFacts`). That the pointers are right when they are
used is `WalkTrusted`; it rests on the flag, which every other change of the list
sets and only the thread clears. `HeldIsMine` needs `Settled`: when the thread is
about to free a timer no window has its pointer, because the callback that
returned 0 was that of the window whose timer it is. `NeverTooSoon` needs that an
alarm is never set before the call it belongs to.

`MuxController_proofs` proves the types, all safety properties of the `controller` run, that a
command is replied to at most once (`OneReply`) and the
refinement of `CommandEngine`, for any clients, plugins, descriptors and queue size.
The invariant is one of ownership: `OneOwner` says that a command a queue took is
held by exactly one thread, in its queue, in its hands or as the player's current
command, and by nobody else. `Control` says that what the controller holds was
taken by nobody, except in `handOver`, where the mutex keeps the plugin's thread in
front of the reply; that is why the controller may still read `errCode`.
`Answered` counts the replies by where the command is, `Stages` ties the verdict
"processing" to the player's current command.

`Storage_proofs` proves the safety properties of the `storage` run, for any files,
descriptors, lists of downloads, lengths and numbers of commands, while the disk fails and recovers as it likes. `Sections` says
what the holder of the task's mutex relies on, `Transfer` what the FTP thread does;
`OutputMatchesStatus` and `RecordedTimeIsRight` are carried together with them.
`DownloadStored` uses the resulting invariant in a second induction: a file that was
stored is not taken away, because a recording opens only its own names, and a refused
download removes only the file of its own list that it was about to replace, after
which nothing is reported as stored.

`SvrConnections_proofs` proves the types and all invariants of the `server` run, for any clients, push
services, fifo sizes and limits. `Closing` is the core: connections are closed only when the
queue is empty, the one being closed has left the list, and those to be visited are in
CLOSING. `Walk` says that the capture thread's walk stays within the list, because
the list changes only under its mutex. `CountIsExact` needs cardinalities of sets of clients
that gain or lose one member, from `FiniteSetTheorems`.

`WebServer_proofs` proves the types, the safety properties of the `web` run and `AnnouncementIsKept`, which
says what a connection owes to what its last header said of it, for any connections, clients, sizes,
limits and CGI programs. `HandlerOutcome` first shows that every handler does one of three
things (closes its connection, moves it, ends the process), so that the invariant is carried over
each of the three once instead of over every path. `FreeIsFresh` says that a free
connection is as `new_request` hands it out, whatever it was used for; `RequestRead`, that the request line is kept until
the answer is there, and that a body lies in a socket only while the request it belongs to is read. `Served` is the reason why no connection
times out but in READ_HEADER: its time was set in the last turn and one turn is shorter than
`RequestTimeout`; a time-out elsewhere has no handler and would fall back to READ_HEADER with half an
answer sent. `Awaits` is `AnnouncementIsKept` for one connection, with what makes it inductive: the event is
cleared exactly when a connection is kept, and a readable socket stays readable until
its connection is handled.

Only model-checked: liveness under fairness, which is out of the prover's reach: `OperationsReturn`,
`EveryCommandAnswered`, `DueTimersFire`, `TakenIsAnswered`, `RecordingEnds`, `CommandIsAnswered`, `DownloadEnds`,
`RequestIsAnswered`, `ResetIsNoticed` and `RequestIsEnded`. Every other property of a passing
run is also a theorem.

## 6. Not modelled

`components` in `PROJECT.json` lists every part. The board's drivers, configuration
parsers, logging, the media library and the command-line clients have no concurrent
or persistent state a model would say something about. The synchronous commands of the
player are answered within their handler. Of the thread registry, `MuxPlayer` has the
only threads that come and go, those of SetMedia: they cannot end before their
creator has entered them in the list, because both hold `PLAY_LOCK` at that point; the
list itself is only walked under its lock, to print it. Playlists are edited by the controller
thread, saved and found under one lock, and the player takes a copy when it starts one. The
CGI programs print one page per process; of them `WebServer` has what reaches the pipe. What
`WebServer` leaves out of the web plugin is listed in section 3. ffmpeg and the other
vendored trees, which make up nearly all of the repository's lines, are not this
program's own logic.

## 7. What reading the code for the models brought up

Besides the two runs that end in a violation. The models contain the behaviour unless
the entry says otherwise, and the properties are stated so that they do not depend on it.

Player:

- SetMedia is called on a playing player when the state machine is in INIT or STOP
  (`muxRxPlayCmdSetMedia.c:427`), which `hi_svr_player.h:371` forbids.
- The media timer's callback compares its timer before it takes the lock; its FAIL may
  carry the number of the next play (`muxRxPlayCmdSetMedia.c:238`).
- Forward or backward at the end of the speed table is never answered (`muxPlayerJSon.c:166`).
- Play of an image that is not on the device is never answered in INIT or STOP
  (`muxPlayerJSon.c:252`); on restart the answered command stays current.
- Media that ends by itself can start the pending play command twice; the player thread then waits
  for the first SetMedia for ever (`muxRxPlayCmdSetMedia.c:753`).
- A window that starts with a stream replies through NULL when PLAY is reported before OK
  has been handled: `_playerPlayingStateEnter` reads `jsonEvent->priv` without the check
  that `_playerOKHandler` makes (`muxPlayerFsm.c:938`, `libMux.h:946`). The shipped `muxPlayer.conf` starts every
  window that way. The program may crash there, the model goes on; `NullOnlyAtStartup` says that it can
  happen nowhere else.
- A pause whose media ends before HiPlayer serves it is not answered (`muxPlayerJSon.c:334`),
  nor is stop in FORWARD or BACKWARD (`muxPlayerJSon.c:284`).
- The callback of a play timer that was removed still runs and sets `mediaState`
  (`muxRxPlayCmdSetMedia.c:921`).
- Not in the model: the window is put into the list after its first SetMedia has begun
  (`muxRxInitPlayer.c:746`); a full fifo drops a state machine event (`muxPlayerFsm.c:1641`).

Timers: a one-shot timer fires again when the list changed during its callback
(`cmnTimer.c:165`). Not in the model: `t->cb` is read after the mutex was given back
(`cmnTimer.c:161`), the ticks turn negative after 24.8 days (`cmnTimer.c:72`).

Controller:

- A refused or too early event leaves its client without an answer or ends the process
  (`muxMain.c:204`).
- A playlist with an invalid item is refused after the old one of that name was
  removed, and the pointer it frees lies inside of a block (`cmnMuxJsonMedia.c:405`); one
  without items is accepted, while the player expects at least one. Not in the model.
- A command whose length arrives in two pieces is refused (`cmnMuxController.c:224`); a
  client that sends nothing blocks the controller (`cmnMuxController.c:182`); a failed read
  may leave its descriptor open (`cmnMuxController.c:198`).

Recorder and FTP:

- A failed open tells the client to try again and ends the recorder thread
  (`muxRecorderInit.c:465`, `cmnThread.c:147`). `_cmnThreadCleanup` then frees
  `threadRecorder`, which is a static variable: a C library that checks it ends the
  program there, and what the models say holds up to that point.
- A start in PAUSE frees the task without closing its file (`muxRecorderInit.c:423`).
- A recording in PAUSE is not told that the player stops (`muxRecorderInit.c:672`), and
  the player announces a stop before it has left its state (`cmnFsm.c:85`).
- A packet that cannot be written returns before the length of the recording is looked at
  (`muxRecorderInit.c:604`), so on a full disk a recording goes on, whatever its length,
  until it is stopped or its source stops.
- The end of a recording adds the last stretch to `recordedTime` a second time
  (`muxRecorderInit.c:644`); nobody reads it afterwards.
- The consumer of packets is registered before the task's mutex is used by anybody
  else (`muxRecorderInit.c:720`); not in the model.
- A broken FTP connection counts as the end of the file (`cmnFtpLib.c:1363`, `1494`), and a
  failed download leaks its client structure (`cmnMuxFtpThread.c:212`).

Server:

- A refused client makes the listening connection CLOSING, so that the service accepts
  nobody any more (`muxSvrThreadInit.c:37`).
- POST, and an RTSP event without an entry, is never answered (`muxSvrHttpMain.c:328`); the
  reply to a wrong RTSP version is not sent (`muxSvrRtspMain.c:40`); the buffer of an
  HTTP request is not reset (`muxSvrHttpMain.c:233`).
- A peer that ends its sending is not noticed (`muxSvrConnUtils.c:60`).
- A push service that failed is not started again (`muxSvrServiceConns.c:300`).
- Not in the model: a full event queue (`muxSvrConnUtils.c:210`), a busy loop on a full socket
  (`muxSvrConnUtils.c:116`), a query of a connection without stream
  (`muxSvrJSon.c:67`), bandwidth that wraps (`muxSvrThreadMain.c:150`), SETUP of another
  stream with two feeds (`muxSvrRtspHandlers.c:378`).

Web:

- `process_requests` sets `time_last` in every turn, of every connection (`muxWebHttpFsm.c:246`), and a turn
  takes at most 2 seconds, so neither the 10 seconds of `KeepAliveTimeout` (`muxWeb.conf:79`) nor the 60 of
  `REQUEST_TIMEOUT` ever pass: a silent client keeps its connection.
- The response is prepared at every call of `ecpwsHttpHandlerWriteHtml` (`muxWebHttpHandlers.c:350`): after a
  partial write a second header, of a 206, goes out in the middle of the page, and a client that reads one header in
  each turn gets nothing else.
- While the socket takes nothing each turn puts one more header into the buffer. When it is full, `req_write` sets
  ERROR (`muxWebBuffer.c:47`), which the same pass of the state machine handles with a status of 200 or 206;
  the default case of the error page prints into a NULL pointer (`muxWebHttpResponse.c:359`).
- For an empty file `ecpwsHttpPrepareStaticResponse` returns READ_HEADER (`muxWebHttpStaticContent.c:527`);
  its caller goes on and reads `conn->ranges`, which is NULL.
- BODY_READ is polled for writing, so a body that comes after its header is not there when it is read, which is
  taken for "peer close this socket" (`muxWebHttpHandlers.c:257`).
- CGI_DONE means the end of the header (`muxWebCgiHandlers.c:296`), yet `ecpwsCgiHandlerSendout` takes it
  for the end of the output and closes the connection. After a "Status:" header it goes back to CGI_READ,
  where the end of the pipe means nothing.
- A CGI program that ends without a header reads like an empty pipe: its connection stays in
  CGI_READ for ever (`muxWebCgiHandlers.c:225`).
- A failed fork gives 0, which is CONTINUE, so a request is neither answered nor
  closed until its client sends more or leaves (`muxWebCgiCreate.c:32`); after a POST it is tried again.
- A failed write counts as nine bytes written (`muxWebNetService.c:178`); a range that
  ends up behind its end is sent again from the start.
- An answer that was announced "close" is closed by the event it leaves behind; only the time-out
  that never passes would do it otherwise (`muxWebInit.c:162`).
- Not in the model: the refusal with 503 that cannot happen (`muxWebNetService.c:703`), a POST body
  that begins four bytes too early (`muxWebHttpReadRequest.c:129`), the pipe's
  descriptor and the child that are never given back (`muxWebInit.c:123`, `458`).
