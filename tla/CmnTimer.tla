------------------------------ MODULE CmnTimer ------------------------------
(***************************************************************************)
(* The timers of cmnTimer.c: one linked list under one mutex, walked every *)
(* millisecond by the timer thread, which gives the mutex back to call the *)
(* callback of a timer that is due and then goes on from the pointers it   *)
(* had, unless timersChanged says that the list is another one.            *)
(*                                                                         *)
(* The users are the windows of the player: each keeps a pointer to its    *)
(* timer, adds and removes it under its own lock (PLAY_LOCK), and its      *)
(* callback takes that lock too, and clears the pointer.  A timer is the   *)
(* address it was allocated at: an address that has been freed may be used *)
(* again for the next timer.                                               *)
(*                                                                         *)
(* A step of the timer thread under the mutex looks at one element of the  *)
(* list, so the mutex is held while pc = "walking".                        *)
(***************************************************************************)
EXTENDS Integers, Sequences

CONSTANTS
    Owner,        \* the windows
    Address,      \* where timers can be allocated
    NULL,         \* no timer
    Asked,        \* the intervals timers are added with
    Returned,     \* what a callback may return: 0, or the next interval
    TimeSlice,    \* CMN_TIMESLICE, which is also CMN_TIMER_RESOLUTION
    MaxClock      \* bound on the clock

ASSUME ConstantsAssumption ==
    /\ NULL \notin Address /\ Owner # {}
    /\ TimeSlice \in Nat \ {0} /\ MaxClock \in Nat
    /\ Asked \subseteq Nat \ {0} /\ Returned \subseteq Nat

VARIABLES
    clock,          \* cmn_get_ticks
    timers,         \* the linked list of addresses
    data,           \* what is stored at an address
    timersChanged,
    held,           \* the pointer each window has
    ownerPc,        \* a window adding or removing holds its lock
    pc,             \* where the timer thread is
    walk            \* its local variables

vars == <<clock, timers, data, timersChanged, held, ownerPc, pc, walk>>

\* Where there is no timer; never is the history of a new one.
never == -1
Unused(o) == [owner |-> o, interval |-> 0, lastAlarm |-> 0, started |-> never]

NoWalk == [now |-> 0, prev |-> NULL, t |-> NULL, next |-> NULL, ms |-> 0]

\* ROUND_RESOLUTION
Round(time) == ((time + TimeSlice - 1) \div TimeSlice) * TimeSlice

\* The pointers of the list: the element at a place, NULL before the first and
\* behind the last; a->next; the list up to and from an element.
Listed == {timers[i] : i \in DOMAIN timers}
Elem(i) == IF i \in DOMAIN timers THEN timers[i] ELSE NULL
Position(a) == CHOOSE i \in DOMAIN timers : timers[i] = a
NextOf(a) == Elem(Position(a) + 1)
UpTo(a) == IF a \in Listed THEN SubSeq(timers, 1, Position(a)) ELSE <<>>
From(a) == IF a \in Listed THEN SubSeq(timers, Position(a), Len(timers)) ELSE <<>>
Without(a) ==
    IF a \in Listed
    THEN SubSeq(timers, 1, Position(a) - 1) \o SubSeq(timers, Position(a) + 1, Len(timers))
    ELSE timers

\* What free leaves: nobody looks at it but a callback that is about to be
\* called, for whose window it is.
Freed(a) == [data EXCEPT ![a] = Unused(data[a].owner)]

MutexFree == pc # "walking"

----------------------------------------------------------------------------
Init ==
    /\ clock = 0
    /\ timers = <<>> /\ timersChanged = FALSE
    /\ data = [a \in Address |-> Unused(CHOOSE o \in Owner : TRUE)]
    /\ held = [o \in Owner |-> NULL] /\ ownerPc = [o \in Owner |-> "free"]
    /\ pc = "idle" /\ walk = NoWalk

Tick ==
    /\ clock < MaxClock /\ clock' = clock + 1
    /\ UNCHANGED <<timers, data, timersChanged, held, ownerPc, pc, walk>>

----------------------------------------------------------------------------
(* The windows.                                                              *)

OwnerMoves(o, from, to) == ownerPc[o] = from /\ ownerPc' = [ownerPc EXCEPT ![o] = to]

\* A window takes its lock to add a timer when it has none, or to remove it.
Lock(o) ==
    /\ OwnerMoves(o, "free", IF held[o] = NULL THEN "adding" ELSE "removing")
    /\ UNCHANGED <<clock, timers, data, timersChanged, held, pc, walk>>

\* cmn_add_timer: the new timer goes to the head of the list.  When malloc
\* fails nothing happens.
AddTimer(o) ==
    /\ MutexFree
    /\ OwnerMoves(o, "adding", "free")
    /\ \/ \E a \in Address \ Listed, asked \in Asked :
            /\ timers' = <<a>> \o timers
            /\ data' = [data EXCEPT ![a] = [owner |-> o, interval |-> Round(asked),
                                            lastAlarm |-> clock, started |-> never]]
            /\ held' = [held EXCEPT ![o] = a]
            /\ timersChanged' = TRUE
       \/ Address \subseteq Listed /\ UNCHANGED <<timers, data, held, timersChanged>>
    /\ UNCHANGED <<clock, pc, walk>>

\* cmn_remove_timer, after which the window clears its pointer.
RemoveTimer(o) ==
    /\ MutexFree
    /\ OwnerMoves(o, "removing", "free")
    /\ timers' = Without(held[o])
    /\ data' = IF held[o] \in Listed THEN Freed(held[o]) ELSE data
    /\ timersChanged' = (timersChanged \/ held[o] \in Listed)
    /\ held' = [held EXCEPT ![o] = NULL]
    /\ UNCHANGED <<clock, pc, walk>>

----------------------------------------------------------------------------
(* The timer thread: __threaded_timer_check.                                 *)

\* The clock is read before the mutex is taken.
ReadClock ==
    /\ pc = "idle" /\ pc' = "locking"
    /\ walk' = [walk EXCEPT !.now = clock]
    /\ UNCHANGED <<clock, timers, data, timersChanged, held, ownerPc>>

BeginWalk ==
    /\ pc = "locking" /\ pc' = "walking"
    /\ walk' = [walk EXCEPT !.t = Elem(1)]
    /\ UNCHANGED <<clock, timers, data, timersChanged, held, ownerPc>>

EndWalk ==
    /\ pc = "walking" /\ walk.t = NULL
    /\ pc' = "idle" /\ walk' = NoWalk
    /\ UNCHANGED <<clock, timers, data, timersChanged, held, ownerPc>>

Due(a, now) ==
    /\ data[a].lastAlarm < now
    /\ now - data[a].lastAlarm > data[a].interval - TimeSlice

\* Mutant: the list is taken for sorted, the walk ends at a timer not yet due.
MutSkip ==
    /\ pc = "walking" /\ walk.t # NULL /\ ~ Due(walk.t, walk.now)
    /\ walk' = [walk EXCEPT !.prev = walk.t, !.t = NULL]
    /\ UNCHANGED <<clock, timers, data, timersChanged, held, ownerPc, pc>>

\* A timer that is not due yet is passed over.
Skip ==
    /\ pc = "walking" /\ walk.t # NULL /\ ~ Due(walk.t, walk.now)
    /\ walk' = [walk EXCEPT !.prev = walk.t, !.t = NextOf(walk.t)]
    /\ UNCHANGED <<clock, timers, data, timersChanged, held, ownerPc, pc>>

\* Mutant: a timer that is late catches up.
MutAlarm(timer) == timer.lastAlarm + timer.interval

\* The time of the alarm: one that comes early within its slice keeps its beat.
Alarm(timer) ==
    IF walk.now - timer.lastAlarm < timer.interval
    THEN timer.lastAlarm + timer.interval ELSE walk.now

\* A timer that is due: the flag is cleared and the mutex given back.
Fire ==
    /\ pc = "walking" /\ walk.t # NULL /\ Due(walk.t, walk.now)
    /\ data' = [data EXCEPT ![walk.t] = [@ EXCEPT !.lastAlarm = Alarm(data[walk.t]),
                                                  !.started = walk.now]]
    /\ timersChanged' = FALSE
    /\ walk' = [walk EXCEPT !.next = NextOf(walk.t)]
    /\ pc' = "calling"
    /\ UNCHANGED <<clock, timers, held, ownerPc>>

\* The callback of the timer at that address, under the lock of its window.
\* One that ends its timer clears the window's pointer, whichever timer that is
\* of (_mediaPlayingTimeoutCallback does not compare, _mediaTimeoutCallback does
\* before it has the lock).  The thread reads the timer without the mutex: it
\* may have been freed, and even be another one.
Callback ==
    LET window == data[walk.t].owner
    IN  /\ pc = "calling" /\ ownerPc[window] = "free"
        /\ \E ms \in Returned :
             /\ walk' = [walk EXCEPT !.ms = ms]
             /\ held' = IF ms = 0 THEN [held EXCEPT ![window] = NULL] ELSE held
        /\ pc' = "called"
        /\ UNCHANGED <<clock, timers, data, timersChanged, ownerPc>>

\* _mediaTimeoutCallback without the lock: a timer that is no longer the window's
\* is ended and the window left alone.
CallbackIgnores ==
    /\ pc = "calling" /\ pc' = "called"
    /\ walk.t # held[data[walk.t].owner]
    /\ walk' = [walk EXCEPT !.ms = 0]
    /\ UNCHANGED <<clock, timers, data, timersChanged, held, ownerPc>>

\* The list is another one: the walk is given up.
GiveUp ==
    /\ pc = "called" /\ timersChanged
    /\ pc' = "idle" /\ walk' = NoWalk
    /\ UNCHANGED <<clock, timers, data, timersChanged, held, ownerPc>>

\* The walk goes on behind a timer that has a next interval.
KeepTimer ==
    /\ pc = "called" /\ ~ timersChanged /\ walk.ms # 0
    /\ data' = [data EXCEPT ![walk.t].interval = Round(walk.ms)]
    /\ walk' = [walk EXCEPT !.prev = walk.t, !.t = walk.next, !.next = NULL, !.ms = 0]
    /\ pc' = "walking"
    /\ UNCHANGED <<clock, timers, timersChanged, held, ownerPc>>

\* Mutant: the flag is not looked at.
MutEndUnchecked ==
    /\ pc = "called" /\ walk.ms = 0
    /\ timers' = UpTo(walk.prev) \o From(walk.next)
    /\ data' = Freed(walk.t)
    /\ walk' = [walk EXCEPT !.t = walk.next, !.next = NULL]
    /\ pc' = "walking"
    /\ UNCHANGED <<clock, timersChanged, held, ownerPc>>

\* One that returned 0 is taken out between prev and next, and freed.
EndTimer ==
    /\ pc = "called" /\ ~ timersChanged /\ walk.ms = 0
    /\ timers' = UpTo(walk.prev) \o From(walk.next)
    /\ data' = Freed(walk.t)
    /\ walk' = [walk EXCEPT !.t = walk.next, !.next = NULL]
    /\ pc' = "walking"
    /\ UNCHANGED <<clock, timersChanged, held, ownerPc>>

TimerThread ==
    \/ ReadClock \/ BeginWalk \/ Skip \/ Fire \/ Callback \/ CallbackIgnores
    \/ GiveUp \/ KeepTimer \/ EndTimer \/ EndWalk

Window(o) == Lock(o) \/ AddTimer(o) \/ RemoveTimer(o)

Next == Tick \/ TimerThread \/ \E o \in Owner : Window(o)

Spec == Init /\ [][Next]_vars

\* The timer thread runs for ever; a window that waits for the mutex, and the
\* callback that waits for a window's lock, compete for it with a thread that
\* takes it again and again and get it in the end.
Fairness ==
    /\ WF_vars(TimerThread) /\ SF_vars(Callback)
    /\ \A o \in Owner : SF_vars(AddTimer(o)) /\ SF_vars(RemoveTimer(o))

FairSpec == Spec /\ Fairness

----------------------------------------------------------------------------
(* Properties.                                                               *)

Pointer == Address \cup {NULL}

TypeOK ==
    /\ clock \in 0 .. MaxClock
    /\ timers \in Seq(Address)
    /\ \A i, j \in DOMAIN timers : timers[i] = timers[j] => i = j
    /\ data \in [Address -> [owner : Owner, interval : Nat, lastAlarm : Nat,
                             started : Nat \cup {never}]]
    /\ \A a \in Listed : data[a].interval > 0
    /\ timersChanged \in BOOLEAN
    /\ held \in [Owner -> Pointer]
    /\ ownerPc \in [Owner -> {"free", "adding", "removing"}]
    /\ pc \in {"idle", "locking", "walking", "calling", "called"}
    /\ walk \in [now : 0 .. clock, prev : Pointer, t : Pointer, next : Pointer,
                 ms : Returned \cup {0}]

\* Where the timer thread goes on from after it had given the mutex back: the
\* pointers it kept are those of the list, unless timersChanged says otherwise.
Trusted == pc = "walking" \/ (pc \in {"calling", "called"} /\ ~ timersChanged)
Neighbours(p, a) == \E i \in 0 .. Len(timers) : p = Elem(i) /\ a = Elem(i + 1)
WalkTrusted == Trusted =>
    /\ Neighbours(walk.prev, walk.t)
    /\ pc # "walking" => walk.t # NULL /\ walk.next = NextOf(walk.t)

\* A window's pointer is that of a timer in the list, and its own: the address
\* has not been freed and allocated for another window since.
HeldIsMine == \A o \in Owner :
    held[o] # NULL => held[o] \in Listed /\ data[held[o]].owner = o

\* A callback is not called twice within its interval (less a slice), however
\* late a walk is and whatever interval the callback has asked for.
NeverTooSoon == [][Fire =>
    LET timer == data[walk.t]
    IN  timer.started = never
          \/ walk.now - timer.started > timer.interval - TimeSlice]_vars

\* The list, the pointer surgery and the flag implement a set of timers.
TS == INSTANCE TimerSet WITH
        Timers <- Address, Nothing <- NULL, armed <- Listed, touched <- timersChanged,
        firing <- IF pc \in {"calling", "called"} THEN walk.t ELSE NULL
ImplementsTimerSet == TS!Spec

\* A timer that is due fires, or is removed: a walk that is given up loses none.
DueTimersFire == \A a \in Address :
    (a \in Listed /\ Due(a, clock)) ~> ~ (a \in Listed /\ Due(a, clock))
=============================================================================
