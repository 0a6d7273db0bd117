--------------------------- MODULE CmnTimer_proofs ---------------------------
(***************************************************************************)
(* The safety of the timer list for any number of windows and addresses    *)
(* and any intervals, and that it implements TimerSet.                     *)
(*                                                                         *)
(* WalkTrusted is not inductive by itself: taking out the element between  *)
(* two pointers keeps the list right only if no window still has the       *)
(* pointer to it, which is so because the callback that returned 0 was the *)
(* one of the window whose timer it is (Settled), which rests on           *)
(* HeldIsMine.  IInv is the three together.                                *)
(***************************************************************************)
EXTENDS CmnTimer, SequenceTheorems, TLAPS

----------------------------------------------------------------------------
(* Sequences without repetition, with an element put in front or taken out.  *)

Distinct(s) == \A i, j \in DOMAIN s : s[i] = s[j] => i = j
RangeOf(s) == {s[i] : i \in DOMAIN s}
Cut(s, p) == SubSeq(s, 1, p - 1) \o SubSeq(s, p + 1, Len(s))

LEMMA ConsIndex ==
    ASSUME NEW S, NEW s \in Seq(S), NEW a \in S
    PROVE  /\ <<a>> \o s \in Seq(S) /\ DOMAIN (<<a>> \o s) = 1 .. Len(s) + 1
           /\ (<<a>> \o s)[1] = a
           /\ \A i \in 1 .. Len(s) : (<<a>> \o s)[i + 1] = s[i]
BY ConcatProperties

LEMMA CutIndex ==
    ASSUME NEW S, NEW s \in Seq(S), NEW p \in 1 .. Len(s)
    PROVE  /\ Cut(s, p) \in Seq(S) /\ DOMAIN Cut(s, p) = 1 .. Len(s) - 1
           /\ \A i \in 1 .. p - 1 : Cut(s, p)[i] = s[i]
           /\ \A i \in p .. Len(s) - 1 : Cut(s, p)[i] = s[i + 1]
<1> DEFINE u == SubSeq(s, 1, p - 1)
           v == SubSeq(s, p + 1, Len(s))
<1>1. u \in Seq(S) /\ Len(u) = p - 1 /\ \A i \in 1 .. p - 1 : u[i] = s[i]
  OBVIOUS
<1>2. v \in Seq(S) /\ Len(v) = Len(s) - p /\ \A i \in 1 .. Len(s) - p : v[i] = s[i + p]
  OBVIOUS
<1>3. Cut(s, p) = u \o v
  BY DEF Cut
<1> HIDE DEF u, v
<1>a. Len(s) \in Nat
  OBVIOUS
<1>4. /\ u \o v \in Seq(S) /\ Len(u \o v) = Len(s) - 1
      /\ \A i \in 1 .. Len(s) - 1 : (u \o v)[i] = IF i <= p - 1 THEN u[i] ELSE v[i - (p - 1)]
  <2>1. Len(u) + Len(v) = Len(s) - 1
    BY <1>1, <1>2, <1>a
  <2>2. /\ u \o v \in Seq(S) /\ Len(u \o v) = Len(u) + Len(v)
        /\ \A i \in 1 .. Len(u) + Len(v) :
             (u \o v)[i] = IF i <= Len(u) THEN u[i] ELSE v[i - Len(u)]
    BY <1>1, <1>2, ConcatProperties
  <2> QED BY <2>1, <2>2, <1>1
<1>5. ASSUME NEW i \in 1 .. p - 1 PROVE (u \o v)[i] = s[i]
  <2>1. i \in 1 .. Len(s) - 1 /\ i <= p - 1
    BY <1>a
  <2> QED BY <2>1, <1>1, <1>4
<1>6. ASSUME NEW i \in p .. Len(s) - 1 PROVE (u \o v)[i] = s[i + 1]
  <2>1. /\ i \in 1 .. Len(s) - 1 /\ ~ (i <= p - 1)
        /\ i - (p - 1) \in 1 .. Len(s) - p /\ (i - (p - 1)) + p = i + 1
    BY <1>a
  <2>2. (u \o v)[i] = v[i - (p - 1)]
    BY <2>1, <1>4
  <2>3. v[i - (p - 1)] = s[(i - (p - 1)) + p]
    BY <2>1, <1>2
  <2> QED BY <2>1, <2>2, <2>3
<1>7. DOMAIN (u \o v) = 1 .. Len(s) - 1
  BY <1>4
<1> QED BY <1>3, <1>4, <1>5, <1>6, <1>7

\* Facts about any two functions that are indexed so.
LEMMA InsertedRange ==
    ASSUME NEW n \in Nat, NEW s, NEW r, NEW a,
           DOMAIN s = 1 .. n, DOMAIN r = 1 .. n + 1, r[1] = a,
           \A i \in 1 .. n : r[i + 1] = s[i]
    PROVE  /\ RangeOf(r) = RangeOf(s) \cup {a}
           /\ Distinct(s) /\ a \notin RangeOf(s) => Distinct(r)
<1>1. \A i \in 1 .. n + 1 : i # 1 => i - 1 \in 1 .. n /\ (i - 1) + 1 = i
  OBVIOUS
<1>2. \A i \in 1 .. n + 1 : i # 1 => i - 1 \in DOMAIN s /\ r[i] = s[i - 1]
  BY <1>1
<1>8. \A i \in 1 .. n + 1 : i # 1 => r[i] \in RangeOf(s)
  BY <1>2 DEF RangeOf
<1>3. \A i \in 1 .. n : i + 1 \in 1 .. n + 1
  OBVIOUS
<1>4. 1 \in 1 .. n + 1
  OBVIOUS
<1>5. RangeOf(r) \subseteq RangeOf(s) \cup {a}
  <2> SUFFICES ASSUME NEW i \in 1 .. n + 1 PROVE r[i] \in RangeOf(s) \cup {a}
    BY Zenon DEF RangeOf
  <2> QED BY <1>8
<1>6. RangeOf(s) \cup {a} \subseteq RangeOf(r)
  BY <1>3, <1>4 DEF RangeOf
<1>7. ASSUME Distinct(s), a \notin RangeOf(s) PROVE Distinct(r)
  <2> SUFFICES ASSUME NEW i \in 1 .. n + 1, NEW j \in 1 .. n + 1, r[i] = r[j] PROVE i = j
    BY DEF Distinct
  <2>1. CASE i = 1 \/ j = 1
    BY <2>1, <1>8, <1>7
  <2>2. CASE i # 1 /\ j # 1
    <3>1. i - 1 \in DOMAIN s /\ j - 1 \in DOMAIN s /\ s[i - 1] = s[j - 1]
      BY <2>2, <1>2
    <3>2. i - 1 = j - 1
      BY <3>1, <1>7 DEF Distinct
    <3> QED BY <3>2
  <2> QED BY <2>1, <2>2
<1> QED BY <1>5, <1>6, <1>7

LEMMA CutRange ==
    ASSUME NEW n \in Nat, NEW p \in 1 .. n, NEW s, NEW r,
           DOMAIN s = 1 .. n, DOMAIN r = 1 .. n - 1, Distinct(s),
           \A i \in 1 .. p - 1 : r[i] = s[i],
           \A i \in p .. n - 1 : r[i] = s[i + 1]
    PROVE  RangeOf(r) = RangeOf(s) \ {s[p]} /\ Distinct(r)
<1> DEFINE from(i) == IF i < p THEN i ELSE i + 1
<1>1. ASSUME NEW i \in 1 .. n - 1
      PROVE  from(i) \in 1 .. n /\ from(i) # p /\ r[i] = s[from(i)]
  <2>1. CASE i < p
    <3>1. i \in 1 .. p - 1 /\ i \in 1 .. n
      BY <2>1
    <3> QED BY <2>1, <3>1
  <2>2. CASE ~ (i < p)
    <3>1. i \in p .. n - 1 /\ i + 1 \in 1 .. n /\ i + 1 # p
      BY <2>2
    <3> QED BY <2>2, <3>1
  <2> QED BY <2>1, <2>2
<1>2. ASSUME NEW i \in 1 .. n, i # p
      PROVE  \E k \in 1 .. n - 1 : from(k) = i
  <2>1. CASE i < p
    BY <2>1
  <2>2. CASE i > p
    <3>1. i - 1 \in 1 .. n - 1 /\ ~ (i - 1 < p) /\ (i - 1) + 1 = i
      BY <2>2
    <3> WITNESS i - 1 \in 1 .. n - 1
    <3> QED BY <3>1
  <2> QED BY <2>1, <2>2, <1>2
<1>3. ASSUME NEW i \in 1 .. n - 1, NEW j \in 1 .. n - 1, from(i) = from(j)
      PROVE  i = j
  BY <1>3
<1> HIDE DEF from
<1>4. RangeOf(r) \subseteq RangeOf(s) \ {s[p]}
  BY <1>1 DEF RangeOf, Distinct
<1>5. RangeOf(s) \ {s[p]} \subseteq RangeOf(r)
  <2> SUFFICES ASSUME NEW i \in 1 .. n, s[i] # s[p] PROVE s[i] \in RangeOf(r)
    BY DEF RangeOf
  <2>1. PICK k \in 1 .. n - 1 : from(k) = i
    BY <1>2
  <2> QED BY <2>1, <1>1 DEF RangeOf
<1>6. Distinct(r)
  BY <1>1, <1>3 DEF Distinct
<1> QED BY <1>4, <1>5, <1>6
----------------------------------------------------------------------------
(* The pointers of the list.                                                 *)

LEMMA ListFacts ==
    ASSUME TypeOK
    PROVE  /\ Len(timers) \in Nat /\ DOMAIN timers = 1 .. Len(timers)
           /\ Listed = RangeOf(timers) /\ Listed \subseteq Address /\ NULL \notin Listed
           /\ Distinct(timers)
BY ConstantsAssumption DEF TypeOK, Listed, RangeOf, Distinct

LEMMA PositionOf ==
    ASSUME TypeOK, NEW i \in DOMAIN timers
    PROVE  Position(timers[i]) = i /\ timers[i] \in Listed /\ Elem(i) = timers[i]
BY DEF Listed, Position, TypeOK, Elem

LEMMA PositionProperties ==
    ASSUME TypeOK, NEW a \in Listed
    PROVE  Position(a) \in DOMAIN timers /\ timers[Position(a)] = a
BY DEF Listed, Position

\* A pointer that is not NULL is the one of a place in the list.
LEMMA ElemFacts ==
    ASSUME TypeOK, NEW i \in Int, Elem(i) # NULL
    PROVE  i \in DOMAIN timers /\ Elem(i) \in Listed /\ NextOf(Elem(i)) = Elem(i + 1)
BY PositionOf DEF Elem, NextOf

\* The thread can go on behind the element it is at.
LEMMA StepForward ==
    ASSUME TypeOK, NEW p, NEW a, Neighbours(p, a), a # NULL
    PROVE  Neighbours(a, NextOf(a)) /\ a \in Listed
<1>1. PICK i \in 0 .. Len(timers) : p = Elem(i) /\ a = Elem(i + 1)
  BY DEF Neighbours
<1>2. i + 1 \in DOMAIN timers /\ a \in Listed /\ NextOf(a) = Elem((i + 1) + 1)
  BY <1>1, ElemFacts, ListFacts
<1>3. i + 1 \in 0 .. Len(timers)
  BY <1>2, ListFacts
<1> QED BY <1>1, <1>2, <1>3 DEF Neighbours

\* What the two pointer assignments leave is the list without the element.
LEMMA Unlinked ==
    ASSUME TypeOK, NEW i \in 0 .. Len(timers), Elem(i + 1) # NULL
    PROVE  UpTo(Elem(i)) \o From(Elem(i + 2)) = Cut(timers, i + 1)
<1>1. Len(timers) \in Nat /\ i + 1 \in 1 .. Len(timers)
  BY ElemFacts, ListFacts
<1>2. UpTo(Elem(i)) = SubSeq(timers, 1, i)
  <2>1. CASE i = 0
    <3>1. Elem(i) \notin Listed
      BY <2>1, ListFacts DEF Elem
    <3>2. SubSeq(timers, 1, i) = <<>>
      BY <2>1, SubSeqEmpty
    <3> QED BY <3>1, <3>2 DEF UpTo
  <2>2. CASE i # 0
    <3>1. i \in DOMAIN timers
      BY <2>2, <1>1, ListFacts
    <3> QED BY <3>1, PositionOf DEF UpTo
  <2> QED BY <2>1, <2>2
<1>3. From(Elem(i + 2)) = SubSeq(timers, i + 2, Len(timers))
  <2>1. CASE i + 2 \in DOMAIN timers
    BY <2>1, PositionOf DEF From
  <2>2. CASE i + 2 \notin DOMAIN timers
    <3>1. Elem(i + 2) \notin Listed
      BY <2>2, ListFacts DEF Elem
    <3>2. Len(timers) < i + 2
      BY <2>2, <1>1, ListFacts
    <3>3. SubSeq(timers, i + 2, Len(timers)) = <<>>
      BY <3>2, <1>1, SubSeqEmpty
    <3> QED BY <3>1, <3>3 DEF From
  <2> QED BY <2>1, <2>2
<1>4. (i + 1) - 1 = i /\ (i + 1) + 1 = i + 2
  OBVIOUS
<1> QED BY <1>2, <1>3, <1>4 DEF Cut

LEMMA CutFacts ==
    ASSUME TypeOK, NEW p \in DOMAIN timers
    PROVE  /\ Cut(timers, p) \in Seq(Address) /\ Distinct(Cut(timers, p))
           /\ RangeOf(Cut(timers, p)) = Listed \ {timers[p]}
           /\ DOMAIN Cut(timers, p) = 1 .. Len(timers) - 1
           /\ \A i \in 1 .. p - 1 : Cut(timers, p)[i] = timers[i]
           /\ \A i \in p .. Len(timers) - 1 : Cut(timers, p)[i] = timers[i + 1]
<1>1. timers \in Seq(Address) /\ p \in 1 .. Len(timers) /\ Len(timers) \in Nat
  BY ListFacts DEF TypeOK
<1> DEFINE r == Cut(timers, p)
<1>2. /\ r \in Seq(Address) /\ DOMAIN r = 1 .. Len(timers) - 1
      /\ \A i \in 1 .. p - 1 : r[i] = timers[i]
      /\ \A i \in p .. Len(timers) - 1 : r[i] = timers[i + 1]
  BY <1>1, CutIndex
<1> HIDE DEF r
<1>3. RangeOf(r) = RangeOf(timers) \ {timers[p]} /\ Distinct(r)
  BY <1>1, <1>2, CutRange, ListFacts
<1> QED BY <1>2, <1>3, ListFacts DEF r

\* cmn_remove_timer takes out the element that it finds.
LEMMA WithoutFacts ==
    ASSUME TypeOK, NEW a
    PROVE  /\ Without(a) \in Seq(Address) /\ Distinct(Without(a))
           /\ RangeOf(Without(a)) = Listed \ {a}
<1>1. CASE a \in Listed
  <2>1. Position(a) \in DOMAIN timers /\ timers[Position(a)] = a
    BY <1>1, PositionProperties
  <2>2. Without(a) = Cut(timers, Position(a))
    BY <1>1 DEF Without, Cut
  <2> QED BY <2>1, <2>2, CutFacts
<1>2. CASE a \notin Listed
  BY <1>2, ListFacts DEF Without, TypeOK
<1> QED BY <1>1, <1>2

LEMMA ConsFacts ==
    ASSUME TypeOK, NEW a \in Address \ Listed
    PROVE  /\ <<a>> \o timers \in Seq(Address) /\ Distinct(<<a>> \o timers)
           /\ RangeOf(<<a>> \o timers) = Listed \cup {a}
<1> DEFINE r == <<a>> \o timers
<1>1. /\ r \in Seq(Address) /\ DOMAIN r = 1 .. Len(timers) + 1 /\ r[1] = a
      /\ \A i \in 1 .. Len(timers) : r[i + 1] = timers[i]
  BY ConsIndex DEF TypeOK
<1> HIDE DEF r
<1>2. RangeOf(r) = RangeOf(timers) \cup {a} /\ Distinct(r)
  BY <1>1, InsertedRange, ListFacts
<1> QED BY <1>1, <1>2, ListFacts DEF r

LEMMA RoundPositive == ASSUME NEW time \in Nat \ {0} PROVE Round(time) \in Nat \ {0}
<1> DEFINE q == (time + TimeSlice - 1) \div TimeSlice
<1>1. q \in Nat /\ q >= 1
  BY ConstantsAssumption
<1> HIDE DEF q
<1>2. q * TimeSlice \in Nat /\ q * TimeSlice >= TimeSlice
  BY <1>1, ConstantsAssumption
<1> QED BY <1>2, ConstantsAssumption DEF Round, q

----------------------------------------------------------------------------
(* The inductive invariant.                                                  *)

\* Before a walk prev is NULL, and while a callback runs there is a timer.
Fresh == pc \in {"idle", "locking"} => walk.prev = NULL
Called == pc \in {"calling", "called"} => walk.t \in Address

\* A timer that is about to be freed is no longer any window's.
Settled == pc = "called" /\ ~ timersChanged /\ walk.ms = 0 =>
    \A o \in Owner : held[o] # walk.t

\* The alarm a timer is counted from is not before its callback was last called.
StartedBeforeAlarm == \A a \in Address :
    data[a].started # never => data[a].started <= data[a].lastAlarm

IInv ==
    /\ TypeOK /\ WalkTrusted /\ HeldIsMine
    /\ Fresh /\ Called /\ Settled /\ StartedBeforeAlarm

LEMMA InitIInv == Init => IInv
<1> SUFFICES ASSUME Init PROVE IInv
  OBVIOUS
<1>1. timers = <<>> /\ DOMAIN timers = {} /\ timers \in Seq(Address)
  <2>1. timers = <<>> /\ timers \in Seq(Address) /\ Len(timers) = 0
    BY EmptySeq DEF Init
  <2>2. DOMAIN timers = 1 .. 0
    BY <2>1
  <2> QED BY <2>1, <2>2
<1>2. Listed = {}
  BY <1>1 DEF Listed
<1>3. TypeOK
  <2>1. (CHOOSE o \in Owner : TRUE) \in Owner
    BY ConstantsAssumption
  <2>2. data \in [Address -> [owner : Owner, interval : Nat, lastAlarm : Nat,
                              started : Nat \cup {never}]]
    BY <2>1 DEF Init, Unused
  <2>3. walk \in [now : 0 .. clock, prev : Pointer, t : Pointer, next : Pointer,
                  ms : Returned \cup {0}]
    <3>1. clock = 0 /\ walk = NoWalk
      BY DEF Init
    <3>2. 0 \in 0 .. clock /\ NULL \in Pointer
      BY <3>1 DEF Pointer
    <3> QED BY <3>1, <3>2 DEF NoWalk
  <2>4. /\ held \in [Owner -> Pointer] /\ ownerPc \in [Owner -> {"free", "adding", "removing"}]
        /\ pc \in {"idle", "locking", "walking", "calling", "called"}
        /\ timersChanged \in BOOLEAN
    BY DEF Init, Pointer
  <2>6. clock \in 0 .. MaxClock
    <3>1. clock = 0
      BY DEF Init
    <3>2. MaxClock \in Nat
      BY ConstantsAssumption
    <3> QED BY <3>1, <3>2
  <2>5. \A i, j \in DOMAIN timers : timers[i] = timers[j] => i = j
    BY <1>1
  <2> QED BY <1>1, <1>2, <2>2, <2>3, <2>4, <2>5, <2>6 DEF TypeOK
<1>4. WalkTrusted /\ HeldIsMine
  BY DEF Init, WalkTrusted, Trusted, HeldIsMine
<1>5. Fresh /\ Called /\ Settled
  BY DEF Init, Fresh, Called, Settled, NoWalk
<1>6. StartedBeforeAlarm
  BY DEF Init, StartedBeforeAlarm, Unused
<1> QED BY <1>3, <1>4, <1>5, <1>6 DEF IInv

\* What may be stored at an address, and how the actions change it.
LEMMA FreedType ==
    ASSUME TypeOK, NEW a
    PROVE  Freed(a) \in [Address -> [owner : Owner, interval : Nat, lastAlarm : Nat,
                                     started : Nat \cup {never}]]
BY DEF TypeOK, Freed, Unused

LEMMA ElemType == ASSUME TypeOK, NEW i \in Int PROVE Elem(i) \in Pointer
BY ElemFacts, ListFacts DEF Pointer

LEMMA NextType == ASSUME TypeOK, NEW a \in Listed PROVE NextOf(a) \in Pointer
<1>1. Position(a) + 1 \in Int
  BY PositionProperties, ListFacts
<1> QED BY <1>1, ElemType DEF NextOf

\* The element a trusted walk is at.
LEMMA AtElement ==
    ASSUME TypeOK, WalkTrusted, Trusted, walk.t # NULL
    PROVE  walk.t \in Listed
BY StepForward DEF WalkTrusted

\* Where EndTimer leaves the list.
LEMMA EndFacts ==
    ASSUME TypeOK, WalkTrusted, pc = "called", ~ timersChanged,
           timers' = UpTo(walk.prev) \o From(walk.next)
    PROVE  /\ timers' \in Seq(Address) /\ Distinct(timers')
           /\ Listed' = Listed \ {walk.t}
           /\ \E i \in 0 .. Len(timers') : Elem(i)' = walk.prev /\ Elem(i + 1)' = walk.next
<1>1. Neighbours(walk.prev, walk.t) /\ walk.t # NULL /\ walk.next = NextOf(walk.t)
  BY DEF WalkTrusted, Trusted
<1>2. PICK i \in 0 .. Len(timers) : walk.prev = Elem(i) /\ walk.t = Elem(i + 1)
  BY <1>1 DEF Neighbours
<1> DEFINE p == i + 1
<1>3. /\ p \in DOMAIN timers /\ p \in 1 .. Len(timers) /\ Len(timers) \in Nat
      /\ walk.t = timers[p] /\ walk.next = Elem(p + 1)
  BY <1>1, <1>2, ElemFacts, ListFacts DEF Elem
<1>4. timers' = Cut(timers, p)
  <2>1. p + 1 = i + 2
    OBVIOUS
  <2> QED BY <1>1, <1>2, <1>3, <2>1, Unlinked
<1>5. /\ timers' \in Seq(Address) /\ Distinct(timers') /\ RangeOf(timers') = Listed \ {timers[p]}
      /\ DOMAIN timers' = 1 .. Len(timers) - 1
      /\ \A k \in 1 .. p - 1 : timers'[k] = timers[k]
      /\ \A k \in p .. Len(timers) - 1 : timers'[k] = timers[k + 1]
  BY <1>3, <1>4, CutFacts
<1>6. Elem(i)' = walk.prev
  <2>1. CASE i = 0
    <3>1. i \notin 1 .. Len(timers) /\ i \notin 1 .. Len(timers) - 1
      BY <2>1, <1>3
    <3>2. i \notin DOMAIN timers /\ i \notin DOMAIN timers'
      BY <3>1, <1>5, ListFacts
    <3> QED BY <3>2, <1>2 DEF Elem
  <2>2. CASE i # 0
    <3>1. i \in 1 .. p - 1 /\ i \in 1 .. Len(timers) - 1 /\ i \in 1 .. Len(timers)
      BY <2>2, <1>3
    <3> QED BY <3>1, <1>2, <1>5, ListFacts DEF Elem
  <2> QED BY <2>1, <2>2
<1>7. Elem(p)' = walk.next
  <2>1. CASE p \in 1 .. Len(timers) - 1
    <3>1. p \in p .. Len(timers) - 1 /\ p + 1 \in 1 .. Len(timers)
      BY <2>1, <1>3
    <3> QED BY <3>1, <2>1, <1>3, <1>5, ListFacts DEF Elem
  <2>2. CASE p \notin 1 .. Len(timers) - 1
    <3>1. p + 1 \notin 1 .. Len(timers)
      BY <2>2, <1>3
    <3> QED BY <3>1, <2>2, <1>3, <1>5, ListFacts DEF Elem
  <2> QED BY <2>1, <2>2
<1>8. i \in 0 .. Len(timers')
  <2>1. Len(timers') = Len(timers) - 1
    BY <1>5, <1>3
  <2> QED BY <2>1, <1>3
<1>9. Listed' = Listed \ {walk.t}
  BY <1>3, <1>5 DEF Listed, RangeOf
<1> QED BY <1>5, <1>6, <1>7, <1>8, <1>9

----------------------------------------------------------------------------
(* Every action keeps the types.                                             *)

Timer == [owner : Owner, interval : Nat, lastAlarm : Nat, started : Nat \cup {never}]
DataType == [Address -> Timer]
WalkType(now) == [now : 0 .. now, prev : Pointer, t : Pointer, next : Pointer,
                  ms : Returned \cup {0}]

LEMMA TypeOfAddTimer ==
    ASSUME TypeOK, NEW o \in Owner, AddTimer(o) PROVE TypeOK'
<1>1. CASE UNCHANGED <<timers, data, held, timersChanged>>
  BY <1>1 DEF TypeOK, AddTimer, OwnerMoves, Listed, Pointer
<1>2. ASSUME NEW a \in Address \ Listed, NEW asked \in Asked,
             timers' = <<a>> \o timers, held' = [held EXCEPT ![o] = a],
             data' = [data EXCEPT ![a] = [owner |-> o, interval |-> Round(asked),
                                          lastAlarm |-> clock, started |-> never]],
             timersChanged' = TRUE
      PROVE  TypeOK'
  <2>1. timers' \in Seq(Address) /\ Distinct(timers') /\ Listed' = Listed \cup {a}
    BY <1>2, ConsFacts DEF Listed, RangeOf
  <2>2. Round(asked) \in Nat \ {0}
    BY RoundPositive, ConstantsAssumption
  <2>3. data' \in DataType /\ data'[a].interval > 0 /\ \A b \in Address \ {a} : data'[b] = data[b]
    BY <1>2, <2>2 DEF TypeOK, DataType, Timer
  <2>4. \A b \in Listed' : data'[b].interval > 0
    BY <2>1, <2>3, ListFacts DEF TypeOK
  <2>5. held' \in [Owner -> Pointer]
    BY <1>2 DEF TypeOK, Pointer
  <2> QED BY <1>2, <2>1, <2>3, <2>4, <2>5 DEF TypeOK, AddTimer, OwnerMoves, Distinct, DataType, Timer
<1> QED BY <1>1, <1>2 DEF AddTimer

LEMMA TypeOfRemoveTimer ==
    ASSUME TypeOK, NEW o \in Owner, RemoveTimer(o) PROVE TypeOK'
<1>1. timers' \in Seq(Address) /\ Distinct(timers') /\ Listed' = Listed \ {held[o]}
  BY WithoutFacts DEF RemoveTimer, Listed, RangeOf
<1>2. data' \in DataType /\ \A b \in Address \ {held[o]} : data'[b] = data[b]
  BY FreedType DEF RemoveTimer, Freed, TypeOK, DataType, Timer
<1>3. \A b \in Listed' : data'[b].interval > 0
  BY <1>1, <1>2, ListFacts DEF TypeOK
<1>4. timersChanged' \in BOOLEAN /\ held' \in [Owner -> Pointer]
  BY DEF RemoveTimer, TypeOK, Pointer
<1> QED BY <1>1, <1>2, <1>3, <1>4 DEF TypeOK, RemoveTimer, OwnerMoves, Distinct, DataType, Timer

LEMMA TypeOfFire ==
    ASSUME TypeOK, WalkTrusted, Fire PROVE TypeOK'
<1>1. walk.t \in Listed
  BY AtElement DEF Fire, Trusted
<1>2. walk' \in WalkType(clock)
  BY <1>1, NextType DEF Fire, TypeOK, WalkType
<1>3. Alarm(data[walk.t]) \in Nat /\ walk.now \in Nat
  BY <1>1, ListFacts DEF TypeOK, Alarm
<1>4. data' \in DataType /\ \A b \in Address : data'[b].interval = data[b].interval
  <2> DEFINE rec == [data[walk.t] EXCEPT !.lastAlarm = Alarm(data[walk.t]),
                                         !.started = walk.now]
  <2>1. data \in DataType /\ data[walk.t] \in Timer /\ walk.t \in Address
    BY <1>1, ListFacts DEF TypeOK, DataType, Timer
  <2>2. rec \in Timer /\ rec.interval = data[walk.t].interval
    BY <1>3, <2>1 DEF Timer
  <2>3. data' = [data EXCEPT ![walk.t] = rec]
    BY DEF Fire
  <2> HIDE DEF rec
  <2> QED BY <2>1, <2>2, <2>3 DEF DataType
<1>5. \A b \in Listed : data'[b].interval > 0
  BY <1>4, ListFacts DEF TypeOK
<1>6. /\ UNCHANGED <<clock, timers, held, ownerPc>>
      /\ timersChanged' = FALSE /\ pc' = "calling"
  BY DEF Fire
<1> QED BY <1>2, <1>4, <1>5, <1>6 DEF TypeOK, WalkType, DataType, Timer, Listed

LEMMA TypeOfKeepTimer ==
    ASSUME TypeOK, Called, KeepTimer PROVE TypeOK'
<1>1. walk.t \in Address /\ walk.ms \in Nat \ {0}
  BY ConstantsAssumption DEF TypeOK, Called, KeepTimer
<1>2. Round(walk.ms) \in Nat \ {0}
  BY <1>1, RoundPositive
<1>3. /\ data' \in DataType /\ data'[walk.t].interval > 0
      /\ \A b \in Address \ {walk.t} : data'[b] = data[b]
  <2> DEFINE rec == [data[walk.t] EXCEPT !.interval = Round(walk.ms)]
  <2>1. data \in DataType /\ data[walk.t] \in Timer
    BY <1>1 DEF TypeOK, DataType, Timer
  <2>2. rec \in Timer /\ rec.interval > 0
    BY <1>2, <2>1 DEF Timer
  <2>3. data' = [data EXCEPT ![walk.t] = rec]
    BY DEF KeepTimer
  <2> HIDE DEF rec
  <2> QED BY <1>1, <2>1, <2>2, <2>3 DEF DataType
<1>4. \A b \in Listed : data'[b].interval > 0
  BY <1>3, ListFacts DEF TypeOK
<1>5. walk' \in WalkType(clock)
  BY DEF KeepTimer, TypeOK, WalkType, Pointer
<1> QED BY <1>3, <1>4, <1>5 DEF TypeOK, KeepTimer, WalkType, DataType, Timer, Listed

LEMMA TypeOfEndTimer ==
    ASSUME TypeOK, WalkTrusted, EndTimer PROVE TypeOK'
<1>1. timers' \in Seq(Address) /\ Distinct(timers') /\ Listed' = Listed \ {walk.t}
  BY EndFacts DEF EndTimer
<1>2. data' \in DataType /\ \A b \in Address \ {walk.t} : data'[b] = data[b]
  BY FreedType DEF EndTimer, Freed, TypeOK, DataType, Timer
<1>3. \A b \in Listed' : data'[b].interval > 0
  BY <1>1, <1>2, ListFacts DEF TypeOK
<1>4. walk' \in WalkType(clock)
  BY DEF EndTimer, TypeOK, WalkType, Pointer
<1> QED BY <1>1, <1>2, <1>3, <1>4 DEF TypeOK, EndTimer, WalkType, Distinct, DataType, Timer

LEMMA TypeStep == IInv /\ [Next]_vars => TypeOK'
<1> SUFFICES ASSUME IInv, [Next]_vars PROVE TypeOK'
  OBVIOUS
<1> USE DEF IInv
<1>0. walk \in WalkType(clock) /\ clock \in 0 .. MaxClock
  BY DEF TypeOK, WalkType
<1>1. CASE Tick
  <2>1. clock' \in 0 .. MaxClock /\ 0 .. clock \subseteq 0 .. clock'
    BY <1>0, <1>1, ConstantsAssumption DEF Tick
  <2>2. walk' \in WalkType(clock')
    BY <1>0, <1>1, <2>1 DEF Tick, WalkType
  <2> QED BY <1>1, <2>1, <2>2 DEF Tick, TypeOK, WalkType, Listed
<1>2. ASSUME NEW o \in Owner, Lock(o) PROVE TypeOK'
  BY <1>2 DEF Lock, OwnerMoves, TypeOK, Listed
<1>3. ASSUME NEW o \in Owner, AddTimer(o) PROVE TypeOK'
  BY <1>3, TypeOfAddTimer
<1>4. ASSUME NEW o \in Owner, RemoveTimer(o) PROVE TypeOK'
  BY <1>4, TypeOfRemoveTimer
<1>5. CASE ReadClock
  <2>1. clock \in 0 .. clock
    BY DEF TypeOK
  <2>2. walk' \in WalkType(clock)
    BY <1>0, <1>5, <2>1 DEF ReadClock, WalkType
  <2> QED BY <1>5, <2>2 DEF ReadClock, TypeOK, WalkType, Listed
<1>6. CASE BeginWalk
  <2>1. Elem(1) \in Pointer
    BY ElemType
  <2>2. walk' \in WalkType(clock)
    BY <1>0, <1>6, <2>1 DEF BeginWalk, WalkType
  <2> QED BY <1>6, <2>2 DEF BeginWalk, TypeOK, WalkType, Listed
<1>7. CASE EndWalk \/ GiveUp
  <2>1. 0 \in 0 .. clock /\ NULL \in Pointer
    BY DEF TypeOK, Pointer
  <2> QED BY <1>7, <2>1 DEF EndWalk, GiveUp, NoWalk, TypeOK, Listed
<1>8. CASE Skip
  <2>1. NextOf(walk.t) \in Pointer
    BY <1>8, AtElement, NextType DEF Skip, Trusted
  <2>2. walk' \in WalkType(clock)
    BY <1>0, <1>8, <2>1 DEF Skip, WalkType
  <2> QED BY <1>8, <2>2 DEF Skip, TypeOK, WalkType, Listed
<1>9. CASE Fire
  BY <1>9, TypeOfFire
<1>10. CASE Callback
  <2>1. walk' \in WalkType(clock)
    BY <1>0, <1>10 DEF Callback, WalkType
  <2>2. held' \in [Owner -> Pointer]
    BY <1>10 DEF Callback, TypeOK, Pointer
  <2> QED BY <1>10, <2>1, <2>2 DEF Callback, TypeOK, WalkType, Listed
<1>14. CASE CallbackIgnores
  <2>1. walk' \in WalkType(clock)
    BY <1>0, <1>14 DEF CallbackIgnores, WalkType
  <2> QED BY <1>14, <2>1 DEF CallbackIgnores, TypeOK, WalkType, Listed
<1>11. CASE KeepTimer
  BY <1>11, TypeOfKeepTimer
<1>12. CASE EndTimer
  BY <1>12, TypeOfEndTimer
<1>13. CASE UNCHANGED vars
  BY <1>13 DEF vars, TypeOK, Listed
<1> QED BY <1>1, <1>2, <1>3, <1>4, <1>5, <1>6, <1>7, <1>8, <1>9, <1>10, <1>11, <1>12, <1>13,
      <1>14 DEF Next, TimerThread, Window

----------------------------------------------------------------------------
(* Every action keeps the rest.                                              *)

LEMMA FreshStep == IInv /\ [Next]_vars => Fresh' /\ Called'
<1> SUFFICES ASSUME IInv, [Next]_vars PROVE Fresh' /\ Called'
  OBVIOUS
<1> USE DEF IInv
<1>1. CASE Fire
  <2>1. walk.t \in Address
    BY <1>1, AtElement, ListFacts DEF Fire, Trusted
  <2> QED BY <1>1, <2>1 DEF Fire, Fresh, Called, TypeOK
<1>2. CASE Skip \/ KeepTimer \/ EndTimer
  BY <1>2 DEF Fresh, Called, Skip, KeepTimer, EndTimer
<1>4. CASE GiveUp \/ EndWalk
  BY <1>4 DEF Fresh, Called, GiveUp, EndWalk, NoWalk
<1>5. CASE ReadClock
  <2>1. walk'.prev = walk.prev
    BY <1>5 DEF ReadClock, TypeOK
  <2> QED BY <1>5, <2>1 DEF Fresh, Called, ReadClock
<1>6. CASE BeginWalk
  BY <1>6 DEF Fresh, Called, BeginWalk
<1>7. CASE Callback \/ CallbackIgnores
  <2>1. walk'.t = walk.t /\ pc = "calling" /\ pc' = "called"
    BY <1>7 DEF Callback, CallbackIgnores, TypeOK
  <2> QED BY <2>1 DEF Fresh, Called
<1>3. CASE UNCHANGED <<pc, walk>>
  BY <1>3 DEF Fresh, Called
<1> QED BY <1>1, <1>2, <1>3, <1>4, <1>5, <1>6, <1>7
      DEF Next, TimerThread, Window, Tick, Lock, AddTimer, RemoveTimer, vars

\* Neither the list nor the pointers of the walk change.
LEMMA WalkUnchanged ==
    ASSUME WalkTrusted, UNCHANGED timers, walk'.prev = walk.prev, walk'.t = walk.t,
           walk'.next = walk.next, Trusted' => Trusted, pc' # "walking" => pc # "walking"
    PROVE  WalkTrusted'
BY DEF WalkTrusted, Neighbours, NextOf, Elem, Position

LEMMA WalkStep == IInv /\ [Next]_vars => WalkTrusted'
<1> SUFFICES ASSUME IInv, [Next]_vars PROVE WalkTrusted'
  OBVIOUS
<1> USE DEF IInv
<1>1. CASE UNCHANGED <<timers, timersChanged, pc, walk>>
  BY <1>1, WalkUnchanged DEF Trusted
<1>2. ASSUME NEW o \in Owner, AddTimer(o) PROVE WalkTrusted'
  <2>1. CASE timersChanged'
    BY <1>2, <2>1 DEF AddTimer, MutexFree, WalkTrusted, Trusted
  <2>2. CASE UNCHANGED <<timers, timersChanged, pc, walk>>
    BY <1>1, <2>2
  <2> QED BY <1>2, <2>1, <2>2 DEF AddTimer
<1>3. ASSUME NEW o \in Owner, RemoveTimer(o) PROVE WalkTrusted'
  <2>1. CASE timersChanged'
    BY <1>3, <2>1 DEF RemoveTimer, MutexFree, WalkTrusted, Trusted
  <2>2. CASE ~ timersChanged'
    <3>1. UNCHANGED <<timers, timersChanged, pc, walk>>
      BY <1>3, <2>2 DEF RemoveTimer, Without, TypeOK
    <3> QED BY <1>1, <3>1
  <2> QED BY <2>1, <2>2
<1>4. CASE ReadClock \/ GiveUp \/ EndWalk
  BY <1>4 DEF ReadClock, GiveUp, EndWalk, WalkTrusted, Trusted
<1>5. CASE BeginWalk
  <2>1. walk.prev = NULL /\ Len(timers) \in Nat
    BY <1>5, ListFacts DEF BeginWalk, Fresh
  <2>2. Elem(0) = NULL
    BY ListFacts DEF Elem
  <2>3. Neighbours(NULL, Elem(1))
    BY <2>1, <2>2 DEF Neighbours
  <2>4. walk'.prev = NULL /\ walk'.t = Elem(1) /\ pc' = "walking" /\ timers' = timers
    BY <1>5, <2>1 DEF BeginWalk, TypeOK
  <2> QED BY <2>3, <2>4 DEF WalkTrusted, Neighbours, Elem
<1>6. CASE Skip
  <2>1. Neighbours(walk.t, NextOf(walk.t))
    BY <1>6, StepForward DEF Skip, WalkTrusted, Trusted
  <2>2. /\ walk'.prev = walk.t /\ walk'.t = NextOf(walk.t) /\ pc' = "walking"
        /\ timers' = timers
    BY <1>6 DEF Skip, TypeOK
  <2> QED BY <2>1, <2>2 DEF WalkTrusted, Neighbours, Elem
<1>7. CASE Fire
  <2>1. /\ walk'.prev = walk.prev /\ walk'.t = walk.t /\ walk'.next = NextOf(walk.t)
        /\ pc' = "calling" /\ timers' = timers /\ walk.t # NULL /\ pc = "walking"
    BY <1>7 DEF Fire, TypeOK
  <2> QED BY <2>1 DEF WalkTrusted, Trusted, Neighbours, NextOf, Elem, Position
<1>8. CASE Callback \/ CallbackIgnores
  <2>1. /\ walk'.prev = walk.prev /\ walk'.t = walk.t /\ walk'.next = walk.next
        /\ pc = "calling" /\ UNCHANGED <<timers, timersChanged>>
    BY <1>8 DEF Callback, CallbackIgnores, TypeOK
  <2>2. pc' = "called"
    BY <1>8 DEF Callback, CallbackIgnores
  <2> QED BY <2>1, <2>2, WalkUnchanged DEF Trusted
<1>9. CASE KeepTimer
  <2>1. Neighbours(walk.t, walk.next)
    BY <1>9, StepForward DEF KeepTimer, WalkTrusted, Trusted
  <2>2. walk'.prev = walk.t /\ walk'.t = walk.next /\ pc' = "walking" /\ timers' = timers
    BY <1>9 DEF KeepTimer, TypeOK
  <2> QED BY <2>1, <2>2 DEF WalkTrusted, Neighbours, Elem
<1>10. CASE EndTimer
  <2>1. \E i \in 0 .. Len(timers') : Elem(i)' = walk.prev /\ Elem(i + 1)' = walk.next
    BY <1>10, EndFacts DEF EndTimer
  <2>2. walk'.prev = walk.prev /\ walk'.t = walk.next /\ pc' = "walking"
    BY <1>10 DEF EndTimer, TypeOK
  <2> QED BY <2>1, <2>2 DEF WalkTrusted, Neighbours
<1> QED BY <1>1, <1>2, <1>3, <1>4, <1>5, <1>6, <1>7, <1>8, <1>9, <1>10
      DEF Next, TimerThread, Window, Tick, Lock, vars

\* The pointers, the list and the owners stay.
LEMMA HeldUnchanged ==
    ASSUME HeldIsMine, held' = held, timers' = timers,
           \A a \in Listed : data'[a].owner = data[a].owner
    PROVE  HeldIsMine'
BY DEF HeldIsMine, Listed

LEMMA HeldStep == IInv /\ [Next]_vars => HeldIsMine'
<1> SUFFICES ASSUME IInv, [Next]_vars PROVE HeldIsMine'
  OBVIOUS
<1> USE DEF IInv
<1>1. CASE UNCHANGED <<timers, data, held>>
  BY <1>1, HeldUnchanged
<1>2. ASSUME NEW o \in Owner, AddTimer(o) PROVE HeldIsMine'
  <2>1. CASE UNCHANGED <<timers, data, held>>
    BY <1>1, <2>1
  <2>2. ASSUME NEW a \in Address \ Listed, NEW asked \in Asked,
               timers' = <<a>> \o timers, held' = [held EXCEPT ![o] = a],
               data' = [data EXCEPT ![a] = [owner |-> o, interval |-> Round(asked),
                                            lastAlarm |-> clock, started |-> never]]
        PROVE  HeldIsMine'
    <3>1. Listed' = Listed \cup {a}
      BY <2>2, ConsFacts DEF Listed, RangeOf
    <3>2. data'[a].owner = o /\ \A b \in Listed : data'[b] = data[b]
      BY <2>2, ListFacts DEF TypeOK
    <3>3. held'[o] = a /\ \A p \in Owner \ {o} : held'[p] = held[p]
      BY <2>2 DEF TypeOK
    <3> QED BY <3>1, <3>2, <3>3 DEF HeldIsMine
  <2> QED BY <1>2, <2>1, <2>2 DEF AddTimer
<1>3. ASSUME NEW o \in Owner, RemoveTimer(o) PROVE HeldIsMine'
  <2>1. Listed' = Listed \ {held[o]}
    BY <1>3, WithoutFacts DEF RemoveTimer, Listed, RangeOf
  <2>2. \A b \in Listed \ {held[o]} : data'[b] = data[b]
    BY <1>3, ListFacts DEF RemoveTimer, Freed, TypeOK
  <2>3. held'[o] = NULL /\ \A p \in Owner \ {o} : held'[p] = held[p]
    BY <1>3 DEF RemoveTimer, TypeOK
  <2>4. \A p \in Owner \ {o} : held[p] # NULL => held[p] # held[o]
    BY DEF HeldIsMine
  <2> QED BY <2>1, <2>2, <2>3, <2>4 DEF HeldIsMine
<1>4. CASE Fire
  <2>1. \A a \in Listed : data'[a].owner = data[a].owner
    BY <1>4, AtElement, ListFacts DEF Fire, TypeOK, Trusted
  <2> QED BY <1>4, <2>1, HeldUnchanged DEF Fire
<1>5. CASE KeepTimer
  <2>1. \A a \in Listed : data'[a].owner = data[a].owner
    BY <1>5, ListFacts DEF KeepTimer, TypeOK
  <2> QED BY <1>5, <2>1, HeldUnchanged DEF KeepTimer
<1>6. CASE Callback
  <2>1. \A o \in Owner : held'[o] # NULL => held'[o] = held[o]
    BY <1>6 DEF Callback, TypeOK
  <2> QED BY <1>6, <2>1 DEF Callback, HeldIsMine, Listed
<1>7. CASE EndTimer
  <2>1. Listed' = Listed \ {walk.t}
    BY <1>7, EndFacts DEF EndTimer
  <2>2. \A o \in Owner : held[o] # walk.t
    BY <1>7 DEF EndTimer, Settled
  <2>3. \A b \in Listed \ {walk.t} : data'[b] = data[b]
    BY <1>7, ListFacts DEF EndTimer, Freed, TypeOK
  <2> QED BY <1>7, <2>1, <2>2, <2>3 DEF EndTimer, HeldIsMine
<1> QED BY <1>1, <1>2, <1>3, <1>4, <1>5, <1>6, <1>7
      DEF Next, TimerThread, Window, Tick, Lock, vars, ReadClock, BeginWalk, Skip, CallbackIgnores,
          GiveUp, EndWalk

LEMMA SettledStep == IInv /\ [Next]_vars => Settled'
<1> SUFFICES ASSUME IInv, [Next]_vars PROVE Settled'
  OBVIOUS
<1> USE DEF IInv
<1>1. CASE UNCHANGED <<pc, walk, timersChanged, held>>
  BY <1>1 DEF Settled
<1>2. ASSUME NEW o \in Owner, AddTimer(o) PROVE Settled'
  <2>1. CASE timersChanged'
    BY <2>1 DEF Settled
  <2>2. CASE UNCHANGED <<pc, walk, timersChanged, held>>
    BY <1>1, <2>2
  <2> QED BY <1>2, <2>1, <2>2 DEF AddTimer
<1>3. ASSUME NEW o \in Owner, RemoveTimer(o), ~ timersChanged' PROVE Settled'
  <2>1. held[o] \notin Listed /\ UNCHANGED <<pc, walk, timersChanged>>
    BY <1>3 DEF RemoveTimer, TypeOK
  <2>2. held[o] = NULL
    BY <2>1 DEF HeldIsMine
  <2>3. held' = held
    BY <1>3, <2>2 DEF RemoveTimer, TypeOK
  <2> QED BY <1>1, <2>1, <2>3
<1>4. CASE Callback
  <2> SUFFICES ASSUME ~ timersChanged, walk'.ms = 0, NEW o \in Owner PROVE held'[o] # walk.t
    <3>1. walk'.t = walk.t /\ timersChanged' = timersChanged
      BY <1>4 DEF Callback, TypeOK
    <3> QED BY <3>1 DEF Settled
  <2>1. walk.t \in Address /\ data[walk.t].owner \in Owner
    BY <1>4 DEF Callback, Called, TypeOK
  <2>2. walk'.ms = 0 => held' = [held EXCEPT ![data[walk.t].owner] = NULL]
    BY <1>4 DEF Callback, TypeOK
  <2>3. CASE o = data[walk.t].owner
    BY <2>1, <2>2, <2>3, ConstantsAssumption DEF TypeOK
  <2>4. CASE o # data[walk.t].owner
    BY <2>1, <2>2, <2>4, ConstantsAssumption DEF TypeOK, HeldIsMine
  <2> QED BY <2>3, <2>4
<1>7. CASE CallbackIgnores
  <2>1. /\ walk.t \in Address /\ walk.t # held[data[walk.t].owner]
        /\ walk'.t = walk.t /\ held' = held
    BY <1>7 DEF CallbackIgnores, Called, TypeOK
  <2>2. \A o \in Owner : held[o] # walk.t
    BY <2>1, ConstantsAssumption DEF HeldIsMine
  <2> QED BY <2>1, <2>2 DEF Settled
<1>5. CASE pc' # "called"
  BY <1>5 DEF Settled
<1>6. ASSUME NEW o \in Owner, RemoveTimer(o), timersChanged' PROVE Settled'
  BY <1>6 DEF Settled
<1> QED BY <1>1, <1>2, <1>3, <1>4, <1>5, <1>6, <1>7
      DEF Next, TimerThread, Window, Tick, Lock, vars, ReadClock, BeginWalk, Skip, Fire, GiveUp,
          KeepTimer, EndTimer, EndWalk

\* An alarm is set after or at the moment the callback is called.
LEMMA AlarmNotBefore ==
    ASSUME TypeOK, walk.t \in Address PROVE walk.now <= Alarm(data[walk.t])
BY DEF TypeOK, Alarm

LEMMA StartedStep == IInv /\ [Next]_vars => StartedBeforeAlarm'
<1> SUFFICES ASSUME IInv, [Next]_vars PROVE StartedBeforeAlarm'
  OBVIOUS
<1> USE DEF IInv
<1>1. CASE UNCHANGED data
  BY <1>1 DEF StartedBeforeAlarm
<1>2. ASSUME NEW a, data' = Freed(a) PROVE StartedBeforeAlarm'
  BY <1>2 DEF StartedBeforeAlarm, Freed, Unused, TypeOK
<1>3. ASSUME NEW o \in Owner, AddTimer(o) PROVE StartedBeforeAlarm'
  <2>1. ASSUME NEW a \in Address, NEW asked \in Asked,
               data' = [data EXCEPT ![a] = [owner |-> o, interval |-> Round(asked),
                                            lastAlarm |-> clock, started |-> never]]
        PROVE  StartedBeforeAlarm'
    <3>1. data'[a].started = never /\ \A b \in Address \ {a} : data'[b] = data[b]
      BY <2>1 DEF TypeOK
    <3> QED BY <3>1 DEF StartedBeforeAlarm
  <2> QED BY <1>1, <1>3, <2>1 DEF AddTimer
<1>4. CASE Fire
  <2>1. walk.t \in Address
    BY <1>4, AtElement, ListFacts DEF Fire, Trusted
  <2>2. /\ data'[walk.t].started = walk.now /\ data'[walk.t].lastAlarm = Alarm(data[walk.t])
        /\ \A a \in Address \ {walk.t} : data'[a] = data[a]
    BY <1>4, <2>1 DEF Fire, TypeOK
  <2> QED BY <2>1, <2>2, AlarmNotBefore DEF StartedBeforeAlarm
<1>5. CASE KeepTimer
  <2>1. \A a \in Address : /\ data'[a].started = data[a].started
                           /\ data'[a].lastAlarm = data[a].lastAlarm
    BY <1>5 DEF KeepTimer, TypeOK
  <2> QED BY <2>1 DEF StartedBeforeAlarm
<1> QED BY <1>1, <1>2, <1>3, <1>4, <1>5
      DEF Next, TimerThread, Window, Tick, Lock, vars, RemoveTimer, ReadClock, BeginWalk, Skip,
          Callback, CallbackIgnores, GiveUp, EndTimer, EndWalk

LEMMA Invariant == Spec => []IInv
<1>1. IInv /\ [Next]_vars => IInv'
  <2>1. IInv /\ [Next]_vars =>
          /\ TypeOK' /\ WalkTrusted' /\ HeldIsMine' /\ Fresh' /\ Called' /\ Settled'
          /\ StartedBeforeAlarm'
    BY TypeStep, WalkStep, HeldStep, FreshStep, SettledStep, StartedStep
  <2> QED BY <2>1 DEF IInv
<1> QED BY InitIInv, <1>1, PTL DEF Spec

----------------------------------------------------------------------------
(* What the program relies on.                                               *)

\* Every reachable state is well typed, and no address is twice in the list.
THEOREM WellTyped == Spec => []TypeOK
<1>1. IInv => TypeOK
  BY DEF IInv
<1> QED BY Invariant, <1>1, PTL

\* After the mutex was given back for a callback, prev, t and next are those
\* of the list whenever timersChanged does not say otherwise: one flag, cleared
\* before each callback, is enough for any number of windows.
THEOREM WalkSafe == Spec => []WalkTrusted
<1>1. IInv => WalkTrusted
  BY DEF IInv
<1> QED BY Invariant, <1>1, PTL

\* The pointer a window has is never one of a freed timer, nor of the timer of
\* another window at the same address: cmn_remove_timer finds what it is to
\* remove, and CMN_ABORT is not reached.
THEOREM PointersAreMine == Spec => []HeldIsMine
<1>1. IInv => HeldIsMine
  BY DEF IInv
<1> QED BY Invariant, <1>1, PTL

\* No timer fires again within its interval less one slice.
THEOREM Spacing == Spec => NeverTooSoon
<1>1. IInv /\ [Next]_vars =>
        [Fire => LET timer == data[walk.t]
                 IN  timer.started = never
                       \/ walk.now - timer.started > timer.interval - TimeSlice]_vars
  <2> SUFFICES ASSUME IInv, Fire, data[walk.t].started # never
               PROVE  walk.now - data[walk.t].started > data[walk.t].interval - TimeSlice
    OBVIOUS
  <2>1. walk.t \in Address
    BY AtElement, ListFacts DEF IInv, Fire, Trusted
  <2>2. data[walk.t].started <= data[walk.t].lastAlarm
    BY <2>1 DEF IInv, StartedBeforeAlarm
  <2>3. walk.now - data[walk.t].lastAlarm > data[walk.t].interval - TimeSlice
    BY DEF Fire, Due
  <2>4. /\ data[walk.t].started \in Nat /\ data[walk.t].lastAlarm \in Nat
        /\ data[walk.t].interval \in Nat /\ walk.now \in Nat /\ TimeSlice \in Nat
    BY <2>1, ConstantsAssumption DEF IInv, TypeOK
  <2> QED BY <2>2, <2>3, <2>4
<1> QED BY Invariant, <1>1, PTL DEF Spec, NeverTooSoon

----------------------------------------------------------------------------
(* The timers of cmnTimer.c are the abstract set of timers.                  *)

Firing == IF pc \in {"calling", "called"} THEN walk.t ELSE NULL

LEMMA RefinesInit == Init => TS!Init
<1> SUFFICES ASSUME Init PROVE TS!Init
  OBVIOUS
<1>1. Listed = {}
  <2>1. timers = <<>> /\ Len(timers) = 0 /\ timers \in Seq(Address)
    BY EmptySeq DEF Init
  <2>2. DOMAIN timers = {}
    BY <2>1
  <2> QED BY <2>2 DEF Listed
<1> QED BY <1>1 DEF Init, TS!Init

LEMMA RefinesStep == IInv /\ [Next]_vars => [TS!Next]_<<Listed, Firing, timersChanged>>
<1> SUFFICES ASSUME IInv, [Next]_vars
             PROVE  TS!Next \/ UNCHANGED <<Listed, Firing, timersChanged>>
  BY DEF Firing
<1> USE DEF IInv
<1>1. CASE UNCHANGED <<timers, timersChanged, pc, walk>>
  BY <1>1 DEF Listed, Firing
<1>2. ASSUME NEW o \in Owner, AddTimer(o)
      PROVE  TS!Next \/ UNCHANGED <<Listed, Firing, timersChanged>>
  <2>1. CASE UNCHANGED <<timers, timersChanged>>
    BY <1>1, <1>2, <2>1 DEF AddTimer
  <2>2. ASSUME NEW a \in Address \ Listed, timers' = <<a>> \o timers, timersChanged' = TRUE
        PROVE  TS!Next
    <3>1. Listed' = Listed \cup {a}
      BY <2>2, ConsFacts DEF Listed, RangeOf
    <3>2. TS!Arm(a)
      BY <1>2, <2>2, <3>1 DEF AddTimer, TS!Arm
    <3> QED BY <2>2, <3>2 DEF TS!Next
  <2> QED BY <1>2, <2>1, <2>2 DEF AddTimer
<1>3. ASSUME NEW o \in Owner, RemoveTimer(o)
      PROVE  TS!Next \/ UNCHANGED <<Listed, Firing, timersChanged>>
  <2>1. Listed' = Listed \ {held[o]}
    BY <1>3, WithoutFacts DEF RemoveTimer, Listed, RangeOf
  <2>2. CASE held[o] \in Listed
    <3>1. TS!Disarm(held[o])
      BY <1>3, <2>1, <2>2 DEF RemoveTimer, TS!Disarm
    <3> QED BY <2>2, <3>1, ListFacts DEF TS!Next
  <2>3. CASE held[o] \notin Listed
    <3>1. UNCHANGED <<timers, timersChanged, pc, walk>>
      BY <1>3, <2>3 DEF RemoveTimer, Without, TypeOK
    <3> QED BY <1>1, <3>1
  <2> QED BY <2>2, <2>3
<1>4. CASE ReadClock \/ BeginWalk \/ Skip \/ EndWalk
  BY <1>4 DEF ReadClock, BeginWalk, Skip, EndWalk, Listed, Firing
<1>5. CASE Fire
  <2>1. walk.t \in Listed /\ walk.t \in Address
    BY <1>5, AtElement, ListFacts DEF Fire, Trusted
  <2>2. Firing = NULL /\ Firing' = walk.t /\ Listed' = Listed /\ timersChanged' = FALSE
    BY <1>5 DEF Fire, Firing, Listed, TypeOK
  <2>3. TS!Fire(walk.t)
    BY <2>1, <2>2 DEF TS!Fire, Firing
  <2> QED BY <2>1, <2>3 DEF TS!Next
<1>6. CASE Callback \/ CallbackIgnores
  <2>1. walk'.t = walk.t
    BY <1>6 DEF Callback, CallbackIgnores, TypeOK
  <2> QED BY <1>6, <2>1 DEF Callback, CallbackIgnores, Listed, Firing
<1>7. CASE GiveUp \/ KeepTimer \/ EndTimer
  <2>1. Firing = walk.t /\ Firing # NULL /\ Firing' = NULL /\ timersChanged' = timersChanged
    BY <1>7, ConstantsAssumption DEF GiveUp, KeepTimer, EndTimer, Called, Firing
  <2>2. Listed' = Listed \/ (~ timersChanged /\ Listed' = Listed \ {walk.t})
    BY <1>7, EndFacts DEF GiveUp, KeepTimer, EndTimer, Listed
  <2>3. TS!End
    BY <2>1, <2>2 DEF TS!End, Firing
  <2> QED BY <2>3 DEF TS!Next
<1> QED BY <1>1, <1>2, <1>3, <1>4, <1>5, <1>6, <1>7
      DEF Next, TimerThread, Window, Tick, Lock, vars

\* The list with its pointer surgery, given back mutex and one flag is a set of
\* timers from which only the owner and the timer's own callback take one out.
THEOREM TimersRefineSet == Spec => ImplementsTimerSet
<1>1. Init => TS!Init
  BY RefinesInit
<1>2. IInv /\ [Next]_vars => [TS!Next]_<<Listed, Firing, timersChanged>>
  BY RefinesStep
<1> QED BY Invariant, <1>1, <1>2, PTL DEF Spec, ImplementsTimerSet, TS!Spec, Firing

=============================================================================
