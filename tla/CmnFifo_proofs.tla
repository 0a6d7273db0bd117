--------------------------- MODULE CmnFifo_proofs ---------------------------
(***************************************************************************)
(* Proofs about the fifo for any number of threads and any maxSize.  The    *)
(* inductive invariant is IInv: the semaphore alone says nothing about the  *)
(* list, because it is decremented before and incremented after the list    *)
(* changes; it is the sum with the consumers under way and the pending      *)
(* sem_post that every step preserves, and the mutex keeps that sum from    *)
(* being disturbed by two threads at once.                                  *)
(***************************************************************************)
EXTENDS CmnFifo, FiniteSetTheorems, TLAPS

IInv == TypeOK /\ EtatIsExact /\ MutexHeldInside /\ SemaphoreCounts

LEMMA TailProperties ==
  ASSUME NEW S, NEW q \in Seq(S), q # <<>>
  PROVE  /\ Head(q) \in S
         /\ Tail(q) \in Seq(S)
         /\ Len(Tail(q)) = Len(q) - 1
         /\ Len(q) > 0
OBVIOUS

(* Where an element goes in, and how long the list is then. *)
LEMMA PutProperties ==
  ASSUME NEW S, NEW q \in Seq(S), NEW v \in S
  PROVE  /\ Append(q, v) \in Seq(S) /\ Len(Append(q, v)) = Len(q) + 1
         /\ <<v>> \o q \in Seq(S) /\ Len(<<v>> \o q) = Len(q) + 1
OBVIOUS

LEMMA ClaimingFinite == IsFiniteSet(Claiming) /\ Cardinality(Claiming) \in Nat
<1>1. Claiming \subseteq Consumer
  BY DEF Claiming
<1>2. QED
  BY <1>1, FS_Subset, FS_CardinalityType, ThreadAssumption

(* A consumer under the mutex finds an element: it is one of the claimants   *)
(* the count includes, and nobody can be posting beside it.                  *)
LEMMA ClaimantFinds ==
  ASSUME IInv, NEW c \in Consumer, pc[c] \in {"getting", "trying"}
  PROVE  queue # <<>> /\ etat # "vide"
<1>1. c \in Claiming
  BY DEF Claiming
<1>2. Cardinality(Claiming) # 0
  BY <1>1, ClaimingFinite, FS_EmptySet
<1>3. Len(queue) > 0
  BY <1>2, ClaimingFinite DEF IInv, TypeOK, SemaphoreCounts
<1>4. QED
  BY <1>3 DEF IInv, TypeOK, EtatIsExact

LEMMA InitInvariant == Init => IInv
<1> SUFFICES ASSUME Init PROVE IInv
  OBVIOUS
<1>1. TypeOK
  BY ThreadAssumption DEF Init, TypeOK, Thread, Label
<1>2. EtatIsExact
  BY SizeAssumption DEF Init, EtatIsExact
<1>3. MutexHeldInside
  BY ThreadAssumption DEF Init, MutexHeldInside, Holding, Thread
<1>4. SemaphoreCounts
  <2>1. Claiming = {}
    BY DEF Init, Claiming, Thread
  <2>2. ~Posting
    BY ThreadAssumption DEF Init, Posting, At, Thread
  <2>3. QED
    BY <2>1, <2>2, FS_EmptySet DEF Init, SemaphoreCounts
<1>5. QED
  BY <1>1, <1>2, <1>3, <1>4 DEF IInv

(* The list and etat change together, whoever changes them. *)
LEMMA TypeStep == TypeOK /\ EtatIsExact /\ [Next]_vars => TypeOK' /\ EtatIsExact'
<1> SUFFICES ASSUME TypeOK, EtatIsExact, [Next]_vars PROVE TypeOK' /\ EtatIsExact'
  OBVIOUS
<1> USE SizeAssumption, ThreadAssumption DEF TypeOK, Thread, Label
<1>1. ASSUME NEW p \in Producer, Call(p) PROVE TypeOK' /\ EtatIsExact'
  BY <1>1 DEF Call, Goto, At, EtatIsExact
<1>2. ASSUME NEW p \in Producer, AddLock(p) PROVE TypeOK' /\ EtatIsExact'
  BY <1>2 DEF AddLock, Lock, Goto, At, EtatIsExact
<1>3. ASSUME NEW p \in Producer, Add(p) PROVE TypeOK' /\ EtatIsExact'
  <2>1. queue' \in Seq(Element) /\ Len(queue') = Len(queue) + 1
    BY <1>3, PutProperties DEF Add
  <2>2. TypeOK'
    BY <1>3, <2>1 DEF Add, Goto, At, EtatAfterAdd
  <2>3. EtatIsExact'
    BY <1>3, <2>1 DEF Add, EtatAfterAdd, EtatIsExact
  <2>4. QED
    BY <2>2, <2>3
<1>4. ASSUME NEW p \in Producer, AddRefused(p) PROVE TypeOK' /\ EtatIsExact'
  BY <1>4 DEF AddRefused, Goto, At, EtatIsExact
<1>5. ASSUME NEW p \in Producer, Post(p) PROVE TypeOK' /\ EtatIsExact'
  BY <1>5 DEF Post, Goto, At, EtatIsExact
<1>6. ASSUME NEW t \in Thread, Unlock(t) PROVE TypeOK' /\ EtatIsExact'
  BY <1>6 DEF Unlock, Goto, At, EtatIsExact
<1>7. ASSUME NEW c \in Consumer, GetWait(c) \/ TryWait(c) PROVE TypeOK' /\ EtatIsExact'
  BY <1>7 DEF GetWait, TryWait, Goto, At, EtatIsExact
<1>8. ASSUME NEW c \in Consumer, GetLock(c) \/ TryLock(c) PROVE TypeOK' /\ EtatIsExact'
  BY <1>8 DEF GetLock, TryLock, Lock, Goto, At, EtatIsExact
<1>9. ASSUME NEW c \in Consumer, NEW label \in Label, Remove(c, label)
      PROVE TypeOK' /\ EtatIsExact'
  <2>1. CASE etat # "vide"
    <3>0. queue' = Tail(queue) /\ queue # <<>>
      BY <1>9, <2>1 DEF Remove, EtatIsExact
    <3>1. /\ queue' \in Seq(Element) /\ Len(queue') = Len(queue) - 1
          /\ Head(queue) \in Element /\ Len(queue) > 0
      BY <3>0, TailProperties
    <3>2. TypeOK'
      BY <1>9, <2>1, <3>1 DEF Remove, Goto, EtatAfterGet
    <3>3. EtatIsExact'
      BY <1>9, <2>1, <3>1 DEF Remove, EtatAfterGet, EtatIsExact
    <3>4. QED
      BY <3>2, <3>3
  <2>2. CASE etat = "vide"
    BY <1>9, <2>2 DEF Remove, Goto, EtatIsExact
  <2>3. QED
    BY <2>1, <2>2
<1>10. ASSUME NEW c \in Consumer, Get(c) \/ TryGet(c) PROVE TypeOK' /\ EtatIsExact'
  BY <1>9, <1>10 DEF Get, TryGet
<1>11. ASSUME NEW c \in Consumer, TryNothing(c) PROVE TypeOK' /\ EtatIsExact'
  BY <1>11 DEF TryNothing, At, EtatIsExact
<1>12. CASE UNCHANGED vars
  BY <1>12 DEF vars, EtatIsExact
<1>13. QED
  BY <1>1, <1>2, <1>3, <1>4, <1>5, <1>6, <1>7, <1>8, <1>10, <1>11, <1>12
     DEF Next, ProducerStep, ConsumerStep


(* The mutex follows the labels: one lock, one unlock, and no way out of an  *)
(* operation but through the unlock.                                         *)
LEMMA MutexStep == IInv /\ [Next]_vars => MutexHeldInside'
<1> SUFFICES ASSUME IInv, [Next]_vars PROVE MutexHeldInside'
  OBVIOUS
<1> USE ThreadAssumption DEF IInv, TypeOK, MutexHeldInside, Thread, Label, Holding
<1>1. ASSUME NEW p \in Producer, Call(p) PROVE MutexHeldInside'
  BY <1>1 DEF Call, Goto, At
<1>2. ASSUME NEW p \in Producer, AddLock(p) PROVE MutexHeldInside'
  BY <1>2 DEF AddLock, Lock, Goto, At
<1>3. ASSUME NEW p \in Producer, Add(p) \/ AddRefused(p) \/ Post(p) PROVE MutexHeldInside'
  BY <1>3 DEF Add, AddRefused, Post, Goto, At
<1>4. ASSUME NEW t \in Thread, Unlock(t) PROVE MutexHeldInside'
  BY <1>4 DEF Unlock, Goto, At
<1>5. ASSUME NEW c \in Consumer, GetWait(c) \/ TryWait(c) PROVE MutexHeldInside'
  BY <1>5 DEF GetWait, TryWait, Goto, At
<1>6. ASSUME NEW c \in Consumer, GetLock(c) \/ TryLock(c) PROVE MutexHeldInside'
  BY <1>6 DEF GetLock, TryLock, Lock, Goto, At
<1>7. ASSUME NEW c \in Consumer, Get(c) \/ TryGet(c) PROVE MutexHeldInside'
  <2>1. etat # "vide"
    BY <1>7, ClaimantFinds DEF Get, TryGet, At
  <2>2. Goto(c, "unlock") /\ qislocked' = qislocked
    BY <1>7, <2>1 DEF Get, TryGet, Remove
  <2>3. pc[c] \in {"getting", "trying"}
    BY <1>7 DEF Get, TryGet, At
  <2>4. QED
    BY <2>2, <2>3 DEF Goto
<1>8. ASSUME NEW c \in Consumer, TryNothing(c) PROVE MutexHeldInside'
  BY <1>8 DEF TryNothing
<1>9. CASE UNCHANGED vars
  BY <1>9 DEF vars
<1>10. QED
  BY <1>1, <1>2, <1>3, <1>4, <1>5, <1>6, <1>7, <1>8, <1>9
     DEF Next, ProducerStep, ConsumerStep

LEMMA SemaphoreStep == IInv /\ [Next]_vars => SemaphoreCounts'
<1> SUFFICES ASSUME IInv, [Next]_vars PROVE SemaphoreCounts'
  OBVIOUS
<1> USE ThreadAssumption DEF IInv, TypeOK, Thread
<1>0. /\ IsFiniteSet(Claiming) /\ Cardinality(Claiming) \in Nat
      /\ qisempty \in Nat /\ Len(queue) \in Nat
  BY ClaimingFinite
<1>1. ASSUME NEW p \in Producer, Call(p) \/ AddLock(p) \/ AddRefused(p)
      PROVE SemaphoreCounts'
  <2>1. Claiming' = Claiming
    BY <1>1 DEF Call, AddLock, AddRefused, Lock, Goto, At, Claiming
  <2>2. Posting' <=> Posting
    BY <1>1 DEF Call, AddLock, AddRefused, Lock, Goto, At, Posting, MutexHeldInside, Holding
  <2>3. queue' = queue /\ qisempty' = qisempty
    BY <1>1 DEF Call, AddLock, AddRefused
  <2>4. QED
    BY <2>1, <2>2, <2>3 DEF SemaphoreCounts
<1>2. ASSUME NEW p \in Producer, Add(p) PROVE SemaphoreCounts'
  <2>1. Claiming' = Claiming
    BY <1>2 DEF Add, Goto, At, Claiming
  <2>2. ~Posting /\ Posting'
    BY <1>2 DEF Add, Goto, At, Posting, MutexHeldInside, Holding
  <2>3. Len(queue') = Len(queue) + 1 /\ qisempty' = qisempty
    BY <1>2, PutProperties DEF Add
  <2>4. QED
    BY <1>0, <2>1, <2>2, <2>3 DEF SemaphoreCounts
<1>3. ASSUME NEW p \in Producer, Post(p) PROVE SemaphoreCounts'
  <2>1. Claiming' = Claiming
    BY <1>3 DEF Post, Goto, At, Claiming
  <2>2. Posting /\ ~Posting'
    BY <1>3 DEF Post, Goto, At, Posting, MutexHeldInside, Holding
  <2>3. queue' = queue /\ qisempty' = qisempty + 1
    BY <1>3 DEF Post
  <2>4. QED
    BY <1>0, <2>1, <2>2, <2>3 DEF SemaphoreCounts
<1>4. ASSUME NEW t \in Thread, Unlock(t) PROVE SemaphoreCounts'
  <2>1. Claiming' = Claiming
    BY <1>4 DEF Unlock, Goto, At, Claiming
  <2>2. ~Posting /\ ~Posting'
    BY <1>4 DEF Unlock, Goto, At, Posting, MutexHeldInside, Holding
  <2>3. queue' = queue /\ qisempty' = qisempty
    BY <1>4 DEF Unlock
  <2>4. QED
    BY <2>1, <2>2, <2>3 DEF SemaphoreCounts
<1>5. ASSUME NEW c \in Consumer, GetWait(c) \/ TryWait(c) PROVE SemaphoreCounts'
  <2>1. Claiming' = Claiming \cup {c} /\ c \notin Claiming
    BY <1>5 DEF GetWait, TryWait, Goto, At, Claiming
  <2>2. Cardinality(Claiming') = Cardinality(Claiming) + 1
    BY <1>0, <2>1, FS_AddElement
  <2>3. Posting' <=> Posting
    BY <1>5 DEF GetWait, TryWait, Goto, At, Posting
  <2>4. queue' = queue /\ qisempty' = qisempty - 1 /\ qisempty > 0
    BY <1>5 DEF GetWait, TryWait
  <2>5. QED
    BY <1>0, <2>2, <2>3, <2>4 DEF SemaphoreCounts
<1>6. ASSUME NEW c \in Consumer, GetLock(c) \/ TryLock(c) PROVE SemaphoreCounts'
  <2>1. Claiming' = Claiming
    BY <1>6 DEF GetLock, TryLock, Lock, Goto, At, Claiming
  <2>2. ~Posting /\ ~Posting'
    BY <1>6 DEF GetLock, TryLock, Lock, Goto, At, Posting
  <2>3. queue' = queue /\ qisempty' = qisempty
    BY <1>6 DEF GetLock, TryLock
  <2>4. QED
    BY <2>1, <2>2, <2>3 DEF SemaphoreCounts
<1>7. ASSUME NEW c \in Consumer, Get(c) \/ TryGet(c) PROVE SemaphoreCounts'
  <2>1. etat # "vide" /\ queue # <<>>
    BY <1>7, ClaimantFinds DEF Get, TryGet, At
  <2>2. /\ Goto(c, "unlock") /\ qislocked' = qislocked /\ qisempty' = qisempty
        /\ queue' = Tail(queue)
    BY <1>7, <2>1 DEF Get, TryGet, Remove
  <2>3. pc[c] \in {"getting", "trying"}
    BY <1>7 DEF Get, TryGet, At
  <2>4. Claiming' = Claiming \ {c} /\ c \in Claiming
    BY <2>2, <2>3 DEF Goto, Claiming
  <2>5. Cardinality(Claiming') = Cardinality(Claiming) - 1
    BY <1>0, <2>4, FS_RemoveElement
  <2>6. ~Posting /\ ~Posting'
    BY <2>2, <2>3 DEF Goto, At, Posting, MutexHeldInside, Holding
  <2>7. Len(queue') = Len(queue) - 1
    BY <2>1, <2>2, TailProperties
  <2>8. QED
    BY <1>0, <2>2, <2>5, <2>6, <2>7 DEF SemaphoreCounts
<1>8. ASSUME NEW c \in Consumer, TryNothing(c) PROVE SemaphoreCounts'
  BY <1>8 DEF TryNothing, SemaphoreCounts, Claiming, Posting, At
<1>9. CASE UNCHANGED vars
  BY <1>9 DEF vars, SemaphoreCounts, Claiming, Posting, At
<1>10. QED
  BY <1>1, <1>2, <1>3, <1>4, <1>5, <1>6, <1>7, <1>8, <1>9
     DEF Next, ProducerStep, ConsumerStep

LEMMA Inductive == IInv /\ [Next]_vars => IInv'
BY TypeStep, MutexStep, SemaphoreStep DEF IInv

LEMMA InvariantHolds == Spec => []IInv
BY InitInvariant, Inductive, PTL DEF Spec

(* Every variable of the fifo keeps to its range.                            *)
THEOREM TypeCorrect == Spec => []TypeOK
<1>1. IInv => TypeOK
  BY DEF IInv
<1>2. QED
  BY <1>1, InvariantHolds, PTL

(* No element is lost, duplicated or promised twice between the semaphore    *)
(* and the list.                                                             *)
THEOREM SemaphoreAgreesWithList == Spec => []SemaphoreCounts
<1>1. IInv => SemaphoreCounts
  BY DEF IInv
<1>2. QED
  BY <1>1, InvariantHolds, PTL

(* etat can be trusted in place of the list, for every maxSize, 0 included.  *)
THEOREM EtatTrusted == Spec => []EtatIsExact
<1>1. IInv => EtatIsExact
  BY DEF IInv
<1>2. QED
  BY <1>1, InvariantHolds, PTL

(* The mutex is never left behind and never held by two threads.             *)
THEOREM MutexDiscipline == Spec => []MutexHeldInside
<1>1. IInv => MutexHeldInside
  BY DEF IInv
<1>2. QED
  BY <1>1, InvariantHolds, PTL

(* The branch of cmn_fifo_tryget that leaks the mutex is never taken.        *)
THEOREM ConsumersNeverFindItEmpty == Spec => []NeverEmptyAfterWait
<1>1. IInv => NeverEmptyAfterWait
  BY ClaimantFinds DEF NeverEmptyAfterWait
<1>2. QED
  BY <1>1, InvariantHolds, PTL

-----------------------------------------------------------------------------
(***************************************************************************)
(* Refinement: an element enters the abstract queue when it is posted and    *)
(* leaves it when it is removed from the list; a consumer is admitted when   *)
(* the semaphore lets it through.                                            *)
(***************************************************************************)
LEMMA FrontProperties ==
  ASSUME NEW S, NEW q \in Seq(S), NEW v \in S
  PROVE  /\ Tail(<<v>> \o q) = q
         /\ Len(<<v>> \o q) = Len(q) + 1
         /\ <<v>> \o q \in Seq(S)
<1>1. <<v>> \o q \in Seq(S) /\ Len(<<v>> \o q) = Len(q) + 1
  OBVIOUS
<1>2. Len(Tail(<<v>> \o q)) = Len(q)
  BY <1>1
<1>3. \A i \in 1 .. Len(q) : Tail(<<v>> \o q)[i] = q[i]
  OBVIOUS
<1>4. QED
  BY <1>1, <1>2, <1>3

LEMMA EndProperties ==
  ASSUME NEW S, NEW q \in Seq(S), NEW v \in S
  PROVE  SubSeq(Append(q, v), 1, Len(Append(q, v)) - 1) = q
OBVIOUS

(* While an element waits for its sem_post, Available is the list without it *)
(* and the element is where the producer put it.                              *)
PostingInv ==
  Posting => \E q \in Seq(Element) :
    /\ Available = q
    /\ queue = IF front[qislocked] THEN <<el[qislocked]>> \o q ELSE Append(q, el[qislocked])
    /\ Len(q) < (IF MaxSize = 0 THEN 1 ELSE MaxSize)

LEMMA PostingStep == IInv /\ PostingInv /\ [Next]_vars => PostingInv'
<1> SUFFICES ASSUME IInv, PostingInv, [Next]_vars, Posting' PROVE PostingInv'
  BY DEF PostingInv
<1> USE ThreadAssumption, SizeAssumption DEF IInv, TypeOK, Thread
<1>1. ASSUME NEW p \in Producer, Add(p) PROVE PostingInv'
  <2>1. qislocked = p /\ qislocked' = p /\ el[p] \in Element /\ pc[p] = "adding"
    BY <1>1 DEF Add, At, MutexHeldInside, Holding
  <2>2. /\ queue' = IF front[p] THEN <<el[p]>> \o queue ELSE Append(queue, el[p])
        /\ el' = el /\ front' = front
    BY <1>1 DEF Add
  <2>3. Available' = queue
    BY <2>1, <2>2, FrontProperties, EndProperties DEF Available
  <2>4. Len(queue) < (IF MaxSize = 0 THEN 1 ELSE MaxSize)
    BY <1>1 DEF Add, EtatIsExact
  <2>5. QED
    BY <2>1, <2>2, <2>3, <2>4 DEF PostingInv
<1>2. ASSUME Posting, qislocked' = qislocked, queue' = queue,
             el'[qislocked] = el[qislocked], front'[qislocked] = front[qislocked]
      PROVE  PostingInv'
  BY <1>2 DEF PostingInv, Available
<1>3. ASSUME NEW p \in Producer, Call(p) PROVE PostingInv'
  <2>1. Posting /\ qislocked # p
    BY <1>3 DEF Call, Goto, At, Posting, MutexHeldInside, Holding
  <2>2. el'[qislocked] = el[qislocked] /\ front'[qislocked] = front[qislocked]
    BY <1>3, <2>1 DEF Call, Posting
  <2>3. QED
    BY <1>2, <1>3, <2>1, <2>2 DEF Call
<1>4. ASSUME NEW p \in Producer, AddLock(p) \/ AddRefused(p) \/ Post(p) PROVE PostingInv'
  BY <1>4 DEF AddLock, AddRefused, Post, Lock, Goto, At, Posting, MutexHeldInside, Holding
<1>5. ASSUME NEW t \in Thread, Unlock(t) PROVE PostingInv'
  BY <1>5 DEF Unlock, Posting
<1>6. ASSUME NEW c \in Consumer, GetWait(c) \/ TryWait(c) \/ TryNothing(c) PROVE PostingInv'
  <2>1. Posting
    BY <1>6 DEF GetWait, TryWait, TryNothing, Goto, At, Posting
  <2>2. QED
    BY <1>2, <1>6, <2>1 DEF GetWait, TryWait, TryNothing
<1>7. ASSUME NEW c \in Consumer, GetLock(c) \/ TryLock(c) PROVE PostingInv'
  BY <1>7 DEF GetLock, TryLock, Lock, Goto, At, Posting
<1>8. ASSUME NEW c \in Consumer, Get(c) \/ TryGet(c) PROVE PostingInv'
  <2>1. /\ Goto(c, "unlock") /\ qislocked' = qislocked /\ pc[c] \in {"getting", "trying"}
    BY <1>8, ClaimantFinds DEF Get, TryGet, At, Remove
  <2>2. QED
    BY <2>1 DEF Goto, At, Posting, MutexHeldInside, Holding
<1>9. CASE UNCHANGED vars
  BY <1>2, <1>9 DEF vars, Posting, At
<1>10. QED
  BY <1>1, <1>3, <1>4, <1>5, <1>6, <1>7, <1>8, <1>9
     DEF Next, ProducerStep, ConsumerStep

LEMMA PostingHolds == Spec => []PostingInv
<1>1. Init => PostingInv
  BY ThreadAssumption DEF Init, PostingInv, Posting, At, Thread
<1>2. QED
  BY <1>1, PostingStep, InvariantHolds, PTL DEF Spec

(* Without a pending sem_post all of the list is available; with one, the    *)
(* count and the list differ by that element.                                 *)
LEMMA AvailableCount ==
  ASSUME IInv, PostingInv
  PROVE  /\ Available \in Seq(Element)
         /\ Len(Available) = qisempty + Cardinality(Claiming)
<1> USE DEF IInv, TypeOK
<1>1. CASE Posting
  <2>1. PICK q \in Seq(Element) :
          /\ Available = q
          /\ queue = IF front[qislocked] THEN <<el[qislocked]>> \o q ELSE Append(q, el[qislocked])
    BY <1>1 DEF PostingInv
  <2>2. el[qislocked] \in Element
    BY <1>1 DEF Posting
  <2>3. Len(queue) = Len(q) + 1
    BY <2>1, <2>2, FrontProperties, PutProperties
  <2>4. Len(q) \in Nat
    OBVIOUS
  <2>5. QED
    BY <1>1, <2>1, <2>3, <2>4, ClaimingFinite DEF SemaphoreCounts
<1>2. CASE ~Posting
  BY <1>2, ClaimingFinite DEF Available, SemaphoreCounts
<1>3. QED
  BY <1>1, <1>2

(* BoundedQueue's Cardinality is the one of FiniteSets.                       *)
LEMMA SameCardinality == ASSUME NEW S PROVE BQ!Cardinality(S) = Cardinality(S)
BY DEF BQ!Cardinality, Cardinality

LEMMA StepRefines ==
  IInv /\ PostingInv /\ [Next]_vars => [BQ!Next]_(BQ!vars)
<1> SUFFICES ASSUME IInv, PostingInv, [Next]_vars PROVE [BQ!Next]_(BQ!vars)
  OBVIOUS
<1> USE ThreadAssumption, SizeAssumption DEF IInv, TypeOK, Thread
<1>0. /\ IsFiniteSet(Claiming) /\ Cardinality(Claiming) \in Nat
      /\ Available \in Seq(Element)
      /\ Len(Available) = qisempty + Cardinality(Claiming)
  BY ClaimingFinite, AvailableCount
<1>1. ASSUME NEW p \in Producer, Call(p) PROVE UNCHANGED BQ!vars
  <2>1. Claiming' = Claiming
    BY <1>1 DEF Call, Goto, At, Claiming
  <2>2. (Posting' <=> Posting) /\ (Posting => qislocked # p)
    BY <1>1 DEF Call, Goto, At, Posting, MutexHeldInside, Holding
  <2>3. Posting => front'[qislocked] = front[qislocked]
    BY <1>1, <2>2 DEF Call, Posting
  <2>4. Available' = Available
    BY <1>1, <2>2, <2>3 DEF Call, Available
  <2>5. QED
    BY <1>1, <2>1, <2>4 DEF Call, BQ!vars
<1>2. ASSUME NEW t \in Thread, AddLock(t) \/ Unlock(t) \/ GetLock(t) \/ TryLock(t)
      PROVE UNCHANGED BQ!vars
  <2>1. Claiming' = Claiming
    BY <1>2 DEF AddLock, Unlock, GetLock, TryLock, Lock, Goto, At, Claiming
  <2>2. ~Posting /\ ~Posting'
    BY <1>2 DEF AddLock, Unlock, GetLock, TryLock, Lock, Goto, At, Posting, MutexHeldInside, Holding
  <2>3. Available' = Available
    BY <1>2, <2>2 DEF AddLock, Unlock, GetLock, TryLock, Available
  <2>4. QED
    BY <1>2, <2>1, <2>3 DEF AddLock, Unlock, GetLock, TryLock, BQ!vars
<1>3. ASSUME NEW p \in Producer, Add(p) PROVE UNCHANGED BQ!vars
  <2>1. Claiming' = Claiming
    BY <1>3 DEF Add, Goto, At, Claiming
  <2>2. qislocked = p /\ qislocked' = p /\ el[p] \in Element /\ ~Posting /\ Posting'
    BY <1>3 DEF Add, Goto, At, Posting, MutexHeldInside, Holding
  <2>3. Available' = queue
    BY <1>3, <2>2, FrontProperties, EndProperties DEF Add, Available
  <2>4. Available = queue
    BY <2>2 DEF Available
  <2>5. QED
    BY <1>3, <2>1, <2>3, <2>4 DEF Add, BQ!vars
<1>4. ASSUME NEW p \in Producer, AddRefused(p) PROVE BQ!Refuse(p)
  <2>1. Claiming' = Claiming
    BY <1>4 DEF AddRefused, Goto, At, Claiming
  <2>2. ~Posting /\ ~Posting'
    BY <1>4 DEF AddRefused, Goto, At, Posting, MutexHeldInside, Holding
  <2>3. Available = queue /\ Available' = queue
    BY <1>4, <2>2 DEF AddRefused, Available
  <2>4. Len(queue) >= (IF MaxSize = 0 THEN 1 ELSE MaxSize)
    BY <1>4 DEF AddRefused, EtatIsExact
  <2>5. QED
    BY <1>4, <2>1, <2>3, <2>4 DEF AddRefused, BQ!Refuse
<1>5. ASSUME NEW p \in Producer, Post(p) PROVE BQ!Accept(p)
  <2>1. Claiming' = Claiming
    BY <1>5 DEF Post, Goto, At, Claiming
  <2>2. qislocked = p /\ Posting /\ ~Posting' /\ el[p] \in Element
    BY <1>5 DEF Post, Goto, At, Posting, MutexHeldInside, Holding
  <2>3. Available' = queue
    BY <1>5, <2>2 DEF Post, Available
  <2>4. PICK q \in Seq(Element) :
          /\ Available = q
          /\ queue = IF front[p] THEN <<el[p]>> \o q ELSE Append(q, el[p])
          /\ Len(q) < (IF MaxSize = 0 THEN 1 ELSE MaxSize)
    BY <2>2 DEF PostingInv
  <2>5. Available' \in {Append(Available, el[p]), <<el[p]>> \o Available}
    BY <2>3, <2>4
  <2>6. QED
    BY <1>5, <2>1, <2>2, <2>4, <2>5 DEF Post, BQ!Accept
<1>6. ASSUME NEW c \in Consumer, GetWait(c) \/ TryWait(c) PROVE BQ!Admit(c)
  <2>1. Claiming' = Claiming \cup {c} /\ c \notin Claiming
    BY <1>6 DEF GetWait, TryWait, Goto, At, Claiming
  <2>2. (Posting' <=> Posting) /\ queue' = queue /\ front' = front /\ qislocked' = qislocked
    BY <1>6 DEF GetWait, TryWait, Goto, At, Posting
  <2>3. Available' = Available
    BY <2>2 DEF Available
  <2>4. Cardinality(Claiming) < Len(Available)
    BY <1>0, <1>6 DEF GetWait, TryWait
  <2>5. QED
    BY <1>6, <2>1, <2>3, <2>4, SameCardinality DEF GetWait, TryWait, BQ!Admit
<1>7. ASSUME NEW c \in Consumer, Get(c) \/ TryGet(c) PROVE BQ!Deliver(c)
  <2>1. etat # "vide" /\ queue # <<>>
    BY <1>7, ClaimantFinds DEF Get, TryGet, At
  <2>2. /\ Goto(c, "unlock") /\ qislocked' = qislocked
        /\ queue' = Tail(queue) /\ result' = [result EXCEPT ![c] = Head(queue)]
    BY <1>7, <2>1 DEF Get, TryGet, Remove
  <2>3. pc[c] \in {"getting", "trying"}
    BY <1>7 DEF Get, TryGet, At
  <2>4. Claiming' = Claiming \ {c} /\ c \in Claiming
    BY <2>2, <2>3 DEF Goto, Claiming
  <2>5. ~Posting /\ ~Posting'
    BY <2>2, <2>3 DEF Goto, At, Posting, MutexHeldInside, Holding
  <2>6. Available = queue /\ Available' = Tail(queue)
    BY <2>2, <2>5 DEF Available
  <2>7. QED
    BY <2>1, <2>2, <2>4, <2>6 DEF BQ!Deliver
<1>8. ASSUME NEW c \in Consumer, TryNothing(c) PROVE BQ!Decline(c)
  <2>1. Claiming' = Claiming /\ c \notin Claiming
    BY <1>8 DEF TryNothing, At, Claiming
  <2>2. Available' = Available
    BY <1>8 DEF TryNothing, At, Posting, Available
  <2>3. Cardinality(Claiming) = Len(Available)
    BY <1>0, <1>8 DEF TryNothing
  <2>4. QED
    BY <1>8, <2>1, <2>2, <2>3, SameCardinality DEF TryNothing, BQ!Decline
<1>9. CASE UNCHANGED vars
  BY <1>9 DEF vars, BQ!vars, Available, Posting, At, Claiming
<1>10. QED
  BY <1>1, <1>2, <1>3, <1>4, <1>5, <1>6, <1>7, <1>8, <1>9
     DEF Next, ProducerStep, ConsumerStep, BQ!Next

(* The fifo implements the queue its users count on, for any threads and any *)
(* maxSize.                                                                   *)
THEOREM Refinement == Spec => ImplementsBoundedQueue
<1>1. Init => BQ!Init
  <2> SUFFICES ASSUME Init PROVE BQ!Init
    OBVIOUS
  <2>1. Claiming = {}
    BY DEF Init, Claiming, Thread
  <2>2. ~Posting
    BY ThreadAssumption DEF Init, Posting, At, Thread
  <2>3. QED
    BY <2>1, <2>2 DEF Init, Available, Thread, BQ!Init
<1>2. QED
  BY <1>1, StepRefines, InvariantHolds, PostingHolds, PTL
     DEF Spec, ImplementsBoundedQueue, BQ!Spec

=============================================================================
