------------------------------ MODULE CmnFifo -------------------------------
(***************************************************************************)
(* The event queue of every thread and the packet queue of every server    *)
(* connection (shared/src/common/portable/cmnFifo.c): a list protected by  *)
(* the mutex qislocked, a counting semaphore qisempty on which a consumer  *)
(* waits BEFORE it takes the mutex, and the cached verdict etat that the   *)
(* operations test instead of the list.                                    *)
(*                                                                         *)
(* A thread is inside an operation when its pc is not "idle".  Everything  *)
(* done under the mutex between two calls of the semaphore or the mutex is *)
(* one step.                                                               *)
(***************************************************************************)
EXTENDS Naturals, Sequences, FiniteSets

CONSTANTS
  Producer,     \* threads calling cmn_fifo_add or cmn_fifo_insert
  Consumer,     \* threads calling cmn_fifo_get or cmn_fifo_tryget
  Element,      \* the pointers that are queued
  MaxSize,      \* ff->maxSize (cmn_fifo_init replaces only negative sizes)
  NULL,         \* what tryget returns when there is nothing, or the pile is empty
  Added,        \* return value 0 of add and insert
  TooMuch,      \* return value -1 of add and insert
  Nobody        \* the mutex is free

Thread == Producer \cup Consumer

ASSUME ThreadAssumption ==
  /\ IsFiniteSet(Producer) /\ IsFiniteSet(Consumer)
  /\ Producer \cap Consumer = {}
  /\ Nobody \notin Thread
ASSUME SizeAssumption == MaxSize \in Nat
ASSUME AnswerAssumption == {NULL, Added, TooMuch} \cap Element = {}

VARIABLES
  queue,        \* ff->queue
  etat,         \* ff->etat: "ok", "plein" (full) or "vide" (empty)
  qisempty,     \* value of the semaphore
  qislocked,    \* owner of the mutex
  pc,           \* where each thread is inside an operation
  el,           \* the element a producer brings
  front,        \* the running producer call is cmn_fifo_insert
  result        \* last value returned to each thread

vars == <<queue, etat, qisempty, qislocked, pc, el, front, result>>

Init ==
  /\ queue = <<>>
  /\ etat = "vide"
  /\ qisempty = 0
  /\ qislocked = Nobody
  /\ pc = [t \in Thread |-> "idle"]
  /\ el \in [Producer -> Element]
  /\ front = [p \in Producer |-> FALSE]
  /\ result = [t \in Thread |-> NULL]

-----------------------------------------------------------------------------
At(t, label) == pc[t] = label
Goto(t, label) == pc' = [pc EXCEPT ![t] = label]

Lock(t, from, to) ==
  /\ At(t, from)
  /\ qislocked = Nobody
  /\ qislocked' = t
  /\ Goto(t, to)

(* The verdict recomputed after an element was added or removed. *)
MutEtatAfterAdd(q) == IF Len(q) + 1 >= MaxSize THEN "plein" ELSE "ok"  \* mutant: off by one
EtatAfterAdd(q) == IF Len(q) >= MaxSize THEN "plein" ELSE "ok"
EtatAfterGet(q) == IF Len(q) <= 0 THEN "vide" ELSE "ok"

(* cmn_fifo_add and cmn_fifo_insert differ in the place of the element. *)
Call(p) ==
  /\ At(p, "idle")
  /\ \E v \in Element : el' = [el EXCEPT ![p] = v]
  /\ \E where \in BOOLEAN : front' = [front EXCEPT ![p] = where]
  /\ Goto(p, "add")
  /\ UNCHANGED <<queue, etat, qisempty, qislocked, result>>

AddLock(p) ==
  /\ Lock(p, "add", "adding")
  /\ UNCHANGED <<queue, etat, qisempty, el, front, result>>

Add(p) ==
  /\ At(p, "adding")
  /\ etat # "plein"
  /\ queue' = IF front[p] THEN <<el[p]>> \o queue ELSE Append(queue, el[p])
  /\ etat' = EtatAfterAdd(queue')
  /\ Goto(p, "post")
  /\ UNCHANGED <<qisempty, qislocked, el, front, result>>

(* Mutants: sem_post also for a refused element; -1 returned under the mutex. *)
MutAddRefusedPosts(p) ==
  /\ At(p, "adding")
  /\ etat = "plein"
  /\ result' = [result EXCEPT ![p] = TooMuch]
  /\ qisempty' = qisempty + 1
  /\ Goto(p, "unlock")
  /\ UNCHANGED <<queue, etat, qislocked, el, front>>

MutAddRefusedLocked(p) ==
  /\ At(p, "adding")
  /\ etat = "plein"
  /\ result' = [result EXCEPT ![p] = TooMuch]
  /\ Goto(p, "idle")
  /\ UNCHANGED <<queue, etat, qisempty, qislocked, el, front>>

AddRefused(p) ==
  /\ At(p, "adding")
  /\ etat = "plein"
  /\ result' = [result EXCEPT ![p] = TooMuch]
  /\ Goto(p, "unlock")
  /\ UNCHANGED <<queue, etat, qisempty, qislocked, el, front>>

Post(p) ==
  /\ At(p, "post")
  /\ qisempty' = qisempty + 1
  /\ result' = [result EXCEPT ![p] = Added]
  /\ Goto(p, "unlock")
  /\ UNCHANGED <<queue, etat, qislocked, el, front>>

Unlock(t) ==
  /\ At(t, "unlock")
  /\ qislocked' = Nobody
  /\ Goto(t, "idle")
  /\ UNCHANGED <<queue, etat, qisempty, el, front, result>>

(* cmn_fifo_get: the semaphore first, the mutex afterwards. *)
GetWait(c) ==
  /\ At(c, "idle")
  /\ qisempty > 0
  /\ qisempty' = qisempty - 1
  /\ Goto(c, "get")
  /\ UNCHANGED <<queue, etat, qislocked, el, front, result>>

GetLock(c) ==
  /\ Lock(c, "get", "getting")
  /\ UNCHANGED <<queue, etat, qisempty, el, front, result>>

(* The same body serves cmn_fifo_get and cmn_fifo_tryget.  They differ in   *)
(* the branch for a pile that is empty although the semaphore let the       *)
(* consumer through: cmn_fifo_get unlocks, cmn_fifo_tryget returns WITHOUT  *)
(* releasing the mutex.                                                     *)
Remove(c, ifEmpty) ==
  IF etat # "vide"
  THEN /\ result' = [result EXCEPT ![c] = Head(queue)]
       /\ queue' = Tail(queue)
       /\ etat' = EtatAfterGet(queue')
       /\ Goto(c, "unlock")
       /\ UNCHANGED <<qisempty, qislocked, el, front>>
  ELSE /\ result' = [result EXCEPT ![c] = NULL]
       /\ Goto(c, ifEmpty)
       /\ UNCHANGED <<queue, etat, qisempty, qislocked, el, front>>

Get(c) == At(c, "getting") /\ Remove(c, "unlock")

(* Mutant: the result of sem_trywait is not looked at. *)
MutTryWait(c) ==
  /\ At(c, "idle")
  /\ qisempty' = IF qisempty > 0 THEN qisempty - 1 ELSE 0
  /\ Goto(c, "try")
  /\ UNCHANGED <<queue, etat, qislocked, el, front, result>>

TryWait(c) ==
  /\ At(c, "idle")
  /\ qisempty > 0
  /\ qisempty' = qisempty - 1
  /\ Goto(c, "try")
  /\ UNCHANGED <<queue, etat, qislocked, el, front, result>>

TryNothing(c) ==
  /\ At(c, "idle")
  /\ qisempty = 0
  /\ result' = [result EXCEPT ![c] = NULL]
  /\ UNCHANGED <<queue, etat, qisempty, qislocked, pc, el, front>>

TryLock(c) ==
  /\ Lock(c, "try", "trying")
  /\ UNCHANGED <<queue, etat, qisempty, el, front, result>>

TryGet(c) == At(c, "trying") /\ Remove(c, "idle")

-----------------------------------------------------------------------------
ProducerStep(p) ==
  Call(p) \/ AddLock(p) \/ Add(p) \/ AddRefused(p) \/ Post(p) \/ Unlock(p)

ConsumerStep(c) ==
  \/ GetWait(c) \/ GetLock(c) \/ Get(c)
  \/ TryWait(c) \/ TryNothing(c) \/ TryLock(c) \/ TryGet(c)
  \/ Unlock(c)

Next == (\E p \in Producer : ProducerStep(p)) \/ (\E c \in Consumer : ConsumerStep(c))

Spec == Init /\ [][Next]_vars

(* Every thread runs on; a thread blocked on the mutex gets its turn, since  *)
(* all critical sections are short and the scheduler is preemptive.          *)
Fairness ==
  /\ \A p \in Producer : /\ SF_vars(AddLock(p))
                         /\ WF_vars(Add(p) \/ AddRefused(p) \/ Post(p) \/ Unlock(p))
  /\ \A c \in Consumer : /\ SF_vars(GetLock(c) \/ TryLock(c))
                         /\ WF_vars(Get(c) \/ TryGet(c) \/ Unlock(c))

FairSpec == Spec /\ Fairness

-----------------------------------------------------------------------------
Label == {"idle", "add", "adding", "post", "get", "getting", "try", "trying", "unlock"}
Holding == {"adding", "post", "getting", "trying", "unlock"}

(* The variables keep to their ranges in every interleaving of the          *)
(* operations of cmnFifo.c.                                                  *)
TypeOK ==
  /\ queue \in Seq(Element)
  /\ etat \in {"ok", "plein", "vide"}
  /\ qisempty \in Nat
  /\ qislocked \in Thread \cup {Nobody}
  /\ pc \in [Thread -> Label]
  /\ el \in [Producer -> Element]
  /\ front \in [Producer -> BOOLEAN]
  /\ result \in [Thread -> Element \cup {NULL, Added, TooMuch}]

(* Consumers the semaphore has let through and that have not yet removed    *)
(* their element.                                                           *)
Claiming == {c \in Consumer : pc[c] \in {"get", "getting", "try", "trying"}}

Posting == qislocked \in Producer /\ At(qislocked, "post")

(* What can be had: the list without an element whose sem_post is pending.   *)
Available ==
  IF Posting
  THEN IF front[qislocked] THEN Tail(queue) ELSE SubSeq(queue, 1, Len(queue) - 1)
  ELSE queue

(* The semaphore and the list, updated at different moments by different    *)
(* threads, agree: every element is either still counted by the semaphore,  *)
(* claimed by exactly one consumer that is on its way to it, or about to be  *)
(* posted.                                                                  *)
SemaphoreCounts ==
  qisempty + Cardinality(Claiming) + (IF Posting THEN 1 ELSE 0) = Len(queue)

(* The cached verdict etat, which the operations test instead of the list,  *)
(* says vide exactly when the list is empty and plein exactly at the limit; *)
(* with maxSize 0 the queue still takes one element.                         *)
EtatIsExact ==
  /\ (etat = "vide") <=> (queue = <<>>)
  /\ (etat = "plein") <=> (queue # <<>> /\ Len(queue) >= MaxSize)
  /\ Len(queue) <= (IF MaxSize = 0 THEN 1 ELSE MaxSize)

(* A consumer that the semaphore let through never finds the pile empty:    *)
(* the branch of cmn_fifo_tryget that forgets to release the mutex           *)
(* ("this case MUST never happen") stays out of reach.                       *)
NeverEmptyAfterWait ==
  \A c \in Consumer : pc[c] \in {"getting", "trying"} => queue # <<>> /\ etat # "vide"

(* The mutex is held exactly by the thread that is between its lock and its *)
(* unlock; in particular no operation returns with the mutex still held.    *)
MutexHeldInside ==
  \A t \in Thread : (qislocked = t) <=> (pc[t] \in Holding)

(* Nobody who enters an operation of the fifo stays inside for ever.        *)
OperationsReturn == \A t \in Thread : (pc[t] # "idle") ~> (pc[t] = "idle")

BQ == INSTANCE BoundedQueue WITH
        Capacity <- IF MaxSize = 0 THEN 1 ELSE MaxSize,
        Nothing <- NULL, Accepted <- Added, Refused <- TooMuch,
        items <- Available, admitted <- Claiming, answer <- result

(* The fifo implements the queue its users count on.                         *)
ImplementsBoundedQueue == BQ!Spec
=============================================================================
