---------------------------- MODULE BoundedQueue ----------------------------
(***************************************************************************)
(* What a queue between the threads of muxMedia promises its users,        *)
(* whatever semaphores and locks it is built from: elements leave in the   *)
(* order in which the queue holds them, an element is refused only when    *)
(* the queue is full, a consumer that was admitted always gets an element, *)
(* and "nothing there" is answered only when every element of the queue    *)
(* has already been promised to an admitted consumer.                      *)
(***************************************************************************)
EXTENDS Naturals, Sequences, FiniteSets

CONSTANTS
  Producer,     \* threads that add elements
  Consumer,     \* threads that remove elements
  Element,      \* what is queued: events of a thread, packets of a connection
  Capacity,     \* most elements the queue holds
  Nothing,      \* answer to a consumer that finds no element
  Accepted,     \* answers to a producer
  Refused

VARIABLES
  items,        \* the elements in the queue, in the order they will leave
  admitted,     \* consumers that have been promised one element each
  answer        \* last answer given to each thread

vars == <<items, admitted, answer>>

Init ==
  /\ items = <<>>
  /\ admitted = {}
  /\ answer = [t \in Producer \cup Consumer |-> Nothing]

(* A producer's element becomes available, at the end or at the front. *)
Accept(p) ==
  /\ Len(items) < Capacity
  /\ \E v \in Element : items' \in {Append(items, v), <<v>> \o items}
  /\ answer' = [answer EXCEPT ![p] = Accepted]
  /\ UNCHANGED admitted

Refuse(p) ==
  /\ Len(items) >= Capacity
  /\ answer' = [answer EXCEPT ![p] = Refused]
  /\ UNCHANGED <<items, admitted>>

Admit(c) ==
  /\ c \notin admitted
  /\ Cardinality(admitted) < Len(items)
  /\ admitted' = admitted \cup {c}
  /\ UNCHANGED <<items, answer>>

(* An admitted consumer gets the oldest element, never an excuse. *)
Deliver(c) ==
  /\ c \in admitted
  /\ items # <<>>
  /\ answer' = [answer EXCEPT ![c] = Head(items)]
  /\ items' = Tail(items)
  /\ admitted' = admitted \ {c}

Decline(c) ==
  /\ c \notin admitted
  /\ Cardinality(admitted) = Len(items)
  /\ answer' = [answer EXCEPT ![c] = Nothing]
  /\ UNCHANGED <<items, admitted>>

Next ==
  \/ \E p \in Producer : Accept(p) \/ Refuse(p)
  \/ \E c \in Consumer : Admit(c) \/ Deliver(c) \/ Decline(c)

Spec == Init /\ [][Next]_vars

=============================================================================
