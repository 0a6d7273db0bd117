------------------------------ MODULE MCCmnFifo ------------------------------
(***************************************************************************)
(* One thread adding, two removing, a queue of two elements: enough for a   *)
(* consumer to be overtaken between the semaphore and the mutex, for a full *)
(* queue, and for the order of two elements.  The threads are not declared  *)
(* interchangeable: the run checks liveness as well.                        *)
(***************************************************************************)
EXTENDS CmnFifo
=============================================================================
