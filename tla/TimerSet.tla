------------------------------ MODULE TimerSet ------------------------------
(***************************************************************************)
(* What the users of the timers rely on: a set of armed timers of which    *)
(* one at a time is firing.  A timer that fires is armed when its firing   *)
(* begins, and stays armed or not when it ends; it stays when the set was  *)
(* touched in the meantime.  Nothing else takes a timer out of the set     *)
(* than its owner.                                                         *)
(***************************************************************************)
CONSTANTS Timers, Nothing     \* the timers, and a value that is none of them

VARIABLES armed, firing, touched

Init == armed = {} /\ firing = Nothing /\ touched = FALSE

Arm(t) ==
    /\ t \in Timers \ armed
    /\ armed' = armed \cup {t} /\ touched' = TRUE
    /\ UNCHANGED firing

Disarm(t) ==
    /\ t \in armed
    /\ armed' = armed \ {t} /\ touched' = TRUE
    /\ UNCHANGED firing

Fire(t) ==
    /\ firing = Nothing /\ t \in armed
    /\ firing' = t /\ touched' = FALSE
    /\ UNCHANGED armed

End ==
    /\ firing # Nothing /\ firing' = Nothing
    /\ armed' = armed \/ (~ touched /\ armed' = armed \ {firing})
    /\ UNCHANGED touched

Next == End \/ \E t \in Timers : Arm(t) \/ Disarm(t) \/ Fire(t)

Spec == Init /\ [][Next]_<<armed, firing, touched>>
=============================================================================
