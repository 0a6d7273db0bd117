--------------------------- MODULE CommandEngine ---------------------------
(***************************************************************************)
(* What a client of one player window is promised: each command it sends   *)
(* is taken up once, at most one command is being worked on at a time, and *)
(* each command gets exactly one answer.  A command is answered either at  *)
(* once (refused, or finished synchronously) or after it has been the      *)
(* current command of the window.                                          *)
(***************************************************************************)
CONSTANT Commands        \* the commands a client may send

VARIABLE status          \* how far each command has come

Stages == {"unsent", "queued", "processing", "answered"}

TypeOK == status \in [Commands -> Stages]

Init == status = [c \in Commands |-> "unsent"]

InProcessing == {c \in Commands : status[c] = "processing"}

MovesTo(c, from, to) ==
    /\ status[c] = from
    /\ status' = [status EXCEPT ![c] = to]

\* The controller hands a command to the window.
Send(c) == MovesTo(c, "unsent", "queued")

\* The window refuses a command or finishes it without waiting.
AnswerAtOnce(c) == MovesTo(c, "queued", "answered")

\* The window takes a command up; it does so only when it has no other.
Accept(c) == InProcessing = {} /\ MovesTo(c, "queued", "processing")

\* The window answers its current command.
Answer(c) == MovesTo(c, "processing", "answered")

Next == \E c \in Commands : Send(c) \/ AnswerAtOnce(c) \/ Accept(c) \/ Answer(c)

Spec == Init /\ [][Next]_status
=============================================================================
