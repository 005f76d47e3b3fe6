-------------------------- MODULE ControllerPromise --------------------------
(***************************************************************************)
(* What a virtual controller promises to whoever asks it on the bus: an    *)
(* accepted frame is dealt with in the order of arrival, once; a request   *)
(* it can answer is answered, any other frame is dropped in silence.       *)
(* Nothing is said of time, nor of what the answer holds.                  *)
(***************************************************************************)
EXTENDS Sequences

CONSTANTS Frames,        \* the frames the controller accepts
          Answerable(_), \* those that call for an answer
          None           \* no frame

VARIABLES inbox,         \* accepted, not yet dealt with
          answering      \* the request whose answer is being sent, or None

vars == <<inbox, answering>>

Init == inbox = << >> /\ answering = None

Accept(f) ==
  /\ inbox' = Append(inbox, f)
  /\ UNCHANGED answering

Answer ==
  /\ answering = None /\ inbox # << >>
  /\ Answerable(Head(inbox))
  /\ answering' = Head(inbox)
  /\ inbox' = Tail(inbox)

Drop ==
  /\ answering = None /\ inbox # << >>
  /\ ~Answerable(Head(inbox))
  /\ inbox' = Tail(inbox)
  /\ UNCHANGED answering

Answered ==
  /\ answering # None
  /\ answering' = None
  /\ UNCHANGED inbox

Next == (\E f \in Frames : Accept(f)) \/ Answer \/ Drop \/ Answered

Spec == Init /\ [][Next]_vars
=============================================================================
