----------------------------- MODULE LossyQueue -----------------------------
(***************************************************************************)
(* What a reader thread promises to the gateway that owns it: frames are   *)
(* handled one at a time, in the order they were offered, each at most     *)
(* once; a frame is lost only when Capacity others wait.                   *)
(***************************************************************************)
EXTENDS Sequences, Naturals

CONSTANTS Frames, Capacity, None

VARIABLES queue,     \* offered, not yet handled
          handling   \* the frame being handled, or None

vars == <<queue, handling>>

Init == queue = << >> /\ handling = None

Offer(f) ==
  /\ IF Len(queue) < Capacity THEN queue' = Append(queue, f)
                              ELSE UNCHANGED queue
  /\ UNCHANGED handling

Take ==
  /\ handling = None /\ queue # << >>
  /\ handling' = Head(queue)
  /\ queue' = Tail(queue)

Done ==
  /\ handling # None
  /\ handling' = None
  /\ UNCHANGED queue

Next == (\E f \in Frames : Offer(f)) \/ Take \/ Done

Spec == Init /\ [][Next]_vars
=============================================================================
