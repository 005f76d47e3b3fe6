-------------------------- MODULE ThreadedCanReader --------------------------
(***************************************************************************)
(* TThreadedCanReader (src/src/ThreadedCanReader.cpp): the CAN listener    *)
(* offers frames through Handle, the reader's own thread gets them and     *)
(* hands them to the owner, and the owner destroys the reader.             *)
(*                                                                         *)
(* Handle and Get hold Mutex throughout, except while Get waits, so each   *)
(* is one step; Handle notifies before it releases Mutex.  The wait may    *)
(* time out at any moment (READ_TIMEOUT is left out), and it may end for   *)
(* no reason, as waits on a condition variable may.                        *)
(***************************************************************************)
EXTENDS Sequences, Naturals

CONSTANTS
  BusFrames,             \* the frames that may arrive from the bus
  AcceptFrame(_),        \* the owner's filter
  FramesQueueMaxLength,
  NoFrame

ASSUME ReaderAssumption ==
  /\ FramesQueueMaxLength \in Nat /\ NoFrame \notin BusFrames
  /\ \A f \in BusFrames : AcceptFrame(f) \in BOOLEAN

VARIABLES
  registered,   \* the reader is among the port's handlers
  Enabled,
  Frames,
  pc,           \* the thread: "top", "get", "waiting", "handle", "stopped"
  frame,
  woken,        \* the waiting thread has been woken
  spurious      \* history: and this for no reason

vars == <<registered, Enabled, Frames, pc, frame, woken, spurious>>

TypeOK ==
  /\ registered \in BOOLEAN /\ Enabled \in BOOLEAN
  /\ woken \in BOOLEAN /\ spurious \in BOOLEAN
  /\ Frames \in Seq(BusFrames) /\ Len(Frames) <= FramesQueueMaxLength
  /\ pc \in {"top", "get", "waiting", "handle", "stopped", "undefined"}
  /\ frame \in BusFrames \cup {NoFrame}

Init ==
  /\ registered = TRUE /\ Enabled = TRUE
  /\ Frames = << >> /\ pc = "top" /\ frame = NoFrame
  /\ woken = FALSE /\ spurious = FALSE

-----------------------------------------------------------------------------
\* Mutant: frames that are not accepted notify as well.
Handle_notifyAll(f) ==
  /\ registered
  /\ Frames' = IF AcceptFrame(f) /\ Len(Frames) < FramesQueueMaxLength
               THEN Append(Frames, f) ELSE Frames
  /\ woken' = (woken \/ pc = "waiting")
  /\ UNCHANGED <<registered, Enabled, pc, frame, spurious>>

\* Mutant: a full queue makes room for the newest frame.
Handle_dropOldest(f) ==
  /\ registered /\ AcceptFrame(f)
  /\ Frames' = IF Len(Frames) < FramesQueueMaxLength THEN Append(Frames, f)
               ELSE Append(Tail(Frames), f)
  /\ woken' = (woken \/ pc = "waiting")
  /\ UNCHANGED <<registered, Enabled, pc, frame, spurious>>

\* Mutant: the limit is exceeded by one.
Handle_offByOne(f) ==
  /\ registered /\ AcceptFrame(f) /\ Len(Frames) <= FramesQueueMaxLength
  /\ Frames' = Append(Frames, f)
  /\ woken' = (woken \/ pc = "waiting")
  /\ UNCHANGED <<registered, Enabled, pc, frame, spurious>>

\* A frame that is not accepted changes nothing; one that finds the queue full
\* is dropped, although the port is told it was handled.
Handle(f) ==
  /\ registered /\ AcceptFrame(f) /\ Len(Frames) < FramesQueueMaxLength
  /\ Frames' = Append(Frames, f)
  /\ woken' = (woken \/ pc = "waiting")
  /\ UNCHANGED <<registered, Enabled, pc, frame, spurious>>

RemoveHandler ==
  /\ registered
  /\ registered' = FALSE
  /\ UNCHANGED <<Enabled, Frames, pc, frame, woken, spurious>>

\* The destructor joins next; it does not notify.
Disable ==
  /\ ~registered /\ Enabled
  /\ Enabled' = FALSE
  /\ UNCHANGED <<registered, Frames, pc, frame, woken, spurious>>

-----------------------------------------------------------------------------
LoopTop ==
  /\ pc = "top"
  /\ \/ Enabled /\ pc' = "get"
     \/ ~Enabled /\ pc' = "stopped"
  /\ UNCHANGED <<registered, Enabled, Frames, frame, woken, spurious>>

\* Mutant: the newest frame is handled first.
Pop_newest ==
  /\ frame' = Frames[Len(Frames)]
  /\ Frames' = SubSeq(Frames, 1, Len(Frames) - 1)
  /\ pc' = "handle"

Pop ==
  /\ frame' = Head(Frames)
  /\ Frames' = Tail(Frames)
  /\ pc' = "handle"

GetQueued ==
  /\ pc = "get" /\ Frames # << >>
  /\ Pop
  /\ UNCHANGED <<registered, Enabled, woken, spurious>>

GetWait ==
  /\ pc = "get" /\ Frames = << >>
  /\ pc' = "waiting" /\ woken' = FALSE /\ spurious' = FALSE
  /\ UNCHANGED <<registered, Enabled, Frames, frame>>

WakeSpuriously ==
  /\ pc = "waiting" /\ ~woken
  /\ woken' = TRUE /\ spurious' = TRUE
  /\ UNCHANGED <<registered, Enabled, Frames, pc, frame>>

\* Taking the front of an empty queue is undefined; the model stops there.
GetNotified ==
  /\ pc = "waiting" /\ woken
  /\ \/ Frames # << >> /\ Pop /\ spurious' = FALSE
     \/ Frames = << >> /\ pc' = "undefined" /\ UNCHANGED <<frame, Frames, spurious>>
  /\ woken' = FALSE
  /\ UNCHANGED <<registered, Enabled>>

\* Mutant: a plain wait, which only a notification ends.
GetTimedOut_never ==
  /\ pc = "waiting" /\ woken /\ Frames = << >>
  /\ pc' = "top" /\ woken' = FALSE
  /\ UNCHANGED <<registered, Enabled, Frames, frame, spurious>>

\* Mutant: what arrived while the wait timed out is discarded.
GetTimedOut_discard ==
  /\ pc = "waiting"
  /\ pc' = "top" /\ woken' = FALSE /\ Frames' = << >>
  /\ UNCHANGED <<registered, Enabled, frame, spurious>>

\* A frame that arrived with the time-out stays for the next Get.
GetTimedOut ==
  /\ pc = "waiting"
  /\ pc' = "top" /\ woken' = FALSE /\ spurious' = FALSE
  /\ UNCHANGED <<registered, Enabled, Frames, frame>>

\* The owner's handler returns.
HandlerReturns ==
  /\ pc = "handle"
  /\ pc' = "top" /\ frame' = NoFrame
  /\ UNCHANGED <<registered, Enabled, Frames, woken, spurious>>

-----------------------------------------------------------------------------
Thread ==
  \/ LoopTop \/ GetQueued \/ GetWait \/ GetNotified \/ GetTimedOut
  \/ HandlerReturns

Next ==
  \/ \E f \in BusFrames : Handle(f)
  \/ RemoveHandler \/ Disable \/ Thread \/ WakeSpuriously

Spec == Init /\ [][Next]_vars

\* The thread is scheduled, waits time out, and the owner's handler returns.
\* Nothing makes the wait end for no reason.
FairSpec == Spec /\ WF_vars(Thread)

-----------------------------------------------------------------------------
\* Properties.

Queue == INSTANCE LossyQueue WITH
  Frames <- {f \in BusFrames : AcceptFrame(f)},
  Capacity <- FramesQueueMaxLength, None <- NoFrame,
  queue <- Frames, handling <- frame

\* The reader keeps the promise of LossyQueue, whatever the notifications and
\* time-outs of the wait do (Handle, Get).
QueuePromise == Queue!Spec

\* The wait has no predicate, yet only a wait that ends for no reason leads to
\* the front of an empty queue, which is undefined: one consumer, and every
\* notification is sent under the mutex together with a frame (Get).
EmptyGetIsSpurious == pc = "undefined" => spurious

\* As long as frames are queued, one is handled again and again, unless the
\* reader is destroyed first: one that arrives as the wait times out is not
\* forgotten (Get).  With QueuePromise, no queued frame waits for ever.
QueuedIsHandled ==
  Frames # << >> ~> (frame # NoFrame \/ ~Enabled \/ pc = "undefined")

\* The destructor's join returns although it notifies nobody (Get's time-out).
StopsEventually == ~Enabled ~> pc \in {"stopped", "undefined"}
=============================================================================
