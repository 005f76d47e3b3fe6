-------------------------- MODULE CanReceiver_proofs --------------------------
(***************************************************************************)
(* The reader thread alone, for any frames, filter and queue length; then  *)
(* the port and the reader together: the composition implements each of    *)
(* them, so that what is proved of either alone holds of it.               *)
(***************************************************************************)
EXTENDS CanReceiver, CanPort_proofs

Accepted == {f \in BusFrames : AcceptFrame(f)}

\* A thread that was notified finds a frame: nobody else takes one.  The
\* frame at hand is one the owner accepts, and there is one only while it is
\* handled.
IInv ==
  /\ TypeOK
  /\ Frames \in Seq(Accepted)
  /\ pc = "waiting" /\ woken /\ ~spurious => Frames # << >>
  /\ frame # NoFrame <=> pc = "handle"
  /\ frame \in Accepted \cup {NoFrame}
  /\ EmptyGetIsSpurious

\* The front and the rest of a queue that is not empty.
LEMMA PopSeq ==
  ASSUME NEW S, NEW s \in Seq(S), s # << >>
  PROVE  Head(s) \in S /\ Tail(s) \in Seq(S) /\ Len(Tail(s)) <= Len(s)
OBVIOUS

\* Initially the inductive invariant holds.
LEMMA InitStep == Init => IInv
<1> SUFFICES ASSUME Init
             PROVE  IInv
  OBVIOUS
<1>1. /\ << >> \in Seq(BusFrames) /\ << >> \in Seq(Accepted)
      /\ Len(<< >>) = 0 /\ 0 <= FramesQueueMaxLength
  BY ReaderAssumption
<1>2. QED
  BY <1>1 DEF Init, IInv, TypeOK, EmptyGetIsSpurious

\* Every step keeps the inductive invariant.
LEMMA NextStep == IInv /\ [Next]_vars => IInv'
<1> SUFFICES ASSUME IInv, [Next]_vars
             PROVE  IInv'
  OBVIOUS
<1> USE DEF IInv, TypeOK, EmptyGetIsSpurious
<1>a. /\ NoFrame \notin BusFrames /\ FramesQueueMaxLength \in Nat
      /\ Accepted \subseteq BusFrames
  BY ReaderAssumption DEF Accepted
<1>b. Frames # << >> => /\ Head(Frames) \in Accepted
                        /\ Tail(Frames) \in Seq(Accepted)
                        /\ Tail(Frames) \in Seq(BusFrames)
                        /\ Len(Tail(Frames)) <= FramesQueueMaxLength
  <2> SUFFICES ASSUME Frames # << >>
               PROVE  /\ Head(Frames) \in Accepted
                      /\ Tail(Frames) \in Seq(Accepted)
                      /\ Tail(Frames) \in Seq(BusFrames)
                      /\ Len(Tail(Frames)) <= FramesQueueMaxLength
    OBVIOUS
  <2>1. Head(Frames) \in Accepted /\ Tail(Frames) \in Seq(Accepted)
    BY PopSeq
  <2>2. Tail(Frames) \in Seq(BusFrames) /\ Len(Tail(Frames)) <= Len(Frames)
    BY PopSeq
  <2>3. QED
    BY <2>1, <2>2, <1>a
<1>1. ASSUME NEW f \in BusFrames, Handle(f)
      PROVE  IInv'
  <2>1. f \in Accepted
    BY <1>1 DEF Handle, Accepted
  <2>2. /\ Append(Frames, f) \in Seq(Accepted)
        /\ Append(Frames, f) \in Seq(BusFrames)
        /\ Append(Frames, f) # << >>
        /\ Len(Append(Frames, f)) = Len(Frames) + 1
    BY <2>1, AppendProperties
  <2>3. Len(Frames) + 1 <= FramesQueueMaxLength
    BY <1>1, <1>a DEF Handle
  <2>4. QED
    BY <1>1, <2>2, <2>3 DEF Handle
<1>2. CASE RemoveHandler
  BY <1>2 DEF RemoveHandler
<1>3. CASE Disable
  BY <1>3 DEF Disable
<1>4. CASE LoopTop
  BY <1>4 DEF LoopTop
<1>5. CASE GetQueued
  BY <1>5, <1>a, <1>b DEF GetQueued, Pop
<1>6. CASE GetWait
  BY <1>6 DEF GetWait
<1>7. CASE GetNotified
  <2>1. CASE Frames # << >>
    BY <1>7, <2>1, <1>a, <1>b DEF GetNotified, Pop
  <2>2. CASE Frames = << >>
    <3>1. spurious
      BY <1>7, <2>2 DEF GetNotified
    <3>2. QED
      BY <1>7, <2>2, <3>1 DEF GetNotified
  <2>3. QED
    BY <2>1, <2>2
<1>8. CASE GetTimedOut
  BY <1>8 DEF GetTimedOut
<1>9. CASE HandlerReturns
  BY <1>9 DEF HandlerReturns
<1>10. CASE WakeSpuriously
  BY <1>10 DEF WakeSpuriously
<1>11. CASE UNCHANGED vars
  BY <1>11 DEF vars
<1>12. QED
  BY <1>1, <1>2, <1>3, <1>4, <1>5, <1>6, <1>7, <1>8, <1>9, <1>10, <1>11
  DEF Next, Thread

\* The inductive invariant holds throughout.
THEOREM Inductive == Spec => []IInv
BY InitStep, NextStep, PTL DEF Spec

\* The variables keep their types: the queue stays within its limit.
THEOREM TypeCorrect == Spec => []TypeOK
<1>1. IInv => TypeOK
  BY DEF IInv
<1>2. QED
  BY Inductive, <1>1, PTL

\* Notifications and time-outs never lead to the front of an empty queue,
\* although the wait has no predicate: a notification comes with a frame and
\* there is one consumer (Get).
THEOREM EmptyOnlySpuriously == Spec => []EmptyGetIsSpurious
<1>1. IInv => EmptyGetIsSpurious
  BY DEF IInv
<1>2. QED
  BY Inductive, <1>1, PTL

\* Every step of the reader is a step of the lossy queue, or none.
LEMMA QueueStep == IInv /\ [Next]_vars => [Queue!Next]_Queue!vars
<1> SUFFICES ASSUME IInv, [Next]_vars
             PROVE  [Queue!Next]_Queue!vars
  OBVIOUS
<1>1. ASSUME NEW f \in BusFrames, Handle(f)
      PROVE  [Queue!Next]_Queue!vars
  BY <1>1 DEF Handle, Queue!Next, Queue!Offer
<1>2. CASE GetQueued
  BY <1>2 DEF GetQueued, Pop, IInv, Queue!Next, Queue!Take
<1>3. CASE GetNotified
  BY <1>3 DEF GetNotified, Pop, IInv, Queue!Next, Queue!Take, Queue!vars
<1>4. CASE HandlerReturns
  BY <1>4 DEF HandlerReturns, IInv, Queue!Next, Queue!Done
<1>5. CASE UNCHANGED <<Frames, frame>>
  BY <1>5 DEF Queue!vars
<1>6. QED
  BY <1>1, <1>2, <1>3, <1>4, <1>5
  DEF Next, Thread, RemoveHandler, Disable, LoopTop, GetWait, GetTimedOut,
      WakeSpuriously, vars

\* The reader implements the lossy queue the gateway is built on: accepted
\* frames reach the owner in order, at most once, and are lost only when the
\* queue is full (Handle, Get).
THEOREM QueueImplemented == Spec => QueuePromise
<1>1. Init => Queue!Init
  BY DEF Init, Queue!Init
<1>2. Spec => Queue!Init /\ [][Queue!Next]_Queue!vars
  BY Inductive, <1>1, QueueStep, PTL DEF Spec
<1>3. QED
  BY <1>2 DEF QueuePromise, Queue!Spec

-----------------------------------------------------------------------------
\* To the port, a step of the composition is one of its own or none.
LEMMA PortStepInside ==
  ASSUME [ReceiverNext]_receiverVars
  PROVE  [PortNext]_portVars
<1>1. CASE AddController \/ RemoveController \/ RemoveReader
  BY <1>1, ReceiverAssumption
     DEF AddController, RemoveController, RemoveReader, PortNext
<1>2. CASE CallReader \/ CallController
  BY <1>2 DEF CallReader, CallController, PortNext
<1>3. CASE PortStep \/ DestroyPort
  BY <1>3 DEF PortStep, DestroyPort, PortNext
<1>4. CASE ReaderStep \/ UNCHANGED receiverVars
  BY <1>4 DEF ReaderStep, receiverVars
<1>5. QED
  BY <1>1, <1>2, <1>3, <1>4 DEF ReceiverNext

\* The composition implements the port for any handlers, the reader among
\* them (RunHandlers).
THEOREM ImplementsPort == ReceiverSpec => PortSpec
<1>1. ReceiverInit => PortInit
  BY DEF ReceiverInit
<1>2. QED
  BY <1>1, PortStepInside, PTL DEF ReceiverSpec, PortSpec

\* To the reader, a step of the composition is one of its own or none: it is
\* called with a frame from the bus and removed once.
LEMMA ReaderStepInside ==
  ASSUME InPlace, [ReceiverNext]_receiverVars
  PROVE  [Next]_vars
<1>1. CASE CallReader
  <2>1. offered \in BusFrames
    BY <1>1, ReceiverAssumption
       DEF CallReader, InPlace, HandlerTakes, HandlerPasses
  <2>2. QED
    BY <1>1, <2>1 DEF CallReader, Next
<1>2. CASE RemoveReader
  BY <1>2 DEF RemoveReader, Next
<1>3. CASE ReaderStep
  BY <1>3 DEF ReaderStep, Next
<1>4. CASE UNCHANGED vars
  BY <1>4
<1>5. QED
  BY <1>1, <1>2, <1>3, <1>4
     DEF ReceiverNext, receiverVars, PortStep, CallController, AddController,
         RemoveController, DestroyPort

\* The composition implements the reader for any frames offered to it
\* (RunHandlers, Handle).
THEOREM ImplementsReader == ReceiverSpec => Spec
<1>1. ReceiverInit => Init
  BY DEF ReceiverInit
<1>2. PortIInv => InPlace
  BY DEF PortIInv
<1>3. ReceiverSpec => []PortIInv
  BY ImplementsPort, PortInductive, PTL
<1>4. QED
  BY <1>1, <1>2, <1>3, ReaderStepInside, PTL DEF ReceiverSpec, Spec

\* What the gateway is built on holds in the composition: accepted frames
\* reach it in order and at most once although the port's mutex, other
\* handlers and destruction come between (RunHandlers, Handle, Get).
THEOREM ReceiverKeepsPromise == ReceiverSpec => QueuePromise
BY ImplementsReader, QueueImplemented, PTL

\* A handler called is still registered, in the composition too.
THEOREM ReceiverCallsRegistered == ReceiverSpec => []CalledIsRegistered
BY ImplementsPort, CalledHandlerRegistered, PTL
=============================================================================
