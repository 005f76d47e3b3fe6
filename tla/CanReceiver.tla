----------------------------- MODULE CanReceiver -----------------------------
(***************************************************************************)
(* The port and the reader thread that is its first handler: CanPort calls *)
(* ThreadedCanReader's Handle, and the reader's destructor removes it from *)
(* the port's list.  The handlers behind it are controllers, which may     *)
(* take what the reader leaves.                                            *)
(***************************************************************************)
EXTENDS CanPort, ThreadedCanReader

CONSTANT reader   \* the reader among InitHandlers

ASSUME ReceiverAssumption == reader \in ToSet(InitHandlers) /\ Traffic \subseteq BusFrames

ReceiverInit == PortInit /\ Init

\* The reader tells the port it took what its filter accepts, even when its
\* queue is full.
CallReader ==
  /\ calling = reader
  /\ \/ AcceptFrame(offered) /\ HandlerTakes
     \/ ~AcceptFrame(offered) /\ HandlerPasses
  /\ \/ Handle(offered)
     \/ /\ ~AcceptFrame(offered) \/ Len(Frames) >= FramesQueueMaxLength
        /\ UNCHANGED vars

CallController ==
  /\ calling # reader
  /\ HandlerTakes \/ HandlerPasses
  /\ UNCHANGED vars

\* main creates the controllers when the poller, whose reader is in the list
\* from the start here, has been created.
AddController ==
  /\ reader \in ToSet(Handlers)
  /\ \E h \in ToSet(InitHandlers) \ {reader} : AddPortHandler(h)
  /\ UNCHANGED vars

\* main destroys in reverse: the controllers, the poller with its reader, and
\* the port when the reader's thread has been joined.
RemoveController ==
  /\ \E h \in ToSet(InitHandlers) \ {reader} : RemovePortHandler(h)
  /\ UNCHANGED vars

RemoveReader ==
  /\ ToSet(Handlers) = {reader}
  /\ RemovePortHandler(reader) /\ RemoveHandler

DestroyPort ==
  /\ pc \in {"stopped", "undefined"}
  /\ DisablePort /\ UNCHANGED vars

PortStep == PortThreads /\ UNCHANGED vars

ReaderStep == (Thread \/ WakeSpuriously \/ Disable) /\ UNCHANGED portVars

ReceiverNext ==
  \/ PortStep \/ CallReader \/ CallController
  \/ AddController \/ RemoveController \/ RemoveReader \/ DestroyPort \/ ReaderStep

receiverVars == <<portVars, vars>>

ReceiverSpec == ReceiverInit /\ [][ReceiverNext]_receiverVars

\* The threads are scheduled, select and the reader's wait time out, handlers
\* return, and the bus transmits.  Nothing is fair about a Send's time-out, a
\* wake-up for no reason, traffic, or who is destroyed when.
ReceiverFairSpec ==
  /\ ReceiverSpec
  /\ WF_receiverVars(Thread /\ UNCHANGED portVars)
  /\ WF_receiverVars((Listen /\ UNCHANGED vars) \/ CallReader \/ CallController)
  /\ WF_receiverVars(Transmit /\ UNCHANGED vars)
  /\ WF_receiverVars((\E s \in Senders : Send(s)) /\ UNCHANGED vars)
=============================================================================
