------------------------------- MODULE CanPort -------------------------------
(***************************************************************************)
(* TCanPort (src/src/CanPort.cpp): threads send frames, each Send waiting  *)
(* until the listener has read the frame's confirmation back from the      *)
(* socket; the listener offers every other frame to the handlers in turn.  *)
(*                                                                         *)
(* WriteMutex is held for a whole Send, HandlersMutex while one frame is   *)
(* offered; WriteConfirmMutex only for one look or one assignment, so each *)
(* of those is one step.  The wait may time out at any moment              *)
(* (WRITE_TIMEOUT is left out) and may end for no reason.  Names begin     *)
(* with Port where a module that EXTENDS this one has its own.             *)
(***************************************************************************)
EXTENDS Sequences, SequencesExt, Naturals

CONSTANTS
  Senders,       \* the threads that call Send
  InitHandlers,  \* the handlers there may be, in the order of the list
  Traffic,       \* the frames others put on the bus
  MaxSends,      \* bound: Sends in all
  RxLength,      \* bound: the socket's receive buffer
  Nobody

Confirmation == [confirms : 1 .. MaxSends]
Message == Confirmation \cup [received : Traffic]

ASSUME PortAssumption == MaxSends \in Nat /\ RxLength \in Nat

VARIABLES
  Handlers,
  rx,              \* the socket's receive buffer
  tx,              \* frames written and not yet transmitted, by their Send
  WriteConfirmed,
  at,              \* each sender: "idle", "write", "check", "wait"
  sends,           \* the number of the last Send
  wakes,           \* what ended the wait: "no", "confirmed", "spurious"
  gaveUp,          \* history: a wait timed out or ended for no reason
  lost,            \* history: the buffer was too full for a confirmation
  listener,        \* "top", "select", "call", "stopped"
  offered, turn,   \* the frame on offer; the place of the handler called
  calling,         \* that handler, or Nobody
  PortEnabled

sendVars == <<tx, WriteConfirmed, at, sends, wakes, gaveUp>>
listenVars == <<listener, offered, turn, calling>>
portVars == <<Handlers, rx, sendVars, lost, listenVars, PortEnabled>>

PortTypeOK ==
  /\ rx \in Seq(Message) /\ tx \in Seq(1 .. MaxSends)
  /\ WriteConfirmed \in BOOLEAN
  /\ at \in [Senders -> {"idle", "write", "check", "wait"}]
  /\ \A s, t \in Senders : at[s] # "idle" /\ at[t] # "idle" => s = t
  /\ sends \in 0 .. MaxSends
  /\ wakes \in {"no", "confirmed", "spurious"}
  /\ gaveUp \in BOOLEAN /\ lost \in BOOLEAN
  /\ listener \in {"top", "select", "call", "stopped"}
  /\ PortEnabled \in BOOLEAN

PortInit ==
  /\ Handlers = InitHandlers
  /\ rx = << >> /\ tx = << >> /\ WriteConfirmed = FALSE
  /\ at = [s \in Senders |-> "idle"] /\ sends = 0 /\ wakes = "no"
  /\ gaveUp = FALSE /\ lost = FALSE
  /\ listener = "top" /\ offered = Nobody /\ turn = 0 /\ calling = Nobody
  /\ PortEnabled = TRUE

-----------------------------------------------------------------------------
\* The bus and the kernel.  A frame that was transmitted comes back marked as
\* this socket's own; what finds the receive buffer full is dropped.

Transmit ==
  /\ tx # << >>
  /\ tx' = Tail(tx)
  /\ \/ Len(rx) < RxLength /\ rx' = Append(rx, [confirms |-> Head(tx)])
                           /\ UNCHANGED lost
     \/ Len(rx) >= RxLength /\ lost' = TRUE /\ UNCHANGED rx
  /\ UNCHANGED <<Handlers, WriteConfirmed, at, sends, wakes, gaveUp, listenVars,
                 PortEnabled>>

Arrive(f) ==
  /\ Len(rx) < RxLength
  /\ rx' = Append(rx, [received |-> f])
  /\ UNCHANGED <<Handlers, sendVars, lost, listenVars, PortEnabled>>

-----------------------------------------------------------------------------
\* Send.

others == <<Handlers, rx, lost, listenVars, PortEnabled>>

\* Mutant: nobody takes WriteMutex.
WriteMutexFree_never == TRUE

WriteMutexFree == \A s \in Senders : at[s] = "idle"

\* Mutant: the previous Send's flag is left set.
ClearFlag_not == UNCHANGED WriteConfirmed

ClearFlag == WriteConfirmed' = FALSE

SendBegin(s) ==
  /\ PortEnabled /\ sends < MaxSends
  /\ WriteMutexFree /\ at[s] = "idle"
  /\ ClearFlag
  /\ at' = [at EXCEPT ![s] = "write"] /\ sends' = sends + 1
  /\ UNCHANGED <<others, tx, wakes, gaveUp>>

Goes(s, place) == at' = [at EXCEPT ![s] = place]

Write(s) ==
  /\ at[s] = "write"
  /\ \/ tx' = Append(tx, sends) /\ Goes(s, "check")
     \/ UNCHANGED tx /\ Goes(s, "idle")             \* "CAN write error"
  /\ UNCHANGED <<others, WriteConfirmed, sends, wakes, gaveUp>>

\* Mutant: the wait begins without a look at the flag.
IsConfirmed_never == FALSE

IsConfirmed == WriteConfirmed

CheckConfirmed(s) ==
  /\ at[s] = "check"
  /\ Goes(s, IF IsConfirmed THEN "idle" ELSE "wait")
  /\ UNCHANGED <<others, tx, WriteConfirmed, sends, wakes, gaveUp>>

\* The wait has no predicate: whatever ends it in time counts as success.
Woken(s) ==
  /\ at[s] = "wait" /\ wakes # "no"
  /\ Goes(s, "idle") /\ wakes' = "no"
  /\ gaveUp' = (gaveUp \/ wakes = "spurious")
  /\ UNCHANGED <<others, tx, WriteConfirmed, sends>>

\* Also when the confirmation comes at the last moment.
TimedOut(s) ==
  /\ at[s] = "wait"
  /\ Goes(s, "idle") /\ wakes' = "no"
  /\ gaveUp' = TRUE
  /\ UNCHANGED <<others, tx, WriteConfirmed, sends>>

WakeSender ==
  /\ \E s \in Senders : at[s] = "wait"
  /\ wakes = "no" /\ wakes' = "spurious"
  /\ UNCHANGED <<others, tx, WriteConfirmed, at, sends, gaveUp>>

-----------------------------------------------------------------------------
\* The listener: ThreadFn.

ListenerTop ==
  /\ listener = "top"
  /\ listener' = IF PortEnabled THEN "select" ELSE "stopped"
  /\ UNCHANGED <<Handlers, rx, sendVars, lost, offered, turn, calling,
                 PortEnabled>>

\* Mutant: select waits for a frame for ever.
SelectTimesOut_never == listener = "select" /\ UNCHANGED portVars

\* One second without a frame.
SelectTimesOut ==
  /\ listener = "select" /\ rx = << >>
  /\ listener' = "top"
  /\ UNCHANGED <<Handlers, rx, sendVars, lost, offered, turn, calling,
                 PortEnabled>>

\* Mutant: every frame read confirms the Send.
Confirms_any(m) == TRUE

\* MSG_CONFIRM
Confirms(m) == m \in Confirmation

\* recvmsg and SetWriteConfirmed
ReadConfirmation ==
  /\ listener = "select" /\ rx # << >> /\ Confirms(Head(rx))
  /\ rx' = Tail(rx)
  /\ WriteConfirmed' = TRUE
  /\ wakes' = IF wakes = "no" /\ \E s \in Senders : at[s] = "wait"
              THEN "confirmed" ELSE wakes
  /\ listener' = "top"
  /\ UNCHANGED <<Handlers, tx, at, sends, gaveUp, lost, offered, turn, calling,
                 PortEnabled>>

Offered ==
  /\ listener' = "top" /\ offered' = Nobody /\ turn' = 0 /\ calling' = Nobody

\* The handler at place i is called, or none is left and the frame is dropped.
CallAt(i, f) ==
  \/ /\ i \in DOMAIN Handlers
     /\ listener' = "call" /\ offered' = f /\ turn' = i /\ calling' = Handlers[i]
  \/ i \notin DOMAIN Handlers /\ Offered

\* recvmsg; RunHandlers takes HandlersMutex and calls the first handler.
ReadFrame ==
  /\ listener = "select" /\ rx # << >> /\ ~Confirms(Head(rx))
  /\ rx' = Tail(rx)
  /\ CallAt(1, Head(rx).received)
  /\ UNCHANGED <<Handlers, sendVars, lost, PortEnabled>>

\* Handle returns TRUE, or returns FALSE or throws and the next is called.
HandlerTakes ==
  /\ listener = "call" /\ Offered
  /\ UNCHANGED <<Handlers, rx, sendVars, lost, PortEnabled>>

HandlerPasses ==
  /\ listener = "call" /\ CallAt(turn + 1, offered)
  /\ UNCHANGED <<Handlers, rx, sendVars, lost, PortEnabled>>

-----------------------------------------------------------------------------
\* The owners of handlers and of the port.

\* Mutant: RunHandlers calls the handlers without HandlersMutex.
HandlersMutexFree_never == TRUE

HandlersMutexFree == listener # "call"

AddPortHandler(h) ==
  /\ PortEnabled /\ HandlersMutexFree
  /\ h \notin ToSet(Handlers)
  /\ Handlers' = Append(Handlers, h)
  /\ UNCHANGED <<rx, sendVars, lost, listenVars, PortEnabled>>

RemovePortHandler(h) ==
  /\ HandlersMutexFree
  /\ h \in ToSet(Handlers)
  /\ Handlers' = SelectSeq(Handlers, LAMBDA g : g # h)
  /\ UNCHANGED <<rx, sendVars, lost, listenVars, PortEnabled>>

\* The destructor joins next.  The port is shared, so nobody sends any more and
\* no handler is left.
DisablePort ==
  /\ PortEnabled /\ Handlers = << >> /\ \A s \in Senders : at[s] = "idle"
  /\ PortEnabled' = FALSE
  /\ UNCHANGED <<Handlers, rx, sendVars, lost, listenVars>>

-----------------------------------------------------------------------------
\* What a thread does in Send on its own, without the time-out.
Send(s) == Write(s) \/ CheckConfirmed(s) \/ Woken(s)

Listen ==
  ListenerTop \/ SelectTimesOut \/ ReadConfirmation \/ ReadFrame

PortThreads ==
  \/ Transmit \/ WakeSender \/ Listen
  \/ \E f \in Traffic : Arrive(f)
  \/ \E s \in Senders : SendBegin(s) \/ Send(s) \/ TimedOut(s)

PortNext ==
  \/ PortThreads \/ HandlerTakes \/ HandlerPasses \/ DisablePort
  \/ \E h \in ToSet(InitHandlers) : AddPortHandler(h) \/ RemovePortHandler(h)

PortSpec == PortInit /\ [][PortNext]_portVars

-----------------------------------------------------------------------------
\* Properties.

\* A Send that returns normally was confirmed by its own frame's transmission,
\* unless a wait, this one or an earlier one, was given up or ended for no
\* reason: only then is a confirmation left over that the flag, which does not
\* say whose it is, takes for the next frame's (Send, SetWriteConfirmed).
OwnConfirmation ==
  [][\A s \in Senders :
       at[s] \in {"check", "wait"} /\ at'[s] = "idle" =>
         sends \notin ToSet(tx) \/ gaveUp']_portVars

\* The handler being called has not been removed, so its owner, who destroys
\* what RemoveHandler has returned for, is not in its way (RunHandlers).
CalledIsRegistered == listener = "call" => calling \in ToSet(Handlers)

\* A Send needs its time-out only if the socket lost a confirmation: one that
\* comes before the wait begins is found by the look at the flag, and neither
\* the handlers nor the other senders keep the listener from reading it.
SendEnds ==
  \A s \in Senders : at[s] = "write" ~> (at[s] = "idle" \/ lost)

\* The destructor's join returns although the listener is not notified.
ListenerStops == ~PortEnabled ~> listener = "stopped"
=============================================================================
