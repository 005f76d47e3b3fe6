---------------------------- MODULE CanPort_proofs ----------------------------
(***************************************************************************)
(* Proofs about CanPort, for any senders, handlers, traffic, number of     *)
(* Sends and receive buffer.                                               *)
(***************************************************************************)
EXTENDS CanPort, SequenceTheorems, TLAPS

\* No confirmation is in the receive buffer.
NoneIn(buffer) == \A i \in DOMAIN buffer : buffer[i] \notin Confirmation

\* Nothing is left of the Sends so far.
Settled == tx = << >> /\ NoneIn(rx)

AnyAt(places) == \E s \in Senders : at[s] \in places

\* While no Send was given up, at most one frame is between its write and the
\* reading of its confirmation, and only during its own Send's wait.  Once the
\* flag or the wake-up says that it was confirmed, there is none.
OneAtATime ==
  /\ Len(tx) <= 1
  /\ tx # << >> => NoneIn(rx)
  /\ \A i, j \in DOMAIN rx :
       rx[i] \in Confirmation /\ rx[j] \in Confirmation => i = j
  /\ ~AnyAt({"check", "wait"}) => Settled
  /\ WriteConfirmed \/ wakes = "confirmed" => Settled
  /\ AnyAt({"write"}) => ~WriteConfirmed

\* The handler called is the one at its place in the list, which stands still,
\* and is offered a frame from the bus.
InPlace ==
  listener = "call" => /\ turn \in DOMAIN Handlers /\ calling = Handlers[turn]
                       /\ offered \in Traffic

PortIInv ==
  /\ PortTypeOK
  /\ wakes # "no" => AnyAt({"wait"})
  /\ AnyAt({"write", "check", "wait"}) => sends # 0
  /\ gaveUp \/ OneAtATime
  /\ InPlace

\* A message read, and the rest of the receive buffer.
LEMMA RestOfBuffer ==
  ASSUME NEW S, NEW s \in Seq(S), s # << >>
  PROVE  /\ Head(s) = s[1] /\ Head(s) \in S /\ Tail(s) \in Seq(S)
         /\ DOMAIN s = 1 .. Len(s) /\ 1 \in DOMAIN s
         /\ DOMAIN Tail(s) = 1 .. Len(s) - 1
         /\ \A i \in DOMAIN Tail(s) : i + 1 \in DOMAIN s /\ Tail(s)[i] = s[i + 1]
OBVIOUS

\* A message that arrives.
LEMMA LongerBuffer ==
  ASSUME NEW S, NEW s \in Seq(S), NEW m \in S
  PROVE  /\ Append(s, m) \in Seq(S) /\ Append(s, m) # << >>
         /\ DOMAIN s = 1 .. Len(s)
         /\ DOMAIN Append(s, m) = 1 .. Len(s) + 1
         /\ Append(s, m)[Len(s) + 1] = m
         /\ \A i \in DOMAIN s : Append(s, m)[i] = s[i]
OBVIOUS

\* Initially the inductive invariant holds.
LEMMA PortInitStep == PortInit => PortIInv
<1> SUFFICES ASSUME PortInit PROVE PortIInv
  OBVIOUS
<1> USE DEF PortInit
<1>1. << >> \in Seq(Message) /\ << >> \in Seq(1 .. MaxSends) /\ 0 \in 0 .. MaxSends
  BY PortAssumption
<1>2. PortTypeOK
  BY <1>1 DEF PortTypeOK
<1>3. OneAtATime
  BY DEF OneAtATime, Settled, NoneIn, AnyAt
<1>4. QED
  BY <1>2, <1>3 DEF PortIInv, InPlace, AnyAt

\* Every step keeps the types.
LEMMA TypeStep == PortIInv /\ [PortNext]_portVars => PortTypeOK'
<1> SUFFICES ASSUME PortIInv, [PortNext]_portVars PROVE PortTypeOK'
  OBVIOUS
<1> USE PortAssumption DEF PortIInv, PortTypeOK
<1>1. CASE Transmit
  <2>1. /\ Head(tx) \in 1 .. MaxSends /\ tx' \in Seq(1 .. MaxSends)
    BY <1>1, RestOfBuffer DEF Transmit
  <2>2. [confirms |-> Head(tx)] \in Message
    BY <2>1 DEF Message, Confirmation
  <2>3. rx' \in Seq(Message)
    <3>1. Append(rx, [confirms |-> Head(tx)]) \in Seq(Message)
      BY <2>2, LongerBuffer, Zenon
    <3>2. QED
      BY <1>1, <3>1 DEF Transmit
  <2>4. QED
    BY <1>1, <2>1, <2>3 DEF Transmit, listenVars
<1>2. ASSUME NEW f \in Traffic, Arrive(f) PROVE PortTypeOK'
  <2>1. [received |-> f] \in Message
    BY DEF Message
  <2>2. rx' \in Seq(Message)
    BY <1>2, <2>1, LongerBuffer DEF Arrive
  <2>3. QED
    BY <1>2, <2>2 DEF Arrive, sendVars, listenVars
<1>3. ASSUME NEW s \in Senders, SendBegin(s) PROVE PortTypeOK'
  <2>1. sends' \in 0 .. MaxSends
    BY <1>3 DEF SendBegin
  <2>2. /\ at' \in [Senders -> {"idle", "write", "check", "wait"}]
        /\ \A t, u \in Senders : at'[t] # "idle" /\ at'[u] # "idle" => t = u
    BY <1>3 DEF SendBegin, WriteMutexFree
  <2>3. QED
    BY <1>3, <2>1, <2>2 DEF SendBegin, ClearFlag, others, listenVars
<1>4. ASSUME NEW s \in Senders, Write(s) PROVE PortTypeOK'
  <2>1. sends \in 1 .. MaxSends
    BY <1>4 DEF Write, AnyAt
  <2>2. Append(tx, sends) \in Seq(1 .. MaxSends)
    BY <2>1, LongerBuffer, Zenon
  <2>3. QED
    BY <1>4, <2>2 DEF Write, Goes, others, listenVars
<1>5. ASSUME NEW s \in Senders, CheckConfirmed(s) \/ Woken(s) \/ TimedOut(s)
      PROVE  PortTypeOK'
  BY <1>5 DEF CheckConfirmed, Woken, TimedOut, Goes, others, listenVars
<1>6. CASE WakeSender
  BY <1>6 DEF WakeSender, others, listenVars
<1>7. CASE ListenerTop \/ SelectTimesOut
  BY <1>7 DEF ListenerTop, SelectTimesOut, sendVars
<1>8. CASE ReadConfirmation \/ ReadFrame
  <2>1. rx # << >> => Tail(rx) \in Seq(Message)
    BY RestOfBuffer
  <2>2. QED
    BY <1>8, <2>1 DEF ReadConfirmation, ReadFrame, CallAt, Offered, sendVars
<1>9. CASE HandlerTakes \/ HandlerPasses
  BY <1>9 DEF HandlerTakes, HandlerPasses, CallAt, Offered, sendVars
<1>10. ASSUME NEW h, AddPortHandler(h) \/ RemovePortHandler(h) PROVE PortTypeOK'
  BY <1>10 DEF AddPortHandler, RemovePortHandler, sendVars, listenVars
<1>11. CASE DisablePort
  BY <1>11 DEF DisablePort, sendVars, listenVars
<1>12. CASE UNCHANGED portVars
  BY <1>12 DEF portVars, sendVars, listenVars
<1>13. QED
  BY <1>1, <1>2, <1>3, <1>4, <1>5, <1>6, <1>7, <1>8, <1>9, <1>10, <1>11, <1>12
     DEF PortNext, PortThreads, Listen, Send

\* A Send is under way in at most one place, so a wake-up finds who waits and
\* the number of the Send is known.
LEMMA PlacesStep ==
  PortIInv /\ [PortNext]_portVars =>
    /\ (wakes # "no" => AnyAt({"wait"}))'
    /\ (AnyAt({"write", "check", "wait"}) => sends # 0)'
<1> SUFFICES ASSUME PortIInv, [PortNext]_portVars
             PROVE  /\ (wakes # "no" => AnyAt({"wait"}))'
                    /\ (AnyAt({"write", "check", "wait"}) => sends # 0)'
  OBVIOUS
<1> USE DEF PortIInv, PortTypeOK, AnyAt
<1>1. ASSUME NEW s \in Senders, SendBegin(s)
      PROVE  /\ (wakes # "no" => AnyAt({"wait"}))'
             /\ (AnyAt({"write", "check", "wait"}) => sends # 0)'
  BY <1>1, PortAssumption DEF SendBegin, WriteMutexFree
<1>2. ASSUME NEW s \in Senders,
             Write(s) \/ CheckConfirmed(s) \/ Woken(s) \/ TimedOut(s)
      PROVE  /\ (wakes # "no" => AnyAt({"wait"}))'
             /\ (AnyAt({"write", "check", "wait"}) => sends # 0)'
  BY <1>2 DEF Write, CheckConfirmed, Woken, TimedOut, Goes
<1>3. CASE WakeSender
  BY <1>3 DEF WakeSender
<1>4. CASE ReadConfirmation
  BY <1>4 DEF ReadConfirmation
<1>5. CASE UNCHANGED <<wakes, at, sends>>
  BY <1>5
<1>6. QED
  BY <1>1, <1>2, <1>3, <1>4, <1>5
     DEF PortNext, PortThreads, Listen, Send, portVars, Transmit, Arrive,
         ListenerTop, SelectTimesOut, ReadFrame, HandlerTakes, HandlerPasses,
         AddPortHandler, RemovePortHandler, DisablePort, sendVars

\* Every step keeps the frames of the Sends apart.
LEMMA OneStep ==
  PortIInv /\ [PortNext]_portVars => (gaveUp \/ OneAtATime)'
<1> SUFFICES ASSUME PortIInv, [PortNext]_portVars, ~gaveUp'
             PROVE  OneAtATime'
  OBVIOUS
<1> USE DEF PortIInv, PortTypeOK, OneAtATime, Settled, AnyAt
<1>a. ~gaveUp
  BY DEF PortNext, PortThreads, Listen, Send, portVars, Transmit, Arrive,
         SendBegin, Write, CheckConfirmed, Woken, TimedOut, WakeSender,
         ListenerTop, SelectTimesOut, ReadConfirmation, ReadFrame, HandlerTakes,
         HandlerPasses, AddPortHandler, RemovePortHandler, DisablePort, sendVars
<1>1. CASE Transmit
  <2>1. Tail(tx) = << >> /\ NoneIn(rx) /\ ~WriteConfirmed /\ wakes # "confirmed"
        /\ AnyAt({"check", "wait"}) /\ ~AnyAt({"write"})
    BY <1>1, <1>a DEF Transmit
  <2>2. CASE UNCHANGED rx
    BY <1>1, <2>1, <2>2 DEF Transmit, NoneIn
  <2>3. CASE rx' = Append(rx, [confirms |-> Head(tx)])
    <3>1. \A i \in DOMAIN rx' : i \in DOMAIN rx \/ i = Len(rx) + 1
      BY <2>3
    <3>2. \A i \in DOMAIN rx : rx'[i] = rx[i]
      BY <2>3
    <3>3. \A i \in DOMAIN rx' : rx'[i] \in Confirmation => i = Len(rx) + 1
      BY <2>1, <3>1, <3>2 DEF NoneIn
    <3>4. QED
      BY <1>1, <2>1, <3>3 DEF Transmit, NoneIn
  <2>4. QED
    BY <1>1, <2>2, <2>3 DEF Transmit
<1>2. ASSUME NEW f \in Traffic, Arrive(f) PROVE OneAtATime'
  <2>1. [received |-> f] \notin Confirmation
    BY DEF Confirmation
  <2>2. \A i \in DOMAIN rx' : rx'[i] \in Confirmation =>
          i \in DOMAIN rx /\ rx[i] \in Confirmation
    BY <1>2, <2>1 DEF Arrive
  <2>3. NoneIn(rx) => NoneIn(rx')
    BY <2>2 DEF NoneIn
  <2>4. QED
    BY <1>2, <1>a, <2>2, <2>3 DEF Arrive, sendVars
<1>3. ASSUME NEW s \in Senders, SendBegin(s) PROVE OneAtATime'
  <2>1. Settled /\ UNCHANGED <<tx, rx>> /\ ~WriteConfirmed'
    BY <1>3, <1>a DEF SendBegin, WriteMutexFree, ClearFlag, others
  <2>2. QED
    BY <2>1 DEF NoneIn
<1>4. ASSUME NEW s \in Senders, Write(s) PROVE OneAtATime'
  <2>1. Settled /\ ~WriteConfirmed /\ wakes = "no" /\ UNCHANGED <<rx, WriteConfirmed, wakes>>
    BY <1>4, <1>a DEF Write, others
  <2>2. CASE UNCHANGED tx
    BY <2>1, <2>2 DEF NoneIn
  <2>3. CASE tx' = Append(tx, sends) /\ at' = [at EXCEPT ![s] = "check"]
    <3>1. Len(tx') <= 1
      BY <2>1, <2>3
    <3>2. at'[s] = "check" /\ ~AnyAt({"write"})'
      BY <1>4, <2>3 DEF Write
    <3>3. QED
      BY <2>1, <3>1, <3>2 DEF NoneIn
  <2>4. QED
    BY <1>4, <2>2, <2>3 DEF Write, Goes
<1>5. ASSUME NEW s \in Senders, CheckConfirmed(s) \/ Woken(s) PROVE OneAtATime'
  <2>1. UNCHANGED <<rx, tx, WriteConfirmed>> /\ wakes' \in {wakes, "no"}
    BY <1>5 DEF CheckConfirmed, Woken, others
  <2>2. ~AnyAt({"write"})'
    BY <1>5 DEF CheckConfirmed, Woken, Goes
  <2>3. ~AnyAt({"check", "wait"})' => Settled
    BY <1>5, <1>a DEF CheckConfirmed, IsConfirmed, Woken, Goes
  <2>4. QED
    BY <1>a, <2>1, <2>2, <2>3 DEF NoneIn
<1>6. CASE ReadConfirmation
  <2>1. 1 \in DOMAIN rx /\ rx[1] \in Confirmation
    BY <1>6 DEF ReadConfirmation, Confirms
  <2>2. tx = << >> /\ AnyAt({"check", "wait"}) /\ ~AnyAt({"write"})
    BY <1>a, <2>1 DEF NoneIn
  <2>3. NoneIn(Tail(rx))
    <3>1. \A i \in DOMAIN Tail(rx) : /\ i + 1 \in DOMAIN rx /\ i + 1 # 1
                                     /\ Tail(rx)[i] = rx[i + 1]
      BY <1>6, RestOfBuffer DEF ReadConfirmation
    <3>2. QED
      BY <1>a, <2>1, <3>1 DEF NoneIn
  <2>4. QED
    BY <1>6, <2>2, <2>3 DEF ReadConfirmation, NoneIn
<1>7. CASE ReadFrame
  <2>1. \A i \in DOMAIN Tail(rx) : i + 1 \in DOMAIN rx /\ Tail(rx)[i] = rx[i + 1]
    BY <1>7, RestOfBuffer DEF ReadFrame
  <2>2. rx' = Tail(rx) /\ UNCHANGED <<tx, WriteConfirmed, wakes, at>>
    BY <1>7 DEF ReadFrame, sendVars
  <2>3. NoneIn(rx) => NoneIn(rx')
    BY <2>1, <2>2 DEF NoneIn
  <2>4. \A i, j \in DOMAIN rx' :
          rx'[i] \in Confirmation /\ rx'[j] \in Confirmation => i = j
    <3>1. SUFFICES ASSUME NEW i \in DOMAIN Tail(rx), NEW j \in DOMAIN Tail(rx),
                          rx[i + 1] \in Confirmation, rx[j + 1] \in Confirmation
                   PROVE  i = j
      BY <2>1, <2>2
    <3>2. i + 1 = j + 1
      BY <1>a, <2>1, <3>1
    <3>3. i \in Int /\ j \in Int
      BY <1>7, RestOfBuffer DEF ReadFrame
    <3>4. QED
      BY <3>2, <3>3
  <2>5. QED
    BY <1>a, <2>2, <2>3, <2>4
<1>8. ASSUME NEW s \in Senders, TimedOut(s) PROVE OneAtATime'
  BY <1>8 DEF TimedOut
<1>9. CASE WakeSender
  BY <1>9, <1>a DEF WakeSender, others, NoneIn
<1>10. CASE UNCHANGED <<rx, tx, WriteConfirmed, wakes, at>>
  BY <1>10, <1>a DEF NoneIn
<1>11. QED
  BY <1>1, <1>2, <1>3, <1>4, <1>5, <1>6, <1>7, <1>8, <1>9, <1>10
     DEF PortNext, PortThreads, Listen, Send, portVars, ListenerTop,
         SelectTimesOut, HandlerTakes, HandlerPasses, AddPortHandler,
         RemovePortHandler, DisablePort, sendVars

\* Every step keeps the handler called in its place.
LEMMA InPlaceStep == PortIInv /\ [PortNext]_portVars => InPlace'
<1> SUFFICES ASSUME PortIInv, [PortNext]_portVars, listener' = "call"
             PROVE  /\ turn' \in DOMAIN Handlers' /\ calling' = Handlers'[turn']
                    /\ offered' \in Traffic
  BY DEF InPlace
<1> USE DEF PortIInv, InPlace
<1>0. CASE ReadFrame
  <2>1. Head(rx) \in Message \ Confirmation
    BY <1>0, RestOfBuffer DEF ReadFrame, Confirms, PortTypeOK
  <2>2. Head(rx).received \in Traffic
    BY <2>1 DEF Message
  <2>3. QED
    BY <1>0, <2>2 DEF ReadFrame, CallAt, Offered
<1>1. CASE HandlerPasses
  BY <1>1 DEF HandlerPasses, CallAt, Offered
<1>2. CASE UNCHANGED <<Handlers, listenVars>>
  BY <1>2 DEF listenVars
<1>3. QED
  BY <1>0, <1>1, <1>2
     DEF PortNext, PortThreads, Listen, Send, portVars, Transmit, Arrive,
         SendBegin, Write, CheckConfirmed, Woken, TimedOut, WakeSender, others,
         ListenerTop, SelectTimesOut, ReadConfirmation, HandlerTakes, Offered,
         AddPortHandler, RemovePortHandler, HandlersMutexFree, DisablePort,
         listenVars

\* The inductive invariant holds in every reachable state of the port.
THEOREM PortInductive == PortSpec => []PortIInv
<1>1. PortIInv /\ [PortNext]_portVars => PortIInv'
  BY TypeStep, PlacesStep, OneStep, InPlaceStep DEF PortIInv
<1>2. QED
  BY PortInitStep, <1>1, PTL DEF PortSpec

\* The state keeps its types, and at most one Send is under way (Send).
THEOREM PortTypeCorrect == PortSpec => []PortTypeOK
<1>1. PortIInv => PortTypeOK
  BY DEF PortIInv
<1>2. QED
  BY PortInductive, <1>1, PTL

\* The handler being called has not been removed (RunHandlers).
THEOREM CalledHandlerRegistered == PortSpec => []CalledIsRegistered
<1>1. PortIInv => CalledIsRegistered
  BY DEF PortIInv, InPlace, CalledIsRegistered, ToSet
<1>2. QED
  BY PortInductive, <1>1, PTL

\* A Send that returns normally was confirmed by its own frame, unless a wait
\* was given up before (Send, SetWriteConfirmed).
THEOREM SendsConfirmed == PortSpec => OwnConfirmation
<1>1. PortIInv /\ [PortNext]_portVars =>
        \A s \in Senders :
          at[s] \in {"check", "wait"} /\ at'[s] = "idle" =>
            sends \notin ToSet(tx) \/ gaveUp'
  <2> SUFFICES ASSUME PortIInv, [PortNext]_portVars, ~gaveUp', NEW s \in Senders,
                      at[s] \in {"check", "wait"}, at'[s] = "idle"
               PROVE  tx = << >>
    BY DEF ToSet
  <2> USE DEF PortIInv, PortTypeOK, OneAtATime, Settled, AnyAt
  <2>1. ASSUME NEW t \in Senders, CheckConfirmed(t) \/ Woken(t)
        PROVE  tx = << >>
    BY <2>1 DEF CheckConfirmed, IsConfirmed, Woken, Goes
  <2>2. ASSUME NEW t \in Senders, SendBegin(t) \/ Write(t) \/ TimedOut(t)
        PROVE  tx = << >>
    BY <2>2 DEF SendBegin, WriteMutexFree, Write, TimedOut, Goes
  <2>3. CASE UNCHANGED at
    BY <2>3
  <2>4. QED
    BY <2>1, <2>2, <2>3
       DEF PortNext, PortThreads, Listen, Send, portVars, Transmit, Arrive,
           WakeSender, ListenerTop, SelectTimesOut, ReadConfirmation, ReadFrame,
           HandlerTakes, HandlerPasses, AddPortHandler, RemovePortHandler,
           DisablePort, sendVars
<1>2. QED
  BY PortInductive, <1>1, PTL DEF PortSpec, OwnConfirmation
=============================================================================
