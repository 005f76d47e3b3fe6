----------------------- MODULE VirtualController_proofs -----------------------
(***************************************************************************)
(* Proofs about VirtualController, for every value of its constants.       *)
(***************************************************************************)
EXTENDS VirtualController, FiniteSetTheorems, SequenceTheorems, TLAPS

USE DEF vars, clockVars, ownerVars, queueVars, taskVars, driverVars

-----------------------------------------------------------------------------
\* Lemmas about the operators of the model.

\* Narrowing always yields a 16-bit value.
LEMMA ToInt16Type ==
  ASSUME NEW i \in Int
  PROVE  ToInt16(i) \in Int16
BY DEF ToInt16, Int16

\* A reading is encoded in 16 bits, whatever it is.
LEMMA FromDoubleType ==
  ASSUME NEW r \in Int
  PROVE  FromDouble(r) \in Int16
<1>1. TruncDiv(r, 10) \in Int
  BY DEF TruncDiv
<1>2. QED
  BY <1>1, ToInt16Type DEF FromDouble

\* The channel number fits as well.
LEMMA ChannelNumberType == ChannelNumber \in Int16
<1>1. Cardinality(DOMAIN ParameterMapping) \in Nat
  BY ConstantsAssumption, FS_CardinalityType
<1>2. QED
  BY <1>1, ConstantsAssumption DEF ChannelNumber, Int16

\* A deadline never lies past the horizon, and the timers stay in TimePoint.
LEMMA DeadlineType ==
  ASSUME now \in START .. MaxTime, NEW d \in Nat
  PROVE  Deadline(d) \in 0 .. MaxTime
BY ConstantsAssumption DEF Deadline, START

LEMMA TimerType ==
  ASSUME now \in START .. MaxTime
  PROVE  /\ now \in TimePoint
         /\ now + KEEP_ALIVE_INTERVAL \in TimePoint
         /\ now + CONNECTION_TIMEOUT \in TimePoint
         /\ now + SEND_MESSAGES_TIME \in TimePoint
         /\ now + SEND_MESSAGES_INTERVAL \in TimePoint
BY ConstantsAssumption, DurationsAssumption DEF TimePoint, START

\* What the front and the rest of a queue are when a frame precedes it.
LEMMA ConsSeq ==
  ASSUME NEW S, NEW x \in S, NEW s \in Seq(S)
  PROVE  /\ <<x>> \o s \in Seq(S)
         /\ <<x>> \o s # << >>
         /\ Head(<<x>> \o s) = x
         /\ Tail(<<x>> \o s) = s
<1>1. <<x>> \in Seq(S) /\ Len(<<x>>) = 1
  OBVIOUS
<1>2. /\ <<x>> \o s \in Seq(S)
      /\ Len(<<x>> \o s) = 1 + Len(s)
      /\ \A i \in 1 .. 1 + Len(s) :
           (<<x>> \o s)[i] = IF i <= 1 THEN <<x>>[i] ELSE s[i - 1]
  BY <1>1, ConcatProperties
<1>3. <<x>> \o s # << >> /\ Head(<<x>> \o s) = x
  BY <1>2
<1>4. Tail(<<x>> \o s) = s
  <2>1. /\ Tail(<<x>> \o s) \in Seq(S)
        /\ Len(Tail(<<x>> \o s)) = Len(s)
        /\ \A i \in 1 .. Len(s) : Tail(<<x>> \o s)[i] = (<<x>> \o s)[i + 1]
    BY <1>2, <1>3
  <2>2. \A i \in 1 .. Len(s) : Tail(<<x>> \o s)[i] = s[i]
    BY <1>2, <2>1
  <2>3. QED
    BY <2>1, <2>2, SeqEqual
<1>5. QED
  BY <1>2, <1>3, <1>4

\* Taking the front frame out and putting it before the rest changes nothing.
LEMMA HeadTailSeq ==
  ASSUME NEW S, NEW s \in Seq(S), s # << >>
  PROVE  /\ Head(s) \in S
         /\ Tail(s) \in Seq(S) /\ Len(Tail(s)) <= Len(s)
         /\ <<Head(s)>> \o Tail(s) = s
<1>1. Head(s) \in S /\ Tail(s) \in Seq(S) /\ Len(Tail(s)) = Len(s) - 1
  OBVIOUS
<1>2. <<Head(s)>> \o Tail(s) = s
  <2>1. <<Head(s)>> \in Seq(S) /\ Len(<<Head(s)>>) = 1
    BY <1>1
  <2>2. /\ <<Head(s)>> \o Tail(s) \in Seq(S)
        /\ Len(<<Head(s)>> \o Tail(s)) = Len(s)
        /\ \A i \in 1 .. Len(s) : (<<Head(s)>> \o Tail(s))[i] =
             IF i <= 1 THEN <<Head(s)>>[i] ELSE Tail(s)[i - 1]
    BY <1>1, <2>1, ConcatProperties
  <2>3. \A i \in 1 .. Len(s) : (<<Head(s)>> \o Tail(s))[i] = s[i]
    BY <1>1, <2>2
  <2>4. QED
    BY <2>2, <2>3, SeqEqual
<1>3. QED
  BY <1>1, <1>2

\* A frame queued behind others is behind them whether or not the first has
\* already been taken out.
LEMMA AppendConsSeq ==
  ASSUME NEW S, NEW x \in S, NEW s \in Seq(S), NEW y \in S
  PROVE  Append(<<x>> \o s, y) = <<x>> \o Append(s, y)
<1>1. <<x>> \in Seq(S) /\ <<y>> \in Seq(S)
  OBVIOUS
<1>2. Append(<<x>> \o s, y) = (<<x>> \o s) \o <<y>>
  BY <1>1, ConsSeq, AppendIsConcat
<1>3. Append(s, y) = s \o <<y>>
  BY AppendIsConcat
<1>4. QED
  BY <1>1, <1>2, <1>3, ConcatAssociative

-----------------------------------------------------------------------------
\* The inductive invariant.

AtRest == {"startup", "loop", "waiting", "outputs", "sendOutput", "iamhere",
           "sendIAmHere", "stopped", "undefined"}

Reading == pc \in {"checkTiming", "readControl"}

\* The frame under way and the channel counter at each control point.
TaskInv ==
  /\ pc \in AtRest => frame = NoFrame
  /\ pc \in {"request", "reply", "sendReply"} => frame \in Frame
  /\ pc \notin {"outputs", "checkTiming", "readControl", "sendOutput"}
       => idx = CONTROLLER_OUTPUT_MAX
  /\ pc = "sendOutput" => ForOutput
  /\ Reading /\ ~ForOutput =>
       /\ frame \in Frame /\ GetsParameter(frame)
       /\ frame.parameter.raw_info \in DOMAIN ParameterMapping
  /\ Reading /\ ForOutput => frame = NoFrame
  /\ pc = "reply" => \/ IsController(frame, GET_CHANNEL_NUMBER)
                     \/ IsController(frame, GET_CONTROLLER_TYPE)
                     \/ GetsParameter(frame)
  /\ pc = "sendReply" => Answerable(frame)

\* A channel's window is opened together with its mapping point.
ChannelInv ==
  \A ch \in Channels :
    \/ channel[ch].mapping_point = NoPoint /\ channel[ch].SendEndTimePoint = 0
    \/ /\ channel[ch].mapping_point \in MappingPoint
       /\ channel[ch].mapping_point.hostID = ProgramId
       /\ channel[ch].mapping_point.channelID = ch

\* An output that is being read or sent has passed OutputDue.
OutputInv ==
  (Reading \/ pc = "sendOutput") /\ ForOutput =>
    /\ OutputMapping[idx] \in Controls
    /\ channel[idx].mapping_point # NoPoint

IInv == TypeOK /\ TaskInv /\ ChannelInv /\ OutputInv

\* Every step keeps the variables in their types.
LEMMA TypeStep == IInv /\ [Next]_vars => TypeOK'
<1> SUFFICES ASSUME IInv, [Next]_vars
             PROVE  TypeOK'
  OBVIOUS
<1>a. TypeOK /\ TaskInv /\ OutputInv
  BY DEF IInv
<1>b. /\ now \in TimePoint
      /\ now + KEEP_ALIVE_INTERVAL \in TimePoint
      /\ now + CONNECTION_TIMEOUT \in TimePoint
      /\ now + SEND_MESSAGES_TIME \in TimePoint
      /\ now + SEND_MESSAGES_INTERVAL \in TimePoint
  BY <1>a, TimerType DEF TypeOK
<1>c. /\ Deadline(READ_TIMEOUT) \in 0 .. MaxTime
      /\ Deadline(SEND_TIMEOUT) \in 0 .. MaxTime
  BY <1>a, DeadlineType, DurationsAssumption DEF TypeOK
<1>d. SENSOR_UNDEFINED \in Int16
  BY DEF SENSOR_UNDEFINED, Int16
<1>e. Reading => MqttChannel \in Controls
  BY <1>a, ConstantsAssumption DEF TaskInv, OutputInv, MqttChannel
<1>f. CanFrames # << >> => /\ Head(CanFrames) \in Frame
                         /\ Tail(CanFrames) \in Seq(Frame)
                         /\ Len(Tail(CanFrames)) <= MaxBacklog
  BY <1>a, HeadTailSeq, ConstantsAssumption DEF TypeOK
<1>1. ASSUME NEW f \in BusFrames,
             HandlePush(f)
      PROVE  TypeOK'
  BY <1>1, <1>a, ConstantsAssumption
  DEF TypeOK, HandlePush
<1>2. CASE HandleNotify
  BY <1>2, <1>a
  DEF TypeOK, HandleNotify, Waiting
<1>3. CASE RemoveHandler
  BY <1>3, <1>a
  DEF TypeOK, RemoveHandler
<1>4. CASE Disable
  BY <1>4, <1>a
  DEF TypeOK, Disable
<1>5. CASE OnControlValue
  BY <1>5, <1>a, <1>b
  DEF TypeOK, OnControlValue
<1>6. ASSUME NEW c \in Controls,
             Fail(c)
      PROVE  TypeOK'
  BY <1>6, <1>a
  DEF TypeOK, Fail
<1>7. ASSUME NEW c \in Controls, NEW r \in Readings,
             Publish(c, r)
      PROVE  TypeOK'
  BY <1>7, <1>a, <1>b, ConstantsAssumption
  DEF TypeOK, Publish
<1>8. CASE StartTask
  BY <1>8, <1>a, <1>b
  DEF TypeOK, StartTask
<1>9. CASE LoopExit
  BY <1>9, <1>a
  DEF TypeOK, LoopExit
<1>10. CASE SelectQueued
  BY <1>10, <1>a, <1>f
  DEF TypeOK, SelectQueued, PopFrame
<1>11. CASE SelectWait
  BY <1>11, <1>a, <1>c
  DEF TypeOK, SelectWait
<1>12. CASE SelectNotified
  <2>1. until' \in 0 .. MaxTime
    BY <1>12, ConstantsAssumption DEF SelectNotified
  <2>2. CASE CanFrames # << >> /\ PopFrame
    BY <1>12, <2>1, <2>2, <1>a, <1>f DEF TypeOK, SelectNotified, PopFrame
  <2>3. CASE /\ CanFrames = << >>
             /\ pc' = "undefined" /\ UNCHANGED <<frame, CanFrames>>
    BY <1>12, <2>1, <2>3, <1>a DEF TypeOK, SelectNotified
  <2>4. QED
    BY <1>12, <2>2, <2>3 DEF SelectNotified
<1>13. CASE SelectTimedOut
  <2>1. until' \in 0 .. MaxTime
    BY <1>13, ConstantsAssumption DEF SelectTimedOut
  <2>2. QED
    BY <1>13, <2>1, <1>a DEF TypeOK, SelectTimedOut
<1>14. CASE NothingReceived
  BY <1>14, <1>a, ConstantsAssumption
  DEF TypeOK, NothingReceived
<1>15. CASE FrameReceived
  BY <1>15, <1>a, <1>b
  DEF TypeOK, FrameReceived
<1>16. CASE GetChannelNumber
  BY <1>16, <1>a, ChannelNumberType
  DEF TypeOK, GetChannelNumber
<1>17. CASE GetControllerType
  BY <1>17, <1>a
  DEF TypeOK, GetControllerType, CONTROLLER_TYPE, Int16
<1>18. CASE GetParameterValue
  BY <1>18, <1>a, <1>d
  DEF TypeOK, GetParameterValue
<1>19. CASE IAmHereRequested
  BY <1>19, <1>a, <1>b, <1>c
  DEF TypeOK, IAmHereRequested
<1>20. CASE GetOutputValue
  <2> DEFINE ch == frame.mapping_point.channelID
  <2>1. frame \in Frame /\ ch \in Channels /\ frame.mapping_point \in MappingPoint
    BY <1>20, <1>a, ConstantsAssumption
    DEF GetOutputValue, TaskInv, GetsOutput, Frame, MappingPoint, Channels
  <2> DEFINE Output == [SendTimePoint : TimePoint, SendEndTimePoint : TimePoint,
                        LastSendTimePoint : TimePoint,
                        mapping_point : MappingPoint \cup {NoPoint}]
             fresh == [channel[ch] EXCEPT
                         !.SendTimePoint = now,
                         !.SendEndTimePoint = now + SEND_MESSAGES_TIME,
                         !.mapping_point = frame.mapping_point]
  <2>2. channel \in [Channels -> Output]
    BY <1>a DEF TypeOK
  <2>3. fresh \in Output
    BY <1>b, <2>1, <2>2
  <2>4. channel' = channel \/ channel' = [channel EXCEPT ![ch] = fresh]
    BY <1>20 DEF GetOutputValue
  <2>5. channel' \in [Channels -> Output]
    <3> HIDE DEF fresh, ch, Output
    <3>1. QED
      BY <2>1, <2>2, <2>3, <2>4
  <2>6. /\ frame' = NoFrame /\ idx' = 0 /\ pc' = "outputs"
        /\ UNCHANGED <<now, ownerVars, queueVars, value, until, woken,
                       clockVars, driverVars, unsent>>
    BY <1>20 DEF GetOutputValue
  <2>7. 0 \in 0 .. CONTROLLER_OUTPUT_MAX
    BY ConstantsAssumption
  <2>8. QED
    BY <2>5, <2>6, <2>7, <1>a DEF TypeOK
<1>21. CASE Reject
  BY <1>21, <1>a
  DEF TypeOK, Reject
<1>22. CASE Reply
  BY <1>22, <1>a, <1>c, <1>d
  DEF TypeOK, Reply
<1>23. CASE ReplySent
  BY <1>23, <1>a, <1>d, ConstantsAssumption
  DEF TypeOK, ReplySent
<1>24. CASE CheckTiming
  BY <1>24, <1>a, <1>c, <1>d
  DEF TypeOK, CheckTiming, AfterRead, ReadDone, ForOutput
<1>25. CASE ReadControl
  <2>1. control[MqttChannel] \in Readings \cup {NoReading}
    BY <1>25, <1>a, <1>e DEF TypeOK, ReadControl, Reading
  <2>2. value' \in Int16
    <3>1. CASE control[MqttChannel] = NoReading
      BY <1>25, <3>1, <1>d DEF ReadControl
    <3>2. CASE control[MqttChannel] # NoReading
      <4> Readings \subseteq Int
        BY ConstantsAssumption
      <4>1. control[MqttChannel] \in Int
        BY <2>1, <3>2
      <4>2. FromDouble(control[MqttChannel]) \in Int16
        BY <4>1, FromDoubleType
      <4>3. QED
        BY <1>25, <3>2, <4>2 DEF ReadControl
    <3>3. QED
      BY <3>1, <3>2
  <2>3. QED
    BY <1>25, <2>2, <1>a, <1>c
    DEF TypeOK, ReadControl, AfterRead, ReadDone
<1>26. CASE NextOutput
  BY <1>26, <1>a, ConstantsAssumption
  DEF TypeOK, NextOutput, ForOutput
<1>27. CASE OutputSent
  <2>1. idx \in Channels /\ idx + 1 \in 0 .. CONTROLLER_OUTPUT_MAX
    BY <1>27, <1>a, ConstantsAssumption
    DEF TypeOK, TaskInv, OutputSent, ForOutput, Channels
  <2> DEFINE Output == [SendTimePoint : TimePoint, SendEndTimePoint : TimePoint,
                        LastSendTimePoint : TimePoint,
                        mapping_point : MappingPoint \cup {NoPoint}]
             sent == [channel[idx] EXCEPT
                        !.LastSendTimePoint = now,
                        !.SendTimePoint = now + SEND_MESSAGES_INTERVAL]
  <2>2. channel \in [Channels -> Output]
    BY <1>a DEF TypeOK
  <2>3. sent \in Output
    BY <1>b, <2>1, <2>2
  <2>4. channel' = [channel EXCEPT ![idx] = sent]
    BY <1>27 DEF OutputSent
  <2>5. channel' \in [Channels -> Output]
    <3> HIDE DEF sent, Output
    <3>1. QED
      BY <2>1, <2>2, <2>3, <2>4
  <2>6. /\ value' = SENSOR_UNDEFINED /\ until' = 0
        /\ idx' = idx + 1 /\ pc' = "outputs"
        /\ UNCHANGED <<now, ownerVars, queueVars, frame, woken, clockVars,
                       driverVars, unsent>>
    BY <1>27 DEF OutputSent
  <2>7. 0 \in 0 .. MaxTime
    BY ConstantsAssumption
  <2>8. QED
    BY <2>1, <2>5, <2>6, <2>7, <1>a, <1>d DEF TypeOK
<1>28. CASE OutputsDone
  BY <1>28, <1>a
  DEF TypeOK, OutputsDone
<1>29. CASE SendScheduledIAmHere
  BY <1>29, <1>a, <1>b, <1>c
  DEF TypeOK, SendScheduledIAmHere
<1>30. CASE IAmHereSent
  BY <1>30, <1>a, ConstantsAssumption
  DEF TypeOK, IAmHereSent
<1>31. CASE Tick
  BY <1>31, <1>a, ConstantsAssumption
  DEF TypeOK, Tick, START
<1>32. CASE UNCHANGED vars
  BY <1>32, <1>a DEF TypeOK
<1>33. QED
  BY <1>1, <1>2, <1>3, <1>4, <1>5, <1>6, <1>7, <1>8, <1>9, <1>10, <1>11,
     <1>12, <1>13, <1>14, <1>15, <1>16, <1>17, <1>18, <1>19, <1>20, <1>21,
     <1>22, <1>23, <1>24, <1>25, <1>26, <1>27, <1>28, <1>29, <1>30, <1>31,
     <1>32
  DEF Next, Bus, Owner, Driver, Task, Select, HandleRequest, SendOutputs

\* Initially the inductive invariant holds.
LEMMA InitStep == Init => IInv
<1> SUFFICES ASSUME Init
             PROVE  IInv
  OBVIOUS
<1>1. /\ SENSOR_UNDEFINED \in Int16
      /\ 0 \in TimePoint /\ START \in TimePoint /\ START \in START .. MaxTime
      /\ 0 \in 0 .. MaxTime /\ 0 <= MaxBacklog
      /\ CONTROLLER_OUTPUT_MAX \in 0 .. CONTROLLER_OUTPUT_MAX
  BY ConstantsAssumption, DurationsAssumption
  DEF TimePoint, START, SENSOR_UNDEFINED, Int16
<1>2. /\ CanFrames \in Seq(Frame) /\ Len(CanFrames) <= MaxBacklog
      /\ value \in Int16
  BY <1>1 DEF Init
<1>3. channel \in [Channels ->
         [SendTimePoint : TimePoint, SendEndTimePoint : TimePoint,
          LastSendTimePoint : TimePoint,
          mapping_point : MappingPoint \cup {NoPoint}]]
  BY <1>1 DEF Init
<1>4. /\ control \in [Controls -> Readings \cup {NoReading}]
      /\ LastUpdateTimePoint \in [Controls -> TimePoint]
      /\ driver \in Controls \cup {NoControl}
      /\ publishedAt \in [Controls -> TimePoint]
      /\ unsent \subseteq Channels
  BY <1>1 DEF Init
<1>5. /\ now \in START .. MaxTime
      /\ idx \in 0 .. CONTROLLER_OUTPUT_MAX /\ until \in 0 .. MaxTime
      /\ SendIAmHereTime \in TimePoint /\ ResetConnectionTime \in TimePoint
  BY <1>1 DEF Init
<1>6. TypeOK
  BY <1>2, <1>3, <1>4, <1>5 DEF Init, TypeOK
<1>7. TaskInv /\ ChannelInv /\ OutputInv
  BY DEF Init, TaskInv, ChannelInv, OutputInv, AtRest, Reading
<1>8. QED
  BY <1>6, <1>7 DEF IInv

\* Every step keeps frame and channel counter in step with the control point.
LEMMA TaskStep == IInv /\ [Next]_vars => TaskInv'
<1> SUFFICES ASSUME IInv, [Next]_vars
             PROVE  TaskInv'
  OBVIOUS
<1>a. TypeOK /\ TaskInv
  BY DEF IInv
<1>b. frame \in Frame \cup {NoFrame}
  BY <1>a DEF TypeOK
<1>c. idx \in 0 .. CONTROLLER_OUTPUT_MAX
  BY <1>a DEF TypeOK
<1>d. CanFrames # << >> => Head(CanFrames) \in Frame
  BY <1>a, HeadTailSeq DEF TypeOK
<1>e. CONTROLLER_OUTPUT_MAX \in Nat
  BY ConstantsAssumption
<1>1. CASE UNCHANGED <<pc, frame, idx>>
  BY <1>1, <1>a
  DEF TaskInv, Reading, ForOutput, GetsParameter, IsGetParameter, IsController,
      Answerable, CanRespond
<1>2. CASE StartTask
  BY <1>2, <1>a
  DEF TaskInv, AtRest, Reading, StartTask
<1>3. CASE LoopExit
  BY <1>3, <1>a
  DEF TaskInv, AtRest, Reading, LoopExit
<1>4. CASE SelectQueued
  BY <1>4, <1>a, <1>b, <1>d
  DEF TaskInv, AtRest, Reading, SelectQueued, PopFrame
<1>5. CASE SelectWait
  BY <1>5, <1>a
  DEF TaskInv, AtRest, Reading, SelectWait
<1>6. CASE SelectNotified
  BY <1>6, <1>a, <1>b, <1>d
  DEF TaskInv, AtRest, Reading, SelectNotified, PopFrame, Waiting
<1>7. CASE SelectTimedOut
  BY <1>7, <1>a
  DEF TaskInv, AtRest, Reading, SelectTimedOut, Waiting
<1>8. CASE NothingReceived
  BY <1>8, <1>a, <1>b, <1>c
  DEF TaskInv, AtRest, Reading, NothingReceived
<1>9. CASE FrameReceived
  BY <1>9, <1>a, <1>b
  DEF TaskInv, AtRest, Reading, FrameReceived
<1>10. CASE GetChannelNumber
  BY <1>10, <1>a
  DEF TaskInv, AtRest, Reading, GetChannelNumber, IsController
<1>11. CASE GetControllerType
  BY <1>11, <1>a
  DEF TaskInv, AtRest, Reading, GetControllerType, IsController
<1>12. CASE GetParameterValue
  BY <1>12, <1>a, <1>e
  DEF TaskInv, AtRest, Reading, GetParameterValue,
      IsGetParameter, IsController, GetsParameter, ForOutput
<1>13. CASE IAmHereRequested
  BY <1>13, <1>a
  DEF TaskInv, AtRest, Reading, IAmHereRequested, Answerable, IsController,
      IsGetParameter, GetsParameter, CanRespond
<1>14. CASE GetOutputValue
  BY <1>14, <1>a, <1>c, <1>e
  DEF TaskInv, AtRest, Reading, GetOutputValue
<1>15. CASE Reject
  BY <1>15, <1>a
  DEF TaskInv, AtRest, Reading, Reject
<1>16. CASE Reply
  BY <1>16, <1>a
  DEF TaskInv, AtRest, Reading, Reply, Answerable, IsController,
      IsGetParameter, GetsParameter, CanRespond
<1>17. CASE ReplySent
  BY <1>17, <1>a, <1>e
  DEF TaskInv, AtRest, Reading, ReplySent
<1>18. CASE CheckTiming
  BY <1>18, <1>a, <1>c, <1>e
  DEF TaskInv, AtRest, Reading, CheckTiming, AfterRead, ForOutput,
      IsController, IsGetParameter, GetsParameter
<1>19. CASE ReadControl
  BY <1>19, <1>a, <1>c, <1>e
  DEF TaskInv, AtRest, Reading, ReadControl, AfterRead, ForOutput,
      IsController, IsGetParameter, GetsParameter
<1>20. CASE NextOutput
  BY <1>20, <1>a, <1>c, <1>e
  DEF TaskInv, AtRest, Reading, NextOutput, ForOutput
<1>21. CASE OutputSent
  BY <1>21, <1>a, <1>c, <1>e
  DEF TaskInv, AtRest, Reading, OutputSent, ForOutput
<1>22. CASE OutputsDone
  BY <1>22, <1>a, <1>c, <1>e
  DEF TaskInv, AtRest, Reading, OutputsDone, ForOutput
<1>23. CASE SendScheduledIAmHere
  BY <1>23, <1>a
  DEF TaskInv, AtRest, Reading, SendScheduledIAmHere
<1>24. CASE IAmHereSent
  BY <1>24, <1>a
  DEF TaskInv, AtRest, Reading, IAmHereSent
<1>25. QED
  BY <1>1, <1>2, <1>3, <1>4, <1>5, <1>6, <1>7, <1>8, <1>9, <1>10, <1>11,
     <1>12, <1>13, <1>14, <1>15, <1>16, <1>17, <1>18, <1>19, <1>20, <1>21,
     <1>22, <1>23, <1>24
  DEF Next, Bus, Owner, Driver, Task, Select, HandleRequest, SendOutputs,
      HandlePush, HandleNotify, RemoveHandler, Disable, OnControlValue, Fail,
      Publish, Tick

\* Every step keeps each window together with its mapping point.
LEMMA ChannelStep == IInv /\ [Next]_vars => ChannelInv'
<1> SUFFICES ASSUME IInv, [Next]_vars
             PROVE  ChannelInv'
  OBVIOUS
<1>a. TypeOK /\ TaskInv /\ ChannelInv
  BY DEF IInv
<1>1. CASE GetOutputValue
  <2> DEFINE ch == frame.mapping_point.channelID
  <2>1. /\ ch \in Channels
        /\ frame.mapping_point \in MappingPoint
        /\ frame.mapping_point.hostID = ProgramId
    BY <1>1, <1>a, ConstantsAssumption
    DEF GetOutputValue, TaskInv, GetsOutput, Frame, MappingPoint, Channels
  <2>2. \A c \in Channels : c # ch => channel'[c] = channel[c]
    BY <1>1, <1>a, <2>1 DEF TypeOK, GetOutputValue
  <2>3. \/ channel'[ch] = channel[ch]
        \/ channel'[ch].mapping_point = frame.mapping_point
    BY <1>1, <1>a, <2>1 DEF TypeOK, GetOutputValue
  <2>4. SUFFICES ASSUME NEW c \in Channels
                 PROVE \/ channel'[c] = channel[c]
                       \/ /\ channel'[c].mapping_point \in MappingPoint
                          /\ channel'[c].mapping_point.hostID = ProgramId
                          /\ channel'[c].mapping_point.channelID = c
    BY <1>a DEF ChannelInv
  <2>5. QED
    BY <2>1, <2>2, <2>3
<1>2. CASE OutputSent
  <2>1. idx \in Channels
    BY <1>2, <1>a, ConstantsAssumption
    DEF TypeOK, TaskInv, OutputSent, ForOutput, Channels
  <2>2. QED
    BY <1>2, <1>a, <2>1 DEF TypeOK, ChannelInv, OutputSent
<1>3. CASE UNCHANGED channel
  BY <1>3, <1>a DEF ChannelInv
<1>4. QED
  BY <1>1, <1>2, <1>3
  DEF Next, Bus, Owner, Driver, Task, Select, HandleRequest, SendOutputs,
      HandlePush, HandleNotify, RemoveHandler, Disable, OnControlValue, Fail,
      Publish, StartTask, LoopExit, SelectQueued, SelectWait, SelectNotified,
      SelectTimedOut, NothingReceived, FrameReceived, GetChannelNumber,
      GetControllerType, GetParameterValue, IAmHereRequested, Reject, Reply,
      ReplySent, CheckTiming, ReadControl, NextOutput, OutputsDone,
      SendScheduledIAmHere, IAmHereSent, Tick

\* Every step keeps what an output under way has been checked for.
LEMMA OutputStep == IInv /\ [Next]_vars => OutputInv'
<1> SUFFICES ASSUME IInv, [Next]_vars
             PROVE  OutputInv'
  OBVIOUS
<1>a. TypeOK /\ TaskInv /\ ChannelInv /\ OutputInv
  BY DEF IInv
<1>1. CASE NextOutput
  <2>1. CASE OutputDue(idx) /\ pc' = "checkTiming" /\ UNCHANGED idx
    <3>1. idx \in Channels
      BY <1>1, <1>a, ConstantsAssumption DEF TypeOK, NextOutput, ForOutput, Channels
    <3>2. OutputMapping[idx] \in Controls
      BY <2>1, <3>1, ConstantsAssumption DEF OutputDue
    <3>3. channel[idx].SendEndTimePoint # 0
      <4>1. now \in Nat /\ now >= 1
        BY <1>a, ConstantsAssumption DEF TypeOK, START
      <4>2. channel[idx].SendEndTimePoint >= now
        BY <2>1 DEF OutputDue, WindowOpen
      <4>3. QED
        BY <4>1, <4>2
    <3>4. channel[idx].mapping_point # NoPoint
      <4>1. NoPoint \notin MappingPoint
        BY ConstantsAssumption
      <4>2. QED
        BY <3>1, <3>3, <4>1, <1>a DEF ChannelInv
    <3>5. QED
      BY <1>1, <2>1, <3>2, <3>4 DEF NextOutput, OutputInv
  <2>2. CASE ~OutputDue(idx) /\ UNCHANGED pc
    BY <1>1, <2>2 DEF NextOutput, OutputInv, Reading
  <2>3. QED
    BY <1>1, <2>1, <2>2 DEF NextOutput
<1>2. CASE (CheckTiming \/ ReadControl) /\ ForOutput
  BY <1>2, <1>a DEF CheckTiming, ReadControl, OutputInv, Reading, ForOutput
<1>3. CASE pc' \notin {"checkTiming", "readControl", "sendOutput"}
  BY <1>3 DEF OutputInv, Reading
<1>4. CASE UNCHANGED <<pc, idx, channel>>
  BY <1>4, <1>a DEF OutputInv, Reading, ForOutput
<1>5. CASE UNCHANGED idx /\ ~ForOutput
  BY <1>5 DEF OutputInv, ForOutput
<1>6. CASE GetParameterValue
  BY <1>6, <1>a, ConstantsAssumption
  DEF GetParameterValue, TaskInv, OutputInv, ForOutput
<1>7. QED
  BY <1>1, <1>2, <1>3, <1>4, <1>5, <1>6
  DEF Next, Bus, Owner, Driver, Task, Select, HandleRequest, SendOutputs,
      HandlePush, HandleNotify, RemoveHandler, Disable, OnControlValue, Fail,
      Publish, StartTask, LoopExit, SelectQueued, SelectWait, SelectNotified,
      SelectTimedOut, PopFrame, NothingReceived, FrameReceived, GetChannelNumber,
      GetControllerType, IAmHereRequested, GetOutputValue, Reject, Reply,
      ReplySent, CheckTiming, ReadControl, OutputSent, OutputsDone,
      SendScheduledIAmHere, IAmHereSent, Tick

\* The inductive invariant holds throughout.
THEOREM Inductive == Spec => []IInv
<1>1. IInv /\ [Next]_vars => IInv'
  BY TypeStep, TaskStep, ChannelStep, OutputStep DEF IInv
<1>2. QED
  BY InitStep, <1>1, PTL DEF Spec

-----------------------------------------------------------------------------
\* Type correctness: the variables keep their types; in particular every value
\* put on the bus fits 16 bits, and the channel loop stays within OutputMapping.
THEOREM TypeCorrect == Spec => []TypeOK
<1>1. IInv => TypeOK
  BY DEF IInv
<1>2. QED
  BY Inductive, <1>1, PTL

\* Outputs are broadcast only on behalf of a request for that very channel of
\* this controller (get_output_value, send_scheduled_outputs), for any number
\* of outputs, any mapping and any traffic.
THEOREM OutputsAuthorised == Spec => []OutputAuthorised
<1>1. IInv => OutputAuthorised
  <2> SUFFICES ASSUME IInv, pc = "sendOutput"
               PROVE  /\ channel[idx].mapping_point \in MappingPoint
                      /\ channel[idx].mapping_point.hostID = ProgramId
                      /\ channel[idx].mapping_point.channelID = idx
                      /\ OutputMapping[idx] \in Controls
    BY DEF OutputAuthorised
  <2>1. idx \in Channels /\ ForOutput
    BY ConstantsAssumption DEF IInv, TypeOK, TaskInv, ForOutput, Channels
  <2>2. QED
    BY <2>1 DEF IInv, ChannelInv, OutputInv
<1>2. QED
  BY Inductive, <1>1, PTL

-----------------------------------------------------------------------------
\* The promise of ControllerPromise.

\* At first nothing is accepted.
LEMMA PromiseInit == Init => Promise!Init
BY DEF Init, Promise!Init, Pending, Answering

\* Every step of the controller is a step of the promise, or none.
LEMMA PromiseStep == IInv /\ [Next]_vars => [Promise!Next]_Promise!vars
<1> SUFFICES ASSUME IInv, [Next]_vars
             PROVE  [Promise!Next]_Promise!vars
  OBVIOUS
<1>a. TypeOK /\ TaskInv
  BY DEF IInv
<1>b. CanFrames \in Seq(Frame) /\ NoFrame \notin Frame
  BY <1>a, ConstantsAssumption DEF TypeOK
<1>c. \A f \in Frame : /\ Head(<<f>> \o CanFrames) = f
                       /\ Tail(<<f>> \o CanFrames) = CanFrames
                       /\ <<f>> \o CanFrames # << >>
  BY <1>b, ConsSeq
<1>d. CanFrames # << >> => /\ Head(CanFrames) \in Frame
                           /\ <<Head(CanFrames)>> \o Tail(CanFrames) = CanFrames
  BY <1>b, HeadTailSeq
<1>e. ASSUME Pending' = Pending, Answering' = Answering
      PROVE  [Promise!Next]_Promise!vars
  BY <1>e DEF Promise!vars
<1>1. ASSUME NEW f \in BusFrames, HandlePush(f)
      PROVE  [Promise!Next]_Promise!vars
  <2>1. f \in {g \in BusFrames : IsForMe(g)} /\ f \in Frame
    BY <1>1, ConstantsAssumption DEF HandlePush
  <2>2. Pending' = Append(Pending, f) /\ Answering' = Answering
    <3>1. CASE frame # NoFrame /\ pc # "sendReply"
      <4>1. frame \in Frame
        BY <3>1, <1>a DEF TypeOK
      <4>2. Append(<<frame>> \o CanFrames, f) = <<frame>> \o Append(CanFrames, f)
        BY <4>1, <2>1, <1>b, AppendConsSeq
      <4>3. QED
        BY <1>1, <3>1, <4>2 DEF HandlePush, Pending, Answering
    <3>2. CASE ~(frame # NoFrame /\ pc # "sendReply")
      BY <1>1, <3>2 DEF HandlePush, Pending, Answering
    <3>3. QED
      BY <3>1, <3>2
  <2>3. QED
    BY <2>1, <2>2 DEF Promise!Next, Promise!Accept
<1>2. CASE PopFrame /\ frame = NoFrame /\ CanFrames # << >>
           /\ pc \in {"loop", "waiting"}
  <2>1. Pending = CanFrames /\ Answering = NoFrame
    BY <1>2 DEF Pending, Answering
  <2>2. Pending' = CanFrames /\ Answering' = NoFrame
    BY <1>2, <1>b, <1>d DEF PopFrame, Pending, Answering
  <2>3. QED
    BY <2>1, <2>2, <1>e
<1>3. CASE /\ pc # "sendReply" /\ pc' # "sendReply"
           /\ UNCHANGED <<frame, CanFrames>>
  BY <1>3, <1>e DEF Pending, Answering
<1>4. CASE UNCHANGED <<pc, frame, CanFrames>>
  BY <1>4, <1>e DEF Pending, Answering
<1>5. ASSUME pc \in {"request", "reply"}, ~Answerable(frame),
             frame' = NoFrame, pc' # "sendReply", UNCHANGED CanFrames
      PROVE  [Promise!Next]_Promise!vars
  <2>1. Pending = <<frame>> \o CanFrames /\ frame \in Frame
    BY <1>5, <1>a, <1>b DEF TaskInv, Pending
  <2>2. Answering = NoFrame /\ Answering' = NoFrame /\ Pending' = CanFrames
    BY <1>5 DEF Pending, Answering
  <2>3. QED
    BY <1>5, <1>c, <2>1, <2>2 DEF Promise!Next, Promise!Drop
<1>6. ASSUME pc \in {"request", "reply"}, Answerable(frame),
             pc' = "sendReply", UNCHANGED <<frame, CanFrames>>
      PROVE  [Promise!Next]_Promise!vars
  <2>1. Pending = <<frame>> \o CanFrames /\ frame \in Frame
    BY <1>6, <1>a, <1>b DEF TaskInv, Pending
  <2>2. Answering = NoFrame /\ Answering' = frame /\ Pending' = CanFrames
    BY <1>6 DEF Pending, Answering
  <2>3. QED
    BY <1>6, <1>c, <2>1, <2>2 DEF Promise!Next, Promise!Answer
<1>7. CASE GetOutputValue
  <2>1. ~Answerable(frame)
    BY <1>7 DEF GetOutputValue, GetsOutput, GetsParameter, IsGetParameter,
       Answerable, IsController, GET_OUTPUT_VALUE, GET_CHANNEL_NUMBER,
       GET_CONTROLLER_TYPE, I_AM_HERE, PT_CONTROLLER, PT_REMOTE_CONTROL
  <2>2. QED
    BY <1>7, <2>1, <1>5 DEF GetOutputValue
<1>8. CASE Reject
  BY <1>8, <1>5 DEF Reject, Answerable
<1>9. CASE IAmHereRequested
  BY <1>9, <1>6 DEF IAmHereRequested, Answerable
<1>10. CASE Reply
  <2>1. CASE CanRespond(frame)
    BY <1>10, <2>1, <1>a, <1>6 DEF Reply, TaskInv, Answerable
  <2>2. CASE ~CanRespond(frame)
    <3>1. ~IsController(frame, I_AM_HERE)
      BY <1>10, <1>a
      DEF Reply, TaskInv, IsController, GetsParameter, IsGetParameter, I_AM_HERE,
          GET_CHANNEL_NUMBER, GET_CONTROLLER_TYPE, PT_CONTROLLER,
          PT_REMOTE_CONTROL
    <3>2. QED
      BY <1>10, <2>2, <3>1, <1>5 DEF Reply, Answerable
  <2>3. QED
    BY <2>1, <2>2
<1>11. CASE ReplySent
  <2>1. frame \in Frame
    BY <1>11, <1>a DEF ReplySent, TaskInv
  <2>2. Answering = frame /\ Answering' = NoFrame /\ Pending' = Pending
    BY <1>11 DEF ReplySent, Pending, Answering
  <2>3. QED
    BY <2>1, <2>2, <1>b DEF Promise!Next, Promise!Answered
<1>12. CASE SelectQueued
  BY <1>12, <1>2, <1>a DEF SelectQueued, TaskInv, AtRest
<1>13. CASE SelectNotified
  BY <1>13, <1>2, <1>3, <1>a DEF SelectNotified, TaskInv, AtRest, Waiting
<1>14. QED
  BY <1>1, <1>3, <1>4, <1>7, <1>8, <1>9, <1>10, <1>11, <1>12, <1>13
  DEF Next, Bus, Owner, Driver, Task, Select, HandleRequest, SendOutputs,
      HandleNotify, RemoveHandler, Disable, OnControlValue, Fail, Publish,
      StartTask, LoopExit, SelectWait, SelectTimedOut, Waiting,
      NothingReceived, FrameReceived, GetChannelNumber, GetControllerType,
      GetParameterValue, CheckTiming, ReadControl, AfterRead, NextOutput,
      OutputSent, OutputsDone, SendScheduledIAmHere, IAmHereSent, Tick

\* The controller keeps its promise, for any queue length, any traffic and any
\* interleaving of the threads: accepted requests are dealt with once, in order.
THEOREM PromiseHolds == Spec => PromiseKept
<1>1. Spec => Promise!Init /\ [][Promise!Next]_Promise!vars
  BY Inductive, PromiseInit, PromiseStep, PTL DEF Spec
<1>2. QED
  BY <1>1 DEF PromiseKept, Promise!Spec

-----------------------------------------------------------------------------
\* The connection outlives the windows, when computation takes no time.

\* The connection's end is never before that of a window, and never later than
\* a whole time-out from now.
WindowInv ==
  /\ ResetConnectionTime <= now + CONNECTION_TIMEOUT
  /\ pc = "request" => ResetConnectionTime = now + CONNECTION_TIMEOUT
  /\ Status = "IDLE" => ResetConnectionTime <= now
  /\ \A ch \in Channels : channel[ch].SendEndTimePoint <= ResetConnectionTime

\* Every step keeps the windows inside the connection.
LEMMA WindowStep ==
  ASSUME Urgent, CONNECTION_TIMEOUT >= SEND_MESSAGES_TIME,
         IInv, WindowInv, [Next]_vars
  PROVE  WindowInv'
<1>a. TypeOK /\ TaskInv
  BY DEF IInv
<1>b. /\ now \in Nat /\ ResetConnectionTime \in Nat
      /\ CONNECTION_TIMEOUT \in Nat /\ SEND_MESSAGES_TIME \in Nat
      /\ \A ch \in Channels : channel[ch].SendEndTimePoint \in Nat
  BY <1>a, ConstantsAssumption, DurationsAssumption
  DEF TypeOK, TimePoint, START
<1>1. CASE FrameReceived
  BY <1>1, <1>b DEF FrameReceived, WindowInv
<1>2. CASE GetOutputValue
  <2> DEFINE ch == frame.mapping_point.channelID
             end(c) == channel'[c].SendEndTimePoint
  <2>1. ch \in Channels
    BY <1>2, <1>a, ConstantsAssumption
    DEF GetOutputValue, TaskInv, GetsOutput, Frame, MappingPoint, Channels
  <2>2. \A c \in Channels :
          end(c) \in {channel[c].SendEndTimePoint, now + SEND_MESSAGES_TIME}
    BY <1>2, <1>a, <2>1 DEF GetOutputValue, TypeOK
  <2>3. \A c \in Channels : end(c) <= ResetConnectionTime
    <3> HIDE DEF end
    <3>1. now + SEND_MESSAGES_TIME <= ResetConnectionTime
      BY <1>2, <1>b DEF GetOutputValue, WindowInv
    <3>2. \A c \in Channels : channel[c].SendEndTimePoint <= ResetConnectionTime
      BY DEF WindowInv
    <3>3. QED
      BY <2>2, <3>1, <3>2
  <2>4. QED
    BY <1>2, <1>b, <2>3 DEF GetOutputValue, WindowInv
<1>3. CASE OutputSent
  <2>1. \A c \in Channels :
          channel'[c].SendEndTimePoint = channel[c].SendEndTimePoint
    BY <1>3, <1>a DEF OutputSent, TypeOK
  <2>2. QED
    BY <1>3, <1>b, <2>1 DEF OutputSent, WindowInv
<1>4. CASE NothingReceived
  BY <1>4, <1>a, <1>b DEF NothingReceived, WindowInv, TypeOK
<1>5. CASE Tick
  BY <1>5, <1>b DEF Tick, Idle, Waiting, Sending, WindowInv
<1>6. CASE /\ UNCHANGED <<now, Status, ResetConnectionTime, channel>>
           /\ pc' # "request" \/ UNCHANGED pc
  BY <1>6, <1>b DEF WindowInv
<1>7. QED
  BY <1>1, <1>2, <1>3, <1>4, <1>5, <1>6
  DEF Next, Bus, Owner, Driver, Task, Select, HandleRequest, SendOutputs,
      HandlePush, HandleNotify, RemoveHandler, Disable, OnControlValue, Fail,
      Publish, StartTask, LoopExit, SelectQueued, SelectWait, SelectNotified,
      SelectTimedOut, PopFrame, GetChannelNumber, GetControllerType,
      GetParameterValue, IAmHereRequested, Reject, Reply, ReplySent,
      CheckTiming, ReadControl, AfterRead, NextOutput, OutputsDone,
      SendScheduledIAmHere, IAmHereSent

\* An idle controller has no output left to broadcast, for any number of
\* outputs and all durations with CONNECTION_TIMEOUT >= SEND_MESSAGES_TIME (the
\* code's ten minutes each), as long as the task's own computation takes no
\* time: a window is opened while its request's connection begins.
THEOREM NoWindowWhenIdle ==
  ASSUME Urgent, CONNECTION_TIMEOUT >= SEND_MESSAGES_TIME
  PROVE  Spec => []IdleMeansNoWindow
<1>1. Init => WindowInv
  BY DurationsAssumption DEF Init, WindowInv, START
<1>2. IInv /\ WindowInv /\ [Next]_vars => WindowInv'
  BY WindowStep
<1>3. IInv /\ WindowInv => IdleMeansNoWindow
  <2> SUFFICES ASSUME IInv, WindowInv, Status = "IDLE", NEW ch \in Channels
               PROVE  channel[ch].SendEndTimePoint <= now
    BY DEF IdleMeansNoWindow
  <2>1. /\ now \in Nat /\ ResetConnectionTime \in Nat
        /\ channel[ch].SendEndTimePoint \in Nat
    BY ConstantsAssumption, DurationsAssumption
    DEF IInv, TypeOK, TimePoint, START
  <2>2. QED
    BY <2>1 DEF WindowInv
<1>4. QED
  BY Inductive, <1>1, <1>2, <1>3, PTL DEF Spec
=============================================================================
