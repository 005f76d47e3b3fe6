-------------------- MODULE VirtualControllerTiming_proofs --------------------
(***************************************************************************)
(* Proofs of VirtualController's timing properties, for every number of    *)
(* outputs, every mapping and all durations.  They assume Urgent: the      *)
(* task's own computation takes no time, so that the clock advances only   *)
(* while it waits for a frame or for a Send.                               *)
(***************************************************************************)
EXTENDS VirtualController_proofs

USE DEF vars, clockVars, ownerVars, queueVars, taskVars, driverVars

\* The variables that count time are numbers.
LEMMA TimesAreNumbers ==
  ASSUME TypeOK
  PROVE  /\ now \in Nat /\ now >= START /\ now <= MaxTime /\ until \in Nat
         /\ SendIAmHereTime \in Nat /\ ResetConnectionTime \in Nat
         /\ idx \in Nat /\ idx <= CONTROLLER_OUTPUT_MAX
         /\ \A c \in Controls : /\ LastUpdateTimePoint[c] \in Nat
                                /\ publishedAt[c] \in Nat
         /\ \A ch \in Channels : /\ channel[ch].SendTimePoint \in Nat
                                 /\ channel[ch].SendEndTimePoint \in Nat
                                 /\ channel[ch].LastSendTimePoint \in Nat
BY ConstantsAssumption, DurationsAssumption DEF TypeOK, TimePoint, START

\* A Send or a wait ends no later than its time-out, and not before it begins;
\* where the model's horizon does not cut it, exactly its time-out later.
LEMMA DeadlineBounds ==
  ASSUME TypeOK, NEW d \in Nat
  PROVE  /\ now <= Deadline(d) /\ Deadline(d) <= now + d
         /\ Deadline(d) < MaxTime => Deadline(d) - d = now
BY TimesAreNumbers, ConstantsAssumption DEF Deadline

-----------------------------------------------------------------------------
\* A stale value is not sent.

\* The control was published at most its value_timeout_min before t.
Fresh(c, t) == ValueTimeout[c] >= 0 => t - publishedAt[c] <= ValueTimeout[c]

\* What is being sent as a number was fresh when the Send began.
SentFresh ==
  until < MaxTime /\ value # SENSOR_UNDEFINED =>
    /\ pc = "sendOutput" => Fresh(OutputMapping[idx], until - SEND_TIMEOUT)
    /\ pc = "sendReply" /\ GetsParameter(frame)
         => /\ frame.parameter.raw_info \in DOMAIN ParameterMapping
            /\ Fresh(MqttChannel, until - SEND_TIMEOUT)

\* The time stamp never runs ahead of the value it stands for, a value whose
\* event is on its way has just been published, and a value that has passed the
\* time-out check stays fresh until its Send begins.
FreshInv ==
  /\ \A c \in Controls : /\ LastUpdateTimePoint[c] <= publishedAt[c]
                         /\ publishedAt[c] <= now
  /\ driver # NoControl => publishedAt[driver] = now
  /\ pc = "readControl" => Fresh(MqttChannel, now)
  /\ pc = "reply" /\ GetsParameter(frame) /\ value # SENSOR_UNDEFINED
       => /\ frame.parameter.raw_info \in DOMAIN ParameterMapping
          /\ Fresh(MqttChannel, now)
  /\ SentFresh

\* A control that is not timed out has a fresh value.
LEMMA NotTimedOutIsFresh ==
  ASSUME IInv, FreshInv, Reading, ~IsTimedOut(MqttChannel)
  PROVE  MqttChannel \in Controls /\ Fresh(MqttChannel, now)
<1>1. MqttChannel \in Controls
  BY ConstantsAssumption DEF IInv, TaskInv, OutputInv, MqttChannel
<1>2. ValueTimeout[MqttChannel] \in Int
  BY <1>1, ConstantsAssumption
<1>3. /\ now \in Nat /\ LastUpdateTimePoint[MqttChannel] \in Nat
      /\ publishedAt[MqttChannel] \in Nat
  BY <1>1, TimesAreNumbers DEF IInv
<1>4. LastUpdateTimePoint[MqttChannel] <= publishedAt[MqttChannel]
  BY <1>1 DEF FreshInv
<1>5. QED
  BY <1>1, <1>2, <1>3, <1>4 DEF IsTimedOut, Fresh

\* Time stands still while the task computes, and nobody's clock runs back.
LEMMA TickStep ==
  ASSUME Urgent, IInv, [Next]_vars
  PROVE  \/ UNCHANGED now
         \/ /\ Tick /\ now' = now + 1 /\ driver = NoControl
            /\ \/ pc \in {"stopped", "undefined"}
               \/ Waiting /\ now < until
               \/ Sending /\ now < until
<1>1. CASE Tick
  BY <1>1 DEF Tick, Idle
<1>2. QED
  BY <1>1
  DEF Next, Bus, Owner, Driver, Task, Select, HandleRequest, SendOutputs,
      HandlePush, HandleNotify, RemoveHandler, Disable, OnControlValue, Fail,
      Publish, StartTask, LoopExit, SelectQueued, SelectWait, SelectNotified,
      SelectTimedOut, NothingReceived, FrameReceived, GetChannelNumber,
      GetControllerType, GetParameterValue, IAmHereRequested, GetOutputValue,
      Reject, Reply, ReplySent, CheckTiming, ReadControl, NextOutput,
      OutputSent, OutputsDone, SendScheduledIAmHere, IAmHereSent

\* Every step keeps the time stamps behind the values they stand for.
LEMMA StampStep ==
  ASSUME Urgent, IInv, FreshInv, [Next]_vars
  PROVE  /\ \A c \in Controls : /\ LastUpdateTimePoint'[c] <= publishedAt'[c]
                                /\ publishedAt'[c] <= now'
                                /\ publishedAt[c] <= publishedAt'[c]
         /\ driver' # NoControl => publishedAt'[driver'] = now'
<1>a. /\ LastUpdateTimePoint \in [Controls -> TimePoint]
      /\ publishedAt \in [Controls -> TimePoint]
      /\ driver \in Controls \cup {NoControl}
  BY DEF IInv, TypeOK
<1>b. /\ now \in Nat
      /\ \A c \in Controls : /\ LastUpdateTimePoint[c] \in Nat
                             /\ publishedAt[c] \in Nat
  BY TimesAreNumbers DEF IInv
<1>c. /\ \A c \in Controls : /\ LastUpdateTimePoint[c] <= publishedAt[c]
                             /\ publishedAt[c] <= now
      /\ driver # NoControl => publishedAt[driver] = now
  BY DEF FreshInv
<1>1. ASSUME NEW d \in Controls, NEW r \in Readings, Publish(d, r)
      PROVE  /\ \A c \in Controls :
                  /\ LastUpdateTimePoint'[c] <= publishedAt'[c]
                  /\ publishedAt'[c] <= now'
                  /\ publishedAt[c] <= publishedAt'[c]
             /\ driver' # NoControl => publishedAt'[driver'] = now'
  <2>1. \A c \in Controls : publishedAt'[c] = IF c = d THEN now
                                              ELSE publishedAt[c]
    BY <1>1, <1>a DEF Publish
  <2>2. UNCHANGED <<now, LastUpdateTimePoint>> /\ driver' = d
    BY <1>1 DEF Publish
  <2>3. QED
    BY <2>1, <2>2, <1>b, <1>c
<1>2. CASE OnControlValue
  <2>1. \A c \in Controls : LastUpdateTimePoint'[c] \in
          {LastUpdateTimePoint[c], publishedAt[c]}
    <3>1. driver # NoControl /\ publishedAt[driver] = now
      BY <1>2, <1>c DEF OnControlValue
    <3>2. QED
      BY <1>2, <1>a, <3>1 DEF OnControlValue
  <2>2. UNCHANGED <<now, publishedAt>> /\ driver' = NoControl
    BY <1>2 DEF OnControlValue
  <2>3. QED
    BY <2>1, <2>2, <1>b, <1>c
<1>3. CASE UNCHANGED <<LastUpdateTimePoint, publishedAt, driver>>
  <2>1. now' >= now /\ (now' # now => driver = NoControl)
    BY TickStep, <1>b
  <2>2. QED
    BY <1>3, <2>1, <1>b, <1>c, TickStep
<1>4. QED
  BY <1>1, <1>2, <1>3
  DEF Next, Bus, Owner, Driver, Task, Select, HandleRequest, SendOutputs,
      HandlePush, HandleNotify, RemoveHandler, Disable, Fail, StartTask,
      LoopExit, SelectQueued, SelectWait, SelectNotified, SelectTimedOut,
      NothingReceived, FrameReceived, GetChannelNumber, GetControllerType,
      GetParameterValue, IAmHereRequested, GetOutputValue, Reject, Reply,
      ReplySent, CheckTiming, ReadControl, NextOutput, OutputSent, OutputsDone,
      SendScheduledIAmHere, IAmHereSent, Tick

\* What was fresh stays fresh: publishing only makes a control newer.
LEMMA FreshKept ==
  ASSUME Urgent, IInv, FreshInv, [Next]_vars, NEW c \in Controls, NEW t \in Int,
         Fresh(c, t)
  PROVE  ValueTimeout[c] >= 0 => t - publishedAt'[c] <= ValueTimeout[c]
<1>1. publishedAt[c] <= publishedAt'[c] /\ publishedAt'[c] <= now'
  BY StampStep
<1>2. publishedAt'[c] \in Int
  <2>1. TypeOK'
    BY TypeStep
  <2>2. publishedAt' \in [Controls -> TimePoint]
    BY <2>1 DEF TypeOK
  <2>3. QED
    BY <2>2, ConstantsAssumption, DurationsAssumption DEF TimePoint
<1>3. publishedAt[c] \in Int /\ ValueTimeout[c] \in Int
  BY TimesAreNumbers, ConstantsAssumption DEF IInv
<1>4. QED
  BY <1>1, <1>2, <1>3 DEF Fresh

\* Every step keeps a value that passed the time-out check fresh.
LEMMA FreshStep ==
  ASSUME Urgent, IInv, FreshInv, [Next]_vars
  PROVE  FreshInv'
<1>a. TypeOK /\ TaskInv /\ OutputInv
  BY DEF IInv
<1>b. now \in Int /\ until \in Int /\ SEND_TIMEOUT \in Nat
  BY <1>a, TimesAreNumbers, DurationsAssumption
<1>c. Deadline(SEND_TIMEOUT) < MaxTime
        => Deadline(SEND_TIMEOUT) - SEND_TIMEOUT = now
  BY <1>a, <1>b, DeadlineBounds
<1>d. \A c \in Controls, t \in Int :
        Fresh(c, t) =>
          (ValueTimeout[c] >= 0 => t - publishedAt'[c] <= ValueTimeout[c])
  BY FreshKept
<1>1. /\ \A c \in Controls : /\ LastUpdateTimePoint'[c] <= publishedAt'[c]
                             /\ publishedAt'[c] <= now'
      /\ driver' # NoControl => publishedAt'[driver'] = now'
  BY StampStep
<1>2. pc' = "readControl" => Fresh(MqttChannel, now)'
  <2>1. CASE CheckTiming
    <3>1. SUFFICES ASSUME pc' = "readControl"
                   PROVE  Fresh(MqttChannel, now)'
      OBVIOUS
    <3>2. ~IsTimedOut(MqttChannel) /\ Reading
      BY <2>1, <3>1 DEF CheckTiming, AfterRead, Reading
    <3>3. MqttChannel \in Controls /\ Fresh(MqttChannel, now)
      BY <3>2, NotTimedOutIsFresh
    <3>4. UNCHANGED <<now, idx, frame>>
      BY <2>1 DEF CheckTiming
    <3>5. MqttChannel' = MqttChannel
      BY <3>4 DEF MqttChannel, ForOutput
    <3>6. QED
      BY <3>1, <3>3, <3>4, <3>5, <1>b, <1>d DEF Fresh
  <2>2. CASE UNCHANGED pc /\ pc = "readControl"
    <3>1. UNCHANGED <<now, idx, frame>>
      BY <2>2
      DEF Next, Bus, Owner, Driver, Task, Select, HandleRequest, SendOutputs,
          HandlePush, HandleNotify, RemoveHandler, Disable, OnControlValue,
          Fail, Publish, StartTask, LoopExit, SelectQueued, SelectWait,
          SelectNotified, SelectTimedOut, Waiting, NothingReceived,
          FrameReceived, GetChannelNumber, GetControllerType,
          GetParameterValue, IAmHereRequested, GetOutputValue, Reject, Reply,
          ReplySent, CheckTiming, ReadControl, AfterRead, NextOutput,
          OutputSent, OutputsDone, SendScheduledIAmHere, IAmHereSent, Tick,
          Idle, Sending
    <3>2. MqttChannel \in Controls
      BY <2>2, <1>a, ConstantsAssumption
      DEF TaskInv, OutputInv, Reading, MqttChannel
    <3>3. Fresh(MqttChannel, now) /\ MqttChannel' = MqttChannel
      BY <2>2, <3>1 DEF FreshInv, MqttChannel, ForOutput
    <3>4. QED
      BY <3>1, <3>2, <3>3, <1>b, <1>d DEF Fresh
  <2>3. QED
    BY <2>1, <2>2
    DEF Next, Bus, Owner, Driver, Task, Select, HandleRequest, SendOutputs,
        HandlePush, HandleNotify, RemoveHandler, Disable, OnControlValue, Fail,
        Publish, StartTask, LoopExit, SelectQueued, SelectWait, SelectNotified,
        SelectTimedOut, PopFrame, NothingReceived, FrameReceived,
        GetChannelNumber, GetControllerType, GetParameterValue,
        IAmHereRequested, GetOutputValue, Reject, Reply, ReplySent,
        ReadControl, AfterRead, NextOutput, OutputSent, OutputsDone,
        SendScheduledIAmHere, IAmHereSent, Tick
<1>3. pc' = "reply" /\ GetsParameter(frame') /\ value' # SENSOR_UNDEFINED
        => /\ frame'.parameter.raw_info \in DOMAIN ParameterMapping
           /\ Fresh(MqttChannel, now)'
  <2> SUFFICES ASSUME pc' = "reply", GetsParameter(frame'),
                      value' # SENSOR_UNDEFINED
               PROVE  /\ frame'.parameter.raw_info \in DOMAIN ParameterMapping
                      /\ Fresh(MqttChannel, now)'
    OBVIOUS
  <2>1. CASE ReadControl
    <3>1. ~ForOutput /\ UNCHANGED <<now, idx, frame>> /\ pc = "readControl"
      BY <2>1 DEF ReadControl, AfterRead
    <3>2. /\ frame.parameter.raw_info \in DOMAIN ParameterMapping
          /\ MqttChannel \in Controls
          /\ Fresh(MqttChannel, now) /\ MqttChannel' = MqttChannel
      BY <3>1, <1>a, ConstantsAssumption
      DEF TaskInv, Reading, FreshInv, MqttChannel, ForOutput
    <3>3. QED
      BY <3>1, <3>2, <1>b, <1>d DEF Fresh
  <2>2. CASE UNCHANGED <<pc, value>>
    <3>1. UNCHANGED <<now, idx, frame>>
      BY <2>2
      DEF Next, Bus, Owner, Driver, Task, Select, HandleRequest, SendOutputs,
          HandlePush, HandleNotify, RemoveHandler, Disable, OnControlValue,
          Fail, Publish, StartTask, LoopExit, SelectQueued, SelectWait,
          SelectNotified, SelectTimedOut, Waiting, NothingReceived,
          FrameReceived, GetChannelNumber, GetControllerType,
          GetParameterValue, IAmHereRequested, GetOutputValue, Reject, Reply,
          ReplySent, CheckTiming, ReadControl, AfterRead, NextOutput,
          OutputSent, OutputsDone, SendScheduledIAmHere, IAmHereSent, Tick,
          Idle, Sending
    <3>2. /\ frame.parameter.raw_info \in DOMAIN ParameterMapping
          /\ Fresh(MqttChannel, now)
      BY <2>2, <3>1 DEF FreshInv
    <3>3. idx = CONTROLLER_OUTPUT_MAX /\ pc = "reply"
      BY <2>2, <1>a DEF TaskInv
    <3>4. MqttChannel \in Controls /\ MqttChannel' = MqttChannel
      BY <3>1, <3>2, <3>3, ConstantsAssumption DEF MqttChannel, ForOutput
    <3>5. QED
      BY <3>1, <3>2, <3>4, <1>b, <1>d DEF Fresh
  <2>3. CASE GetChannelNumber \/ GetControllerType
    BY <2>3
    DEF GetChannelNumber, GetControllerType, IsController, GetsParameter,
        IsGetParameter, PT_CONTROLLER, PT_REMOTE_CONTROL
  <2>4. QED
    BY <2>1, <2>2, <2>3
    DEF Next, Bus, Owner, Driver, Task, Select, HandleRequest, SendOutputs,
        HandlePush, HandleNotify, RemoveHandler, Disable, OnControlValue, Fail,
        Publish, StartTask, LoopExit, SelectQueued, SelectWait, SelectNotified,
        SelectTimedOut, PopFrame, NothingReceived, FrameReceived,
        GetParameterValue, IAmHereRequested, GetOutputValue, Reject, Reply,
        ReplySent, CheckTiming, AfterRead, NextOutput, OutputSent, OutputsDone,
        SendScheduledIAmHere, IAmHereSent, Tick
<1>4. SentFresh'
  <2> SUFFICES ASSUME until' < MaxTime, value' # SENSOR_UNDEFINED
               PROVE  /\ pc' = "sendOutput" =>
                           Fresh(OutputMapping[idx], until - SEND_TIMEOUT)'
                      /\ pc' = "sendReply" /\ GetsParameter(frame')
                           => /\ frame'.parameter.raw_info
                                   \in DOMAIN ParameterMapping
                              /\ Fresh(MqttChannel, until - SEND_TIMEOUT)'
    BY DEF SentFresh
  <2>1. CASE ReadControl /\ pc' = "sendOutput"
    <3>1. ForOutput /\ UNCHANGED <<now, idx, frame>> /\ pc = "readControl"
          /\ until' = Deadline(SEND_TIMEOUT)
      BY <2>1 DEF ReadControl, AfterRead
    <3>2. /\ MqttChannel = OutputMapping[idx] /\ MqttChannel \in Controls
          /\ Fresh(MqttChannel, now)
      BY <3>1, <1>a DEF OutputInv, Reading, FreshInv, MqttChannel
    <3>3. until' - SEND_TIMEOUT = now
      BY <3>1, <1>c
    <3>4. QED
      BY <3>1, <3>2, <3>3, <2>1, <1>b, <1>d DEF Fresh
  <2>2. CASE Reply /\ pc' = "sendReply"
    <3>1. /\ UNCHANGED <<now, idx, frame, value>> /\ pc = "reply"
          /\ until' = Deadline(SEND_TIMEOUT)
      BY <2>2 DEF Reply
    <3>2. SUFFICES ASSUME GetsParameter(frame')
                   PROVE  /\ frame'.parameter.raw_info
                               \in DOMAIN ParameterMapping
                          /\ Fresh(MqttChannel, until - SEND_TIMEOUT)'
      BY <2>2
    <3>3. /\ frame.parameter.raw_info \in DOMAIN ParameterMapping
          /\ Fresh(MqttChannel, now) /\ idx = CONTROLLER_OUTPUT_MAX
      BY <3>1, <3>2, <1>a DEF FreshInv, TaskInv
    <3>4. MqttChannel \in Controls /\ MqttChannel' = MqttChannel
      BY <3>1, <3>3, ConstantsAssumption DEF MqttChannel, ForOutput
    <3>5. until' - SEND_TIMEOUT = now
      BY <3>1, <1>c
    <3>6. QED
      BY <3>1, <3>3, <3>4, <3>5, <1>b, <1>d DEF Fresh
  <2>3. CASE UNCHANGED <<pc, idx, frame, value, until>>
    <3>1. CASE pc = "sendOutput"
      <4>1. OutputMapping[idx] \in Controls
        BY <3>1, <1>a DEF TaskInv, OutputInv
      <4>2. Fresh(OutputMapping[idx], until - SEND_TIMEOUT)
        BY <2>3, <3>1 DEF FreshInv, SentFresh
      <4>3. QED
        BY <2>3, <3>1, <4>1, <4>2, <1>b, <1>d DEF Fresh
    <3>2. CASE pc = "sendReply" /\ GetsParameter(frame)
      <4>1. /\ frame.parameter.raw_info \in DOMAIN ParameterMapping
            /\ Fresh(MqttChannel, until - SEND_TIMEOUT)
        BY <2>3, <3>2 DEF FreshInv, SentFresh
      <4>2. idx = CONTROLLER_OUTPUT_MAX
        BY <3>2, <1>a DEF TaskInv
      <4>3. MqttChannel \in Controls /\ MqttChannel' = MqttChannel
        BY <2>3, <4>1, <4>2, ConstantsAssumption DEF MqttChannel, ForOutput
      <4>4. QED
        BY <2>3, <3>2, <4>1, <4>3, <1>b, <1>d DEF Fresh
    <3>3. QED
      BY <2>3, <3>1, <3>2
  <2>4. CASE IAmHereRequested
    BY <2>4
    DEF IAmHereRequested, IsController, GetsParameter, IsGetParameter,
        PT_CONTROLLER, PT_REMOTE_CONTROL
  <2>5. CASE CheckTiming
    BY <2>5 DEF CheckTiming, AfterRead
  <2>6. QED
    BY <2>1, <2>2, <2>3, <2>4, <2>5
    DEF Next, Bus, Owner, Driver, Task, Select, HandleRequest, SendOutputs,
        HandlePush, HandleNotify, RemoveHandler, Disable, OnControlValue, Fail,
        Publish, StartTask, LoopExit, SelectQueued, SelectWait, SelectNotified,
        SelectTimedOut, PopFrame, NothingReceived, FrameReceived,
        GetChannelNumber, GetControllerType, GetParameterValue, GetOutputValue,
        Reject, Reply, ReplySent, ReadControl, AfterRead, NextOutput,
        OutputSent, OutputsDone, SendScheduledIAmHere, IAmHereSent, Tick
<1>5. QED
  BY <1>1, <1>2, <1>3, <1>4 DEF FreshInv

\* At first every control counts as published when the process starts.
LEMMA FreshInit == Init => FreshInv
<1> SUFFICES ASSUME Init
             PROVE  FreshInv
  OBVIOUS
<1>1. \A c \in Controls : LastUpdateTimePoint[c] = now /\ publishedAt[c] = now
  BY DEF Init
<1>2. now <= now
  BY DEF Init, START
<1>3. QED
  BY <1>1, <1>2 DEF Init, FreshInv, SentFresh

\* A value that nobody has published for longer than its value_timeout_min is
\* not put on the bus as a number (read_mqtt_value), for any controls, time-outs
\* and mapping: between the time-out check and the Send the task only computes,
\* and the time stamp the check looks at never runs ahead of the value.
THEOREM StaleValuesNotSent ==
  ASSUME Urgent
  PROVE  Spec => []StaleNotSent
<1>1. Init => FreshInv
  BY FreshInit
<1>2. IInv /\ FreshInv /\ [Next]_vars => FreshInv'
  BY FreshStep
<1>3. IInv /\ FreshInv => StaleNotSent
  BY DEF FreshInv, SentFresh, StaleNotSent, Fresh
<1>4. QED
  BY Inductive, <1>1, <1>2, <1>3, PTL DEF Spec

-----------------------------------------------------------------------------
\* How long a turn of the loop takes.

\* The frames that Handle queues, and the bus on which each of them is served
\* to the end of its turn: none makes handle_request throw.
Accepted == {f \in BusFrames : IsForMe(f)}

AllServed == \A f \in Accepted : Answerable(f) \/ GetsOutput(f)

\* The task handles accepted frames only, and its waits are bounded.
LapInv ==
  /\ CanFrames \in Seq(Accepted)
  /\ frame \in Accepted \cup {NoFrame}
  /\ Waiting => now <= until /\ until <= now + READ_TIMEOUT
  /\ Sending => now <= until /\ until <= now + SEND_TIMEOUT

\* The Sends of a turn are numbered: 0 is the reply, ch + 1 that of output ch,
\* the last one I_AM_HERE.  Those the task is done with:
Served ==
  IF \/ pc \in {"outputs", "sendOutput", "iamhere", "sendIAmHere"}
     \/ Reading /\ ForOutput
  THEN idx + 1 ELSE 0

UnderWay == IF Sending THEN 1 ELSE 0

\* The Sends from here until the task is done with number n, in this turn or the
\* next one, the one under way aside.
ToCome(n) ==
  (IF Served <= n THEN n ELSE CONTROLLER_OUTPUT_MAX + 2 + n) + 1
    - Served - UnderWay

Sends(k) == k * SEND_TIMEOUT

\* The time that may pass until the task is done with Send n: the wait of the
\* next turn, the wait or Send under way, and the Sends to come.
WaitToCome(n) ==
  IF pc = "loop" \/ Served > n THEN READ_TIMEOUT ELSE 0

Rest == IF Waiting \/ Sending THEN until - now ELSE 0

Left(n) == WaitToCome(n) + Rest + Sends(ToCome(n))

\* More Sends take more time, and one more takes SEND_TIMEOUT more.
LEMMA SendsTime ==
  /\ \A k \in Nat : Sends(k) \in Nat /\ Sends(k + 1) = Sends(k) + SEND_TIMEOUT
  /\ \A j, k \in Nat : j <= k => Sends(j) <= Sends(k)
<1>1. SEND_TIMEOUT \in Nat
  BY DurationsAssumption
<1>2. ASSUME NEW k \in Nat
      PROVE  Sends(k) \in Nat /\ Sends(k + 1) = Sends(k) + SEND_TIMEOUT
  BY <1>1 DEF Sends
<1>3. ASSUME NEW j \in Nat, NEW k \in Nat, j <= k
      PROVE  Sends(j) <= Sends(k)
  <2>1. PICK d \in Nat : k = j + d
    <3>1. k - j \in Nat /\ k = j + (k - j)
      BY <1>3
    <3>2. QED
      BY <3>1
  <2>2. Sends(k) = Sends(j) + d * SEND_TIMEOUT /\ d * SEND_TIMEOUT >= 0
    BY <1>1, <2>1 DEF Sends
  <2>3. QED
    BY <1>2, <2>2, <1>1 DEF Sends
<1>4. QED
  BY <1>2, <1>3

LEMMA LapIsSends ==
  Lap = READ_TIMEOUT + Sends(CONTROLLER_OUTPUT_MAX + 2) /\ Lap \in Nat
BY ConstantsAssumption, DurationsAssumption DEF Lap, Sends

\* The task never has more Sends before it than a turn has.
LEMMA ToComeBounds ==
  ASSUME IInv, InLoop, NEW n \in 0 .. CONTROLLER_OUTPUT_MAX
  PROVE  /\ ToCome(n) \in Nat
         /\ ToCome(n) + UnderWay <= CONTROLLER_OUTPUT_MAX + 2
         /\ Served \in Nat /\ Served <= CONTROLLER_OUTPUT_MAX + 1
<1>1. /\ idx \in Nat /\ idx <= CONTROLLER_OUTPUT_MAX
      /\ CONTROLLER_OUTPUT_MAX \in Nat
  BY TimesAreNumbers, ConstantsAssumption DEF IInv
<1>2. Served \in Nat /\ Served <= CONTROLLER_OUTPUT_MAX + 1
  BY <1>1 DEF Served
<1>3. n \in Nat /\ n <= CONTROLLER_OUTPUT_MAX
  BY <1>1
<1>4. UnderWay \in {0, 1}
  BY DEF UnderWay
<1> HIDE DEF Served, UnderWay
<1>5. QED
  BY <1>1, <1>2, <1>3, <1>4 DEF ToCome

\* From anywhere in the loop the task is done with Send n within one turn.
LEMMA LeftBounds ==
  ASSUME IInv, LapInv, InLoop, NEW n \in 0 .. CONTROLLER_OUTPUT_MAX
  PROVE  Left(n) \in Nat /\ Left(n) <= Lap
<1>1. /\ now \in Nat /\ until \in Nat
      /\ READ_TIMEOUT \in Nat /\ SEND_TIMEOUT \in Nat
      /\ CONTROLLER_OUTPUT_MAX \in Nat
  BY TimesAreNumbers, DurationsAssumption, ConstantsAssumption DEF IInv
<1>2. Waiting => Served = 0 /\ ~Sending /\ pc # "loop"
  BY DEF Waiting, Served, Sending, Reading
<1>3. Sending => pc # "loop"
  BY DEF Sending
<1>4. /\ Sends(ToCome(n)) \in Nat
      /\ Sends(ToCome(n)) + (IF Sending THEN SEND_TIMEOUT ELSE 0)
           <= Sends(CONTROLLER_OUTPUT_MAX + 2)
  <2>1. CASE Sending
    <3>1. ToCome(n) \in Nat /\ ToCome(n) + 1 <= CONTROLLER_OUTPUT_MAX + 2
      BY <2>1, ToComeBounds DEF UnderWay
    <3>2. Sends(ToCome(n) + 1) <= Sends(CONTROLLER_OUTPUT_MAX + 2)
      BY <3>1, <1>1, SendsTime
    <3>3. QED
      BY <2>1, <3>1, <3>2, SendsTime
  <2>2. CASE ~Sending
    <3>1. ToCome(n) \in Nat /\ ToCome(n) <= CONTROLLER_OUTPUT_MAX + 2
      BY <2>2, ToComeBounds DEF UnderWay
    <3>2. /\ Sends(ToCome(n)) <= Sends(CONTROLLER_OUTPUT_MAX + 2)
          /\ Sends(ToCome(n)) \in Nat
      BY <3>1, <1>1, SendsTime
    <3>3. QED
      BY <2>2, <3>2
  <2>3. QED
    BY <2>1, <2>2
<1>5. /\ Waiting => now <= until /\ until <= now + READ_TIMEOUT
      /\ Sending => now <= until /\ until <= now + SEND_TIMEOUT
  BY DEF LapInv
<1>6. Waiting => ~(Served > n)
  BY <1>2
<1> DEFINE send == IF Sending THEN SEND_TIMEOUT ELSE 0
<1>7. /\ WaitToCome(n) \in Nat /\ Rest \in Nat
      /\ WaitToCome(n) + Rest <= READ_TIMEOUT + send
  BY <1>1, <1>2, <1>3, <1>5, <1>6 DEF WaitToCome, Rest
<1>9. Sends(ToCome(n)) + send <= Sends(CONTROLLER_OUTPUT_MAX + 2)
  BY <1>4
<1>10. Sends(CONTROLLER_OUTPUT_MAX + 2) \in Nat /\ send \in Nat
  BY <1>1, SendsTime
<1> HIDE DEF send
<1>11. QED
  BY <1>1, <1>4, <1>7, <1>9, <1>10, LapIsSends DEF Left

\* So it does after a step.
LeftBounded ==
  IInv /\ LapInv /\ InLoop =>
    \A n \in 0 .. CONTROLLER_OUTPUT_MAX : Left(n) \in Nat /\ Left(n) <= Lap

LEMMA LeftBoundsNext == LeftBounded'
<1>1. LeftBounded
  BY LeftBounds DEF LeftBounded
<1>2. QED
  BY <1>1, PTL

\* On such a bus no turn is abandoned.
LEMMA NoneRejected ==
  ASSUME AllServed, IInv, LapInv
  PROVE  ~Reject /\ (pc = "reply" => CanRespond(frame))
<1>1. pc \in {"request", "reply"} => Answerable(frame) \/ GetsOutput(frame)
  <2>1. pc \in {"request", "reply"} => frame # NoFrame
    BY ConstantsAssumption DEF IInv, TaskInv
  <2>2. QED
    BY <2>1 DEF LapInv, AllServed
<1>2. ~Reject
  BY <1>1 DEF Reject, Answerable
<1>3. pc = "reply" => /\ ~IsController(frame, I_AM_HERE)
                      /\ ~GetsOutput(frame)
  BY DEF IInv, TaskInv, GetsOutput, GetsParameter, IsGetParameter, IsController,
     GET_OUTPUT_VALUE, GET_CHANNEL_NUMBER, GET_CONTROLLER_TYPE, I_AM_HERE,
     PT_CONTROLLER, PT_REMOTE_CONTROL
<1>4. QED
  BY <1>1, <1>2, <1>3 DEF Answerable

\* Every step keeps the frames accepted and the waits bounded.
LEMMA LapInvStep ==
  ASSUME Urgent, IInv, LapInv, [Next]_vars
  PROVE  LapInv'
<1>a. TypeOK
  BY DEF IInv
<1>b. /\ now \in Nat /\ until \in Nat
      /\ READ_TIMEOUT \in Nat /\ SEND_TIMEOUT \in Nat
  BY <1>a, TimesAreNumbers, DurationsAssumption
<1>c. /\ now <= Deadline(READ_TIMEOUT)
      /\ Deadline(READ_TIMEOUT) <= now + READ_TIMEOUT
      /\ now <= Deadline(SEND_TIMEOUT)
      /\ Deadline(SEND_TIMEOUT) <= now + SEND_TIMEOUT
  BY <1>a, <1>b, DeadlineBounds
<1>d. CanFrames # << >> => /\ Head(CanFrames) \in Accepted
                           /\ Tail(CanFrames) \in Seq(Accepted)
  BY HeadTailSeq DEF LapInv
<1>1. CanFrames' \in Seq(Accepted)
  <2>1. ASSUME NEW f \in BusFrames, HandlePush(f)
        PROVE  CanFrames' \in Seq(Accepted)
    BY <2>1 DEF HandlePush, Accepted, LapInv
  <2>2. CASE CanFrames # << >> /\ PopFrame
    BY <2>2, <1>d DEF PopFrame
  <2>3. CASE UNCHANGED CanFrames
    BY <2>3 DEF LapInv
  <2>4. QED
    BY <2>1, <2>2, <2>3
    DEF Next, Bus, Owner, Driver, Task, Select, HandleRequest, SendOutputs,
        HandleNotify, RemoveHandler, Disable, OnControlValue, Fail, Publish,
        StartTask, LoopExit, SelectQueued, SelectWait, SelectNotified,
        SelectTimedOut, NothingReceived, FrameReceived, GetChannelNumber,
        GetControllerType, GetParameterValue, IAmHereRequested, GetOutputValue,
        Reject, Reply, ReplySent, CheckTiming, ReadControl, NextOutput,
        OutputSent, OutputsDone, SendScheduledIAmHere, IAmHereSent, Tick
<1>2. frame' \in Accepted \cup {NoFrame}
  <2>1. CASE CanFrames # << >> /\ PopFrame
    BY <2>1, <1>d DEF PopFrame
  <2>2. CASE UNCHANGED frame
    BY <2>2 DEF LapInv
  <2>3. CASE frame' = NoFrame
    BY <2>3
  <2>4. QED
    BY <2>1, <2>2, <2>3
    DEF Next, Bus, Owner, Driver, Task, Select, HandleRequest, SendOutputs,
        HandlePush, HandleNotify, RemoveHandler, Disable, OnControlValue, Fail,
        Publish, StartTask, LoopExit, SelectQueued, SelectWait, SelectNotified,
        SelectTimedOut, NothingReceived, FrameReceived, GetChannelNumber,
        GetControllerType, GetParameterValue, IAmHereRequested, GetOutputValue,
        Reject, Reply, ReplySent, CheckTiming, ReadControl, NextOutput,
        OutputSent, OutputsDone, SendScheduledIAmHere, IAmHereSent, Tick
<1>3. /\ Waiting' => now' <= until' /\ until' <= now' + READ_TIMEOUT
      /\ Sending' => now' <= until' /\ until' <= now' + SEND_TIMEOUT
  <2>1. CASE Tick
    BY <2>1, <1>b DEF Tick, Idle, Waiting, Sending, LapInv
  <2>2. CASE UNCHANGED <<now, pc, until>>
    BY <2>2 DEF LapInv, Waiting, Sending
  <2>3. CASE UNCHANGED now /\ pc' = "waiting" /\ until' = Deadline(READ_TIMEOUT)
    BY <2>3, <1>c DEF Waiting, Sending
  <2>4. CASE /\ UNCHANGED now /\ until' = Deadline(SEND_TIMEOUT)
             /\ pc' \in {"sendReply", "sendOutput", "sendIAmHere"}
    BY <2>4, <1>c DEF Waiting, Sending
  <2>5. CASE pc' \notin {"waiting", "sendReply", "sendOutput", "sendIAmHere"}
    BY <2>5 DEF Waiting, Sending
  <2>6. QED
    BY <2>1, <2>2, <2>3, <2>4, <2>5
    DEF Next, Bus, Owner, Driver, Task, Select, HandleRequest, SendOutputs,
        HandlePush, HandleNotify, RemoveHandler, Disable, OnControlValue, Fail,
        Publish, StartTask, LoopExit, SelectQueued, SelectWait, SelectNotified,
        SelectTimedOut, PopFrame, NothingReceived, FrameReceived,
        GetChannelNumber, GetControllerType, GetParameterValue,
        IAmHereRequested, GetOutputValue, Reject, Reply, ReplySent,
        CheckTiming, ReadControl, AfterRead, NextOutput, OutputSent,
        OutputsDone, SendScheduledIAmHere, IAmHereSent
<1>4. QED
  BY <1>1, <1>2, <1>3 DEF LapInv

\* How the task moves through the Sends of a turn: a step begins a Send, ends
\* one or passes it over, or begins the next turn.
LEMMA TurnStep ==
  ASSUME Urgent, AllServed, IInv, LapInv, [Next]_vars, InLoop, InLoop',
         ~(NothingReceived /\ pc' = "iamhere")
  PROVE  /\ \/ Served' = Served /\ (Sending => Sending')
            \/ Served' = Served + 1 /\ ~Sending'
            \/ Served = CONTROLLER_OUTPUT_MAX + 1 /\ Served' = 0 /\ ~Sending'
         /\ pc' = "loop" => pc = "loop" \/ Served = CONTROLLER_OUTPUT_MAX + 1
         /\ Waiting' => pc \in {"loop", "waiting"}
         /\ Sending' => ~Waiting
         /\ (Waiting /\ Waiting') \/ (Sending /\ Sending') => UNCHANGED until
         /\ now' # now => /\ UNCHANGED pc /\ now' = now + 1
                          /\ Waiting \/ Sending
<1>a. /\ TaskInv
      /\ idx \in 0 .. CONTROLLER_OUTPUT_MAX /\ CONTROLLER_OUTPUT_MAX \in Nat
  BY ConstantsAssumption DEF IInv, TypeOK
<1>b. ~Reject /\ (pc = "reply" => CanRespond(frame))
  BY NoneRejected
<1> USE DEF Served, Sending, Waiting, Reading, InLoop
<1>1. CASE UNCHANGED <<now, pc, idx, until>>
  BY <1>1 DEF ForOutput
<1>2. CASE Tick
  BY <1>2 DEF Tick, Idle, ForOutput
<1>3. CASE Select
  BY <1>3, <1>a
  DEF Select, StartTask, LoopExit, SelectQueued, SelectWait, SelectNotified,
      SelectTimedOut, PopFrame
<1>4. CASE NothingReceived
  BY <1>4, <1>a DEF NothingReceived, TaskInv, ForOutput
<1>5. CASE FrameReceived
  BY <1>5 DEF FrameReceived
<1>6. CASE GetChannelNumber \/ GetControllerType \/ IAmHereRequested
  BY <1>6 DEF GetChannelNumber, GetControllerType, IAmHereRequested
<1>7. CASE GetParameterValue
  BY <1>7, <1>a DEF GetParameterValue, TaskInv, ForOutput
<1>8. CASE GetOutputValue \/ ReplySent
  BY <1>8, <1>a DEF GetOutputValue, ReplySent
<1>9. CASE Reply
  BY <1>9, <1>b DEF Reply
<1>10. CASE CheckTiming \/ ReadControl
  BY <1>10, <1>a DEF CheckTiming, ReadControl, AfterRead, ForOutput
<1>11. CASE NextOutput \/ OutputSent
  BY <1>11, <1>a DEF NextOutput, OutputSent, ForOutput
<1>12. CASE OutputsDone
  BY <1>12, <1>a DEF OutputsDone, ForOutput
<1>13. CASE SendScheduledIAmHere \/ IAmHereSent
  BY <1>13, <1>a DEF SendScheduledIAmHere, IAmHereSent, TaskInv
<1>14. QED
  BY <1>b, <1>1, <1>2, <1>3, <1>4, <1>5, <1>6, <1>7, <1>8, <1>9, <1>10, <1>11,
     <1>12, <1>13
  DEF Next, Bus, Owner, Driver, Task, HandleRequest, SendOutputs, HandlePush,
      HandleNotify, RemoveHandler, Disable, OnControlValue, Fail, Publish

\* The Sends to come before and after such a step, as numbers: m outputs, s
\* Sends done with before it and t after it, u and v under way.
LEMMA ToComeNumbers ==
  ASSUME NEW m \in Nat, NEW n \in 0 .. m,
         NEW s \in 0 .. m + 1, NEW t \in 0 .. m + 1,
         NEW u \in {0, 1}, NEW v \in {0, 1},
         s > n \/ t <= n,
         \/ t = s /\ u <= v
         \/ t = s + 1 /\ v = 0
         \/ s = m + 1 /\ t = 0 /\ v = 0,
         NEW a, a = (IF s <= n THEN n ELSE m + 2 + n) + 1 - s - u,
         NEW b, b = (IF t <= n THEN n ELSE m + 2 + n) + 1 - t - v
  PROVE  /\ b \in Nat /\ b <= a /\ (v > u => b + 1 <= a)
         /\ t > n => s > n
<1>1. CASE t <= n
  BY <1>1
<1>2. CASE t > n
  BY <1>2
<1>3. QED
  BY <1>1, <1>2

\* An idle controller goes past all the outputs at once.
LEMMA IdlePasses ==
  ASSUME IInv', NothingReceived, pc' = "iamhere"
  PROVE  Served = 0 /\ Served' = CONTROLLER_OUTPUT_MAX + 1
BY DEF NothingReceived, Served, Reading, IInv, TaskInv

\* Unless the task goes past Send n, the Sends to come get no more, and one
\* that begins is one of them.
LEMMA ToComeStep ==
  ASSUME Urgent, AllServed, IInv, LapInv, [Next]_vars, InLoop, InLoop', IInv',
         NEW n \in 0 .. CONTROLLER_OUTPUT_MAX, Served > n \/ Served' <= n
  PROVE  /\ ToCome(n)' \in Nat /\ ToCome(n)' <= ToCome(n)
         /\ Sending' /\ ~Sending => ToCome(n)' + 1 <= ToCome(n)
         /\ Served' > n => Served > n
<1>1. /\ n \in Nat /\ CONTROLLER_OUTPUT_MAX \in Nat
      /\ n <= CONTROLLER_OUTPUT_MAX
      /\ Served \in Nat /\ Served <= CONTROLLER_OUTPUT_MAX + 1
  BY ToComeBounds, ConstantsAssumption
<1>2. Served' \in Nat /\ Served' <= CONTROLLER_OUTPUT_MAX + 1
  <2>1. idx' \in Nat /\ idx' <= CONTROLLER_OUTPUT_MAX
    BY ConstantsAssumption DEF IInv, TypeOK
  <2>2. Served' = 0 \/ Served' = idx' + 1
    BY DEF Served
  <2> HIDE DEF Served
  <2>3. QED
    BY <2>1, <2>2, <1>1
<1>3. ~(NothingReceived /\ pc' = "iamhere")
  BY <1>1, IdlePasses
<1>4. \/ Served' = Served /\ (Sending => Sending')
      \/ Served' = Served + 1 /\ ~Sending'
      \/ Served = CONTROLLER_OUTPUT_MAX + 1 /\ Served' = 0 /\ ~Sending'
  BY <1>3, TurnStep
<1>5. /\ UnderWay = 0 \/ UnderWay = 1
      /\ UnderWay' = 0 \/ UnderWay' = 1
      /\ (Sending => Sending') => UnderWay <= UnderWay'
      /\ ~Sending' => UnderWay' = 0
      /\ Sending' /\ ~Sending => UnderWay' > UnderWay
  BY DEF UnderWay
<1>6. /\ ToCome(n) =
           (IF Served <= n THEN n ELSE CONTROLLER_OUTPUT_MAX + 2 + n) + 1
             - Served - UnderWay
      /\ ToCome(n)' =
           (IF Served' <= n THEN n ELSE CONTROLLER_OUTPUT_MAX + 2 + n) + 1
             - Served' - UnderWay'
  BY DEF ToCome
<1>7. \/ Served' = Served /\ UnderWay <= UnderWay'
      \/ Served' = Served + 1 /\ UnderWay' = 0
      \/ Served = CONTROLLER_OUTPUT_MAX + 1 /\ Served' = 0 /\ UnderWay' = 0
  BY <1>4, <1>5
<1>8. Served \in 0 .. CONTROLLER_OUTPUT_MAX + 1
      /\ Served' \in 0 .. CONTROLLER_OUTPUT_MAX + 1
  BY <1>1, <1>2
<1> HIDE DEF Served, Sending, UnderWay, ToCome
<1>9. /\ ToCome(n)' \in Nat /\ ToCome(n)' <= ToCome(n)
      /\ UnderWay' > UnderWay => ToCome(n)' + 1 <= ToCome(n)
      /\ Served' > n => Served > n
  BY <1>1, <1>5, <1>6, <1>7, <1>8, ToComeNumbers
<1>10. QED
  BY <1>5, <1>9

\* Unless the task goes past Send n, the time by which it is done with it does
\* not move: what is left shrinks as the clock advances.
LEMMA LeftStep ==
  ASSUME Urgent, AllServed, IInv, LapInv, [Next]_vars, InLoop, InLoop',
         IInv', LapInv',
         NEW n \in 0 .. CONTROLLER_OUTPUT_MAX, Served > n \/ Served' <= n
  PROVE  now' + Left(n)' <= now + Left(n)
<1>1. /\ now \in Nat /\ until \in Nat /\ now' \in Nat /\ until' \in Nat
      /\ READ_TIMEOUT \in Nat /\ SEND_TIMEOUT \in Nat
  <2>1. now' \in Nat /\ until' \in Nat
    BY ConstantsAssumption DEF IInv, TypeOK, START
  <2>2. QED
    BY <2>1, TimesAreNumbers, DurationsAssumption DEF IInv
<1>2. /\ ToCome(n) \in Nat
      /\ ToCome(n)' \in Nat /\ ToCome(n)' <= ToCome(n)
      /\ Sending' /\ ~Sending => ToCome(n)' + 1 <= ToCome(n)
      /\ Served' > n => Served > n
  BY ToComeBounds, ToComeStep
<1>3. /\ Sends(ToCome(n)) \in Nat /\ Sends(ToCome(n)') \in Nat
      /\ Sends(ToCome(n)') <= Sends(ToCome(n))
      /\ Sending' /\ ~Sending
           => Sends(ToCome(n)') + SEND_TIMEOUT <= Sends(ToCome(n))
  <2> HIDE DEF ToCome, Sending
  <2>1. /\ Sends(ToCome(n)) \in Nat /\ Sends(ToCome(n)') \in Nat
        /\ Sends(ToCome(n)') <= Sends(ToCome(n))
    BY <1>2, SendsTime
  <2>2. ASSUME Sending', ~Sending
        PROVE  Sends(ToCome(n)') + SEND_TIMEOUT <= Sends(ToCome(n))
    <3>1. Sends(ToCome(n)' + 1) <= Sends(ToCome(n))
      BY <1>2, <2>2, SendsTime
    <3>2. QED
      BY <1>2, <3>1, SendsTime
  <2>3. QED
    BY <2>1, <2>2
<1>4. ~(NothingReceived /\ pc' = "iamhere")
  BY IdlePasses, ConstantsAssumption
<1>5. /\ now' # now => UNCHANGED pc /\ now' = now + 1 /\ (Waiting \/ Sending)
      /\ (Waiting /\ Waiting') \/ (Sending /\ Sending') => UNCHANGED until
      /\ Waiting' => pc \in {"loop", "waiting"}
      /\ Sending' => ~Waiting
      /\ pc' = "loop" => pc = "loop" \/ Served = CONTROLLER_OUTPUT_MAX + 1
  BY <1>4, TurnStep
<1>6. /\ Waiting' => now' <= until' /\ until' <= now' + READ_TIMEOUT
      /\ Sending' => now' <= until' /\ until' <= now' + SEND_TIMEOUT
      /\ Waiting \/ Sending => now <= until
  BY DEF LapInv
<1>7. /\ WaitToCome(n) \in Nat /\ WaitToCome(n)' \in Nat
      /\ WaitToCome(n)' <= WaitToCome(n)
  <2>1. CONTROLLER_OUTPUT_MAX + 1 > n
    BY ConstantsAssumption
  <2>2. pc' = "loop" \/ Served' > n => pc = "loop" \/ Served > n
    BY <1>2, <1>5, <2>1
  <2>3. QED
    BY <1>1, <2>2 DEF WaitToCome
<1>t. PICK t \in Nat, u \in Nat : t = now' /\ u = until'
  BY <1>1
<1>u. /\ Waiting' => u - t \in Nat /\ u - t <= READ_TIMEOUT
      /\ Sending' => u - t \in Nat /\ u - t <= SEND_TIMEOUT
  <2>1. /\ Waiting' => t <= u /\ u <= t + READ_TIMEOUT
        /\ Sending' => t <= u /\ u <= t + SEND_TIMEOUT
    BY <1>6, <1>t
  <2>2. QED
    BY <2>1, DurationsAssumption
<1>v. Rest' = IF Waiting' \/ Sending' THEN u - t ELSE 0
  BY <1>t DEF Rest
<1>8. /\ Rest \in Nat /\ Rest' \in Nat
      /\ Waiting' => Rest' <= READ_TIMEOUT
      /\ Sending' => Rest' <= SEND_TIMEOUT
  <2>1. Rest \in Nat
    BY <1>1, <1>6 DEF Rest
  <2>2. CASE Waiting' \/ Sending'
    BY <1>u, <1>v, <2>1, <2>2
  <2>3. CASE ~Waiting' /\ ~Sending'
    BY <1>v, <2>1, <2>3
  <2>4. QED
    BY <2>2, <2>3
<1>9. CASE (Waiting /\ Waiting') \/ (Sending /\ Sending')
  <2>1. Rest' = u - t /\ Rest = u - now
    BY <1>5, <1>v, <1>9, <1>t DEF Rest
  <2>2. QED
    BY <1>1, <1>3, <1>7, <1>t, <2>1 DEF Left
<1>10. CASE Waiting' /\ ~Waiting
  <2>1. pc = "loop" /\ pc' = "waiting" /\ now' = now
    BY <1>5, <1>10 DEF Waiting
  <2>2. Rest = 0 /\ WaitToCome(n) = READ_TIMEOUT
    BY <2>1 DEF Rest, Waiting, Sending, WaitToCome
  <2>3. Rest' <= READ_TIMEOUT
    BY <1>8, <1>10
  <2>4. WaitToCome(n)' = 0
    <3>1. Served' = 0
      BY <2>1 DEF Served, Reading
    <3>2. QED
      BY <2>1, <3>1, ConstantsAssumption DEF WaitToCome
  <2>5. QED
    BY <1>1, <1>3, <2>1, <2>2, <2>3, <2>4, <1>7, <1>8 DEF Left
<1>11. CASE Sending' /\ ~Sending
  <2>1. now' = now /\ ~Waiting
    BY <1>5, <1>11 DEF Sending
  <2>2. Rest = 0 /\ Rest' <= SEND_TIMEOUT
    BY <1>8, <1>11, <2>1 DEF Rest
  <2>3. QED
    BY <1>1, <1>3, <1>7, <1>8, <1>11, <2>1, <2>2 DEF Left
<1>12. CASE ~Waiting' /\ ~Sending'
  <2>1. now' = now
    BY <1>5, <1>12 DEF Waiting, Sending
  <2>2. Rest' = 0
    BY <1>12 DEF Rest
  <2>3. QED
    BY <1>1, <1>3, <1>7, <1>8, <2>1, <2>2 DEF Left
<1>13. QED
  BY <1>9, <1>10, <1>11, <1>12

\* The task goes past Send n while it computes, and begins no other yet.
LEMMA PassStep ==
  ASSUME Urgent, AllServed, IInv, LapInv, [Next]_vars, InLoop, InLoop', IInv',
         NEW n \in 0 .. CONTROLLER_OUTPUT_MAX, Served <= n, Served' > n
  PROVE  now' = now /\ ~Sending'
<1>1. CASE NothingReceived /\ pc' = "iamhere"
  BY <1>1 DEF NothingReceived, Sending
<1>2. CASE ~(NothingReceived /\ pc' = "iamhere")
  <2>1. /\ \/ Served' = Served
           \/ ~Sending'
  BY <1>2, TurnStep
  <2>2. Served' # Served
    BY ToComeBounds
  <2>3. now' # now => Served' = Served
    BY TickStep DEF Tick, Served, Reading, ForOutput
  <2>4. QED
    BY <2>1, <2>2, <2>3
<1>3. QED
  BY <1>1, <1>2

\* The loop is entered once, by StartTask.
LEMMA LoopEntered ==
  ASSUME IInv, [Next]_vars, InLoop', ~InLoop
  PROVE  StartTask
BY DEF InLoop, Next, Bus, Owner, Driver, Task, Select, HandleRequest,
   SendOutputs, HandlePush, HandleNotify, RemoveHandler, Disable,
   OnControlValue, Fail, Publish, LoopExit, SelectQueued, SelectWait,
   SelectNotified, SelectTimedOut, Waiting, NothingReceived, FrameReceived,
   GetChannelNumber, GetControllerType, GetParameterValue, IAmHereRequested,
   GetOutputValue, Reject, Reply, ReplySent, CheckTiming, ReadControl,
   NextOutput, OutputSent, OutputsDone, SendScheduledIAmHere, IAmHereSent, Tick

\* The initial state, and every step, keep the bounds a turn is built from.
LEMMA LapInit == Init => LapInv
BY DEF Init, LapInv, Waiting, Sending

-----------------------------------------------------------------------------
\* I_AM_HERE is announced in time.

\* The outputs are behind and I_AM_HERE is next.
AtIAmHere == Served > CONTROLLER_OUTPUT_MAX /\ ~Sending

\* The task comes to I_AM_HERE while it is due for less than a turn.
KeepInv ==
  InLoop =>
    IF AtIAmHere THEN now <= SendIAmHereTime + Lap
    ELSE now + Left(CONTROLLER_OUTPUT_MAX) <= SendIAmHereTime + Lap

\* Every step keeps it so.
LEMMA KeepStep ==
  ASSUME Urgent, AllServed, IInv, LapInv, KeepInv, [Next]_vars
  PROVE  KeepInv'
<1> DEFINE m == CONTROLLER_OUTPUT_MAX
<1>a. IInv' /\ LapInv'
  BY TypeStep, TaskStep, ChannelStep, OutputStep, LapInvStep DEF IInv
<1>b. /\ m \in 0 .. CONTROLLER_OUTPUT_MAX /\ m \in Nat
      /\ now \in Nat /\ SendIAmHereTime \in Nat
      /\ Lap \in Nat /\ KEEP_ALIVE_INTERVAL \in Nat
  BY TimesAreNumbers, ConstantsAssumption, DurationsAssumption, LapIsSends
  DEF IInv
<1> SUFFICES ASSUME InLoop'
             PROVE  IF AtIAmHere' THEN now' <= SendIAmHereTime' + Lap
                    ELSE now' + Left(m)' <= SendIAmHereTime' + Lap
  BY DEF KeepInv
<1>c. Left(m)' \in Nat /\ Left(m)' <= Lap
  BY <1>a, <1>b, LeftBoundsNext DEF LeftBounded
<1>d. InLoop => Left(m) \in Nat /\ Left(m) <= Lap
  BY <1>b, LeftBounds
<1>e. now' \in Nat /\ SendIAmHereTime' \in Nat
  <2>1. now' \in START .. MaxTime /\ SendIAmHereTime' \in TimePoint
    BY <1>a DEF IInv, TypeOK
  <2>2. START .. MaxTime \subseteq Nat /\ TimePoint \subseteq Nat
    BY ConstantsAssumption, DurationsAssumption DEF TimePoint, START
  <2>3. QED
    BY <2>1, <2>2
<1>f. PICK t \in Nat, s \in Nat, l \in Nat :
             t = now' /\ s = SendIAmHereTime' /\ l = Left(m)'
  BY <1>c, <1>e
<1> HIDE DEF m
<1>g. SUFFICES IF AtIAmHere' THEN t <= s + Lap ELSE t + l <= s + Lap
  BY <1>f
\* A time point not in the past leaves a whole turn.
<1>1. ASSUME t = now, now <= s
      PROVE  t <= s + Lap /\ t + l <= s + Lap
  <2>1. l <= Lap
    BY <1>c, <1>f
  <2>2. QED
    BY <1>1, <1>b, <2>1
<1>2. CASE StartTask \/ IAmHereRequested
  <2>1. t = now /\ (s = now \/ s = now + KEEP_ALIVE_INTERVAL)
    BY <1>2, <1>f DEF StartTask, IAmHereRequested
  <2>2. QED
    BY <2>1, <1>1, <1>b
<1>3. CASE SendScheduledIAmHere
  <2>1. t = now /\ (s = now + KEEP_ALIVE_INTERVAL
                      \/ (s = SendIAmHereTime /\ SendIAmHereTime > now))
    BY <1>3, <1>f DEF SendScheduledIAmHere
  <2>2. QED
    BY <2>1, <1>1, <1>b
<1>4. CASE ~StartTask /\ UNCHANGED SendIAmHereTime
  <2>1. InLoop /\ s = SendIAmHereTime
    BY <1>4, <1>f, LoopEntered
  <2>2. CASE AtIAmHere
    <3>1. pc = "iamhere" \/ (pc = "outputs" /\ ~ForOutput)
      <4>1. Reading => ~(ForOutput /\ idx + 1 > CONTROLLER_OUTPUT_MAX)
        BY TimesAreNumbers, ConstantsAssumption DEF IInv, ForOutput
      <4>2. QED
        BY <2>1, <2>2, <4>1, <1>b, TimesAreNumbers
        DEF AtIAmHere, Served, Sending, ForOutput, IInv, m
    <3>2. now <= s + Lap
      BY <2>1, <2>2 DEF KeepInv
    <3>3. CASE SendScheduledIAmHere
      BY <3>3, <1>3
    <3>4. CASE UNCHANGED <<now, pc, idx>> \/ OutputsDone
      <4>1. AtIAmHere' /\ t = now
        BY <2>2, <3>1, <3>4, <1>f
        DEF OutputsDone, AtIAmHere, Served, Sending, Reading, ForOutput
      <4>2. QED
        BY <3>2, <4>1
    <3>5. QED
      BY <3>1, <3>3, <3>4, TickStep
      DEF Next, Bus, Owner, Driver, Task, Select, HandleRequest, SendOutputs,
          HandlePush, HandleNotify, RemoveHandler, Disable, OnControlValue,
          Fail, Publish, StartTask, LoopExit, SelectQueued, SelectWait,
          SelectNotified, SelectTimedOut, Waiting, Sending, NothingReceived,
          FrameReceived, GetChannelNumber, GetControllerType,
          GetParameterValue, IAmHereRequested, GetOutputValue, Reject, Reply,
          ReplySent, CheckTiming, ReadControl, NextOutput, OutputSent,
          IAmHereSent, Tick, Idle
  <2>3. CASE ~AtIAmHere
    <3>1. now + Left(m) <= s + Lap /\ Left(m) \in Nat
      BY <2>1, <2>3, <1>d DEF KeepInv, m
    <3>2. CASE Served > m \/ Served' <= m
      <4>1. t + l <= now + Left(m)
        BY <1>a, <1>b, <1>f, <2>1, <3>2, LeftStep
      <4>2. QED
        BY <1>b, <3>1, <4>1
    <3>3. CASE Served <= m /\ Served' > m
      <4>1. t = now /\ AtIAmHere'
        BY <1>a, <1>b, <1>f, <2>1, <3>3, PassStep DEF AtIAmHere, m
      <4>2. QED
        BY <1>b, <3>1, <4>1
    <3>4. QED
      <4>1. Served \in Nat
        BY <1>b, <2>1, ToComeBounds
      <4>2. PICK k \in Nat : k = Served'
        <5>1. PICK i \in Nat : i = idx'
          BY <1>a, ConstantsAssumption DEF IInv, TypeOK
        <5>2. Served' = 0 \/ Served' = i + 1
          BY <5>1 DEF Served
        <5>3. QED
          BY <5>2
      <4>3. k <= m \/ k > m
        BY <1>b
      <4>4. Served <= m \/ Served > m
        BY <1>b, <4>1
      <4>5. QED
        BY <3>2, <3>3, <4>2, <4>3, <4>4
  <2>4. QED
    BY <2>2, <2>3
<1>5. QED
  BY <1>2, <1>3, <1>4
  DEF Next, Bus, Owner, Driver, Task, Select, HandleRequest, SendOutputs,
      HandlePush, HandleNotify, RemoveHandler, Disable, OnControlValue, Fail,
      Publish, StartTask, LoopExit, SelectQueued, SelectWait, SelectNotified,
      SelectTimedOut, NothingReceived, FrameReceived, GetChannelNumber,
      GetControllerType, GetParameterValue, GetOutputValue, Reject, Reply,
      ReplySent, CheckTiming, ReadControl, NextOutput, OutputSent, OutputsDone,
      IAmHereSent, Tick

\* The devices of the bus hear of the controller in time
\* (send_scheduled_i_am_here at the end of every turn), for any number of
\* outputs and all durations, as long as no request of the bus makes
\* handle_request throw: an I_AM_HERE that is due waits for one turn of the loop
\* at most.
THEOREM KeepAliveInTime ==
  ASSUME Urgent, AllServed
  PROVE  Spec => []KeepAliveTimely
<1>1. Init => LapInv /\ KeepInv
  BY LapInit DEF Init, KeepInv, InLoop
<1>2. IInv /\ LapInv /\ KeepInv /\ [Next]_vars => LapInv' /\ KeepInv'
  BY LapInvStep, KeepStep
<1>3. IInv /\ LapInv /\ KeepInv => KeepAliveTimely
  <2> SUFFICES ASSUME IInv, LapInv, KeepInv, InLoop
               PROVE  now <= SendIAmHereTime + Lap
    BY DEF KeepAliveTimely
  <2>1. Left(CONTROLLER_OUTPUT_MAX) \in Nat
    BY LeftBounds, ConstantsAssumption
  <2>2. now \in Nat /\ SendIAmHereTime \in Nat /\ Lap \in Nat
    BY TimesAreNumbers, LapIsSends DEF IInv
  <2>3. QED
    BY <2>1, <2>2 DEF KeepInv
<1>4. QED
  BY Inductive, <1>1, <1>2, <1>3, PTL DEF Spec

-----------------------------------------------------------------------------
\* Outputs are sent in time.

\* While its window is open, output ch is dealt with a turn after time b at the
\* latest; at the window's last moment it need not be dealt with any more.
Budget(ch, b) ==
  /\ channel[ch].SendEndTimePoint > now => now + Left(ch + 1) <= b + Lap
  /\ channel[ch].SendEndTimePoint = now => now <= b + Lap

\* Every output that is to be sent is dealt with in time, counted from the time
\* it is due; before the first turn no window has been opened.
OutputsInv ==
  /\ pc = "startup" => \A ch \in Channels : channel[ch].SendEndTimePoint = 0
  /\ InLoop => \A ch \in Channels :
       OutputMapping[ch] # Unmapped => Budget(ch, channel[ch].SendTimePoint)

\* And so is every newer value, counted from its event or from the request that
\* opened the window.
UpdatesInv ==
  InLoop => \A ch \in Channels :
    OutputMapping[ch] # Unmapped /\ ~NoUpdates(ch) =>
      \/ Budget(ch, LastUpdateTimePoint[OutputMapping[ch]])
      \/ Budget(ch, channel[ch].SendEndTimePoint - SEND_MESSAGES_TIME)

\* The channels' Sends are numbered within a turn.
LEMMA ChannelSend ==
  ASSUME NEW ch \in Channels
  PROVE  /\ ch + 1 \in 0 .. CONTROLLER_OUTPUT_MAX /\ ch \in Nat
         /\ ch < CONTROLLER_OUTPUT_MAX
BY ConstantsAssumption DEF Channels

\* Counted from the present, or a time to come, there is a whole turn left.
LEMMA BudgetFresh ==
  ASSUME IInv', LapInv', InLoop', NEW ch \in Channels, NEW b \in Int, now' <= b
  PROVE  Budget(ch, b)'
<1>1. ch + 1 \in 0 .. CONTROLLER_OUTPUT_MAX
  BY ChannelSend
<1>2. Left(ch + 1)' \in Nat /\ Left(ch + 1)' <= Lap
  BY <1>1, LeftBoundsNext DEF LeftBounded
<1>3. PICK t \in Nat, l \in Nat : t = now' /\ l = Left(ch + 1)'
  <2>1. now' \in Nat
    BY ConstantsAssumption DEF IInv, TypeOK, START
  <2>2. QED
    BY <1>2, <2>1
<1>4. t <= b /\ l <= Lap
  BY <1>2, <1>3
<1>5. t + l <= b + Lap /\ t <= b + Lap
  BY <1>4, LapIsSends
<1>6. QED
  BY <1>3, <1>5 DEF Budget

\* A step that does not pass the output over keeps its budget, and so does any
\* step when the window is over.
LEMMA BudgetStep ==
  ASSUME Urgent, AllServed, IInv, LapInv, [Next]_vars, InLoop, InLoop',
         IInv', LapInv', NEW ch \in Channels, NEW b \in Int, Budget(ch, b),
         channel'[ch].SendEndTimePoint = channel[ch].SendEndTimePoint,
         \/ Served > ch + 1 \/ Served' <= ch + 1
         \/ channel[ch].SendEndTimePoint <= now /\ now' = now
  PROVE  Budget(ch, b)'
<1> DEFINE n == ch + 1
           end == channel[ch].SendEndTimePoint
<1>1. n \in 0 .. CONTROLLER_OUTPUT_MAX
  BY ChannelSend
<1>2. now \in Nat /\ end \in Nat /\ Lap \in Nat
  BY TimesAreNumbers, LapIsSends DEF IInv
<1>3. Left(n) \in Nat /\ Left(n)' \in Nat
  BY <1>1, LeftBounds, LeftBoundsNext DEF LeftBounded
<1>4. PICK t \in Nat, l \in Nat : t = now' /\ l = Left(n)'
  <2>1. now' \in Nat
    BY ConstantsAssumption DEF IInv, TypeOK, START
  <2>2. QED
    BY <1>3, <2>1
<1>5. t = now \/ t = now + 1
  BY <1>4, TickStep
<1>6. /\ end > now => now + Left(n) <= b + Lap
      /\ end = now => now <= b + Lap
  BY DEF Budget
<1> HIDE DEF n, end
<1>7. /\ end > t => t + l <= b + Lap
      /\ end = t => t <= b + Lap
  <2>1. CASE Served > n \/ Served' <= n
    <3>1. t + l <= now + Left(n)
      BY <1>1, <1>4, <2>1, LeftStep
    <3>2. QED
      BY <1>2, <1>3, <1>4, <1>5, <1>6, <3>1
  <2>2. CASE end <= now /\ t = now
    BY <1>2, <1>6, <2>2
  <2>3. QED
    BY <1>4, <2>1, <2>2 DEF n, end
<1>8. QED
  BY <1>4, <1>7 DEF Budget, n, end

\* What opens the window of output ch.
Opened(ch) ==
  /\ GetOutputValue
  /\ channel'[ch].SendTimePoint = now
  /\ channel'[ch].SendEndTimePoint = now + SEND_MESSAGES_TIME

\* The Send of output ch is over.
SendOver(ch) ==
  /\ channel'[ch].SendTimePoint = now + SEND_MESSAGES_INTERVAL
  /\ channel'[ch].SendEndTimePoint = channel[ch].SendEndTimePoint
  /\ channel'[ch].LastSendTimePoint = now

\* The turn goes past output ch without a Send: it is not due.
PassedOver(ch) ==
  channel[ch].SendEndTimePoint >= now /\ OutputMapping[ch] # Unmapped
    => NoUpdates(ch) /\ channel[ch].SendTimePoint > now

\* What a step of the loop can do to an output.
LEMMA ChannelCases ==
  ASSUME Urgent, AllServed, IInv, LapInv, WindowInv, [Next]_vars,
         InLoop, InLoop', IInv', NEW ch \in Channels
  PROVE  \/ Opened(ch) /\ now' = now
         \/ SendOver(ch) /\ now' = now
         \/ /\ channel'[ch] = channel[ch]
            /\ \/ Served > ch + 1 \/ Served' <= ch + 1
               \/ channel[ch].SendEndTimePoint <= now /\ now' = now
               \/ /\ PassedOver(ch) /\ now' = now
                  /\ LastUpdateTimePoint' = LastUpdateTimePoint
<1>a. ch \in Nat /\ ch < CONTROLLER_OUTPUT_MAX /\ idx \in Nat /\ now \in Nat
      /\ CONTROLLER_OUTPUT_MAX \in Nat
      /\ channel \in [Channels ->
           [SendTimePoint : TimePoint, SendEndTimePoint : TimePoint,
            LastSendTimePoint : TimePoint,
            mapping_point : MappingPoint \cup {NoPoint}]]
  BY ChannelSend, TimesAreNumbers, ConstantsAssumption DEF IInv, TypeOK
<1>b. /\ channel[ch].SendTimePoint \in Nat
      /\ channel[ch].SendEndTimePoint \in Nat
      /\ channel[ch].LastSendTimePoint \in Nat
      /\ ResetConnectionTime \in Nat
  BY TimesAreNumbers DEF IInv
<1>1. CASE GetOutputValue
  <2> DEFINE k == frame.mapping_point.channelID
  <2>1. k \in Channels
    <3>1. frame \in Frame
      BY <1>1 DEF IInv, TaskInv, GetOutputValue
    <3>2. k \in Nat
      BY <3>1 DEF Frame, MappingPoint
    <3>3. k < CONTROLLER_OUTPUT_MAX
      BY <1>1 DEF GetOutputValue, GetsOutput
    <3>4. QED
      BY <1>a, <3>2, <3>3 DEF Channels
  <2>2. now' = now /\ Served' <= 1
    BY <1>1 DEF GetOutputValue, Served
  <2>3. CASE k = ch /\ OutputMapping[ch] # Unmapped
    BY <1>1, <1>a, <2>1, <2>2, <2>3 DEF GetOutputValue, Opened
  <2>4. CASE ~(k = ch /\ OutputMapping[ch] # Unmapped)
    <3>1. channel'[ch] = channel[ch]
      BY <1>1, <1>a, <2>1, <2>4 DEF GetOutputValue
    <3>2. Served' <= ch + 1
      <4>1. Served' = 1
        BY <1>1 DEF GetOutputValue, Served
      <4>2. QED
        BY <1>a, <4>1
    <3>3. QED
      BY <3>1, <3>2
  <2>5. QED
    BY <2>3, <2>4
<1>2. CASE OutputSent
  <2>1. idx \in Channels /\ now' = now
    BY <1>2 DEF OutputSent, IInv, TypeOK, TaskInv, ForOutput, Channels
  <2>2. CASE idx = ch
    BY <1>2, <1>a, <2>1, <2>2 DEF OutputSent, SendOver
  <2>3. CASE idx # ch
    <3>1. channel'[ch] = channel[ch]
      BY <1>2, <1>a, <2>1, <2>3 DEF OutputSent
    <3>2. Served = idx + 1 /\ Served' = idx + 2
      BY <1>2, <1>a DEF OutputSent, Served
    <3>3. QED
      BY <1>a, <2>3, <3>1, <3>2
  <2>4. QED
    BY <2>2, <2>3
<1>3. CASE NothingReceived
  <2>1. channel' = channel /\ now' = now
    BY <1>3 DEF NothingReceived
  <2>2. CASE pc' = "outputs"
    <3>1. Served' = 1
      BY <1>3, <2>2 DEF NothingReceived, Served
    <3>2. QED
      BY <1>a, <2>1, <3>1
  <2>3. CASE pc' # "outputs"
    <3>1. Status = "IDLE" \/ ResetConnectionTime <= now
      BY <1>3, <2>3 DEF NothingReceived
    <3>2. channel[ch].SendEndTimePoint <= now
      BY <1>a, <1>b, <3>1 DEF WindowInv
    <3>3. QED
      BY <2>1, <3>2
  <2>4. QED
    BY <2>2, <2>3
<1>4. CASE NextOutput
  <2>1. channel' = channel /\ now' = now
        /\ LastUpdateTimePoint' = LastUpdateTimePoint
    BY <1>4 DEF NextOutput
  <2>2. CASE idx = ch /\ ~OutputDue(ch)
    BY <2>1, <2>2, <1>a, <1>b DEF OutputDue, WindowOpen, PassedOver
  <2>3. CASE ~(idx = ch /\ ~OutputDue(ch))
    <3>1. Served = idx + 1
      BY <1>4 DEF NextOutput, Served
    <3>2. Served' = idx + 1 \/ (Served' = idx + 2 /\ idx # ch)
      BY <1>4, <2>3, <1>a DEF NextOutput, Served, Reading, ForOutput
    <3>3. QED
      BY <1>a, <2>1, <3>1, <3>2
  <2>4. QED
    BY <2>2, <2>3
<1>5. CASE ~GetOutputValue /\ ~OutputSent /\ ~NothingReceived /\ ~NextOutput
  <2>1. channel' = channel
    BY <1>5
    DEF Next, Bus, Owner, Driver, Task, Select, HandleRequest, SendOutputs,
        HandlePush, HandleNotify, RemoveHandler, Disable, OnControlValue, Fail,
        Publish, StartTask, LoopExit, SelectQueued, SelectWait, SelectNotified,
        SelectTimedOut, FrameReceived, GetChannelNumber, GetControllerType,
        GetParameterValue, IAmHereRequested, Reject, Reply, ReplySent,
        CheckTiming, ReadControl, OutputsDone, SendScheduledIAmHere,
        IAmHereSent, Tick
  <2>2. Served' = Served \/ Served' = 0 \/ Served' = 1
    <3>1. CASE UNCHANGED <<pc, idx>>
      BY <3>1 DEF Served, Reading, ForOutput
    <3>2. CASE pc' \in {"loop", "waiting", "dispatch", "request", "reply",
                        "sendReply"}
      BY <3>2 DEF Served, Reading
    <3>3. CASE ReplySent
      BY <3>3 DEF ReplySent, Served
    <3>4. CASE CheckTiming \/ ReadControl
      BY <3>4
      DEF CheckTiming, ReadControl, AfterRead, Served, Reading, ForOutput
    <3>5. CASE GetParameterValue
      BY <3>5, ConstantsAssumption
      DEF GetParameterValue, Served, Reading, ForOutput, IInv, TaskInv
    <3>6. CASE OutputsDone \/ SendScheduledIAmHere
      BY <3>6 DEF OutputsDone, SendScheduledIAmHere, Served, Reading
    <3>7. QED
      BY <1>5, <3>1, <3>2, <3>3, <3>4, <3>5, <3>6
      DEF InLoop, Next, Bus, Owner, Driver, Task, Select, HandleRequest,
          SendOutputs, HandlePush, HandleNotify, RemoveHandler, Disable,
          OnControlValue, Fail, Publish, StartTask, LoopExit, SelectQueued,
          SelectWait, SelectNotified, SelectTimedOut, PopFrame, FrameReceived,
          GetChannelNumber, GetControllerType, IAmHereRequested, Reject, Reply,
          IAmHereSent, Tick
  <2>3. Served \in Nat
    BY ToComeBounds, ChannelSend
  <2>4. QED
    BY <1>a, <2>1, <2>2, <2>3
<1>6. QED
  BY <1>1, <1>2, <1>3, <1>4, <1>5

\* Before the first turn nothing has opened a window.
LEMMA StartStep ==
  ASSUME IInv, OutputsInv, [Next]_vars
  PROVE  pc' = "startup" =>
           \A ch \in Channels : channel'[ch].SendEndTimePoint = 0
<1> SUFFICES ASSUME pc' = "startup"
             PROVE  \A ch \in Channels : channel'[ch].SendEndTimePoint = 0
  OBVIOUS
<1>1. pc = "startup" /\ UNCHANGED channel
  BY DEF Next, Bus, Owner, Driver, Task, Select, HandleRequest,
     SendOutputs, HandlePush, HandleNotify, RemoveHandler, Disable,
     OnControlValue, Fail, Publish, StartTask, LoopExit, SelectQueued,
     SelectWait, SelectNotified, SelectTimedOut, PopFrame, NothingReceived,
     FrameReceived, GetChannelNumber, GetControllerType, GetParameterValue,
     IAmHereRequested, GetOutputValue, Reject, Reply, ReplySent, CheckTiming,
     ReadControl, AfterRead, NextOutput, OutputSent, OutputsDone,
     SendScheduledIAmHere, IAmHereSent, Tick
<1>2. QED
  BY <1>1 DEF OutputsInv

\* When the loop is entered there is nothing to be in time with.
LEMMA BudgetAtStart ==
  ASSUME IInv, OutputsInv, StartTask, NEW ch \in Channels, NEW b \in Int
  PROVE  Budget(ch, b)'
<1>1. channel'[ch].SendEndTimePoint = 0 /\ now' = now
  BY DEF StartTask, OutputsInv
<1>2. now \in Nat /\ now >= 1
  BY TimesAreNumbers DEF IInv, START
<1>3. ~(0 > now) /\ 0 # now
  BY <1>2
<1>4. QED
  BY <1>1, <1>3 DEF Budget

\* Every step keeps every output in time.
LEMMA OutputsStep ==
  ASSUME Urgent, AllServed, IInv, LapInv, WindowInv, OutputsInv, [Next]_vars
  PROVE  OutputsInv'
<1>a. IInv' /\ LapInv'
  BY TypeStep, TaskStep, ChannelStep, OutputStep, LapInvStep DEF IInv
<1>b. now \in Nat /\ SEND_MESSAGES_INTERVAL \in Nat
  BY TimesAreNumbers, DurationsAssumption DEF IInv
<1>1. ASSUME InLoop', NEW ch \in Channels, OutputMapping[ch] # Unmapped
      PROVE  Budget(ch, channel[ch].SendTimePoint)'
  <2>1. PICK b \in Nat : b = channel'[ch].SendTimePoint
    <3>1. channel'[ch].SendTimePoint \in TimePoint
      BY <1>a DEF IInv, TypeOK
    <3>2. TimePoint \subseteq Nat
      BY ConstantsAssumption, DurationsAssumption DEF TimePoint
    <3>3. QED
      BY <3>1, <3>2
  <2>2. SUFFICES Budget(ch, b)'
    BY <2>1 DEF Budget
  <2>3. CASE ~InLoop
    BY <1>1, <2>3, LoopEntered, BudgetAtStart
  <2>4. CASE InLoop
    <3>1. ASSUME now' = now, b >= now
          PROVE  Budget(ch, b)'
      BY <1>a, <1>1, <1>b, <3>1, BudgetFresh
    <3>2. CASE Opened(ch) /\ now' = now
      BY <1>b, <2>1, <3>1, <3>2 DEF Opened
    <3>3. CASE SendOver(ch) /\ now' = now
      BY <1>b, <2>1, <3>1, <3>3 DEF SendOver
    <3>4. CASE /\ channel'[ch] = channel[ch]
               /\ \/ Served > ch + 1 \/ Served' <= ch + 1
                  \/ channel[ch].SendEndTimePoint <= now /\ now' = now
      <4>1. Budget(ch, b)
        BY <1>1, <2>1, <2>4, <3>4 DEF OutputsInv
      <4>2. QED
        BY <1>a, <1>1, <2>4, <3>4, <4>1, BudgetStep
    <3>5. CASE /\ channel'[ch] = channel[ch]
               /\ PassedOver(ch) /\ now' = now
      <4>1. CASE channel[ch].SendEndTimePoint >= now
        BY <1>1, <1>b, <2>1, <3>1, <3>5, <4>1 DEF PassedOver
      <4>2. CASE ~(channel[ch].SendEndTimePoint >= now)
        <5>1. channel[ch].SendEndTimePoint <= now
          BY <1>b, <4>2, TimesAreNumbers DEF IInv
        <5>2. QED
          BY <3>4, <3>5, <5>1
      <4>3. QED
        BY <4>1, <4>2
    <3>6. QED
      BY <1>a, <1>1, <2>4, <3>2, <3>3, <3>4, <3>5, ChannelCases
  <2>5. QED
    BY <2>3, <2>4
<1>2. QED
  BY <1>1, StartStep DEF OutputsInv

\* Every step keeps every newer value in time.
LEMMA UpdatesStep ==
  ASSUME Urgent, AllServed, IInv, LapInv, WindowInv, FreshInv, OutputsInv,
         UpdatesInv, [Next]_vars
  PROVE  UpdatesInv'
<1>a. IInv' /\ LapInv'
  BY TypeStep, TaskStep, ChannelStep, OutputStep, LapInvStep DEF IInv
<1>b. now \in Nat /\ SEND_MESSAGES_TIME \in Nat
  BY TimesAreNumbers, DurationsAssumption DEF IInv
<1> SUFFICES ASSUME InLoop', NEW ch \in Channels, OutputMapping[ch] # Unmapped,
                    ~NoUpdates(ch)'
             PROVE  \/ Budget(ch, LastUpdateTimePoint[OutputMapping[ch]])'
                    \/ Budget(ch, channel[ch].SendEndTimePoint
                                    - SEND_MESSAGES_TIME)'
  BY DEF UpdatesInv
<1> DEFINE c == OutputMapping[ch]
<1>c. c \in Controls
  BY ConstantsAssumption
<1>d. PICK u \in Nat, e \in Nat :
        u = LastUpdateTimePoint'[c] /\ e = channel'[ch].SendEndTimePoint
  <2>1. LastUpdateTimePoint'[c] \in Nat
    BY <1>a, <1>c, ConstantsAssumption, DurationsAssumption
    DEF IInv, TypeOK, TimePoint
  <2>2. channel'[ch].SendEndTimePoint \in Nat
    BY <1>a, ConstantsAssumption, DurationsAssumption
    DEF IInv, TypeOK, TimePoint
  <2>3. QED
    BY <2>1, <2>2
<1> HIDE DEF c
<1>e. SUFFICES Budget(ch, u)' \/ Budget(ch, e - SEND_MESSAGES_TIME)'
  BY <1>d DEF Budget, c
<1>f. LastUpdateTimePoint[c] \in Nat /\ LastUpdateTimePoint[c] <= now
  <2>1. /\ LastUpdateTimePoint[c] \in Nat /\ publishedAt[c] \in Nat
        /\ LastUpdateTimePoint[c] <= publishedAt[c] /\ publishedAt[c] <= now
    BY <1>c, TimesAreNumbers DEF IInv, FreshInv
  <2>2. QED
    BY <1>b, <2>1
<1>g. ~(u <= channel'[ch].LastSendTimePoint)
  BY <1>d DEF NoUpdates, c
<1>1. CASE ~InLoop
  BY <1>1, LoopEntered, BudgetAtStart
<1>2. CASE InLoop /\ LastUpdateTimePoint'[c] # LastUpdateTimePoint[c]
  <2>1. now' = now /\ u = now
    BY <1>2, <1>c, <1>d
    DEF IInv, TypeOK, Next, Bus, Owner, Driver, Task, Select, HandleRequest,
        SendOutputs, HandlePush, HandleNotify, RemoveHandler, Disable,
        OnControlValue, Fail, Publish, StartTask, LoopExit, SelectQueued,
        SelectWait, SelectNotified, SelectTimedOut, NothingReceived,
        FrameReceived, GetChannelNumber, GetControllerType, GetParameterValue,
        IAmHereRequested, GetOutputValue, Reject, Reply, ReplySent,
        CheckTiming, ReadControl, NextOutput, OutputSent, OutputsDone,
        SendScheduledIAmHere, IAmHereSent, Tick
  <2>2. QED
    BY <1>a, <1>b, <2>1, BudgetFresh
<1>3. CASE InLoop /\ LastUpdateTimePoint'[c] = LastUpdateTimePoint[c]
  <2>1. CASE Opened(ch) /\ now' = now
    <3>1. e - SEND_MESSAGES_TIME = now
      BY <1>b, <1>d, <2>1 DEF Opened
    <3>2. QED
      BY <1>a, <1>b, <2>1, <3>1, BudgetFresh
  <2>2. CASE SendOver(ch)
    BY <1>3, <1>d, <1>f, <1>g, <2>2 DEF SendOver
  <2>3. CASE /\ channel'[ch] = channel[ch]
             /\ \/ Served > ch + 1 \/ Served' <= ch + 1
                \/ channel[ch].SendEndTimePoint <= now /\ now' = now
    <3>1. Budget(ch, u) \/ Budget(ch, e - SEND_MESSAGES_TIME)
      <4>1. ~NoUpdates(ch)
        BY <1>3, <1>d, <1>g, <2>3 DEF NoUpdates, c
      <4>2. QED
        BY <1>3, <1>d, <2>3, <4>1 DEF UpdatesInv, c
    <3>2. u \in Int /\ e - SEND_MESSAGES_TIME \in Int
      BY <1>b
    <3>3. QED
      BY <1>a, <1>3, <2>3, <3>1, <3>2, BudgetStep
  <2>4. CASE /\ channel'[ch] = channel[ch]
             /\ PassedOver(ch) /\ now' = now
    <3>1. ~NoUpdates(ch)
      BY <1>3, <1>d, <1>g, <2>4 DEF NoUpdates, c
    <3>2. channel[ch].SendEndTimePoint <= now
      BY <1>b, <2>4, <3>1, TimesAreNumbers DEF PassedOver, IInv
    <3>3. QED
      BY <2>3, <2>4, <3>2
  <2>5. QED
    BY <1>a, <1>3, <2>1, <2>2, <2>3, <2>4, ChannelCases
<1>4. QED
  BY <1>1, <1>2, <1>3

\* An output's next Send is never scheduled later than it is due on the bus,
\* and what has been done was done by now.
Scheduled(ch) ==
  /\ channel[ch].LastSendTimePoint <= now
  /\ channel[ch].SendEndTimePoint > 0 =>
       /\ channel[ch].SendEndTimePoint - SEND_MESSAGES_TIME <= now
       /\ channel[ch].SendTimePoint <= NextBroadcast(ch)

ScheduleInv == \A ch \in Channels : Scheduled(ch)

\* What a step does to an output: a request schedules it at once, its Send
\* postpones it by an interval, and nothing else touches it.
LEMMA ScheduleCases ==
  ASSUME IInv, [Next]_vars, NEW ch \in Channels
  PROVE  \/ /\ now' = now
            /\ channel'[ch].SendTimePoint = now
            /\ channel'[ch].SendEndTimePoint = now + SEND_MESSAGES_TIME
            /\ channel'[ch].LastSendTimePoint = channel[ch].LastSendTimePoint
         \/ /\ now' = now
            /\ channel'[ch].SendTimePoint = now + SEND_MESSAGES_INTERVAL
            /\ channel'[ch].SendEndTimePoint = channel[ch].SendEndTimePoint
            /\ channel'[ch].LastSendTimePoint = now
         \/ now' \in {now, now + 1} /\ channel'[ch] = channel[ch]
<1>a. channel \in [Channels ->
        [SendTimePoint : TimePoint, SendEndTimePoint : TimePoint,
         LastSendTimePoint : TimePoint,
         mapping_point : MappingPoint \cup {NoPoint}]]
  BY DEF IInv, TypeOK
<1>1. CASE GetOutputValue
  BY <1>1, <1>a DEF GetOutputValue
<1>2. CASE OutputSent
  BY <1>2, <1>a DEF OutputSent
<1>3. CASE ~GetOutputValue /\ ~OutputSent
  <2>1. channel' = channel
    BY <1>3
    DEF Next, Bus, Owner, Driver, Task, Select, HandleRequest, SendOutputs,
        HandlePush, HandleNotify, RemoveHandler, Disable, OnControlValue, Fail,
        Publish, StartTask, LoopExit, SelectQueued, SelectWait, SelectNotified,
        SelectTimedOut, NothingReceived, FrameReceived, GetChannelNumber,
        GetControllerType, GetParameterValue, IAmHereRequested, Reject, Reply,
        ReplySent, CheckTiming, ReadControl, NextOutput, OutputsDone,
        SendScheduledIAmHere, IAmHereSent, Tick
  <2>2. now' \in {now, now + 1}
    BY <1>3
    DEF Next, Bus, Owner, Driver, Task, Select, HandleRequest, SendOutputs,
        HandlePush, HandleNotify, RemoveHandler, Disable, OnControlValue, Fail,
        Publish, StartTask, LoopExit, SelectQueued, SelectWait, SelectNotified,
        SelectTimedOut, NothingReceived, FrameReceived, GetChannelNumber,
        GetControllerType, GetParameterValue, IAmHereRequested, Reject, Reply,
        ReplySent, CheckTiming, ReadControl, NextOutput, OutputsDone,
        SendScheduledIAmHere, IAmHereSent, Tick
  <2>3. QED
    BY <2>1, <2>2
<1>4. QED
  BY <1>1, <1>2, <1>3

\* Every step keeps every output scheduled.
LEMMA ScheduleStep ==
  ASSUME IInv, ScheduleInv, [Next]_vars
  PROVE  ScheduleInv'
<1> SUFFICES ASSUME NEW ch \in Channels
             PROVE  Scheduled(ch)'
  BY DEF ScheduleInv
<1>1. /\ now \in Nat /\ now >= 1
      /\ channel[ch].SendTimePoint \in Nat
      /\ channel[ch].SendEndTimePoint \in Nat
      /\ channel[ch].LastSendTimePoint \in Nat
      /\ SEND_MESSAGES_TIME \in Nat /\ SEND_MESSAGES_INTERVAL \in Nat
  BY TimesAreNumbers, DurationsAssumption DEF IInv, START
<1>2. Scheduled(ch)
  BY DEF ScheduleInv
<1>3. QED
  BY <1>1, <1>2, ScheduleCases DEF Scheduled, NextBroadcast

\* While its window is open an output is sent at once and again an interval
\* after the last time (TBroadcastChannel, send_scheduled_outputs), give or take
\* one turn of the loop, for any number of outputs and any mapping, in whatever
\* order the requests, the connection's end, the events and the other outputs
\* come, as long as no request of the bus makes handle_request throw.
THEOREM OutputsInTime ==
  ASSUME Urgent, AllServed, CONNECTION_TIMEOUT >= SEND_MESSAGES_TIME
  PROVE  Spec => []OutputTimely
<1>1. Init => WindowInv /\ LapInv /\ OutputsInv /\ ScheduleInv
  <2>1. Init => WindowInv /\ LapInv /\ OutputsInv
    BY LapInit, DurationsAssumption
    DEF Init, WindowInv, START, OutputsInv, InLoop
  <2>2. Init => ScheduleInv
    BY DEF Init, START, ScheduleInv, Scheduled
  <2>3. QED
    BY <2>1, <2>2
<1>2. IInv /\ WindowInv /\ LapInv /\ OutputsInv /\ ScheduleInv /\ [Next]_vars
        => WindowInv' /\ LapInv' /\ OutputsInv' /\ ScheduleInv'
  BY WindowStep, LapInvStep, OutputsStep, ScheduleStep
<1>3. IInv /\ LapInv /\ OutputsInv /\ ScheduleInv => OutputTimely
  <2> SUFFICES ASSUME IInv, LapInv, OutputsInv, ScheduleInv, InLoop,
                      NEW ch \in Channels,
                      WindowOpen(ch), OutputMapping[ch] # Unmapped
               PROVE  now <= NextBroadcast(ch) + Lap
    BY DEF OutputTimely
  <2>1. Left(ch + 1) \in Nat
    BY ChannelSend, LeftBounds
  <2>2. /\ now \in Nat /\ channel[ch].SendTimePoint \in Nat
        /\ channel[ch].SendEndTimePoint \in Nat /\ Lap \in Nat
    BY TimesAreNumbers, LapIsSends DEF IInv
  <2>3. now <= channel[ch].SendTimePoint + Lap
    <3>1. Budget(ch, channel[ch].SendTimePoint)
      BY DEF OutputsInv
    <3>2. QED
      BY <2>1, <2>2, <3>1 DEF Budget, WindowOpen
  <2>4. channel[ch].SendTimePoint <= NextBroadcast(ch)
    <3>1. now >= 1
      BY TimesAreNumbers DEF IInv, START
    <3>2. QED
      BY <2>2, <3>1 DEF ScheduleInv, Scheduled, WindowOpen
  <2>5. NextBroadcast(ch) \in Int
    BY TimesAreNumbers, DurationsAssumption DEF IInv, NextBroadcast
  <2>6. QED
    BY <2>2, <2>3, <2>4, <2>5
<1>4. QED
  BY Inductive, <1>1, <1>2, <1>3, PTL DEF Spec

\* A value newer than the last broadcast of its output goes out within one turn
\* of the loop, or of the request that opened the window (the "channel updates"
\* of send_scheduled_outputs), under the same assumptions.
THEOREM UpdatesInTime ==
  ASSUME Urgent, AllServed, CONNECTION_TIMEOUT >= SEND_MESSAGES_TIME
  PROVE  Spec => []UpdatePrompt
<1> DEFINE Inv == WindowInv /\ LapInv /\ FreshInv /\ OutputsInv /\ UpdatesInv
<1>1. Init => Inv
  BY LapInit, FreshInit, DurationsAssumption
  DEF Init, WindowInv, START, OutputsInv, UpdatesInv, InLoop
<1>2. IInv /\ Inv /\ [Next]_vars => Inv'
  BY WindowStep, LapInvStep, FreshStep, OutputsStep, UpdatesStep
<1>3. IInv /\ Inv => UpdatePrompt
  <2> SUFFICES ASSUME IInv, LapInv, UpdatesInv, InLoop, NEW ch \in Channels,
                      WindowOpen(ch), OutputMapping[ch] # Unmapped,
                      ~NoUpdates(ch)
               PROVE  \/ now <= LastUpdateTimePoint[OutputMapping[ch]] + Lap
                      \/ now <= channel[ch].SendEndTimePoint
                                  - SEND_MESSAGES_TIME + Lap
    BY DEF UpdatePrompt
  <2>1. Left(ch + 1) \in Nat
    BY ChannelSend, LeftBounds
  <2>2. PICK u \in Nat : u = LastUpdateTimePoint[OutputMapping[ch]]
    BY TimesAreNumbers, ConstantsAssumption DEF IInv
  <2>3. /\ now \in Nat /\ channel[ch].SendEndTimePoint \in Nat
        /\ Lap \in Nat /\ SEND_MESSAGES_TIME \in Nat
    BY TimesAreNumbers, LapIsSends, DurationsAssumption DEF IInv
  <2>4. \/ Budget(ch, u)
        \/ Budget(ch, channel[ch].SendEndTimePoint - SEND_MESSAGES_TIME)
    BY <2>2 DEF UpdatesInv
  <2>5. QED
    BY <2>1, <2>2, <2>3, <2>4 DEF Budget, WindowOpen
<1> HIDE DEF Inv
<1>4. QED
  BY Inductive, <1>1, <1>2, <1>3, PTL DEF Spec
=============================================================================
