-------------------------- MODULE VirtualController --------------------------
(***************************************************************************)
(* One virtual SmartWeb controller: TMqttToSmartWebGateway                 *)
(* (src/src/MqttToSmartWebGateway.cpp).                                    *)
(*                                                                         *)
(* Four threads touch its state.  The CAN listener calls Handle, which     *)
(* queues a frame and, after releasing the queue's mutex, notifies.  The   *)
(* controller's own thread runs TaskFn: it takes a frame or times out,     *)
(* answers the request, broadcasts the outputs that are due and announces  *)
(* itself.  The MQTT driver's thread updates the controls and raises the   *)
(* event that refreshes a control's time stamp.  The owner removes the     *)
(* handler and stops the thread.                                           *)
(*                                                                         *)
(* Time is the variable now, advanced by Tick.  With Urgent = FALSE        *)
(* nothing bounds how long a step takes; with Urgent = TRUE computation is *)
(* instantaneous and time passes only while the task waits for a frame     *)
(* (at most READ_TIMEOUT) or for a Send (at most SEND_TIMEOUT), which is   *)
(* the idealisation the timing properties need.                            *)
(***************************************************************************)
EXTENDS SmartWeb, Sequences, FiniteSets

CONSTANTS
  ProgramId,               \* DriverState.ProgramId, the controller's address
  CONTROLLER_OUTPUT_MAX,   \* size of OutputMapping, 32 in the code
  Controls,                \* the "device/control" names of the configuration
  OutputMapping,           \* channel -> control or Unmapped
  ParameterMapping,        \* raw_info of a parameter -> control
  ParameterCount,          \* DriverState.ParameterCount
  ValueTimeout,            \* control -> ValueTimeoutMin, negative for none
  BusFrames,               \* the frames that may arrive from the bus
  Readings,                \* the values a control may take, in hundredths
  Faulty,                  \* the controls that may be missing or in error
  Unmapped, NoReading, NoFrame, NoPoint, NoControl,
  KEEP_ALIVE_INTERVAL, CONNECTION_TIMEOUT, SEND_MESSAGES_TIME,
  SEND_MESSAGES_INTERVAL, READ_TIMEOUT, SEND_TIMEOUT,
  Urgent,                  \* TRUE: computation takes no time
  MaxTime,                 \* bound: the clock stops here
  MaxBacklog               \* bound: the bus does not outrun the task further

Channels == 0 .. CONTROLLER_OUTPUT_MAX - 1

MappingPoint == [hostID : Nat, channelID : Nat]

\* A CAN frame: the header, and the payload under the two readings the
\* handlers make of it, a mapping point or a parameter.
Frame == [program_type : Nat, program_id : Nat, function_id : Nat,
          message_type : Nat, mapping_point : MappingPoint,
          parameter : [program_type : Nat, raw_info : Nat]]

ASSUME ConstantsAssumption ==
  /\ CONTROLLER_OUTPUT_MAX \in Nat
  /\ OutputMapping \in [Channels -> Controls \cup {Unmapped}]
  /\ Unmapped \notin Controls /\ NoControl \notin Controls
  /\ IsFiniteSet(DOMAIN ParameterMapping)
  /\ \A k \in DOMAIN ParameterMapping : ParameterMapping[k] \in Controls
  /\ ParameterCount \in Nat /\ ParameterCount <= 255
  /\ Cardinality(DOMAIN ParameterMapping) <= 32767
  /\ ValueTimeout \in [Controls -> Int]
  /\ BusFrames \subseteq Frame /\ NoFrame \notin Frame
  /\ NoPoint \notin MappingPoint
  /\ Faulty \subseteq Controls
  /\ Readings \subseteq Int /\ NoReading \notin Readings
  /\ ProgramId \in Nat
  /\ Urgent \in BOOLEAN /\ MaxTime \in Nat \ {0} /\ MaxBacklog \in Nat

ASSUME DurationsAssumption ==
  /\ KEEP_ALIVE_INTERVAL \in Nat /\ CONNECTION_TIMEOUT \in Nat
  /\ SEND_MESSAGES_TIME \in Nat /\ SEND_MESSAGES_INTERVAL \in Nat
  /\ READ_TIMEOUT \in Nat /\ SEND_TIMEOUT \in Nat

\* The steady clock's epoch is 0, the value of a default time point; the
\* process starts later than that.
START == 1

VARIABLES
  now,
  registered, Enabled,     \* the handler is in the port's list; the stop flag
  bus,                     \* the CAN listener: "idle", or "notify" in Handle
  CanFrames, woken,        \* the queue; the waiting task has been notified
  pc, frame, value, idx,   \* the task: point, frame, reading, channel_id
  until,                   \* end of the wait or Send the task is in
  Status, SendIAmHereTime, ResetConnectionTime,
  channel,                 \* each output's TChannelState and mapping point
  control, LastUpdateTimePoint,
  driver,                  \* the control whose event is about to be raised
  publishedAt,             \* history: when each control last got a value
  unsent                   \* history: outputs with a value not read since

clockVars  == <<Status, SendIAmHereTime, ResetConnectionTime>>
ownerVars  == <<registered, Enabled>>
queueVars  == <<bus, CanFrames>>
taskVars   == <<pc, frame, value, idx, until, woken>>
driverVars == <<control, LastUpdateTimePoint, driver, publishedAt>>
vars == <<now, ownerVars, queueVars, taskVars, clockVars, channel, driverVars,
          unsent>>

TimePoint == 0 .. MaxTime + KEEP_ALIVE_INTERVAL + CONNECTION_TIMEOUT
                  + SEND_MESSAGES_TIME + SEND_MESSAGES_INTERVAL

Waiting == pc = "waiting"
Sending == pc \in {"sendReply", "sendOutput", "sendIAmHere"}

TypeOK ==
  /\ now \in START .. MaxTime
  /\ registered \in BOOLEAN /\ Enabled \in BOOLEAN
  /\ bus \in {"idle", "notify"}
  /\ CanFrames \in Seq(Frame) /\ Len(CanFrames) <= MaxBacklog
  /\ woken \in BOOLEAN
  /\ pc \in {"startup", "loop", "waiting", "dispatch", "request", "reply",
             "checkTiming", "readControl", "sendReply", "outputs",
             "sendOutput", "iamhere", "sendIAmHere", "stopped", "undefined"}
  /\ frame \in Frame \cup {NoFrame}
  /\ value \in Int16
  /\ idx \in 0 .. CONTROLLER_OUTPUT_MAX
  /\ until \in 0 .. MaxTime
  /\ Status \in {"IDLE", "RUNNING"}
  /\ SendIAmHereTime \in TimePoint /\ ResetConnectionTime \in TimePoint
  /\ channel \in [Channels ->
       [SendTimePoint : TimePoint, SendEndTimePoint : TimePoint,
        LastSendTimePoint : TimePoint,
        mapping_point : MappingPoint \cup {NoPoint}]]
  /\ control \in [Controls -> Readings \cup {NoReading}]
  /\ LastUpdateTimePoint \in [Controls -> TimePoint]
  /\ driver \in Controls \cup {NoControl}
  /\ publishedAt \in [Controls -> TimePoint]
  /\ unsent \subseteq Channels

Init ==
  /\ now = START
  /\ registered = TRUE /\ Enabled = TRUE
  /\ bus = "idle" /\ CanFrames = << >> /\ woken = FALSE
  /\ pc = "startup" /\ frame = NoFrame /\ value = SENSOR_UNDEFINED
  /\ idx = CONTROLLER_OUTPUT_MAX /\ until = 0
  /\ Status = "IDLE" /\ SendIAmHereTime = 0 /\ ResetConnectionTime = 0
  /\ channel = [ch \in Channels |->
                  [SendTimePoint |-> 0, SendEndTimePoint |-> 0,
                   LastSendTimePoint |-> 0, mapping_point |-> NoPoint]]
  /\ control \in [Controls -> Readings \cup {NoReading}]
  /\ \A c \in Controls : control[c] = NoReading => c \in Faulty
  /\ LastUpdateTimePoint = [c \in Controls |-> START]
  /\ driver = NoControl
  /\ publishedAt = [c \in Controls |-> START]
  /\ unsent = {}

-----------------------------------------------------------------------------
\* The CAN listener and the owner.

IsForMe(f) ==
  \/ f.program_id = ProgramId
  \/ /\ f.message_type = MT_MSG_REQUEST
     /\ f.program_type = PT_CONTROLLER
     /\ f.function_id = GET_OUTPUT_VALUE
     /\ f.mapping_point.hostID = ProgramId

\* Handle queues the frame under CanFramesMutex, releases the mutex ...
HandlePush(f) ==
  /\ registered /\ bus = "idle"
  /\ Len(CanFrames) < MaxBacklog
  /\ IsForMe(f)
  /\ CanFrames' = Append(CanFrames, f)
  /\ bus' = "notify"
  /\ UNCHANGED <<now, ownerVars, taskVars, clockVars, channel, driverVars,
                 unsent>>

\* ... and only then notifies whoever waits by now.
HandleNotify ==
  /\ bus = "notify"
  /\ bus' = "idle"
  /\ woken' = (woken \/ Waiting)
  /\ UNCHANGED <<now, ownerVars, CanFrames, pc, frame, value, idx, until,
                 clockVars, channel, driverVars, unsent>>

\* RemoveHandler takes the mutex the listener holds while a handler runs.
RemoveHandler ==
  /\ registered /\ bus = "idle"
  /\ registered' = FALSE
  /\ UNCHANGED <<now, Enabled, queueVars, taskVars, clockVars, channel,
                 driverVars, unsent>>

Disable ==
  /\ ~registered /\ Enabled
  /\ Enabled' = FALSE
  /\ UNCHANGED <<now, registered, queueVars, taskVars, clockVars, channel,
                 driverVars, unsent>>

-----------------------------------------------------------------------------
\* The MQTT driver's thread.

\* A new value is stored, then its TControlValueEvent is raised.
Publish(c, r) ==
  /\ driver = NoControl
  /\ control' = [control EXCEPT ![c] = r]
  /\ publishedAt' = [publishedAt EXCEPT ![c] = now]
  /\ driver' = c
  /\ unsent' = unsent \cup {ch \in Channels : OutputMapping[ch] = c}
  /\ UNCHANGED <<now, ownerVars, queueVars, taskVars, clockVars, channel,
                 LastUpdateTimePoint>>

\* The device reports an error or disappears: no value event.
Fail(c) ==
  /\ driver = NoControl /\ c \in Faulty
  /\ control[c] # NoReading
  /\ control' = [control EXCEPT ![c] = NoReading]
  /\ UNCHANGED <<now, ownerVars, queueVars, taskVars, clockVars, channel,
                 LastUpdateTimePoint, driver, publishedAt, unsent>>

\* The event reaches the task's handler, if it is registered with the driver.
OnControlValue ==
  /\ driver # NoControl
  /\ IF pc \in {"startup", "stopped"}
     THEN UNCHANGED LastUpdateTimePoint
     ELSE LastUpdateTimePoint' = [LastUpdateTimePoint EXCEPT ![driver] = now]
  /\ driver' = NoControl
  /\ UNCHANGED <<now, ownerVars, queueVars, taskVars, clockVars, channel,
                 control, publishedAt, unsent>>

-----------------------------------------------------------------------------
\* The task: waiting for a frame.

\* wait_for and Send are given an end; the model's clock cannot pass MaxTime.
Deadline(d) == IF now + d <= MaxTime THEN now + d ELSE MaxTime

StartTask ==
  /\ pc = "startup"
  /\ SendIAmHereTime' = now
  /\ pc' = "loop"
  /\ UNCHANGED <<now, ownerVars, queueVars, frame, value, idx, until, woken,
                 Status, ResetConnectionTime, channel, driverVars, unsent>>

LoopExit ==
  /\ pc = "loop" /\ ~Enabled
  /\ pc' = "stopped"
  /\ UNCHANGED <<now, ownerVars, queueVars, frame, value, idx, until, woken,
                 clockVars, channel, driverVars, unsent>>

\* Mutant: the newest frame is served first.
PopFrame_newest ==
  /\ frame' = CanFrames[Len(CanFrames)]
  /\ CanFrames' = SubSeq(CanFrames, 1, Len(CanFrames) - 1)
  /\ pc' = "dispatch"

PopFrame ==
  /\ frame' = Head(CanFrames)
  /\ CanFrames' = Tail(CanFrames)
  /\ pc' = "dispatch"

SelectQueued ==
  /\ pc = "loop" /\ Enabled
  /\ CanFrames # << >>
  /\ PopFrame
  /\ UNCHANGED <<now, ownerVars, bus, value, idx, until, woken, clockVars,
                 channel, driverVars, unsent>>

SelectWait ==
  /\ pc = "loop" /\ Enabled
  /\ CanFrames = << >>
  /\ pc' = "waiting" /\ until' = Deadline(READ_TIMEOUT) /\ woken' = FALSE
  /\ UNCHANGED <<now, ownerVars, queueVars, frame, value, idx, clockVars,
                 channel, driverVars, unsent>>

\* The wait has no predicate: a notified task takes the front of the queue
\* whatever the queue holds.  On an empty queue that is undefined behaviour, and
\* the model stops there.
SelectNotified ==
  /\ Waiting /\ woken
  /\ woken' = FALSE /\ until' = 0
  /\ \/ CanFrames # << >> /\ PopFrame
     \/ /\ CanFrames = << >>
        /\ pc' = "undefined" /\ UNCHANGED <<frame, CanFrames>>
  /\ UNCHANGED <<now, ownerVars, bus, value, idx, clockVars, channel,
                 driverVars, unsent>>

\* Mutant: a plain wait, which only a notification ends.
SelectTimedOut_wait ==
  /\ Waiting /\ woken /\ now >= until
  /\ pc' = "dispatch" /\ woken' = FALSE /\ until' = 0
  /\ UNCHANGED <<now, ownerVars, queueVars, frame, value, idx, clockVars,
                 channel, driverVars, unsent>>

\* The time-out wins over a notification that arrives with it; the frame stays
\* queued for the next turn.
SelectTimedOut ==
  /\ Waiting /\ now >= until
  /\ pc' = "dispatch" /\ woken' = FALSE /\ until' = 0
  /\ UNCHANGED <<now, ownerVars, queueVars, frame, value, idx, clockVars,
                 channel, driverVars, unsent>>

\* Nothing received: a connection without frames is lost, and an idle
\* controller only announces itself.
NothingReceived ==
  /\ pc = "dispatch" /\ frame = NoFrame
  /\ Status' = IF Status # "IDLE" /\ ResetConnectionTime <= now
               THEN "IDLE" ELSE Status
  /\ \/ Status' = "IDLE" /\ pc' = "iamhere" /\ UNCHANGED idx
     \/ Status' = "RUNNING" /\ pc' = "outputs" /\ idx' = 0
  /\ UNCHANGED <<now, ownerVars, queueVars, frame, value, until, woken,
                 SendIAmHereTime, ResetConnectionTime, channel, driverVars,
                 unsent>>

\* Mutant: the connection's end is set when it is established, never postponed.
FrameReceived_once ==
  /\ pc = "dispatch" /\ frame # NoFrame
  /\ Status' = "RUNNING"
  /\ ResetConnectionTime' = IF Status = "IDLE" THEN now + CONNECTION_TIMEOUT
                            ELSE ResetConnectionTime
  /\ pc' = "request"
  /\ UNCHANGED <<now, ownerVars, queueVars, frame, value, idx, until, woken,
                 SendIAmHereTime, channel, driverVars, unsent>>

FrameReceived ==
  /\ pc = "dispatch" /\ frame # NoFrame
  /\ Status' = "RUNNING"
  /\ ResetConnectionTime' = now + CONNECTION_TIMEOUT
  /\ pc' = "request"
  /\ UNCHANGED <<now, ownerVars, queueVars, frame, value, idx, until, woken,
                 SendIAmHereTime, channel, driverVars, unsent>>

-----------------------------------------------------------------------------
\* The task: handle_request.  frame is not read after it and is cleared here.

IsController(f, function) ==
  f.program_type = PT_CONTROLLER /\ f.function_id = function

IsGetParameter(f) ==
  f.program_type = PT_REMOTE_CONTROL /\ f.function_id = GET_PARAMETER_VALUE

\* Mutant: the host of the mapping point is not compared.
GetsOutput_anyHost(f) ==
  /\ IsController(f, GET_OUTPUT_VALUE)
  /\ f.mapping_point.channelID < CONTROLLER_OUTPUT_MAX

\* The cases of handle_request that end without an exception before they reply.
GetsOutput(f) ==
  /\ IsController(f, GET_OUTPUT_VALUE)
  /\ f.mapping_point.hostID = ProgramId
  /\ f.mapping_point.channelID < CONTROLLER_OUTPUT_MAX

GetsParameter(f) ==
  IsGetParameter(f) /\ f.parameter.program_type = PT_CONTROLLER

\* get_response_frame answers requests addressed to this controller only.
CanRespond(f) == f.message_type = MT_MSG_REQUEST /\ f.program_id = ProgramId

ChannelNumber ==
  LET mapped == Cardinality(DOMAIN ParameterMapping)
  IN IF ParameterCount >= mapped THEN ParameterCount ELSE mapped

CONTROLLER_TYPE == 14

GetChannelNumber ==
  /\ pc = "request" /\ IsController(frame, GET_CHANNEL_NUMBER)
  /\ value' = ChannelNumber
  /\ pc' = "reply"
  /\ UNCHANGED <<now, ownerVars, queueVars, frame, idx, until, woken,
                 clockVars, channel, driverVars, unsent>>

GetControllerType ==
  /\ pc = "request" /\ IsController(frame, GET_CONTROLLER_TYPE)
  /\ value' = CONTROLLER_TYPE
  /\ pc' = "reply"
  /\ UNCHANGED <<now, ownerVars, queueVars, frame, idx, until, woken,
                 clockVars, channel, driverVars, unsent>>

GetParameterValue ==
  /\ pc = "request" /\ GetsParameter(frame)
  /\ pc' = IF frame.parameter.raw_info \in DOMAIN ParameterMapping
           THEN "checkTiming" ELSE "reply"
  /\ value' = SENSOR_UNDEFINED
  /\ UNCHANGED <<now, ownerVars, queueVars, frame, idx, until, woken,
                 clockVars, channel, driverVars, unsent>>

\* An I_AM_HERE of another device with this address is answered with our own.
IAmHereRequested ==
  /\ pc = "request" /\ IsController(frame, I_AM_HERE)
  /\ SendIAmHereTime' = now + KEEP_ALIVE_INTERVAL
  /\ pc' = "sendReply" /\ until' = Deadline(SEND_TIMEOUT)
  /\ UNCHANGED <<now, ownerVars, queueVars, frame, value, idx, woken, Status,
                 ResetConnectionTime, channel, driverVars, unsent>>

\* Mutant: the window is opened but the next Send is not brought forward.
GetOutputValue_late ==
  /\ pc = "request" /\ GetsOutput(frame)
  /\ LET ch == frame.mapping_point.channelID
     IN channel' =
          IF OutputMapping[ch] = Unmapped THEN channel
          ELSE [channel EXCEPT
                  ![ch].SendEndTimePoint = now + SEND_MESSAGES_TIME,
                  ![ch].mapping_point = frame.mapping_point]
  /\ frame' = NoFrame /\ idx' = 0 /\ pc' = "outputs"
  /\ UNCHANGED <<now, ownerVars, queueVars, value, until, woken, clockVars,
                 driverVars, unsent>>

\* TBroadcastChannel::schedule_to_send, for a channel that is mapped.
GetOutputValue ==
  /\ pc = "request" /\ GetsOutput(frame)
  /\ LET ch == frame.mapping_point.channelID
     IN channel' =
          IF OutputMapping[ch] = Unmapped THEN channel
          ELSE [channel EXCEPT
                  ![ch].SendTimePoint = now,
                  ![ch].SendEndTimePoint = now + SEND_MESSAGES_TIME,
                  ![ch].mapping_point = frame.mapping_point]
  /\ frame' = NoFrame /\ idx' = 0 /\ pc' = "outputs"
  /\ UNCHANGED <<now, ownerVars, queueVars, value, until, woken, clockVars,
                 driverVars, unsent>>

\* An exception abandons the rest of the turn: no outputs, no I_AM_HERE.
Reject ==
  /\ pc = "request"
  /\ ~ \/ \E fn \in {GET_CHANNEL_NUMBER, GET_CONTROLLER_TYPE, I_AM_HERE} :
            IsController(frame, fn)
       \/ GetsOutput(frame)
       \/ GetsParameter(frame)
  /\ frame' = NoFrame /\ pc' = "loop"
  /\ UNCHANGED <<now, ownerVars, queueVars, value, idx, until, woken,
                 clockVars, channel, driverVars, unsent>>

Reply ==
  /\ pc = "reply"
  /\ \/ /\ CanRespond(frame)
        /\ pc' = "sendReply" /\ until' = Deadline(SEND_TIMEOUT)
        /\ UNCHANGED <<frame, value>>
     \/ /\ ~CanRespond(frame)
        /\ pc' = "loop" /\ frame' = NoFrame
        /\ value' = SENSOR_UNDEFINED /\ UNCHANGED until
  /\ UNCHANGED <<now, ownerVars, queueVars, idx, woken, clockVars, channel,
                 driverVars, unsent>>

\* send_frame swallows a failed or unconfirmed Send: the turn goes on as if the
\* frame had been sent, so one action stands for both outcomes.
ReplySent ==
  /\ pc = "sendReply"
  /\ pc' = "outputs" /\ idx' = 0
  /\ frame' = NoFrame /\ value' = SENSOR_UNDEFINED /\ until' = 0
  /\ UNCHANGED <<now, ownerVars, queueVars, woken, clockVars, channel,
                 driverVars, unsent>>

-----------------------------------------------------------------------------
\* The task: read_mqtt_value, for a parameter request or for output idx.

ForOutput == idx < CONTROLLER_OUTPUT_MAX

MqttChannel == IF ForOutput THEN OutputMapping[idx]
               ELSE ParameterMapping[frame.parameter.raw_info]

\* Mutant: a unit too late.
IsTimedOut_late(c) ==
  ValueTimeout[c] >= 0 /\ now - LastUpdateTimePoint[c] > ValueTimeout[c] + 1

IsTimedOut(c) ==
  ValueTimeout[c] >= 0 /\ now - LastUpdateTimePoint[c] > ValueTimeout[c]

\* What follows the read: the frame is filled in and, for an output, sent.
AfterRead ==
  IF ForOutput THEN pc' = "sendOutput" /\ until' = Deadline(SEND_TIMEOUT)
               ELSE pc' = "reply" /\ UNCHANGED until

ReadDone == unsent' = IF ForOutput THEN unsent \ {idx} ELSE unsent

CheckTiming ==
  /\ pc = "checkTiming"
  /\ \/ /\ IsTimedOut(MqttChannel)
        /\ value' = SENSOR_UNDEFINED /\ AfterRead /\ ReadDone
     \/ /\ ~IsTimedOut(MqttChannel)
        /\ pc' = "readControl" /\ UNCHANGED <<value, until, unsent>>
  /\ UNCHANGED <<now, ownerVars, queueVars, frame, idx, woken, clockVars,
                 channel, driverVars>>

\* Inside one driver transaction, after the time-out was checked.
ReadControl ==
  /\ pc = "readControl"
  /\ value' = IF control[MqttChannel] = NoReading THEN SENSOR_UNDEFINED
              ELSE FromDouble(control[MqttChannel])
  /\ AfterRead /\ ReadDone
  /\ UNCHANGED <<now, ownerVars, queueVars, frame, idx, woken, clockVars,
                 channel, driverVars>>

-----------------------------------------------------------------------------
\* The task: send_scheduled_outputs and send_scheduled_i_am_here.

WindowOpen(ch) == channel[ch].SendEndTimePoint >= now

NoUpdates(ch) ==
  LastUpdateTimePoint[OutputMapping[ch]] <= channel[ch].LastSendTimePoint

\* Mutant: updates do not bring the next Send forward.
OutputDue_onSchedule(ch) ==
  /\ WindowOpen(ch)
  /\ OutputMapping[ch] # Unmapped
  /\ channel[ch].SendTimePoint <= now

OutputDue(ch) ==
  /\ WindowOpen(ch)
  /\ OutputMapping[ch] # Unmapped
  /\ NoUpdates(ch) => channel[ch].SendTimePoint <= now

NextOutput ==
  /\ pc = "outputs" /\ ForOutput
  /\ \/ OutputDue(idx) /\ pc' = "checkTiming" /\ UNCHANGED idx
     \/ ~OutputDue(idx) /\ idx' = idx + 1 /\ UNCHANGED pc
  /\ UNCHANGED <<now, ownerVars, queueVars, frame, value, until, woken,
                 clockVars, channel, driverVars, unsent>>

\* Mutant: an output is sent once per window and not repeated.
OutputSent_once ==
  /\ pc = "sendOutput"
  /\ channel' = [channel EXCEPT
                   ![idx].LastSendTimePoint = now,
                   ![idx].SendTimePoint = now + SEND_MESSAGES_TIME]
  /\ value' = SENSOR_UNDEFINED /\ until' = 0
  /\ idx' = idx + 1 /\ pc' = "outputs"
  /\ UNCHANGED <<now, ownerVars, queueVars, frame, woken, clockVars,
                 driverVars, unsent>>

\* postpone_send, after the Send has returned.
OutputSent ==
  /\ pc = "sendOutput"
  /\ channel' = [channel EXCEPT
                   ![idx].LastSendTimePoint = now,
                   ![idx].SendTimePoint = now + SEND_MESSAGES_INTERVAL]
  /\ value' = SENSOR_UNDEFINED /\ until' = 0
  /\ idx' = idx + 1 /\ pc' = "outputs"
  /\ UNCHANGED <<now, ownerVars, queueVars, frame, woken, clockVars,
                 driverVars, unsent>>

\* Mutant: only an idle controller announces itself.
OutputsDone_quiet ==
  /\ pc = "outputs" /\ ~ForOutput
  /\ pc' = "loop"
  /\ UNCHANGED <<now, ownerVars, queueVars, frame, value, idx, until, woken,
                 clockVars, channel, driverVars, unsent>>

OutputsDone ==
  /\ pc = "outputs" /\ ~ForOutput
  /\ pc' = "iamhere"
  /\ UNCHANGED <<now, ownerVars, queueVars, frame, value, idx, until, woken,
                 clockVars, channel, driverVars, unsent>>

SendScheduledIAmHere ==
  /\ pc = "iamhere"
  /\ \/ /\ SendIAmHereTime <= now
        /\ SendIAmHereTime' = now + KEEP_ALIVE_INTERVAL
        /\ pc' = "sendIAmHere" /\ until' = Deadline(SEND_TIMEOUT)
     \/ /\ SendIAmHereTime > now
        /\ pc' = "loop" /\ UNCHANGED <<SendIAmHereTime, until>>
  /\ UNCHANGED <<now, ownerVars, queueVars, frame, value, idx, woken, Status,
                 ResetConnectionTime, channel, driverVars, unsent>>

IAmHereSent ==
  /\ pc = "sendIAmHere"
  /\ pc' = "loop" /\ until' = 0
  /\ UNCHANGED <<now, ownerVars, queueVars, frame, value, idx, woken,
                 clockVars, channel, driverVars, unsent>>

-----------------------------------------------------------------------------
\* Time, and the specification.

\* With Urgent, time passes only while nobody has anything to compute.
Idle ==
  /\ bus = "idle" /\ driver = NoControl
  /\ \/ pc \in {"stopped", "undefined"}
     \/ Waiting /\ ~woken /\ now < until
     \/ Sending /\ now < until

Tick ==
  /\ now < MaxTime
  /\ Urgent => Idle
  /\ now' = now + 1
  /\ UNCHANGED <<ownerVars, queueVars, taskVars, clockVars, channel,
                 driverVars, unsent>>

Bus == HandleNotify \/ \E f \in BusFrames : HandlePush(f)

Owner == RemoveHandler \/ Disable

Driver ==
  \/ OnControlValue
  \/ \E c \in Controls : Fail(c) \/ \E r \in Readings : Publish(c, r)

Select == \/ StartTask \/ LoopExit \/ SelectQueued \/ SelectWait
          \/ SelectNotified \/ SelectTimedOut

HandleRequest ==
  \/ GetChannelNumber \/ GetControllerType \/ GetParameterValue
  \/ IAmHereRequested \/ GetOutputValue \/ Reject \/ Reply \/ ReplySent

SendOutputs ==
  \/ CheckTiming \/ ReadControl \/ NextOutput \/ OutputSent \/ OutputsDone
  \/ SendScheduledIAmHere \/ IAmHereSent

Task == \/ Select \/ NothingReceived \/ FrameReceived
        \/ HandleRequest \/ SendOutputs

Next == Bus \/ Owner \/ Driver \/ Task \/ Tick

Spec == Init /\ [][Next]_vars

\* The threads are scheduled, the clock advances, and the owner, once it has
\* begun to stop the controller, goes on.  Nothing makes frames arrive.
Fairness ==
  WF_vars(Task) /\ WF_vars(HandleNotify) /\ WF_vars(Disable) /\ WF_vars(Tick)

FairSpec == Spec /\ Fairness

-----------------------------------------------------------------------------
\* Properties.

\* The requests handle_request replies to: get_response_frame accepts them and
\* the function is supported, or the frame is an I_AM_HERE.
Answerable(f) ==
  \/ IsController(f, I_AM_HERE)
  \/ /\ CanRespond(f)
     /\ \/ IsController(f, GET_CHANNEL_NUMBER)
        \/ IsController(f, GET_CONTROLLER_TYPE)
        \/ GetsParameter(f)

\* A frame counts as dealt with once its reply is being sent or it is refused.
Pending ==
  IF frame # NoFrame /\ pc # "sendReply" THEN <<frame>> \o CanFrames
  ELSE CanFrames

Answering == IF pc = "sendReply" THEN frame ELSE NoFrame

Promise == INSTANCE ControllerPromise WITH
  Frames <- {f \in BusFrames : IsForMe(f)}, None <- NoFrame,
  inbox <- Pending,
  answering <- Answering

\* The controller keeps the promise of ControllerPromise: over any interleaving
\* of the listener, the driver, the clock and a shutdown, no accepted request is
\* skipped, answered twice or answered out of order (SelectTimeout's queue and
\* handle_request's exceptions).
PromiseKept == Promise!Spec

\* An output is broadcast only on behalf of the request that opened its window:
\* what is being sent carries the mapping point of a request for this
\* controller and this very channel, and the channel is mapped
\* (get_output_value, send_scheduled_outputs).
OutputAuthorised ==
  pc = "sendOutput" =>
    /\ channel[idx].mapping_point \in MappingPoint
    /\ channel[idx].mapping_point.hostID = ProgramId
    /\ channel[idx].mapping_point.channelID = idx
    /\ OutputMapping[idx] \in Controls

\* The owner's destructor returns: once Enabled is cleared the task leaves its
\* loop, because the wait for a frame and every Send end by themselves.  (After
\* an undefined step nothing is promised.)
StopsEventually == ~Enabled ~> pc \in {"stopped", "undefined"}

\* Losing the connection never cuts a broadcast window short: when the
\* controller is idle the ten minutes of every output are over, although the
\* two intervals are kept in separate time points.
IdleMeansNoWindow ==
  Status = "IDLE" => \A ch \in Channels : channel[ch].SendEndTimePoint <= now

\* The longest turn of the loop that an exception does not abandon: a wait that
\* a frame ends at the last moment, its reply, every output, and I_AM_HERE.
Lap == READ_TIMEOUT + (CONTROLLER_OUTPUT_MAX + 2) * SEND_TIMEOUT

InLoop == pc \notin {"startup", "stopped", "undefined"}

\* The devices of the bus hear of the controller in time: an I_AM_HERE that is
\* due waits for one turn of the loop at most.
KeepAliveTimely == InLoop => now <= SendIAmHereTime + Lap

\* When an output is to be on the bus next: an interval after it last was, or at
\* once where it has not been since the request that opened its window.
NextBroadcast(ch) ==
  LET opened == channel[ch].SendEndTimePoint - SEND_MESSAGES_TIME
      last   == channel[ch].LastSendTimePoint
  IN IF last >= opened THEN last + SEND_MESSAGES_INTERVAL ELSE opened

\* While its window is open an output is sent at once, and again an interval
\* after the last time, give or take one turn of the loop, in whatever order the
\* requests, the connection time-out and the other outputs come.
OutputTimely ==
  InLoop => \A ch \in Channels :
    WindowOpen(ch) /\ OutputMapping[ch] # Unmapped
      => now <= NextBroadcast(ch) + Lap

\* A value that is newer than the last broadcast of its output goes out within
\* one turn of the loop, or of the request that opened the window.
UpdatePrompt ==
  InLoop => \A ch \in Channels :
    WindowOpen(ch) /\ OutputMapping[ch] # Unmapped /\ ~NoUpdates(ch)
      => \/ now <= LastUpdateTimePoint[OutputMapping[ch]] + Lap
         \/ now <= channel[ch].SendEndTimePoint - SEND_MESSAGES_TIME + Lap

\* A value that nobody has published for longer than its value_timeout_min is
\* not put on the bus as a number: what a Send that began at
\* until - SEND_TIMEOUT carries was published recently enough then.
StaleNotSent ==
  LET began == until - SEND_TIMEOUT
      fresh(c) ==
        ValueTimeout[c] >= 0 => began - publishedAt[c] <= ValueTimeout[c]
  IN /\ until < MaxTime /\ value # SENSOR_UNDEFINED
     => /\ pc = "sendOutput" => fresh(OutputMapping[idx])
        /\ pc = "sendReply" /\ GetsParameter(frame) => fresh(MqttChannel)

\* The task never takes a frame from an empty queue (SelectTimeout's front and
\* pop), which is what a thread-safe Handle would guarantee.
NoEmptyPop == pc # "undefined"

\* send_scheduled_outputs passes an output over as having "no channel updates"
\* only when its control has got no value since the one last sent was read.
\* Values whose event is still on its way, and equal time points, are left aside.
NoChannelUpdates ==
  /\ driver = NoControl /\ pc = "outputs" /\ ForOutput
  /\ OutputMapping[idx] # Unmapped /\ WindowOpen(idx)
  => LET last == LastUpdateTimePoint[OutputMapping[idx]]
     IN last < channel[idx].LastSendTimePoint => idx \notin unsent
=============================================================================
