------------------------ MODULE SmartWebToMqttGateway ------------------------
(***************************************************************************)
(* The poller of the programs on the bus: TSmartWebToMqttGateway           *)
(* (src/src/SmartWebToMqttGateway.cpp).                                    *)
(*                                                                         *)
(* The reader's thread handles the frames its queue holds: I_AM_PROGRAM    *)
(* adds a program and the requests for everything its class and that       *)
(* class's ancestors describe; a value response creates or updates a       *)
(* control.  The scheduler's thread sends the requests in turn.  The MQTT  *)
(* driver's thread sends a command when a user sets a control.  The owner  *)
(* destroys the gateway.  The reader is what LossyQueue promises, which    *)
(* ThreadedCanReader is shown to implement.                                *)
(***************************************************************************)
EXTENDS SmartWeb, Sequences, FiniteSets, SequencesExt

CONSTANTS
  Classes,               \* program type -> description, Config.Classes
  ProgramIds, Values,
  BusFrames,             \* the frames that may arrive from the bus
  FramesQueueMaxLength,  \* 100 in the code
  NoFrame, NoRequest, Garbage

Types == DOMAIN Classes

\* TSmartWebParameter, with the codecs whose decoding can fail told apart.
ParameterDescription ==
  [Name : STRING, ReadOnly : BOOLEAN, Codec : {"sensor", "onOff", "other"}]

\* A program's parameter on the bus, TParameterData without its value.
Parameter == [program_type : Nat, parameter_id : Nat, index : Nat]
Request == [program_id : ProgramIds, parameter : Parameter]

Frame == [can_eff : BOOLEAN, message_type : Nat, program_type : Nat,
          program_id : ProgramIds, function_id : Nat, can_dlc : Nat,
          type : Nat, parameter : Parameter, value : Values]

ParametersOf(t) ==
  {Classes[t].Inputs, Classes[t].Outputs, Classes[t].Parameters}

ASSUME GatewayAssumption ==
  /\ Types \subseteq Nat /\ IsFiniteSet(Types)
  /\ \A t \in Types :
       /\ Classes[t].ParentClasses \in Seq(STRING)
       /\ \A ps \in ParametersOf(t) :
            /\ IsFiniteSet(DOMAIN ps)
            /\ \A id \in DOMAIN ps : /\ id \in Nat /\ id <= 255
                                     /\ ps[id] \in ParameterDescription
       /\ \A ps \in {Classes[t].Inputs, Classes[t].Outputs} :
            \A id \in DOMAIN ps : ps[id].ReadOnly
  /\ \A t, u \in Types : Classes[t].Name = Classes[u].Name => t = u
  /\ Values \subseteq Int
  /\ BusFrames \subseteq Frame /\ NoFrame \notin BusFrames
  /\ FramesQueueMaxLength \in Nat
  /\ NoRequest \notin Request /\ Garbage \notin Request \cup {NoRequest}

VARIABLES
  Frames, handling,      \* the reader's queue and the frame it is handling
  adding,                \* AddProgram waits for RequestMutex
  KnownPrograms,         \* program id -> program type
  Requests, RequestIndex,
  polling,               \* the request HandleMapping is sending, or NoRequest
  controls,              \* <<class name, program id, name>> -> control
  devices, DeviceIds,    \* devices in the driver; those the gateway created
  command,               \* the command the event handler is sending
  owner                  \* the owner: "up", or how far the destructor has got

readerVars == <<Frames, handling, adding, KnownPrograms>>
pollVars == <<RequestIndex, polling>>
mqttVars == <<controls, devices, DeviceIds>>
vars == <<readerVars, Requests, pollVars, mqttVars, command, owner>>

Device == {Classes[t].Name : t \in Types} \X ProgramIds

Control == [value : Values \cup {0}, error : BOOLEAN,
            command : Request \cup {NoRequest}]

TypeOK ==
  /\ Frames \in Seq(BusFrames) /\ Len(Frames) <= FramesQueueMaxLength
  /\ handling \in BusFrames \cup {NoFrame}
  /\ adding \in BOOLEAN
  /\ DOMAIN KnownPrograms \subseteq ProgramIds
  /\ \A p \in DOMAIN KnownPrograms : KnownPrograms[p] \in Types
  /\ Requests \in Seq(Request)
  /\ RequestIndex \in 0 .. Len(Requests)
  /\ polling \in Request \cup {NoRequest, Garbage}
  /\ \A k \in DOMAIN controls : /\ <<k[1], k[2]>> \in devices
                                /\ controls[k] \in Control
  /\ devices \subseteq Device
  /\ DeviceIds \in Seq(Device)
  /\ command \in Request \cup {NoRequest}
  /\ owner \in {"up", "reader", "handler", "devices", "gone"}

Empty == [x \in {} |-> x]

Init ==
  /\ Frames = << >> /\ handling = NoFrame /\ adding = FALSE
  /\ KnownPrograms = Empty
  /\ Requests = << >> /\ RequestIndex = 0 /\ polling = NoRequest
  /\ controls = Empty /\ devices = {} /\ DeviceIds = << >>
  /\ command = NoRequest
  /\ owner = "up"

-----------------------------------------------------------------------------
\* The requests of a class: AddRequests.

\* The keys of a std::map in its order: the i-th has i - 1 below it.
Ids(ps) ==
  [i \in 1 .. Cardinality(DOMAIN ps) |->
     CHOOSE id \in DOMAIN ps :
       Cardinality({lower \in DOMAIN ps : lower < id}) = i - 1]

IndexedRequests(p, kind, ps) ==
  [i \in DOMAIN Ids(ps) |->
     [program_id |-> p, parameter |-> [program_type |-> PT_PROGRAM,
                                       parameter_id |-> kind,
                                       index |-> Ids(ps)[i]]]]

ParameterRequests(p, t, ps) ==
  [i \in DOMAIN Ids(ps) |->
     [program_id |-> p, parameter |-> [program_type |-> t,
                                       parameter_id |-> Ids(ps)[i],
                                       index |-> 0]]]

OwnRequests(p, t) ==
  IndexedRequests(p, SENSOR, Classes[t].Inputs)
  \o IndexedRequests(p, OUTPUT, Classes[t].Outputs)
  \o ParameterRequests(p, t, Classes[t].Parameters)

\* What the class of this name adds; an unknown name adds nothing.
OfClassNamed(name, requests) ==
  IF \E t \in Types : Classes[t].Name = name
  THEN requests[CHOOSE t \in Types : Classes[t].Name = name] ELSE << >>

\* Depth-first, without a check for a class met before: an ancestor reached by
\* two paths is polled twice.  Classes that are their own ancestors, for which
\* the code would not return, are cut at depth Cardinality(Types).
RequestsToDepth[n \in 0 .. Cardinality(Types)] ==
  [p \in ProgramIds |-> [t \in Types |->
     OwnRequests(p, t) \o
       IF n = 0 THEN << >>
       ELSE FlattenSeq([i \in DOMAIN Classes[t].ParentClasses |->
              OfClassNamed(Classes[t].ParentClasses[i],
                           RequestsToDepth[n - 1][p])])]]

RequestTable == RequestsToDepth[Cardinality(Types)]

RequestsOf(p, t) == RequestTable[p][t]

-----------------------------------------------------------------------------
\* The reader's thread.

AcceptFrame(f) ==
  /\ f.can_eff /\ f.message_type = MT_MSG_RESPONSE
  /\ \/ f.program_type = PT_PROGRAM /\ f.function_id = I_AM_PROGRAM
     \/ /\ f.program_type = PT_REMOTE_CONTROL
        /\ f.function_id = GET_PARAMETER_VALUE

Queue == INSTANCE LossyQueue WITH
  Frames <- BusFrames, Capacity <- FramesQueueMaxLength, None <- NoFrame,
  queue <- Frames, handling <- handling

\* The port offers every frame until the reader's destructor unregisters it.
Receive(f) ==
  /\ owner \in {"up", "reader"}
  /\ AcceptFrame(f) /\ Queue!Offer(f)
  /\ UNCHANGED <<adding, KnownPrograms, Requests, pollVars, mqttVars, command,
                 owner>>

Take ==
  /\ owner \in {"up", "reader"}
  /\ Queue!Take
  /\ UNCHANGED <<adding, KnownPrograms, Requests, pollVars, mqttVars, command,
                 owner>>

IsProgram == handling # NoFrame /\ handling.program_type = PT_PROGRAM

\* Mutant: a program that announces itself again is not recognised.
IsNewProgram_always ==
  handling.can_dlc = 3 /\ handling.type \in Types

\* Mutant: a program of a class that is not configured is added as well.
IsNewProgram_anyClass ==
  handling.program_id \notin DOMAIN KnownPrograms /\ handling.can_dlc = 3

IsNewProgram ==
  /\ handling.program_id \notin DOMAIN KnownPrograms
  /\ handling.can_dlc = 3 /\ handling.type \in Types

\* A known id keeps its class; an unknown class or a short frame is ignored.
AddProgram ==
  /\ IsProgram /\ ~adding
  /\ \/ /\ IsNewProgram
        /\ KnownPrograms' = [p \in DOMAIN KnownPrograms \cup
                                   {handling.program_id} |->
                               IF p \in DOMAIN KnownPrograms
                               THEN KnownPrograms[p] ELSE handling.type]
        /\ adding' = TRUE
        /\ UNCHANGED <<Frames, handling>>
     \/ /\ ~IsNewProgram
        /\ Queue!Done
        /\ UNCHANGED <<adding, KnownPrograms>>
  /\ UNCHANGED <<Requests, pollVars, mqttVars, command, owner>>

\* The rest of AddProgram, once RequestMutex is free.
AddRequests ==
  /\ IsProgram /\ adding
  /\ Requests' = Requests \o RequestsOf(handling.program_id, handling.type)
  /\ adding' = FALSE
  /\ Queue!Done
  /\ UNCHANGED <<KnownPrograms, pollVars, mqttVars, command, owner>>

\* The codecs of inputs throw for reserved readings: TSensorCodec for all of
\* them, TOnOffSensorCodec, which takes short and open for 1 and 0, for one.
DecodeFails(description, v) ==
  \/ description.Codec \in {"sensor", "onOff"} /\ v = SENSOR_UNDEFINED
  \/ /\ description.Codec = "sensor"
     /\ v \in {SENSOR_SHORT_VALUE, SENSOR_OPEN_VALUE}

\* Mutant: the command names the gateway's own type.
CommandOf_program(p, t, id, description) ==
  IF description.ReadOnly THEN NoRequest
  ELSE [program_id |-> p, parameter |-> [program_type |-> PT_PROGRAM,
                                         parameter_id |-> id, index |-> 0]]

\* MakeControlArgs: only a control one may write carries its parameter, from
\* which MakeSetParameterValueRequest makes the command.
CommandOf(p, t, id, description) ==
  IF description.ReadOnly THEN NoRequest
  ELSE [program_id |-> p, parameter |-> [program_type |-> t,
                                         parameter_id |-> id, index |-> 0]]

\* SetParameter: in one driver transaction create the device and the control
\* where they are missing, and set the value or the error.
SetParameter(t, ps, id, p, v) ==
  LET device == <<Classes[t].Name, p>>
      key == <<Classes[t].Name, p, ps[id].Name>>
      fails == DecodeFails(ps[id], v)
      old == IF key \in DOMAIN controls THEN controls[key]
             ELSE [value |-> 0, error |-> FALSE,
                   command |-> CommandOf(p, t, id, ps[id])]
      new == [old EXCEPT !.error = fails,
                         !.value = IF fails THEN @ ELSE v]
  IN IF id \notin DOMAIN ps THEN UNCHANGED mqttVars
     ELSE /\ controls' = [k \in DOMAIN controls \cup {key} |->
                            IF k = key THEN new ELSE controls[k]]
          /\ devices' = devices \cup {device}
          /\ DeviceIds' = IF device \in devices THEN DeviceIds
                          ELSE Append(DeviceIds, device)

\* Mutant: outputs are looked up among the inputs.
IndexedParameters_inputs(t, kind) == Classes[t].Inputs

\* The inputs or outputs of the program's own class.
IndexedParameters(t, kind) ==
  IF kind = SENSOR THEN Classes[t].Inputs ELSE Classes[t].Outputs

HandleGetValueResponse ==
  /\ handling # NoFrame /\ ~IsProgram
  /\ LET p == handling.program_id
         data == handling.parameter
     IN \/ /\ p \notin DOMAIN KnownPrograms
           /\ UNCHANGED mqttVars
        \/ /\ p \in DOMAIN KnownPrograms
           /\ \/ /\ data.program_type = PT_PROGRAM
                 /\ data.parameter_id \in {SENSOR, OUTPUT}
                 /\ SetParameter(KnownPrograms[p],
                      IndexedParameters(KnownPrograms[p], data.parameter_id),
                      data.index, p, handling.value)
              \/ /\ data.program_type \in Types \ {PT_PROGRAM}
                 /\ SetParameter(data.program_type,
                      Classes[data.program_type].Parameters,
                      data.parameter_id, p, handling.value)
              \/ /\ \/ /\ data.program_type = PT_PROGRAM
                       /\ data.parameter_id \notin {SENSOR, OUTPUT}
                    \/ data.program_type \notin Types \cup {PT_PROGRAM}
                 /\ UNCHANGED mqttVars
  /\ Queue!Done
  /\ UNCHANGED <<adding, KnownPrograms, Requests, pollVars, command, owner>>

-----------------------------------------------------------------------------
\* The scheduler's thread: HandleMapping.

\* Mutant: the index is wrapped only after it has been used past the end.
Wrapped_late(i) == IF i > Len(Requests) THEN 0 ELSE i

\* Mutant: the last request is never reached.
Wrapped_early(i) == IF i >= Len(Requests) - 1 THEN 0 ELSE i

Wrapped(i) == IF i = Len(Requests) THEN 0 ELSE i

\* Under RequestMutex: wrap the index, copy the request.
SendRequest ==
  /\ owner = "up" /\ polling = NoRequest
  /\ Requests # << >>
  /\ RequestIndex' = Wrapped(RequestIndex)
  /\ polling' = IF RequestIndex' < Len(Requests)
                THEN Requests[RequestIndex' + 1] ELSE Garbage
  /\ UNCHANGED <<readerVars, Requests, mqttVars, command, owner>>

\* The Send, confirmed or not, is over: ++RequestIndex without the mutex.
RequestSent ==
  /\ polling # NoRequest
  /\ RequestIndex' = RequestIndex + 1
  /\ polling' = NoRequest
  /\ UNCHANGED <<readerVars, Requests, mqttVars, command, owner>>

-----------------------------------------------------------------------------
\* The driver's thread: TControlOnValueEvent.

\* A control without user data raises an exception, and nothing is sent.
SetControl(k) ==
  /\ owner \in {"up", "reader", "handler"}
  /\ command = NoRequest
  /\ controls[k].command # NoRequest
  /\ command' = controls[k].command
  /\ UNCHANGED <<readerVars, Requests, pollVars, mqttVars, owner>>

CommandSent ==
  /\ command # NoRequest
  /\ command' = NoRequest
  /\ UNCHANGED <<readerVars, Requests, pollVars, mqttVars, owner>>

-----------------------------------------------------------------------------
\* The owner's thread: the destructor.

\* Scheduler.reset() joins the thread, and so waits for the Send it is in.
StopScheduler ==
  /\ owner = "up" /\ polling = NoRequest
  /\ owner' = "reader"
  /\ UNCHANGED <<readerVars, Requests, pollVars, mqttVars, command>>

\* Mutant: the reader's thread is detached.
ReaderJoined_detached == TRUE

ReaderJoined == handling = NoFrame

\* CanReader.reset() joins the reader's thread and drops its queue.
StopReader ==
  /\ owner = "reader" /\ ReaderJoined
  /\ owner' = "handler" /\ Frames' = << >>
  /\ UNCHANGED <<handling, adding, KnownPrograms, Requests, pollVars, mqttVars,
                 command>>

\* RemoveEventHandler waits for a running handler.
RemoveEventHandler ==
  /\ owner = "handler" /\ command = NoRequest
  /\ owner' = "devices"
  /\ UNCHANGED <<readerVars, Requests, pollVars, mqttVars, command>>

RemoveDevices ==
  /\ owner = "devices"
  /\ devices' = devices \ ToSet(DeviceIds)
  /\ controls' = [k \in {l \in DOMAIN controls : <<l[1], l[2]>> \in devices'}
                    |-> controls[k]]
  /\ owner' = "gone"
  /\ UNCHANGED <<readerVars, Requests, pollVars, DeviceIds, command>>

-----------------------------------------------------------------------------
Reader == Take \/ AddProgram \/ AddRequests \/ HandleGetValueResponse

Poller == SendRequest \/ RequestSent

Driver == CommandSent \/ \E k \in DOMAIN controls : SetControl(k)

Owner == StopScheduler \/ StopReader \/ RemoveEventHandler \/ RemoveDevices

Next ==
  \/ \E f \in BusFrames : Receive(f)
  \/ Reader \/ Poller \/ Driver \/ Owner

Spec == Init /\ [][Next]_vars

\* Both threads are scheduled: the scheduler runs HandleMapping again and again
\* (Scheduler), and its Send ends.  Nothing makes frames arrive.
FairSpec == Spec /\ WF_vars(Reader) /\ WF_vars(Poller)

-----------------------------------------------------------------------------
\* Properties.

\* The poller never reads past the end of Requests, although it advances
\* RequestIndex outside RequestMutex while AddProgram may append
\* (HandleMapping).
PolledInBounds == polling # Garbage

\* The requests to p, in order: those among the first n, for each n.
RequestsFor(p) ==
  LET among[n \in 0 .. Len(Requests)] ==
        IF n = 0 THEN << >>
        ELSE IF Requests[n].program_id = p THEN Append(among[n - 1], Requests[n])
        ELSE among[n - 1]
  IN among[Len(Requests)]

\* A known program is polled for what its class and its ancestors describe,
\* each path to it once, however often and in whatever order programs announce
\* themselves; an unknown one is not polled (AddProgram, AddRequests).
RequestsMatchPrograms ==
  \A p \in ProgramIds :
    RequestsFor(p) =
      IF p \in DOMAIN KnownPrograms /\ ~(adding /\ handling.program_id = p)
      THEN RequestsOf(p, KnownPrograms[p]) ELSE << >>

Parents(t) == {u \in Types : Classes[u].Name \in ToSet(Classes[t].ParentClasses)}

\* The configured classes whose parameters a class has: itself, its ancestors.
Lineage(t) ==
  LET up[n \in 0 .. Cardinality(Types)] ==
        IF n = 0 THEN {t}
        ELSE up[n - 1] \cup UNION {Parents(u) : u \in up[n - 1]}
  IN up[Cardinality(Types)]

\* What the proofs suppose of the classes: type 1 is no configured class, and
\* a class has whatever inputs and outputs its ancestors have.  It is so of the
\* built-in ones, as no class that others implement has any.
InputsAreOwn ==
  /\ PT_PROGRAM \notin Types
  /\ \A t \in Types : \A u \in Lineage(t) :
       /\ DOMAIN Classes[u].Inputs \subseteq DOMAIN Classes[t].Inputs
       /\ DOMAIN Classes[u].Outputs \subseteq DOMAIN Classes[t].Outputs

\* That no class is its own ancestor, so that AddRequests returns.
Acyclic == \A t \in Types : \A u \in Parents(t) : t \notin Lineage(u)

\* What they suppose of the bus: each program is of one class, announces itself
\* as no other, and gives values of what that class and its ancestors describe.
ProgramsAre(ClassOf) ==
  \A f \in BusFrames :
    LET t == ClassOf[f.program_id]
    IN  IF f.program_type = PT_PROGRAM THEN f.type \in Types => f.type = t
        ELSE f.parameter.program_type \in Types \ {PT_PROGRAM}
               => f.parameter.program_type \in Lineage(t)

\* The control for what a request asks, on the device of the describing class.
IsShown(cs, p, t, data) ==
  \/ /\ data.program_type = PT_PROGRAM
     /\ LET ps == IF data.parameter_id = SENSOR THEN Classes[t].Inputs
                  ELSE Classes[t].Outputs
        IN /\ data.index \in DOMAIN ps
           /\ <<Classes[t].Name, p, ps[data.index].Name>> \in DOMAIN cs
  \/ /\ data.program_type = t
     /\ LET ps == Classes[t].Parameters
        IN /\ data.parameter_id \in DOMAIN ps
           /\ <<Classes[t].Name, p, ps[data.parameter_id].Name>> \in DOMAIN cs

\* Whatever a program is polled for becomes a control once it has answered, be
\* it a sensor, an output or a parameter, of its class or inherited ("creates
\* MQTT controls for its sensors, inputs and parameters").
PolledIsShown ==
  [][handling # NoFrame /\ ~IsProgram /\ handling' = NoFrame =>
       LET p == handling.program_id
           data == handling.parameter
       IN [program_id |-> p, parameter |-> data] \in ToSet(Requests)
            => \E t \in Lineage(KnownPrograms[p]) :
                 IsShown(controls', p, t, data)]_vars

\* A command goes only to a parameter that is polled from the very program the
\* control shows (TControlOnValueEvent, MakeSetParameterValueRequest).
CommandIsPolled == command # NoRequest => command \in ToSet(Requests)

\* After the destructor no device of the gateway is left in the driver: nothing
\* creates one behind its back (the order of the destructor's steps).
NothingLeftBehind == owner = "gone" => devices = {}

\* Every request has its turn again and again, whatever programs join the round
\* (HandleMapping's index).
EveryRequestPolled ==
  \A r \in UNION {ToSet(RequestsOf(p, t)) : p \in ProgramIds, t \in Types} :
    r \in ToSet(Requests) ~> (polling = r \/ owner # "up")
=============================================================================
