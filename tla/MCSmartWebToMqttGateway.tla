----------------------- MODULE MCSmartWebToMqttGateway -----------------------
(***************************************************************************)
(* SmartWebToMqttGateway with classes shaped like the built-in BOILER,     *)
(* which reaches TEMPERATURE_SOURCE by two paths, or with a user's class   *)
(* whose parent has an input of its own.                                   *)
(***************************************************************************)
EXTENDS SmartWebToMqttGateway

Boiler    == 23
Generator == 18
Source    == 6

Reading(name) == [Name |-> name, ReadOnly |-> TRUE, Codec |-> "sensor"]
Setting(name) == [Name |-> name, ReadOnly |-> FALSE, Codec |-> "other"]

Class(name, parents, inputs, outputs, parameters) ==
  [Name |-> name, ParentClasses |-> parents, Inputs |-> inputs,
   Outputs |-> outputs, Parameters |-> parameters]

SourceClass ==
  Class("TEMPERATURE_SOURCE", <<"PROGRAM">>, Empty, Empty,
        [id \in {1} |-> Reading("requiredTemperature")])

BuiltIn ==
  [t \in {Boiler, Generator, Source} |->
     CASE t = Boiler ->
            Class("BOILER",
                  <<"PROGRAM", "TEMPERATURE_SOURCE", "TEMPERATURE_GENERATOR">>,
                  [id \in {0} |-> Reading("boilerT")],
                  [id \in {3} |-> [Reading("powerRequest")
                                     EXCEPT !.Codec = "other"]], Empty)
       [] t = Generator ->
            Class("TEMPERATURE_GENERATOR",
                  <<"PROGRAM", "TEMPERATURE_SOURCE">>, Empty, Empty,
                  [id \in {5} |-> Setting("hysteresis")])
       [] t = Source -> SourceClass]

Inherited ==
  [t \in {Boiler, Source} |->
     IF t = Boiler
     THEN Class("BOILER", <<"TEMPERATURE_SOURCE">>, Empty, Empty, Empty)
     ELSE [SourceClass EXCEPT !.Inputs = [id \in {0} |-> Reading("sourceT")]]]

Response(type, p, function, dlc, class, data, v) ==
  [can_eff |-> TRUE, message_type |-> MT_MSG_RESPONSE, program_type |-> type,
   program_id |-> p, function_id |-> function, can_dlc |-> dlc,
   type |-> class, parameter |-> data, value |-> v]

Data(type, id, index) ==
  [program_type |-> type, parameter_id |-> id, index |-> index]

IAmProgram(p, class, dlc) ==
  Response(PT_PROGRAM, p, I_AM_PROGRAM, dlc, class, Data(0, 0, 0), 215)
Value(p, data, v) ==
  Response(PT_REMOTE_CONTROL, p, GET_PARAMETER_VALUE, 8, 0, data, v)

MCValues == {215, SENSOR_OPEN_VALUE}

Announcements == {IAmProgram(1, Boiler, 3), IAmProgram(2, Source, 3),
                  IAmProgram(2, Source, 2), IAmProgram(2, 99, 3)}

\* Answers of the first program, with a number and with a reserved reading, and
\* one to what is not described.
BuiltInFrames ==
  Announcements \cup
  {Value(1, Data(PT_PROGRAM, SENSOR, 0), SENSOR_OPEN_VALUE),
   Value(1, Data(PT_PROGRAM, OUTPUT, 3), 215),
   Value(1, Data(Generator, 5, 0), 215),
   Value(2, Data(99, 1, 0), 215),
   [Value(1, Data(Generator, 5, 0), 215)
      EXCEPT !.message_type = MT_MSG_REQUEST]}

InheritedFrames ==
  {IAmProgram(1, Boiler, 3), Value(1, Data(PT_PROGRAM, SENSOR, 0), 215)}

\* What the proofs suppose holds where the classes are the built-in ones.
ASSUME SupposedAssumption ==
  /\ Acyclic
  /\ Classes = BuiltIn =>
       /\ InputsAreOwn
       /\ ProgramsAre([p \in ProgramIds |-> IF p = 1 THEN Boiler ELSE Source])
=============================================================================
