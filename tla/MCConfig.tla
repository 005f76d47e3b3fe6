------------------------------ MODULE MCConfig ------------------------------
(***************************************************************************)
(* Config with files like src/config.json and the built-in class files,    *)
(* with what the schemas allow and the loader must refuse or survive.      *)
(***************************************************************************)
EXTENDS Config

MCChannels == {"wb-adc/R1", "wb-adc/Vin"}
MCScheduleEncodings == {"schedule1", "schedule2", "scheduleWeekly"}

Sensor(channel, i) == [channel |-> channel, sensor_index |-> i]
Parameter(channel, id, i) ==
  [channel |-> channel, program_type |-> PT_CONTROLLER, parameter_id |-> id,
   parameter_index |-> i]

\* src/config.json, with time-outs in use.
Shipped ==
  [controller_id |-> 204,
   sensors |-> <<Sensor("wb-adc/R1", 1) @@ [value_timeout_min |-> 5]>>,
   parameters |-> <<Parameter("wb-adc/Vin", 1, 0)
                    @@ [value_timeout_min |-> 7]>>]

\* The largest sensor and a parameter with the largest index, before others.
Edges ==
  [controller_id |-> 1,
   sensors |-> <<Sensor("wb-adc/R1", 32), Sensor("wb-adc/R1", 1)>>,
   parameters |-> <<Parameter("wb-adc/Vin", 2, 255),
                    Parameter("wb-adc/R1", 2, 254)>>]

SensorOnly == [controller_id |-> 2, sensors |-> <<Sensor("wb-adc/R1", 2)>>]
\* A sensor and a parameter with its key, two equal sensors, a channel that
\* is not one, and no mapping at all.
Clash ==
  [controller_id |-> 3, sensors |-> <<Sensor("wb-adc/R1", 1)>>,
   parameters |-> <<Parameter("wb-adc/Vin", SENSOR, 1)>>]
Twice ==
  [controller_id |-> 4,
   sensors |-> <<Sensor("wb-adc/R1", 1), Sensor("wb-adc/Vin", 1)>>]
NoControlName ==
  [controller_id |-> 5, sensors |-> <<Sensor("wb-adc/", 1), Sensor("wb-adc/R1", 2)>>]
Unmapped == [controller_id |-> 6]

\* Built-in classes: GENERIC_RELAY, two of whose parameters have the ids of
\* others, and a room device with the encodings in use.
Relay ==
  [class |-> "GENERIC_RELAY", programType |-> 27, implements |-> <<"PROGRAM">>,
   inputs |-> <<[name |-> "input_1", id |-> 0, type |-> "onOff"]>>,
   outputs |-> <<[name |-> "aOutput", id |-> 1, type |-> "PWM"],
                 [name |-> "dOutput", id |-> 0, type |-> "relay"]>>,
   parameters |->
     <<[name |-> "algorithm", id |-> 1, encoding |-> "ubyte",
        values |-> [k \in 0 .. 2 |-> IF k = 0 THEN "Off" ELSE "And"]],
       [name |-> "minOnTime", id |-> 5, encoding |-> "uint60K"],
       [name |-> "periodicOnTime", id |-> 5, encoding |-> "uint60K"],
       [name |-> "remoteControlEnabled", id |-> 8, encoding |-> "ubyte",
        type |-> "onOff"],
       [name |-> "schedule", id |-> 7, encoding |-> "schedule1"]>>]

Room ==
  [class |-> "ROOM_DEVICE", programType |-> 5, implements |-> <<"PROGRAM">>,
   inputs |-> <<[name |-> "roomT", id |-> 1, type |-> "temperature"]>>,
   outputs |-> <<[name |-> "valve", id |-> 1, type |-> "valve"]>>,
   parameters |->
     <<[name |-> "airT", id |-> 0, type |-> "temperature", readOnly |-> TRUE],
       [name |-> "count", id |-> 3, encoding |-> "ushort"],
       [name |-> "curve", id |-> 4, encoding |-> "short100"],
       [name |-> "delay", id |-> 5, encoding |-> "uint1K"],
       [name |-> "offset", id |-> 6, encoding |-> "byte"],
       [name |-> "priority", id |-> 7, encoding |-> "ubyte"],
       [name |-> "step", id |-> 8, encoding |-> "short"],
       [name |-> "temperature", id |-> 2, encoding |-> "short10"]>>]

\* The user's room: no inputs, outputs that are an empty object.
UserRoom ==
  [class |-> "MY_ROOM", programType |-> 5, outputs |-> << >>,
   parameters |-> <<[name |-> "holidays", id |-> 0, encoding |-> "scheduleWeekly"],
                    [name |-> "temperature", id |-> 0]>>]
Named(data, name) == [data EXCEPT !.class = name]

Files ==
  {Malformed, << >>, <<Shipped, Clash, Edges>>, <<Twice, SensorOnly, Shipped>>,
   <<Edges, NoControlName, Unmapped, SensorOnly>>}
BuiltInDirectories ==
  {Missing, <<Relay, Malformed, Room>>, <<Room, Named(Room, "ROOM_AGAIN"), Relay>>}
UserDirectories ==
  {Missing, << >>, <<UserRoom>>, <<Malformed, UserRoom, Named(UserRoom, "LATER")>>,
   <<Named(Relay, "MY_RELAY"), Named(UserRoom, "MY_OTHER_ROOM")>>}

MCConfigurations ==
  [file : Files, builtin : BuiltInDirectories, user : UserDirectories]

MCSamples ==
  -300 .. 300 \cup {-32768, -32767, -32766, 4095, 16385, 32767, 65535}
  \cup {6000 * k : k \in 0 .. 60}
=============================================================================
