------------------------------- MODULE Config -------------------------------
(***************************************************************************)
(* Loading of the configuration: LoadConfig (src/src/config_parser.cpp).   *)
(*                                                                         *)
(* The configuration file names the virtual controllers; the class files   *)
(* of the built-in and then of the user's directory describe the programs. *)
(* Each controller and each class file is one step.  A JSON object is a    *)
(* record whose domain holds the members that are present, a JSON object   *)
(* of named entries is the sequence of its entries in the order of their   *)
(* names, the order jsoncpp iterates in, and a directory is the sequence   *)
(* of its .json files in the order of their paths.                         *)
(***************************************************************************)
EXTENDS Codecs, SequencesExt

CONSTANTS
  Configurations,        \* the configurations the program may be started with
  Channels,              \* the strings from_string accepts: device/control
  ScheduleEncodings,     \* the encodings that start with "schedule"
  CONTROLLER_OUTPUT_MAX, \* size of OutputMapping, 32 in the code
  Samples,               \* bound: the raw values the codecs are checked on
  Malformed, Missing     \* a file that does not validate; no such directory

IsSeqOf(s, Fits(_)) == s \in Seq(ToSet(s)) /\ \A e \in ToSet(s) : Fits(e)

\* What wb-mqtt-smartweb.schema.json says of an entry and of a controller.  It
\* says nothing of a controller's own time-out; one that is no integer makes
\* asInt throw, which drops the controller as a duplicate key does.
IsChannel(e) ==
  /\ e.channel \in STRING
  /\ "value_timeout_min" \in DOMAIN e => e.value_timeout_min \in Int
IsSensor(s) == IsChannel(s) /\ s.sensor_index \in 1 .. CONTROLLER_OUTPUT_MAX
IsParameter(p) ==
  /\ IsChannel(p) /\ p.program_type \in 0 .. 255
  /\ p.parameter_id \in 0 .. 255 /\ p.parameter_index \in 0 .. 255
IsControllerEntry(json) ==
  /\ json.controller_id \in 1 .. 255
  /\ "value_timeout_min" \in DOMAIN json => json.value_timeout_min \in Int
  /\ "sensors" \in DOMAIN json => IsSeqOf(json.sensors, IsSensor)
  /\ "parameters" \in DOMAIN json => IsSeqOf(json.parameters, IsParameter)

\* What wb-mqtt-smartweb-class.schema.json says of a class file.
HasId(p) == p.id \in 0 .. 255
IsClassFile(data) ==
  data # Malformed =>
    /\ data.programType \in 0 .. 255
    /\ \A kind \in {"inputs", "outputs", "parameters"} \cap DOMAIN data :
         IsSeqOf(data[kind], HasId)

ASSUME ConfigAssumption ==
  /\ \A c \in Configurations :
       /\ DOMAIN c = {"file", "builtin", "user"}
       /\ c.file = Malformed \/ IsSeqOf(c.file, IsControllerEntry)
       /\ \A dir \in {c.builtin, c.user} :
            dir = Missing \/ IsSeqOf(dir, IsClassFile)
  /\ CONTROLLER_OUTPUT_MAX \in 1 .. 255 /\ Samples \subseteq Int

VARIABLES
  config,       \* what the process finds on the disk
  phase, at,    \* what is being read, and which entry or file of it is next
  Controllers,  \* TConfig::Controllers
  Classes       \* TSmartWebToMqttConfig::Classes

configVars == <<config, phase, at, Controllers, Classes>>

Member(json, name, default) == IF name \in DOMAIN json THEN json[name] ELSE default

\* The map f after f[k] = v.
With(f, k, v) == [x \in DOMAIN f \cup {k} |-> IF x = k THEN v ELSE f[x]]

(***************************************************************************)
(* LoadMqttToSmartWebController                                            *)
(***************************************************************************)
Key(type, id, i) == [program_type |-> type, parameter_id |-> id, index |-> i]
SensorKey(s) == Key(PT_CONTROLLER, SENSOR, s.sensor_index)
ParameterKey(p) == Key(p.program_type, p.parameter_id, p.parameter_index)

\* Mutants: the count does not wrap, or is that of the last entry; a key may
\* be given twice.
Counted_wide(count, i) == IF i + 1 > count THEN i + 1 ELSE count
Counted_last(count, i) == (i + 1) % 256
IsDuplicate_never(c, key) == FALSE

Counted(count, i) == LET n == (i + 1) % 256 IN IF n > count THEN n ELSE count

\* The mapping already has the key.
IsDuplicate(c, key) == key \in DOMAIN c.ParameterMapping

\* LoadTiming: the time-out of a channel is the last one given for it.
LoadTiming(c, channel, json) ==
  [c EXCEPT !.ValueTimeout =
     IF "value_timeout_min" \in DOMAIN json
     THEN With(@, channel, json.value_timeout_min)
     ELSE IF channel \in DOMAIN @ THEN @ ELSE With(@, channel, -1)]

\* Mutant: a channel without a device or control is skipped, not refused.
MapParameter_lenient(c, key, channel) ==
  IF c.thrown \/ channel \notin Channels THEN c
  ELSE IF IsDuplicate(c, key) THEN [c EXCEPT !.thrown = TRUE]
  ELSE [c EXCEPT !.ParameterMapping = With(@, key, channel),
                 !.ParameterCount = Counted(@, key.index)]

\* A duplicate key and a channel that from_string refuses throw.
MapParameter(c, key, channel) ==
  IF c.thrown \/ IsDuplicate(c, key) \/ channel \notin Channels
  THEN [c EXCEPT !.thrown = TRUE]
  ELSE [c EXCEPT !.ParameterMapping = With(@, key, channel),
                 !.ParameterCount = Counted(@, key.index)]

\* A sensor is also the output with the index before its own.  That the
\* output may be taken already (line 248) cannot be: its key would be too.
MapSensor(c, s) ==
  LET mapped == MapParameter(LoadTiming(c, s.channel, s), SensorKey(s), s.channel)
  IN  IF mapped.thrown THEN mapped
      ELSE [mapped EXCEPT !.OutputMapping = With(@, s.sensor_index - 1, s.channel)]

\* Line 259 gives LoadTiming the controller's JSON, not the parameter's.
MapEntry(json, c, p) ==
  MapParameter(LoadTiming(c, p.channel, json), ParameterKey(p), p.channel)

Sensors(json) == Member(json, "sensors", << >>)
Parameters(json) == Member(json, "parameters", << >>)
Entries(json) == Len(Sensors(json)) + Len(Parameters(json))

\* What is loaded before the first entry.
NothingMapped(json) ==
  [ProgramId |-> json.controller_id, ParameterMapping |-> << >>,
   ValueTimeout |-> << >>, OutputMapping |-> << >>, ParameterCount |-> 0,
   thrown |-> {"sensors", "parameters"} \cap DOMAIN json = {}]

\* The sensors are mapped in their order, then the parameters.
LoadMqttToSmartWebController(json) ==
  LET loaded[n \in 0 .. Entries(json)] ==
        IF n = 0 THEN NothingMapped(json)
        ELSE IF n <= Len(Sensors(json))
             THEN MapSensor(loaded[n - 1], Sensors(json)[n])
             ELSE MapEntry(json, loaded[n - 1],
                           Parameters(json)[n - Len(Sensors(json))])
  IN  loaded[Entries(json)]

(***************************************************************************)
(* LoadSmartWebClass                                                       *)
(***************************************************************************)
Encodings ==
  [byte |-> TIntCodec(-128, 127, 1), short |-> TIntCodec(-32768, 32767, 1),
   short10 |-> TIntCodec(-32768, 32767, 10),
   short100 |-> TIntCodec(-32768, 32767, 100), ushort |-> TIntCodec(0, 65535, 1),
   uint1K |-> TIntCodec(0, 2147483647, 1000),
   uint60K |-> TIntCodec(0, 2147483647, 60000), ubyte |-> TIntCodec(0, 255, 1)]

GetCodec(p) ==
  LET enc == Member(p, "encoding", "short10")
  IN  IF enc = "ubyte" /\ "values" \in DOMAIN p THEN TEnumCodec(p.values)
      ELSE Member(Encodings, enc, Encodings.short10)

\* GetCodec throws: the parameter is ignored.
Unsupported(p) == Member(p, "encoding", "short10") \in ScheduleEncodings

IsReadOnly(p) == Member(p, "readOnly", FALSE)

InputCodec(p) == IF p.type = "onOff" THEN TOnOffSensorCodec ELSE TSensorCodec
OutputCodec(p) == IF p.type = "PWM" THEN TPwmCodec ELSE TOutputCodec
ParameterCodec(p) ==
  CASE Member(p, "type", "value") = "onOff" -> TOnOffSensorCodec
    [] Member(p, "type", "value") = "temperature" /\ IsReadOnly(p) -> TSensorCodec
    [] OTHER -> GetCodec(p)

LoadParameter(p, base, readOnly, codec) ==
  [Id |-> p.id, Name |-> p.name, Order |-> base + p.id, ReadOnly |-> readOnly,
   Codec |-> codec]

\* std::map::insert: of the entries with one id the first is kept.
Ids(entries, among) == {entries[i].id : i \in among}
First(entries, among, id) == entries[Min({i \in among : entries[i].id = id})]

\* Mutant: the largest id itself is the next order.
OrderAfter_last(base, data, name) ==
  IF name \in DOMAIN data
  THEN base + Max({0} \cup {p.id : p \in ToSet(data[name])}) ELSE base

\* The order of the first entry of the next kind.
OrderAfter(base, data, name) ==
  IF name \in DOMAIN data
  THEN base + Max({0} \cup {p.id : p \in ToSet(data[name])}) + 1 ELSE base

\* Inputs and outputs are read-only whatever their entry says.
TSmartWebClass(data, source) ==
  LET inputs == Member(data, "inputs", << >>)
      outputs == Member(data, "outputs", << >>)
      parameters == Member(data, "parameters", << >>)
      outputBase == OrderAfter(0, data, "inputs")
      parameterBase == OrderAfter(outputBase, data, "outputs")
      supported == {i \in DOMAIN parameters : ~Unsupported(parameters[i])}
  IN  [Name |-> data.class, Source |-> source,
       ParentClasses |-> Member(data, "implements", << >>),
       Inputs |-> [id \in Ids(inputs, DOMAIN inputs) |->
         LET p == First(inputs, DOMAIN inputs, id)
         IN  LoadParameter(p, 0, TRUE, InputCodec(p))],
       Outputs |-> [id \in Ids(outputs, DOMAIN outputs) |->
         LET p == First(outputs, DOMAIN outputs, id)
         IN  LoadParameter(p, outputBase, TRUE, OutputCodec(p))],
       Parameters |-> [id \in Ids(parameters, supported) |->
         LET p == First(parameters, supported, id)
         IN  LoadParameter(p, parameterBase, IsReadOnly(p), ParameterCodec(p))]]

\* Mutant: the last file of a directory wins.
IsDefined_never(t, source) == FALSE

\* The first file of a directory wins, and the user's class stays.
IsDefined(t, source) ==
  t \in DOMAIN Classes /\ Classes[t].Source \in {source, "user"}

(***************************************************************************)
(* LoadConfig                                                              *)
(***************************************************************************)
ConfigInit ==
  /\ config \in Configurations
  /\ phase = "file" /\ at = 1
  /\ Controllers = << >> /\ Classes = << >>

Enter(p) == phase' = p /\ at' = 1

ReadFile ==
  /\ phase = "file"
  /\ Enter(IF config.file = Malformed THEN "failed" ELSE "controllers")
  /\ UNCHANGED <<config, Controllers, Classes>>

\* A controller that throws is dropped, the others stay.
LoadController ==
  /\ phase = "controllers" /\ at <= Len(config.file)
  /\ LET c == LoadMqttToSmartWebController(config.file[at])
     IN  Controllers' = IF c.thrown THEN Controllers ELSE Append(Controllers, c)
  /\ at' = at + 1
  /\ UNCHANGED <<config, phase, Classes>>

ControllersLoaded ==
  /\ phase = "controllers" /\ at > Len(config.file)
  /\ Enter("builtin")
  /\ UNCHANGED <<config, Controllers, Classes>>

Reading == phase \in {"builtin", "user"}

\* TNoDirError passes the handler of line 205 and ends LoadConfig.
NoDirectory ==
  /\ Reading /\ config[phase] = Missing
  /\ Enter("failed")
  /\ UNCHANGED <<config, Controllers, Classes>>

\* Mutant: the exception of a bad file ends the scan.
AfterBadFile_fails == Enter("failed")

\* A file that does not parse or validate is skipped.
AfterBadFile == at' = at + 1 /\ UNCHANGED phase

LoadFile ==
  /\ Reading /\ config[phase] # Missing /\ at <= Len(config[phase])
  /\ LET data == config[phase][at]
     IN  IF data = Malformed THEN AfterBadFile /\ UNCHANGED Classes
         ELSE /\ Classes' = IF IsDefined(data.programType, phase) THEN Classes
                            ELSE With(Classes, data.programType,
                                      TSmartWebClass(data, phase))
              /\ at' = at + 1 /\ UNCHANGED phase
  /\ UNCHANGED <<config, Controllers>>

DirectoryLoaded ==
  /\ Reading /\ config[phase] # Missing /\ at > Len(config[phase])
  /\ Enter(IF phase = "builtin" THEN "user" ELSE "loaded")
  /\ UNCHANGED <<config, Controllers, Classes>>

ConfigNext ==
  \/ ReadFile \/ LoadController \/ ControllersLoaded
  \/ NoDirectory \/ LoadFile \/ DirectoryLoaded

ConfigSpec == ConfigInit /\ [][ConfigNext]_configVars

\* One thread runs LoadConfig to its end.
ConfigFairSpec == ConfigSpec /\ WF_configVars(ConfigNext)

(***************************************************************************)
(* Properties                                                              *)
(***************************************************************************)
\* The state keeps its types: mappings fit their arrays and bytes.
ConfigTypeOK ==
  /\ config \in Configurations
  /\ phase \in {"file", "controllers", "builtin", "user", "loaded", "failed"}
  /\ at \in Nat \ {0}
  /\ \A c \in ToSet(Controllers) :
       /\ ~c.thrown /\ c.ParameterCount \in 0 .. 255
       /\ DOMAIN c.OutputMapping \subseteq 0 .. CONTROLLER_OUTPUT_MAX - 1
       /\ ToSet(c.ParameterMapping) \subseteq DOMAIN c.ValueTimeout \cap Channels
  /\ \A t \in DOMAIN Classes :
       t \in 0 .. 255 /\ Classes[t].Source \in {"builtin", "user"}

\* A controller's entry is sound if it maps something, each channel names a
\* device and a control, and no parameter is mapped twice, not even once as a
\* sensor and once as a parameter.
KeysOf(json) ==
  [i \in 1 .. Entries(json) |->
     IF i <= Len(Sensors(json)) THEN SensorKey(Sensors(json)[i])
     ELSE ParameterKey(Parameters(json)[i - Len(Sensors(json))])]

Sound(json) ==
  /\ {"sensors", "parameters"} \cap DOMAIN json # {}
  /\ \A e \in ToSet(Sensors(json)) \cup ToSet(Parameters(json)) :
       e.channel \in Channels
  /\ IsInjective(KeysOf(json))

\* The identifiers of the sound controllers among the first n.
SoundIds(file) ==
  LET ids[n \in 0 .. Len(file)] ==
        IF n = 0 THEN << >>
        ELSE IF Sound(file[n]) THEN Append(ids[n - 1], file[n].controller_id)
        ELSE ids[n - 1]
  IN  ids

\* One bad controller costs only itself: those loaded are exactly the sound
\* ones of the file, in the order of the file.
BadControllersDropped ==
  phase \in {"builtin", "user", "loaded"} =>
    [i \in DOMAIN Controllers |-> Controllers[i].ProgramId] =
    SoundIds(config.file)[Len(config.file)]

\* ParameterCount, which a controller reports as its number of channels,
\* covers every index that is mapped.  Index 255 cannot be covered by a byte
\* (its count wraps to 0), but must not uncover the others.
CountCoversIndices ==
  \A c \in ToSet(Controllers) : \A k \in DOMAIN c.ParameterMapping :
    k.index < 255 => k.index < c.ParameterCount

\* "Sensor is also accesible as output with index = sensor_index - 1"
\* (config_parser.cpp:245): what answers a request for an output is always
\* what answers a request for the sensor, whatever the parameters map.
OutputIsSensor ==
  \A c \in ToSet(Controllers) : \A i \in DOMAIN c.OutputMapping :
    LET key == Key(PT_CONTROLLER, SENSOR, i + 1)
    IN  /\ key \in DOMAIN c.ParameterMapping
        /\ c.OutputMapping[i] = c.ParameterMapping[key]

FilesOf(dir, t) ==
  {i \in DOMAIN dir : dir[i] # Malformed /\ dir[i].programType = t}

\* A class of the user overrides the built-in one of its program type, a bad
\* or later file of the same directory changes nothing, and nothing else is
\* loaded: of each type, the class of the first valid file.
UserOverridesBuiltIn ==
  phase = "loaded" => \A t \in 0 .. 255 :
    LET user == FilesOf(config.user, t)
        builtin == FilesOf(config.builtin, t)
    IN  IF user \cup builtin = {} THEN t \notin DOMAIN Classes
        ELSE /\ t \in DOMAIN Classes
             /\ Classes[t] =
                  IF user # {}
                  THEN TSmartWebClass(config.user[Min(user)], "user")
                  ELSE TSmartWebClass(config.builtin[Min(builtin)], "builtin")

\* No two controls of a class are shown at one place: the orders of inputs,
\* outputs and parameters do not overlap, whichever of them are absent or
\* empty.
OrdersDistinct ==
  \A t \in DOMAIN Classes :
    \A j, k \in {"Inputs", "Outputs", "Parameters"} :
      \A a \in DOMAIN Classes[t][j], b \in DOMAIN Classes[t][k] :
        Classes[t][j][a].Order = Classes[t][k][b].Order => j = k /\ a = b

\* No controller and no class file keeps the process from starting, however
\* many of them are bad and wherever they stand (the handlers of
\* LoadMqttToSmartWebConfig and LoadSmartWebToMqttConfig).
BadEntriesSurvived ==
  config.file # Malformed /\ Missing \notin {config.builtin, config.user}
    ~> phase = "loaded"

\* Nor does a directory that cannot be opened: the handler of
\* config_parser.cpp:205 logs "Cannot open ... directory" and returns.
MissingDirectorySurvived == config.file # Malformed => phase # "failed"

\* A switch shows other readings than 0 and 1 as they are, and sets 1.
Comparable(c, raw) ==
  c.kind = "onOff" => raw \in {0, 1, SENSOR_SHORT_VALUE, SENSOR_OPEN_VALUE}

\* Setting a control to the text it shows sets what is shown.  With tenths,
\* integers, names and switches it does so exactly; with finer decimals the
\* raw value may be the next one towards zero (0.29 of short100 sets 0.28),
\* never another.  A number shown for want of a name is refused.
CommandSetsWhatIsShown ==
  phase = "loaded" => \A t \in DOMAIN Classes :
    LET ps == Classes[t].Parameters
    IN  \A c \in {ps[id].Codec : id \in {i \in DOMAIN ps : ~ps[i].ReadOnly}} :
          \A raw \in Samples : Represents(c, raw) /\ Comparable(c, raw) =>
            \A text \in Decode(c, raw) : \A set \in Encode(c, text) :
              \/ text \in Decode(c, set)
              \/ /\ c.kind = "int" /\ c.Div > 10
                 /\ set = IF raw > 0 THEN raw - 1 ELSE raw + 1
=============================================================================
