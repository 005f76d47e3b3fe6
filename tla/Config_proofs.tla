----------------------------- MODULE Config_proofs -----------------------------
(***************************************************************************)
(* Proofs about Config and its codecs, for every configuration the schemas *)
(* allow.                                                                  *)
(***************************************************************************)
EXTENDS Config, FiniteRecursion

\* The maps with keys from K and values from V, and the keys of parameters.
Maps(K, V) == UNION {[D -> V] : D \in SUBSET K}
ParameterKeys == [program_type : 0 .. 255, parameter_id : 0 .. 255,
                  index : 0 .. 255]

\* A controller while it is loaded.
LoadStates ==
  [ProgramId : 1 .. 255, ParameterMapping : Maps(ParameterKeys, Channels),
   ValueTimeout : Maps(STRING, Int),
   OutputMapping : Maps(0 .. CONTROLLER_OUTPUT_MAX - 1, Channels),
   ParameterCount : 0 .. 255, thrown : BOOLEAN]

\* What is mapped has a time-out and is covered by the count; an output is the
\* sensor of the next index.
Timed(c) ==
  \A k \in DOMAIN c.ParameterMapping :
    c.ParameterMapping[k] \in DOMAIN c.ValueTimeout
Covered(c) ==
  \A k \in DOMAIN c.ParameterMapping :
    k.index < 255 => k.index < c.ParameterCount
OutputsAreSensors(c) ==
  \A i \in DOMAIN c.OutputMapping :
    LET key == Key(PT_CONTROLLER, SENSOR, i + 1)
    IN  /\ key \in DOMAIN c.ParameterMapping
        /\ c.OutputMapping[i] = c.ParameterMapping[key]

Loading(c) ==
  c \in LoadStates /\ Timed(c) /\ Covered(c) /\ OutputsAreSensors(c)

-----------------------------------------------------------------------------
\* The map after one more entry.
LEMMA WithMaps ==
  ASSUME NEW K, NEW V, NEW f \in Maps(K, V), NEW k \in K, NEW v \in V
  PROVE  /\ With(f, k, v) \in Maps(K, V)
         /\ DOMAIN With(f, k, v) = DOMAIN f \cup {k}
         /\ With(f, k, v)[k] = v
         /\ \A x \in DOMAIN f : x # k => With(f, k, v)[x] = f[x]
<1>1. PICK D \in SUBSET K : f \in [D -> V]
  BY DEF Maps
<1>2. D \cup {k} \in SUBSET K /\ With(f, k, v) \in [D \cup {k} -> V]
  BY <1>1 DEF With
<1>3. QED
  BY <1>1, <1>2 DEF Maps, With

\* The map without entries.
LEMMA NoEntries ==
  ASSUME NEW K, NEW V
  PROVE  << >> \in Maps(K, V) /\ DOMAIN << >> = {}
<1>1. << >> \in [{} -> V] /\ {} \in SUBSET K
  OBVIOUS
<1>2. QED
  BY <1>1 DEF Maps

\* The channel's time-out is known afterwards, and nothing else changed.
LEMMA TimingLoaded ==
  ASSUME NEW c, Loading(c), NEW channel \in STRING, NEW json,
         "value_timeout_min" \in DOMAIN json => json.value_timeout_min \in Int
  PROVE  LET d == LoadTiming(c, channel, json)
         IN  /\ Loading(d) /\ channel \in DOMAIN d.ValueTimeout
             /\ d.ProgramId = c.ProgramId /\ d.thrown = c.thrown
             /\ d.ParameterMapping = c.ParameterMapping
             /\ d.OutputMapping = c.OutputMapping
<1> DEFINE d == LoadTiming(c, channel, json)
           old == c.ValueTimeout
           new == d.ValueTimeout
<1>1. old \in Maps(STRING, Int)
  BY DEF Loading, LoadStates
<1>2. /\ new = IF "value_timeout_min" \in DOMAIN json
               THEN With(old, channel, json.value_timeout_min)
               ELSE IF channel \in DOMAIN old THEN old
               ELSE With(old, channel, -1)
      /\ d = [c EXCEPT !.ValueTimeout = new]
  BY DEF LoadTiming, Loading, LoadStates
<1> HIDE DEF d
<1>3. /\ new \in Maps(STRING, Int)
      /\ DOMAIN old \cup {channel} \subseteq DOMAIN new
  <2>1. \A v \in Int :
          /\ With(old, channel, v) \in Maps(STRING, Int)
          /\ DOMAIN With(old, channel, v) = DOMAIN old \cup {channel}
    BY <1>1, WithMaps
  <2>2. -1 \in Int
    OBVIOUS
  <2> HIDE DEF new, old
  <2>3. QED
    BY <1>1, <1>2, <2>1, <2>2
<1>4. /\ d \in LoadStates
      /\ d.ParameterMapping = c.ParameterMapping
      /\ d.OutputMapping = c.OutputMapping /\ d.ProgramId = c.ProgramId
      /\ d.ParameterCount = c.ParameterCount /\ d.thrown = c.thrown
  BY <1>2, <1>3 DEF Loading, LoadStates
<1>5. Timed(d) /\ Covered(d) /\ OutputsAreSensors(d)
  BY <1>3, <1>4 DEF Loading, Timed, Covered, OutputsAreSensors
<1>6. QED
  BY <1>3, <1>4, <1>5 DEF Loading, d

\* The count covers the index, and what it covered.
LEMMA CountCovers ==
  ASSUME NEW count \in 0 .. 255, NEW i \in 0 .. 255
  PROVE  /\ Counted(count, i) \in 0 .. 255
         /\ count <= Counted(count, i)
         /\ i < 255 => i < Counted(count, i)
<1>1. (i + 1) % 256 \in 0 .. 255 /\ (i < 255 => (i + 1) % 256 = i + 1)
  OBVIOUS
<1>2. QED
  BY <1>1 DEF Counted

\* A key is mapped unless it is already, or its channel names no control.
LEMMA ParameterMapped ==
  ASSUME NEW c, Loading(c), NEW key \in ParameterKeys,
         NEW channel \in DOMAIN c.ValueTimeout
  PROVE  LET d == MapParameter(c, key, channel)
         IN  /\ Loading(d) /\ d.ProgramId = c.ProgramId
             /\ d.OutputMapping = c.OutputMapping
             /\ d.thrown <=> \/ c.thrown \/ key \in DOMAIN c.ParameterMapping
                             \/ channel \notin Channels
             /\ ~d.thrown =>
                  /\ DOMAIN d.ParameterMapping
                       = DOMAIN c.ParameterMapping \cup {key}
                  /\ d.ParameterMapping[key] = channel
<1> DEFINE d == MapParameter(c, key, channel)
           old == c.ParameterMapping
           new == With(old, key, channel)
           n == Counted(c.ParameterCount, key.index)
<1>1. CASE c.thrown \/ key \in DOMAIN old \/ channel \notin Channels
  <2>1. d = [c EXCEPT !.thrown = TRUE]
    BY <1>1 DEF MapParameter, IsDuplicate
  <2> HIDE DEF d
  <2>2. /\ d \in LoadStates /\ d.thrown = TRUE
        /\ d.ParameterMapping = c.ParameterMapping
        /\ d.ValueTimeout = c.ValueTimeout
        /\ d.OutputMapping = c.OutputMapping /\ d.ProgramId = c.ProgramId
        /\ d.ParameterCount = c.ParameterCount
    BY <2>1 DEF Loading, LoadStates
  <2>3. Timed(d) /\ Covered(d) /\ OutputsAreSensors(d)
    BY <2>2 DEF Loading, Timed, Covered, OutputsAreSensors
  <2>4. QED
    BY <1>1, <2>2, <2>3 DEF Loading, d
<1>2. CASE ~c.thrown /\ key \notin DOMAIN old /\ channel \in Channels
  <2>1. d = [c EXCEPT !.ParameterMapping = new, !.ParameterCount = n]
    BY <1>2 DEF MapParameter, IsDuplicate
  <2>2. /\ new \in Maps(ParameterKeys, Channels)
        /\ DOMAIN new = DOMAIN old \cup {key} /\ new[key] = channel
        /\ \A k \in DOMAIN old : new[k] = old[k]
    <3>1. old \in Maps(ParameterKeys, Channels)
      BY DEF Loading, LoadStates
    <3>2. \A k \in DOMAIN old : k # key
      BY <1>2
    <3>3. channel \in Channels
      BY <1>2
    <3> HIDE DEF old
    <3>4. /\ With(old, key, channel) \in Maps(ParameterKeys, Channels)
          /\ DOMAIN With(old, key, channel) = DOMAIN old \cup {key}
          /\ With(old, key, channel)[key] = channel
          /\ \A k \in DOMAIN old :
               k # key => With(old, key, channel)[k] = old[k]
      <4> HIDE DEF d, n, new
      <4>1. QED
        BY <3>1, <3>3, WithMaps, SMTT(30)
    <3>5. QED
      BY <3>2, <3>4
  <2>3. /\ n \in 0 .. 255 /\ c.ParameterCount <= n
        /\ key.index < 255 => key.index < n
        /\ c.ParameterCount \in 0 .. 255
    <3>1. c.ParameterCount \in 0 .. 255 /\ key.index \in 0 .. 255
      BY DEF Loading, LoadStates, ParameterKeys
    <3>2. QED
      BY <3>1, CountCovers
  <2>4. \A k \in DOMAIN old : k.index \in 0 .. 255
    <3>1. old \in Maps(ParameterKeys, Channels)
      BY DEF Loading, LoadStates
    <3>2. DOMAIN old \subseteq ParameterKeys
      BY <3>1 DEF Maps
    <3>3. QED
      BY <3>2 DEF ParameterKeys
  <2> HIDE DEF d, new, n
  <2>5. /\ d \in LoadStates /\ d.thrown = c.thrown
        /\ d.ParameterMapping = new /\ d.ParameterCount = n
        /\ d.ValueTimeout = c.ValueTimeout
        /\ d.OutputMapping = c.OutputMapping /\ d.ProgramId = c.ProgramId
    BY <2>1, <2>2, <2>3 DEF Loading, LoadStates
  <2>6. Timed(d)
    BY <2>2, <2>5 DEF Loading, Timed
  <2>7. Covered(d)
    <3>1. \A k \in DOMAIN old : k.index < 255 => k.index < c.ParameterCount
      BY DEF Loading, Covered
    <3>2. ASSUME NEW k \in DOMAIN old, k.index < 255 PROVE k.index < n
      <4>1. k.index \in 0 .. 255 /\ k.index < c.ParameterCount
        BY <2>4, <3>1, <3>2
      <4>2. /\ n \in Int /\ c.ParameterCount \in Int
            /\ c.ParameterCount <= n /\ k.index \in Int
        BY <2>3, <4>1
      <4>3. \A a, b, m \in Int : a < b /\ b <= m => a < m
        OBVIOUS
      <4>4. QED
        BY <4>1, <4>2, <4>3
    <3>3. QED
      BY <2>2, <2>3, <2>5, <3>2 DEF Covered
  <2>8. OutputsAreSensors(d)
    BY <2>2, <2>5 DEF Loading, OutputsAreSensors
  <2>9. QED
    BY <1>2, <2>2, <2>5, <2>6, <2>7, <2>8 DEF Loading, d
<1>3. QED
  BY <1>1, <1>2

-----------------------------------------------------------------------------
\* The sensor is mapped, and the output before it.
LEMMA SensorMapped ==
  ASSUME NEW c, Loading(c), NEW s, IsSensor(s)
  PROVE  LET d == MapSensor(c, s)
         IN  /\ Loading(d) /\ d.ProgramId = c.ProgramId
             /\ d.thrown <=> \/ c.thrown
                             \/ SensorKey(s) \in DOMAIN c.ParameterMapping
                             \/ s.channel \notin Channels
             /\ ~d.thrown => DOMAIN d.ParameterMapping
                               = DOMAIN c.ParameterMapping \cup {SensorKey(s)}
<1> DEFINE timed == LoadTiming(c, s.channel, s)
           mapped == MapParameter(timed, SensorKey(s), s.channel)
           i == s.sensor_index - 1
           d == MapSensor(c, s)
<1>1. /\ Loading(timed) /\ s.channel \in DOMAIN timed.ValueTimeout
      /\ timed.ProgramId = c.ProgramId /\ timed.thrown = c.thrown
      /\ timed.ParameterMapping = c.ParameterMapping
  BY TimingLoaded DEF IsSensor, IsChannel
<1>2. /\ SensorKey(s) \in ParameterKeys
      /\ i \in 0 .. CONTROLLER_OUTPUT_MAX - 1
      /\ SensorKey(s) = Key(PT_CONTROLLER, SENSOR, i + 1)
  BY ConfigAssumption
     DEF IsSensor, SensorKey, Key, ParameterKeys, PT_CONTROLLER, SENSOR
<1> HIDE DEF timed
<1>3. /\ Loading(mapped) /\ mapped.ProgramId = timed.ProgramId
      /\ mapped.OutputMapping = timed.OutputMapping
      /\ mapped.thrown <=> \/ timed.thrown
                           \/ SensorKey(s) \in DOMAIN timed.ParameterMapping
                           \/ s.channel \notin Channels
      /\ ~mapped.thrown =>
           /\ DOMAIN mapped.ParameterMapping
                = DOMAIN timed.ParameterMapping \cup {SensorKey(s)}
           /\ mapped.ParameterMapping[SensorKey(s)] = s.channel
  BY <1>1, <1>2, ParameterMapped
<1>4. d = IF mapped.thrown THEN mapped
          ELSE [mapped EXCEPT !.OutputMapping =
                                With(mapped.OutputMapping, i, s.channel)]
  BY <1>3 DEF MapSensor, timed, Loading, LoadStates
<1> HIDE DEF mapped, d, i
<1>5. CASE mapped.thrown
  BY <1>1, <1>3, <1>4, <1>5 DEF d
<1>6. CASE ~mapped.thrown
  <2> DEFINE old == mapped.OutputMapping
             new == With(old, i, s.channel)
  <2>1. s.channel \in Channels
    BY <1>3, <1>6
  <2>2. /\ new \in Maps(0 .. CONTROLLER_OUTPUT_MAX - 1, Channels)
        /\ DOMAIN new = DOMAIN old \cup {i} /\ new[i] = s.channel
        /\ \A j \in DOMAIN old : j # i => new[j] = old[j]
    <3> DEFINE K == 0 .. CONTROLLER_OUTPUT_MAX - 1
    <3>1. old \in Maps(K, Channels) /\ i \in K
      BY <1>2, <1>3 DEF Loading, LoadStates
    <3> HIDE DEF old, K
    <3>2. /\ With(old, i, s.channel) \in Maps(K, Channels)
          /\ DOMAIN With(old, i, s.channel) = DOMAIN old \cup {i}
          /\ With(old, i, s.channel)[i] = s.channel
          /\ \A j \in DOMAIN old :
               j # i => With(old, i, s.channel)[j] = old[j]
      BY <2>1, <3>1, WithMaps
    <3>3. QED
      BY <3>2 DEF K
  <2>3. d = [mapped EXCEPT !.OutputMapping = new]
    BY <1>4, <1>6
  <2> HIDE DEF new
  <2>4. /\ d \in LoadStates /\ d.thrown = mapped.thrown
        /\ d.OutputMapping = new /\ d.ProgramId = mapped.ProgramId
        /\ d.ParameterMapping = mapped.ParameterMapping
        /\ d.ValueTimeout = mapped.ValueTimeout
        /\ d.ParameterCount = mapped.ParameterCount
    BY <1>3, <2>2, <2>3 DEF Loading, LoadStates
  <2>5. Timed(d) /\ Covered(d)
    BY <1>3, <2>4 DEF Loading, Timed, Covered
  <2>6. OutputsAreSensors(d)
    <3>1. \A j \in DOMAIN old :
            LET key == Key(PT_CONTROLLER, SENSOR, j + 1)
            IN  /\ key \in DOMAIN mapped.ParameterMapping
                /\ old[j] = mapped.ParameterMapping[key]
      BY <1>3 DEF Loading, OutputsAreSensors
    <3> SUFFICES ASSUME NEW j \in DOMAIN new
                 PROVE  LET key == Key(PT_CONTROLLER, SENSOR, j + 1)
                        IN  /\ key \in DOMAIN mapped.ParameterMapping
                            /\ new[j] = mapped.ParameterMapping[key]
      BY <2>4 DEF OutputsAreSensors
    <3>2. CASE j = i
      BY <1>2, <1>3, <1>6, <2>2, <3>2
    <3>3. CASE j # i
      BY <2>2, <3>1, <3>3
    <3>4. QED
      BY <3>2, <3>3
  <2>7. Loading(d)
    BY <2>4, <2>5, <2>6 DEF Loading
  <2>8. QED
    BY <1>1, <1>3, <1>6, <2>4, <2>7 DEF d
<1>7. QED
  BY <1>5, <1>6

\* The parameter is mapped.
LEMMA EntryMapped ==
  ASSUME NEW c, Loading(c), NEW p, IsParameter(p), NEW json,
         "value_timeout_min" \in DOMAIN json => json.value_timeout_min \in Int
  PROVE  LET d == MapEntry(json, c, p)
         IN  /\ Loading(d) /\ d.ProgramId = c.ProgramId
             /\ d.thrown <=> \/ c.thrown
                             \/ ParameterKey(p) \in DOMAIN c.ParameterMapping
                             \/ p.channel \notin Channels
             /\ ~d.thrown => DOMAIN d.ParameterMapping
                               = DOMAIN c.ParameterMapping \cup {ParameterKey(p)}
<1> DEFINE timed == LoadTiming(c, p.channel, json)
<1>1. /\ Loading(timed) /\ p.channel \in DOMAIN timed.ValueTimeout
      /\ timed.ProgramId = c.ProgramId /\ timed.thrown = c.thrown
      /\ timed.ParameterMapping = c.ParameterMapping
  BY TimingLoaded DEF IsParameter, IsChannel
<1>2. ParameterKey(p) \in ParameterKeys
  BY DEF IsParameter, ParameterKey, Key, ParameterKeys
<1>3. MapEntry(json, c, p) = MapParameter(timed, ParameterKey(p), p.channel)
  BY DEF MapEntry
<1> HIDE DEF timed
<1>4. QED
  BY <1>1, <1>2, <1>3, ParameterMapped

-----------------------------------------------------------------------------
\* The entries of a controller are what its schema says.
LEMMA EntriesTyped ==
  ASSUME NEW json, IsControllerEntry(json)
  PROVE  /\ Len(Sensors(json)) \in Nat /\ Len(Parameters(json)) \in Nat
         /\ ToSet(Sensors(json))
              = {Sensors(json)[n] : n \in 1 .. Len(Sensors(json))}
         /\ ToSet(Parameters(json))
              = {Parameters(json)[n] : n \in 1 .. Len(Parameters(json))}
         /\ \A n \in 1 .. Len(Sensors(json)) : IsSensor(Sensors(json)[n])
         /\ \A n \in 1 .. Len(Parameters(json)) :
              IsParameter(Parameters(json)[n])
<1>1. Sensors(json) \in Seq(ToSet(Sensors(json)))
  <2>1. << >> \in Seq(ToSet(<< >>))
    OBVIOUS
  <2>2. QED
    BY <2>1 DEF Sensors, Member, IsControllerEntry, IsSeqOf
<1>2. Parameters(json) \in Seq(ToSet(Parameters(json)))
  <2>1. << >> \in Seq(ToSet(<< >>))
    OBVIOUS
  <2>2. QED
    BY <2>1 DEF Parameters, Member, IsControllerEntry, IsSeqOf
<1>3. \A s \in ToSet(Sensors(json)) : IsSensor(s)
  <2>1. ToSet(<< >>) = {}
    BY DEF ToSet
  <2>2. QED
    BY <2>1 DEF Sensors, Member, IsControllerEntry, IsSeqOf
<1>4. \A s \in ToSet(Parameters(json)) : IsParameter(s)
  <2>1. ToSet(<< >>) = {}
    BY DEF ToSet
  <2>2. QED
    BY <2>1 DEF Parameters, Member, IsControllerEntry, IsSeqOf
<1>5. ASSUME NEW s, s \in Seq(ToSet(s))
      PROVE  /\ Len(s) \in Nat /\ DOMAIN s = 1 .. Len(s)
             /\ ToSet(s) = {s[n] : n \in 1 .. Len(s)}
             /\ \A n \in 1 .. Len(s) : s[n] \in ToSet(s)
  BY DEF ToSet
<1>6. QED
  BY <1>1, <1>2, <1>3, <1>4, <1>5

\* The n-th entry, sensors first, mapped after those before it.
ChannelAt(json, n) ==
  IF n <= Len(Sensors(json)) THEN Sensors(json)[n].channel
  ELSE Parameters(json)[n - Len(Sensors(json))].channel
Mapped(json, c, n) ==
  IF n <= Len(Sensors(json)) THEN MapSensor(c, Sensors(json)[n])
  ELSE MapEntry(json, c, Parameters(json)[n - Len(Sensors(json))])

LEMMA NextMapped ==
  ASSUME NEW json, IsControllerEntry(json), NEW c, Loading(c),
         NEW n \in 1 .. Entries(json)
  PROVE  LET d == Mapped(json, c, n)
             key == KeysOf(json)[n]
         IN  /\ Loading(d) /\ d.ProgramId = c.ProgramId
             /\ d.thrown <=> \/ c.thrown \/ key \in DOMAIN c.ParameterMapping
                             \/ ChannelAt(json, n) \notin Channels
             /\ ~d.thrown =>
                  DOMAIN d.ParameterMapping
                    = DOMAIN c.ParameterMapping \cup {key}
<1> DEFINE N == Len(Sensors(json))
           M == Len(Parameters(json))
<1>1. N \in Nat /\ M \in Nat /\ n \in 1 .. N + M
  BY EntriesTyped DEF Entries
<1>2. CASE n <= N
  <2>1. IsSensor(Sensors(json)[n])
    <3>1. n \in 1 .. N
      BY <1>1, <1>2
    <3>2. QED
      BY <3>1, EntriesTyped
  <2>2. /\ KeysOf(json)[n] = SensorKey(Sensors(json)[n])
        /\ ChannelAt(json, n) = Sensors(json)[n].channel
        /\ Mapped(json, c, n) = MapSensor(c, Sensors(json)[n])
    BY <1>2 DEF KeysOf, ChannelAt, Mapped
  <2>3. QED
    BY <2>1, <2>2, SensorMapped
<1>3. CASE ~(n <= N)
  <2>1. IsParameter(Parameters(json)[n - N])
    <3>1. n - N \in 1 .. M
      BY <1>1, <1>3
    <3>2. QED
      BY <3>1, EntriesTyped
  <2>2. /\ KeysOf(json)[n] = ParameterKey(Parameters(json)[n - N])
        /\ ChannelAt(json, n) = Parameters(json)[n - N].channel
        /\ Mapped(json, c, n) = MapEntry(json, c, Parameters(json)[n - N])
    BY <1>3 DEF KeysOf, ChannelAt, Mapped
  <2>3. "value_timeout_min" \in DOMAIN json => json.value_timeout_min \in Int
    BY DEF IsControllerEntry
  <2>4. QED
    BY <2>1, <2>2, <2>3, EntryMapped
<1>4. QED
  BY <1>2, <1>3

\* Loading begins with nothing and maps entry after entry.
IsLoading(json, f) ==
  /\ f[0] = NothingMapped(json)
  /\ \A n \in 1 .. Entries(json) : f[n] = Mapped(json, f[n - 1], n)
  /\ \A n \in 0 .. Entries(json) : Loading(f[n])

LEMMA NothingYet ==
  ASSUME NEW json, IsControllerEntry(json)
  PROVE  /\ Loading(NothingMapped(json))
         /\ NothingMapped(json).ProgramId = json.controller_id
         /\ DOMAIN NothingMapped(json).ParameterMapping = {}
         /\ NothingMapped(json).thrown
              <=> {"sensors", "parameters"} \cap DOMAIN json = {}
<1> DEFINE c == NothingMapped(json)
<1>1. \A K, V : << >> \in Maps(K, V) /\ DOMAIN << >> = {}
  BY NoEntries
<1>2. /\ c.ProgramId = json.controller_id /\ c.ParameterMapping = << >>
      /\ c.OutputMapping = << >> /\ c.ValueTimeout = << >>
      /\ c.thrown <=> {"sensors", "parameters"} \cap DOMAIN json = {}
  BY DEF NothingMapped
<1>3. c \in LoadStates
  <2>1. json.controller_id \in 1 .. 255 /\ 0 \in 0 .. 255
    BY DEF IsControllerEntry
  <2>2. /\ << >> \in Maps(ParameterKeys, Channels)
        /\ << >> \in Maps(STRING, Int)
        /\ << >> \in Maps(0 .. CONTROLLER_OUTPUT_MAX - 1, Channels)
    BY <1>1
  <2>3. ({"sensors", "parameters"} \cap DOMAIN json = {}) \in BOOLEAN
    OBVIOUS
  <2>4. QED
    BY <2>1, <2>2, <2>3 DEF NothingMapped, LoadStates
<1> HIDE DEF c
<1>4. Timed(c) /\ Covered(c) /\ OutputsAreSensors(c)
  BY <1>1, <1>2 DEF Timed, Covered, OutputsAreSensors
<1>5. QED
  BY <1>1, <1>2, <1>3, <1>4 DEF Loading, c

LEMMA LoadRecursion ==
  ASSUME NEW json, IsControllerEntry(json)
  PROVE  \E f : /\ IsLoading(json, f)
                /\ LoadMqttToSmartWebController(json) = f[Entries(json)]
<1> DEFINE N == Entries(json)
           T == {c \in LoadStates : Loading(c)}
           first == NothingMapped(json)
           step == [n \in 1 .. N |-> [c \in T |-> Mapped(json, c, n)]]
           Body(f) ==
             [n \in 0 .. N |->
                IF n = 0 THEN NothingMapped(json)
                ELSE IF n <= Len(Sensors(json))
                     THEN MapSensor(f[n - 1], Sensors(json)[n])
                     ELSE MapEntry(json, f[n - 1],
                                   Parameters(json)[n - Len(Sensors(json))])]
           loaded == CHOOSE f : f = Body(f)
<1>1. N \in Nat
  BY EntriesTyped DEF Entries
<1>2. first \in T
  BY NothingYet DEF Loading
<1>3. step \in Steps(T, N)
  BY NextMapped DEF Steps, Loading
<1>4. PICK g : IsRecursion(g, T, N, first, step)
  <2> HIDE DEF N, T, first, step
  <2>1. QED
    BY <1>1, <1>2, <1>3, Recursion
<1>5. ASSUME NEW f, NEW n \in 0 .. N
      PROVE  Body(f)[n] = IF n = 0 THEN first ELSE Mapped(json, f[n - 1], n)
  BY DEF Mapped
<1>6. \A n \in 1 .. N : n - 1 \in 0 .. N
  BY <1>1
<1>7. \A n \in 1 .. N : g[n] = Mapped(json, g[n - 1], n)
  BY <1>4, <1>6 DEF IsRecursion
<1>8. g = [n \in 0 .. N |-> g[n]] /\ g[0] = first
  BY <1>4 DEF IsRecursion
<1>9. g = Body(g)
  <2>1. ASSUME NEW n \in 0 .. N PROVE Body(g)[n] = g[n]
    <3> HIDE DEF Body
    <3>1. Body(g)[n] = IF n = 0 THEN first ELSE Mapped(json, g[n - 1], n)
      BY <1>5
    <3>2. CASE n = 0
      BY <1>8, <3>1, <3>2
    <3>3. CASE n # 0
      <4>1. n \in 1 .. N
        BY <1>1, <3>3
      <4>2. QED
        BY <1>7, <3>1, <3>3, <4>1
    <3>4. QED
      BY <3>2, <3>3
  <2>2. Body(g) = [n \in 0 .. N |-> Body(g)[n]]
    OBVIOUS
  <2> HIDE DEF Body
  <2>3. QED
    BY <1>8, <2>1, <2>2
<1>10. loaded = Body(loaded)
  <2> HIDE DEF Body
  <2>1. QED
    BY <1>9
<1>11. LoadMqttToSmartWebController(json) = loaded[N]
  BY DEF LoadMqttToSmartWebController
<1> HIDE DEF loaded
<1>12. ASSUME NEW n \in 0 .. N
       PROVE  loaded[n] = IF n = 0 THEN first
                          ELSE Mapped(json, loaded[n - 1], n)
  <2> HIDE DEF Body
  <2>1. QED
    BY <1>5, <1>10
<1> DEFINE S == {n \in Nat : n <= N => loaded[n] \in T}
<1>13. \A n \in Nat : n \in S
  <2> HIDE DEF N
  <2>1. 0 \in S
    BY <1>1, <1>2, <1>12
  <2>2. ASSUME NEW n \in Nat, n \in S PROVE n + 1 \in S
    <3> SUFFICES ASSUME n + 1 <= N PROVE loaded[n + 1] \in T
      OBVIOUS
    <3>1. /\ n + 1 \in 0 .. N /\ n + 1 \in 1 .. N /\ n + 1 # 0
          /\ (n + 1) - 1 = n /\ loaded[n] \in T
      BY <1>1, <2>2
    <3>2. loaded[n + 1] = Mapped(json, loaded[n], n + 1)
      BY <1>12, <3>1
    <3>3. Loading(Mapped(json, loaded[n], n + 1))
      BY <3>1, NextMapped DEF N
    <3>4. QED
      BY <3>2, <3>3 DEF Loading
  <2> HIDE DEF S
  <2>3. QED
    BY <2>1, <2>2, Induction
<1>14. IsLoading(json, loaded)
  <2>1. \A n \in 0 .. N : n \in Nat /\ n <= N
    BY <1>1
  <2>2. \A n \in 0 .. N : Loading(loaded[n])
    BY <1>13, <2>1
  <2>3. \A n \in 1 .. N : n \in 0 .. N /\ n # 0
    BY <1>1
  <2>4. 0 \in 0 .. N
    BY <1>1
  <2>5. QED
    BY <1>12, <2>2, <2>3, <2>4 DEF IsLoading
<1>15. QED
  BY <1>11, <1>14

\* What keeps the first n entries of a controller from being mapped.
Refused(json, n) ==
  \/ {"sensors", "parameters"} \cap DOMAIN json = {}
  \/ \E i \in 1 .. n : ChannelAt(json, i) \notin Channels
  \/ \E i, j \in 1 .. n : i # j /\ KeysOf(json)[i] = KeysOf(json)[j]

LEMMA RefusedNext ==
  ASSUME NEW json, NEW n \in Nat
  PROVE  Refused(json, n + 1)
           <=> \/ Refused(json, n)
               \/ ChannelAt(json, n + 1) \notin Channels
               \/ \E i \in 1 .. n : KeysOf(json)[i] = KeysOf(json)[n + 1]
<1>1. /\ \A i : i \in 1 .. n + 1 <=> i \in 1 .. n \/ i = n + 1
      /\ n + 1 \notin 1 .. n
  OBVIOUS
<1>2. QED
  BY <1>1 DEF Refused

\* A controller is sound if nothing keeps its entries from being mapped.
LEMMA SoundIsNotRefused ==
  ASSUME NEW json, IsControllerEntry(json)
  PROVE  Sound(json) <=> ~Refused(json, Entries(json))
<1> DEFINE N == Len(Sensors(json))
           M == Len(Parameters(json))
<1>1. /\ N \in Nat /\ M \in Nat /\ Entries(json) = N + M
      /\ ToSet(Sensors(json)) = {Sensors(json)[n] : n \in 1 .. N}
      /\ ToSet(Parameters(json)) = {Parameters(json)[n] : n \in 1 .. M}
  BY EntriesTyped DEF Entries
<1> HIDE DEF N, M
<1>2. ASSUME \A n \in 1 .. N + M : ChannelAt(json, n) \in Channels,
             NEW e \in ToSet(Sensors(json)) \cup ToSet(Parameters(json))
      PROVE  e.channel \in Channels
  <2>1. CASE e \in ToSet(Sensors(json))
    <3>1. PICK n \in 1 .. N : e = Sensors(json)[n]
      BY <1>1, <2>1
    <3>2. n \in 1 .. N + M /\ n <= N
      BY <1>1
    <3>3. QED
      BY <1>2, <3>1, <3>2 DEF ChannelAt, N
  <2>2. CASE e \in ToSet(Parameters(json))
    <3>1. PICK n \in 1 .. M : e = Parameters(json)[n]
      BY <1>1, <2>2
    <3>2. N + n \in 1 .. N + M /\ ~(N + n <= N) /\ (N + n) - N = n
      BY <1>1
    <3>3. ChannelAt(json, N + n) = e.channel
      BY <3>1, <3>2 DEF ChannelAt, N
    <3>4. QED
      BY <1>2, <3>2, <3>3
  <2>3. QED
    BY <2>1, <2>2
<1>3. ASSUME NEW n \in 1 .. N + M,
             \A e \in ToSet(Sensors(json)) \cup ToSet(Parameters(json)) :
               e.channel \in Channels
      PROVE  ChannelAt(json, n) \in Channels
  <2>1. CASE n <= N
    <3>1. n \in 1 .. N
      BY <1>1, <2>1
    <3>2. QED
      BY <1>1, <1>3, <2>1, <3>1 DEF ChannelAt, N
  <2>2. CASE ~(n <= N)
    <3>1. n - N \in 1 .. M
      BY <1>1, <2>2
    <3>2. ChannelAt(json, n) = Parameters(json)[n - N].channel
      BY <2>2 DEF ChannelAt, N
    <3>3. QED
      BY <1>1, <1>3, <3>1, <3>2
  <2>3. QED
    BY <2>1, <2>2
<1>4. (\A e \in ToSet(Sensors(json)) \cup ToSet(Parameters(json)) :
         e.channel \in Channels)
        <=> ~(\E n \in 1 .. Entries(json) : ChannelAt(json, n) \notin Channels)
  BY <1>1, <1>2, <1>3
<1>5. IsInjective(KeysOf(json))
        <=> ~(\E i, j \in 1 .. Entries(json) :
                i # j /\ KeysOf(json)[i] = KeysOf(json)[j])
  <2>1. DOMAIN KeysOf(json) = 1 .. Entries(json)
    BY DEF KeysOf
  <2>2. QED
    BY <2>1 DEF IsInjective
<1>6. QED
  BY <1>4, <1>5 DEF Sound, Refused

\* A controller is loaded as one that maps its entries, or it throws, and it
\* throws exactly if it is not sound.
LEMMA LoadedIfSound ==
  ASSUME NEW json, IsControllerEntry(json)
  PROVE  LET c == LoadMqttToSmartWebController(json)
         IN  /\ Loading(c) /\ c.ProgramId = json.controller_id
             /\ c.thrown <=> ~Sound(json)
<1> DEFINE N == Entries(json)
<1>1. PICK f : /\ IsLoading(json, f)
               /\ LoadMqttToSmartWebController(json) = f[N]
  BY LoadRecursion
<1>2. N \in Nat
  BY EntriesTyped DEF Entries
<1> DEFINE Upto(n) ==
             /\ f[n].ProgramId = json.controller_id
             /\ f[n].thrown <=> Refused(json, n)
             /\ ~f[n].thrown => DOMAIN f[n].ParameterMapping
                                  = {KeysOf(json)[i] : i \in 1 .. n}
           S == {n \in Nat : n <= N => Upto(n)}
<1>3. 0 \in S
  <2>1. f[0] = NothingMapped(json) /\ 1 .. 0 = {}
    BY <1>1 DEF IsLoading
  <2>2. QED
    BY <2>1, NothingYet DEF Refused
<1>4. ASSUME NEW n \in Nat, n \in S PROVE n + 1 \in S
  <2> SUFFICES ASSUME n + 1 <= N PROVE Upto(n + 1)
    OBVIOUS
  <2> DEFINE key == KeysOf(json)[n + 1]
  <2>1. /\ n + 1 \in 1 .. N /\ (n + 1) - 1 = n /\ n \in 0 .. N
        /\ n <= N
    BY <1>2
  <2>2. Upto(n)
    BY <1>4, <2>1
  <2>3. f[n + 1] = Mapped(json, f[n], n + 1) /\ Loading(f[n])
    BY <1>1, <2>1 DEF IsLoading
  <2>4. /\ f[n + 1].ProgramId = f[n].ProgramId
        /\ f[n + 1].thrown <=> \/ f[n].thrown
                               \/ key \in DOMAIN f[n].ParameterMapping
                               \/ ChannelAt(json, n + 1) \notin Channels
        /\ ~f[n + 1].thrown =>
             DOMAIN f[n + 1].ParameterMapping
               = DOMAIN f[n].ParameterMapping \cup {key}
    BY <2>1, <2>3, NextMapped
  <2>5. {KeysOf(json)[i] : i \in 1 .. n + 1}
          = {KeysOf(json)[i] : i \in 1 .. n} \cup {key}
    <3>1. \A i : i \in 1 .. n + 1 <=> i \in 1 .. n \/ i = n + 1
      OBVIOUS
    <3>2. QED
      BY <3>1
  <2>6. f[n + 1].thrown <=> Refused(json, n + 1)
    BY <2>2, <2>4, RefusedNext
  <2>7. QED
    BY <2>2, <2>4, <2>5, <2>6
<1>5. Upto(N)
  <2> HIDE DEF Upto, N
  <2>1. \A n \in Nat : n \in S
    <3> HIDE DEF S
    <3>1. QED
      BY <1>3, <1>4, Induction
  <2>2. QED
    BY <1>2, <2>1
<1>6. Loading(f[N])
  BY <1>1, <1>2 DEF IsLoading
<1>7. QED
  BY <1>1, <1>5, <1>6, SoundIsNotRefused

-----------------------------------------------------------------------------
\* What the assumption says of what is found on the disk.
LEMMA FilesTyped ==
  ASSUME NEW c \in Configurations
  PROVE  /\ c.file # Malformed =>
              /\ Len(c.file) \in Nat
              /\ \A n \in 1 .. Len(c.file) : IsControllerEntry(c.file[n])
         /\ \A source \in {"builtin", "user"} : c[source] # Missing =>
              /\ Len(c[source]) \in Nat
              /\ DOMAIN c[source] = 1 .. Len(c[source])
              /\ \A n \in 1 .. Len(c[source]) : IsClassFile(c[source][n])
<1>1. /\ c.file # Malformed =>
           /\ c.file \in Seq(ToSet(c.file))
           /\ \A e \in ToSet(c.file) : IsControllerEntry(e)
      /\ \A source \in {"builtin", "user"} : c[source] # Missing =>
           /\ c[source] \in Seq(ToSet(c[source]))
           /\ \A e \in ToSet(c[source]) : IsClassFile(e)
  BY ConfigAssumption DEF IsSeqOf
<1>2. ASSUME NEW s, s \in Seq(ToSet(s))
      PROVE  /\ Len(s) \in Nat /\ DOMAIN s = 1 .. Len(s)
             /\ \A n \in 1 .. Len(s) : s[n] \in ToSet(s)
  BY <1>2 DEF ToSet
<1>3. QED
  BY <1>1, <1>2

\* SoundIds goes through the file entry by entry.
LEMMA SoundIdsRecursion ==
  ASSUME NEW file, Len(file) \in Nat,
         \A n \in 1 .. Len(file) : file[n].controller_id \in 1 .. 255
  PROVE  /\ SoundIds(file)[0] = << >>
         /\ \A n \in 1 .. Len(file) :
              SoundIds(file)[n] =
                IF Sound(file[n])
                THEN Append(SoundIds(file)[n - 1], file[n].controller_id)
                ELSE SoundIds(file)[n - 1]
<1> DEFINE N == Len(file)
           T == Seq(1 .. 255)
           Next(ids, n) == IF Sound(file[n])
                           THEN Append(ids, file[n].controller_id) ELSE ids
           step == [n \in 1 .. N |-> [ids \in T |-> Next(ids, n)]]
           Body(f) == [n \in 0 .. N |->
                         IF n = 0 THEN << >>
                         ELSE IF Sound(file[n])
                              THEN Append(f[n - 1], file[n].controller_id)
                              ELSE f[n - 1]]
<1>1. << >> \in T /\ N \in Nat
  OBVIOUS
<1>2. step \in Steps(T, N)
  <2>1. ASSUME NEW n \in 1 .. N, NEW ids \in T PROVE Next(ids, n) \in T
    <3>1. file[n].controller_id \in 1 .. 255
      OBVIOUS
    <3>2. QED
      BY <3>1
  <2> HIDE DEF T, N, Next
  <2>2. QED
    BY <2>1 DEF Steps
<1>3. PICK g : IsRecursion(g, T, N, << >>, step)
  <2> HIDE DEF N, T, step
  <2>1. QED
    BY <1>1, <1>2, Recursion
<1>4. \A n \in 1 .. N : n - 1 \in 0 .. N /\ n \in 0 .. N /\ n # 0
  BY <1>1
<1>5. ASSUME NEW f, NEW n \in 0 .. N
      PROVE  Body(f)[n] = IF n = 0 THEN << >> ELSE Next(f[n - 1], n)
  OBVIOUS
<1>6. /\ g = [n \in 0 .. N |-> g[n]] /\ g[0] = << >>
      /\ \A n \in 1 .. N : g[n] = Next(g[n - 1], n)
  <2> HIDE DEF Next, T
  <2>1. QED
    BY <1>3, <1>4 DEF IsRecursion
<1>7. g = Body(g)
  <2>1. ASSUME NEW n \in 0 .. N PROVE Body(g)[n] = g[n]
    <3> HIDE DEF Body, Next
    <3>1. Body(g)[n] = IF n = 0 THEN << >> ELSE Next(g[n - 1], n)
      BY <1>5
    <3>2. n = 0 \/ n \in 1 .. N
      BY <1>1
    <3>3. QED
      BY <1>4, <1>6, <3>1, <3>2
  <2>2. Body(g) = [n \in 0 .. N |-> Body(g)[n]]
    OBVIOUS
  <2> HIDE DEF Body
  <2>3. QED
    BY <1>6, <2>1, <2>2
<1>8. SoundIds(file) = CHOOSE f : f = Body(f)
  BY DEF SoundIds
<1>9. SoundIds(file) = Body(SoundIds(file))
  <2> HIDE DEF Body
  <2>1. QED
    BY <1>7, <1>8
<1>10. 0 \in 0 .. N
  BY <1>1
<1> HIDE DEF Body, Next
<1>11. \A n \in 0 .. N :
         SoundIds(file)[n] = IF n = 0 THEN << >>
                             ELSE Next(SoundIds(file)[n - 1], n)
  BY <1>5, <1>9
<1>12. QED
  BY <1>4, <1>10, <1>11 DEF Next

-----------------------------------------------------------------------------
\* The controllers loaded so far are those of the sound entries read so far.
IdsOf(controllers) ==
  [i \in DOMAIN controllers |-> controllers[i].ProgramId]

ControllersInv ==
  /\ config \in Configurations
  /\ phase \in {"file", "controllers", "builtin", "user", "loaded", "failed"}
  /\ at \in Nat \ {0}
  /\ Controllers \in Seq(LoadStates)
  /\ \A i \in DOMAIN Controllers :
       Loading(Controllers[i]) /\ ~Controllers[i].thrown
  /\ phase = "file" => Controllers = << >>
  /\ phase \notin {"file", "failed"} => config.file # Malformed
  /\ phase = "controllers" => at - 1 \in 0 .. Len(config.file)
  /\ phase \notin {"file", "failed"} =>
       IdsOf(Controllers) =
         SoundIds(config.file)[IF phase = "controllers" THEN at - 1
                               ELSE Len(config.file)]

LEMMA OneMoreController ==
  ASSUME NEW controllers \in Seq(LoadStates), NEW c \in LoadStates
  PROVE  IdsOf(Append(controllers, c)) = Append(IdsOf(controllers), c.ProgramId)
<1> DEFINE Bytes == 1 .. 255
           N == Len(controllers)
           longer == Append(controllers, c)
           a == IdsOf(longer)
           b == Append(IdsOf(controllers), c.ProgramId)
<1>1. ASSUME NEW s \in Seq(LoadStates)
      PROVE  /\ IdsOf(s) \in Seq(Bytes) /\ Len(IdsOf(s)) = Len(s)
             /\ \A i \in 1 .. Len(s) : IdsOf(s)[i] = s[i].ProgramId
  <2>1. DOMAIN s = 1 .. Len(s) /\ Len(s) \in Nat
    OBVIOUS
  <2>2. \A i \in 1 .. Len(s) : s[i].ProgramId \in Bytes
    <3>1. \A x \in LoadStates : x.ProgramId \in Bytes
      BY DEF LoadStates
    <3>2. \A i \in 1 .. Len(s) : s[i] \in LoadStates
      OBVIOUS
    <3>3. QED
      BY <3>1, <3>2
  <2> HIDE DEF Bytes
  <2>3. IdsOf(s) = [i \in 1 .. Len(s) |-> s[i].ProgramId]
    BY <2>1 DEF IdsOf
  <2>4. IdsOf(s) \in [1 .. Len(s) -> Bytes]
    BY <2>2, <2>3
  <2>5. IdsOf(s) \in Seq(Bytes)
    BY <2>1, <2>4
  <2>6. DOMAIN IdsOf(s) = 1 .. Len(s)
    BY <2>3
  <2>7. Len(IdsOf(s)) = Len(s)
    BY <2>1, <2>5, <2>6
  <2>8. QED
    BY <2>3, <2>5, <2>7
<1>2. /\ longer \in Seq(LoadStates) /\ Len(longer) = N + 1 /\ N \in Nat
      /\ \A i \in 1 .. N : longer[i] = controllers[i]
      /\ longer[N + 1] = c /\ c.ProgramId \in Bytes
  BY DEF LoadStates
<1> HIDE DEF N, longer, Bytes
<1>3. /\ a \in Seq(Bytes) /\ Len(a) = N + 1
      /\ \A i \in 1 .. N : a[i] = controllers[i].ProgramId
      /\ a[N + 1] = c.ProgramId
  BY <1>1, <1>2
<1>4. /\ IdsOf(controllers) \in Seq(Bytes) /\ Len(IdsOf(controllers)) = N
      /\ \A i \in 1 .. N : IdsOf(controllers)[i] = controllers[i].ProgramId
  BY <1>1 DEF N
<1>5. /\ b \in Seq(Bytes) /\ Len(b) = N + 1
      /\ \A i \in 1 .. N : b[i] = controllers[i].ProgramId
      /\ b[N + 1] = c.ProgramId
  BY <1>2, <1>4
<1> HIDE DEF a, b
<1>6. a = b
  <2>1. \A i : i \in 1 .. N + 1 <=> i \in 1 .. N \/ i = N + 1
    BY <1>2
  <2>2. \A i \in 1 .. N + 1 : a[i] = b[i]
    BY <1>3, <1>5, <2>1
  <2>3. QED
    BY <1>3, <1>5, <2>2
<1>7. QED
  BY <1>6 DEF a, b, longer

LEMMA ControllersInit == ConfigInit => ControllersInv
<1> SUFFICES ASSUME ConfigInit
             PROVE  ControllersInv
  OBVIOUS
<1>1. << >> \in Seq(LoadStates) /\ DOMAIN << >> = {} /\ 1 \in Nat \ {0}
  OBVIOUS
<1>2. QED
  BY <1>1 DEF ConfigInit, ControllersInv

LEMMA ControllersStep ==
  ControllersInv /\ [ConfigNext]_configVars => ControllersInv'
<1> SUFFICES ASSUME ControllersInv, [ConfigNext]_configVars
             PROVE  ControllersInv'
  OBVIOUS
<1>1. config.file # Malformed =>
        /\ Len(config.file) \in Nat
        /\ \A n \in 1 .. Len(config.file) : IsControllerEntry(config.file[n])
  BY FilesTyped DEF ControllersInv
<1>2. config.file # Malformed =>
        /\ SoundIds(config.file)[0] = << >>
        /\ \A n \in 1 .. Len(config.file) :
             SoundIds(config.file)[n] =
               IF Sound(config.file[n])
               THEN Append(SoundIds(config.file)[n - 1],
                           config.file[n].controller_id)
               ELSE SoundIds(config.file)[n - 1]
  <2>1. \A json : IsControllerEntry(json) => json.controller_id \in 1 .. 255
    BY DEF IsControllerEntry
  <2>2. QED
    BY <1>1, <2>1, SoundIdsRecursion
<1>3. CASE ReadFile
  <2>1. IdsOf(<< >>) = << >>
    BY DEF IdsOf
  <2>2. CASE config.file = Malformed
    BY <1>3, <2>2 DEF ReadFile, Enter, ControllersInv
  <2>3. CASE config.file # Malformed
    <3>1. /\ phase' = "controllers" /\ at' = 1 /\ Controllers' = << >>
          /\ config' = config
      BY <1>3, <2>3 DEF ReadFile, Enter, ControllersInv
    <3>2. /\ at' - 1 = 0 /\ 0 \in 0 .. Len(config.file) /\ at' \in Nat \ {0}
          /\ << >> \in Seq(LoadStates) /\ DOMAIN << >> = {}
      BY <1>1, <2>3, <3>1
    <3>3. QED
      BY <1>2, <2>1, <2>3, <3>1, <3>2 DEF ControllersInv
  <2>4. QED
    BY <2>2, <2>3
<1>4. CASE LoadController
  <2> DEFINE json == config.file[at]
             c == LoadMqttToSmartWebController(json)
  <2>1. /\ phase = "controllers" /\ phase' = phase /\ config' = config
        /\ at' = at + 1 /\ at <= Len(config.file)
        /\ Controllers' = IF c.thrown THEN Controllers
                          ELSE Append(Controllers, c)
        /\ config.file # Malformed
    BY <1>4 DEF LoadController, ControllersInv
  <2>2. at \in 1 .. Len(config.file) /\ at - 1 \in 0 .. Len(config.file)
    <3>1. at \in Nat \ {0} /\ Len(config.file) \in Nat
      BY <1>1, <2>1 DEF ControllersInv
    <3>2. QED
      BY <2>1, <3>1
  <2>3. IsControllerEntry(json)
    BY <1>1, <2>1, <2>2
  <2>4. /\ Loading(c) /\ c.ProgramId = json.controller_id
        /\ c.thrown <=> ~Sound(json)
    BY <2>3, LoadedIfSound
  <2>5. SoundIds(config.file)[at] =
          IF Sound(json)
          THEN Append(SoundIds(config.file)[at - 1], json.controller_id)
          ELSE SoundIds(config.file)[at - 1]
    BY <1>2, <2>1, <2>2
  <2>6. IdsOf(Controllers) = SoundIds(config.file)[at - 1]
    BY <2>1 DEF ControllersInv
  <2>7. at' \in Nat \ {0} /\ at' - 1 = at /\ at' - 1 \in 0 .. Len(config.file)
    BY <2>1, <2>2
  <2> HIDE DEF c, json
  <2>8. /\ Controllers' \in Seq(LoadStates)
        /\ \A i \in DOMAIN Controllers' :
             Loading(Controllers'[i]) /\ ~Controllers'[i].thrown
    <3>1. c \in LoadStates /\ Controllers \in Seq(LoadStates)
      BY <2>4 DEF Loading, ControllersInv
    <3>2. \A i \in DOMAIN Controllers :
            Loading(Controllers[i]) /\ ~Controllers[i].thrown
      BY DEF ControllersInv
    <3>3. CASE c.thrown
      BY <2>1, <3>1, <3>2, <3>3
    <3>4. CASE ~c.thrown
      <4>1. Controllers' = Append(Controllers, c)
        BY <2>1, <3>4
      <4>2. \A i \in DOMAIN Append(Controllers, c) :
              \/ Append(Controllers, c)[i] = c
              \/ /\ i \in DOMAIN Controllers
                 /\ Append(Controllers, c)[i] = Controllers[i]
        BY <3>1
      <4>3. QED
        BY <2>4, <3>1, <3>2, <3>4, <4>1, <4>2
    <3>5. QED
      BY <3>3, <3>4
  <2>9. IdsOf(Controllers') = SoundIds(config.file)[at]
    <3>1. c \in LoadStates /\ Controllers \in Seq(LoadStates)
      BY <2>4 DEF Loading, ControllersInv
    <3>2. IdsOf(Append(Controllers, c))
            = Append(IdsOf(Controllers), json.controller_id)
      BY <2>4, <3>1, OneMoreController
    <3>3. QED
      BY <2>1, <2>4, <2>5, <2>6, <3>2
  <2>10. QED
    BY <2>1, <2>7, <2>8, <2>9 DEF ControllersInv
<1>5. CASE ControllersLoaded
  <2>1. /\ phase = "controllers" /\ phase' = "builtin" /\ at' = 1
        /\ at > Len(config.file) /\ config' = config
        /\ Controllers' = Controllers /\ config.file # Malformed
    BY <1>5 DEF ControllersLoaded, Enter, ControllersInv
  <2>2. at - 1 = Len(config.file) /\ 1 \in Nat \ {0}
    <3>1. at \in Nat /\ Len(config.file) \in Nat
          /\ at - 1 \in 0 .. Len(config.file)
      BY <1>1, <2>1 DEF ControllersInv
    <3>2. QED
      BY <2>1, <3>1
  <2>3. QED
    BY <2>1, <2>2 DEF ControllersInv
<1>6. CASE NoDirectory \/ LoadFile \/ DirectoryLoaded
  <2>1. /\ Reading /\ config' = config /\ Controllers' = Controllers
        /\ phase' \in {"builtin", "user", "loaded", "failed"}
        /\ at' = 1 \/ at' = at + 1
    BY <1>6 DEF NoDirectory, LoadFile, DirectoryLoaded, Enter, AfterBadFile,
                Reading
  <2>2. at' \in Nat \ {0}
    BY <2>1 DEF ControllersInv
  <2>3. QED
    BY <2>1, <2>2 DEF ControllersInv, Reading
<1>7. CASE UNCHANGED configVars
  BY <1>7 DEF configVars, ControllersInv
<1>8. QED
  BY <1>3, <1>4, <1>5, <1>6, <1>7 DEF ConfigNext

\* The inductive invariant of loading the controllers.
THEOREM ControllersKept == ConfigSpec => []ControllersInv
<1>1. QED
  BY ControllersInit, ControllersStep, PTL DEF ConfigSpec

\* One bad controller costs only itself: those loaded are the sound ones of the
\* file (LoadMqttToSmartWebConfig).
THEOREM BadOnesDropped == ConfigSpec => []BadControllersDropped
<1>1. ControllersInv => BadControllersDropped
  BY DEF ControllersInv, BadControllersDropped, IdsOf
<1>2. QED
  BY <1>1, ControllersKept, PTL

\* ParameterCount covers the mapped indices although it wraps
\* (config_parser.cpp:243).
THEOREM CountsCover == ConfigSpec => []CountCoversIndices
<1>1. ControllersInv => CountCoversIndices
  BY DEF ControllersInv, CountCoversIndices, Loading, Covered, ToSet
<1>2. QED
  BY <1>1, ControllersKept, PTL

\* An output answers what its sensor answers, although the check for duplicate
\* outputs cannot fire (config_parser.cpp:248).
THEOREM OutputsAnswerAsSensors == ConfigSpec => []OutputIsSensor
<1>1. ControllersInv => OutputIsSensor
  BY DEF ControllersInv, OutputIsSensor, Loading, OutputsAreSensors, ToSet
<1>2. QED
  BY <1>1, ControllersKept, PTL

-----------------------------------------------------------------------------
\* Least and greatest members.
LEMMA MinIsLeast ==
  ASSUME NEW S \in SUBSET Nat, S # {}
  PROVE  Min(S) \in S /\ \A m \in S : Min(S) <= m
<1>1. \E n \in S : \A m \in S : n <= m
  BY LeastMember
<1>2. QED
  BY <1>1 DEF Min

LEMMA MaxIsGreatest ==
  ASSUME NEW S \in SUBSET (0 .. 255), S # {}
  PROVE  Max(S) \in S /\ \A m \in S : m <= Max(S)
<1> DEFINE T == {255 - m : m \in S}
<1>1. T \in SUBSET Nat /\ T # {}
  <2>1. \A m \in S : m \in 0 .. 255
    OBVIOUS
  <2>2. \A m \in 0 .. 255 : 255 - m \in Nat
    OBVIOUS
  <2>3. PICK m \in S : TRUE
    OBVIOUS
  <2>4. 255 - m \in T
    BY <2>3
  <2>5. QED
    BY <2>1, <2>2, <2>4
<1>2. PICK k \in T : \A m \in T : k <= m
  <2> HIDE DEF T
  <2>1. QED
    BY <1>1, LeastMember
<1>3. PICK n \in S : k = 255 - n
  BY <1>2
<1>4. ASSUME NEW m \in S PROVE n >= m
  <2>1. 255 - n <= 255 - m
    <3>1. 255 - m \in T
      OBVIOUS
    <3> HIDE DEF T
    <3>2. k <= 255 - m
      BY <1>2, <3>1
    <3>3. QED
      BY <1>3, <3>2
  <2>2. n \in 0 .. 255 /\ m \in 0 .. 255
    OBVIOUS
  <2>3. QED
    BY <2>1, <2>2
<1>5. Max(S) \in S /\ \A m \in S : Max(S) >= m
  BY <1>4 DEF Max
<1>6. \A m, x \in S : x >= m => m <= x
  OBVIOUS
<1>7. QED
  BY <1>5, <1>6

\* Reading one more file changes the first one of a kind only if there was none.
LEMMA FirstStays ==
  ASSUME NEW S \in SUBSET Nat, NEW n \in Nat, \A i \in S : i < n
  PROVE  /\ S = {} => Min(S \cup {n}) = n
         /\ S # {} => Min(S \cup {n}) = Min(S)
<1> DEFINE T == S \cup {n}
<1>1. T \in SUBSET Nat /\ T # {}
  OBVIOUS
<1>2. Min(T) \in T /\ \A m \in T : Min(T) <= m
  <2> HIDE DEF T
  <2>1. QED
    BY <1>1, MinIsLeast
<1>3. S # {} => Min(T) = Min(S)
  <2> SUFFICES ASSUME S # {} PROVE Min(T) = Min(S)
    OBVIOUS
  <2>1. Min(S) \in S /\ \A m \in S : Min(S) <= m
    BY MinIsLeast
  <2>2. Min(S) \in Nat /\ Min(S) < n /\ Min(T) \in Nat
    BY <1>1, <1>2, <2>1
  <2>3. Min(T) <= Min(S)
    BY <1>2, <2>1
  <2>4. Min(T) \in S
    BY <1>2, <2>2, <2>3
  <2>5. Min(S) <= Min(T)
    BY <2>1, <2>4
  <2>6. QED
    BY <2>2, <2>3, <2>5
<1>4. QED
  BY <1>2, <1>3

-----------------------------------------------------------------------------
\* The entries of one kind of a class file.
LEMMA KindTyped ==
  ASSUME NEW data, data # Malformed, IsClassFile(data),
         NEW kind \in {"inputs", "outputs", "parameters"}
  PROVE  LET entries == Member(data, kind, << >>)
         IN  /\ DOMAIN entries \in SUBSET Nat
             /\ \A i \in DOMAIN entries : entries[i].id \in 0 .. 255
             /\ kind \in DOMAIN data =>
                  /\ entries = data[kind]
                  /\ ToSet(data[kind]) = {entries[i] : i \in DOMAIN entries}
             /\ kind \notin DOMAIN data => DOMAIN entries = {}
<1>1. CASE kind \notin DOMAIN data
  <2>1. Member(data, kind, << >>) = << >> /\ DOMAIN << >> = {}
    BY <1>1 DEF Member
  <2>2. QED
    BY <1>1, <2>1
<1>2. CASE kind \in DOMAIN data
  <2>1. Member(data, kind, << >>) = data[kind]
    BY <1>2 DEF Member
  <2>2. /\ data[kind] \in Seq(ToSet(data[kind]))
        /\ \A e \in ToSet(data[kind]) : e.id \in 0 .. 255
    BY <1>2 DEF IsClassFile, IsSeqOf, HasId
  <2>3. DOMAIN data[kind] \in SUBSET Nat
    BY <2>2
  <2>4. QED
    BY <1>2, <2>1, <2>2, <2>3 DEF ToSet
<1>3. QED
  BY <1>1, <1>2

\* The entry kept for an id has that id.
LEMMA FirstHasId ==
  ASSUME NEW entries, DOMAIN entries \in SUBSET Nat,
         NEW among \in SUBSET DOMAIN entries, NEW id \in Ids(entries, among)
  PROVE  First(entries, among, id).id = id
<1> DEFINE S == {i \in among : entries[i].id = id}
<1>1. S \in SUBSET Nat /\ S # {}
  BY DEF Ids
<1>2. Min(S) \in S
  <2> HIDE DEF S
  <2>1. QED
    BY <1>1, MinIsLeast
<1>3. QED
  BY <1>2 DEF First

\* The order of the next kind is beyond the orders of this one.
LEMMA OrderAfterIsBeyond ==
  ASSUME NEW data, data # Malformed, IsClassFile(data),
         NEW kind \in {"inputs", "outputs", "parameters"}, NEW base \in Nat
  PROVE  LET entries == Member(data, kind, << >>)
         IN  /\ OrderAfter(base, data, kind) \in Nat
             /\ base <= OrderAfter(base, data, kind)
             /\ \A i \in DOMAIN entries :
                  base + entries[i].id < OrderAfter(base, data, kind)
<1> DEFINE entries == Member(data, kind, << >>)
<1>1. /\ DOMAIN entries \in SUBSET Nat
      /\ \A i \in DOMAIN entries : entries[i].id \in 0 .. 255
      /\ kind \in DOMAIN data =>
           /\ entries = data[kind]
           /\ ToSet(data[kind]) = {entries[i] : i \in DOMAIN entries}
      /\ kind \notin DOMAIN data => DOMAIN entries = {}
  BY KindTyped, Zenon
<1> HIDE DEF entries
<1>2. CASE kind \notin DOMAIN data
  <2>1. OrderAfter(base, data, kind) = base /\ DOMAIN entries = {}
    BY <1>1, <1>2 DEF OrderAfter
  <2>2. QED
    BY <2>1 DEF entries
<1>3. CASE kind \in DOMAIN data
  <2> DEFINE S == {0} \cup {p.id : p \in ToSet(data[kind])}
  <2>1. S \in SUBSET (0 .. 255) /\ S # {}
    <3>1. ASSUME NEW p \in ToSet(data[kind]) PROVE p.id \in 0 .. 255
      <4>1. PICK i \in DOMAIN entries : p = entries[i]
        BY <1>1, <1>3
      <4>2. QED
        BY <1>1, <4>1
    <3>2. 0 \in 0 .. 255
      OBVIOUS
    <3>3. QED
      BY <3>1, <3>2
  <2>2. \A i \in DOMAIN entries : entries[i].id \in S
    BY <1>1, <1>3
  <2>3. OrderAfter(base, data, kind) = base + Max(S) + 1
    BY <1>3 DEF OrderAfter
  <2> HIDE DEF S
  <2>4. Max(S) \in S /\ \A m \in S : m <= Max(S)
    BY <2>1, MaxIsGreatest
  <2>5. Max(S) \in Nat
    <3>1. \A T \in SUBSET (0 .. 255) : \A m \in T : m \in Nat
      OBVIOUS
    <3>2. QED
      BY <2>1, <2>4, <3>1
  <2>6. ASSUME NEW i \in DOMAIN entries
        PROVE  base + entries[i].id < base + Max(S) + 1
    <3>1. entries[i].id \in 0 .. 255
      BY <1>1
    <3>2. entries[i].id <= Max(S)
      BY <2>2, <2>4
    <3>3. QED
      BY <2>5, <3>1, <3>2
  <2>7. base <= base + Max(S) + 1 /\ base + Max(S) + 1 \in Nat
    BY <2>5
  <2>8. QED
    BY <2>3, <2>6, <2>7 DEF entries
<1>4. QED
  BY <1>2, <1>3

\* The orders of inputs, outputs and parameters follow each other.
LEMMA OrdersFollow ==
  ASSUME NEW data, data # Malformed, IsClassFile(data), NEW source
  PROVE  LET cl == TSmartWebClass(data, source)
         IN  \E b, c \in Nat :
               /\ \A id \in DOMAIN cl.Inputs :
                    id \in Nat /\ cl.Inputs[id].Order = id /\ id < b
               /\ \A id \in DOMAIN cl.Outputs :
                    /\ id \in Nat /\ cl.Outputs[id].Order = b + id
                    /\ b + id < c
               /\ \A id \in DOMAIN cl.Parameters :
                    id \in Nat /\ cl.Parameters[id].Order = c + id
               /\ b <= c
<1> DEFINE cl == TSmartWebClass(data, source)
           inputs == Member(data, "inputs", << >>)
           outputs == Member(data, "outputs", << >>)
           parameters == Member(data, "parameters", << >>)
           b == OrderAfter(0, data, "inputs")
           c == OrderAfter(b, data, "outputs")
           supported == {i \in DOMAIN parameters : ~Unsupported(parameters[i])}
<1>1. /\ b \in Nat /\ \A i \in DOMAIN inputs : 0 + inputs[i].id < b
      /\ DOMAIN inputs \in SUBSET Nat
      /\ \A i \in DOMAIN inputs : inputs[i].id \in 0 .. 255
  BY OrderAfterIsBeyond, KindTyped
<1> HIDE DEF b, inputs
<1>2. /\ c \in Nat /\ b <= c
      /\ \A i \in DOMAIN outputs : b + outputs[i].id < c
      /\ DOMAIN outputs \in SUBSET Nat
      /\ \A i \in DOMAIN outputs : outputs[i].id \in 0 .. 255
  <2>1. b \in Nat /\ "outputs" \in {"inputs", "outputs", "parameters"}
    BY <1>1
  <2>2. /\ DOMAIN outputs \in SUBSET Nat
        /\ \A i \in DOMAIN outputs : outputs[i].id \in 0 .. 255
    BY <2>1, KindTyped
  <2>3. /\ c \in Nat /\ b <= c
        /\ \A i \in DOMAIN outputs : b + outputs[i].id < c
    BY <2>1, OrderAfterIsBeyond
  <2>4. QED
    BY <2>2, <2>3
<1> HIDE DEF c, outputs
<1>3. /\ DOMAIN parameters \in SUBSET Nat
      /\ \A i \in DOMAIN parameters : parameters[i].id \in 0 .. 255
  BY KindTyped
<1> HIDE DEF parameters
<1>4. /\ cl.Inputs = [id \in Ids(inputs, DOMAIN inputs) |->
           LET p == First(inputs, DOMAIN inputs, id)
           IN  LoadParameter(p, 0, TRUE, InputCodec(p))]
      /\ cl.Outputs = [id \in Ids(outputs, DOMAIN outputs) |->
           LET p == First(outputs, DOMAIN outputs, id)
           IN  LoadParameter(p, b, TRUE, OutputCodec(p))]
      /\ cl.Parameters = [id \in Ids(parameters, supported) |->
           LET p == First(parameters, supported, id)
           IN  LoadParameter(p, c, IsReadOnly(p), ParameterCodec(p))]
  BY DEF TSmartWebClass, b, c, inputs, outputs, parameters
<1> HIDE DEF cl
<1>5. \A p, base, readOnly, codec :
        LoadParameter(p, base, readOnly, codec).Order = base + p.id
  BY DEF LoadParameter
<1>6. ASSUME NEW id \in DOMAIN cl.Inputs
      PROVE  id \in Nat /\ cl.Inputs[id].Order = id /\ id < b
  <2>1. id \in Ids(inputs, DOMAIN inputs)
    BY <1>4
  <2>2. PICK i \in DOMAIN inputs : id = inputs[i].id
    BY <2>1 DEF Ids
  <2>3. id \in Nat /\ 0 + id < b
    BY <1>1, <2>2
  <2>4. cl.Inputs[id].Order = 0 + First(inputs, DOMAIN inputs, id).id
    <3> DEFINE p == First(inputs, DOMAIN inputs, id)
    <3>1. cl.Inputs[id] = LoadParameter(p, 0, TRUE, InputCodec(p))
      BY <1>4, <2>1
    <3>2. QED
      BY <1>5, <3>1
  <2>5. First(inputs, DOMAIN inputs, id).id = id
    BY <1>1, <2>1, FirstHasId
  <2>6. QED
    BY <1>1, <2>3, <2>4, <2>5
<1>7. ASSUME NEW id \in DOMAIN cl.Outputs
      PROVE  id \in Nat /\ cl.Outputs[id].Order = b + id /\ b + id < c
  <2>1. id \in Ids(outputs, DOMAIN outputs)
    BY <1>4
  <2>2. PICK i \in DOMAIN outputs : id = outputs[i].id
    BY <2>1 DEF Ids
  <2>3. id \in Nat /\ b + id < c
    BY <1>2, <2>2
  <2>4. cl.Outputs[id].Order = b + First(outputs, DOMAIN outputs, id).id
    <3> DEFINE p == First(outputs, DOMAIN outputs, id)
    <3>1. cl.Outputs[id] = LoadParameter(p, b, TRUE, OutputCodec(p))
      BY <1>4, <2>1
    <3>2. QED
      BY <1>5, <3>1
  <2>5. First(outputs, DOMAIN outputs, id).id = id
    BY <1>2, <2>1, FirstHasId
  <2>6. QED
    BY <2>3, <2>4, <2>5
<1>8. ASSUME NEW id \in DOMAIN cl.Parameters
      PROVE  id \in Nat /\ cl.Parameters[id].Order = c + id
  <2>1. id \in Ids(parameters, supported)
    BY <1>4
  <2>2. PICK i \in supported : id = parameters[i].id
    BY <2>1 DEF Ids
  <2>3. id \in Nat
    BY <1>3, <2>2
  <2>4. cl.Parameters[id].Order = c + First(parameters, supported, id).id
    BY <1>4, <1>5, <2>1
  <2>5. First(parameters, supported, id).id = id
    <3>1. supported \in SUBSET DOMAIN parameters
      OBVIOUS
    <3> HIDE DEF supported
    <3>2. QED
      BY <1>3, <2>1, <3>1, FirstHasId
  <2>6. QED
    BY <2>3, <2>4, <2>5
<1>9. QED
  BY <1>1, <1>2, <1>6, <1>7, <1>8 DEF cl

\* No two controls of a class have one order.
OrdersApart(cl) ==
  \A j, k \in {"Inputs", "Outputs", "Parameters"} :
    \A a \in DOMAIN cl[j], b \in DOMAIN cl[k] :
      cl[j][a].Order = cl[k][b].Order => j = k /\ a = b

LEMMA LoadedOrdersApart ==
  ASSUME NEW data, data # Malformed, IsClassFile(data), NEW source
  PROVE  OrdersApart(TSmartWebClass(data, source))
<1> DEFINE cl == TSmartWebClass(data, source)
<1>1. PICK b, c \in Nat :
        /\ \A id \in DOMAIN cl.Inputs :
             id \in Nat /\ cl.Inputs[id].Order = id /\ id < b
        /\ \A id \in DOMAIN cl.Outputs :
             id \in Nat /\ cl.Outputs[id].Order = b + id /\ b + id < c
        /\ \A id \in DOMAIN cl.Parameters :
             id \in Nat /\ cl.Parameters[id].Order = c + id
        /\ b <= c
  BY OrdersFollow
<1> HIDE DEF cl
<1> DEFINE low(j) == IF j = "Inputs" THEN 0 ELSE IF j = "Outputs" THEN b ELSE c
<1>2. ASSUME NEW j \in {"Inputs", "Outputs", "Parameters"},
             NEW a \in DOMAIN cl[j]
      PROVE  /\ a \in Nat /\ cl[j][a].Order = low(j) + a
             /\ j = "Inputs" => low(j) + a < b
             /\ j = "Outputs" => low(j) + a < c
  BY <1>1
<1>3. ASSUME NEW j \in {"Inputs", "Outputs", "Parameters"},
             NEW k \in {"Inputs", "Outputs", "Parameters"},
             NEW x \in DOMAIN cl[j], NEW y \in DOMAIN cl[k],
             cl[j][x].Order = cl[k][y].Order
      PROVE  j = k /\ x = y
  <2>1. /\ x \in Nat /\ y \in Nat /\ low(j) + x = low(k) + y
        /\ j = "Inputs" => low(j) + x < b
        /\ j = "Outputs" => low(j) + x < c
        /\ k = "Inputs" => low(k) + y < b
        /\ k = "Outputs" => low(k) + y < c
    BY <1>2, <1>3
  <2>2. QED
    BY <1>1, <2>1
<1>4. QED
  BY <1>3 DEF OrdersApart, cl

-----------------------------------------------------------------------------
\* The class files of type t read so far from one of the two directories.
IsReading(source) == phase = source
WasRead(source) ==
  \/ source = "builtin" /\ phase \in {"user", "loaded"}
  \/ source = "user" /\ phase = "loaded"
Seen(source, t) ==
  {i \in FilesOf(config[source], t) :
     /\ config[source] # Missing
     /\ WasRead(source) \/ (IsReading(source) /\ i < at)}

\* The class of type t is that of the first of them, the user's before the
\* built-in ones.
ClassIsFirst(t) ==
  IF Seen("user", t) \cup Seen("builtin", t) = {} THEN t \notin DOMAIN Classes
  ELSE /\ t \in DOMAIN Classes
       /\ Classes[t] =
            IF Seen("user", t) # {}
            THEN TSmartWebClass(config.user[Min(Seen("user", t))], "user")
            ELSE TSmartWebClass(config.builtin[Min(Seen("builtin", t))],
                                "builtin")

ClassesInv ==
  /\ WasRead("builtin") => config.builtin # Missing
  /\ WasRead("user") => config.user # Missing
  /\ DOMAIN Classes \subseteq 0 .. 255
  /\ \A t \in DOMAIN Classes :
       Classes[t].Source \in {"builtin", "user"} /\ OrdersApart(Classes[t])
  /\ phase # "failed" => \A t \in 0 .. 255 : ClassIsFirst(t)

ConfigIInv == ControllersInv /\ ClassesInv

LEMMA ClassesInit == ConfigInit => ClassesInv
<1> SUFFICES ASSUME ConfigInit
             PROVE  ClassesInv
  OBVIOUS
<1>1. DOMAIN << >> = {}
  OBVIOUS
<1>2. \A source \in {"builtin", "user"} : \A t : Seen(source, t) = {}
  BY DEF ConfigInit, Seen, WasRead, IsReading
<1>3. QED
  BY <1>1, <1>2 DEF ConfigInit, ClassesInv, ClassIsFirst, WasRead

LEMMA SourceOf ==
  ASSUME NEW data, NEW source
  PROVE  TSmartWebClass(data, source).Source = source
BY DEF TSmartWebClass

\* A class file is read: it defines its type unless a file before it, or the
\* user, did.
LEMMA FileStep ==
  ASSUME ControllersInv, ClassesInv, LoadFile
  PROVE  ClassesInv'
<1> DEFINE dir == config[phase]
           data == dir[at]
           read == data # Malformed
           type == data.programType
<1>1. /\ phase \in {"builtin", "user"} /\ dir # Missing /\ at <= Len(dir)
      /\ config' = config /\ phase' = phase /\ at' = at + 1
      /\ Classes' = IF ~read \/ IsDefined(type, phase) THEN Classes
                    ELSE With(Classes, type, TSmartWebClass(data, phase))
  BY DEF LoadFile, AfterBadFile, Reading
<1>2. /\ config \in Configurations /\ at \in Nat \ {0} /\ at \in DOMAIN dir
      /\ DOMAIN dir \in SUBSET Nat /\ IsClassFile(data)
  <2>1. config \in Configurations /\ at \in Nat \ {0}
    BY DEF ControllersInv
  <2>2. /\ Len(dir) \in Nat /\ DOMAIN dir = 1 .. Len(dir)
        /\ \A n \in 1 .. Len(dir) : IsClassFile(dir[n])
    BY <1>1, <2>1, FilesTyped
  <2>3. at \in 1 .. Len(dir)
    BY <1>1, <2>1, <2>2
  <2>4. QED
    BY <2>1, <2>2, <2>3
<1>3. read => type \in 0 .. 255
  BY <1>2 DEF IsClassFile
<1>4. ASSUME NEW t \in 0 .. 255
      PROVE  /\ \A source \in {"builtin", "user"} :
                  source # phase => Seen(source, t)' = Seen(source, t)
             /\ Seen(phase, t) \in SUBSET Nat
             /\ \A i \in Seen(phase, t) : i < at
             /\ Seen(phase, t)' = IF read /\ type = t
                                  THEN Seen(phase, t) \cup {at}
                                  ELSE Seen(phase, t)
  <2>1. \A source \in {"builtin", "user"} :
          source # phase => Seen(source, t)' = Seen(source, t)
    <3>1. config' = config /\ phase' = phase
      BY <1>1
    <3>2. ASSUME NEW source \in {"builtin", "user"}, source # phase
          PROVE  Seen(source, t)' = Seen(source, t)
      <4>1. WasRead(source)' <=> WasRead(source)
        BY <3>1 DEF WasRead
      <4>2. ~IsReading(source) /\ ~IsReading(source)'
        BY <3>1, <3>2 DEF IsReading
      <4>3. FilesOf(config[source], t)' = FilesOf(config[source], t)
        BY <3>1
      <4>4. config'[source] = config[source]
        BY <3>1
      <4>5. CASE WasRead(source)
        BY <4>1, <4>3, <4>4, <4>5 DEF Seen
      <4>6. CASE ~WasRead(source)
        <5>1. Seen(source, t) = {}
          BY <4>2, <4>6 DEF Seen
        <5>2. Seen(source, t)' = {}
          BY <4>1, <4>2, <4>6 DEF Seen
        <5>3. QED
          BY <5>1, <5>2
      <4>7. QED
        BY <4>5, <4>6
    <3>3. QED
      BY <3>2
  <2>2. ~WasRead(phase)
    BY <1>1 DEF WasRead
  <2>3. Seen(phase, t) = {i \in FilesOf(dir, t) : i < at}
    BY <1>1, <2>2 DEF Seen, IsReading
  <2>4. Seen(phase, t)' = {i \in FilesOf(dir, t) : i < at + 1}
    BY <1>1, <2>2 DEF Seen, IsReading, WasRead
  <2>5. FilesOf(dir, t) \in SUBSET Nat
    BY <1>2 DEF FilesOf
  <2>6. at \in FilesOf(dir, t) <=> read /\ type = t
    BY <1>2 DEF FilesOf
  <2>7. \A i \in FilesOf(dir, t) : i < at + 1 <=> i < at \/ i = at
    BY <1>2, <2>5
  <2>8. QED
    BY <2>1, <2>3, <2>4, <2>5, <2>6, <2>7
<1>5. ASSUME NEW t \in 0 .. 255, ~(read /\ type = t)
      PROVE  /\ ClassIsFirst(t)'
             /\ t \in DOMAIN Classes' <=> t \in DOMAIN Classes
             /\ t \in DOMAIN Classes => Classes'[t] = Classes[t]
  <2>1. \A source \in {"builtin", "user"} : Seen(source, t)' = Seen(source, t)
    BY <1>1, <1>4, <1>5
  <2>2. /\ t \in DOMAIN Classes' <=> t \in DOMAIN Classes
        /\ t \in DOMAIN Classes => Classes'[t] = Classes[t]
    <3> DEFINE new == TSmartWebClass(data, phase)
    <3>1. \/ Classes' = Classes
          \/ Classes' = With(Classes, type, new) /\ type # t
      BY <1>1, <1>5
    <3> HIDE DEF new, type
    <3>2. QED
      BY <3>1 DEF With
  <2>3. ClassIsFirst(t)
    BY <1>1 DEF ClassesInv
  <2>4. QED
    BY <1>1, <2>1, <2>2, <2>3 DEF ClassIsFirst
<1>6. ASSUME read, NEW t \in 0 .. 255, type = t
      PROVE  /\ ClassIsFirst(t)'
             /\ t \in DOMAIN Classes'
             /\ \/ t \in DOMAIN Classes /\ Classes'[t] = Classes[t]
                \/ Classes'[t] = TSmartWebClass(data, phase)
  <2> DEFINE builtin == Seen("builtin", t)
             user == Seen("user", t)
             old == Seen(phase, t)
             first(source, n) == TSmartWebClass(config[source][n], source)
  <2>1. /\ old \in SUBSET Nat /\ \A i \in old : i < at
        /\ Seen(phase, t)' = old \cup {at}
        /\ phase = "user" => builtin' = builtin
        /\ phase = "builtin" => user' = user
    BY <1>1, <1>4, <1>6
  <2>2. /\ IF user \cup builtin = {} THEN t \notin DOMAIN Classes
           ELSE t \in DOMAIN Classes /\
                Classes[t] = IF user # {} THEN first("user", Min(user))
                             ELSE first("builtin", Min(builtin))
    BY <1>1 DEF ClassesInv, ClassIsFirst
  <2>3. phase = "builtin" => user = {}
    BY DEF Seen, WasRead, IsReading
  <2>4. /\ old = {} => Min(old \cup {at}) = at
        /\ old # {} => Min(old \cup {at}) = Min(old)
    BY <1>2, <2>1, FirstStays
  <2>5. \A source, n : first(source, n).Source = source
    BY SourceOf
  <2>6. data = config[phase][at]
    OBVIOUS
  <2>7. IsDefined(t, phase) <=> old # {}
    <3>1. CASE phase = "builtin"
      BY <2>2, <2>3, <2>5, <3>1 DEF IsDefined
    <3>2. CASE phase = "user"
      BY <2>2, <2>5, <3>2 DEF IsDefined
    <3>3. QED
      BY <1>1, <3>1, <3>2
  <2> HIDE DEF data, old, first
  <2>8. CASE old # {}
    <3>1. Classes' = Classes
      BY <1>1, <1>6, <2>7, <2>8
    <3>2. t \in DOMAIN Classes
      BY <1>1, <2>2, <2>8 DEF old
    <3>3. ClassIsFirst(t)'
      <4>1. Min(old \cup {at}) = Min(old) /\ old \cup {at} # {}
        BY <2>4, <2>8
      <4>2. config' = config
        BY <1>1
      <4>3. CASE phase = "user"
        <5>1. Seen("user", t)' = old \cup {at} /\ Seen("builtin", t)' = builtin
          BY <1>1, <2>1, <4>3
        <5>2. Classes[t] = TSmartWebClass(config.user[Min(old)], "user")
          BY <2>2, <2>8, <4>3 DEF old, first
        <5>3. QED
          BY <3>1, <3>2, <4>1, <4>2, <5>1, <5>2 DEF ClassIsFirst
      <4>4. CASE phase = "builtin"
        <5>1. Seen("builtin", t)' = old \cup {at} /\ Seen("user", t)' = {}
          BY <1>1, <2>1, <2>3, <4>4
        <5>2. Classes[t] = TSmartWebClass(config.builtin[Min(old)], "builtin")
          BY <2>2, <2>3, <2>8, <4>4 DEF old, first
        <5>3. QED
          BY <3>1, <3>2, <4>1, <4>2, <5>1, <5>2 DEF ClassIsFirst
      <4>5. QED
        BY <1>1, <4>3, <4>4
    <3>4. QED
      BY <3>1, <3>2, <3>3
  <2>9. CASE old = {}
    <3>1. Classes' = With(Classes, t, TSmartWebClass(data, phase))
      BY <1>1, <1>6, <2>7, <2>9
    <3>2. t \in DOMAIN Classes' /\ Classes'[t] = TSmartWebClass(data, phase)
      BY <3>1 DEF With
    <3>3. ClassIsFirst(t)'
      <4>1. Min({at}) = at /\ old \cup {at} = {at}
        <5>1. old \cup {at} = {at}
          BY <2>9
        <5>2. QED
          BY <2>4, <2>9, <5>1
      <4>2. config' = config
        BY <1>1
      <4>3. CASE phase = "user"
        <5>1. Seen("user", t)' = {at} /\ Seen("builtin", t)' = builtin
          BY <1>1, <2>1, <4>1, <4>3
        <5>2. Classes'[t] = TSmartWebClass(config.user[at], "user")
          BY <2>6, <3>2, <4>3
        <5>3. QED
          BY <3>2, <4>1, <4>2, <5>1, <5>2 DEF ClassIsFirst
      <4>4. CASE phase = "builtin"
        <5>1. Seen("builtin", t)' = {at} /\ Seen("user", t)' = {}
          BY <1>1, <2>1, <2>3, <4>1, <4>4
        <5>2. Classes'[t] = TSmartWebClass(config.builtin[at], "builtin")
          BY <2>6, <3>2, <4>4
        <5>3. QED
          BY <3>2, <4>1, <4>2, <5>1, <5>2 DEF ClassIsFirst
      <4>5. QED
        BY <1>1, <4>3, <4>4
    <3>4. QED
      BY <3>2, <3>3
  <2>10. QED
    BY <2>8, <2>9
<1>7. \A t \in 0 .. 255 : ClassIsFirst(t)'
  BY <1>5, <1>6
<1>8. /\ WasRead("builtin")' = WasRead("builtin")
      /\ WasRead("user")' = WasRead("user")
  BY <1>1 DEF WasRead
<1>9. DOMAIN Classes' \subseteq 0 .. 255
  <2>1. DOMAIN Classes \subseteq 0 .. 255
    BY DEF ClassesInv
  <2>2. CASE Classes' = Classes
    BY <2>1, <2>2
  <2>3. CASE read /\ Classes' = With(Classes, type, TSmartWebClass(data, phase))
    BY <1>3, <2>1, <2>3 DEF With
  <2>4. QED
    BY <1>1, <2>2, <2>3
<1>10. ASSUME NEW t \in DOMAIN Classes'
       PROVE  /\ Classes'[t].Source \in {"builtin", "user"}
              /\ OrdersApart(Classes'[t])
  <2>1. t \in DOMAIN Classes =>
          Classes[t].Source \in {"builtin", "user"} /\ OrdersApart(Classes[t])
    BY DEF ClassesInv
  <2>2. t \in 0 .. 255
    BY <1>9
  <2>3. CASE ~(read /\ type = t)
    BY <1>5, <1>10, <2>1, <2>2, <2>3
  <2>4. CASE read /\ type = t
    <3>1. \/ t \in DOMAIN Classes /\ Classes'[t] = Classes[t]
          \/ Classes'[t] = TSmartWebClass(data, phase)
      BY <1>6, <2>2, <2>4
    <3>2. CASE Classes'[t] = TSmartWebClass(data, phase)
      <4>1. TSmartWebClass(data, phase).Source = phase
        BY SourceOf
      <4>2. OrdersApart(TSmartWebClass(data, phase))
        BY <1>2, <2>4, LoadedOrdersApart
      <4>3. QED
        BY <1>1, <3>2, <4>1, <4>2
    <3>3. QED
      BY <2>1, <3>1, <3>2
  <2>5. QED
    BY <2>3, <2>4
<1>11. QED
  BY <1>1, <1>7, <1>8, <1>9, <1>10 DEF ClassesInv

\* A step that leaves what was read of the files leaves the classes first.
LEMMA SeenTheSame ==
  ASSUME ClassesInv, phase # "failed", Classes' = Classes,
         \A source \in {"builtin", "user"} : \A t \in 0 .. 255 :
           Seen(source, t)' = Seen(source, t),
         config' = config
  PROVE  \A t \in 0 .. 255 : ClassIsFirst(t)'
<1>1. ASSUME NEW t \in 0 .. 255
      PROVE  ClassIsFirst(t)'
  <2>1. ClassIsFirst(t)
    BY DEF ClassesInv
  <2>2. /\ Seen("user", t)' = Seen("user", t)
        /\ Seen("builtin", t)' = Seen("builtin", t)
    OBVIOUS
  <2>3. QED
    BY <2>1, <2>2 DEF ClassIsFirst
<1>2. QED
  BY <1>1

LEMMA ClassesStep ==
  ControllersInv /\ ClassesInv /\ [ConfigNext]_configVars => ClassesInv'
<1> SUFFICES ASSUME ControllersInv, ClassesInv, [ConfigNext]_configVars
             PROVE  ClassesInv'
  OBVIOUS
<1>1. /\ config \in Configurations /\ at \in Nat \ {0}
      /\ \A source \in {"builtin", "user"} : config[source] # Missing =>
           /\ Len(config[source]) \in Nat
           /\ DOMAIN config[source] = 1 .. Len(config[source])
  BY FilesTyped DEF ControllersInv
<1>2. ASSUME ReadFile \/ LoadController \/ ControllersLoaded
      PROVE  ClassesInv'
  <2>1. /\ phase \in {"file", "controllers"} /\ Classes' = Classes
        /\ config' = config
        /\ phase' \in {"controllers", "builtin", "failed"}
        /\ phase' = "builtin" => at' = 1
        /\ phase' = "failed" => config.file = Malformed
    BY <1>2 DEF ReadFile, LoadController, ControllersLoaded, Enter
  <2>2. ASSUME NEW source \in {"builtin", "user"}, NEW t \in 0 .. 255
        PROVE  Seen(source, t)' = Seen(source, t)
    <3>1. Seen(source, t) = {}
      BY <2>1 DEF Seen, WasRead, IsReading
    <3>2. CASE ~IsReading(source)'
      BY <2>1, <3>1, <3>2 DEF Seen, WasRead, IsReading
    <3>3. CASE IsReading(source)'
      <4>1. at' = 1 /\ ~WasRead(source)'
        BY <2>1, <3>3 DEF WasRead, IsReading
      <4>2. config[source] # Missing =>
              \A n \in FilesOf(config[source], t) : ~(n < 1)
        BY <1>1 DEF FilesOf
      <4>3. QED
        BY <2>1, <3>1, <4>1, <4>2 DEF Seen
    <3>4. QED
      BY <3>2, <3>3
  <2>3. \A t \in 0 .. 255 : ClassIsFirst(t)'
    <3>1. phase # "failed"
      BY <2>1
    <3>2. QED
      BY <2>1, <2>2, <3>1, SeenTheSame
  <2>4. ~WasRead("builtin")' /\ ~WasRead("user")'
    BY <2>1 DEF WasRead
  <2>5. QED
    BY <2>1, <2>3, <2>4 DEF ClassesInv
<1>3. CASE NoDirectory
  <2>1. /\ phase \in {"builtin", "user"} /\ config[phase] = Missing
        /\ phase' = "failed" /\ Classes' = Classes /\ config' = config
    BY <1>3 DEF NoDirectory, Reading, Enter
  <2>2. ~WasRead("builtin")' /\ ~WasRead("user")'
    BY <2>1 DEF WasRead
  <2>3. QED
    BY <2>1, <2>2 DEF ClassesInv
<1>4. CASE LoadFile
  BY <1>4, FileStep
<1>5. CASE DirectoryLoaded
  <2>1. /\ phase \in {"builtin", "user"} /\ config[phase] # Missing
        /\ at > Len(config[phase])
        /\ phase' = (IF phase = "builtin" THEN "user" ELSE "loaded")
        /\ at' = 1 /\ Classes' = Classes /\ config' = config
    BY <1>5 DEF DirectoryLoaded, Reading, Enter
  <2>2. ASSUME NEW source \in {"builtin", "user"}, NEW t \in 0 .. 255
        PROVE  Seen(source, t)' = Seen(source, t)
    <3>1. CASE source = phase
      <4>1. WasRead(source)' /\ IsReading(source) /\ ~WasRead(source)
        BY <2>1, <3>1 DEF WasRead, IsReading
      <4>2. \A n \in FilesOf(config[source], t) : n < at
        BY <1>1, <2>1, <3>1 DEF FilesOf
      <4>3. QED
        BY <2>1, <3>1, <4>1, <4>2 DEF Seen
    <3>2. CASE source # phase /\ source = "builtin"
      <4>1. WasRead(source)' /\ WasRead(source)
        BY <2>1, <3>2 DEF WasRead
      <4>2. QED
        BY <2>1, <4>1 DEF Seen
    <3>3. CASE source # phase /\ source = "user"
      <4>1. /\ phase = "builtin" /\ at' = 1
            /\ ~WasRead(source) /\ ~IsReading(source) /\ ~WasRead(source)'
        BY <2>1, <3>3 DEF WasRead, IsReading
      <4>2. config[source] # Missing =>
              \A n \in FilesOf(config[source], t) : ~(n < 1)
        BY <1>1 DEF FilesOf
      <4>3. QED
        BY <2>1, <4>1, <4>2 DEF Seen
    <3>4. QED
      BY <3>1, <3>2, <3>3
  <2>3. \A t \in 0 .. 255 : ClassIsFirst(t)'
    <3>1. phase # "failed"
      BY <2>1
    <3>2. QED
      BY <2>1, <2>2, <3>1, SeenTheSame
  <2>4. /\ WasRead("builtin")' => config.builtin # Missing
        /\ WasRead("user")' => config.user # Missing
    BY <2>1 DEF WasRead, ClassesInv
  <2>5. QED
    BY <2>1, <2>3, <2>4 DEF ClassesInv
<1>6. CASE UNCHANGED configVars
  <2>1. \A source \in {"builtin", "user"} : \A t \in 0 .. 255 :
          Seen(source, t)' = Seen(source, t)
    BY <1>6 DEF configVars, Seen, WasRead, IsReading
  <2>2. phase # "failed" => \A t \in 0 .. 255 : ClassIsFirst(t)'
    BY <1>6, <2>1, SeenTheSame DEF configVars
  <2>3. QED
    BY <1>6, <2>2 DEF configVars, ClassesInv, WasRead
<1>7. QED
  BY <1>2, <1>3, <1>4, <1>5, <1>6 DEF ConfigNext

THEOREM ConfigInductive == ConfigSpec => []ConfigIInv
<1>1. ConfigInit => ConfigIInv
  BY ControllersInit, ClassesInit DEF ConfigIInv
<1>2. ConfigIInv /\ [ConfigNext]_configVars => ConfigIInv'
  BY ControllersStep, ClassesStep DEF ConfigIInv
<1>3. QED
  BY <1>1, <1>2, PTL DEF ConfigSpec

\* The state keeps its types: no controller that was refused is kept, what a
\* key maps to is a channel that has a time-out, and no output lies beyond
\* the array (ConfigTypeOK).
THEOREM ConfigTypeCorrect == ConfigSpec => []ConfigTypeOK
<1>1. ConfigIInv => ConfigTypeOK
  <2> SUFFICES ASSUME ConfigIInv
               PROVE  ConfigTypeOK
    OBVIOUS
  <2>1. ASSUME NEW c \in ToSet(Controllers)
        PROVE  /\ ~c.thrown /\ c.ParameterCount \in 0 .. 255
               /\ DOMAIN c.OutputMapping \subseteq 0 .. CONTROLLER_OUTPUT_MAX - 1
               /\ ToSet(c.ParameterMapping) \subseteq
                    DOMAIN c.ValueTimeout \cap Channels
    <3>1. /\ ~c.thrown /\ c \in LoadStates /\ Timed(c)
      BY DEF ConfigIInv, ControllersInv, Loading, ToSet
    <3>2. /\ c.ParameterCount \in 0 .. 255
          /\ c.OutputMapping \in Maps(0 .. CONTROLLER_OUTPUT_MAX - 1, Channels)
          /\ c.ParameterMapping \in Maps(ParameterKeys, Channels)
      BY <3>1 DEF LoadStates
    <3>3. DOMAIN c.OutputMapping \subseteq 0 .. CONTROLLER_OUTPUT_MAX - 1
      <4> DEFINE Outputs == 0 .. CONTROLLER_OUTPUT_MAX - 1
      <4> HIDE DEF Outputs
      <4>1. c.OutputMapping \in Maps(Outputs, Channels)
        BY <3>2 DEF Outputs
      <4>2. DOMAIN c.OutputMapping \subseteq Outputs
        BY <4>1 DEF Maps
      <4>3. QED
        BY <4>2 DEF Outputs
    <3>4. \A k \in DOMAIN c.ParameterMapping :
            c.ParameterMapping[k] \in Channels
      BY <3>2 DEF Maps
    <3>5. ToSet(c.ParameterMapping) =
            {c.ParameterMapping[k] : k \in DOMAIN c.ParameterMapping}
      BY DEF ToSet
    <3>6. QED
      BY <3>1, <3>2, <3>3, <3>4, <3>5 DEF Timed
  <2>2. \A t \in DOMAIN Classes :
          t \in 0 .. 255 /\ Classes[t].Source \in {"builtin", "user"}
    BY DEF ConfigIInv, ClassesInv
  <2>3. QED
    BY <2>1, <2>2 DEF ConfigIInv, ControllersInv, ConfigTypeOK
<1>2. QED
  BY <1>1, ConfigInductive, PTL

\* Of each program type the class is that of the first valid file that
\* describes it, the user's before the built-in ones (LoadSmartWebClasses,
\* UserOverridesBuiltIn).
THEOREM UserFirst == ConfigSpec => []UserOverridesBuiltIn
<1>1. ConfigIInv => UserOverridesBuiltIn
  <2> SUFFICES ASSUME ConfigIInv, phase = "loaded", NEW t \in 0 .. 255
               PROVE  LET user == FilesOf(config.user, t)
                          builtin == FilesOf(config.builtin, t)
                      IN  IF user \cup builtin = {} THEN t \notin DOMAIN Classes
                          ELSE /\ t \in DOMAIN Classes
                               /\ Classes[t] =
                                    IF user # {}
                                    THEN TSmartWebClass(config.user[Min(user)],
                                                        "user")
                                    ELSE TSmartWebClass(
                                           config.builtin[Min(builtin)],
                                           "builtin")
    BY DEF UserOverridesBuiltIn
  <2>1. WasRead("user") /\ WasRead("builtin")
    BY DEF WasRead
  <2>2. config.user # Missing /\ config.builtin # Missing
    BY <2>1 DEF ConfigIInv, ClassesInv
  <2>3. /\ Seen("user", t) = FilesOf(config.user, t)
        /\ Seen("builtin", t) = FilesOf(config.builtin, t)
    BY <2>1, <2>2 DEF Seen
  <2>4. ClassIsFirst(t)
    BY DEF ConfigIInv, ClassesInv
  <2>5. QED
    BY <2>3, <2>4 DEF ClassIsFirst
<1>2. QED
  BY <1>1, ConfigInductive, PTL

\* No two controls of a class are shown at one place (LoadSmartWebClass,
\* OrdersDistinct).
THEOREM OrdersStayApart == ConfigSpec => []OrdersDistinct
<1>1. ConfigIInv => OrdersDistinct
  BY DEF ConfigIInv, ClassesInv, OrdersDistinct, OrdersApart
<1>2. QED
  BY <1>1, ConfigInductive, PTL

-----------------------------------------------------------------------------
\* The codecs.

\* Log2 is the exponent of the greatest power of two not beyond n.
LEMMA LogIs ==
  ASSUME NEW n \in 1 .. 2^30 - 1
  PROVE  Log2(n) \in 0 .. 29 /\ 2^Log2(n) <= n /\ n < 2^(Log2(n) + 1)
<1> DEFINE T == {e \in Nat : n < 2^(e + 1)}
<1>1. 29 \in T
  <2>1. 29 + 1 = 30 /\ 2^30 \in Nat
    BY Doubling
  <2>2. n < 2^30
    BY <2>1
  <2>3. QED
    BY <2>1, <2>2
<1>2. PICK e \in T : \A k \in T : e <= k
  <2> HIDE DEF T
  <2>1. T \in SUBSET Nat
    BY DEF T
  <2>2. QED
    BY <1>1, <2>1, LeastMember
<1>3. e \in 0 .. 29 /\ n < 2^(e + 1)
  <2>1. e \in Nat /\ n < 2^(e + 1)
    OBVIOUS
  <2>2. e <= 29
    <3> HIDE DEF T
    <3>1. QED
      BY <1>1, <1>2
  <2>3. e \in 0 .. 29
    BY <2>1, <2>2
  <2>4. QED
    BY <2>1, <2>3
<1>4. 2^e <= n
  <2>1. CASE e = 0
    BY <2>1
  <2>2. CASE e # 0
    <3>1. e - 1 \in Nat /\ (e - 1) + 1 = e /\ ~(e <= e - 1)
      BY <1>3, <2>2
    <3>2. ~(n < 2^e)
      BY <1>2, <3>1
    <3>3. 2^e \in Nat
      BY <1>3, Doubling
    <3>4. QED
      BY <3>2, <3>3
  <2>3. QED
    BY <2>1, <2>2
<1>5. QED
  BY <1>3, <1>4 DEF Log2

\* The recursion through the powers of two has a value at each of them, a
\* remainder.
LEMMA RemainderTyped ==
  ASSUME NEW d \in Nat, d > 0, NEW k \in 0 .. 82
  PROVE  Pow2Mod(d)[k] \in 0 .. d - 1
<1> DEFINE T == 0 .. d - 1
           base == 1 % d
           next == [x \in T |-> (2 * x) % d]
           step == [n \in 1 .. 82 |-> next]
           Body(f) == [n \in 0 .. 82 |->
                         IF n = 0 THEN 1 % d ELSE (2 * f[n - 1]) % d]
<1>1. base \in T /\ next \in [T -> T]
  OBVIOUS
<1>2. step \in Steps(T, 82)
  BY <1>1 DEF Steps
<1>3. PICK f : IsRecursion(f, T, 82, base, step)
  <2> HIDE DEF T, base, step
  <2>1. 82 \in Nat
    OBVIOUS
  <2>2. QED
    BY <1>1, <1>2, <2>1, Recursion
<1>4. /\ f \in [0 .. 82 -> T] /\ f[0] = base
      /\ \A n \in 1 .. 82 : f[n] = step[n][f[n - 1]]
  BY <1>3 DEF IsRecursion
<1>5. f = Body(f)
  <2>1. ASSUME NEW n \in 0 .. 82
        PROVE  f[n] = IF n = 0 THEN 1 % d ELSE (2 * f[n - 1]) % d
    <3>1. CASE n = 0
      BY <1>4, <3>1
    <3>2. CASE n # 0
      <4>1. n \in 1 .. 82 /\ n - 1 \in 0 .. 82
        BY <3>2
      <4>2. f[n] = next[f[n - 1]] /\ f[n - 1] \in T
        BY <1>4, <4>1
      <4>3. QED
        BY <3>2, <4>2
    <3>3. QED
      BY <3>1, <3>2
  <2>2. QED
    BY <1>4, <2>1
<1>6. Pow2Mod(d) = CHOOSE g : g = Body(g)
  BY DEF Pow2Mod
<1>7. Pow2Mod(d) = Body(Pow2Mod(d))
  <2> HIDE DEF Body
  <2>1. QED
    BY <1>5, <1>6
<1> DEFINE g == Pow2Mod(d)
<1>8. \A n \in 0 .. 82 : g[n] = IF n = 0 THEN 1 % d ELSE (2 * g[n - 1]) % d
  <2> DEFINE h == g
  <2>1. h = Body(h)
    BY <1>7
  <2> HIDE DEF h
  <2>2. \A n \in 0 .. 82 : h[n] = IF n = 0 THEN 1 % d ELSE (2 * h[n - 1]) % d
    BY <2>1
  <2>3. QED
    BY <2>2 DEF h
<1> HIDE DEF g
<1> DEFINE S == {n \in Nat : n <= 82 => g[n] \in T}
<1>9. 0 \in S
  BY <1>8
<1>10. ASSUME NEW n \in Nat, n \in S
       PROVE  n + 1 \in S
  <2>1. CASE n + 1 <= 82
    <3>1. n + 1 \in 0 .. 82 /\ n + 1 # 0 /\ (n + 1) - 1 = n
      BY <2>1
    <3>2. g[n] \in T /\ g[n + 1] = (2 * g[n]) % d
      BY <1>8, <1>10, <2>1, <3>1
    <3>3. (2 * g[n]) % d \in T
      BY <3>2
    <3>4. QED
      BY <3>2, <3>3
  <2>2. QED
    BY <2>1
<1>11. \A n \in Nat : n \in S
  <2> HIDE DEF S
  <2>1. QED
    BY <1>9, <1>10, Induction
<1>12. QED
  BY <1>11 DEF g

\* Doubles that are tenths: the product with ten of the double next to the
\* decimal m/10 is at most four units short of m, which rounds to m.
LEMMA TenthsExact ==
  ASSUME NEW m \in 1 .. 2^15
  PROVE  Truncated(m, 10, 1) = m
<1> DEFINE q == Log2Ratio(m, 10)
           e == Log2(m)
           k == e - q - (IF m = 2^e THEN 2 ELSE 1)
           r == ((m % 10) * Pow2Mod(10)[52 - q]) % 10
<1>1. m \in 1 .. 2^30 - 1 /\ m \in Nat /\ 1 <= m
  <2>1. 2^15 \in Nat /\ 2^15 <= 2^29 /\ 2^29 \in Nat /\ 2^(29 + 1) = 2 * 2^29
    BY Doubling, PowersGrow
  <2>2. 2^(29 + 1) = 2^30
    OBVIOUS
  <2>3. QED
    BY <2>1, <2>2
<1>2. e \in 0 .. 29 /\ 2^e <= m /\ m < 2^(e + 1)
  BY <1>1, LogIs
<1>3. q \in -4 .. 29 /\ k \in Nat /\ k >= 2
  <2>1. CASE m >= 10
    <3> DEFINE n == m \div 10
    <3>1. n \in Nat /\ 1 <= n /\ n <= m /\ 10 * n <= m
      BY <1>1, <2>1
    <3>2. n \in 1 .. 2^30 - 1
      BY <1>1, <3>1
    <3>3. q = Log2(n)
      BY <2>1 DEF Log2Ratio
    <3> HIDE DEF n
    <3>4. q \in 0 .. 29 /\ 2^q <= n
      BY <3>2, <3>3, LogIs
    <3> HIDE DEF q, e
    <3>5. /\ 2^q \in Nat /\ 2^(q + 1) = 2 * 2^q
          /\ 2^((q + 1) + 1) = 2 * 2^(q + 1)
          /\ 2^(((q + 1) + 1) + 1) = 2 * 2^((q + 1) + 1)
      BY <3>4, Doubling
    <3>6. ((q + 1) + 1) + 1 = q + 3
      BY <3>4
    <3>7. 2^(q + 3) = 8 * 2^q
      BY <3>5, <3>6
    <3>8. 2^q >= 1
      <4>1. 2^0 = 1 /\ 0 <= q /\ q \in Nat /\ 0 \in Nat
        BY <3>4
      <4>2. QED
        BY <4>1, PowersGrow
    <3>9. 2^(q + 3) < m
      BY <3>1, <3>4, <3>5, <3>7, <3>8
    <3>10. ~(e + 1 <= q + 3)
      BY <1>2, <3>4, <3>9, PowersGrow
    <3>11. m = 2^e => ~(e <= q + 3)
      BY <1>2, <3>4, <3>9, PowersGrow
    <3>12. QED
      BY <1>2, <3>4, <3>10, <3>11 DEF k
  <2>2. CASE m < 10
    <3> DEFINE Above(n) == 10 <= m * 2^n /\ m * 2^(n - 1) < 10
               n == CHOOSE n \in 1 .. 29 : Above(n)
    <3>1. 2^0 = 1 /\ 2^1 = 2 /\ 2^2 = 4 /\ 2^3 = 8 /\ 2^4 = 16
      OBVIOUS
    <3>2. \E j \in 1 .. 29 : Above(j)
      <4>1. m \in {1, 2, 3, 4, 5, 6, 7, 8, 9}
        BY <1>1, <2>2
      <4>2. m = 1 => Above(4)
        BY <3>1
      <4>3. m = 2 => Above(3)
        BY <3>1
      <4>4. m \in {3, 4} => Above(2)
        BY <3>1
      <4>5. m \in {5, 6, 7, 8, 9} => Above(1)
        BY <3>1
      <4> HIDE DEF Above
      <4>6. QED
        BY <4>1, <4>2, <4>3, <4>4, <4>5
    <3>3. n \in 1 .. 29 /\ Above(n)
      <4> HIDE DEF Above
      <4>1. QED
        BY <3>2
    <3>4. q = -n
      BY <1>1, <2>2 DEF Log2Ratio
    <3> HIDE DEF n, q, e
    <3>5. n \in 1 .. 4
      <4>1. ASSUME n > 4
            PROVE  FALSE
        <5>1. n - 1 \in Nat /\ 4 \in Nat /\ 4 <= n - 1
          BY <3>3, <4>1
        <5>2. 16 <= 2^(n - 1) /\ 2^(n - 1) \in Nat
          BY <3>1, <5>1, Doubling, PowersGrow
        <5> DEFINE x == 2^(n - 1)
        <5>3. x \in Nat /\ 16 <= x /\ m * x < 10
          BY <3>3, <5>2
        <5> HIDE DEF x
        <5>4. QED
          BY <1>1, <5>3
      <4>2. QED
        BY <3>3, <4>1
    <3>6. e \in 0 .. 3
      <4>1. ASSUME e >= 4
            PROVE  FALSE
        <5>1. 16 <= 2^e /\ 2^e \in Nat
          BY <1>2, <3>1, <4>1, Doubling, PowersGrow
        <5>2. QED
          BY <1>1, <1>2, <2>2, <5>1
      <4>2. QED
        BY <1>2, <4>1
    <3>7. /\ e = 0 => 2^e = 1 /\ 2^(e + 1) = 2
          /\ e = 1 => 2^e = 2 /\ 2^(e + 1) = 4
          /\ e = 2 => 2^e = 4 /\ 2^(e + 1) = 8
          /\ e = 3 => 2^e = 8 /\ 2^(e + 1) = 16
      <4>1. 0 + 1 = 1 /\ 1 + 1 = 2 /\ 2 + 1 = 3 /\ 3 + 1 = 4
        OBVIOUS
      <4>2. CASE e = 0
        BY <3>1, <4>2
      <4>3. CASE e = 1
        BY <3>1, <4>3
      <4>4. CASE e = 2
        BY <3>1, <4>4
      <4>5. CASE e = 3
        BY <3>1, <4>5
      <4>6. QED
        BY <3>6, <4>2, <4>3, <4>4, <4>5
    <3>8. /\ n = 1 => 10 <= m * 2
          /\ n = 2 => 10 <= m * 4
          /\ n = 3 => 10 <= m * 8
      BY <3>1, <3>3
    <3> DEFINE x == 2^e
               y == 2^(e + 1)
    <3>9. e + n >= 3 /\ (m = x => e + n >= 4)
      <4>1. x <= m /\ m < y
        BY <1>2
      <4>2. /\ e = 0 => x = 1 /\ y = 2
            /\ e = 1 => x = 2 /\ y = 4
            /\ e = 2 => x = 4 /\ y = 8
            /\ e = 3 => x = 8 /\ y = 16
        BY <3>7
      <4> HIDE DEF x, y
      <4>3. QED
        BY <1>1, <3>5, <3>6, <3>8, <4>1, <4>2
    <3>10. QED
      BY <3>4, <3>5, <3>6, <3>9 DEF k
  <2>3. QED
    BY <1>1, <2>1, <2>2
<1>4. 2^k \in Nat /\ 4 <= 2^k
  <2> HIDE DEF k
  <2>1. 2^2 = 4
    OBVIOUS
  <2>2. QED
    BY <1>3, <2>1, Doubling, PowersGrow
<1>5. r \in 0 .. 9
  <2> DEFINE a == m % 10
             b == Pow2Mod(10)[52 - q]
  <2>1. 52 - q \in 0 .. 82
    BY <1>3
  <2>2. b \in 0 .. 9
    <3>1. 10 \in Nat /\ 10 > 0 /\ 10 - 1 = 9
      OBVIOUS
    <3> HIDE DEF q
    <3>2. QED
      BY <2>1, <3>1, RemainderTyped
  <2>3. a \in 0 .. 9
    BY <1>1
  <2> HIDE DEF a, b
  <2>4. a * b \in Nat
    BY <2>2, <2>3
  <2>5. r = (a * b) % 10
    BY DEF a, b
  <2> HIDE DEF r
  <2>6. QED
    BY <2>4, <2>5
<1>6. Truncated(m, 10, 1)
        = IF 2 * r < 10 /\ ~RoundedUp(r * 1, 2^k) THEN m * 1 - 1 ELSE m * 1
  <2>1. m * 1 = m
    BY <1>1
  <2>2. QED
    BY <2>1 DEF Truncated
<1>7. 2 * r < 10 => RoundedUp(r * 1, 2^k)
  <2> HIDE DEF r, k
  <2>1. QED
    BY <1>4, <1>5 DEF RoundedUp
<1>8. QED
  <2> HIDE DEF r, k
  <2>1. QED
    BY <1>1, <1>6, <1>7

\* Whatever the rounding, the number set is at most one short of exact.
LEMMA TruncatedIs ==
  ASSUME NEW m \in Int, NEW d, NEW step \in Int
  PROVE  Truncated(m, d, step) \in {m * step - 1, m * step}
BY DEF Truncated

Scales == {1, 10, 100, 1000, 60000}

\* The integer codecs of Encodings: their scale is that of the code, and only
\* a signed short shows tenths.
IsNumber(c) ==
  /\ c.kind = "int" /\ c.Div \in Scales /\ c.lo \in Int /\ c.hi \in Int
  /\ c.Div = 10 => c.lo = -32768 /\ c.hi = 32767

\* The next raw value towards zero.
Nearer(raw) == IF raw > 0 THEN raw - 1 ELSE raw + 1

\* A number sets the raw value it shows, or the one nearer to zero.
LEMMA NumberIsSet ==
  ASSUME NEW c, IsNumber(c), NEW raw \in Int, Represents(c, raw),
         NEW text \in Decode(c, raw), NEW set \in Encode(c, text)
  PROVE  set = raw \/ (c.Div > 10 /\ set = Nearer(raw))
<1> DEFINE s == Step(c)
           m == raw \div s
<1>1. /\ Decode(c, raw) = {<<"number", m, Dec(c)>>}
      /\ c.lo <= raw /\ raw <= c.hi /\ raw % s = 0
      /\ Encode(c, text) = {EncodeInt(c, text[2], text[3])}
  BY DEF IsNumber, Represents, Decode, Encode
<1>2. set = EncodeInt(c, m, Dec(c))
  BY <1>1
<1>3. /\ c.Div = 60000 => s = 6000
      /\ c.Div # 60000 => s = 1
  <2>1. c.Div \in Scales
    BY DEF IsNumber
  <2>2. 60000 \div 10 = 6000 /\ \A n \in Scales : n \div n = 1
    BY DEF Scales
  <2>3. QED
    BY <2>1, <2>2 DEF Step, Dec
<1>4. s \in {1, 6000} /\ m \in Int /\ m * s = raw /\ (m > 0 <=> raw > 0)
  <2>1. CASE s = 1
    BY <2>1
  <2>2. CASE s = 6000
    <3> HIDE DEF s
    <3>1. QED
      BY <1>1, <2>2
  <2>3. QED
    BY <1>3, <2>1, <2>2
<1>5. c.Div = 10 => -32768 <= raw /\ raw <= 32767 /\ s = 1 /\ Dec(c) = 10
  BY <1>1, <1>3 DEF IsNumber, Dec
<1>6. c.Div \in Scales
  BY DEF IsNumber
<1> HIDE DEF s, m
<1>7. CASE m = 0 \/ c.Div = 1
  <2>1. set = m
    BY <1>2, <1>7 DEF EncodeInt
  <2>2. QED
    BY <1>3, <1>4, <1>7, <2>1
<1>8. CASE m # 0 /\ c.Div # 1 /\ m > 0
  <2>1. set = Truncated(m, Dec(c), s)
    BY <1>2, <1>8 DEF EncodeInt, s
  <2>2. c.Div = 10 => set = m
    <3>1. SUFFICES ASSUME c.Div = 10 PROVE set = m
      OBVIOUS
    <3>2. 2^15 = 32768
      OBVIOUS
    <3>3. m \in 1 .. 2^15
      BY <1>4, <1>5, <1>8, <3>1, <3>2
    <3>4. Truncated(m, 10, 1) = m
      BY <3>3, TenthsExact
    <3>5. QED
      BY <1>5, <2>1, <3>1, <3>4
  <2>3. set \in {m * s - 1, m * s}
    BY <1>4, <2>1, TruncatedIs
  <2>4. c.Div # 10 => c.Div > 10
    BY <1>6, <1>8 DEF Scales
  <2>5. QED
    BY <1>4, <1>5, <1>8, <2>2, <2>3, <2>4 DEF Nearer
<1>9. CASE m # 0 /\ c.Div # 1 /\ ~(m > 0)
  <2>1. set = -Truncated(-m, Dec(c), s)
    BY <1>2, <1>9 DEF EncodeInt, s
  <2>2. c.Div = 10 => set = m
    <3>1. SUFFICES ASSUME c.Div = 10 PROVE set = m
      OBVIOUS
    <3>2. 2^15 = 32768
      OBVIOUS
    <3>3. -m \in 1 .. 2^15
      BY <1>4, <1>5, <1>9, <3>1, <3>2
    <3>4. Truncated(-m, 10, 1) = -m
      BY <3>3, TenthsExact
    <3>5. QED
      BY <1>4, <1>5, <2>1, <3>1, <3>4
  <2>3. Truncated(-m, Dec(c), s) \in {(-m) * s - 1, (-m) * s}
    BY <1>4, TruncatedIs
  <2>4. (-m) * s = -raw
    BY <1>4
  <2>5. c.Div # 10 => c.Div > 10
    BY <1>6, <1>9 DEF Scales
  <2>6. set \in {raw + 1, raw}
    BY <1>4, <2>1, <2>3, <2>4
  <2>7. ~(raw > 0)
    BY <1>4, <1>9
  <2>8. QED
    BY <1>4, <1>5, <2>2, <2>5, <2>6, <2>7 DEF Nearer
<1>10. QED
  BY <1>4, <1>7, <1>8, <1>9

\* A name sets the lowest of its keys, which shows the name.
LEMMA NameIsSet ==
  ASSUME NEW values, NEW raw, NEW text \in Decode(TEnumCodec(values), raw),
         NEW set \in Encode(TEnumCodec(values), text)
  PROVE  text \in Decode(TEnumCodec(values), set)
<1> DEFINE c == TEnumCodec(values)
<1>1. c.kind = "enum" /\ c.Values = values
  BY DEF TEnumCodec
<1> HIDE DEF c
<1>2. /\ \A r : Decode(c, r) = IF r \in DOMAIN values
                               THEN {<<"name", values[r]>>}
                               ELSE {<<"number", r, 1>>}
      /\ Encode(c, text) = IF text[1] = "name" THEN Keys(c, text[2]) ELSE {}
  BY <1>1 DEF Decode, Encode
<1>3. text[1] = "name" /\ set \in Keys(c, text[2])
  BY <1>2 DEF c
<1>4. text = <<"name", text[2]>>
  BY <1>2, <1>3 DEF c
<1>5. set \in DOMAIN values /\ values[set] = text[2]
  BY <1>1, <1>3 DEF Keys
<1>6. QED
  BY <1>2, <1>4, <1>5 DEF c

\* A switch that shows 0 or 1 sets it; what a sensor shows sets nothing.
LEMMA SwitchIsSet ==
  ASSUME NEW raw \in {0, 1, SENSOR_SHORT_VALUE, SENSOR_OPEN_VALUE},
         NEW text \in Decode(TOnOffSensorCodec, raw),
         NEW set \in Encode(TOnOffSensorCodec, text)
  PROVE  text \in Decode(TOnOffSensorCodec, set)
<1> DEFINE c == TOnOffSensorCodec
<1>1. c.kind = "onOff"
  BY DEF TOnOffSensorCodec
<1>2. /\ \A r : Decode(c, r) =
           CASE r = SENSOR_SHORT_VALUE -> {<<"number", 1, 1>>}
             [] r = SENSOR_OPEN_VALUE  -> {<<"number", 0, 1>>}
             [] r = SENSOR_UNDEFINED   -> {}
             [] OTHER -> {<<"number", r, 1>>}
      /\ Encode(c, text) = {IF text = <<"number", 0, 1>> THEN 0 ELSE 1}
  BY <1>1 DEF Decode, Encode
<1>3. text \in {<<"number", 0, 1>>, <<"number", 1, 1>>}
  BY <1>2 DEF SENSOR_SHORT_VALUE, SENSOR_OPEN_VALUE, SENSOR_UNDEFINED
<1>4. text = <<"number", set, 1>> /\ set \in {0, 1}
  BY <1>2, <1>3
<1>5. Decode(c, set) = {<<"number", set, 1>>}
  BY <1>2, <1>4 DEF SENSOR_SHORT_VALUE, SENSOR_OPEN_VALUE, SENSOR_UNDEFINED
<1>6. QED
  BY <1>4, <1>5

\* The codecs of a class file: a sensor's, a switch's, an enumeration's or one
\* of the numbers.
LEMMA CodecIs ==
  ASSUME NEW p
  PROVE  \/ ParameterCodec(p) \in {TOnOffSensorCodec, TSensorCodec}
         \/ \E values : ParameterCodec(p) = TEnumCodec(values)
         \/ IsNumber(ParameterCodec(p))
<1>1. \A x \in DOMAIN Encodings : IsNumber(Encodings[x])
  BY SMT DEF Encodings, IsNumber, TIntCodec, Scales
<1>2. "short10" \in DOMAIN Encodings
  BY SMT DEF Encodings
<1>3. \A enc : IsNumber(Member(Encodings, enc, Encodings.short10))
  <2> DEFINE E == Encodings
  <2>1. E.short10 = E["short10"]
    OBVIOUS
  <2> HIDE DEF E
  <2>2. \A x \in DOMAIN E : IsNumber(E[x])
    BY <1>1 DEF E
  <2>3. "short10" \in DOMAIN E
    BY <1>2 DEF E
  <2>4. \A enc : IsNumber(Member(E, enc, E.short10))
    BY <2>1, <2>2, <2>3 DEF Member
  <2>5. QED
    BY <2>4 DEF E
<1>4. IsNumber(GetCodec(p)) \/ \E values : GetCodec(p) = TEnumCodec(values)
  BY <1>3 DEF GetCodec
<1>5. ParameterCodec(p) \in {TOnOffSensorCodec, TSensorCodec, GetCodec(p)}
  BY DEF ParameterCodec
<1>6. QED
  BY <1>4, <1>5

\* The codec of a loaded parameter is that of an entry of its class file.
LEMMA LoadedCodec ==
  ASSUME NEW data, NEW source,
         NEW id \in DOMAIN TSmartWebClass(data, source).Parameters
  PROVE  \E p : TSmartWebClass(data, source).Parameters[id].Codec
                  = ParameterCodec(p)
<1> DEFINE ps == TSmartWebClass(data, source).Parameters
           parameters == Member(data, "parameters", << >>)
           c == OrderAfter(OrderAfter(0, data, "inputs"), data, "outputs")
           supported == {i \in DOMAIN parameters : ~Unsupported(parameters[i])}
<1>1. ps = [i \in Ids(parameters, supported) |->
              LET p == First(parameters, supported, i)
              IN  LoadParameter(p, c, IsReadOnly(p), ParameterCodec(p))]
  BY DEF TSmartWebClass
<1> DEFINE p == First(parameters, supported, id)
<1>2. ps[id] = LoadParameter(p, c, IsReadOnly(p), ParameterCodec(p))
  BY <1>1
<1>3. ps[id].Codec = ParameterCodec(p)
  BY <1>2 DEF LoadParameter
<1>4. QED
  BY <1>3

\* Setting a control to the text it shows sets what is shown (the codecs'
\* Decode and Encode, CommandSetsWhatIsShown): a name by its lowest key,
\* tenths exactly, finer decimals at most one raw value nearer to zero.
THEOREM CommandsSetWhatIsShown == ConfigSpec => []CommandSetsWhatIsShown
<1>1. ConfigIInv => CommandSetsWhatIsShown
  <2> SUFFICES ASSUME ConfigIInv, phase = "loaded", NEW t \in DOMAIN Classes,
                      NEW id \in DOMAIN Classes[t].Parameters
               PROVE  LET c == Classes[t].Parameters[id].Codec
                      IN  \A raw \in Samples :
                            Represents(c, raw) /\ Comparable(c, raw) =>
                            \A text \in Decode(c, raw) :
                              \A set \in Encode(c, text) :
                                \/ text \in Decode(c, set)
                                \/ /\ c.kind = "int" /\ c.Div > 10
                                   /\ set = IF raw > 0 THEN raw - 1 ELSE raw + 1
    BY DEF CommandSetsWhatIsShown
  <2>1. t \in 0 .. 255 /\ ClassIsFirst(t)
    BY DEF ConfigIInv, ClassesInv
  <2>2. PICK data, source : Classes[t] = TSmartWebClass(data, source)
    BY <2>1 DEF ClassIsFirst
  <2> DEFINE c == Classes[t].Parameters[id].Codec
  <2>3. PICK p : c = ParameterCodec(p)
    BY <2>2, LoadedCodec
  <2> SUFFICES ASSUME NEW raw \in Samples, Represents(c, raw),
                      Comparable(c, raw), NEW text \in Decode(c, raw),
                      NEW set \in Encode(c, text)
               PROVE  \/ text \in Decode(c, set)
                      \/ /\ c.kind = "int" /\ c.Div > 10
                         /\ set = IF raw > 0 THEN raw - 1 ELSE raw + 1
    OBVIOUS
  <2> HIDE DEF c
  <2>4. raw \in Int
    BY ConfigAssumption
  <2>5. CASE c = TOnOffSensorCodec
    <3>1. c.kind = "onOff"
      BY <2>5 DEF TOnOffSensorCodec
    <3>2. raw \in {0, 1, SENSOR_SHORT_VALUE, SENSOR_OPEN_VALUE}
      BY <3>1 DEF Comparable
    <3>3. QED
      BY <2>5, <3>2, SwitchIsSet
  <2>6. CASE c = TSensorCodec
    <3>1. c.kind = "sensor"
      BY <2>6 DEF TSensorCodec
    <3>2. Encode(c, text) = {}
      BY <3>1 DEF Encode
    <3>3. QED
      BY <3>2
  <2>7. CASE \E values : c = TEnumCodec(values)
    BY <2>7, NameIsSet
  <2>8. CASE IsNumber(c)
    <3>1. set = raw \/ (c.Div > 10 /\ set = Nearer(raw))
      BY <2>4, <2>8, NumberIsSet
    <3>2. c.kind = "int"
      BY <2>8 DEF IsNumber
    <3>3. QED
      BY <3>1, <3>2 DEF Nearer
  <2>9. QED
    BY <2>3, <2>5, <2>6, <2>7, <2>8, CodecIs
<1>2. QED
  BY <1>1, ConfigInductive, PTL

-----------------------------------------------------------------------------
\* What VirtualController and SmartWebToMqttGateway suppose of the constants
\* that stand for a controller and for the classes.
ControllerFits(c) ==
  /\ c.ParameterCount \in 0 .. 255
  /\ IsFiniteSet(DOMAIN c.ParameterMapping)
  /\ \A k \in DOMAIN c.ParameterMapping :
       c.ParameterMapping[k] \in DOMAIN c.ValueTimeout
  /\ \A i \in DOMAIN c.OutputMapping :
       /\ i \in 0 .. CONTROLLER_OUTPUT_MAX - 1
       /\ c.OutputMapping[i] \in DOMAIN c.ValueTimeout
  /\ \A channel \in DOMAIN c.ValueTimeout : c.ValueTimeout[channel] \in Int

ClassFits(cl) ==
  /\ \A ps \in {cl.Inputs, cl.Outputs, cl.Parameters} :
       IsFiniteSet(DOMAIN ps) /\ DOMAIN ps \subseteq 0 .. 255
  /\ \A ps \in {cl.Inputs, cl.Outputs} : \A id \in DOMAIN ps : ps[id].ReadOnly

\* Bytes are finitely many.
LEMMA BytesFinite == IsFiniteSet(0 .. 255)
<1>1. 0 \in Int /\ 255 \in Int
  OBVIOUS
<1>2. QED
  BY <1>1, FS_Interval

\* There are only so many parameters.
LEMMA KeysFinite == IsFiniteSet(ParameterKeys)
<1> DEFINE B == 0 .. 255
           Triples == (B \X B) \X B
           key == [x \in Triples |-> [program_type |-> x[1][1],
                                      parameter_id |-> x[1][2],
                                      index |-> x[2]]]
<1>1. IsFiniteSet(B)
  BY BytesFinite
<1>2. IsFiniteSet(Triples)
  <2> HIDE DEF B
  <2>1. IsFiniteSet(B \X B)
    BY <1>1, FS_Product
  <2>2. QED
    BY <1>1, <2>1, FS_Product
<1>3. ParameterKeys = [program_type : B, parameter_id : B, index : B]
  BY DEF ParameterKeys
<1> HIDE DEF B
<1>4. key \in [Triples -> ParameterKeys]
  BY <1>3
<1>5. ASSUME NEW k \in ParameterKeys
      PROVE  \E x \in Triples : key[x] = k
  <2> DEFINE x == <<<<k.program_type, k.parameter_id>>, k.index>>
  <2>1. x \in Triples
    BY <1>3
  <2>2. key[x] = k
    BY <1>3, <2>1
  <2>3. QED
    BY <2>1, <2>2
<1> HIDE DEF key, Triples
<1>6. key \in Surjection(Triples, ParameterKeys)
  BY <1>4, <1>5 DEF Surjection
<1>7. QED
  BY <1>2, <1>6, FS_Surjection

\* A controller that is loaded fits.
LEMMA LoadedControllerFits ==
  ASSUME NEW c, Loading(c)
  PROVE  ControllerFits(c)
<1> DEFINE Outputs == 0 .. CONTROLLER_OUTPUT_MAX - 1
<1>1. /\ c.ParameterCount \in 0 .. 255
      /\ c.ParameterMapping \in Maps(ParameterKeys, Channels)
      /\ c.ValueTimeout \in Maps(STRING, Int)
      /\ c.OutputMapping \in Maps(Outputs, Channels)
  BY DEF Loading, LoadStates
<1> HIDE DEF Outputs
<1>2. /\ DOMAIN c.ParameterMapping \subseteq ParameterKeys
      /\ DOMAIN c.OutputMapping \subseteq Outputs
      /\ \A channel \in DOMAIN c.ValueTimeout : c.ValueTimeout[channel] \in Int
  <2>1. ASSUME NEW K, NEW V, NEW f \in Maps(K, V)
        PROVE  DOMAIN f \subseteq K /\ \A k \in DOMAIN f : f[k] \in V
    BY DEF Maps
  <2>2. QED
    BY <1>1, <2>1
<1>3. IsFiniteSet(DOMAIN c.ParameterMapping)
  BY <1>2, KeysFinite, FS_Subset
<1>4. \A k \in DOMAIN c.ParameterMapping :
        c.ParameterMapping[k] \in DOMAIN c.ValueTimeout
  BY DEF Loading, Timed
<1>5. \A i \in DOMAIN c.OutputMapping :
        c.OutputMapping[i] \in DOMAIN c.ValueTimeout
  BY <1>4 DEF Loading, OutputsAreSensors
<1>6. QED
  BY <1>1, <1>2, <1>3, <1>4, <1>5 DEF ControllerFits, Outputs

\* A class that is loaded fits.
LEMMA LoadedClassFits ==
  ASSUME NEW data, data # Malformed, IsClassFile(data), NEW source
  PROVE  ClassFits(TSmartWebClass(data, source))
<1> DEFINE cl == TSmartWebClass(data, source)
           inputs == Member(data, "inputs", << >>)
           outputs == Member(data, "outputs", << >>)
           parameters == Member(data, "parameters", << >>)
           b == OrderAfter(0, data, "inputs")
           c == OrderAfter(b, data, "outputs")
           supported == {i \in DOMAIN parameters : ~Unsupported(parameters[i])}
<1>1. /\ \A i \in DOMAIN inputs : inputs[i].id \in 0 .. 255
      /\ \A i \in DOMAIN outputs : outputs[i].id \in 0 .. 255
      /\ \A i \in DOMAIN parameters : parameters[i].id \in 0 .. 255
  BY KindTyped
<1>2. /\ cl.Inputs = [id \in Ids(inputs, DOMAIN inputs) |->
           LET p == First(inputs, DOMAIN inputs, id)
           IN  LoadParameter(p, 0, TRUE, InputCodec(p))]
      /\ cl.Outputs = [id \in Ids(outputs, DOMAIN outputs) |->
           LET p == First(outputs, DOMAIN outputs, id)
           IN  LoadParameter(p, b, TRUE, OutputCodec(p))]
      /\ cl.Parameters = [id \in Ids(parameters, supported) |->
           LET p == First(parameters, supported, id)
           IN  LoadParameter(p, c, IsReadOnly(p), ParameterCodec(p))]
  BY DEF TSmartWebClass
<1> HIDE DEF cl, inputs, outputs, parameters, b, c
<1>3. /\ DOMAIN cl.Inputs \subseteq 0 .. 255
      /\ DOMAIN cl.Outputs \subseteq 0 .. 255
      /\ DOMAIN cl.Parameters \subseteq 0 .. 255
  BY <1>1, <1>2 DEF Ids
<1>4. \A D : D \subseteq 0 .. 255 => IsFiniteSet(D)
  BY BytesFinite, FS_Subset
<1>5. ASSUME NEW id \in DOMAIN cl.Inputs PROVE cl.Inputs[id].ReadOnly
  BY <1>2 DEF LoadParameter
<1>6. ASSUME NEW id \in DOMAIN cl.Outputs PROVE cl.Outputs[id].ReadOnly
  BY <1>2 DEF LoadParameter
<1>7. QED
  BY <1>3, <1>4, <1>5, <1>6 DEF ClassFits, cl

\* What LoadConfig gives the gateways is what the models of the gateways
\* suppose of it: whatever is mapped has a time-out, outputs fit their array,
\* inputs and outputs are read-only and ids are bytes.
THEOREM LoadedFits ==
  ConfigSpec => [](phase = "loaded" =>
                     /\ \A c \in ToSet(Controllers) : ControllerFits(c)
                     /\ \A t \in DOMAIN Classes :
                          t \in 0 .. 255 /\ ClassFits(Classes[t]))
<1>1. ConfigIInv /\ phase = "loaded" =>
        /\ \A c \in ToSet(Controllers) : ControllerFits(c)
        /\ \A t \in DOMAIN Classes : t \in 0 .. 255 /\ ClassFits(Classes[t])
  <2> SUFFICES ASSUME ConfigIInv, phase = "loaded"
               PROVE  /\ \A c \in ToSet(Controllers) : ControllerFits(c)
                      /\ \A t \in DOMAIN Classes :
                           t \in 0 .. 255 /\ ClassFits(Classes[t])
    OBVIOUS
  <2>1. ASSUME NEW c \in ToSet(Controllers) PROVE ControllerFits(c)
    BY LoadedControllerFits DEF ConfigIInv, ControllersInv, ToSet
  <2>2. ASSUME NEW t \in DOMAIN Classes
        PROVE  t \in 0 .. 255 /\ ClassFits(Classes[t])
    <3>1. t \in 0 .. 255 /\ ClassIsFirst(t) /\ config \in Configurations
      BY DEF ConfigIInv, ControllersInv, ClassesInv
    <3>2. PICK source \in {"builtin", "user"} :
            /\ Seen(source, t) # {}
            /\ Classes[t] = TSmartWebClass(config[source][Min(Seen(source, t))],
                                           source)
      BY <3>1 DEF ClassIsFirst
    <3> DEFINE i == Min(Seen(source, t))
    <3>3. /\ config[source] # Missing
          /\ Seen(source, t) \subseteq FilesOf(config[source], t)
      BY <3>2 DEF Seen
    <3>4. /\ DOMAIN config[source] = 1 .. Len(config[source])
          /\ Len(config[source]) \in Nat
          /\ \A n \in 1 .. Len(config[source]) : IsClassFile(config[source][n])
      BY <3>1, <3>3, FilesTyped
    <3>5. Seen(source, t) \in SUBSET Nat
      BY <3>3, <3>4 DEF FilesOf
    <3>6. i \in Seen(source, t)
      BY <3>2, <3>5, MinIsLeast
    <3> HIDE DEF i
    <3>7. config[source][i] # Malformed /\ IsClassFile(config[source][i])
      BY <3>3, <3>4, <3>6 DEF FilesOf
    <3>8. QED
      BY <3>1, <3>2, <3>7, LoadedClassFits DEF i
  <2>3. QED
    BY <2>1, <2>2
<1>2. QED
  BY <1>1, ConfigInductive, PTL
=============================================================================
