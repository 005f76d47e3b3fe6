--------------------- MODULE SmartWebToMqttGateway_proofs ---------------------
(***************************************************************************)
(* Proofs about SmartWebToMqttGateway, for any classes, programs, frames   *)
(* and queue limit.                                                        *)
(***************************************************************************)
EXTENDS SmartWebToMqttGateway, FiniteRecursion, SequenceTheorems

\* The reader's state: what is queued and handled came from the bus, and known
\* programs have configured classes.
ReaderInv ==
  /\ Frames \in Seq(BusFrames)
  /\ handling \in BusFrames \cup {NoFrame}
  /\ DOMAIN KnownPrograms \subseteq ProgramIds
  /\ \A p \in DOMAIN KnownPrograms : KnownPrograms[p] \in Types

\* The gateway remembers every device it created until it removes them, and
\* nothing is handled once the reader's thread was joined.
DriverInv ==
  /\ DeviceIds \in Seq(Device)
  /\ owner # "gone" => devices = ToSet(DeviceIds)
  /\ owner = "gone" => devices = {}
  /\ owner \in {"handler", "devices", "gone"} => handling = NoFrame
  /\ owner \in {"up", "reader", "handler", "devices", "gone"}

DeviceInv == ReaderInv /\ DriverInv

-----------------------------------------------------------------------------
\* What the assumptions say of a frame.
LEMMA FrameTyped ==
  ASSUME NEW f \in BusFrames
  PROVE  f \in Frame /\ f.program_id \in ProgramIds /\ f # NoFrame
<1>1. f \in Frame /\ f # NoFrame
  BY GatewayAssumption
<1>2. QED
  BY <1>1 DEF Frame

\* Setting a parameter keeps the record of the devices.
LEMMA SetParameterKeeps ==
  ASSUME NEW t \in Types, NEW ps, NEW id, NEW p \in ProgramIds, NEW v,
         DeviceIds \in Seq(Device), devices = ToSet(DeviceIds),
         SetParameter(t, ps, id, p, v) \/ UNCHANGED mqttVars
  PROVE  DeviceIds' \in Seq(Device) /\ devices' = ToSet(DeviceIds')
<1> DEFINE device == <<Classes[t].Name, p>>
<1>1. CASE UNCHANGED mqttVars
  BY <1>1 DEF mqttVars
<1>2. CASE SetParameter(t, ps, id, p, v) /\ id \in DOMAIN ps
  <2>1. device \in Device
    BY DEF Device
  <2>2. /\ devices' = devices \cup {device}
        /\ DeviceIds' = IF device \in devices THEN DeviceIds
                        ELSE Append(DeviceIds, device)
    BY <1>2 DEF SetParameter
  <2> HIDE DEF device
  <2>3. CASE device \in devices
    BY <2>2, <2>3
  <2>4. CASE device \notin devices
    <3>1. /\ DeviceIds' \in Seq(Device)
          /\ Len(DeviceIds) + 1 \in DOMAIN DeviceIds'
          /\ DeviceIds'[Len(DeviceIds) + 1] = device
          /\ \A i \in DOMAIN DeviceIds :
               i \in DOMAIN DeviceIds' /\ DeviceIds'[i] = DeviceIds[i]
          /\ \A i \in DOMAIN DeviceIds' :
               i \in DOMAIN DeviceIds \/ i = Len(DeviceIds) + 1
      BY <2>1, <2>2, <2>4
    <3>2. ToSet(DeviceIds') = ToSet(DeviceIds) \cup {device}
      BY <3>1 DEF ToSet
    <3>3. QED
      BY <2>2, <3>1, <3>2
  <2>5. QED
    BY <2>3, <2>4
<1>3. CASE SetParameter(t, ps, id, p, v) /\ id \notin DOMAIN ps
  BY <1>1, <1>3 DEF SetParameter
<1>4. QED
  BY <1>1, <1>2, <1>3

-----------------------------------------------------------------------------
\* Initially no device is created and nothing handled.
LEMMA DeviceInit == Init => DeviceInv
<1> SUFFICES ASSUME Init PROVE DeviceInv
  OBVIOUS
<1>1. DOMAIN KnownPrograms = {}
  BY DEF Init, Empty
<1>2. << >> \in Seq(BusFrames) /\ << >> \in Seq(Device) /\ ToSet(<< >>) = {}
  BY DEF ToSet
<1>3. QED
  BY <1>1, <1>2 DEF Init, DeviceInv, ReaderInv, DriverInv

\* Every step keeps the reader's state.
LEMMA ReaderStep ==
  ASSUME DeviceInv, [Next]_vars
  PROVE  ReaderInv'
<1>1. ASSUME NEW f \in BusFrames, Receive(f) PROVE ReaderInv'
  <2>1. Frames' \in Seq(BusFrames)
    BY <1>1 DEF Receive, Queue!Offer, DeviceInv, ReaderInv
  <2>2. QED
    BY <1>1, <2>1 DEF Receive, Queue!Offer, DeviceInv, ReaderInv
<1>2. CASE Take
  <2>1. Frames \in Seq(BusFrames) /\ Frames # << >>
        /\ handling' = Head(Frames) /\ Frames' = Tail(Frames)
    BY <1>2 DEF Take, Queue!Take, DeviceInv, ReaderInv
  <2>2. handling' \in BusFrames /\ Frames' \in Seq(BusFrames)
    BY <2>1
  <2>3. QED
    BY <1>2, <2>2 DEF Take, DeviceInv, ReaderInv
<1>3. CASE AddProgram
  <2>1. CASE IsNewProgram /\ Frames' = Frames /\ handling' = handling
             /\ KnownPrograms' = [p \in DOMAIN KnownPrograms \cup
                                    {handling.program_id} |->
                                  IF p \in DOMAIN KnownPrograms
                                  THEN KnownPrograms[p] ELSE handling.type]
    <3>1. handling.program_id \in ProgramIds /\ handling.type \in Types
      BY <1>3, <2>1, FrameTyped
         DEF AddProgram, IsProgram, IsNewProgram, DeviceInv, ReaderInv
    <3>2. QED
      BY <2>1, <3>1 DEF DeviceInv, ReaderInv
  <2>2. CASE UNCHANGED KnownPrograms /\ Queue!Done
    BY <2>2 DEF Queue!Done, DeviceInv, ReaderInv
  <2>3. QED
    BY <1>3, <2>1, <2>2 DEF AddProgram
<1>4. CASE AddRequests \/ HandleGetValueResponse
  BY <1>4 DEF AddRequests, HandleGetValueResponse, Queue!Done, DeviceInv,
              ReaderInv
<1>5. CASE Poller \/ Driver \/ Owner \/ UNCHANGED vars
  <2>1. << >> \in Seq(BusFrames)
    OBVIOUS
  <2>2. Frames' \in Seq(BusFrames)
    BY <1>5, <2>1 DEF DeviceInv, ReaderInv, Poller, SendRequest, RequestSent,
                      Driver, CommandSent, SetControl, Owner, StopScheduler,
                      StopReader, RemoveEventHandler, RemoveDevices, vars,
                      readerVars
  <2>3. UNCHANGED <<handling, KnownPrograms>>
    BY <1>5 DEF Poller, SendRequest, RequestSent, Driver, CommandSent,
                SetControl, Owner, StopScheduler, StopReader,
                RemoveEventHandler, RemoveDevices, vars, readerVars
  <2>4. QED
    BY <2>2, <2>3 DEF DeviceInv, ReaderInv
<1>6. QED
  BY <1>1, <1>2, <1>3, <1>4, <1>5 DEF Next, Reader

\* A value response keeps the record of the devices.
LEMMA ResponseKeeps ==
  ASSUME DeviceInv, HandleGetValueResponse
  PROVE  DriverInv'
<1>1. /\ handling \in BusFrames /\ handling.program_id \in ProgramIds
      /\ owner \notin {"handler", "devices", "gone"}
      /\ handling' = NoFrame /\ owner' = owner
  BY FrameTyped DEF HandleGetValueResponse, Queue!Done, DeviceInv, ReaderInv,
                    DriverInv
<1> DEFINE p == handling.program_id
           own == KnownPrograms[p]
           data == handling.parameter
<1>2. \/ UNCHANGED mqttVars
      \/ /\ own \in Types
         /\ SetParameter(own, IndexedParameters(own, data.parameter_id),
                         data.index, p, handling.value)
      \/ /\ data.program_type \in Types
         /\ SetParameter(data.program_type,
                         Classes[data.program_type].Parameters,
                         data.parameter_id, p, handling.value)
  BY DEF HandleGetValueResponse, DeviceInv, ReaderInv
<1>3. DeviceIds' \in Seq(Device) /\ devices' = ToSet(DeviceIds')
  BY <1>1, <1>2, SetParameterKeeps DEF DeviceInv, DriverInv, mqttVars
<1>4. QED
  BY <1>1, <1>3 DEF DeviceInv, DriverInv

\* Every step keeps the record of the devices.
LEMMA DriverStep ==
  ASSUME DeviceInv, [Next]_vars
  PROVE  DriverInv'
<1>1. CASE Take \/ \E f \in BusFrames : Receive(f)
  BY <1>1 DEF Take, Receive, Queue!Offer, mqttVars, DeviceInv, DriverInv
<1>2. CASE AddProgram \/ AddRequests
  BY <1>2 DEF AddProgram, AddRequests, Queue!Done, mqttVars, DeviceInv,
              DriverInv
<1>3. CASE HandleGetValueResponse
  BY <1>3, ResponseKeeps
<1>4. CASE Poller \/ Driver \/ UNCHANGED vars
  BY <1>4 DEF Poller, SendRequest, RequestSent, Driver, CommandSent, SetControl,
              vars, readerVars, mqttVars, DeviceInv, DriverInv
<1>5. CASE StopScheduler \/ StopReader \/ RemoveEventHandler
  BY <1>5 DEF StopScheduler, StopReader, ReaderJoined, RemoveEventHandler,
              readerVars, mqttVars, DeviceInv, DriverInv
<1>6. CASE RemoveDevices
  <2>1. devices' = {}
    BY <1>6 DEF RemoveDevices, DeviceInv, DriverInv
  <2>2. QED
    BY <1>6, <2>1 DEF RemoveDevices, readerVars, DeviceInv, DriverInv
<1>7. QED
  BY <1>1, <1>2, <1>3, <1>4, <1>5, <1>6 DEF Next, Reader, Owner

\* The record of the devices is kept in every reachable state.
THEOREM DevicesRecorded == Spec => []DeviceInv
<1>1. DeviceInv /\ [Next]_vars => DeviceInv'
  BY ReaderStep, DriverStep DEF DeviceInv
<1>2. QED
  BY DeviceInit, <1>1, PTL DEF Spec

\* After the destructor no device of the gateway is left in the driver, whatever
\* programs answered meanwhile (~TSmartWebToMqttGateway).
THEOREM NothingIsLeft == Spec => []NothingLeftBehind
<1>1. DeviceInv => NothingLeftBehind
  BY DEF DeviceInv, DriverInv, NothingLeftBehind
<1>2. QED
  BY DevicesRecorded, <1>1, PTL

-----------------------------------------------------------------------------
\* The requests of a class.

RequestTo(p) == {r \in Request : r.program_id = p}

\* The tables of requests: for each program, and each class it may be of.
Tables ==
  {table \in [ProgramIds -> [Types -> Seq(Request)]] :
     \A p \in ProgramIds : \A t \in Types : table[p][t] \in Seq(RequestTo(p))}

\* The keys of a class's parameters are listed each in its place.
LEMMA IdsTyped ==
  ASSUME NEW t \in Types, NEW ps \in ParametersOf(t)
  PROVE  /\ Ids(ps) \in Seq(DOMAIN ps)
         /\ DOMAIN ps \in SUBSET Nat
<1>1. IsFiniteSet(DOMAIN ps) /\ DOMAIN ps \in SUBSET Nat
  BY GatewayAssumption
<1> DEFINE D == DOMAIN ps
           Named(i) == CHOOSE id \in D :
                         Cardinality({lower \in D : lower < id}) = i - 1
<1>2. Cardinality(D) \in Nat
  BY <1>1, FS_CardinalityType
<1>3. \A i \in 1 .. Cardinality(D) : Named(i) \in D
  <2> HIDE DEF D
  <2>1. \A i \in 1 .. Cardinality(D) : \E id \in D :
          Cardinality({lower \in D : lower < id}) = i - 1
    BY <1>1, Ranks DEF D
  <2>2. QED
    BY <2>1
<1>4. Ids(ps) = [i \in 1 .. Cardinality(D) |-> Named(i)]
  BY DEF Ids
<1>5. QED
  <2> HIDE DEF Named
  <2>1. [i \in 1 .. Cardinality(D) |-> Named(i)] \in [1 .. Cardinality(D) -> D]
    BY <1>3
  <2> HIDE DEF D
  <2>2. [i \in 1 .. Cardinality(D) |-> Named(i)] \in Seq(D)
    BY <1>2, <2>1
  <2>3. QED
    BY <1>1, <1>4, <2>2 DEF D

\* A class's own requests go to the program they are made for.
LEMMA OwnRequestsTyped ==
  ASSUME NEW p \in ProgramIds, NEW t \in Types
  PROVE  OwnRequests(p, t) \in Seq(RequestTo(p))
<1>1. /\ Classes[t].Inputs \in ParametersOf(t)
      /\ Classes[t].Outputs \in ParametersOf(t)
      /\ Classes[t].Parameters \in ParametersOf(t)
      /\ t \in Nat
  BY GatewayAssumption DEF ParametersOf
<1>2. ASSUME NEW ps \in ParametersOf(t), NEW kind \in Nat
      PROVE  IndexedRequests(p, kind, ps) \in Seq(RequestTo(p))
  <2>1. Ids(ps) \in Seq(Nat)
    BY IdsTyped
  <2>2. \A i \in DOMAIN Ids(ps) : Ids(ps)[i] \in Nat
    BY <2>1
  <2>3. QED
    BY <2>1, <2>2
       DEF IndexedRequests, RequestTo, Request, Parameter, PT_PROGRAM
<1>3. ASSUME NEW ps \in ParametersOf(t)
      PROVE  ParameterRequests(p, t, ps) \in Seq(RequestTo(p))
  <2>1. Ids(ps) \in Seq(Nat)
    BY IdsTyped
  <2>2. \A i \in DOMAIN Ids(ps) : Ids(ps)[i] \in Nat
    BY <2>1
  <2>3. QED
    BY <1>1, <2>1, <2>2 DEF ParameterRequests, RequestTo, Request, Parameter
<1>4. /\ IndexedRequests(p, SENSOR, Classes[t].Inputs) \in Seq(RequestTo(p))
      /\ IndexedRequests(p, OUTPUT, Classes[t].Outputs) \in Seq(RequestTo(p))
      /\ ParameterRequests(p, t, Classes[t].Parameters) \in Seq(RequestTo(p))
  BY <1>1, <1>2, <1>3 DEF SENSOR, OUTPUT
<1>5. QED
  BY <1>4 DEF OwnRequests

\* So do those of its ancestors.
LEMMA InheritedTyped ==
  ASSUME NEW table \in Tables, NEW p \in ProgramIds, NEW t \in Types
  PROVE  FlattenSeq([i \in DOMAIN Classes[t].ParentClasses |->
           OfClassNamed(Classes[t].ParentClasses[i], table[p])])
             \in Seq(RequestTo(p))
<1> DEFINE names == Classes[t].ParentClasses
           Of(name) == OfClassNamed(name, table[p])
<1>1. names \in Seq(STRING)
  BY GatewayAssumption
<1>2. ASSUME NEW name PROVE Of(name) \in Seq(RequestTo(p))
  <2>1. CASE \E u \in Types : Classes[u].Name = name
    <3>1. PICK u \in Types : u = CHOOSE v \in Types : Classes[v].Name = name
      BY <2>1
    <3>2. Of(name) = table[p][u]
      BY <2>1, <3>1 DEF OfClassNamed
    <3>3. QED
      BY <3>2 DEF Tables
  <2>2. CASE ~ \E u \in Types : Classes[u].Name = name
    <3>1. Of(name) = << >>
      BY <2>2 DEF OfClassNamed
    <3>2. QED
      BY <3>1
  <2>3. QED
    BY <2>1, <2>2
<1> HIDE DEF names, Of
<1>3. [i \in DOMAIN names |-> Of(names[i])] \in Seq(Seq(RequestTo(p)))
  BY <1>1, <1>2
<1>4. FlattenSeq([i \in DOMAIN names |-> Of(names[i])]) \in Seq(RequestTo(p))
  BY <1>3, FlattenTyped
<1>5. QED
  BY <1>4 DEF names, Of

\* The requests at depth 0, and those one generation further.
OwnTable ==
  [p \in ProgramIds |-> [t \in Types |-> OwnRequests(p, t) \o << >>]]

Deeper(table) ==
  [p \in ProgramIds |-> [t \in Types |->
     OwnRequests(p, t) \o
       FlattenSeq([i \in DOMAIN Classes[t].ParentClasses |->
         OfClassNamed(Classes[t].ParentClasses[i], table[p])])]]

\* The recursion through the classes has a value at every depth, and it is a
\* table of requests: the limit on the depth is all it takes.
LEMMA TableRecursion ==
  /\ Cardinality(Types) \in Nat
  /\ \A n \in 0 .. Cardinality(Types) : RequestsToDepth[n] \in Tables
  /\ RequestsToDepth[0] = OwnTable
  /\ \A n \in 1 .. Cardinality(Types) :
       RequestsToDepth[n] = Deeper(RequestsToDepth[n - 1])
<1> DEFINE N == Cardinality(Types)
           step == [n \in 1 .. N |-> [table \in Tables |-> Deeper(table)]]
<1>1. N \in Nat
  BY GatewayAssumption, FS_CardinalityType
<1>2. \A p \in ProgramIds : RequestTo(p) \subseteq Request
  BY DEF RequestTo
<1>3. ASSUME NEW table,
             \A p \in ProgramIds : \A t \in Types :
               table[p][t] \in Seq(RequestTo(p)),
             \A p \in ProgramIds : table[p] = [t \in Types |-> table[p][t]],
             table = [p \in ProgramIds |-> table[p]]
      PROVE  table \in Tables
  <2>1. \A p \in ProgramIds : \A t \in Types : table[p][t] \in Seq(Request)
    BY <1>2, <1>3
  <2>2. \A p \in ProgramIds : table[p] \in [Types -> Seq(Request)]
    BY <1>3, <2>1
  <2>3. QED
    BY <1>3, <2>2 DEF Tables
<1>4. OwnTable \in Tables
  <2>1. \A p \in ProgramIds : \A t \in Types :
          OwnRequests(p, t) \o << >> \in Seq(RequestTo(p))
    BY OwnRequestsTyped
  <2>2. QED
    BY <1>3, <2>1 DEF OwnTable
<1>5. ASSUME NEW table \in Tables PROVE Deeper(table) \in Tables
  <2>1. ASSUME NEW p \in ProgramIds, NEW t \in Types
        PROVE  Deeper(table)[p][t] \in Seq(RequestTo(p))
    <3> DEFINE own == OwnRequests(p, t)
               inherited ==
                 FlattenSeq([i \in DOMAIN Classes[t].ParentClasses |->
                   OfClassNamed(Classes[t].ParentClasses[i], table[p])])
    <3>1. own \in Seq(RequestTo(p)) /\ inherited \in Seq(RequestTo(p))
      BY OwnRequestsTyped, InheritedTyped
    <3>2. Deeper(table)[p][t] = own \o inherited
      BY DEF Deeper
    <3> HIDE DEF own, inherited
    <3>3. QED
      BY <3>1, <3>2
  <2> DEFINE deeper == Deeper(table)
  <2>2. /\ deeper = [p \in ProgramIds |-> deeper[p]]
        /\ \A p \in ProgramIds : deeper[p] = [t \in Types |-> deeper[p][t]]
    BY DEF Deeper
  <2>3. QED
    BY <1>3, <2>1, <2>2
<1>6. step \in Steps(Tables, N)
  BY <1>5 DEF Steps
<1>7. PICK g : IsRecursion(g, Tables, N, OwnTable, step)
  <2> HIDE DEF N, step
  <2>1. QED
    BY <1>1, <1>4, <1>6, Recursion
<1> DEFINE Body(f) ==
      [n \in 0 .. N |->
        [p \in ProgramIds |-> [t \in Types |->
           OwnRequests(p, t) \o
             IF n = 0 THEN << >>
             ELSE FlattenSeq([i \in DOMAIN Classes[t].ParentClasses |->
                    OfClassNamed(Classes[t].ParentClasses[i],
                                 f[n - 1][p])])]]]
<1>8. ASSUME NEW f, NEW n \in 0 .. N
      PROVE  Body(f)[n] = IF n = 0 THEN OwnTable ELSE Deeper(f[n - 1])
  BY DEF OwnTable, Deeper
<1>9. g = Body(g)
  <2>1. \A n \in 1 .. N : g[n - 1] \in Tables /\ g[n] = Deeper(g[n - 1])
    <3>1. \A n \in 1 .. N : n - 1 \in 0 .. N
      BY <1>1
    <3>2. QED
      BY <1>7, <3>1 DEF IsRecursion
  <2>2. g = [n \in 0 .. N |-> g[n]] /\ g[0] = OwnTable
    BY <1>7 DEF IsRecursion
  <2>3. ASSUME NEW n \in 0 .. N PROVE Body(g)[n] = g[n]
    <3> HIDE DEF Body
    <3>1. Body(g)[n] = IF n = 0 THEN OwnTable ELSE Deeper(g[n - 1])
      BY <1>8
    <3>2. CASE n = 0
      BY <2>2, <3>1, <3>2
    <3>3. CASE n # 0
      <4>1. n \in 1 .. N
        BY <1>1, <3>3
      <4>2. QED
        BY <2>1, <3>1, <3>3, <4>1
    <3>4. QED
      BY <3>2, <3>3
  <2>4. Body(g) = [n \in 0 .. N |-> Body(g)[n]]
    OBVIOUS
  <2> HIDE DEF Body
  <2>5. QED
    BY <2>2, <2>3, <2>4
<1>10. RequestsToDepth = CHOOSE f : f = Body(f)
  BY DEF RequestsToDepth
<1>11. RequestsToDepth = Body(RequestsToDepth)
  <2> HIDE DEF Body
  <2>1. QED
    BY <1>9, <1>10
<1>12. ASSUME NEW n \in 0 .. N
       PROVE  RequestsToDepth[n] = IF n = 0 THEN OwnTable
                                   ELSE Deeper(RequestsToDepth[n - 1])
  <2> HIDE DEF Body
  <2>1. QED
    BY <1>8, <1>11
<1> DEFINE S == {n \in Nat : n <= N => RequestsToDepth[n] \in Tables}
<1>13. \A n \in Nat : n \in S
  <2> HIDE DEF N
  <2>1. 0 \in S
    BY <1>1, <1>4, <1>12
  <2>2. ASSUME NEW n \in Nat, n \in S PROVE n + 1 \in S
    <3> SUFFICES ASSUME n + 1 <= N PROVE RequestsToDepth[n + 1] \in Tables
      OBVIOUS
    <3>1. n + 1 \in 0 .. N /\ n + 1 # 0 /\ (n + 1) - 1 = n
          /\ RequestsToDepth[n] \in Tables
      BY <1>1, <2>2
    <3>2. QED
      BY <1>5, <1>12, <3>1
  <2> HIDE DEF S
  <2>3. QED
    BY <2>1, <2>2, Induction
<1>14. QED
  BY <1>1, <1>12, <1>13

\* What a program is asked for goes to that program.
LEMMA TableTyped ==
  \A p \in ProgramIds : \A t \in Types : RequestsOf(p, t) \in Seq(RequestTo(p))
<1>1. RequestTable \in Tables
  BY TableRecursion DEF RequestTable
<1>2. QED
  BY <1>1 DEF RequestsOf, Tables

-----------------------------------------------------------------------------
\* What the recursion through the classes amounts to.

\* The parameters a class describes itself.
DescribedBy(t) ==
  {[program_type |-> PT_PROGRAM, parameter_id |-> SENSOR, index |-> id] :
     id \in DOMAIN Classes[t].Inputs}
  \cup
  {[program_type |-> PT_PROGRAM, parameter_id |-> OUTPUT, index |-> id] :
     id \in DOMAIN Classes[t].Outputs}
  \cup
  {[program_type |-> t, parameter_id |-> id, index |-> 0] :
     id \in DOMAIN Classes[t].Parameters}

RequestFor(p, data) == [program_id |-> p, parameter |-> data]

\* No key of a class's parameters is left out: its rank is its place.
LEMMA IdsComplete ==
  ASSUME NEW t \in Types, NEW ps \in ParametersOf(t)
  PROVE  ToSet(Ids(ps)) = DOMAIN ps
<1> DEFINE D == DOMAIN ps
           Lower(id) == {lower \in D : lower < id}
           Named(i) == CHOOSE id \in D : Cardinality(Lower(id)) = i - 1
<1>1. IsFiniteSet(D) /\ D \in SUBSET Nat /\ Ids(ps) \in Seq(D)
  BY IdsTyped, GatewayAssumption
<1>2. Cardinality(D) \in Nat
  BY <1>1, FS_CardinalityType
<1>3. ASSUME NEW id \in D
      PROVE  /\ IsFiniteSet(Lower(id)) /\ Cardinality(Lower(id)) \in Nat
             /\ Cardinality(Lower(id)) < Cardinality(D)
  <2>1. Lower(id) \in SUBSET D /\ id \notin Lower(id)
    BY <1>1
  <2> HIDE DEF Lower, D
  <2>2. IsFiniteSet(Lower(id)) /\ Cardinality(Lower(id)) <= Cardinality(D)
        /\ Cardinality(Lower(id)) # Cardinality(D)
    BY <1>1, <2>1, FS_Subset
  <2>3. Cardinality(Lower(id)) \in Nat
    BY <2>2, FS_CardinalityType
  <2>4. QED
    BY <1>2, <2>2, <2>3
<1>4. ASSUME NEW a \in D, NEW b \in D, a < b
      PROVE  Cardinality(Lower(a)) # Cardinality(Lower(b))
  <2>1. Lower(a) \in SUBSET Lower(b) /\ a \in Lower(b) /\ a \notin Lower(a)
    BY <1>1, <1>4
  <2>2. IsFiniteSet(Lower(b))
    BY <1>3
  <2> HIDE DEF Lower, D
  <2>3. QED
    BY <2>1, <2>2, FS_Subset
<1>5. ASSUME NEW id \in D PROVE id \in ToSet(Ids(ps))
  <2> DEFINE i == Cardinality(Lower(id)) + 1
  <2>1. i \in 1 .. Cardinality(D) /\ Cardinality(Lower(id)) = i - 1
    BY <1>2, <1>3
  <2>2. Ids(ps) = [k \in 1 .. Cardinality(D) |-> Named(k)]
    BY DEF Ids
  <2>3. \A a \in D : Cardinality(Lower(a)) = i - 1 => a = id
    <3>1. \A a \in D : a < id \/ id < a \/ a = id
      BY <1>1
    <3> HIDE DEF Lower, D
    <3>2. QED
      BY <1>4, <2>1, <3>1
  <2> HIDE DEF Lower, D, i
  <2>4. Named(i) = id
    BY <2>1, <2>3
  <2> HIDE DEF Named
  <2>5. i \in DOMAIN Ids(ps) /\ Ids(ps)[i] = id
    BY <2>1, <2>2, <2>4
  <2>6. QED
    BY <2>5 DEF ToSet
<1>6. \A i \in DOMAIN Ids(ps) : Ids(ps)[i] \in D
  <2> HIDE DEF D
  <2>1. QED
    BY <1>1
<1>7. ToSet(Ids(ps)) \subseteq D
  BY <1>6 DEF ToSet
<1>8. QED
  BY <1>5, <1>7

\* A class's own requests are for the parameters it describes itself.
LEMMA OwnMembers ==
  ASSUME NEW p \in ProgramIds, NEW t \in Types
  PROVE  ToSet(OwnRequests(p, t))
           = {RequestFor(p, data) : data \in DescribedBy(t)}
<1> DEFINE ins == Classes[t].Inputs
           outs == Classes[t].Outputs
           params == Classes[t].Parameters
           a == IndexedRequests(p, SENSOR, ins)
           b == IndexedRequests(p, OUTPUT, outs)
           c == ParameterRequests(p, t, params)
<1>1. {ins, outs, params} = ParametersOf(t)
  BY DEF ParametersOf
<1>2. ASSUME NEW ps \in ParametersOf(t)
      PROVE  /\ \A id : id \in DOMAIN ps <=>
                  \E i \in DOMAIN Ids(ps) : id = Ids(ps)[i]
             /\ Ids(ps) \in Seq(Nat)
  <2>1. ToSet(Ids(ps)) = DOMAIN ps
    BY IdsComplete
  <2>2. Ids(ps) \in Seq(Nat)
    BY IdsTyped
  <2>3. \A id : id \in ToSet(Ids(ps)) <=>
                  \E i \in DOMAIN Ids(ps) : id = Ids(ps)[i]
    BY DEF ToSet
  <2>4. QED
    BY <2>1, <2>2, <2>3
<1>3. ASSUME NEW ps \in ParametersOf(t), NEW kind
      PROVE  /\ ToSet(IndexedRequests(p, kind, ps)) =
                  {RequestFor(p, [program_type |-> PT_PROGRAM,
                                  parameter_id |-> kind, index |-> id]) :
                     id \in DOMAIN ps}
             /\ IndexedRequests(p, kind, ps)
                  \in Seq(ToSet(IndexedRequests(p, kind, ps)))
  BY <1>2 DEF IndexedRequests, ToSet, RequestFor
<1>4. ASSUME NEW ps \in ParametersOf(t)
      PROVE  /\ ToSet(ParameterRequests(p, t, ps)) =
                  {RequestFor(p, [program_type |-> t, parameter_id |-> id,
                                  index |-> 0]) : id \in DOMAIN ps}
             /\ ParameterRequests(p, t, ps)
                  \in Seq(ToSet(ParameterRequests(p, t, ps)))
  BY <1>2 DEF ParameterRequests, ToSet, RequestFor
<1>5. ToSet(OwnRequests(p, t)) = ToSet(a) \cup ToSet(b) \cup ToSet(c)
  <2> DEFINE All == ToSet(a) \cup ToSet(b) \cup ToSet(c)
  <2>1. a \in Seq(ToSet(a)) /\ b \in Seq(ToSet(b)) /\ c \in Seq(ToSet(c))
    BY <1>1, <1>3, <1>4
  <2> HIDE DEF a, b, c
  <2>2. a \in Seq(All) /\ b \in Seq(All) /\ c \in Seq(All)
    BY <2>1
  <2> HIDE DEF All
  <2> DEFINE ab == a \o b
  <2>3. ab \in Seq(All) /\ ToSet(ab) = ToSet(a) \cup ToSet(b)
    BY <2>2, ConcatMembers
  <2>4. ToSet(ab \o c) = ToSet(ab) \cup ToSet(c)
    <3> HIDE DEF ab
    <3>1. QED
      BY <2>2, <2>3, ConcatMembers
  <2>5. OwnRequests(p, t) = (a \o b) \o c
    BY DEF OwnRequests, a, b, c
  <2>6. QED
    BY <2>3, <2>4, <2>5
<1>6. /\ ToSet(a) = {RequestFor(p, [program_type |-> PT_PROGRAM,
                       parameter_id |-> SENSOR, index |-> id]) :
                       id \in DOMAIN ins}
      /\ ToSet(b) = {RequestFor(p, [program_type |-> PT_PROGRAM,
                       parameter_id |-> OUTPUT, index |-> id]) :
                       id \in DOMAIN outs}
      /\ ToSet(c) = {RequestFor(p, [program_type |-> t, parameter_id |-> id,
                       index |-> 0]) : id \in DOMAIN params}
  <2>1. ins \in ParametersOf(t) /\ outs \in ParametersOf(t)
        /\ params \in ParametersOf(t)
    BY <1>1
  <2> HIDE DEF ins, outs, params
  <2>2. ToSet(a) = {RequestFor(p, [program_type |-> PT_PROGRAM,
                       parameter_id |-> SENSOR, index |-> id]) :
                       id \in DOMAIN ins}
    BY <1>3, <2>1
  <2>3. ToSet(b) = {RequestFor(p, [program_type |-> PT_PROGRAM,
                       parameter_id |-> OUTPUT, index |-> id]) :
                       id \in DOMAIN outs}
    BY <1>3, <2>1
  <2>4. ToSet(c) = {RequestFor(p, [program_type |-> t, parameter_id |-> id,
                       index |-> 0]) : id \in DOMAIN params}
    BY <1>4, <2>1
  <2>5. QED
    BY <2>2, <2>3, <2>4
<1> HIDE DEF a, b, c
<1> DEFINE fromInputs == {[program_type |-> PT_PROGRAM,
                           parameter_id |-> SENSOR, index |-> id] :
                            id \in DOMAIN ins}
           fromOutputs == {[program_type |-> PT_PROGRAM,
                            parameter_id |-> OUTPUT, index |-> id] :
                             id \in DOMAIN outs}
           fromOwn == {[program_type |-> t, parameter_id |-> id,
                        index |-> 0] : id \in DOMAIN params}
<1>7. /\ ToSet(a) = {RequestFor(p, data) : data \in fromInputs}
      /\ ToSet(b) = {RequestFor(p, data) : data \in fromOutputs}
      /\ ToSet(c) = {RequestFor(p, data) : data \in fromOwn}
  <2> HIDE DEF ins, outs, params
  <2>1. ToSet(a) = {RequestFor(p, data) : data \in fromInputs}
    BY <1>6
  <2>2. ToSet(b) = {RequestFor(p, data) : data \in fromOutputs}
    BY <1>6
  <2>3. ToSet(c) = {RequestFor(p, data) : data \in fromOwn}
    BY <1>6
  <2>4. QED
    BY <2>1, <2>2, <2>3
<1>8. DescribedBy(t) = fromInputs \cup fromOutputs \cup fromOwn
  BY DEF DescribedBy
<1> HIDE DEF fromInputs, fromOutputs, fromOwn
<1>9. QED
  BY <1>5, <1>7, <1>8

\* The generations of a class: the classes at most so many steps above it.
IsLineage(up, t) ==
  /\ up \in [0 .. Cardinality(Types) -> SUBSET Types] /\ up[0] = {t}
  /\ \A n \in 1 .. Cardinality(Types) :
       up[n] = up[n - 1] \cup UNION {Parents(u) : u \in up[n - 1]}

Up(t) == CHOOSE up : IsLineage(up, t) /\ Lineage(t) = up[Cardinality(Types)]

\* The recursion of Lineage has a value at every depth.
LEMMA LineageRecursion ==
  ASSUME NEW t \in Types
  PROVE  IsLineage(Up(t), t) /\ Lineage(t) = Up(t)[Cardinality(Types)]
<1> DEFINE N == Cardinality(Types)
           T == SUBSET Types
           Above(v) == v \cup UNION {Parents(u) : u \in v}
           step == [n \in 1 .. N |-> [v \in T |-> Above(v)]]
           Body(f) == [n \in 0 .. N |->
                         IF n = 0 THEN {t}
                         ELSE f[n - 1] \cup UNION {Parents(u) : u \in f[n - 1]}]
           up == CHOOSE f : f = Body(f)
<1>1. N \in Nat
  BY TableRecursion
<1>2. \A v \in T : Above(v) \in T
  BY DEF Parents
<1>3. step \in Steps(T, N)
  BY <1>2 DEF Steps
<1>4. {t} \in T
  OBVIOUS
<1>5. PICK g : IsRecursion(g, T, N, {t}, step)
  <2> HIDE DEF N, T, step
  <2>1. QED
    BY <1>1, <1>3, <1>4, Recursion
<1>6. ASSUME NEW f, NEW n \in 0 .. N
      PROVE  Body(f)[n] = IF n = 0 THEN {t} ELSE Above(f[n - 1])
  OBVIOUS
<1>7. g \in [0 .. N -> T] /\ g[0] = {t}
  BY <1>5 DEF IsRecursion
<1>8. ASSUME NEW n \in 1 .. N PROVE g[n] = Above(g[n - 1])
  <2>1. n - 1 \in 0 .. N
    BY <1>1
  <2>2. g[n - 1] \in T
    BY <1>7, <2>1
  <2> HIDE DEF Above, T, N
  <2>3. QED
    BY <1>5, <2>2 DEF IsRecursion
<1>9. g = Body(g)
  <2>1. Body(g) = [n \in 0 .. N |-> Body(g)[n]]
    OBVIOUS
  <2>2. ASSUME NEW n \in 0 .. N PROVE Body(g)[n] = g[n]
    <3> HIDE DEF Body, Above
    <3>1. CASE n = 0
      BY <1>6, <1>7, <3>1
    <3>2. CASE n # 0
      <4>1. n \in 1 .. N
        BY <1>1, <3>2
      <4>2. QED
        BY <1>6, <1>8, <3>2, <4>1
    <3>3. QED
      BY <3>1, <3>2
  <2>3. g = [n \in 0 .. N |-> g[n]]
    BY <1>7
  <2> HIDE DEF Body
  <2>4. QED
    BY <2>1, <2>2, <2>3
<1>10. up = Body(up)
  <2> HIDE DEF Body
  <2>1. QED
    BY <1>9
<1>11. up = [n \in 0 .. N |-> up[n]]
  <2> HIDE DEF up
  <2>1. Body(up) = [n \in 0 .. N |-> Body(up)[n]]
    OBVIOUS
  <2> HIDE DEF Body
  <2>2. QED
    BY <1>10, <2>1
<1>12. ASSUME NEW n \in 0 .. N
       PROVE  up[n] = IF n = 0 THEN {t} ELSE Above(up[n - 1])
  <2> HIDE DEF Body, Above, up
  <2>1. QED
    BY <1>6, <1>10
<1>13. Lineage(t) = up[N]
  BY DEF Lineage
<1> HIDE DEF up, Body
<1> DEFINE S == {n \in Nat : n <= N => up[n] \in T}
<1>14. \A n \in Nat : n \in S
  <2> HIDE DEF N, T, Above
  <2>1. 0 \in S
    <3>1. 0 \in 0 .. N
      BY <1>1
    <3>2. QED
      BY <1>4, <1>12, <3>1
  <2>2. ASSUME NEW n \in Nat, n \in S PROVE n + 1 \in S
    <3> SUFFICES ASSUME n + 1 <= N PROVE up[n + 1] \in T
      OBVIOUS
    <3>1. n + 1 \in 0 .. N /\ n + 1 # 0 /\ (n + 1) - 1 = n /\ up[n] \in T
      BY <1>1, <2>2
    <3>2. QED
      BY <1>2, <1>12, <3>1
  <2> HIDE DEF S
  <2>3. QED
    BY <2>1, <2>2, Induction
<1>15. IsLineage(up, t)
  <2>1. \A n \in 0 .. N : up[n] \in T
    BY <1>1, <1>14
  <2>2. up \in [0 .. N -> T]
    <3> HIDE DEF T, N
    <3>1. QED
      BY <1>11, <2>1
  <2>3. up[0] = {t}
    <3>1. 0 \in 0 .. N
      BY <1>1
    <3> HIDE DEF N
    <3>2. QED
      BY <1>12, <3>1
  <2>4. \A n \in 1 .. N : up[n] = Above(up[n - 1])
    <3>1. \A n \in 1 .. N : n \in 0 .. N /\ n # 0
      BY <1>1
    <3> HIDE DEF Above, N
    <3>2. QED
      BY <1>12, <3>1
  <2>5. QED
    BY <2>2, <2>3, <2>4 DEF IsLineage
<1>16. QED
  BY <1>13, <1>15 DEF Up

\* One generation more is one generation more of every parent.
LEMMA LineageUnrolled ==
  ASSUME NEW n \in Nat, n + 1 <= Cardinality(Types), NEW t \in Types
  PROVE  Up(t)[n + 1] = {t} \cup UNION {Up(v)[n] : v \in Parents(t)}
<1> DEFINE N == Cardinality(Types)
           S == {m \in Nat : m + 1 <= N => \A c \in Types :
                   Up(c)[m + 1] = {c} \cup UNION {Up(v)[m] : v \in Parents(c)}}
<1>1. N \in Nat
  BY TableRecursion
<1>2. \A c \in Types : /\ Up(c)[0] = {c}
                       /\ \A m \in 1 .. N : Up(c)[m] = Up(c)[m - 1] \cup
                            UNION {Parents(u) : u \in Up(c)[m - 1]}
  BY LineageRecursion DEF IsLineage
<1>3. \A c \in Types : Parents(c) \subseteq Types
  BY DEF Parents
<1> HIDE DEF N
<1>4. 0 \in S
  <2> SUFFICES ASSUME 1 <= N, NEW c \in Types
               PROVE  Up(c)[1] = {c} \cup UNION {Up(v)[0] : v \in Parents(c)}
    OBVIOUS
  <2>1. 1 \in 1 .. N /\ 1 - 1 = 0
    BY <1>1
  <2>2. Up(c)[1] = {c} \cup Parents(c)
    BY <1>2, <2>1
  <2>3. \A v \in Parents(c) : Up(v)[0] = {v}
    BY <1>2, <1>3
  <2>4. QED
    BY <2>2, <2>3
<1>5. ASSUME NEW m \in Nat, m \in S PROVE m + 1 \in S
  <2> SUFFICES ASSUME (m + 1) + 1 <= N, NEW c \in Types
               PROVE  Up(c)[(m + 1) + 1]
                        = {c} \cup UNION {Up(v)[m + 1] : v \in Parents(c)}
    OBVIOUS
  <2>1. /\ m + 1 \in 1 .. N /\ (m + 1) - 1 = m
        /\ (m + 1) + 1 \in 1 .. N /\ ((m + 1) + 1) - 1 = m + 1
    BY <1>1
  <2>2. Up(c)[m + 1] = {c} \cup UNION {Up(v)[m] : v \in Parents(c)}
    BY <1>5, <2>1
  <2>3. Up(c)[(m + 1) + 1] = Up(c)[m + 1] \cup
                               UNION {Parents(u) : u \in Up(c)[m + 1]}
    BY <1>2, <2>1
  <2>4. \A v \in Parents(c) : Up(v)[m + 1] = Up(v)[m] \cup
                                UNION {Parents(u) : u \in Up(v)[m]}
    BY <1>2, <1>3, <2>1
  <2>5. \A v \in Parents(c) : v \in Up(v)[m + 1]
    BY <1>3, <1>5, <2>1
  <2>6. QED
    BY <2>2, <2>3, <2>4, <2>5
<1>6. n \in S
  <2> HIDE DEF S
  <2>1. QED
    BY <1>4, <1>5, Induction
<1>7. QED
  BY <1>6 DEF N

\* What a class inherits is what its parents have, each named or not.
LEMMA InheritedMembers ==
  ASSUME NEW table \in Tables, NEW p \in ProgramIds, NEW t \in Types
  PROVE  ToSet(FlattenSeq([i \in DOMAIN Classes[t].ParentClasses |->
           OfClassNamed(Classes[t].ParentClasses[i], table[p])]))
             = UNION {ToSet(table[p][v]) : v \in Parents(t)}
<1> DEFINE names == Classes[t].ParentClasses
           Of(name) == OfClassNamed(name, table[p])
           all == [i \in DOMAIN names |-> Of(names[i])]
<1>1. names \in Seq(STRING) /\ DOMAIN names = 1 .. Len(names)
      /\ Len(names) \in Nat
  BY GatewayAssumption
<1>2. ASSUME NEW v \in Types PROVE Of(Classes[v].Name) = table[p][v]
  <2>1. \A u \in Types : Classes[u].Name = Classes[v].Name => u = v
    BY GatewayAssumption
  <2>2. (CHOOSE u \in Types : Classes[u].Name = Classes[v].Name) = v
    BY <2>1
  <2>3. QED
    BY <2>2 DEF OfClassNamed
<1>3. ASSUME NEW name, \A v \in Types : Classes[v].Name # name
      PROVE  Of(name) = << >>
  BY <1>3 DEF OfClassNamed
<1>4. \A v \in Types : table[p][v] \in Seq(Request)
  BY DEF Tables
<1> HIDE DEF Of
<1>5. ASSUME NEW name PROVE Of(name) \in Seq(Request)
  <2>1. CASE \E v \in Types : Classes[v].Name = name
    BY <1>2, <1>4, <2>1
  <2>2. CASE \A v \in Types : Classes[v].Name # name
    <3>1. << >> \in Seq(Request)
      OBVIOUS
    <3>2. QED
      BY <1>3, <2>2, <3>1
  <2>3. QED
    BY <2>1, <2>2
<1>6. \A v : v \in Parents(t) <=>
        v \in Types /\ \E i \in 1 .. Len(names) : names[i] = Classes[v].Name
  BY <1>1 DEF Parents, ToSet
<1> HIDE DEF names
<1>7. all \in Seq(Seq(Request)) /\ Len(all) = Len(names)
      /\ \A i \in 1 .. Len(names) : all[i] = Of(names[i])
  BY <1>1, <1>5
<1> HIDE DEF all
<1>8. ToSet(FlattenSeq(all)) = UNION {ToSet(all[i]) : i \in 1 .. Len(names)}
  BY <1>7, FlattenMembers
<1>9. ASSUME NEW i \in 1 .. Len(names), NEW r \in ToSet(all[i])
      PROVE  \E v \in Parents(t) : r \in ToSet(table[p][v])
  <2>1. all[i] = Of(names[i]) /\ ToSet(<< >>) = {}
    BY <1>7 DEF ToSet
  <2>2. PICK v \in Types : Classes[v].Name = names[i]
    BY <1>3, <1>9, <2>1
  <2>3. QED
    BY <1>2, <1>6, <2>1, <2>2
<1>10. ASSUME NEW v \in Parents(t)
       PROVE  \E i \in 1 .. Len(names) : all[i] = table[p][v]
  <2>1. PICK i \in 1 .. Len(names) : names[i] = Classes[v].Name /\ v \in Types
    BY <1>6
  <2>2. all[i] = table[p][v]
    BY <1>2, <1>7, <2>1
  <2>3. QED
    BY <2>2
<1>11. UNION {ToSet(all[i]) : i \in 1 .. Len(names)}
         = UNION {ToSet(table[p][v]) : v \in Parents(t)}
  BY <1>9, <1>10
<1>12. QED
  BY <1>8, <1>11 DEF all, names, Of

\* So the requests at a depth are those of so many generations.
LEMMA TableIsLineage ==
  ASSUME NEW p \in ProgramIds
  PROVE  \A n \in Nat : n <= Cardinality(Types) => \A t \in Types :
           ToSet(RequestsToDepth[n][p][t])
             = UNION {ToSet(OwnRequests(p, u)) : u \in Up(t)[n]}
<1> DEFINE N == Cardinality(Types)
           Own(u) == ToSet(OwnRequests(p, u))
           S == {n \in Nat : n <= N => \A t \in Types :
                   ToSet(RequestsToDepth[n][p][t])
                     = UNION {Own(u) : u \in Up(t)[n]}}
<1>1. N \in Nat
  BY TableRecursion
<1>2. \A t \in Types : OwnRequests(p, t) \in Seq(Request)
  <2>1. RequestTo(p) \subseteq Request
    BY DEF RequestTo
  <2>2. QED
    BY <2>1, OwnRequestsTyped
<1> HIDE DEF N
<1>3. 0 \in S
  <2> SUFFICES ASSUME NEW t \in Types
               PROVE  ToSet(RequestsToDepth[0][p][t])
                        = UNION {Own(u) : u \in Up(t)[0]}
    OBVIOUS
  <2>1. RequestsToDepth[0][p][t] = OwnRequests(p, t) \o << >>
    BY TableRecursion DEF OwnTable
  <2>2. OwnRequests(p, t) \o << >> = OwnRequests(p, t)
    BY <1>2, ConcatEmptySeq
  <2>3. Up(t)[0] = {t}
    BY LineageRecursion DEF IsLineage
  <2>4. QED
    BY <2>1, <2>2, <2>3
<1>4. ASSUME NEW n \in Nat, n \in S PROVE n + 1 \in S
  <2> SUFFICES ASSUME n + 1 <= N, NEW t \in Types
               PROVE  ToSet(RequestsToDepth[n + 1][p][t])
                        = UNION {Own(u) : u \in Up(t)[n + 1]}
    OBVIOUS
  <2> DEFINE table == RequestsToDepth[n]
             inherited ==
               FlattenSeq([i \in DOMAIN Classes[t].ParentClasses |->
                 OfClassNamed(Classes[t].ParentClasses[i], table[p])])
  <2>1. n \in 0 .. N /\ n + 1 \in 1 .. N /\ (n + 1) - 1 = n /\ n <= N
    BY <1>1
  <2>2. table \in Tables /\ RequestsToDepth[n + 1] = Deeper(table)
    BY <2>1, TableRecursion DEF N
  <2> HIDE DEF table
  <2>3. RequestsToDepth[n + 1][p][t] = OwnRequests(p, t) \o inherited
    BY <2>2 DEF Deeper
  <2>4. inherited \in Seq(Request)
    <3>1. RequestTo(p) \subseteq Request
      BY DEF RequestTo
    <3>2. inherited \in Seq(RequestTo(p))
      BY <2>2, InheritedTyped
    <3> HIDE DEF inherited
    <3>3. QED
      BY <3>1, <3>2
  <2>5. ToSet(inherited) = UNION {ToSet(table[p][v]) : v \in Parents(t)}
    BY <2>2, InheritedMembers
  <2> HIDE DEF inherited
  <2>6. ToSet(OwnRequests(p, t) \o inherited) = Own(t) \cup ToSet(inherited)
    BY <1>2, <2>4, ConcatMembers
  <2>7. \A v \in Parents(t) :
          ToSet(table[p][v]) = UNION {Own(u) : u \in Up(v)[n]}
    BY <1>4, <2>1 DEF Parents, table
  <2>8. Up(t)[n + 1] = {t} \cup UNION {Up(v)[n] : v \in Parents(t)}
    BY LineageUnrolled DEF N
  <2> DEFINE generation == Up(t)[n + 1]
  <2>9. ToSet(RequestsToDepth[n + 1][p][t])
          = Own(t) \cup UNION {ToSet(table[p][v]) : v \in Parents(t)}
    BY <2>3, <2>5, <2>6
  <2> HIDE DEF Own
  <2>10. UNION {ToSet(table[p][v]) : v \in Parents(t)}
           = UNION {Own(u) : u \in UNION {Up(v)[n] : v \in Parents(t)}}
    BY <2>7
  <2>11. Own(t) \cup UNION {Own(u) : u \in UNION {Up(v)[n] : v \in Parents(t)}}
           = UNION {Own(u) : u \in generation}
    BY <2>8
  <2>12. QED
    BY <2>9, <2>10, <2>11
<1>5. \A n \in Nat : n \in S
  <2> HIDE DEF S
  <2>1. QED
    BY <1>3, <1>4, Induction
<1>6. QED
  BY <1>5 DEF N

\* The requests AddRequests makes for a program of a class, by its recursion
\* through the names of parent classes, are those for what the class and its
\* ancestors describe: none is missing and no other is made.
THEOREM RequestsAreDescribed ==
  ASSUME NEW p \in ProgramIds, NEW t \in Types
  PROVE  ToSet(RequestsOf(p, t))
           = {RequestFor(p, data) :
                data \in UNION {DescribedBy(u) : u \in Lineage(t)}}
<1> DEFINE N == Cardinality(Types)
<1>1. N \in Nat /\ N <= N
  BY TableRecursion
<1>2. ToSet(RequestsOf(p, t))
        = UNION {ToSet(OwnRequests(p, u)) : u \in Up(t)[N]}
  BY <1>1, TableIsLineage DEF RequestsOf, RequestTable
<1>3. Lineage(t) = Up(t)[N] /\ Up(t)[N] \subseteq Types
  BY <1>1, LineageRecursion DEF IsLineage
<1>4. \A u \in Lineage(t) : ToSet(OwnRequests(p, u))
        = {RequestFor(p, data) : data \in DescribedBy(u)}
  BY <1>3, OwnMembers
<1> HIDE DEF N
<1>5. QED
  BY <1>2, <1>3, <1>4

-----------------------------------------------------------------------------
\* Polling.

\* While a request is being sent the index is short of the end, so that it may
\* be advanced outside the mutex: others only append.
PollInv ==
  /\ Requests \in Seq(Request)
  /\ RequestIndex \in 0 .. Len(Requests)
  /\ polling \in Request \cup {NoRequest}
  /\ polling # NoRequest => RequestIndex < Len(Requests)
  /\ adding => IsProgram /\ handling.type \in Types

\* Polling starts with no requests.
LEMMA PollInit == Init => PollInv
BY DEF Init, PollInv

\* Every step keeps the index within the list.
LEMMA PollStep ==
  ASSUME DeviceInv, PollInv, [Next]_vars
  PROVE  PollInv'
<1>1. CASE AddRequests
  <2>1. handling.program_id \in ProgramIds /\ handling.type \in Types
    BY <1>1, FrameTyped
       DEF AddRequests, IsProgram, DeviceInv, ReaderInv, PollInv
  <2> DEFINE more == RequestsOf(handling.program_id, handling.type)
  <2>2. more \in Seq(Request)
    <3>1. more \in Seq(RequestTo(handling.program_id))
      BY <2>1, TableTyped
    <3> HIDE DEF more
    <3>2. RequestTo(handling.program_id) \subseteq Request
      BY DEF RequestTo
    <3>3. QED
      BY <3>1, <3>2
  <2>3. Requests' = Requests \o more /\ Requests \in Seq(Request)
        /\ more \in Seq(Request)
    BY <1>1, <2>2 DEF AddRequests, PollInv
  <2> HIDE DEF more
  <2>4. Requests' \in Seq(Request) /\ Len(Requests') >= Len(Requests)
    BY <2>3
  <2>5. QED
    BY <1>1, <2>3, <2>4 DEF AddRequests, pollVars, PollInv
<1>2. CASE AddProgram
  BY <1>2 DEF AddProgram, IsNewProgram, IsProgram, Queue!Done, pollVars,
              PollInv
<1>3. CASE SendRequest
  <2>1. /\ Requests \in Seq(Request) /\ Requests # << >>
        /\ RequestIndex' = Wrapped(RequestIndex)
    BY <1>3 DEF SendRequest, PollInv
  <2>2. RequestIndex' \in 0 .. Len(Requests) /\ RequestIndex' < Len(Requests)
    BY <2>1 DEF Wrapped, PollInv
  <2>3. Requests[RequestIndex' + 1] \in Request
    BY <2>1, <2>2
  <2>4. polling' \in Request
    BY <1>3, <2>2, <2>3 DEF SendRequest
  <2>5. QED
    BY <1>3, <2>2, <2>4 DEF SendRequest, readerVars, PollInv, IsProgram
<1>4. CASE RequestSent
  BY <1>4 DEF RequestSent, readerVars, PollInv, IsProgram
<1>5. CASE Take \/ HandleGetValueResponse
  <2>1. ~adding /\ UNCHANGED <<adding, Requests, RequestIndex, polling>>
    BY <1>5 DEF HandleGetValueResponse, Take, Queue!Take, pollVars, PollInv,
                IsProgram
  <2>2. QED
    BY <2>1 DEF PollInv
<1>6. CASE Driver \/ Owner \/ UNCHANGED vars \/ \E f \in BusFrames : Receive(f)
  BY <1>6 DEF Driver, CommandSent, SetControl, Owner, StopScheduler, StopReader,
              RemoveEventHandler, RemoveDevices, Receive, Queue!Offer, vars,
              readerVars, pollVars, PollInv, IsProgram
<1>7. QED
  BY <1>1, <1>2, <1>3, <1>4, <1>5, <1>6 DEF Next, Reader, Poller

\* The index is within the list in every reachable state.
THEOREM PollingKept == Spec => []PollInv
<1>1. DeviceInv /\ PollInv /\ [Next]_vars => PollInv'
  BY PollStep
<1>2. QED
  BY DevicesRecorded, PollInit, <1>1, PTL DEF Spec

\* The poller never reads past the end of its list (HandleMapping).
THEOREM PollingInBounds == Spec => []PolledInBounds
<1>1. PollInv => PolledInBounds
  BY GatewayAssumption DEF PollInv, PolledInBounds
<1>2. QED
  BY PollingKept, <1>1, PTL

-----------------------------------------------------------------------------
\* What a program is polled for.

\* RequestsFor, of any sequence of requests, and the function it ends.
For(s, p) ==
  LET among[n \in 0 .. Len(s)] ==
        IF n = 0 THEN << >>
        ELSE IF s[n].program_id = p THEN Append(among[n - 1], s[n])
        ELSE among[n - 1]
  IN among[Len(s)]

IsAmong(f, s, p) ==
  /\ f \in [0 .. Len(s) -> Seq(Request)] /\ f[0] = << >>
  /\ \A n \in 1 .. Len(s) :
       f[n] = IF s[n].program_id = p THEN Append(f[n - 1], s[n]) ELSE f[n - 1]

\* The recursion through a sequence has a value at every length.
LEMMA ForRecursion ==
  ASSUME NEW s \in Seq(Request), NEW p
  PROVE  \E f : IsAmong(f, s, p) /\ For(s, p) = f[Len(s)]
<1> DEFINE N == Len(s)
           T == Seq(Request)
           Next1(n, v) == IF s[n].program_id = p THEN Append(v, s[n]) ELSE v
           step == [n \in 1 .. N |-> [v \in T |-> Next1(n, v)]]
           Body(f) == [n \in 0 .. N |->
                         IF n = 0 THEN << >>
                         ELSE IF s[n].program_id = p
                              THEN Append(f[n - 1], s[n])
                         ELSE f[n - 1]]
           among == CHOOSE f : f = Body(f)
<1>1. N \in Nat /\ << >> \in T
  OBVIOUS
<1>2. step \in Steps(T, N)
  <2>1. \A n \in 1 .. N : s[n] \in Request
    OBVIOUS
  <2>2. \A n \in 1 .. N : \A v \in T : Next1(n, v) \in T
    BY <2>1
  <2> HIDE DEF Next1
  <2>3. QED
    BY <2>2 DEF Steps
<1>3. PICK g : IsRecursion(g, T, N, << >>, step)
  <2> HIDE DEF N, T, step
  <2>1. QED
    BY <1>1, <1>2, Recursion
<1>4. ASSUME NEW f, NEW n \in 0 .. N
      PROVE  Body(f)[n] = IF n = 0 THEN << >> ELSE Next1(n, f[n - 1])
  OBVIOUS
<1>5. g \in [0 .. N -> T] /\ g[0] = << >>
  BY <1>3 DEF IsRecursion
<1>6. ASSUME NEW n \in 1 .. N PROVE g[n] = Next1(n, g[n - 1])
  <2>1. n - 1 \in 0 .. N
    BY <1>1
  <2>2. g[n - 1] \in T
    BY <1>5, <2>1
  <2> HIDE DEF Next1, T, N
  <2>3. QED
    BY <1>3, <2>2 DEF IsRecursion
<1>7. g = Body(g)
  <2>1. Body(g) = [n \in 0 .. N |-> Body(g)[n]]
    OBVIOUS
  <2>2. ASSUME NEW n \in 0 .. N PROVE Body(g)[n] = g[n]
    <3> HIDE DEF Body, Next1
    <3>1. CASE n = 0
      BY <1>4, <1>5, <3>1
    <3>2. CASE n # 0
      <4>1. n \in 1 .. N
        BY <1>1, <3>2
      <4>2. QED
        BY <1>4, <1>6, <3>2, <4>1
    <3>3. QED
      BY <3>1, <3>2
  <2>3. g = [n \in 0 .. N |-> g[n]]
    BY <1>5
  <2> HIDE DEF Body
  <2>4. QED
    BY <2>1, <2>2, <2>3
<1>8. among = Body(among)
  <2> HIDE DEF Body
  <2>1. QED
    BY <1>7
<1>9. among = [n \in 0 .. N |-> among[n]]
  <2> HIDE DEF among
  <2>1. Body(among) = [n \in 0 .. N |-> Body(among)[n]]
    OBVIOUS
  <2> HIDE DEF Body
  <2>2. QED
    BY <1>8, <2>1
<1>10. ASSUME NEW n \in 0 .. N
       PROVE  among[n] = IF n = 0 THEN << >> ELSE Next1(n, among[n - 1])
  <2> HIDE DEF Body, Next1, among
  <2>1. QED
    BY <1>4, <1>8
<1>11. For(s, p) = among[N]
  BY DEF For
<1> HIDE DEF among, Body
<1>12. \A n \in 1 .. N : s[n] \in Request
  OBVIOUS
<1> DEFINE S == {n \in Nat : n <= N => among[n] \in T}
<1>13. \A n \in Nat : n \in S
  <2> HIDE DEF N
  <2>1. 0 \in S
    <3>1. 0 \in 0 .. N
      BY <1>1
    <3>2. among[0] = << >>
      BY <1>10, <3>1
    <3>3. QED
      BY <1>1, <3>2
  <2>2. ASSUME NEW n \in Nat, n \in S PROVE n + 1 \in S
    <3> SUFFICES ASSUME n + 1 <= N PROVE among[n + 1] \in T
      OBVIOUS
    <3>1. n + 1 \in 0 .. N /\ n + 1 \in 1 .. N /\ n + 1 # 0
          /\ (n + 1) - 1 = n /\ among[n] \in T
      BY <1>1, <2>2
    <3>2. among[n + 1] = Next1(n + 1, among[n])
      BY <1>10, <3>1
    <3>3. QED
      BY <1>12, <3>1, <3>2
  <2> HIDE DEF S
  <2>3. QED
    BY <2>1, <2>2, Induction
<1>14. \A n \in 0 .. N : among[n] \in T
  BY <1>1, <1>13
<1>15. \A n \in 1 .. N : n \in 0 .. N /\ n # 0
  BY <1>1
<1>16. IsAmong(among, s, p)
  <2>1. among \in [0 .. N -> T]
    <3> HIDE DEF T, N
    <3>1. QED
      BY <1>9, <1>14
  <2>2. among[0] = << >>
    BY <1>1, <1>10
  <2>3. \A n \in 1 .. N : among[n] = Next1(n, among[n - 1])
    <3> HIDE DEF Next1, N
    <3>1. QED
      BY <1>10, <1>15
  <2>4. QED
    BY <2>1, <2>2, <2>3 DEF IsAmong
<1>17. QED
  BY <1>11, <1>16

\* A request appended to the second of two lists is appended to the whole.
LEMMA AppendRequest ==
  ASSUME NEW u \in Seq(Request), NEW v \in Seq(Request), NEW x \in Request
  PROVE  Append(u \o v, x) = u \o Append(v, x)
<1>1. u \o v \in Seq(Request) /\ <<x>> \in Seq(Request)
  BY ConcatProperties
<1>2. Append(u \o v, x) = (u \o v) \o <<x>>
  BY <1>1, AppendIsConcat
<1>3. Append(v, x) = v \o <<x>>
  BY AppendIsConcat
<1>4. (u \o v) \o <<x>> = u \o (v \o <<x>>)
  BY <1>1, ConcatAssociative
<1>5. QED
  BY <1>2, <1>3, <1>4

\* Requests to one program that join the list join what that program is polled
\* for, and nothing else.
LEMMA ForConcat ==
  ASSUME NEW s \in Seq(Request), NEW q \in ProgramIds,
         NEW t \in Seq(RequestTo(q)), NEW p
  PROVE  For(s \o t, p) = For(s, p) \o IF p = q THEN t ELSE << >>
<1> DEFINE st == s \o t
           L == Len(s)
           M == Len(t)
           Taken(n) == IF p = q THEN [i \in 1 .. n |-> t[i]] ELSE << >>
<1>1. /\ t \in Seq(Request)
      /\ \A i \in 1 .. M : t[i] \in Request /\ t[i].program_id = q
  <2>1. RequestTo(q) \subseteq Request
    BY DEF RequestTo
  <2>2. \A i \in 1 .. M : t[i] \in RequestTo(q)
    OBVIOUS
  <2>3. QED
    BY <2>1, <2>2 DEF RequestTo
<1>2. /\ st \in Seq(Request) /\ Len(st) = L + M /\ L \in Nat /\ M \in Nat
      /\ \A n \in 1 .. L : st[n] = s[n]
      /\ \A n \in 1 .. M : st[L + n] = t[n]
  BY <1>1
<1>a. L \in Nat /\ M \in Nat
  OBVIOUS
<1>3. PICK f : IsAmong(f, s, p) /\ For(s, p) = f[L]
  BY ForRecursion
<1>4. PICK g : IsAmong(g, st, p) /\ For(st, p) = g[L + M]
  BY <1>2, ForRecursion
<1> HIDE DEF st, L, M
<1> DEFINE S1 == {n \in Nat : n <= L => g[n] = f[n]}
<1>5. \A n \in Nat : n \in S1
  <2>1. 0 \in S1
    BY <1>3, <1>4 DEF IsAmong
  <2>2. ASSUME NEW n \in Nat, n \in S1 PROVE n + 1 \in S1
    <3> SUFFICES ASSUME n + 1 <= L PROVE g[n + 1] = f[n + 1]
      OBVIOUS
    <3>1. /\ n + 1 \in 1 .. L /\ n + 1 \in 1 .. L + M /\ (n + 1) - 1 = n
          /\ g[n] = f[n]
      BY <1>a, <2>2
    <3>2. f[n + 1] = IF s[n + 1].program_id = p THEN Append(f[n], s[n + 1])
                                                ELSE f[n]
      BY <1>3, <3>1 DEF IsAmong, L
    <3>3. g[n + 1] = IF st[n + 1].program_id = p THEN Append(g[n], st[n + 1])
                                                 ELSE g[n]
      BY <1>2, <1>4, <3>1 DEF IsAmong
    <3>4. QED
      BY <1>2, <3>1, <3>2, <3>3
  <2> HIDE DEF S1
  <2>3. QED
    BY <2>1, <2>2, Induction
<1>6. g[L] = f[L] /\ f[L] \in Seq(Request)
  BY <1>2, <1>3, <1>5 DEF IsAmong, L
<1> DEFINE S2 == {n \in Nat : n <= M => g[L + n] = f[L] \o Taken(n)}
<1>7. \A n \in Nat : n \in S2
  <2>1. 0 \in S2
    <3>1. Taken(0) = << >>
      OBVIOUS
    <3> HIDE DEF Taken
    <3>2. f[L] \o Taken(0) = f[L]
      BY <1>6, <3>1, ConcatEmptySeq
    <3>3. L + 0 = L
      BY <1>a
    <3>4. QED
      BY <1>6, <3>2, <3>3
  <2>2. ASSUME NEW n \in Nat, n \in S2 PROVE n + 1 \in S2
    <3> HIDE DEF Taken
    <3> DEFINE Reached(k) == g[L + k] = f[L] \o Taken(k)
    <3> SUFFICES ASSUME n + 1 <= M PROVE Reached(n + 1)
      <4> HIDE DEF Reached
      <4>1. n + 1 \in Nat
        OBVIOUS
      <4>2. S2 = {k \in Nat : k <= M => Reached(k)}
        BY DEF Reached
      <4>3. QED
        BY <4>1, <4>2
    <3>1. /\ L + (n + 1) \in 1 .. L + M /\ (L + (n + 1)) - 1 = L + n
          /\ n + 1 \in 1 .. M
          /\ g[L + n] = f[L] \o Taken(n)
      <4>1. n <= M
        BY <1>a
      <4>2. QED
        BY <1>a, <2>2, <4>1
    <3>2. t[n + 1] \in Request /\ t[n + 1].program_id = q
          /\ st[L + (n + 1)] = t[n + 1]
      BY <1>1, <1>2, <3>1 DEF M
    <3>3. g[L + (n + 1)] = IF q = p THEN Append(g[L + n], t[n + 1])
                                    ELSE g[L + n]
      BY <1>2, <1>4, <3>1, <3>2 DEF IsAmong
    <3>4. CASE p # q
      BY <3>1, <3>3, <3>4 DEF Taken
    <3>5. CASE p = q
      <4>1. Taken(n) \in Seq(Request)
        <5>1. \A i \in 1 .. n : i \in 1 .. M
          BY <1>a, <3>1
        <5>2. \A i \in 1 .. n : t[i] \in Request
          BY <1>1, <5>1
        <5>3. QED
          BY <3>5, <5>2 DEF Taken
      <4>2. Taken(n + 1) = Append(Taken(n), t[n + 1])
        BY <3>2, <3>5 DEF Taken
      <4> DEFINE x == t[n + 1]
                 v == Taken(n)
                 u == f[L]
      <4>3. Append(u \o v, x) = u \o Append(v, x)
        <5>1. x \in Request /\ v \in Seq(Request) /\ u \in Seq(Request)
          BY <1>6, <3>2, <4>1
        <5> HIDE DEF x, v, u
        <5>2. QED
          BY <5>1, AppendRequest
      <4>4. QED
        BY <3>1, <3>3, <3>5, <4>2, <4>3
    <3>6. QED
      BY <3>4, <3>5
  <2> HIDE DEF S2
  <2>3. QED
    BY <2>1, <2>2, Induction
<1>8. g[L + M] = f[L] \o Taken(M)
  <2> HIDE DEF Taken
  <2>1. QED
    BY <1>a, <1>7
<1>9. Taken(M) = IF p = q THEN t ELSE << >>
  BY <1>1 DEF M
<1>10. QED
  <2> HIDE DEF Taken
  <2>1. QED
    BY <1>3, <1>4, <1>8, <1>9 DEF st


\* A program that waits for its requests is known by the class it announced,
\* and everything else it was due is in the list.
RoundInv ==
  /\ RequestsMatchPrograms
  /\ adding => /\ handling.program_id \in DOMAIN KnownPrograms
               /\ KnownPrograms[handling.program_id] = handling.type

\* Nobody is known and nothing is polled at first.
LEMMA RoundInit == Init => RoundInv
<1> SUFFICES ASSUME Init PROVE RoundInv
  OBVIOUS
<1>1. Requests = << >> /\ DOMAIN KnownPrograms = {} /\ adding = FALSE
      /\ << >> \in Seq(Request) /\ Len(<< >>) = 0
  BY DEF Init, Empty
<1>2. ASSUME NEW p \in ProgramIds PROVE RequestsFor(p) = << >>
  <2>1. PICK f : IsAmong(f, Requests, p) /\ For(Requests, p) = f[Len(Requests)]
    BY <1>1, ForRecursion
  <2>2. f[0] = << >>
    BY <2>1 DEF IsAmong
  <2>3. RequestsFor(p) = For(Requests, p)
    BY DEF RequestsFor, For
  <2>4. QED
    BY <1>1, <2>1, <2>2, <2>3
<1>3. QED
  BY <1>1, <1>2 DEF RoundInv, RequestsMatchPrograms

\* Every step keeps the requests of every program what they should be.
LEMMA RoundStep ==
  ASSUME DeviceInv, PollInv, RoundInv, [Next]_vars
  PROVE  RoundInv'
<1>1. \A p : RequestsFor(p) = For(Requests, p)
  BY DEF RequestsFor, For
<1>2. \A p : RequestsFor(p)' = For(Requests', p)
  BY DEF RequestsFor, For
<1> DEFINE Due(p, known, waits) ==
      IF p \in DOMAIN known /\ ~waits THEN RequestsOf(p, known[p]) ELSE << >>
           WaitsNow(p) == adding /\ handling.program_id = p
<1>3. \A p \in ProgramIds :
        For(Requests, p) = Due(p, KnownPrograms, WaitsNow(p))
  BY <1>1 DEF RoundInv, RequestsMatchPrograms
<1>4. ASSUME \A p \in ProgramIds :
               For(Requests', p) = Due(p, KnownPrograms', WaitsNow(p)')
      PROVE  RequestsMatchPrograms'
  BY <1>2, <1>4 DEF RequestsMatchPrograms
<1>5. ASSUME UNCHANGED <<Requests, KnownPrograms>>, ~adding, ~adding'
      PROVE  RoundInv'
  BY <1>3, <1>4, <1>5 DEF RoundInv
<1>6. ASSUME UNCHANGED <<Requests, KnownPrograms, adding, handling>>
      PROVE  RoundInv'
  BY <1>3, <1>4, <1>6 DEF RoundInv
<1>7. CASE AddProgram
  <2>1. CASE IsNewProgram /\ adding' = TRUE /\ UNCHANGED <<Frames, handling>>
             /\ KnownPrograms' = [p \in DOMAIN KnownPrograms \cup
                                    {handling.program_id} |->
                                  IF p \in DOMAIN KnownPrograms
                                  THEN KnownPrograms[p] ELSE handling.type]
    <3> DEFINE new == handling.program_id
    <3>1. /\ ~adding /\ Requests' = Requests /\ new \notin DOMAIN KnownPrograms
          /\ new \in ProgramIds
      BY <1>7, <2>1, FrameTyped
         DEF AddProgram, IsProgram, IsNewProgram, DeviceInv, ReaderInv
    <3>2. /\ DOMAIN KnownPrograms' = DOMAIN KnownPrograms \cup {new}
          /\ KnownPrograms'[new] = handling.type
          /\ \A p \in DOMAIN KnownPrograms :
               KnownPrograms'[p] = KnownPrograms[p]
      BY <2>1, <3>1
    <3>3. ASSUME NEW p \in ProgramIds
          PROVE  For(Requests', p) = Due(p, KnownPrograms', WaitsNow(p)')
      BY <1>3, <2>1, <3>1, <3>2
    <3>4. RequestsMatchPrograms'
      BY <1>4, <3>3
    <3>5. QED
      BY <2>1, <3>2, <3>4 DEF RoundInv
  <2>2. CASE UNCHANGED <<adding, KnownPrograms>>
    BY <1>5, <1>7, <2>2 DEF AddProgram
  <2>3. QED
    BY <1>7, <2>1, <2>2 DEF AddProgram
<1>8. CASE AddRequests
  <2> DEFINE q == handling.program_id
             more == RequestsOf(q, handling.type)
  <2>1. /\ adding /\ ~adding' /\ KnownPrograms' = KnownPrograms
        /\ Requests' = Requests \o more /\ Requests \in Seq(Request)
        /\ q \in DOMAIN KnownPrograms /\ KnownPrograms[q] = handling.type
        /\ q \in ProgramIds /\ handling.type \in Types
    <3>1. q \in ProgramIds
      BY <1>8, FrameTyped DEF AddRequests, IsProgram, DeviceInv, ReaderInv
    <3>2. QED
      BY <1>8, <3>1 DEF AddRequests, PollInv, RoundInv
  <2>2. more \in Seq(RequestTo(q))
    BY <2>1, TableTyped
  <2>3. ASSUME NEW p \in ProgramIds
        PROVE  For(Requests', p) = Due(p, KnownPrograms', WaitsNow(p)')
    <3>1. For(Requests', p)
            = For(Requests, p) \o IF p = q THEN more ELSE << >>
      <4>1. Requests \in Seq(Request) /\ q \in ProgramIds
            /\ more \in Seq(RequestTo(q)) /\ Requests' = Requests \o more
        BY <2>1, <2>2
      <4> HIDE DEF more, q
      <4>2. For(Requests \o more, p)
              = For(Requests, p) \o IF p = q THEN more ELSE << >>
        BY <4>1, ForConcat, SMTT(30)
      <4>3. QED
        BY <4>1, <4>2
    <3>2. For(Requests, p) \in Seq(Request)
      <4>1. PICK f : IsAmong(f, Requests, p)
                     /\ For(Requests, p) = f[Len(Requests)]
        BY <2>1, ForRecursion
      <4>2. Len(Requests) \in 0 .. Len(Requests)
        BY <2>1
      <4>3. QED
        BY <4>1, <4>2 DEF IsAmong
    <3>3. CASE p = q
      <4>1. For(Requests, p) = << >>
        BY <1>3, <2>1, <3>3
      <4>2. << >> \o more = more
        <5> HIDE DEF more
        <5>1. QED
          BY <2>2, ConcatEmptySeq
      <4>3. For(Requests', p) = more
        BY <3>1, <3>3, <4>1, <4>2
      <4>4. QED
        BY <2>1, <3>3, <4>3
    <3>4. CASE p # q
      <4>1. For(Requests, p) = Due(p, KnownPrograms, FALSE)
        BY <1>3, <3>4
      <4>2. For(Requests', p) = For(Requests, p)
        BY <3>1, <3>2, <3>4, ConcatEmptySeq
      <4>3. QED
        BY <2>1, <4>1, <4>2
    <3>5. QED
      BY <3>3, <3>4
  <2>4. QED
    BY <1>4, <2>1, <2>3 DEF RoundInv
<1>9. CASE Take \/ HandleGetValueResponse
  <2>1. ~adding
    BY <1>9 DEF Take, Queue!Take, HandleGetValueResponse, PollInv, IsProgram
  <2>2. QED
    BY <1>5, <1>9, <2>1 DEF Take, HandleGetValueResponse
<1>10. CASE Poller \/ Driver \/ Owner \/ UNCHANGED vars
            \/ \E f \in BusFrames : Receive(f)
  <2>1. UNCHANGED <<Requests, KnownPrograms, adding, handling>>
    BY <1>10 DEF Poller, SendRequest, RequestSent, Driver, CommandSent,
                 SetControl, Owner, StopScheduler, StopReader,
                 RemoveEventHandler, RemoveDevices, Receive, Queue!Offer, vars,
                 readerVars
  <2>2. QED
    BY <1>6, <2>1
<1>11. QED
  BY <1>7, <1>8, <1>9, <1>10 DEF Next, Reader

\* A known program is polled for exactly what its class and its ancestors
\* describe, in order, however programs announce themselves and whatever the
\* poller is doing meanwhile; an unknown one is not polled (AddProgram).
THEOREM PollsWhatIsDescribed == Spec => []RequestsMatchPrograms
<1>1. RoundInv => RequestsMatchPrograms
  BY DEF RoundInv
<1>2. DeviceInv /\ PollInv /\ RoundInv /\ [Next]_vars => RoundInv'
  BY RoundStep
<1>3. QED
  BY DevicesRecorded, PollingKept, RoundInit, <1>1, <1>2, PTL DEF Spec

-----------------------------------------------------------------------------
\* Types.

\* Every control is on a device that is in the driver, and carries a request
\* or none; so does the command being sent.
ControlsInv ==
  /\ \A k \in DOMAIN controls : /\ <<k[1], k[2]>> \in devices
                                /\ controls[k] \in Control
  /\ devices \subseteq Device
  /\ command \in Request \cup {NoRequest}
  /\ Len(Frames) <= FramesQueueMaxLength

\* The command of a control names a parameter of its class.
LEMMA CommandTyped ==
  ASSUME NEW p \in ProgramIds, NEW t \in Types, NEW ps \in ParametersOf(t),
         NEW id \in DOMAIN ps
  PROVE  CommandOf(p, t, id, ps[id]) \in Request \cup {NoRequest}
<1>1. t \in Nat /\ id \in Nat
  BY GatewayAssumption
<1>2. QED
  BY <1>1 DEF CommandOf, Request, Parameter

\* Setting a parameter leaves every control on its device.
LEMMA SetParameterTyped ==
  ASSUME NEW t \in Types, NEW ps \in ParametersOf(t), NEW id,
         NEW p \in ProgramIds, NEW v \in Values, ControlsInv,
         SetParameter(t, ps, id, p, v), UNCHANGED <<command, Frames>>
  PROVE  ControlsInv'
<1>1. CASE id \notin DOMAIN ps
  BY <1>1 DEF SetParameter, mqttVars, ControlsInv
<1>2. CASE id \in DOMAIN ps
  <2> DEFINE device == <<Classes[t].Name, p>>
             key == <<Classes[t].Name, p, ps[id].Name>>
             fails == DecodeFails(ps[id], v)
             old == IF key \in DOMAIN controls THEN controls[key]
                    ELSE [value |-> 0, error |-> FALSE,
                          command |-> CommandOf(p, t, id, ps[id])]
             new == [old EXCEPT !.error = fails,
                                !.value = IF fails THEN @ ELSE v]
  <2>1. /\ controls' = [k \in DOMAIN controls \cup {key} |->
                          IF k = key THEN new ELSE controls[k]]
        /\ devices' = devices \cup {device}
    BY <1>2 DEF SetParameter
  <2>2. old \in Control
    <3>1. CommandOf(p, t, id, ps[id]) \in Request \cup {NoRequest}
      BY <1>2, CommandTyped
    <3>2. QED
      BY <3>1 DEF ControlsInv, Control
  <2>3. fails \in BOOLEAN
    BY DEF DecodeFails
  <2>4. new \in Control
    <3> HIDE DEF old, fails
    <3>1. QED
      BY <2>2, <2>3 DEF Control
  <2>5. device \in Device /\ <<key[1], key[2]>> = device
    BY DEF Device
  <2> HIDE DEF new, key, device
  <2>6. DOMAIN controls' = DOMAIN controls \cup {key}
    BY <2>1
  <2>7. ASSUME NEW k \in DOMAIN controls'
        PROVE  <<k[1], k[2]>> \in devices' /\ controls'[k] \in Control
    <3>1. CASE k = key
      BY <2>1, <2>4, <2>5, <3>1
    <3>2. CASE k # key
      BY <2>1, <2>6, <3>2 DEF ControlsInv
    <3>3. QED
      BY <3>1, <3>2
  <2>8. QED
    BY <2>1, <2>5, <2>7 DEF ControlsInv
<1>3. QED
  BY <1>1, <1>2

\* So does a value response, whatever it holds.
LEMMA ResponseTyped ==
  ASSUME DeviceInv, ControlsInv, HandleGetValueResponse
  PROVE  ControlsInv'
<1> DEFINE p == handling.program_id
           own == KnownPrograms[p]
           data == handling.parameter
           v == handling.value
<1>1. /\ handling \in Frame /\ p \in ProgramIds /\ v \in Values
      /\ UNCHANGED <<command, Frames>>
  <2>1. handling \in BusFrames
    BY DEF HandleGetValueResponse, DeviceInv, ReaderInv
  <2>2. handling \in Frame
    BY <2>1, FrameTyped
  <2>3. QED
    BY <2>2 DEF Frame, HandleGetValueResponse, Queue!Done
<1>2. ASSUME NEW t \in Types
      PROVE  /\ Classes[t].Parameters \in ParametersOf(t)
             /\ \A kind : IndexedParameters(t, kind) \in ParametersOf(t)
  BY DEF ParametersOf, IndexedParameters
<1>3. \/ UNCHANGED mqttVars
      \/ /\ own \in Types
         /\ SetParameter(own, IndexedParameters(own, data.parameter_id),
                         data.index, p, v)
      \/ /\ data.program_type \in Types
         /\ SetParameter(data.program_type,
                         Classes[data.program_type].Parameters,
                         data.parameter_id, p, v)
  BY DEF HandleGetValueResponse, DeviceInv, ReaderInv
<1> HIDE DEF own, p, data, v
<1>4. CASE UNCHANGED mqttVars
  BY <1>1, <1>4 DEF mqttVars, ControlsInv
<1>5. QED
  BY <1>1, <1>2, <1>3, <1>4, SetParameterTyped

\* No control, no command and an empty queue are what they should be.
LEMMA ControlsInit == Init => ControlsInv
<1> SUFFICES ASSUME Init PROVE ControlsInv
  OBVIOUS
<1>1. DOMAIN controls = {}
  BY DEF Init, Empty
<1>2. Len(Frames) <= FramesQueueMaxLength
  BY GatewayAssumption DEF Init
<1>3. QED
  BY <1>1, <1>2 DEF Init, ControlsInv

\* Every step keeps them so.
LEMMA ControlsStep ==
  ASSUME DeviceInv, ControlsInv, [Next]_vars
  PROVE  ControlsInv'
<1>1. FramesQueueMaxLength \in Nat /\ Frames \in Seq(BusFrames)
      /\ Len(Frames) \in Nat
  BY GatewayAssumption DEF DeviceInv, ReaderInv
<1>2. ASSUME NEW f \in BusFrames, Receive(f) PROVE ControlsInv'
  <2>1. Len(Frames') <= FramesQueueMaxLength
    BY <1>1, <1>2 DEF Receive, Queue!Offer, ControlsInv
  <2>2. QED
    BY <1>2, <2>1 DEF Receive, mqttVars, ControlsInv
<1>3. CASE Take
  <2>1. Frames' = Tail(Frames) /\ Frames # << >>
    BY <1>3 DEF Take, Queue!Take
  <2>2. Len(Frames') <= FramesQueueMaxLength
    BY <1>1, <2>1 DEF ControlsInv
  <2>3. QED
    BY <1>3, <2>2 DEF Take, mqttVars, ControlsInv
<1>4. CASE AddProgram \/ AddRequests
  BY <1>4 DEF AddProgram, AddRequests, Queue!Done, mqttVars, ControlsInv
<1>5. CASE HandleGetValueResponse
  BY <1>5, ResponseTyped
<1>6. CASE Poller \/ UNCHANGED vars
  BY <1>6 DEF Poller, SendRequest, RequestSent, vars, readerVars, mqttVars,
              ControlsInv
<1>7. CASE Driver
  <2>1. command' \in Request \cup {NoRequest}
    BY <1>7 DEF Driver, CommandSent, SetControl, ControlsInv, Control
  <2>2. QED
    BY <1>7, <2>1 DEF Driver, CommandSent, SetControl, readerVars, mqttVars,
                      ControlsInv
<1>8. CASE StopScheduler \/ StopReader \/ RemoveEventHandler
  <2>1. Len(Frames') <= FramesQueueMaxLength
    BY <1>1, <1>8 DEF StopScheduler, StopReader, RemoveEventHandler, readerVars,
                      ControlsInv
  <2>2. QED
    BY <1>8, <2>1 DEF StopScheduler, StopReader, RemoveEventHandler, mqttVars,
                      ControlsInv
<1>9. CASE RemoveDevices
  <2>1. /\ \A k \in DOMAIN controls' : /\ k \in DOMAIN controls
                                       /\ <<k[1], k[2]>> \in devices'
                                       /\ controls'[k] = controls[k]
        /\ devices' \subseteq devices
    BY <1>9 DEF RemoveDevices
  <2>2. QED
    BY <1>9, <2>1 DEF RemoveDevices, readerVars, ControlsInv
<1>10. QED
  BY <1>2, <1>3, <1>4, <1>5, <1>6, <1>7, <1>8, <1>9 DEF Next, Reader, Owner

\* The flag is kept apart from the invariants about numbers.
AddingFlag == adding \in BOOLEAN

\* Every variable has its type in every reachable state: above all, the queue
\* is no longer than its limit, every control is on a device the driver knows,
\* and what is sent is a request the gateway made.
THEOREM GatewayTypeCorrect == Spec => []TypeOK
<1>1. DeviceInv /\ PollInv /\ ControlsInv /\ AddingFlag => TypeOK
  BY DEF DeviceInv, ReaderInv, DriverInv, PollInv, ControlsInv, AddingFlag,
         TypeOK
<1>2. Init => AddingFlag
  BY DEF Init, AddingFlag
<1>3. AddingFlag /\ [Next]_vars => AddingFlag'
  BY DEF AddingFlag, Next, Receive, Reader, Take, AddProgram, AddRequests,
         HandleGetValueResponse, Poller, SendRequest, RequestSent, Driver,
         CommandSent, SetControl, Owner, StopScheduler, StopReader,
         RemoveEventHandler, RemoveDevices, vars, readerVars
<1>4. DeviceInv /\ ControlsInv /\ [Next]_vars => ControlsInv'
  BY ControlsStep
<1>5. QED
  BY DevicesRecorded, PollingKept, ControlsInit, <1>1, <1>2, <1>3, <1>4, PTL
     DEF Spec

-----------------------------------------------------------------------------
\* What is shown, and what is commanded.

\* The programs whose requests are in the list.
Polled == {p \in DOMAIN KnownPrograms : ~(adding /\ handling.program_id = p)}

\* The list has the requests of the programs that are known, and no other.
ListInv ==
  ToSet(Requests)
    = UNION {ToSet(RequestsOf(p, KnownPrograms[p])) : p \in Polled}

\* At first there is none.
LEMMA ListInit == Init => ListInv
<1> SUFFICES ASSUME Init PROVE ListInv
  OBVIOUS
<1>1. ToSet(Requests) = {} /\ Polled = {}
  BY DEF Init, Empty, Polled, ToSet
<1>2. QED
  BY <1>1 DEF ListInv

\* Every step keeps the list so.
LEMMA ListStep ==
  ASSUME DeviceInv, PollInv, RoundInv, ListInv, [Next]_vars
  PROVE  ListInv'
<1>1. ASSUME UNCHANGED <<Requests, KnownPrograms>>, Polled' = Polled
      PROVE  ListInv'
  BY <1>1 DEF ListInv
<1>2. CASE AddProgram
  <2>1. CASE IsNewProgram /\ adding' = TRUE /\ UNCHANGED <<Frames, handling>>
             /\ KnownPrograms' = [p \in DOMAIN KnownPrograms \cup
                                    {handling.program_id} |->
                                  IF p \in DOMAIN KnownPrograms
                                  THEN KnownPrograms[p] ELSE handling.type]
    <3>1. Requests' = Requests /\ ~adding
          /\ handling.program_id \notin DOMAIN KnownPrograms
      BY <1>2, <2>1 DEF AddProgram, IsNewProgram
    <3>2. /\ Polled' = DOMAIN KnownPrograms /\ Polled = DOMAIN KnownPrograms
          /\ \A p \in DOMAIN KnownPrograms :
               KnownPrograms'[p] = KnownPrograms[p]
      BY <2>1, <3>1 DEF Polled
    <3>3. QED
      BY <3>1, <3>2 DEF ListInv
  <2>2. CASE UNCHANGED <<adding, KnownPrograms>>
    <3>1. Polled' = Polled /\ Requests' = Requests
      BY <1>2, <2>2 DEF AddProgram, Polled
    <3>2. QED
      BY <1>1, <2>2, <3>1
  <2>3. QED
    BY <1>2, <2>1, <2>2 DEF AddProgram
<1>3. CASE AddRequests
  <2> DEFINE q == handling.program_id
             more == RequestsOf(q, handling.type)
  <2>1. /\ adding /\ ~adding' /\ KnownPrograms' = KnownPrograms
        /\ Requests' = Requests \o more /\ Requests \in Seq(Request)
        /\ q \in DOMAIN KnownPrograms /\ KnownPrograms[q] = handling.type
        /\ q \in ProgramIds /\ handling.type \in Types
    <3>1. q \in ProgramIds
      BY <1>3, FrameTyped DEF AddRequests, IsProgram, DeviceInv, ReaderInv
    <3>2. QED
      BY <1>3, <3>1 DEF AddRequests, PollInv, RoundInv
  <2>2. more \in Seq(Request)
    <3>1. more \in Seq(RequestTo(q))
      BY <2>1, TableTyped
    <3>2. RequestTo(q) \subseteq Request
      BY DEF RequestTo
    <3> HIDE DEF more, q
    <3>3. QED
      BY <3>1, <3>2
  <2>3. Polled' = Polled \cup {q}
    BY <2>1 DEF Polled
  <2>4. ToSet(Requests') = ToSet(Requests) \cup ToSet(more)
    <3> HIDE DEF more
    <3>1. ToSet(Requests \o more) = ToSet(Requests) \cup ToSet(more)
      BY <2>1, <2>2, ConcatMembers
    <3>2. QED
      BY <2>1, <3>1
  <2>5. more = RequestsOf(q, KnownPrograms[q])
    BY <2>1
  <2> HIDE DEF more, q
  <2>6. QED
    BY <2>1, <2>3, <2>4, <2>5 DEF ListInv
<1>4. CASE Take \/ HandleGetValueResponse
  <2>1. ~adding /\ UNCHANGED <<adding, Requests, KnownPrograms>>
    BY <1>4 DEF Take, Queue!Take, HandleGetValueResponse, PollInv, IsProgram
  <2>2. QED
    BY <1>1, <2>1 DEF Polled
<1>5. CASE Poller \/ Driver \/ Owner \/ UNCHANGED vars
            \/ \E f \in BusFrames : Receive(f)
  <2>1. UNCHANGED <<Requests, KnownPrograms, adding, handling>>
    BY <1>5 DEF Poller, SendRequest, RequestSent, Driver, CommandSent,
                SetControl, Owner, StopScheduler, StopReader,
                RemoveEventHandler, RemoveDevices, Receive, Queue!Offer, vars,
                readerVars
  <2>2. QED
    BY <1>1, <2>1 DEF Polled
<1>6. QED
  BY <1>2, <1>3, <1>4, <1>5 DEF Next, Reader

\* The list is so in every reachable state, as the rounds are.
THEOREM RequestsListed ==
  Spec => [](DeviceInv /\ PollInv /\ RoundInv /\ ListInv)
<1>1. DeviceInv /\ PollInv /\ RoundInv /\ [Next]_vars => RoundInv'
  BY RoundStep
<1>2. DeviceInv /\ PollInv /\ RoundInv /\ ListInv /\ [Next]_vars => ListInv'
  BY ListStep
<1>3. QED
  BY DevicesRecorded, PollingKept, RoundInit, ListInit, <1>1, <1>2, PTL DEF Spec

\* A class is of its own lineage.
LEMMA SelfInLineage ==
  ASSUME NEW t \in Types
  PROVE  t \in Lineage(t) /\ Lineage(t) \subseteq Types
<1> DEFINE N == Cardinality(Types)
           S == {n \in Nat : n <= N => t \in Up(t)[n]}
<1>1. N \in Nat
  BY TableRecursion
<1>2. IsLineage(Up(t), t) /\ Lineage(t) = Up(t)[N]
  BY LineageRecursion
<1>3. /\ Up(t)[0] = {t} /\ Up(t)[N] \subseteq Types
      /\ \A n \in 1 .. N : Up(t)[n - 1] \subseteq Up(t)[n]
  BY <1>1, <1>2 DEF IsLineage
<1> HIDE DEF N
<1>4. 0 \in S
  BY <1>3
<1>5. ASSUME NEW n \in Nat, n \in S PROVE n + 1 \in S
  <2> SUFFICES ASSUME n + 1 <= N PROVE t \in Up(t)[n + 1]
    OBVIOUS
  <2>1. n + 1 \in 1 .. N /\ (n + 1) - 1 = n /\ t \in Up(t)[n]
    BY <1>1, <1>5
  <2>2. QED
    BY <1>3, <2>1
<1>6. N \in S
  <2> HIDE DEF S
  <2>1. QED
    BY <1>1, <1>4, <1>5, Induction
<1>7. QED
  BY <1>1, <1>2, <1>3, <1>6

\* An answer to a request of the list creates a control.
LEMMA AnswerShown ==
  ASSUME InputsAreOwn, DeviceInv, ListInv, HandleGetValueResponse,
         [program_id |-> handling.program_id, parameter |-> handling.parameter]
           \in ToSet(Requests)
  PROVE  \E t \in Lineage(KnownPrograms[handling.program_id]) :
           IsShown(controls', handling.program_id, t, handling.parameter)
<1> DEFINE p == handling.program_id
           data == handling.parameter
           own == KnownPrograms[p]
<1>1. p \in ProgramIds
  BY FrameTyped DEF HandleGetValueResponse, DeviceInv, ReaderInv
<1>2. p \in DOMAIN KnownPrograms /\ own \in Types
      /\ RequestFor(p, data) \in ToSet(RequestsOf(p, own))
  <2>1. PICK q \in Polled :
          RequestFor(p, data) \in ToSet(RequestsOf(q, KnownPrograms[q]))
    BY DEF ListInv, RequestFor
  <2>2. q \in ProgramIds /\ q \in DOMAIN KnownPrograms
        /\ KnownPrograms[q] \in Types
    BY <2>1 DEF Polled, DeviceInv, ReaderInv
  <2>3. PICK other : RequestFor(p, data) = RequestFor(q, other)
    BY <2>1, <2>2, RequestsAreDescribed
  <2>4. /\ RequestFor(p, data).program_id = p
        /\ RequestFor(q, other).program_id = q
    BY DEF RequestFor
  <2>5. p = q
    BY <2>3, <2>4
  <2>6. QED
    BY <2>1, <2>2, <2>5
<1>3. PICK u \in Lineage(own) : data \in DescribedBy(u)
  <2>1. PICK u \in Lineage(own) :
          \E other \in DescribedBy(u) :
            RequestFor(p, data) = RequestFor(p, other)
    BY <1>1, <1>2, RequestsAreDescribed
  <2>2. PICK other \in DescribedBy(u) :
          RequestFor(p, data) = RequestFor(p, other)
    BY <2>1
  <2>3. RequestFor(p, data).parameter = data
        /\ RequestFor(p, other).parameter = other
    BY DEF RequestFor
  <2>4. QED
    BY <2>2, <2>3
<1>4. u \in Types /\ own \in Lineage(own) /\ PT_PROGRAM \notin Types
  BY <1>2, <1>3, SelfInLineage DEF InputsAreOwn
<1>5. ASSUME NEW t, NEW ps, NEW id \in DOMAIN ps,
             SetParameter(t, ps, id, p, handling.value)
      PROVE  <<Classes[t].Name, p, ps[id].Name>> \in DOMAIN controls'
  BY <1>5 DEF SetParameter
<1>6. CASE data.program_type = PT_PROGRAM
  <2>1. /\ data.parameter_id \in {SENSOR, OUTPUT}
        /\ data.index \in DOMAIN IndexedParameters(u, data.parameter_id)
    <3>1. CASE \E id \in DOMAIN Classes[u].Inputs :
                 data = [program_type |-> PT_PROGRAM, parameter_id |-> SENSOR,
                         index |-> id]
      BY <3>1 DEF IndexedParameters
    <3>2. CASE \E id \in DOMAIN Classes[u].Outputs :
                 data = [program_type |-> PT_PROGRAM, parameter_id |-> OUTPUT,
                         index |-> id]
      <4>1. OUTPUT # SENSOR
        BY DEF SENSOR, OUTPUT
      <4>2. QED
        BY <3>2, <4>1 DEF IndexedParameters
    <3>3. CASE \E id \in DOMAIN Classes[u].Parameters :
                 data = [program_type |-> u, parameter_id |-> id, index |-> 0]
      <4>1. data.program_type = u
        BY <3>3
      <4>2. QED
        BY <1>4, <1>6, <4>1
    <3>4. QED
      BY <1>3, <3>1, <3>2, <3>3 DEF DescribedBy
  <2>2. data.index \in DOMAIN IndexedParameters(own, data.parameter_id)
    BY <1>2, <1>3, <2>1 DEF InputsAreOwn, IndexedParameters
  <2>3. SetParameter(own, IndexedParameters(own, data.parameter_id), data.index,
                     p, handling.value)
    BY <1>2, <1>6, <2>1 DEF HandleGetValueResponse
  <2>4. <<Classes[own].Name, p,
          IndexedParameters(own, data.parameter_id)[data.index].Name>>
            \in DOMAIN controls'
    BY <1>5, <2>2, <2>3
  <2>5. IsShown(controls', p, own, data)
    BY <1>6, <2>2, <2>4 DEF IsShown, IndexedParameters
  <2>6. QED
    BY <1>4, <2>5
<1>7. CASE data.program_type # PT_PROGRAM
  <2>1. data.program_type = u
        /\ data.parameter_id \in DOMAIN Classes[u].Parameters
    BY <1>3, <1>7 DEF DescribedBy
  <2>2. SetParameter(u, Classes[u].Parameters, data.parameter_id, p,
                     handling.value)
    BY <1>2, <1>4, <1>7, <2>1 DEF HandleGetValueResponse
  <2>3. IsShown(controls', p, u, data)
    BY <1>5, <2>1, <2>2 DEF IsShown
  <2>4. QED
    BY <1>3, <2>3
<1>8. QED
  BY <1>6, <1>7

\* Whatever a program is polled for becomes a control once it has answered, of
\* its class or inherited, provided that no class inherits an input or an output
\* it has not got itself (HandleGetValueResponse, AddRequests).
THEOREM AnswersAreShown == ASSUME InputsAreOwn PROVE Spec => PolledIsShown
<1> DEFINE Shown ==
      handling # NoFrame /\ ~IsProgram /\ handling' = NoFrame =>
        LET p == handling.program_id
            data == handling.parameter
        IN [program_id |-> p, parameter |-> data] \in ToSet(Requests)
             => \E t \in Lineage(KnownPrograms[p]) :
                  IsShown(controls', p, t, data)
<1>1. ASSUME DeviceInv, ListInv, Next PROVE Shown
  <2>1. CASE HandleGetValueResponse
    BY <1>1, <2>1, AnswerShown
  <2>2. CASE ~HandleGetValueResponse
    <3>1. handling' = handling \/ handling = NoFrame \/ IsProgram
      BY <1>1, <2>2
         DEF Next, Receive, Queue!Offer, Reader, Take, Queue!Take, AddProgram,
             AddRequests, Poller, SendRequest, RequestSent, Driver, CommandSent,
             SetControl, Owner, StopScheduler, StopReader, RemoveEventHandler,
             RemoveDevices, readerVars
    <3>2. QED
      BY <3>1
  <2>3. QED
    BY <2>1, <2>2
<1>2. DeviceInv /\ ListInv /\ [Next]_vars => [Shown]_vars
  BY <1>1
<1>3. Spec => [][Shown]_vars
  BY RequestsListed, <1>2, PTL DEF Spec
<1>4. QED
  BY <1>3 DEF PolledIsShown

\* Programs are what they are supposed to be, and every control commands a
\* parameter that is polled.
CommandInv(ClassOf) ==
  /\ \A p \in DOMAIN KnownPrograms : KnownPrograms[p] = ClassOf[p]
  /\ \A k \in DOMAIN controls :
       controls[k].command \in ToSet(Requests) \cup {NoRequest}
  /\ command \in ToSet(Requests) \cup {NoRequest}

\* The command a new control is given is one of the requests of its program.
LEMMA CommandOfPolled ==
  ASSUME DeviceInv, PollInv, ListInv, ~adding,
         NEW p \in DOMAIN KnownPrograms, NEW t \in Lineage(KnownPrograms[p]),
         NEW id \in DOMAIN Classes[t].Parameters
  PROVE  CommandOf(p, t, id, Classes[t].Parameters[id])
           \in ToSet(Requests) \cup {NoRequest}
<1> DEFINE own == KnownPrograms[p]
           data == [program_type |-> t, parameter_id |-> id, index |-> 0]
<1>1. p \in ProgramIds /\ own \in Types /\ p \in Polled
  BY DEF DeviceInv, ReaderInv, Polled
<1>2. data \in DescribedBy(t)
  BY DEF DescribedBy
<1>3. RequestFor(p, data) \in ToSet(RequestsOf(p, own))
  BY <1>1, <1>2, RequestsAreDescribed
<1>4. RequestFor(p, data) \in ToSet(Requests)
  BY <1>1, <1>3 DEF ListInv
<1>5. QED
  BY <1>4 DEF CommandOf, RequestFor

\* A control that is set anew keeps its command, a new one is given a good one.
LEMMA SetParameterCommands ==
  ASSUME NEW t, NEW ps, NEW id, NEW p, NEW v, SetParameter(t, ps, id, p, v),
         NEW Good, \A k \in DOMAIN controls : controls[k].command \in Good,
         id \in DOMAIN ps => CommandOf(p, t, id, ps[id]) \in Good
  PROVE  \A k \in DOMAIN controls' : controls'[k].command \in Good
<1>1. CASE id \notin DOMAIN ps
  BY <1>1 DEF SetParameter, mqttVars
<1>2. CASE id \in DOMAIN ps
  <2> DEFINE key == <<Classes[t].Name, p, ps[id].Name>>
             fails == DecodeFails(ps[id], v)
             old == IF key \in DOMAIN controls THEN controls[key]
                    ELSE [value |-> 0, error |-> FALSE,
                          command |-> CommandOf(p, t, id, ps[id])]
             new == [old EXCEPT !.error = fails,
                                !.value = IF fails THEN @ ELSE v]
  <2>1. controls' = [k \in DOMAIN controls \cup {key} |->
                       IF k = key THEN new ELSE controls[k]]
    BY <1>2 DEF SetParameter
  <2>2. old.command \in Good
    BY <1>2
  <2> HIDE DEF old, fails
  <2>3. new.command = old.command
    OBVIOUS
  <2> HIDE DEF new, key
  <2>4. QED
    BY <2>1, <2>2, <2>3
<1>3. QED
  BY <1>1, <1>2

\* Every step keeps the commands within the list.
LEMMA CommandStep ==
  ASSUME NEW ClassOf, ProgramsAre(ClassOf), DeviceInv, PollInv, ListInv,
         CommandInv(ClassOf), [Next]_vars
  PROVE  CommandInv(ClassOf)'
<1>1. ASSUME ToSet(Requests) \subseteq ToSet(Requests'),
             UNCHANGED <<KnownPrograms, controls, command>>
      PROVE  CommandInv(ClassOf)'
  BY <1>1 DEF CommandInv
<1>2. CASE AddProgram
  <2>1. CASE IsNewProgram
    <3>1. handling \in BusFrames /\ handling.program_type = PT_PROGRAM
          /\ handling.type \in Types
      BY <1>2, <2>1
         DEF AddProgram, IsProgram, IsNewProgram, DeviceInv, ReaderInv
    <3>2. handling.type = ClassOf[handling.program_id]
      BY <3>1 DEF ProgramsAre
    <3>3. \A p \in DOMAIN KnownPrograms' : KnownPrograms'[p] = ClassOf[p]
      BY <1>2, <2>1, <3>2 DEF AddProgram, CommandInv
    <3>4. QED
      BY <1>2, <3>3 DEF AddProgram, mqttVars, CommandInv
  <2>2. CASE ~IsNewProgram
    BY <1>1, <1>2, <2>2 DEF AddProgram, mqttVars
  <2>3. QED
    BY <2>1, <2>2
<1>3. CASE AddRequests
  <2> DEFINE q == handling.program_id
             more == RequestsOf(q, handling.type)
  <2>1. /\ Requests' = Requests \o more /\ Requests \in Seq(Request)
        /\ q \in ProgramIds /\ handling.type \in Types
    <3>1. q \in ProgramIds
      BY <1>3, FrameTyped DEF AddRequests, IsProgram, DeviceInv, ReaderInv
    <3>2. QED
      BY <1>3, <3>1 DEF AddRequests, PollInv
  <2>2. more \in Seq(Request)
    <3>1. more \in Seq(RequestTo(q))
      BY <2>1, TableTyped
    <3>2. RequestTo(q) \subseteq Request
      BY DEF RequestTo
    <3> HIDE DEF more, q
    <3>3. QED
      BY <3>1, <3>2
  <2>3. ToSet(Requests) \subseteq ToSet(Requests')
    <3> HIDE DEF more
    <3>1. ToSet(Requests \o more) = ToSet(Requests) \cup ToSet(more)
      BY <2>1, <2>2, ConcatMembers
    <3>2. QED
      BY <2>1, <3>1
  <2>4. QED
    BY <1>1, <1>3, <2>3 DEF AddRequests, mqttVars
<1>4. CASE HandleGetValueResponse
  <2> DEFINE p == handling.program_id
             own == KnownPrograms[p]
             data == handling.parameter
             v == handling.value
             Good == ToSet(Requests) \cup {NoRequest}
  <2>1. /\ handling \in BusFrames /\ handling.program_type # PT_PROGRAM
        /\ ~adding /\ UNCHANGED <<KnownPrograms, Requests, command>>
    BY <1>4 DEF HandleGetValueResponse, IsProgram, DeviceInv, ReaderInv, PollInv
  <2>2. \A k \in DOMAIN controls : controls[k].command \in Good
    BY DEF CommandInv
  <2>3. ASSUME p \in DOMAIN KnownPrograms,
               SetParameter(own, IndexedParameters(own, data.parameter_id),
                            data.index, p, v)
        PROVE  \A k \in DOMAIN controls' : controls'[k].command \in Good
    <3> DEFINE ps == IndexedParameters(own, data.parameter_id)
    <3>1. own \in Types
      BY <2>3 DEF DeviceInv, ReaderInv
    <3>2. \A id \in DOMAIN ps : ps[id].ReadOnly
      BY <3>1, GatewayAssumption DEF IndexedParameters
    <3>3. \A id \in DOMAIN ps : CommandOf(p, own, id, ps[id]) \in Good
      BY <3>2 DEF CommandOf
    <3> HIDE DEF ps, Good, own
    <3>4. QED
      BY <2>2, <2>3, <3>3, SetParameterCommands DEF ps
  <2>4. ASSUME p \in DOMAIN KnownPrograms,
               data.program_type \in Types \ {PT_PROGRAM},
               SetParameter(data.program_type,
                            Classes[data.program_type].Parameters,
                            data.parameter_id, p, v)
        PROVE  \A k \in DOMAIN controls' : controls'[k].command \in Good
    <3> DEFINE t == data.program_type
    <3>1. t \in Lineage(own)
      <4>1. t \in Lineage(ClassOf[p])
        BY <2>1, <2>4 DEF ProgramsAre
      <4>2. QED
        BY <2>4, <4>1 DEF CommandInv
    <3>2. \A id \in DOMAIN Classes[t].Parameters :
            CommandOf(p, t, id, Classes[t].Parameters[id]) \in Good
      BY <2>1, <2>4, <3>1, CommandOfPolled
    <3> HIDE DEF Good, t
    <3>3. QED
      BY <2>2, <2>4, <3>2, SetParameterCommands DEF t
  <2>5. \/ UNCHANGED controls
        \/ /\ p \in DOMAIN KnownPrograms
           /\ SetParameter(own, IndexedParameters(own, data.parameter_id),
                           data.index, p, v)
        \/ /\ p \in DOMAIN KnownPrograms
           /\ data.program_type \in Types \ {PT_PROGRAM}
           /\ SetParameter(data.program_type,
                           Classes[data.program_type].Parameters,
                           data.parameter_id, p, v)
    BY <1>4 DEF HandleGetValueResponse, mqttVars
  <2>6. \A k \in DOMAIN controls' : controls'[k].command \in Good
    <3> HIDE DEF Good, p, own, data, v
    <3>1. QED
      BY <2>2, <2>3, <2>4, <2>5
  <2>7. QED
    BY <2>1, <2>6 DEF CommandInv
<1>5. CASE Driver
  <2>1. command' \in ToSet(Requests) \cup {NoRequest}
    BY <1>5 DEF Driver, CommandSent, SetControl, CommandInv
  <2>2. UNCHANGED <<KnownPrograms, Requests, controls>>
    BY <1>5 DEF Driver, CommandSent, SetControl, readerVars, mqttVars
  <2>3. QED
    BY <2>1, <2>2 DEF CommandInv
<1>6. CASE RemoveDevices
  BY <1>6 DEF RemoveDevices, readerVars, CommandInv
<1>7. CASE Take \/ Poller \/ StopScheduler \/ StopReader \/ RemoveEventHandler
           \/ UNCHANGED vars \/ \E f \in BusFrames : Receive(f)
  <2>1. UNCHANGED <<Requests, KnownPrograms, controls, command>>
    BY <1>7 DEF Take, Poller, SendRequest, RequestSent, StopScheduler,
                StopReader, RemoveEventHandler, Receive, vars, readerVars,
                mqttVars
  <2>2. QED
    BY <1>1, <2>1
<1>8. QED
  BY <1>2, <1>3, <1>4, <1>5, <1>6, <1>7 DEF Next, Reader, Owner

\* A command goes only to a parameter that is polled from the very program the
\* control shows, provided that programs answer for what their class and its
\* ancestors describe (TControlOnValueEvent, MakeSetParameterValueRequest).
THEOREM CommandsArePolled ==
  ASSUME NEW CONSTANT ClassOf, ProgramsAre(ClassOf)
  PROVE  Spec => []CommandIsPolled
<1>1. Init => CommandInv(ClassOf)
  <2> SUFFICES ASSUME Init PROVE CommandInv(ClassOf)
    OBVIOUS
  <2>1. DOMAIN KnownPrograms = {} /\ DOMAIN controls = {}
    BY DEF Init, Empty
  <2>2. QED
    BY <2>1 DEF Init, CommandInv
<1>2. DeviceInv /\ PollInv /\ ListInv /\ CommandInv(ClassOf) /\ [Next]_vars
        => CommandInv(ClassOf)'
  BY CommandStep
<1>3. CommandInv(ClassOf) => CommandIsPolled
  BY DEF CommandInv, CommandIsPolled
<1>4. QED
  BY RequestsListed, <1>1, <1>2, <1>3, PTL DEF Spec

-----------------------------------------------------------------------------
\* How far the recursion through the classes goes, and when it returns.

\* Closed under parents.
HasParents(C) == \A u \in C : Parents(u) \subseteq C

\* A lineage is the class with all its ancestors: it is closed under parents,
\* and whatever holds the class and is closed under parents holds it.  Each
\* generation up to a closed one adds a class, so that as many generations as
\* there are classes (the depth of Lineage and RequestTable) leave none out.
THEOREM LineageIsAll ==
  ASSUME NEW t \in Types
  PROVE  /\ t \in Lineage(t) /\ HasParents(Lineage(t))
         /\ \A C \in SUBSET Types :
              t \in C /\ HasParents(C) => Lineage(t) \subseteq C
<1> DEFINE N == Cardinality(Types)
           up == Up(t)
           S == {n \in Nat : n <= N =>
                   HasParents(up[n]) \/ Cardinality(up[n]) >= n + 1}
<1>1. N \in Nat /\ IsFiniteSet(Types)
  BY TableRecursion, GatewayAssumption
<1>2. /\ Lineage(t) = up[N] /\ up[0] = {t}
      /\ \A n \in 0 .. N : up[n] \in SUBSET Types
      /\ \A n \in 1 .. N : up[n] = up[n - 1] \cup
                                     UNION {Parents(u) : u \in up[n - 1]}
  BY LineageRecursion DEF IsLineage
<1> HIDE DEF N, up
<1>3. ASSUME NEW n \in 0 .. N
      PROVE  IsFiniteSet(up[n]) /\ Cardinality(up[n]) \in Nat
             /\ Cardinality(up[n]) <= N
  <2>1. up[n] \in SUBSET Types
    BY <1>2
  <2>2. IsFiniteSet(up[n]) /\ Cardinality(up[n]) <= Cardinality(Types)
    BY <1>1, <2>1, FS_Subset
  <2>3. QED
    BY <2>2, FS_CardinalityType DEF N
<1>4. 0 \in S
  <2>1. Cardinality({t}) = 1
    BY FS_Singleton
  <2>2. QED
    BY <1>2, <2>1
<1>5. ASSUME NEW n \in Nat, n \in S PROVE n + 1 \in S
  <2> SUFFICES ASSUME n + 1 <= N, ~HasParents(up[n + 1])
               PROVE  Cardinality(up[n + 1]) >= (n + 1) + 1
    OBVIOUS
  <2>1. n + 1 \in 1 .. N /\ (n + 1) - 1 = n /\ n \in 0 .. N
        /\ n + 1 \in 0 .. N /\ n <= N
    BY <1>1
  <2>2. up[n + 1] = up[n] \cup UNION {Parents(u) : u \in up[n]}
    BY <1>2, <2>1
  <2>3. ~HasParents(up[n])
    <3> SUFFICES ASSUME HasParents(up[n]) PROVE FALSE
      OBVIOUS
    <3>1. up[n + 1] = up[n]
      BY <2>2 DEF HasParents
    <3>2. QED
      BY <3>1
  <2>4. Cardinality(up[n]) >= n + 1
    BY <1>5, <2>1, <2>3
  <2>5. up[n] \subseteq up[n + 1] /\ up[n] # up[n + 1]
    BY <2>2, <2>3 DEF HasParents
  <2>6. Cardinality(up[n]) < Cardinality(up[n + 1])
    <3>1. /\ IsFiniteSet(up[n + 1])
          /\ Cardinality(up[n]) \in Nat /\ Cardinality(up[n + 1]) \in Nat
      BY <1>3, <2>1
    <3>2. /\ Cardinality(up[n]) <= Cardinality(up[n + 1])
          /\ Cardinality(up[n]) = Cardinality(up[n + 1]) => up[n] = up[n + 1]
      BY <2>5, <3>1, FS_Subset
    <3>3. QED
      BY <2>5, <3>1, <3>2
  <2>7. Cardinality(up[n]) \in Nat /\ Cardinality(up[n + 1]) \in Nat
    BY <1>3, <2>1
  <2>8. QED
    BY <2>4, <2>6, <2>7
<1>6. HasParents(up[N])
  <2>1. N \in S
    <3> HIDE DEF S
    <3>1. QED
      BY <1>1, <1>4, <1>5, Induction
  <2>2. N \in 0 .. N
    BY <1>1
  <2>3. Cardinality(up[N]) \in Nat /\ Cardinality(up[N]) <= N
    BY <1>3, <2>2
  <2>4. QED
    BY <1>1, <2>1, <2>3
<1>7. ASSUME NEW C \in SUBSET Types, t \in C, HasParents(C)
      PROVE  Lineage(t) \subseteq C
  <2> DEFINE Q == {n \in Nat : n <= N => up[n] \subseteq C}
  <2>1. 0 \in Q
    BY <1>2, <1>7
  <2>2. ASSUME NEW n \in Nat, n \in Q PROVE n + 1 \in Q
    <3> SUFFICES ASSUME n + 1 <= N PROVE up[n + 1] \subseteq C
      OBVIOUS
    <3>1. n + 1 \in 1 .. N /\ (n + 1) - 1 = n /\ up[n] \subseteq C
      BY <1>1, <2>2
    <3>2. up[n + 1] = up[n] \cup UNION {Parents(u) : u \in up[n]}
      BY <1>2, <3>1
    <3>3. QED
      BY <1>7, <3>1, <3>2 DEF HasParents
  <2>3. N \in Q
    <3> HIDE DEF Q
    <3>1. QED
      BY <1>1, <2>1, <2>2, Induction
  <2>4. QED
    BY <1>1, <1>2, <2>3
<1>8. QED
  BY <1>2, <1>6, <1>7, SelfInLineage

\* A class, one of its parents, one of that one's parents, k times.
Chains(k) ==
  {f \in [0 .. k -> Types] : \A i \in 1 .. k : f[i] \in Parents(f[i - 1])}

Ascends(t, k) == \E f \in Chains(k) : f[0] = t

\* The last of a chain is of the lineage of the first.
LEMMA ChainIsLineage ==
  ASSUME NEW k \in 0 .. Cardinality(Types), NEW f \in Chains(k)
  PROVE  f[k] \in Lineage(f[0])
<1> DEFINE N == Cardinality(Types)
           t == f[0]
           S == {i \in Nat : i <= k => f[i] \in Up(t)[i]}
           U == {i \in Nat : k + i <= N => f[k] \in Up(t)[k + i]}
<1>1. N \in Nat /\ k \in Nat /\ k <= N
  BY TableRecursion
<1>2. /\ f \in [0 .. k -> Types]
      /\ \A i \in 1 .. k : f[i] \in Parents(f[i - 1])
  BY DEF Chains
<1>3. t \in Types
  BY <1>1, <1>2
<1> HIDE DEF t
<1>4. /\ Up(t)[0] = {t} /\ Lineage(t) = Up(t)[N]
      /\ \A n \in 1 .. N : Up(t)[n] =
           Up(t)[n - 1] \cup UNION {Parents(u) : u \in Up(t)[n - 1]}
  BY <1>3, LineageRecursion DEF IsLineage
<1> HIDE DEF N
<1>5. 0 \in S
  BY <1>4 DEF t
<1>6. ASSUME NEW i \in Nat, i \in S PROVE i + 1 \in S
  <2> SUFFICES ASSUME i + 1 <= k PROVE f[i + 1] \in Up(t)[i + 1]
    OBVIOUS
  <2>1. i + 1 \in 1 .. k /\ i + 1 \in 1 .. N /\ (i + 1) - 1 = i
        /\ f[i] \in Up(t)[i]
    BY <1>1, <1>6
  <2>2. f[i + 1] \in Parents(f[i])
    BY <1>2, <2>1
  <2>3. QED
    BY <1>4, <2>1, <2>2
<1>7. f[k] \in Up(t)[k]
  <2>1. k \in S
    <3> HIDE DEF S
    <3>1. QED
      BY <1>1, <1>5, <1>6, Induction
  <2>2. QED
    BY <1>1, <2>1
<1>8. 0 \in U
  BY <1>1, <1>7
<1>9. ASSUME NEW i \in Nat, i \in U PROVE i + 1 \in U
  <2> SUFFICES ASSUME k + (i + 1) <= N PROVE f[k] \in Up(t)[k + (i + 1)]
    OBVIOUS
  <2>1. k + (i + 1) \in 1 .. N /\ (k + (i + 1)) - 1 = k + i
        /\ f[k] \in Up(t)[k + i]
    BY <1>1, <1>9
  <2>2. QED
    BY <1>4, <2>1
<1>10. N - k \in U
  <2>1. N - k \in Nat
    BY <1>1
  <2> HIDE DEF U
  <2>2. QED
    BY <1>8, <1>9, <2>1, Induction
<1>11. N - k \in Nat /\ k + (N - k) = N
  BY <1>1
<1>12. f[k] \in Up(t)[N]
  BY <1>10, <1>11
<1>13. QED
  BY <1>4, <1>12 DEF t

\* Without a cycle a chain meets no class twice, and ends.
LEMMA ChainsEnd ==
  ASSUME Acyclic
  PROVE  Chains(Cardinality(Types)) = {}
<1> DEFINE N == Cardinality(Types)
<1>1. N \in Nat /\ IsFiniteSet(Types)
  BY TableRecursion, GatewayAssumption
<1> SUFFICES ASSUME NEW f \in Chains(N) PROVE FALSE
  OBVIOUS
<1>2. /\ f \in [0 .. N -> Types]
      /\ \A i \in 1 .. N : f[i] \in Parents(f[i - 1])
  BY DEF Chains
<1>3. IsFiniteSet(0 .. N) /\ Cardinality(0 .. N) = N + 1
  <2>1. 0 \in Int /\ N \in Int /\ ~(0 > N)
    BY <1>1
  <2>2. IsFiniteSet(0 .. N)
        /\ Cardinality(0 .. N) = IF 0 > N THEN 0 ELSE N - 0 + 1
    BY <2>1, FS_Interval
  <2>3. QED
    BY <1>1, <2>1, <2>2
<1>4. PICK x, y \in 0 .. N : x # y /\ f[x] = f[y]
  <2>1. Cardinality(Types) < Cardinality(0 .. N)
    BY <1>1, <1>3
  <2> HIDE DEF N
  <2>2. QED
    BY <1>1, <1>2, <1>3, <2>1, FS_PigeonHole
<1>5. ASSUME NEW a \in 0 .. N, NEW b \in 0 .. N, a < b, f[a] = f[b]
      PROVE  FALSE
  <2> DEFINE k == b - (a + 1)
             g == [i \in 0 .. k |-> f[(a + 1) + i]]
  <2>1. k \in 0 .. N /\ a + 1 \in 1 .. N /\ (a + 1) - 1 = a /\ (a + 1) + k = b
    BY <1>1, <1>5
  <2>2. \A i \in 0 .. k : (a + 1) + i \in 0 .. N
    BY <1>1, <2>1
  <2>3. g \in [0 .. k -> Types]
    BY <1>2, <2>2
  <2>4. ASSUME NEW i \in 1 .. k PROVE g[i] \in Parents(g[i - 1])
    <3>1. /\ (a + 1) + i \in 1 .. N
          /\ ((a + 1) + i) - 1 = (a + 1) + (i - 1)
          /\ i \in 0 .. k /\ i - 1 \in 0 .. k
      BY <1>1, <2>1
    <3>2. f[(a + 1) + i] \in Parents(f[(a + 1) + (i - 1)])
      BY <1>2, <3>1
    <3>3. QED
      BY <3>1, <3>2
  <2>5. g \in Chains(k)
    BY <2>3, <2>4 DEF Chains
  <2>6. g[0] = f[a + 1] /\ g[k] = f[b]
    BY <2>1
  <2> HIDE DEF g, k
  <2>7. f[b] \in Lineage(f[a + 1])
    BY <2>1, <2>5, <2>6, ChainIsLineage
  <2>8. f[a + 1] \in Parents(f[a]) /\ f[a] \in Types
    BY <1>2, <2>1
  <2>9. QED
    BY <1>5, <2>7, <2>8 DEF Acyclic
<1>6. x < y \/ y < x
  BY <1>1, <1>4
<1>7. QED
  BY <1>4, <1>5, <1>6

\* A parent's chain is one of the class, one longer.
LEMMA ParentAscends ==
  ASSUME NEW t \in Types, NEW u \in Parents(t), NEW k \in Nat, Ascends(u, k)
  PROVE  Ascends(t, k + 1)
<1>1. PICK f \in Chains(k) : f[0] = u
  BY DEF Ascends
<1>2. /\ f \in [0 .. k -> Types]
      /\ \A i \in 1 .. k : f[i] \in Parents(f[i - 1])
  BY DEF Chains
<1> DEFINE g == [i \in 0 .. k + 1 |-> IF i = 0 THEN t ELSE f[i - 1]]
<1>3. g \in [0 .. k + 1 -> Types] /\ g[0] = t
  <2>1. \A i \in 0 .. k + 1 : i # 0 => i - 1 \in 0 .. k
    OBVIOUS
  <2>2. QED
    BY <1>2, <2>1
<1>4. ASSUME NEW i \in 1 .. k + 1 PROVE g[i] \in Parents(g[i - 1])
  <2>1. g[i] = f[i - 1]
    OBVIOUS
  <2>2. CASE i = 1
    BY <1>1, <2>1, <2>2
  <2>3. CASE i # 1
    <3>1. i - 1 \in 1 .. k /\ i - 1 \in 0 .. k + 1 /\ i - 1 # 0
      BY <2>3
    <3>2. g[i - 1] = f[(i - 1) - 1] /\ f[i - 1] \in Parents(f[(i - 1) - 1])
      BY <1>2, <3>1
    <3>3. QED
      BY <2>1, <3>2
  <2>4. QED
    BY <2>2, <2>3
<1>5. g \in Chains(k + 1)
  <2> HIDE DEF g
  <2>1. QED
    BY <1>3, <1>4 DEF Chains
<1>6. QED
  BY <1>3, <1>5 DEF Ascends

\* The requests of two tables that agree on the parents of a class.
LEMMA ParentsAgree ==
  ASSUME NEW p \in ProgramIds, NEW t \in Types, NEW a, NEW b,
         \A u \in Parents(t) : a[p][u] = b[p][u]
  PROVE  [i \in DOMAIN Classes[t].ParentClasses |->
            OfClassNamed(Classes[t].ParentClasses[i], a[p])]
           = [i \in DOMAIN Classes[t].ParentClasses |->
                OfClassNamed(Classes[t].ParentClasses[i], b[p])]
<1> DEFINE names == Classes[t].ParentClasses
<1>1. ASSUME NEW i \in DOMAIN names
      PROVE  OfClassNamed(names[i], a[p]) = OfClassNamed(names[i], b[p])
  <2>1. CASE \E u \in Types : Classes[u].Name = names[i]
    <3>1. PICK u \in Types : /\ Classes[u].Name = names[i]
                             /\ u = CHOOSE v \in Types :
                                      Classes[v].Name = names[i]
      BY <2>1
    <3>2. u \in Parents(t)
      BY <3>1 DEF Parents, ToSet
    <3>3. /\ OfClassNamed(names[i], a[p]) = a[p][u]
          /\ OfClassNamed(names[i], b[p]) = b[p][u]
      BY <2>1, <3>1 DEF OfClassNamed
    <3>4. QED
      BY <3>2, <3>3
  <2>2. CASE ~ \E u \in Types : Classes[u].Name = names[i]
    BY <2>2 DEF OfClassNamed
  <2>3. QED
    BY <2>1, <2>2
<1>2. QED
  BY <1>1

\* A class whose chains are shorter than the depth adds the same with one
\* generation more.
LEMMA DeepEnough ==
  ASSUME NEW p \in ProgramIds
  PROVE  \A k \in Nat : k + 1 <= Cardinality(Types) => \A t \in Types :
           ~Ascends(t, k + 1) =>
             RequestsToDepth[k + 1][p][t] = RequestsToDepth[k][p][t]
<1> DEFINE N == Cardinality(Types)
           Inherited(n, t) ==
             FlattenSeq([i \in DOMAIN Classes[t].ParentClasses |->
               OfClassNamed(Classes[t].ParentClasses[i],
                            RequestsToDepth[n][p])])
           S == {k \in Nat : k + 1 <= N => \A t \in Types :
                   ~Ascends(t, k + 1) =>
                     RequestsToDepth[k + 1][p][t] = RequestsToDepth[k][p][t]}
<1>1. N \in Nat /\ \A n \in 0 .. N : RequestsToDepth[n] \in Tables
  BY TableRecursion
<1>2. ASSUME NEW n \in Nat, n + 1 <= N, NEW t \in Types
      PROVE  RequestsToDepth[n + 1][p][t]
               = OwnRequests(p, t) \o Inherited(n, t)
  <2>1. n + 1 \in 1 .. N /\ (n + 1) - 1 = n
    BY <1>1, <1>2
  <2>2. RequestsToDepth[n + 1] = Deeper(RequestsToDepth[n])
    BY <2>1, TableRecursion
  <2>3. QED
    BY <2>2 DEF Deeper
<1>3. 0 \in S
  <2> SUFFICES ASSUME 1 <= N, NEW t \in Types, ~Ascends(t, 1)
               PROVE  RequestsToDepth[1][p][t] = RequestsToDepth[0][p][t]
    OBVIOUS
  <2>1. Parents(t) = {}
    <3> SUFFICES ASSUME NEW u \in Parents(t) PROVE Ascends(t, 1)
      OBVIOUS
    <3> DEFINE f == [i \in 0 .. 0 |-> u]
    <3>1. u \in Types
      BY DEF Parents
    <3>2. f \in Chains(0) /\ f[0] = u
      BY <3>1 DEF Chains
    <3>3. Ascends(u, 0) /\ 0 \in Nat /\ 0 + 1 = 1
      BY <3>2 DEF Ascends
    <3>4. QED
      BY <3>3, ParentAscends
  <2>2. /\ RequestsToDepth[0][p][t] = OwnRequests(p, t) \o << >>
        /\ RequestsToDepth[0] \in Tables
    BY <1>1, TableRecursion DEF OwnTable
  <2>3. ToSet(Inherited(0, t)) = {} /\ Inherited(0, t) \in Seq(RequestTo(p))
    BY <2>1, <2>2, InheritedMembers, InheritedTyped
  <2> DEFINE s == Inherited(0, t)
  <2>4. s = << >>
    <3>1. ToSet(s) = {} /\ s \in Seq(RequestTo(p))
      BY <2>3
    <3> HIDE DEF s
    <3>2. DOMAIN s = 1 .. Len(s) /\ Len(s) \in Nat
      BY <3>1
    <3>3. DOMAIN s = {}
      BY <3>1 DEF ToSet
    <3>4. Len(s) = 0
      <4>1. Len(s) # 0 => 1 \in 1 .. Len(s)
        BY <3>2
      <4>2. QED
        BY <3>2, <3>3, <4>1
    <3>5. QED
      BY <3>1, <3>4, EmptySeq
  <2>5. 0 \in Nat /\ 0 + 1 = 1
    OBVIOUS
  <2>6. RequestsToDepth[1][p][t] = OwnRequests(p, t) \o s
    BY <1>2, <2>5
  <2>7. QED
    BY <2>2, <2>4, <2>6
<1>4. ASSUME NEW k \in Nat, k \in S PROVE k + 1 \in S
  <2> SUFFICES ASSUME (k + 1) + 1 <= N, NEW t \in Types,
                      ~Ascends(t, (k + 1) + 1)
               PROVE  RequestsToDepth[(k + 1) + 1][p][t]
                        = RequestsToDepth[k + 1][p][t]
    OBVIOUS
  <2>1. k + 1 <= N /\ k + 1 \in Nat
    BY <1>1
  <2>2. ASSUME NEW u \in Parents(t)
        PROVE  RequestsToDepth[k + 1][p][u] = RequestsToDepth[k][p][u]
    <3>1. u \in Types
      BY DEF Parents
    <3>2. ~Ascends(u, k + 1)
      BY <2>1, ParentAscends
    <3>3. QED
      BY <1>4, <2>1, <3>1, <3>2
  <2>3. Inherited(k + 1, t) = Inherited(k, t)
    <3> DEFINE a == RequestsToDepth[k + 1]
               b == RequestsToDepth[k]
    <3>1. \A u \in Parents(t) : a[p][u] = b[p][u]
      BY <2>2
    <3> HIDE DEF a, b
    <3>2. [i \in DOMAIN Classes[t].ParentClasses |->
             OfClassNamed(Classes[t].ParentClasses[i], a[p])]
            = [i \in DOMAIN Classes[t].ParentClasses |->
                 OfClassNamed(Classes[t].ParentClasses[i], b[p])]
      BY <3>1, ParentsAgree
    <3>3. QED
      BY <3>2 DEF a, b
  <2> HIDE DEF Inherited
  <2>4. QED
    BY <1>2, <2>1, <2>3
<1>5. \A k \in Nat : k \in S
  <2> HIDE DEF S
  <2>1. QED
    BY <1>3, <1>4, Induction
<1>6. QED
  BY <1>5

\* If no class is its own ancestor, the depth at which the model cuts the
\* recursion is never reached: what AddRequests adds for a class is what it
\* describes itself, followed by all that AddRequests adds for each of its
\* parents in turn (src/src/SmartWebToMqttGateway.cpp:308).
THEOREM RecursionReturns ==
  ASSUME Acyclic, NEW p \in ProgramIds, NEW t \in Types
  PROVE  RequestsOf(p, t) =
           OwnRequests(p, t) \o
             FlattenSeq([i \in DOMAIN Classes[t].ParentClasses |->
               OfClassNamed(Classes[t].ParentClasses[i], RequestTable[p])])
<1> DEFINE N == Cardinality(Types)
<1>1. N \in Nat /\ N # 0
  <2>1. N \in Nat /\ IsFiniteSet(Types)
    BY TableRecursion, GatewayAssumption
  <2>2. N # 0
    BY <2>1, FS_EmptySet
  <2>3. QED
    BY <2>1, <2>2
<1>2. N \in 1 .. N /\ N - 1 \in Nat /\ (N - 1) + 1 = N
  BY <1>1
<1>3. RequestsToDepth[N] = Deeper(RequestsToDepth[N - 1])
  BY <1>2, TableRecursion
<1>4. ASSUME NEW u \in Parents(t)
      PROVE  RequestsToDepth[N - 1][p][u] = RequestTable[p][u]
  <2>1. u \in Types
    BY DEF Parents
  <2>2. ~Ascends(u, N)
    BY ChainsEnd DEF Ascends
  <2> DEFINE k == N - 1
  <2>3. k \in Nat /\ k + 1 <= N /\ k + 1 = N
    BY <1>1, <1>2
  <2> HIDE DEF k, N
  <2>4. RequestsToDepth[k + 1][p][u] = RequestsToDepth[k][p][u]
    BY <2>1, <2>2, <2>3, DeepEnough DEF N
  <2>5. QED
    BY <2>3, <2>4 DEF RequestTable, N, k
<1> DEFINE Parental(table) ==
             [i \in DOMAIN Classes[t].ParentClasses |->
                OfClassNamed(Classes[t].ParentClasses[i], table[p])]
<1>5. Parental(RequestsToDepth[N - 1]) = Parental(RequestTable)
  BY <1>4, ParentsAgree
<1>6. RequestsOf(p, t)
        = OwnRequests(p, t) \o FlattenSeq(Parental(RequestsToDepth[N - 1]))
  BY <1>3 DEF RequestsOf, RequestTable, Deeper
<1> HIDE DEF Parental
<1>7. RequestsOf(p, t)
        = OwnRequests(p, t) \o FlattenSeq(Parental(RequestTable))
  BY <1>5, <1>6
<1>8. QED
  BY <1>7 DEF Parental
=============================================================================
