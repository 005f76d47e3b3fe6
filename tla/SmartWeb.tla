------------------------------ MODULE SmartWeb ------------------------------
(***************************************************************************)
(* The SmartWeb CAN conventions both gateways share                        *)
(* (src/src/smart_web_conventions.h): program types, function identifiers, *)
(* message types, and the 16-bit encoding of a sensor value.               *)
(***************************************************************************)
EXTENDS Integers

\* E_ProgramType, the members the gateways test.
PT_PROGRAM        == 1
PT_CONTROLLER     == 11
PT_REMOTE_CONTROL == 22

\* E_MessageType.
MT_MSG_REQUEST  == 0
MT_MSG_RESPONSE == 2

\* SmartWeb::Controller::Function.  JOURNAL and GET_ACTIVE_PROGRAMS_LIST stand
\* for the identifiers the virtual controller has no case for.
I_AM_HERE                == 1
GET_ACTIVE_PROGRAMS_LIST == 3
GET_CONTROLLER_TYPE      == 8
GET_CHANNEL_NUMBER       == 10
GET_OUTPUT_VALUE         == 19
JOURNAL                  == 21

\* SmartWeb::RemoteControl::Function, its Parameters, and SmartWeb::Program.
GET_PARAMETER_VALUE == 1
SET_PARAMETER_VALUE == 2
SENSOR              == 1
OUTPUT              == 2
I_AM_PROGRAM        == 7

\* The reserved readings: a sensor value equal to one of them is not a number.
SENSOR_SHORT_VALUE == -32768
SENSOR_OPEN_VALUE  == -32767
SENSOR_UNDEFINED   == -32766

Int16 == {i \in Int : -32768 <= i /\ i <= 32767}

\* Mutant: a saturated or narrowed conversion is forgotten.
ToInt16_wide(i) == i

\* static_cast of an integer to int16_t keeps its low 16 bits.
ToInt16(i) == ((i + 32768) % 65536) - 32768

\* Integer division that truncates towards zero, as a conversion from double.
TruncDiv(i, d) == IF i >= 0 THEN i \div d ELSE -((-i) \div d)

\* SensorData::FromDouble for a reading given in hundredths: tenths, truncated
\* towards zero, narrowed to int16_t.  The narrowing of an out-of-range double
\* is undefined in C++; the builds convert to a 32-bit integer and keep its low
\* 16 bits.
FromDouble(hundredths) == ToInt16(TruncDiv(hundredths, 10))
=============================================================================
