------------------------- MODULE MCVirtualController -------------------------
(***************************************************************************)
(* VirtualController on a small instance: one mapped output, one mapped    *)
(* parameter on the same control, and the frames that take each branch of  *)
(* IsForMe and handle_request.                                             *)
(***************************************************************************)
EXTENDS VirtualController

CONSTANTS vin, mcUnmapped

Me     == 204
Other  == 7
Bound  == 11      \* raw_info of a mapped parameter
Free   == 12      \* raw_info of an unmapped one

MCOutputMapping == [ch \in Channels |-> IF ch = 0 THEN vin ELSE mcUnmapped]
MCParameterMapping == [k \in {Bound} |-> vin]
NoTimeout == [c \in {vin} |-> -1]
ShortTimeout == [c \in {vin} |-> 2]

Request(type, id, function, host, ch, raw) ==
  [program_type |-> type, program_id |-> id, function_id |-> function,
   message_type |-> MT_MSG_REQUEST,
   mapping_point |-> [hostID |-> host, channelID |-> ch],
   parameter |-> [program_type |-> PT_CONTROLLER, raw_info |-> raw]]

AskOutput(ch) ==
  Request(PT_CONTROLLER, Other, GET_OUTPUT_VALUE, Me, ch, Free)
AskParameter(k) ==
  Request(PT_REMOTE_CONTROL, Me, GET_PARAMETER_VALUE, Other, 0, k)
AskController(function) ==
  Request(PT_CONTROLLER, Me, function, Other, 0, Free)
NotRequest(f) == [f EXCEPT !.message_type = MT_MSG_RESPONSE]

\* Frames of a quiet bus: each is served to the end of the turn.
ServedFrames == {AskOutput(0), AskParameter(Bound)}

\* The panel's JOURNAL request, for which there is no case.
JournalFrames == {AskOutput(0), AskController(JOURNAL)}

\* Every kind of fate: scheduled, read and answered, answered at once, answered
\* although it is not a request, refused when replying, refused outright, and
\* not for this controller.
AllFrames ==
  {AskOutput(0), AskParameter(Free), AskController(GET_CONTROLLER_TYPE),
   AskController(I_AM_HERE), NotRequest(AskController(GET_CHANNEL_NUMBER)),
   Request(PT_CONTROLLER, Me, GET_OUTPUT_VALUE, Other, 0, Free),
   Request(PT_CONTROLLER, Other, GET_OUTPUT_VALUE, Other, 0, Free)}
=============================================================================
