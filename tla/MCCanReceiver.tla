---------------------------- MODULE MCCanReceiver ----------------------------
(***************************************************************************)
(* CanReceiver with two senders, a reader and a controller, a frame the    *)
(* reader accepts and one it does not.                                     *)
(***************************************************************************)
EXTENDS CanReceiver

CONSTANTS program, value, request, controller

MCAcceptFrame(f) == f # request
MCInitHandlers == <<reader, controller>>
=============================================================================
