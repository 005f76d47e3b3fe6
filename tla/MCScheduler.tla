----------------------------- MODULE MCScheduler -----------------------------
(***************************************************************************)
(* Scheduler with two tasks of different periods; a run may take longer    *)
(* than either.                                                            *)
(***************************************************************************)
EXTENDS Scheduler

CONSTANTS poll, other

MCPeriod == [t \in TaskIds |-> IF t = poll THEN 2 ELSE 12]
=============================================================================
