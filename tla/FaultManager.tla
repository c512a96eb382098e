----------------------------- MODULE FaultManager -----------------------------
(***************************************************************************)
(* fault_manager.c as operators on its two static variables: whether a     *)
(* fault is latched, and why.                                              *)
(***************************************************************************)

FaultReasons == {"NONE", "ESTOP", "LIMIT_EXCEEDED", "INVALID_COMMAND"}

FaultInit == [active |-> FALSE, reason |-> "NONE"]

\* NONE is ignored, any other reason replaces the one latched before.
LatchFault(f, r) == IF r = "NONE" THEN f ELSE [active |-> TRUE, reason |-> r]

TriggerEstop(f) == LatchFault(f, "ESTOP")

\* Mutant: the flag is cleared, the reason stays.
ClearFlagOnly(f) == [f EXCEPT !.active = FALSE]

ClearLatch(f) == [active |-> FALSE, reason |-> "NONE"]
===============================================================================
