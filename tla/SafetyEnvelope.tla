---------------------------- MODULE SafetyEnvelope ----------------------------
(***************************************************************************)
(* What the firmware promises about the stage, whatever tasks, queues and  *)
(* locks it is built from: one mode and one position.  The stage moves     *)
(* only in MOVING, stays inside the travel range, and a fault freezes it   *)
(* until it is cleared explicitly.                                         *)
(***************************************************************************)
EXTENDS Integers

CONSTANTS Range_X, Range_Y  \* the travel ranges of the two axes

VARIABLES mode, pos

vars == <<mode, pos>>

Positions == Range_X \X Range_Y

Init == mode = "READY" /\ pos = <<0, 0>>

\* A move begins, or replaces the one under way; one of no length is over.
Move == mode # "FAULTED" /\ mode' \in {"MOVING", "READY"} /\ UNCHANGED pos

\* Time passes for a move under way; reaching the target ends it.
Advance == mode = "MOVING" /\ mode' \in {"MOVING", "READY"} /\ pos' \in Positions

Stop == mode = "MOVING" /\ mode' = "READY" /\ UNCHANGED pos

Fault == mode' = "FAULTED" /\ UNCHANGED pos

Clear == mode = "FAULTED" /\ mode' = "READY" /\ UNCHANGED pos

Next == Move \/ Advance \/ Stop \/ Fault \/ Clear

Spec == Init /\ [][Next]_vars
===============================================================================
