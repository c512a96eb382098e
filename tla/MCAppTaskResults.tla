--------------------------- MODULE MCAppTaskResults ---------------------------
(* The instance of MCAppTasks with the results of the steps.                 *)
EXTENDS AppTaskResults

Bare(type) == [type |-> type, x |-> 0, y |-> 0, f |-> 0]

\* The scheduler's priorities.  No moves: the results do not depend on them.
MCPriority == [Command |-> 3, Motion |-> 4, Telemetry |-> 2]
MCCommands == {Bare("STOP"), Bare("ESTOP"), Bare("CLEAR_FAULT")}
MCParseErrors == {"ERR_INVALID_ARGUMENT"}
MCDeltas == {1}
===============================================================================
