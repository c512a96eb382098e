------------------------------ MODULE MCAppTasks ------------------------------
(* A stage of one axis and two units that a move crosses in two ticks, and   *)
(* one command of every kind whose handling differs.                         *)
EXTENDS AppTasksProperties

Bare(type) == [type |-> type, x |-> 0, y |-> 0, f |-> 0]
MoveTo(x, f) == [type |-> "MOVE", x |-> x, y |-> 0, f |-> f]

\* The scheduler's priorities, and equal ones: any interleaving of the steps.
MCPriority == [Command |-> 3, Motion |-> 4, Telemetry |-> 2]
MCEqual == [Command |-> 1, Motion |-> 1, Telemetry |-> 1]

MCCommands ==
    {MoveTo(MAX_X, 3), MoveTo(MAX_X + 1, 3),
     Bare("STOP"), Bare("ESTOP"), Bare("CLEAR_FAULT"), Bare("PING"), Bare("STATUS")}

MCParseErrors == {"ERR_INVALID_ARGUMENT"}
MCNoErrors == {}

\* The commands that move the stage or change the fault.
MCSafetyCommands ==
    {MoveTo(MAX_X, 3), MoveTo(MAX_X + 1, 3), Bare("ESTOP"), Bare("CLEAR_FAULT")}

\* The shortest story about an emergency stop.
MCEstopCommands == {MoveTo(MAX_X, 3), Bare("ESTOP"), Bare("CLEAR_FAULT")}

MCDeltas == {1}
===============================================================================
