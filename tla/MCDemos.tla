--------------------------------- MODULE MCDemos --------------------------------
(* The demo's script on an axis of 22 units.  The move of the script needs   *)
(* 22 motion periods at its feed rate, so ESTOP finds it under way.          *)
EXTENDS Demos

MCPriority == [Command |-> 3, Motion |-> 4, Telemetry |-> 2]
MCPeriod == [Command |-> 10, Motion |-> 2, Telemetry |-> 10]

Bare(type) == [type |-> type, x |-> 0, y |-> 0, f |-> 0]
MCScript ==
    << Bare("PING"), [type |-> "MOVE", x |-> MAX_X, y |-> 0, f |-> 1],
       Bare("ESTOP"), Bare("CLEAR_FAULT"), Bare("STATUS") >>

MCCommands == {MCScript[i] : i \in DOMAIN MCScript}
MCNoErrors == {}
MCDeltas == {0, 1}
===============================================================================
