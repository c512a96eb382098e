--------------------------- MODULE MCAppTaskReplies ----------------------------
(* The scheduler's priorities; two commands and a rejected line with three   *)
(* different replies.  No moves: the replies do not depend on them.          *)
EXTENDS AppTaskReplies

Bare(type) == [type |-> type, x |-> 0, y |-> 0, f |-> 0]

MCPriority == [Command |-> 3, Motion |-> 4, Telemetry |-> 2]
MCCommands == {Bare("STATUS"), Bare("ESTOP")}
MCParseErrors == {"ERR_INVALID_ARGUMENT"}
MCDeltas == {1}
===============================================================================
