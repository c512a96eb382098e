------------------------------ MODULE MCTelemetry ------------------------------
(* Positions on both sides of zero, of a millimetre and of a tenth, and the  *)
(* limits of a 16-bit number.                                                *)
EXTENDS Telemetry

MCPositions ==
    {-32768, -32767, -12500, -1001, -1000, -999, -500, -50, -5, 0,
     1, 70, 999, 1000, 10250, 32767}

MCLines == {[kind |-> "reply"]}

MCStatuses ==
    [uptime : {100}, state : {"MOVING", NULL}, x : MCPositions,
     y : {-4500, 0, 32767}, fault : BOOLEAN]
===============================================================================
