---------------------------- MODULE MCPidController ----------------------------
(* Ranges on both sides of zero, one that excludes it and one of a single    *)
(* number; errors that reach a limit in one update and in several; refused   *)
(* configurations, one of them with gains no accepted one has.               *)
EXTENDS PidController

Limits(omin, omax, imin, imax) ==
    [kp |-> 1, ki |-> 2, kd |-> 1, output_min |-> omin, output_max |-> omax,
     integral_min |-> imin, integral_max |-> imax]

MCConfigs ==
    {Limits(-6, 6, -3, 3), Limits(0, 4, 1, 5), Limits(2, 2, -1, -1),
     [Limits(-6, 6, -3, 3) EXCEPT !.kd = NaN],
     [Limits(3, -3, -1, 1) EXCEPT !.kp = 5], Limits(-3, 3, 1, -1), Limits(NaN, 3, -1, NaN)}

MCGarbage ==
    {[config |-> Limits(0, 0, 0, 0), previous_error |-> 0, integral |-> 0,
      initialized |-> FALSE],
     [config |-> Limits(5, -5, 2, -2), previous_error |-> NaN, integral |-> 9,
      initialized |-> TRUE]}

MCSignals == {-1, 0, 1, 4, NaN}
MCTimes == {-1, 0, 1, 2, NaN}
===============================================================================
