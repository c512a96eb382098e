------------------------------- MODULE DemoTasks -------------------------------
(***************************************************************************)
(* What the two demo programs share: the steps of the tasks as the calls   *)
(* they make, the script they feed to CommandTask, and what stdout has     *)
(* been given.                                                             *)
(***************************************************************************)
EXTENDS AppTaskResults

CONSTANT Script     \* the commands of the demo script, which the parser accepts

ASSUME ScriptAssumption == Script \in Seq(Commands)

VARIABLES
    printed,    \* the replies written so far
    shown       \* state and fault flag of the status lines written so far

dvars == <<rvars, printed, shown>>

\* app_tasks_init and telemetry_send_startup.
DemoInit ==
    /\ RInit
    /\ printed = <<"OK BOOT RTOS_MOTION_FW_SIM">>
    /\ shown = {}

CommandCall(c) == AcceptReturns(c) /\ UNCHANGED <<printed, shown>>

MotionCall(delta) ==
    /\ \/ MotionReturns
       \/ Refused("Motion")
       \/ MotionInside /\ UNCHANGED result
    /\ pc["Motion"] = "advance" => uptime' = (uptime + delta) % UPTIME_MOD
    /\ UNCHANGED <<printed, shown>>

TelemetryCall ==
    /\ \/ TelemetryReturns
       \/ Refused("Telemetry")
       \/ TelemetryInside /\ UNCHANGED result
    /\ printed' = IF telQueue' # telQueue THEN Append(printed, line') ELSE printed
    /\ shown' = IF pc["Telemetry"] = "drain" /\ pc'["Telemetry"] = "idle"
                THEN shown \cup {<<snapshot.state, snapshot.fault>>} ELSE shown

\* The call of task t has returned.
Returned(t) == pc'[t] = "idle"
===============================================================================
