-------------------------------- MODULE HostDemo --------------------------------
(***************************************************************************)
(* main.c: the demo without a kernel.  Two nested loops call the steps of  *)
(* the tasks in turn, and main gives up as soon as one does not return     *)
(* what the script relies on.                                              *)
(***************************************************************************)
EXTENDS DemoTasks

CONSTANT SIMULATION_STEPS   \* MAIN_SIMULATION_STEPS, 20 in the code

ASSUME HostAssumption == SIMULATION_STEPS \in Nat

VARIABLES
    call,   \* the task whose step is under way or due
    step,   \* the line of the script, counted from 1
    tick,   \* the round of the simulation after it, 0 in main_run_command
    exit    \* what main has returned, "" while it runs

main == <<call, step, tick, exit>>

HostInit ==
    /\ DemoInit
    /\ call = "Command" /\ step = 1 /\ tick = 0
    /\ exit = IF Script = <<>> THEN "0" ELSE ""

\* One action of the call under way; main_run_command lets no time pass.
Perform ==
    \/ call = "Command" /\ CommandCall(Script[step])
    \/ call = "Motion" /\ MotionCall(IF tick = 0 THEN 0 ELSE 1)
    \/ call = "Telemetry" /\ TelemetryCall

\* The statuses main goes on after: a tick need not find a command.
Accepted == IF call = "Motion" /\ tick > 0 THEN {"OK", "NO_MESSAGE"} ELSE {"OK"}

\* The simulation runs after the second line, MOVE in the code's script.
Simulates == step = 2 /\ tick < SIMULATION_STEPS

\* The loops go on to the next call, or main ends.
GoTo(c, i, k) == call' = c /\ step' = i /\ tick' = k /\ UNCHANGED exit

Advance ==
    \/ call = "Command" /\ GoTo("Motion", step, tick)
    \/ call = "Motion" /\ GoTo("Telemetry", step, tick)
    \/ call = "Telemetry" /\ Simulates /\ GoTo("Motion", step, tick + 1)
    \/ call = "Telemetry" /\ ~Simulates /\ step < Len(Script) /\ GoTo("Command", step + 1, 0)
    \/ /\ call = "Telemetry" /\ ~Simulates /\ step = Len(Script)
       /\ exit' = "0" /\ UNCHANGED <<call, step, tick>>

\* Mutant: a tick without a command to answer counts as a failure.
ProceedOnlyOnOk ==
    \/ ~Returned(call) /\ UNCHANGED main
    \/ Returned(call) /\ result'[call] = "OK" /\ Advance
    \/ Returned(call) /\ result'[call] # "OK" /\ exit' = "1" /\ UNCHANGED <<call, step, tick>>

\* What main does with the status the call returned, if it has.
Proceed ==
    \/ ~Returned(call) /\ UNCHANGED main
    \/ Returned(call) /\ result'[call] \in Accepted /\ Advance
    \/ /\ Returned(call) /\ result'[call] \notin Accepted
       /\ exit' = "1" /\ UNCHANGED <<call, step, tick>>

HostStep == exit = "" /\ Perform /\ Proceed
===============================================================================
