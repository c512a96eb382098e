------------------------------ MODULE AppScheduler ------------------------------
(***************************************************************************)
(* app_scheduler.c: the three tasks as periodic loops around their steps,  *)
(* the supervisor that ends the demo, and the kernel that runs them.       *)
(*                                                                         *)
(* One tick here is half a motion period.  The tick interrupt may come at  *)
(* any moment; one that finds a task still working is late work, and at    *)
(* most MAX_LATE of those come in a whole demo.  A task inside a step is   *)
(* wherever AppTasks has it, so a tick preempts it between two actions.    *)
(***************************************************************************)
EXTENDS DemoTasks

CONSTANTS
    Period,             \* APP_SCHEDULER_*_PERIOD_MS of each task, in ticks
    SUPERVISOR_PRIORITY,
    DEMO_RUNTIME,       \* APP_SCHEDULER_DEMO_RUNTIME_MS, in ticks
    SHUTDOWN_GRACE,     \* APP_SCHEDULER_SHUTDOWN_GRACE_MS, in ticks
    MAX_LATE            \* bound on the ticks that find a task still working

\* The supervisor has the lowest priority, no period is zero, and uptime_ms does
\* not wrap within one demo.
ASSUME SchedulerAssumption ==
    /\ Period \in [Task -> Nat \ {0}]
    /\ SUPERVISOR_PRIORITY \in Nat
    /\ \A t \in Task : SUPERVISOR_PRIORITY < Priority[t]
    /\ DEMO_RUNTIME \in Nat /\ SHUTDOWN_GRACE \in Nat /\ MAX_LATE \in Nat
    /\ DEMO_RUNTIME + MAX_LATE + 1 < UPTIME_MOD

Thread == Task \cup {"Supervisor"}

VARIABLES
    now,        \* the kernel's tick count
    late,       \* the ticks so far that found a task still working
    at,         \* where each loop is: "created", "step", "delay", "stopped";
                \* the supervisor: "created", "runtime", "stop", "grace", "ended"
    wake,       \* last_wake_time of a task plus its delay: when it is due
    index,      \* command_index
    stop,       \* app_scheduler_stop_requested
    began,      \* the tick count at which MotionTask entered its loop
    refused     \* steps of MotionTask that returned without the mutex

loops == <<at, wake, index, stop, began, refused>>
svars == <<dvars, now, late, loops>>

SchedulerInit ==
    /\ DemoInit
    /\ now = 0
    /\ late = 0
    /\ at = [t \in Thread |-> "created"]
    /\ wake = [t \in Thread |-> 0]
    /\ index = 0
    /\ stop = FALSE
    /\ began = 0
    /\ refused = 0

-----------------------------------------------------------------------------
(* The kernel.                                                             *)

Rank(t) == IF t = "Supervisor" THEN SUPERVISOR_PRIORITY ELSE Priority[t]

Ready(t) ==
    \/ at[t] \in {"created", "step", "stop"}
    \/ at[t] \in {"delay", "runtime", "grace"} /\ now >= wake[t]

Busy == \E t \in Thread : Ready(t)

\* Mutant: the supervisor's deadline is served before the tasks' own.
RunningSupervisorFirst(t) ==
    /\ Ready(t)
    /\ \/ t = "Supervisor"
       \/ \A u \in Thread : Ready(u) => Rank(u) <= Rank(t) /\ u # "Supervisor"

\* The ready task of the highest priority has the processor.
Running(t) == Ready(t) /\ \A u \in Thread : Ready(u) => Rank(u) <= Rank(t)

Tick ==
    /\ at["Supervisor"] # "ended"
    /\ now' = now + 1
    /\ late' = IF Busy THEN late + 1 ELSE late
    /\ late' <= MAX_LATE
    /\ UNCHANGED <<dvars, loops>>

-----------------------------------------------------------------------------
(* The loops of the tasks.                                                 *)

\* The while condition; the first time, last_wake_time is read before it.
Begin(t) ==
    /\ Running(t)
    /\ at[t] \in {"created", "delay"}
    /\ at' = [at EXCEPT ![t] = IF stop THEN "stopped" ELSE "step"]
    /\ wake' = IF at[t] = "created" THEN [wake EXCEPT ![t] = now] ELSE wake
    /\ began' = IF at[t] = "created" /\ t = "Motion" THEN now ELSE began
    /\ UNCHANGED <<dvars, now, late, index, stop, refused>>

\* Mutant: each period is counted from the end of the step before it.
DelayFromNow(t) ==
    /\ at' = [at EXCEPT ![t] = "delay"]
    /\ wake' = [wake EXCEPT ![t] = now + Period[t]]

\* vTaskDelayUntil: the next period is counted from the last one, however late
\* the step ended.  One that has passed already does not block the task.
DelayUntil(t) ==
    /\ at' = [at EXCEPT ![t] = "delay"]
    /\ wake' = [wake EXCEPT ![t] = @ + Period[t]]

\* Mutant: at the script's end its last line is fed again and again.
FeedLastForever ==
    CommandCall(Script[IF index < Len(Script) THEN index + 1 ELSE Len(Script)])
        /\ index' = IF index < Len(Script) THEN index + 1 ELSE index

\* The next line of the script, if one is left.
Feed ==
    IF index < Len(Script)
    THEN CommandCall(Script[index + 1]) /\ index' = index + 1
    ELSE UNCHANGED <<dvars, index>>

\* One action of t's step; when its call returns, the task waits.
Run(t) ==
    /\ Running(t)
    /\ at[t] = "step"
    /\ \/ t = "Command" /\ Feed
       \/ t = "Motion" /\ MotionCall(1) /\ UNCHANGED index
       \/ t = "Telemetry" /\ TelemetryCall /\ UNCHANGED index
    /\ IF Returned(t) THEN DelayUntil(t) ELSE UNCHANGED <<at, wake>>
    /\ refused' = IF t = "Motion" /\ result'[t] = "ERROR_MUTEX" /\ Returned(t)
                  THEN refused + 1 ELSE refused
    /\ UNCHANGED <<now, late, stop, began>>

-----------------------------------------------------------------------------
(* The supervisor.                                                         *)

SupervisorGoes(from, to, due) ==
    /\ Running("Supervisor")
    /\ at["Supervisor"] = from
    /\ at' = [at EXCEPT !["Supervisor"] = to]
    /\ wake' = [wake EXCEPT !["Supervisor"] = due]
    /\ UNCHANGED <<dvars, now, late, index, began, refused>>

Supervisor ==
    \/ SupervisorGoes("created", "runtime", now + DEMO_RUNTIME) /\ UNCHANGED stop
    \/ SupervisorGoes("runtime", "stop", 0) /\ stop' = TRUE
    \/ SupervisorGoes("stop", "grace", now + SHUTDOWN_GRACE) /\ UNCHANGED stop
    \/ SupervisorGoes("grace", "ended", 0) /\ UNCHANGED stop

SchedulerStep ==
    \/ Tick
    \/ \E t \in Task : Begin(t) \/ Run(t)
    \/ Supervisor
===============================================================================
