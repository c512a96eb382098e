---------------------------- MODULE AppTaskResults ----------------------------
(***************************************************************************)
(* AppTasks together with the app_task_status_t each step returns: it      *)
(* tells a step that was refused the mutex or found a queue full, which    *)
(* AppTasks does not distinguish from no step at all, from a step that did *)
(* its work.                                                               *)
(***************************************************************************)
EXTENDS AppTasksProperties

VARIABLE result     \* what each task's last step returned, "" before the first

rvars == <<vars, result>>

Returns(t, r) == result' = [result EXCEPT ![t] = r]

RInit == Init /\ result = [t \in Task |-> ""]

\* The line of CommandTaskStep is answered or queued, or its queue is full.
AcceptReturns(c) ==
    /\ CommandAccept(c)
    /\ Returns("Command",
               IF Room(cmdQueue, CMD_CAP) THEN "OK" ELSE "ERROR_QUEUE_FULL")

RejectReturns(e) ==
    /\ CommandReject(e)
    /\ Returns("Command",
               IF Room(telQueue, TEL_CAP) THEN "ERROR_PARSE" ELSE "ERROR_QUEUE_FULL")

\* A refused mutex ends the step at once: no command, no update, no uptime.
Refused(t) ==
    /\ At(t, "idle")
    /\ locked
    /\ Returns(t, "ERROR_MUTEX")
    /\ UNCHANGED vars

MotionReturns ==
    /\ MotionRespond
    /\ Returns("Motion",
               IF response = "" THEN "NO_MESSAGE"
               ELSE IF Room(telQueue, TEL_CAP) THEN "OK" ELSE "ERROR_QUEUE_FULL")

TelemetryReturns == TelemetrySendStatus /\ Returns("Telemetry", "OK")

\* The steps in the middle of a task's step, which return nothing yet.
MotionInside ==
    \/ MotionLock \/ MotionReceive \/ MotionHandle
    \/ MotionAdvance \/ MotionRefresh \/ MotionUnlock
TelemetryInside ==
    \/ TelemetryLock \/ TelemetryCopyMotion \/ TelemetryCopyRest
    \/ TelemetryUnlock \/ TelemetryDrain

GoesOn == (MotionInside \/ TelemetryInside) /\ UNCHANGED result

RNext ==
    \/ \E c \in Commands : AcceptReturns(c)
    \/ \E e \in ParseErrors : RejectReturns(e)
    \/ \E t \in {"Motion", "Telemetry"} : Refused(t)
    \/ MotionReturns
    \/ TelemetryReturns
    \/ GoesOn

RSpec == RInit /\ [][RNext]_rvars

-----------------------------------------------------------------------------
(* Properties.                                                             *)

\* With the scheduler's priorities TelemetryTask is never refused the mutex:
\* MotionTask leaves its section before anything of a lower priority runs.
TelemetryNeverRefused == result["Telemetry"] # "ERROR_MUTEX"

\* requirements.md, REQ-007: when ESTOP is received motion stops and the fault
\* is set.  CommandTask drops an ESTOP that finds the command queue full.
EstopIsQueued ==
    [][ \A c \in Commands :
          c.type = "ESTOP" /\ AcceptReturns(c) => Len(cmdQueue') > Len(cmdQueue)
      ]_rvars
===============================================================================
