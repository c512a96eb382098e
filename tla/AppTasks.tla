------------------------------- MODULE AppTasks -------------------------------
(***************************************************************************)
(* app_tasks.c: CommandTask, MotionTask and TelemetryTask over the context *)
(* they share, cut into steps wherever another task can run in between.    *)
(*                                                                         *)
(* Time is left out: a task that is "idle" may start its next step at any  *)
(* moment.  What remains of the scheduler is preemption: a task runs only  *)
(* while no task of a higher priority is inside a step of its own.  No     *)
(* step blocks (every queue and mutex call has a zero timeout), so a task  *)
(* inside a step always wants the processor.                               *)
(*                                                                         *)
(* The statuses the steps return are discarded by their only callers, so   *)
(* they are not state here (AppTaskResults adds them).  A step that is     *)
(* refused the mutex returns at once and changes nothing: a stutter.       *)
(***************************************************************************)
EXTENDS MotionController, FaultManager, Sequences

CONSTANTS
    Priority,       \* the FreeRTOS priority of each task
    CMD_CAP,        \* APP_COMMAND_QUEUE_CAPACITY, 8 in the code
    TEL_CAP,        \* APP_TELEMETRY_QUEUE_CAPACITY, 16 in the code
    Commands,       \* the commands the parser accepts from the input lines
    ParseErrors,    \* the texts it answers the rejected lines with
    Deltas,         \* the delta_ms MotionTask passes to its step
    UPTIME_MOD      \* number of values of uptime_ms, 2^32 in the code

Task == {"Command", "Motion", "Telemetry"}

CommandTypes == {"PING", "STATUS", "MOVE", "STOP", "ESTOP", "CLEAR_FAULT"}

\* A parsed command; the parser clears the operands of all but MOVE.
Command == [type : CommandTypes, x : Int, y : Int, f : 0..(UINT_MOD - 1)]

\* The rules of the parser that the tasks rely on: a feed rate is never zero.
ASSUME TasksAssumption ==
    /\ Priority \in [Task -> Nat]
    /\ CMD_CAP \in Nat \ {0}
    /\ TEL_CAP \in Nat \ {0}
    /\ Commands \subseteq Command
    /\ \A c \in Commands : c.type = "MOVE" => c.f # 0
    /\ ParseErrors \subseteq STRING
    /\ Deltas \subseteq Nat
    /\ UPTIME_MOD \in Nat \ {0}

EventBits == {"MOVING", "FAULTED", "STOP_REQUESTED"}

MotionReplies ==
    {"OK PONG", "OK STATUS", "OK MOVE QUEUED", "OK STOPPED", "OK ESTOP",
     "OK FAULT CLEARED", "ERR FAULT_ACTIVE", "ERR LIMIT_EXCEEDED",
     "ERR MOVE_REJECTED"}

VARIABLES
    cmdQueue,   \* context->command_queue, oldest message first
    telQueue,   \* context->telemetry_queue, oldest line first
    locked,     \* context->state_mutex
    events,     \* the bits set in context->event_group
    uptime,     \* context->uptime_ms
    motion,     \* the static variables of motion_controller.c
    fault,      \* the static variables of fault_manager.c
    pc,         \* where each task is: "idle" between two steps
    command,    \* MotionTask's local message
    response,   \* MotionTask's local response, "" for NULL
    snapshot,   \* TelemetryTask's local telemetry_status
    line        \* TelemetryTask's local message, the last line it wrote

shared == <<cmdQueue, telQueue, locked, events, uptime, motion, fault>>
vars == <<cmdQueue, telQueue, locked, events, uptime, motion, fault,
          pc, command, response, snapshot, line>>

NoCommand == [type |-> "NONE", x |-> 0, y |-> 0, f |-> 0]
NoSnapshot == [state |-> "IDLE", x |-> 0, y |-> 0, uptime |-> 0, fault |-> FALSE]

\* app_tasks_init.
Init ==
    /\ cmdQueue = <<>>
    /\ telQueue = <<>>
    /\ locked = FALSE
    /\ events = {}
    /\ uptime = 0
    /\ motion = MotionInit
    /\ fault = FaultInit
    /\ pc = [t \in Task |-> "idle"]
    /\ command = NoCommand
    /\ response = ""
    /\ snapshot = NoSnapshot
    /\ line = ""

-----------------------------------------------------------------------------
(* Scheduling, and the queue sends the tasks share.                        *)

\* Mutant: no task waits for another, whatever their priorities.
MayRunAlways(t) == TRUE

\* The scheduler runs t only if every task of a higher priority is waiting.
MayRun(t) == \A u \in Task : Priority[u] > Priority[t] => pc[u] = "idle"

At(t, label) == pc[t] = label /\ MayRun(t)
Goto(t, label) == pc' = [pc EXCEPT ![t] = label]

\* Both ports refuse a message for a full queue and never wait for room.
Room(queue, cap) == Len(queue) < cap

\* Mutant: a full queue makes room by dropping its oldest message.
SentOverOldest(queue, cap, msg) ==
    Append(IF Room(queue, cap) THEN queue ELSE Tail(queue), msg)

Sent(queue, cap, msg) == IF Room(queue, cap) THEN Append(queue, msg) ELSE queue

\* The event bits after app_tasks_refresh_motion_events.
Refreshed(bits, m, f) ==
    (bits \ {"MOVING", "FAULTED"})
        \cup (IF m.state = "MOVING" THEN {"MOVING"} ELSE {})
        \cup (IF f.active THEN {"FAULTED"} ELSE {})

-----------------------------------------------------------------------------
(* CommandTask.  Parsing reads and writes nothing that is shared, and the  *)
(* step ends with its one queue operation, so the step is one action.      *)

CommandAccept(c) ==
    /\ At("Command", "idle")
    /\ cmdQueue' = Sent(cmdQueue, CMD_CAP, c)
    /\ UNCHANGED <<telQueue, locked, events, uptime, motion, fault,
                   pc, command, response, snapshot, line>>

CommandReject(e) ==
    /\ At("Command", "idle")
    /\ telQueue' = Sent(telQueue, TEL_CAP, e)
    /\ UNCHANGED <<cmdQueue, locked, events, uptime, motion, fault,
                   pc, command, response, snapshot, line>>

CommandTaskStep ==
    \/ \E c \in Commands : CommandAccept(c)
    \/ \E e \in ParseErrors : CommandReject(e)

-----------------------------------------------------------------------------
(* MotionTask.                                                             *)

MotionLock ==
    /\ At("Motion", "idle")
    /\ ~locked
    /\ locked' = TRUE
    /\ Goto("Motion", "receive")
    /\ UNCHANGED <<cmdQueue, telQueue, events, uptime, motion, fault,
                   command, response, snapshot, line>>

MotionReceive ==
    /\ At("Motion", "receive")
    /\ IF cmdQueue = <<>>
       THEN Goto("Motion", "advance") /\ UNCHANGED <<cmdQueue, command>>
       ELSE /\ command' = Head(cmdQueue)
            /\ cmdQueue' = Tail(cmdQueue)
            /\ Goto("Motion", "handle")
    /\ UNCHANGED <<telQueue, locked, events, uptime, motion, fault,
                   response, snapshot, line>>

(* app_tasks_handle_command, one operator per case of its switch.          *)

HandlePing == response' = "OK PONG" /\ UNCHANGED <<motion, fault, events>>

HandleStatus == response' = "OK STATUS" /\ UNCHANGED <<motion, fault, events>>

\* The three gates of a MOVE: the fault latch, the bounds, and start_move's own.
MoveBlocked ==
    /\ fault.active
    /\ response' = "ERR FAULT_ACTIVE"
    /\ UNCHANGED <<motion, fault, events>>

MoveOutOfBounds ==
    /\ ~fault.active
    /\ ~IsTargetInBounds(command.x, command.y)
    /\ fault' = LatchFault(fault, "LIMIT_EXCEEDED")
    /\ motion' = SetFault(motion)
    /\ events' = Refreshed(events, motion', fault')
    /\ response' = "ERR LIMIT_EXCEEDED"

MoveInBounds ==
    /\ ~fault.active
    /\ IsTargetInBounds(command.x, command.y)
    /\ motion' = StartMove(motion, command.x, command.y, command.f)
    /\ LET kept == events \ {"STOP_REQUESTED"}
       IN  IF AcceptsMove(motion, command.f)
           THEN /\ events' = Refreshed(kept, motion', fault)
                /\ response' = "OK MOVE QUEUED"
           ELSE events' = kept /\ response' = "ERR MOVE_REJECTED"
    /\ UNCHANGED fault

\* Mutant: the fault latch is not asked, only the bounds are.
HandleMoveUngated ==
    \/ /\ ~IsTargetInBounds(command.x, command.y)
       /\ fault' = LatchFault(fault, "LIMIT_EXCEEDED")
       /\ motion' = SetFault(motion)
       /\ events' = Refreshed(events, motion', fault')
       /\ response' = "ERR LIMIT_EXCEEDED"
    \/ /\ IsTargetInBounds(command.x, command.y)
       /\ motion' = StartMove(motion, command.x, command.y, command.f)
       /\ events' = Refreshed(events \ {"STOP_REQUESTED"}, motion', fault)
       /\ response' = "OK MOVE QUEUED"
       /\ UNCHANGED fault

HandleMove == MoveBlocked \/ MoveOutOfBounds \/ MoveInBounds

\* Mutant: STOP is acknowledged and published but never reaches the stage.
HandleStopPublishOnly ==
    /\ events' = Refreshed(events \cup {"STOP_REQUESTED"}, motion, fault)
    /\ response' = "OK STOPPED"
    /\ UNCHANGED <<motion, fault>>

HandleStop ==
    /\ motion' = Stop(motion)
    /\ events' = Refreshed(events \cup {"STOP_REQUESTED"}, motion', fault)
    /\ response' = "OK STOPPED"
    /\ UNCHANGED fault

\* Mutant: ESTOP latches the fault but leaves the motion module to run on.
HandleEstopFaultOnly ==
    /\ fault' = TriggerEstop(fault)
    /\ events' = (events \ {"MOVING"}) \cup {"FAULTED"}
    /\ response' = "OK ESTOP"
    /\ UNCHANGED motion

HandleEstop ==
    /\ fault' = TriggerEstop(fault)
    /\ motion' = SetFault(motion)
    /\ events' = (events \ {"MOVING"}) \cup {"FAULTED"}
    /\ response' = "OK ESTOP"

\* Mutant: only the fault manager is cleared, the motion module stays in FAULT.
HandleClearFaultManagerOnly ==
    /\ fault' = ClearLatch(fault)
    /\ events' = events \ EventBits
    /\ response' = "OK FAULT CLEARED"
    /\ UNCHANGED motion

HandleClearFault ==
    /\ fault' = ClearLatch(fault)
    /\ motion' = ClearFault(motion)
    /\ events' = events \ EventBits
    /\ response' = "OK FAULT CLEARED"

HandleCommand ==
    \/ command.type = "PING" /\ HandlePing
    \/ command.type = "STATUS" /\ HandleStatus
    \/ command.type = "MOVE" /\ HandleMove
    \/ command.type = "STOP" /\ HandleStop
    \/ command.type = "ESTOP" /\ HandleEstop
    \/ command.type = "CLEAR_FAULT" /\ HandleClearFault

\* Everything the handler touches belongs to the holder of the mutex.
MotionHandle ==
    /\ At("Motion", "handle")
    /\ HandleCommand
    /\ Goto("Motion", "advance")
    /\ UNCHANGED <<cmdQueue, telQueue, locked, uptime,
                   command, snapshot, line>>

MotionAdvance ==
    /\ At("Motion", "advance")
    /\ \E delta \in Deltas :
          /\ motion' = Update(motion, delta)
          /\ uptime' = (uptime + delta) % UPTIME_MOD
    /\ Goto("Motion", "refresh")
    /\ UNCHANGED <<cmdQueue, telQueue, locked, events, fault,
                   command, response, snapshot, line>>

\* Mutant: the events are left as the command handler set them.
MotionRefreshSkipped ==
    /\ At("Motion", "refresh")
    /\ Goto("Motion", "unlock")
    /\ UNCHANGED <<shared, command, response, snapshot, line>>

MotionRefresh ==
    /\ At("Motion", "refresh")
    /\ events' = Refreshed(events, motion, fault)
    /\ Goto("Motion", "unlock")
    /\ UNCHANGED <<cmdQueue, telQueue, locked, uptime, motion, fault,
                   command, response, snapshot, line>>

MotionUnlock ==
    /\ At("Motion", "unlock")
    /\ locked' = FALSE
    /\ Goto("Motion", "respond")
    /\ UNCHANGED <<cmdQueue, telQueue, events, uptime, motion, fault,
                   command, response, snapshot, line>>

\* Mutant: the response is kept for the next tick.
MotionRespondKeepsResponse ==
    /\ At("Motion", "respond")
    /\ telQueue' = IF response = "" THEN telQueue
                    ELSE Sent(telQueue, TEL_CAP, response)
    /\ Goto("Motion", "idle")
    /\ command' = NoCommand
    /\ UNCHANGED <<cmdQueue, locked, events, uptime, motion, fault,
                   response, snapshot, line>>

\* The response is sent after the unlock; the locals end with the step.
MotionRespond ==
    /\ At("Motion", "respond")
    /\ telQueue' = IF response = "" THEN telQueue
                    ELSE Sent(telQueue, TEL_CAP, response)
    /\ Goto("Motion", "idle")
    /\ command' = NoCommand
    /\ response' = ""
    /\ UNCHANGED <<cmdQueue, locked, events, uptime, motion, fault, snapshot, line>>

MotionTaskStep ==
    \/ MotionLock
    \/ MotionReceive
    \/ MotionHandle
    \/ MotionAdvance
    \/ MotionRefresh
    \/ MotionUnlock
    \/ MotionRespond

-----------------------------------------------------------------------------
(* TelemetryTask.                                                          *)

\* Mutant: the state is copied without asking for the mutex.
TelemetryLockBlind ==
    /\ At("Telemetry", "idle")
    /\ locked' = TRUE
    /\ Goto("Telemetry", "copy_motion")
    /\ UNCHANGED <<cmdQueue, telQueue, events, uptime, motion, fault,
                   command, response, snapshot, line>>

TelemetryLock ==
    /\ At("Telemetry", "idle")
    /\ ~locked
    /\ locked' = TRUE
    /\ Goto("Telemetry", "copy_motion")
    /\ UNCHANGED <<cmdQueue, telQueue, events, uptime, motion, fault,
                   command, response, snapshot, line>>

\* Mutant: the mutex is given back with half of the snapshot copied.
TelemetryCopyMotionUnlocks ==
    /\ At("Telemetry", "copy_motion")
    /\ snapshot' = [snapshot EXCEPT !.state = motion.state,
                                    !.x = motion.x, !.y = motion.y]
    /\ locked' = FALSE
    /\ Goto("Telemetry", "copy_rest")
    /\ UNCHANGED <<cmdQueue, telQueue, events, uptime, motion, fault,
                   command, response, line>>

TelemetryCopyMotion ==
    /\ At("Telemetry", "copy_motion")
    /\ snapshot' = [snapshot EXCEPT !.state = motion.state,
                                    !.x = motion.x, !.y = motion.y]
    /\ Goto("Telemetry", "copy_rest")
    /\ UNCHANGED <<shared, command, response, line>>

TelemetryCopyRest ==
    /\ At("Telemetry", "copy_rest")
    /\ snapshot' = [snapshot EXCEPT !.uptime = uptime, !.fault = fault.active]
    /\ Goto("Telemetry", "unlock")
    /\ UNCHANGED <<shared, command, response, line>>

\* Mutant: the mutex stays taken when the step goes on to print.
TelemetryUnlockForgotten ==
    /\ At("Telemetry", "unlock")
    /\ Goto("Telemetry", "drain")
    /\ UNCHANGED <<shared, command, response, snapshot, line>>

TelemetryUnlock ==
    /\ At("Telemetry", "unlock")
    /\ locked' = FALSE
    /\ Goto("Telemetry", "drain")
    /\ UNCHANGED <<cmdQueue, telQueue, events, uptime, motion, fault,
                   command, response, snapshot, line>>

\* Mutant: the line is written but left in the queue.
TelemetryDrainPeeks ==
    /\ At("Telemetry", "drain")
    /\ telQueue # <<>>
    /\ line' = Head(telQueue)
    /\ UNCHANGED <<shared, pc, command, response, snapshot>>

\* One round of the drain loop: a queued line is taken and written.
TelemetryDrain ==
    /\ At("Telemetry", "drain")
    /\ telQueue # <<>>
    /\ line' = Head(telQueue)
    /\ telQueue' = Tail(telQueue)
    /\ UNCHANGED <<cmdQueue, locked, events, uptime, motion, fault,
                   pc, command, response, snapshot>>

\* The queue is found empty: the status line is written from the snapshot.
TelemetrySendStatus ==
    /\ At("Telemetry", "drain")
    /\ telQueue = <<>>
    /\ snapshot' = NoSnapshot
    /\ line' = ""
    /\ Goto("Telemetry", "idle")
    /\ UNCHANGED <<shared, command, response>>

TelemetryTaskStep ==
    \/ TelemetryLock
    \/ TelemetryCopyMotion
    \/ TelemetryCopyRest
    \/ TelemetryUnlock
    \/ TelemetryDrain
    \/ TelemetrySendStatus

Next == CommandTaskStep \/ MotionTaskStep \/ TelemetryTaskStep

Spec == Init /\ [][Next]_vars
===============================================================================
