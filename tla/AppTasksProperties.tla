-------------------------- MODULE AppTasksProperties --------------------------
(***************************************************************************)
(* What the three tasks of app_tasks.c guarantee together.                 *)
(***************************************************************************)
EXTENDS AppTasks

-----------------------------------------------------------------------------
(* Types.                                                                  *)

MotionLabels == {"receive", "handle", "advance", "refresh", "unlock", "respond"}
TelemetryLabels == {"copy_motion", "copy_rest", "unlock", "drain"}

Lines == MotionReplies \cup ParseErrors

\* What the replies to each kind of line may be.
Replies(what) ==
    CASE what = "PING" -> {"OK PONG"}
      [] what = "STATUS" -> {"OK STATUS"}
      [] what = "MOVE" -> {"OK MOVE QUEUED", "ERR FAULT_ACTIVE", "ERR LIMIT_EXCEEDED"}
      [] what = "STOP" -> {"OK STOPPED"}
      [] what = "ESTOP" -> {"OK ESTOP"}
      [] what = "CLEAR_FAULT" -> {"OK FAULT CLEARED"}
      [] OTHER -> {what}

SnapshotType ==
    [state : MotionStates, x : 0..MAX_X, y : 0..MAX_Y,
     uptime : 0..(UPTIME_MOD - 1), fault : BOOLEAN]

\* Type invariant.  The queues never exceed their storage, and the stage stays
\* in its travel range although only the targets are checked against it.
TypeOK ==
    /\ cmdQueue \in Seq(Commands) /\ Len(cmdQueue) <= CMD_CAP
    /\ telQueue \in Seq(Lines) /\ Len(telQueue) <= TEL_CAP
    /\ locked \in BOOLEAN
    /\ events \subseteq EventBits
    /\ uptime \in 0..(UPTIME_MOD - 1)
    /\ motion \in MotionType
    /\ fault \in [active : BOOLEAN, reason : FaultReasons]
    /\ pc \in [Task -> {"idle"} \cup MotionLabels \cup TelemetryLabels]
    /\ pc["Command"] = "idle"
    /\ pc["Motion"] \in {"idle"} \cup MotionLabels
    /\ pc["Telemetry"] \in {"idle"} \cup TelemetryLabels
    /\ command \in Commands \cup {NoCommand}
    /\ response \in MotionReplies \cup {""}
    /\ snapshot \in SnapshotType
    /\ line \in Lines \cup {""}

-----------------------------------------------------------------------------
(* Safety.                                                                 *)

MotionHolds == pc["Motion"] \in {"receive", "handle", "advance", "refresh", "unlock"}
TelemetryHolds == pc["Telemetry"] \in {"copy_motion", "copy_rest", "unlock"}

\* state_mutex excludes the two tasks from each other's section, and it is never
\* leaked: it is taken exactly while one of them is inside, so a refused tick
\* cannot turn into every later tick being refused.
MutexDiscipline ==
    /\ ~(MotionHolds /\ TelemetryHolds)
    /\ locked <=> MotionHolds \/ TelemetryHolds

\* The fault is kept three times (fault_manager.c, motion_controller.c, the
\* event group), and every handler keeps the three copies together.
FaultCoupling ==
    /\ fault.active <=> motion.state = "FAULT"
    /\ fault.active <=> "FAULTED" \in events
    /\ fault.active <=> fault.reason # "NONE"

\* The MOVING bit tells whether the stage moves, except between a command or a
\* tick that changes it and the refresh that ends the same step: CLEAR_FAULT
\* clears the bit of a stage that moves, and the refresh restores it.
MovingBit ==
    pc["Motion"] \notin {"advance", "refresh"} =>
        ("MOVING" \in events <=> motion.state = "MOVING")

\* A stop that was asked for is honoured until the next accepted MOVE, however
\* many ticks and other commands come in between.
StopHonoured == "STOP_REQUESTED" \in events => motion.state # "MOVING"

\* The gates of handle_command and of start_move agree: start_move never
\* refuses a move the handler has let through.
GatesAgree == response # "ERR MOVE_REJECTED"

\* The status TelemetryTask prints is one moment's: copied under the mutex it
\* equals the live state, and later it still agrees with itself.
CoherentSnapshot ==
    /\ pc["Telemetry"] = "unlock" =>
          snapshot = [state |-> motion.state, x |-> motion.x, y |-> motion.y,
                      uptime |-> uptime, fault |-> fault.active]
    /\ pc["Telemetry"] = "drain" => (snapshot.fault <=> snapshot.state = "FAULT")

\* A fault is latched: until a CLEAR_FAULT is handled the stage stays where it
\* is and no move begins, and an ESTOP is never relabelled a limit fault.
FaultLatch ==
    [][ fault.active =>
          /\ motion'.x = motion.x /\ motion'.y = motion.y
          /\ motion'.state # "MOVING"
          /\ fault'.active \/ (pc["Motion"] = "handle" /\ command.type = "CLEAR_FAULT")
          /\ fault.reason = "ESTOP" /\ fault'.active => fault'.reason = "ESTOP"
      ]_vars

\* The tasks implement the abstract safety envelope of the stage.
Mode == IF fault.active THEN "FAULTED"
        ELSE IF motion.state = "MOVING" THEN "MOVING" ELSE "READY"

Envelope == INSTANCE SafetyEnvelope WITH
    Range_X <- 0..MAX_X, Range_Y <- 0..MAX_Y,
    mode <- Mode, pos <- <<motion.x, motion.y>>

EnvelopeSpec == Envelope!Spec

-----------------------------------------------------------------------------
(* Liveness.                                                               *)

\* The periods make every task run again and again.  MotionTask takes the mutex
\* sooner or later: it asks every 100 ms, TelemetryTask holds it once in 500 ms.
\* TelemetryTask's steps go on whenever no higher task is inside a step.
MotionGoesOn ==
    \/ MotionReceive \/ MotionHandle \/ MotionAdvance
    \/ MotionRefresh \/ MotionUnlock \/ MotionRespond
TelemetryGoesOn ==
    \/ TelemetryCopyMotion \/ TelemetryCopyRest \/ TelemetryUnlock
    \/ TelemetryDrain \/ TelemetrySendStatus

Fairness ==
    /\ SF_vars(MotionLock) /\ WF_vars(MotionGoesOn)
    /\ SF_vars(TelemetryLock) /\ SF_vars(TelemetryGoesOn)

FairSpec == Spec /\ Fairness

\* An ESTOP that made it into the command queue takes effect, whatever is
\* queued in front of it and however often a tick is refused the mutex.
EstopTakesEffect ==
    (\E i \in DOMAIN cmdQueue : cmdQueue[i].type = "ESTOP") ~> fault.active
===============================================================================
