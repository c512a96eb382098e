---------------------------- MODULE AppTasksProofs ----------------------------
(***************************************************************************)
(* The three tasks are correct for every assignment of priorities, every   *)
(* queue capacity, every set of commands with a feed rate, every travel    *)
(* range and every period.                                                 *)
(***************************************************************************)
EXTENDS AppTasksProperties, MotionControllerProofs, SequenceTheorems

-----------------------------------------------------------------------------
(* The helpers.                                                            *)

\* A send keeps the queue's type and its bound, room or not.
LEMMA SentType ==
    ASSUME NEW S, NEW queue \in Seq(S), NEW cap \in Nat, Len(queue) <= cap,
           NEW msg \in S
    PROVE  /\ Sent(queue, cap, msg) \in Seq(S)
           /\ Len(Sent(queue, cap, msg)) <= cap
BY DEF Sent, Room

\* Taking the first message keeps the queue's type and its bound.
LEMMA TakeType ==
    ASSUME NEW S, NEW queue \in Seq(S), NEW cap \in Nat, Len(queue) <= cap,
           queue # <<>>
    PROVE  /\ Head(queue) \in S
           /\ Tail(queue) \in Seq(S)
           /\ Len(Tail(queue)) <= cap
<1>1. /\ Head(queue) \in S /\ Tail(queue) \in Seq(S)
      /\ Len(Tail(queue)) = Len(queue) - 1
    BY HeadTailProperties
<1>2. Len(queue) \in Nat
    BY LenProperties
<1>3. QED BY <1>1, <1>2

\* A refresh publishes exactly the motion state and the fault latch.
LEMMA RefreshedFacts ==
    ASSUME NEW bits \in SUBSET EventBits, NEW m, NEW f
    PROVE  /\ Refreshed(bits, m, f) \subseteq EventBits
           /\ "MOVING" \in Refreshed(bits, m, f) <=> m.state = "MOVING"
           /\ "FAULTED" \in Refreshed(bits, m, f) <=> f.active
           /\ "STOP_REQUESTED" \in Refreshed(bits, m, f)
                <=> "STOP_REQUESTED" \in bits
BY DEF Refreshed, EventBits

-----------------------------------------------------------------------------
(* Type correctness.                                                       *)

\* What a command handler may leave behind, types only.
HandledType ==
    /\ motion' \in MotionType
    /\ fault' \in [active : BOOLEAN, reason : FaultReasons]
    /\ events' \subseteq EventBits
    /\ response' \in MotionReplies

\* Every case of the command handler leaves values of the right types.
LEMMA HandleCommandType ==
    ASSUME TypeOK, HandleCommand, command \in Commands
    PROVE  HandledType
<1> USE DEF MotionReplies, HandledType
<1>1. motion \in MotionType /\ events \in SUBSET EventBits
      /\ fault \in [active : BOOLEAN, reason : FaultReasons]
    BY DEF TypeOK
<1>2. CASE HandlePing \/ HandleStatus
    BY <1>1, <1>2 DEF HandlePing, HandleStatus
<1>3. CASE HandleMove
    <2>1. CASE MoveBlocked
        BY <1>1, <2>1 DEF MoveBlocked
    <2>2. CASE MoveOutOfBounds
        <3>1. fault' \in [active : BOOLEAN, reason : FaultReasons]
            BY <1>1, <2>2 DEF MoveOutOfBounds, LatchFault, FaultReasons
        <3>2. motion' \in MotionType
            BY <1>1, <2>2, SetFaultType DEF MoveOutOfBounds
        <3>3. events' \subseteq EventBits
            BY <1>1, <2>2, RefreshedFacts DEF MoveOutOfBounds
        <3>4. QED BY <2>2, <3>1, <3>2, <3>3 DEF MoveOutOfBounds
    <2>3. CASE MoveInBounds
        <3>1. /\ command.x \in 0..MAX_X /\ command.y \in 0..MAX_Y
              /\ command.f \in 0..(UINT_MOD - 1)
            BY <2>3, TasksAssumption DEF MoveInBounds, IsTargetInBounds, Command
        <3>2. motion' \in MotionType
            BY <1>1, <2>3, <3>1, StartMoveType DEF MoveInBounds
        <3>3. events \ {"STOP_REQUESTED"} \in SUBSET EventBits
            BY <1>1
        <3>4. events' \subseteq EventBits
            <4>1. Refreshed(events \ {"STOP_REQUESTED"}, motion', fault) \subseteq EventBits
                BY <3>3, RefreshedFacts
            <4>2. QED BY <2>3, <3>3, <4>1 DEF MoveInBounds
        <3>5. response' \in MotionReplies
            BY <2>3 DEF MoveInBounds
        <3>6. QED BY <1>1, <2>3, <3>2, <3>4, <3>5 DEF MoveInBounds
    <2>4. QED BY <1>3, <2>1, <2>2, <2>3 DEF HandleMove
<1>4. CASE HandleStop
    <2>1. motion' \in MotionType
        BY <1>1, <1>4, StopType DEF HandleStop
    <2>2. events \cup {"STOP_REQUESTED"} \in SUBSET EventBits
        BY <1>1 DEF EventBits
    <2>3. events' \subseteq EventBits
        BY <1>4, <2>2, RefreshedFacts DEF HandleStop
    <2>4. QED BY <1>1, <1>4, <2>1, <2>3 DEF HandleStop
<1>5. CASE HandleEstop
    <2>1. motion' \in MotionType
        BY <1>1, <1>5, SetFaultType DEF HandleEstop
    <2>2. fault' \in [active : BOOLEAN, reason : FaultReasons]
        BY <1>1, <1>5 DEF HandleEstop, TriggerEstop, LatchFault, FaultReasons
    <2>3. QED BY <1>1, <1>5, <2>1, <2>2 DEF HandleEstop, EventBits
<1>6. CASE HandleClearFault
    <2>1. motion' \in MotionType
        BY <1>1, <1>6, ClearFaultType DEF HandleClearFault
    <2>2. fault' \in [active : BOOLEAN, reason : FaultReasons]
        BY <1>6 DEF HandleClearFault, ClearLatch, FaultReasons
    <2>3. QED BY <1>1, <1>6, <2>1, <2>2 DEF HandleClearFault
<1>7. QED BY <1>2, <1>3, <1>4, <1>5, <1>6 DEF HandleCommand

\* The values the locals of a step start from have their types.
LEMMA InitialTypes ==
    /\ NoSnapshot \in SnapshotType
    /\ MotionInit \in MotionType
    /\ FaultInit \in [active : BOOLEAN, reason : FaultReasons]
<1>1. 0 \in 0..(UPTIME_MOD - 1) /\ 0 \in 0..MAX_X /\ 0 \in 0..MAX_Y
    BY TasksAssumption, StageAssumption
<1>2. QED
    BY <1>1, MotionInitType
    DEF NoSnapshot, SnapshotType, MotionStates, FaultInit, FaultReasons

\* One step forward or back to the start, for one task only.
LEMMA GotoFacts ==
    ASSUME TypeOK, NEW t \in Task, NEW label, Goto(t, label)
    PROVE  /\ pc'[t] = label
           /\ \A u \in Task : u # t => pc'[u] = pc[u]
           /\ label \in {"idle"} \cup MotionLabels \cup TelemetryLabels =>
                pc' \in [Task -> {"idle"} \cup MotionLabels \cup TelemetryLabels]
BY DEF TypeOK, Goto

\* The tasks start in typed state.
LEMMA TypeInit == Init => TypeOK
<1> SUFFICES ASSUME Init PROVE TypeOK
    OBVIOUS
<1>1. <<>> \in Seq(Commands) /\ <<>> \in Seq(Lines) /\ Len(<<>>) = 0
    BY EmptySeq
<1>2. 0 \in 0..(UPTIME_MOD - 1) /\ 0 <= CMD_CAP /\ 0 <= TEL_CAP
    BY TasksAssumption
<1>3. QED
    BY <1>1, <1>2, InitialTypes DEF Init, TypeOK, Task

\* MotionTask's control, and then the action's own effects.
LEMMA MotionControl ==
    ASSUME TypeOK, NEW label \in {"idle"} \cup MotionLabels, Goto("Motion", label)
    PROVE  /\ pc' \in [Task -> {"idle"} \cup MotionLabels \cup TelemetryLabels]
           /\ pc'["Command"] = "idle"
           /\ pc'["Motion"] = label
           /\ pc'["Telemetry"] = pc["Telemetry"]
           /\ pc'["Motion"] \in {"idle"} \cup MotionLabels
           /\ pc'["Telemetry"] \in {"idle"} \cup TelemetryLabels
BY GotoFacts DEF TypeOK, Task

\* The same for TelemetryTask.
LEMMA TelemetryControl ==
    ASSUME TypeOK, NEW label \in {"idle"} \cup TelemetryLabels, Goto("Telemetry", label)
    PROVE  /\ pc' \in [Task -> {"idle"} \cup MotionLabels \cup TelemetryLabels]
           /\ pc'["Command"] = "idle"
           /\ pc'["Telemetry"] = label
           /\ pc'["Motion"] = pc["Motion"]
           /\ pc'["Motion"] \in {"idle"} \cup MotionLabels
           /\ pc'["Telemetry"] \in {"idle"} \cup TelemetryLabels
BY GotoFacts DEF TypeOK, Task

\* Only a received command is ever handled.
LEMMA HandledCommand ==
    ASSUME TypeOK, HandleCommand
    PROVE  command \in Commands
<1>1. command \in Commands \/ command = NoCommand
    BY DEF TypeOK
<1>2. CASE command = NoCommand
    <2>1. command.type = "NONE"
        BY <1>2 DEF NoCommand
    <2>2. QED BY <2>1 DEF HandleCommand
<1>3. QED BY <1>1, <1>2

\* No step of any task leaves the types; one case per action.
LEMMA TypeNext == TypeOK /\ [Next]_vars => TypeOK'
<1> SUFFICES ASSUME TypeOK, [Next]_vars PROVE TypeOK'
    OBVIOUS
<1>0. CMD_CAP \in Nat /\ TEL_CAP \in Nat
    BY TasksAssumption
<1>1. ASSUME NEW c \in Commands, CommandAccept(c) PROVE TypeOK'
    <2>1. cmdQueue' \in Seq(Commands) /\ Len(cmdQueue') <= CMD_CAP
        BY <1>0, <1>1, SentType DEF TypeOK, CommandAccept
    <2>2. QED BY <1>1, <2>1 DEF TypeOK, CommandAccept
<1>2. ASSUME NEW e \in ParseErrors, CommandReject(e) PROVE TypeOK'
    <2>1. telQueue' \in Seq(Lines) /\ Len(telQueue') <= TEL_CAP
        <3>1. e \in Lines
            BY DEF Lines
        <3>2. QED BY <1>0, <1>2, <3>1, SentType DEF TypeOK, CommandReject
    <2>2. QED BY <1>2, <2>1 DEF TypeOK, CommandReject
<1>3. CASE MotionLock
    BY <1>3, MotionControl DEF TypeOK, MotionLock, MotionLabels
<1>4. CASE MotionReceive
    <2>1. CASE cmdQueue = <<>>
        BY <1>4, <2>1, MotionControl DEF TypeOK, MotionReceive, MotionLabels
    <2>2. CASE cmdQueue # <<>>
        <3>1. /\ command' \in Commands
              /\ cmdQueue' \in Seq(Commands) /\ Len(cmdQueue') <= CMD_CAP
            <4>1. cmdQueue \in Seq(Commands) /\ Len(cmdQueue) <= CMD_CAP
                BY DEF TypeOK
            <4>2. /\ Head(cmdQueue) \in Commands
                  /\ Tail(cmdQueue) \in Seq(Commands) /\ Len(Tail(cmdQueue)) <= CMD_CAP
                BY <1>0, <2>2, <4>1, TakeType
            <4>3. QED BY <1>4, <2>2, <4>2 DEF MotionReceive
        <3>2. QED BY <1>4, <2>2, <3>1, MotionControl DEF TypeOK, MotionReceive, MotionLabels
    <2>3. QED BY <2>1, <2>2
<1>5. CASE MotionHandle
    <2>1. HandledType
        BY <1>5, HandledCommand, HandleCommandType DEF MotionHandle
    <2>2. QED BY <1>5, <2>1, MotionControl DEF TypeOK, MotionHandle, MotionLabels, HandledType
<1>6. CASE MotionAdvance
    <2>1. PICK delta \in Deltas : /\ motion' = Update(motion, delta)
                                 /\ uptime' = (uptime + delta) % UPTIME_MOD
        BY <1>6 DEF MotionAdvance
    <2>2. delta \in Nat
        BY TasksAssumption
    <2>3. motion' \in MotionType
        BY <2>1, <2>2, UpdateType DEF TypeOK
    <2>4. uptime' \in 0..(UPTIME_MOD - 1)
        <3>1. uptime \in Nat
            <4>1. uptime \in 0..(UPTIME_MOD - 1)
                BY DEF TypeOK
            <4>2. QED BY <4>1, TasksAssumption
        <3>2. uptime + delta \in Nat
            BY <2>2, <3>1
        <3>3. QED BY <2>1, <3>2, TasksAssumption
    <2>5. QED BY <1>6, <2>3, <2>4, MotionControl DEF TypeOK, MotionAdvance, MotionLabels
<1>7. CASE MotionRefresh
    <2>1. events' \subseteq EventBits
        BY <1>7, RefreshedFacts DEF TypeOK, MotionRefresh
    <2>2. QED BY <1>7, <2>1, MotionControl DEF TypeOK, MotionRefresh, MotionLabels
<1>8. CASE MotionUnlock
    BY <1>8, MotionControl DEF TypeOK, MotionUnlock, MotionLabels
<1>9. CASE MotionRespond
    <2>1. telQueue' \in Seq(Lines) /\ Len(telQueue') <= TEL_CAP
        <3>1. CASE response = ""
            BY <1>9, <3>1 DEF TypeOK, MotionRespond
        <3>2. CASE response # ""
            <4>1. response \in Lines
                BY <3>2 DEF TypeOK, Lines
            <4>2. QED BY <1>0, <1>9, <3>2, <4>1, SentType DEF TypeOK, MotionRespond
        <3>3. QED BY <3>1, <3>2
    <2>2. QED BY <1>9, <2>1, MotionControl DEF TypeOK, MotionRespond
<1>10. CASE TelemetryLock
    BY <1>10, TelemetryControl DEF TypeOK, TelemetryLock, TelemetryLabels
<1>11. CASE TelemetryCopyMotion
    <2>1. snapshot' \in SnapshotType
        BY <1>11 DEF TypeOK, TelemetryCopyMotion, SnapshotType, MotionType
    <2>2. QED BY <1>11, <2>1, TelemetryControl
              DEF TypeOK, TelemetryCopyMotion, TelemetryLabels, shared
<1>12. CASE TelemetryCopyRest
    <2>1. snapshot' \in SnapshotType
        BY <1>12 DEF TypeOK, TelemetryCopyRest, SnapshotType
    <2>2. QED BY <1>12, <2>1, TelemetryControl
              DEF TypeOK, TelemetryCopyRest, TelemetryLabels, shared
<1>13. CASE TelemetryUnlock
    BY <1>13, TelemetryControl DEF TypeOK, TelemetryUnlock, TelemetryLabels
<1>14. CASE TelemetryDrain
    <2>1. /\ line' \in Lines
          /\ telQueue' \in Seq(Lines) /\ Len(telQueue') <= TEL_CAP
        BY <1>0, <1>14, TakeType DEF TypeOK, TelemetryDrain
    <2>2. QED BY <1>14, <2>1 DEF TypeOK, TelemetryDrain
<1>15. CASE TelemetrySendStatus
    BY <1>15, InitialTypes, TelemetryControl DEF TypeOK, TelemetrySendStatus, shared
<1>16. CASE UNCHANGED vars
    BY <1>16 DEF TypeOK, vars
<1>17. QED
    BY <1>1, <1>2, <1>3, <1>4, <1>5, <1>6, <1>7, <1>8, <1>9, <1>10, <1>11,
       <1>12, <1>13, <1>14, <1>15, <1>16
    DEF Next, CommandTaskStep, MotionTaskStep, TelemetryTaskStep

\* The queues stay within their storage, the stage in its travel range and every
\* local in its type, whatever the tasks' priorities.
THEOREM TypeCorrect == Spec => []TypeOK
BY TypeInit, TypeNext, PTL DEF Spec

-----------------------------------------------------------------------------
(* Mutual exclusion.                                                       *)

\* No step of any task breaks mutual exclusion; one case per action.
LEMMA MutexNext == TypeOK /\ MutexDiscipline /\ [Next]_vars => MutexDiscipline'
<1> SUFFICES ASSUME TypeOK, MutexDiscipline, [Next]_vars PROVE MutexDiscipline'
    OBVIOUS
<1> USE DEF MutexDiscipline, MotionHolds, TelemetryHolds
<1>1. ASSUME NEW c \in Commands, CommandAccept(c) PROVE MutexDiscipline'
    BY <1>1 DEF CommandAccept
<1>2. ASSUME NEW e \in ParseErrors, CommandReject(e) PROVE MutexDiscipline'
    BY <1>2 DEF CommandReject
<1>3. CASE MotionLock
    BY <1>3, MotionControl DEF MotionLock, MotionLabels
<1>4. CASE MotionReceive
    BY <1>4, MotionControl DEF MotionReceive, MotionLabels, At
<1>5. CASE MotionHandle
    BY <1>5, MotionControl DEF MotionHandle, MotionLabels, At
<1>6. CASE MotionAdvance
    BY <1>6, MotionControl DEF MotionAdvance, MotionLabels, At
<1>7. CASE MotionRefresh
    BY <1>7, MotionControl DEF MotionRefresh, MotionLabels, At
<1>8. CASE MotionUnlock
    BY <1>8, MotionControl DEF MotionUnlock, MotionLabels, At
<1>9. CASE MotionRespond
    BY <1>9, MotionControl DEF MotionRespond, MotionLabels, At
<1>10. CASE TelemetryLock
    BY <1>10, TelemetryControl DEF TelemetryLock, TelemetryLabels
<1>11. CASE TelemetryCopyMotion
    BY <1>11, TelemetryControl DEF TelemetryCopyMotion, TelemetryLabels, At, shared
<1>12. CASE TelemetryCopyRest
    BY <1>12, TelemetryControl DEF TelemetryCopyRest, TelemetryLabels, At, shared
<1>13. CASE TelemetryUnlock
    BY <1>13, TelemetryControl DEF TelemetryUnlock, TelemetryLabels, At
<1>14. CASE TelemetryDrain
    BY <1>14 DEF TelemetryDrain
<1>15. CASE TelemetrySendStatus
    BY <1>15, TelemetryControl DEF TelemetrySendStatus, TelemetryLabels, At, shared
<1>16. CASE UNCHANGED vars
    BY <1>16 DEF vars
<1>17. QED
    BY <1>1, <1>2, <1>3, <1>4, <1>5, <1>6, <1>7, <1>8, <1>9, <1>10, <1>11,
       <1>12, <1>13, <1>14, <1>15, <1>16
    DEF Next, CommandTaskStep, MotionTaskStep, TelemetryTaskStep

\* MotionTask and TelemetryTask are never both inside their sections, and the
\* mutex is taken exactly while one of them is: no step leaks it.
THEOREM MutualExclusion == Spec => []MutexDiscipline
<1>1. Init => MutexDiscipline
    BY DEF Init, MutexDiscipline, MotionHolds, TelemetryHolds, Task
<1>2. QED BY <1>1, MutexNext, TypeCorrect, PTL DEF Spec

-----------------------------------------------------------------------------
(* The fault latch, the motion module and the event bits.                  *)

\* What every command leaves behind: the copies of the fault agree, a requested
\* stop stands, and the two gates of a MOVE have agreed.
LEMMA HandleCommandKeeps ==
    ASSUME TypeOK, FaultCoupling, StopHonoured, HandleCommand
    PROVE  FaultCoupling' /\ StopHonoured' /\ GatesAgree'
<1> USE DEF FaultCoupling, StopHonoured, GatesAgree
<1>1. motion \in MotionType /\ events \in SUBSET EventBits
      /\ fault \in [active : BOOLEAN, reason : FaultReasons]
    BY DEF TypeOK
<1>2. CASE HandlePing \/ HandleStatus
    <2>1. UNCHANGED <<motion, fault, events>> /\ response' \in {"OK PONG", "OK STATUS"}
        BY <1>2 DEF HandlePing, HandleStatus
    <2>2. QED BY <2>1
<1>3. CASE MoveBlocked
    BY <1>3 DEF MoveBlocked
<1>4. CASE MoveOutOfBounds
    <2>1. motion'.state = "FAULT" /\ fault'.active /\ fault'.reason # "NONE"
        BY <1>1, <1>4, SetFaultType DEF MoveOutOfBounds, LatchFault
    <2>2. "FAULTED" \in events'
        <3>1. events' = Refreshed(events, motion', fault')
            BY <1>4 DEF MoveOutOfBounds
        <3>2. QED BY <1>1, <2>1, <3>1, RefreshedFacts
    <2>3. response' # "ERR MOVE_REJECTED"
        BY <1>4 DEF MoveOutOfBounds
    <2>4. QED BY <2>1, <2>2, <2>3
<1>5. CASE MoveInBounds /\ command.type = "MOVE"
    <2>1. /\ command.x \in 0..MAX_X /\ command.y \in 0..MAX_Y
          /\ command.f \in 0..(UINT_MOD - 1) /\ command.f # 0
        BY <1>5, HandledCommand, TasksAssumption
        DEF MoveInBounds, IsTargetInBounds, Command
    <2>2. AcceptsMove(motion, command.f)
        BY <1>5, <2>1 DEF MoveInBounds, AcceptsMove
    <2>3. motion'.state \in {"MOVING", "DONE"}
        BY <1>1, <1>5, <2>1, <2>2, StartMoveType DEF MoveInBounds
    <2>4. events \ {"STOP_REQUESTED"} \in SUBSET EventBits
        BY <1>1
    <2>5. /\ events' = Refreshed(events \ {"STOP_REQUESTED"}, motion', fault)
          /\ fault' = fault /\ ~fault.active
          /\ response' = "OK MOVE QUEUED"
        BY <1>5, <2>2 DEF MoveInBounds
    <2>6. "FAULTED" \notin events' /\ "STOP_REQUESTED" \notin events'
        BY <2>4, <2>5, RefreshedFacts
    <2>7. QED BY <2>3, <2>5, <2>6
<1>6. CASE HandleStop
    <2>1. motion'.state = IF motion.state = "FAULT" THEN "FAULT" ELSE "STOPPED"
        BY <1>1, <1>6, StopType DEF HandleStop
    <2>2. events \cup {"STOP_REQUESTED"} \in SUBSET EventBits
        BY <1>1 DEF EventBits
    <2>3. "FAULTED" \in events' <=> fault.active
        BY <1>6, <2>2, RefreshedFacts DEF HandleStop
    <2>4. QED BY <1>6, <2>1, <2>3 DEF HandleStop
<1>7. CASE HandleEstop
    <2>1. motion'.state = "FAULT" /\ fault'.active /\ fault'.reason # "NONE"
        BY <1>1, <1>7, SetFaultType DEF HandleEstop, TriggerEstop, LatchFault
    <2>2. QED BY <1>7, <2>1 DEF HandleEstop
<1>8. CASE HandleClearFault
    <2>1. motion'.state # "FAULT" /\ ~fault'.active /\ fault'.reason = "NONE"
        BY <1>1, <1>8, ClearFaultType DEF HandleClearFault, ClearLatch
    <2>2. "FAULTED" \notin events' /\ "STOP_REQUESTED" \notin events'
        BY <1>8 DEF HandleClearFault, EventBits
    <2>3. QED BY <1>8, <2>1, <2>2 DEF HandleClearFault
<1>9. QED BY <1>2, <1>3, <1>4, <1>5, <1>6, <1>7, <1>8 DEF HandleCommand, HandleMove

\* The invariants that need each other: GatesAgree follows from FaultCoupling,
\* StopHonoured from both modules refusing what the other has refused.
SafetyInv ==
    /\ FaultCoupling
    /\ MovingBit
    /\ StopHonoured
    /\ GatesAgree

\* No step of any task breaks the safety invariant.
LEMMA SafetyNext ==
    TypeOK /\ SafetyInv /\ [Next]_vars => SafetyInv'
<1> SUFFICES ASSUME TypeOK, SafetyInv, [Next]_vars PROVE SafetyInv'
    OBVIOUS
<1> USE DEF SafetyInv
<1>1. motion \in MotionType /\ events \in SUBSET EventBits
    BY DEF TypeOK
\* The steps that touch neither the stage, the fault nor the events.
<1>2. ASSUME UNCHANGED <<motion, fault, events>>,
             pc["Motion"] \in {"advance", "refresh"} =>
                 pc'["Motion"] \in {"advance", "refresh"},
             response' \in {response, ""}
      PROVE  SafetyInv'
    BY <1>2 DEF FaultCoupling, MovingBit, StopHonoured, GatesAgree
<1>3. ASSUME NEW c \in Commands, CommandAccept(c) PROVE SafetyInv'
    BY <1>2, <1>3 DEF CommandAccept
<1>4. ASSUME NEW e \in ParseErrors, CommandReject(e) PROVE SafetyInv'
    BY <1>2, <1>4 DEF CommandReject
<1>5. CASE MotionLock
    BY <1>2, <1>5 DEF MotionLock, At
<1>6. CASE MotionReceive
    BY <1>2, <1>6 DEF MotionReceive, At
<1>7. CASE MotionHandle
    <2>1. pc["Motion"] = "handle" /\ pc'["Motion"] = "advance"
        BY <1>7, MotionControl DEF MotionHandle, At, MotionLabels
    <2>2. FaultCoupling' /\ StopHonoured' /\ GatesAgree'
        BY <1>7, <2>1, HandleCommandKeeps DEF MotionHandle
    <2>3. QED BY <2>1, <2>2 DEF MovingBit
<1>8. CASE MotionAdvance
    <2>1. pc'["Motion"] = "refresh"
        BY <1>8, MotionControl DEF MotionAdvance, MotionLabels
    <2>2. PICK delta \in Deltas : motion' = Update(motion, delta)
        BY <1>8 DEF MotionAdvance
    <2>3. delta \in Nat
        BY TasksAssumption
    <2>4. /\ motion.state # "MOVING" => motion' = motion
          /\ motion.state = "MOVING" => motion'.state \in {"MOVING", "DONE"}
        BY <1>1, <2>2, <2>3, UpdateType
    <2>5. UNCHANGED <<fault, events, response>>
        BY <1>8 DEF MotionAdvance
    <2>6. QED BY <2>1, <2>4, <2>5 DEF FaultCoupling, MovingBit, StopHonoured, GatesAgree
<1>9. CASE MotionRefresh
    <2>1. UNCHANGED <<motion, fault, response>> /\ events' = Refreshed(events, motion, fault)
        BY <1>9 DEF MotionRefresh
    <2>2. /\ "MOVING" \in events' <=> motion.state = "MOVING"
          /\ "FAULTED" \in events' <=> fault.active
          /\ "STOP_REQUESTED" \in events' <=> "STOP_REQUESTED" \in events
        BY <1>1, <2>1, RefreshedFacts
    <2>3. QED BY <2>1, <2>2 DEF FaultCoupling, MovingBit, StopHonoured, GatesAgree
<1>10. CASE MotionUnlock
    BY <1>2, <1>10 DEF MotionUnlock, At
<1>11. CASE MotionRespond
    BY <1>2, <1>11 DEF MotionRespond, At
<1>12. CASE TelemetryTaskStep
    <2>1. pc'["Motion"] = pc["Motion"]
        BY <1>12, TelemetryControl
        DEF TelemetryTaskStep, TelemetryLock, TelemetryCopyMotion, TelemetryCopyRest,
            TelemetryUnlock, TelemetryDrain, TelemetrySendStatus, TelemetryLabels
    <2>2. UNCHANGED <<motion, fault, events, response>>
        BY <1>12
        DEF TelemetryTaskStep, TelemetryLock, TelemetryCopyMotion, TelemetryCopyRest,
            TelemetryUnlock, TelemetryDrain, TelemetrySendStatus, shared
    <2>3. QED BY <1>2, <2>1, <2>2
<1>13. CASE UNCHANGED vars
    BY <1>2, <1>13 DEF vars
<1>14. QED
    BY <1>3, <1>4, <1>5, <1>6, <1>7, <1>8, <1>9, <1>10, <1>11, <1>12, <1>13
    DEF Next, CommandTaskStep, MotionTaskStep

\* The tasks start with everything in agreement.
LEMMA SafetyInit == Init => SafetyInv
<1> SUFFICES ASSUME Init PROVE SafetyInv
    OBVIOUS
<1>1. motion.state = "IDLE" /\ fault.active = FALSE /\ fault.reason = "NONE"
    BY DEF Init, MotionInit, FaultInit
<1>2. events = {} /\ response = ""
    BY DEF Init
<1>3. QED BY <1>1, <1>2 DEF SafetyInv, FaultCoupling, MovingBit, StopHonoured, GatesAgree

\* The three copies of the fault agree in every state, and with them the bits of
\* the event group and the gates of MOVE, whatever interleaving the priorities allow.
THEOREM SafetyCorrect == Spec => []SafetyInv
BY SafetyInit, SafetyNext, TypeCorrect, PTL DEF Spec

\* The copies of the fault in fault_manager.c, motion_controller.c and the event
\* group are equal in every reachable state.
THEOREM FaultCopiesAgree == Spec => []FaultCoupling
<1>1. SafetyInv => FaultCoupling
    BY DEF SafetyInv
<1>2. QED BY <1>1, SafetyCorrect, PTL

\* The MOVING bit is right whenever no tick is between a change and its refresh,
\* in particular whenever the mutex is free.
THEOREM MovingBitIsRight == Spec => []MovingBit
<1>1. SafetyInv => MovingBit
    BY DEF SafetyInv
<1>2. QED BY <1>1, SafetyCorrect, PTL

\* STOP_REQUESTED is never seen together with a moving stage.
THEOREM StopIsHonoured == Spec => []StopHonoured
<1>1. SafetyInv => StopHonoured
    BY DEF SafetyInv
<1>2. QED BY <1>1, SafetyCorrect, PTL

\* start_move never refuses a MOVE the command handler has let through.
THEOREM MoveGatesAgree == Spec => []GatesAgree
<1>1. SafetyInv => GatesAgree
    BY DEF SafetyInv
<1>2. QED BY <1>1, SafetyCorrect, PTL

\* A command's reply is one of those its type may have; start_move's refusal, the
\* one reply that is not among them, never comes.
LEMMA HandledReply ==
    ASSUME TypeOK, SafetyInv, HandleCommand
    PROVE  response' \in Replies(command.type) /\ response' # ""
<1>1. response' # "ERR MOVE_REJECTED"
    BY HandleCommandKeeps DEF SafetyInv, GatesAgree
<1>2. CASE command.type = "MOVE" /\ HandleMove
    BY <1>1, <1>2
    DEF HandleMove, MoveBlocked, MoveOutOfBounds, MoveInBounds, Replies
<1>3. CASE ~(command.type = "MOVE" /\ HandleMove)
    BY <1>3 DEF HandleCommand, HandlePing, HandleStatus, HandleStop, HandleEstop,
                HandleClearFault, Replies
<1>4. QED BY <1>2, <1>3

-----------------------------------------------------------------------------
(* The safety envelope.                                                    *)

\* Only two kinds of step write the stage or the fault latch.
LEMMA StageWriters ==
    ASSUME [Next]_vars
    PROVE  \/ UNCHANGED <<motion, fault>>
           \/ MotionHandle
           \/ MotionAdvance
<1> USE DEF shared
<1>1. CASE CommandTaskStep
    BY <1>1 DEF CommandTaskStep, CommandAccept, CommandReject
<1>2. CASE MotionTaskStep
    BY <1>2 DEF MotionTaskStep, MotionLock, MotionReceive, MotionRefresh,
                MotionUnlock, MotionRespond
<1>3. CASE TelemetryTaskStep
    BY <1>3 DEF TelemetryTaskStep, TelemetryLock, TelemetryCopyMotion,
                TelemetryCopyRest, TelemetryUnlock, TelemetryDrain, TelemetrySendStatus
<1>4. CASE UNCHANGED vars
    BY <1>4 DEF vars
<1>5. QED BY <1>1, <1>2, <1>3, <1>4 DEF Next

\* Each command does to mode and position what one envelope step allows.
LEMMA HandleCommandInEnvelope ==
    ASSUME TypeOK, SafetyInv, HandleCommand
    PROVE  [Envelope!Next]_(Envelope!vars)
<1>1. motion \in MotionType /\ FaultCoupling
    BY DEF TypeOK, SafetyInv
<1> USE DEF Envelope!Next, Envelope!vars
<1>2. CASE UNCHANGED <<motion, fault>>
    BY <1>2 DEF Mode
<1>3. CASE HandlePing \/ HandleStatus \/ MoveBlocked
    BY <1>2, <1>3 DEF HandlePing, HandleStatus, MoveBlocked
<1>4. CASE MoveOutOfBounds \/ HandleEstop
    <2>1. /\ motion'.x = motion.x /\ motion'.y = motion.y
          /\ fault'.active
        <3>1. motion' = SetFault(motion)
            BY <1>4 DEF MoveOutOfBounds, HandleEstop
        <3>2. fault' = [active |-> TRUE, reason |-> "LIMIT_EXCEEDED"]
              \/ fault' = [active |-> TRUE, reason |-> "ESTOP"]
            BY <1>4 DEF MoveOutOfBounds, HandleEstop, TriggerEstop, LatchFault
        <3>3. QED BY <1>1, <3>1, <3>2, SetFaultType
    <2>2. Envelope!Fault
        BY <2>1 DEF Envelope!Fault, Mode
    <2>3. QED BY <2>2
<1>5. CASE MoveInBounds /\ command.type = "MOVE"
    <2>1. /\ command.x \in 0..MAX_X /\ command.y \in 0..MAX_Y
          /\ command.f \in 0..(UINT_MOD - 1) /\ command.f # 0
        BY <1>5, HandledCommand, TasksAssumption
        DEF MoveInBounds, IsTargetInBounds, Command
    <2>2. AcceptsMove(motion, command.f)
        BY <1>1, <1>5, <2>1 DEF MoveInBounds, AcceptsMove, FaultCoupling
    <2>3. /\ motion'.x = motion.x /\ motion'.y = motion.y
          /\ motion'.state \in {"MOVING", "DONE"}
        BY <1>1, <1>5, <2>1, <2>2, StartMoveType DEF MoveInBounds
    <2>4. ~fault.active /\ ~fault'.active
        BY <1>5 DEF MoveInBounds
    <2>5. Mode # "FAULTED" /\ Mode' \in {"MOVING", "READY"}
        BY <2>3, <2>4 DEF Mode
    <2>6. Envelope!Move
        BY <2>3, <2>5 DEF Envelope!Move
    <2>7. QED BY <2>6
<1>6. CASE HandleStop
    <2>1. /\ motion'.x = motion.x /\ motion'.y = motion.y
          /\ motion'.state = IF motion.state = "FAULT" THEN "FAULT" ELSE "STOPPED"
          /\ fault' = fault
        BY <1>1, <1>6, StopType DEF HandleStop
    <2>2. CASE Mode = "MOVING"
        <3>1. Mode' = "READY"
            BY <2>1, <2>2 DEF Mode
        <3>2. Envelope!Stop
            BY <2>1, <2>2, <3>1 DEF Envelope!Stop
        <3>3. QED BY <3>2
    <2>3. CASE Mode # "MOVING"
        <3>1. Mode' = Mode
            BY <2>1, <2>3 DEF Mode
        <3>2. QED BY <2>1, <3>1
    <2>4. QED BY <2>2, <2>3
<1>7. CASE HandleClearFault
    <2>1. /\ motion'.x = motion.x /\ motion'.y = motion.y
          /\ motion'.state = IF motion.state = "FAULT" THEN "IDLE" ELSE motion.state
          /\ ~fault'.active
        BY <1>1, <1>7, ClearFaultType DEF HandleClearFault, ClearLatch
    <2>2. CASE fault.active
        <3>1. Mode = "FAULTED" /\ Mode' = "READY"
            BY <1>1, <2>1, <2>2 DEF Mode, FaultCoupling
        <3>2. Envelope!Clear
            BY <2>1, <3>1 DEF Envelope!Clear
        <3>3. QED BY <3>2
    <2>3. CASE ~fault.active
        <3>1. Mode' = Mode
            BY <1>1, <2>1, <2>3 DEF Mode, FaultCoupling
        <3>2. QED BY <2>1, <3>1
    <2>4. QED BY <2>2, <2>3
<1>8. QED BY <1>3, <1>4, <1>5, <1>6, <1>7 DEF HandleCommand, HandleMove

\* A tick does to mode and position what one envelope step allows.
LEMMA AdvanceInEnvelope ==
    ASSUME TypeOK, TypeOK', SafetyInv, MotionAdvance
    PROVE  [Envelope!Next]_(Envelope!vars)
<1>1. motion \in MotionType /\ motion' \in MotionType /\ FaultCoupling
    BY DEF TypeOK, SafetyInv
<1>2. PICK delta \in Deltas : motion' = Update(motion, delta)
    BY DEF MotionAdvance
<1>3. /\ motion.state # "MOVING" => motion' = motion
      /\ motion.state = "MOVING" => motion'.state \in {"MOVING", "DONE"}
    BY <1>1, <1>2, UpdateType, TasksAssumption
<1>4. fault' = fault
    BY DEF MotionAdvance
<1>5. CASE motion.state # "MOVING"
    BY <1>3, <1>4, <1>5 DEF Mode, Envelope!vars
<1>6. CASE motion.state = "MOVING"
    <2>1. ~fault.active
        BY <1>1, <1>6 DEF FaultCoupling
    <2>2. Mode = "MOVING" /\ Mode' \in {"MOVING", "READY"}
        BY <1>3, <1>4, <1>6, <2>1 DEF Mode
    <2>3. <<motion'.x, motion'.y>> \in Envelope!Positions
        BY <1>1 DEF MotionType, Envelope!Positions
    <2>4. QED BY <2>2, <2>3 DEF Envelope!Next, Envelope!Advance
<1>7. QED BY <1>5, <1>6

\* The tasks implement the safety envelope: mode and position change only as the
\* abstract specification of the stage allows, in every interleaving.
THEOREM TasksImplementEnvelope == Spec => EnvelopeSpec
<1>1. Init => Envelope!Init
    <2> SUFFICES ASSUME Init PROVE Envelope!Init
        OBVIOUS
    <2>1. /\ motion.x = 0 /\ motion.y = 0 /\ motion.state = "IDLE"
          /\ fault.active = FALSE
        BY DEF Init, MotionInit, FaultInit
    <2>2. QED BY <2>1 DEF Envelope!Init, Mode
<1>2. TypeOK /\ TypeOK' /\ SafetyInv /\ [Next]_vars => [Envelope!Next]_(Envelope!vars)
    <2> SUFFICES ASSUME TypeOK, TypeOK', SafetyInv, [Next]_vars
                 PROVE  [Envelope!Next]_(Envelope!vars)
        OBVIOUS
    <2>1. CASE UNCHANGED <<motion, fault>>
        BY <2>1 DEF Mode, Envelope!vars
    <2>2. CASE MotionHandle
        BY <2>2, HandleCommandInEnvelope DEF MotionHandle
    <2>3. CASE MotionAdvance
        BY <2>3, AdvanceInEnvelope
    <2>4. QED BY <2>1, <2>2, <2>3, StageWriters
<1>3. QED
    BY <1>1, <1>2, TypeCorrect, SafetyCorrect, PTL DEF Spec, EnvelopeSpec, Envelope!Spec

-----------------------------------------------------------------------------
(* The fault latch.                                                        *)

\* A command handled while a fault is latched.
LEMMA HandleCommandLatched ==
    ASSUME TypeOK, SafetyInv, HandleCommand, fault.active
    PROVE  /\ motion'.x = motion.x /\ motion'.y = motion.y
           /\ motion'.state # "MOVING"
           /\ fault'.active \/ command.type = "CLEAR_FAULT"
           /\ fault.reason = "ESTOP" /\ fault'.active => fault'.reason = "ESTOP"
<1>1. motion \in MotionType /\ motion.state = "FAULT"
    BY DEF TypeOK, SafetyInv, FaultCoupling
<1>2. CASE HandlePing \/ HandleStatus \/ MoveBlocked
    BY <1>1, <1>2 DEF HandlePing, HandleStatus, MoveBlocked
<1>3. CASE MoveOutOfBounds \/ MoveInBounds
    BY <1>3 DEF MoveOutOfBounds, MoveInBounds
<1>4. CASE HandleStop
    BY <1>1, <1>4, StopType DEF HandleStop
<1>5. CASE HandleEstop
    <2>1. motion' = SetFault(motion)
        BY <1>5 DEF HandleEstop
    <2>2. fault' = [active |-> TRUE, reason |-> "ESTOP"]
        BY <1>5 DEF HandleEstop, TriggerEstop, LatchFault
    <2>3. QED BY <1>1, <2>1, <2>2, SetFaultType
<1>6. CASE HandleClearFault /\ command.type = "CLEAR_FAULT"
    <2>1. motion' = ClearFault(motion) /\ fault' = [active |-> FALSE, reason |-> "NONE"]
        BY <1>6 DEF HandleClearFault, ClearLatch
    <2>2. QED BY <1>1, <1>6, <2>1, ClearFaultType
<1>7. QED BY <1>2, <1>3, <1>4, <1>5, <1>6 DEF HandleCommand, HandleMove

\* Until a CLEAR_FAULT is handled a latched fault keeps the stage where it is, and
\* an ESTOP is not relabelled, whatever commands and ticks come in between.
THEOREM FaultIsLatched == Spec => FaultLatch
<1> DEFINE Latched ==
        fault.active =>
          /\ motion'.x = motion.x /\ motion'.y = motion.y
          /\ motion'.state # "MOVING"
          /\ fault'.active \/ (pc["Motion"] = "handle" /\ command.type = "CLEAR_FAULT")
          /\ fault.reason = "ESTOP" /\ fault'.active => fault'.reason = "ESTOP"
<1>1. TypeOK /\ SafetyInv /\ [Next]_vars => Latched
    <2> SUFFICES ASSUME TypeOK, SafetyInv, [Next]_vars, fault.active
                 PROVE  Latched
        OBVIOUS
    <2>1. motion.state = "FAULT"
        BY DEF SafetyInv, FaultCoupling
    <2>2. CASE UNCHANGED <<motion, fault>>
        BY <2>1, <2>2
    <2>3. CASE MotionHandle
        BY <2>3, HandleCommandLatched DEF MotionHandle, At
    <2>4. CASE MotionAdvance
        <3>1. PICK delta \in Deltas : motion' = Update(motion, delta)
            BY <2>4 DEF MotionAdvance
        <3>2. motion' = motion
            BY <2>1, <3>1, UpdateType, TasksAssumption DEF TypeOK
        <3>3. fault' = fault
            BY <2>4 DEF MotionAdvance
        <3>4. QED BY <2>1, <3>2, <3>3
    <2>5. QED BY <2>2, <2>3, <2>4, StageWriters
<1>2. QED BY <1>1, TypeCorrect, SafetyCorrect, PTL DEF Spec, FaultLatch

-----------------------------------------------------------------------------
(* The status TelemetryTask prints.                                        *)

\* What has been copied so far is still what the shared state says.
SnapshotInv ==
    /\ pc["Telemetry"] \in {"copy_rest", "unlock"} =>
          /\ snapshot.state = motion.state
          /\ snapshot.x = motion.x /\ snapshot.y = motion.y
    /\ pc["Telemetry"] = "unlock" =>
          snapshot.uptime = uptime /\ snapshot.fault = fault.active
    /\ pc["Telemetry"] = "drain" => (snapshot.fault <=> snapshot.state = "FAULT")

\* No step of any task makes a snapshot disagree with itself.
LEMMA SnapshotNext ==
    TypeOK /\ MutexDiscipline /\ SafetyInv /\ SnapshotInv /\ [Next]_vars => SnapshotInv'
<1> SUFFICES ASSUME TypeOK, MutexDiscipline, SafetyInv, SnapshotInv, [Next]_vars
             PROVE  SnapshotInv'
    OBVIOUS
<1> USE DEF SnapshotInv
<1>1. CASE UNCHANGED <<motion, fault, uptime, snapshot>> /\ pc'["Telemetry"] = pc["Telemetry"]
    BY <1>1
<1>2. CASE CommandTaskStep
    BY <1>1, <1>2 DEF CommandTaskStep, CommandAccept, CommandReject
<1>3. CASE MotionLock \/ MotionReceive \/ MotionRefresh \/ MotionUnlock \/ MotionRespond
    BY <1>1, <1>3, MotionControl
    DEF MotionLock, MotionReceive, MotionRefresh, MotionUnlock, MotionRespond, MotionLabels
<1>4. CASE MotionHandle \/ MotionAdvance
    <2>1. pc["Telemetry"] \notin {"copy_motion", "copy_rest", "unlock"}
        BY <1>4 DEF MotionHandle, MotionAdvance, At, MutexDiscipline,
                    MotionHolds, TelemetryHolds
    <2>2. pc'["Telemetry"] = pc["Telemetry"]
        BY <1>4, MotionControl DEF MotionHandle, MotionAdvance, MotionLabels
    <2>3. snapshot' = snapshot
        BY <1>4 DEF MotionHandle, MotionAdvance
    <2>4. QED BY <2>1, <2>2, <2>3
<1>5. CASE TelemetryLock
    <2>1. pc'["Telemetry"] = "copy_motion"
        BY <1>5, TelemetryControl DEF TelemetryLock, TelemetryLabels
    <2>2. QED BY <2>1
<1>6. CASE TelemetryCopyMotion
    <2>1. pc'["Telemetry"] = "copy_rest"
        BY <1>6, TelemetryControl DEF TelemetryCopyMotion, TelemetryLabels
    <2>2. /\ snapshot'.state = motion.state /\ snapshot'.x = motion.x
          /\ snapshot'.y = motion.y /\ motion' = motion
        BY <1>6 DEF TelemetryCopyMotion, TypeOK, SnapshotType, shared
    <2>3. QED BY <2>1, <2>2
<1>7. CASE TelemetryCopyRest
    <2>1. pc["Telemetry"] = "copy_rest" /\ pc'["Telemetry"] = "unlock"
        BY <1>7, TelemetryControl DEF TelemetryCopyRest, TelemetryLabels, At
    <2>2. /\ snapshot'.state = snapshot.state /\ snapshot'.x = snapshot.x
          /\ snapshot'.y = snapshot.y
          /\ snapshot'.uptime = uptime /\ snapshot'.fault = fault.active
          /\ UNCHANGED <<motion, uptime, fault>>
        BY <1>7 DEF TelemetryCopyRest, TypeOK, SnapshotType, shared
    <2>3. QED BY <2>1, <2>2
<1>8. CASE TelemetryUnlock
    <2>1. pc["Telemetry"] = "unlock" /\ pc'["Telemetry"] = "drain"
        BY <1>8, TelemetryControl DEF TelemetryUnlock, TelemetryLabels, At
    <2>2. snapshot.fault <=> snapshot.state = "FAULT"
        BY <2>1 DEF SafetyInv, FaultCoupling
    <2>3. snapshot' = snapshot
        BY <1>8 DEF TelemetryUnlock
    <2>4. QED BY <2>1, <2>2, <2>3
<1>9. CASE TelemetryDrain
    BY <1>1, <1>9 DEF TelemetryDrain
<1>10. CASE TelemetrySendStatus
    <2>1. pc'["Telemetry"] = "idle"
        BY <1>10, TelemetryControl DEF TelemetrySendStatus
    <2>2. QED BY <2>1
<1>11. CASE UNCHANGED vars
    BY <1>1, <1>11 DEF vars
<1>12. QED
    BY <1>2, <1>3, <1>4, <1>5, <1>6, <1>7, <1>8, <1>9, <1>10, <1>11
    DEF Next, MotionTaskStep, TelemetryTaskStep

\* A status line is one moment's: TelemetryTask copies it while nothing can change
\* under it, and never prints a fault flag that contradicts the state beside it.
THEOREM SnapshotIsCoherent == Spec => []CoherentSnapshot
<1>1. Init => SnapshotInv
    BY DEF Init, SnapshotInv, Task
<1>2. TypeOK /\ SnapshotInv => CoherentSnapshot
    <2> SUFFICES ASSUME TypeOK, SnapshotInv PROVE CoherentSnapshot
        OBVIOUS
    <2>1. ASSUME pc["Telemetry"] = "unlock"
          PROVE  snapshot = [state |-> motion.state, x |-> motion.x, y |-> motion.y,
                             uptime |-> uptime, fault |-> fault.active]
        BY <2>1 DEF TypeOK, SnapshotInv, SnapshotType
    <2>2. QED BY <2>1 DEF CoherentSnapshot, SnapshotInv
<1>3. QED
    BY <1>1, <1>2, SnapshotNext, TypeCorrect, MutualExclusion, SafetyCorrect, PTL DEF Spec
===============================================================================
