----------------------------- MODULE DemosProofs -----------------------------
(***************************************************************************)
(* What the scheduler demo promises, for every script, every set of        *)
(* periods and priorities with the supervisor's the lowest, every run time *)
(* and any number of late ticks: ending it cuts no step, and MotionTask    *)
(* loses no period.                                                        *)
(***************************************************************************)
EXTENDS Demos, AppTasksProofs

-----------------------------------------------------------------------------
(* The inductive invariant.                                                *)

Texts == {"", "OK", "NO_MESSAGE", "ERROR_PARSE", "ERROR_QUEUE_FULL", "ERROR_MUTEX"}

\* What the kernel and the loops keep.
LoopTypes ==
    /\ result \in [Task -> Texts]
    /\ now \in Nat /\ late \in 0..MAX_LATE
    /\ at \in [Thread -> {"created", "step", "delay", "stopped",
                          "runtime", "stop", "grace", "ended"}]
    /\ \A t \in Task : at[t] \in {"created", "step", "delay", "stopped"}
    /\ at["Supervisor"] \in {"created", "runtime", "stop", "grace", "ended"}
    /\ wake \in [Thread -> Nat]
    /\ index \in Nat /\ began \in Nat /\ refused \in Nat

\* A task is inside AppTasks' step only inside its loop's, and no loop is there
\* once the supervisor has set the flag.
Phases ==
    /\ \A t \in Task : at[t] # "step" => pc[t] = "idle"
    /\ \A t \in Task : at[t] = "stopped" => stop
    /\ stop => \A t \in Task : at[t] # "step"
    /\ stop <=> at["Supervisor"] \in {"stop", "grace", "ended"}

\* Until the flag is set the demo has lasted no longer than its run time, but for
\* the late ticks.
InTime ==
    /\ at["Supervisor"] = "created" => now <= late
    /\ at["Supervisor"] = "runtime" =>
          now <= DEMO_RUNTIME + late /\ wake["Supervisor"] <= DEMO_RUNTIME + late

\* The steps of MotionTask that have returned: uptime_ms counts one before it has.
Counted == pc["Motion"] \in {"refresh", "unlock", "respond"}
Made == uptime + refused - (IF Counted THEN 1 ELSE 0)

\* MotionTask's wake times are the multiples of its period from when it began.
Due(n) == began + Period["Motion"] * n

OnTime ==
    /\ at["Motion"] = "created" => Made = 0
    /\ at["Motion"] # "created" => began <= now
    /\ at["Motion"] = "step" =>
          wake["Motion"] = Due(Made) /\ wake["Motion"] <= now /\ Made >= 0
    /\ at["Motion"] = "delay" =>
          wake["Motion"] = Due(Made) /\ Due(Made - 1) <= now /\ Made >= 1

SchedulerInv ==
    /\ TypeOK /\ MutexDiscipline
    /\ LoopTypes /\ Phases
    /\ ~stop => InTime /\ OnTime

\* The lines on their way: n lines of the script have been submitted and none is
\* lost, so they are, in their order, the ones answered, the ones whose replies
\* are queued, the one MotionTask holds, and the ones in the command queue.
Answered == Len(printed) - 1
Held == IF pc["Motion"] = "handle" \/ response # "" THEN 1 ELSE 0

Pipeline(n) ==
    /\ n = Answered + Len(telQueue) + Held + Len(cmdQueue) /\ n <= Len(Script)
    /\ printed \in Seq(Lines \cup {"OK BOOT RTOS_MOTION_FW_SIM"}) /\ Answered \in Nat
    /\ \A i \in 1..Answered : printed[i + 1] \in Replies(Script[i].type)
    /\ \A i \in 1..Len(telQueue) : telQueue[i] \in Replies(Script[Answered + i].type)
    /\ \A i \in 1..Len(cmdQueue) :
          cmdQueue[i] = Script[Answered + Len(telQueue) + Held + i]
    /\ pc["Motion"] = "handle" => command = Script[Answered + Len(telQueue) + 1]
    /\ response # "" =>
          /\ pc["Motion"] \in {"advance", "refresh", "unlock", "respond"}
          /\ response \in Replies(Script[Answered + Len(telQueue) + 1].type)

\* Where main's line is during each of its calls.
Submitted == IF exit # "" THEN Len(Script) ELSE IF call = "Command" THEN step - 1 ELSE step

HostPhases ==
    /\ exit \in {"", "0"} /\ call \in Task /\ tick \in Nat
    /\ exit = "" => step \in 1..Len(Script)
    /\ call = "Command" => tick = 0
    /\ exit # "" \/ call = "Command" =>
          cmdQueue = <<>> /\ telQueue = <<>> /\ \A t \in Task : pc[t] = "idle"
    /\ exit = "" /\ call = "Motion" =>
          /\ pc["Telemetry"] = "idle" /\ telQueue = <<>>
          /\ Held + Len(cmdQueue) = IF tick = 0 THEN 1 ELSE 0
          /\ pc["Motion"] \notin {"idle", "receive"} => cmdQueue = <<>>
    /\ exit = "" /\ call = "Telemetry" => pc["Motion"] = "idle" /\ cmdQueue = <<>>

HostInv == Pipeline(Submitted) /\ HostPhases /\ ~stop

\* The tasks are in order with either program, whose own part comes on top.
DemosInv ==
    /\ program \in {"host", "scheduler"}
    /\ TypeOK /\ MutexDiscipline /\ SafetyInv /\ result \in [Task -> Texts]
    /\ program = "host" => HostInv
    /\ program = "scheduler" => SchedulerInv /\ (NoLineLost => Pipeline(index))

-----------------------------------------------------------------------------
(* What the calls of the steps do.                                         *)

\* A call of MotionTask's step counts in uptime_ms once, unless it is refused.
LEMMA MotionCallEffects ==
    ASSUME TypeOK, result \in [Task -> Texts], NEW delta \in Nat, MotionCall(delta)
    PROVE  /\ [Next]_vars
           /\ result' \in [Task -> Texts]
           /\ \A t \in Task : t # "Motion" => pc'[t] = pc[t]
           /\ \/ /\ pc["Motion"] = "idle" /\ pc'["Motion"] = "idle"
                 /\ uptime' = uptime /\ result'["Motion"] = "ERROR_MUTEX"
              \/ /\ pc["Motion"] \in {"idle", "receive", "handle"}
                 /\ pc'["Motion"] \in {"receive", "handle", "advance"}
                 /\ uptime' = uptime
              \/ /\ pc["Motion"] = "advance" /\ pc'["Motion"] = "refresh"
                 /\ uptime' = (uptime + delta) % UPTIME_MOD
              \/ /\ pc["Motion"] \in {"refresh", "unlock"}
                 /\ pc'["Motion"] \in {"unlock", "respond"}
                 /\ uptime' = uptime
              \/ /\ pc["Motion"] = "respond" /\ pc'["Motion"] = "idle"
                 /\ uptime' = uptime /\ result'["Motion"] # "ERROR_MUTEX"
<1>1. pc["Command"] = "idle" /\ pc \in [Task -> {"idle"} \cup MotionLabels \cup TelemetryLabels]
    BY DEF TypeOK
<1>2. CASE MotionReturns
    <2>1. pc["Motion"] = "respond" /\ pc'["Motion"] = "idle" /\ uptime' = uptime
          /\ pc'["Command"] = "idle" /\ pc'["Telemetry"] = pc["Telemetry"]
        BY <1>2, MotionControl DEF MotionReturns, MotionRespond, At
    <2>2. result' \in [Task -> Texts] /\ result'["Motion"] # "ERROR_MUTEX"
        BY <1>2 DEF MotionReturns, Returns, Task, Texts
    <2>3. Next
        BY <1>2 DEF MotionReturns, Next, MotionTaskStep
    <2>4. QED BY <1>1, <2>1, <2>2, <2>3 DEF Task
<1>3. CASE Refused("Motion")
    <2>1. UNCHANGED vars /\ pc["Motion"] = "idle"
        BY <1>3 DEF Refused, At
    <2>2. result' \in [Task -> Texts] /\ result'["Motion"] = "ERROR_MUTEX"
        BY <1>3 DEF Refused, Returns, Task, Texts
    <2>3. QED BY <2>1, <2>2 DEF vars
<1>4. CASE MotionInside /\ UNCHANGED result
    <2>1. Next
        BY <1>4 DEF MotionInside, Next, MotionTaskStep
    <2>2. CASE MotionLock
        BY <1>1, <1>4, <2>1, <2>2, MotionControl DEF MotionLock, MotionLabels, At, Task
    <2>3. CASE MotionReceive
        BY <1>1, <1>4, <2>1, <2>3, MotionControl DEF MotionReceive, MotionLabels, At, Task
    <2>4. CASE MotionHandle
        BY <1>1, <1>4, <2>1, <2>4, MotionControl DEF MotionHandle, MotionLabels, At, Task
    <2>5. CASE MotionAdvance
        BY <1>1, <1>4, <2>1, <2>5, MotionControl DEF MotionAdvance, MotionLabels, At, Task, MotionCall
    <2>6. CASE MotionRefresh
        BY <1>1, <1>4, <2>1, <2>6, MotionControl DEF MotionRefresh, MotionLabels, At, Task
    <2>7. CASE MotionUnlock
        BY <1>1, <1>4, <2>1, <2>7, MotionControl DEF MotionUnlock, MotionLabels, At, Task
    <2>8. QED BY <1>4, <2>2, <2>3, <2>4, <2>5, <2>6, <2>7 DEF MotionInside
<1>5. QED BY <1>2, <1>3, <1>4 DEF MotionCall

\* A call of another task's step leaves MotionTask and the uptime alone.
LEMMA CommandCallEffects ==
    ASSUME TypeOK, result \in [Task -> Texts], NEW c \in Commands, CommandCall(c)
    PROVE  /\ [Next]_vars
           /\ result' \in [Task -> Texts] /\ UNCHANGED <<uptime, pc>>
<1>1. CommandAccept(c) /\ result' \in [Task -> Texts]
    BY DEF CommandCall, AcceptReturns, Returns, Task, Texts
<1>2. Next
    BY <1>1 DEF Next, CommandTaskStep
<1>3. QED BY <1>1, <1>2 DEF CommandAccept

LEMMA TelemetryCallEffects ==
    ASSUME TypeOK, result \in [Task -> Texts], TelemetryCall
    PROVE  /\ [Next]_vars
           /\ result' \in [Task -> Texts] /\ uptime' = uptime
           /\ \A u \in Task : u # "Telemetry" => pc'[u] = pc[u]
<1>1. pc["Command"] = "idle"
    BY DEF TypeOK
<1>2. CASE TelemetryReturns
    <2>1. Next
        BY <1>2 DEF TelemetryReturns, Next, TelemetryTaskStep
    <2>2. uptime' = uptime /\ pc'["Command"] = "idle" /\ pc'["Motion"] = pc["Motion"]
        BY <1>2, TelemetryControl DEF TelemetryReturns, TelemetrySendStatus, shared
    <2>3. result' \in [Task -> Texts]
        BY <1>2 DEF TelemetryReturns, Returns, Task, Texts
    <2>4. QED BY <1>1, <2>1, <2>2, <2>3 DEF Task
<1>3. CASE Refused("Telemetry")
    <2>1. UNCHANGED vars /\ result' \in [Task -> Texts]
        BY <1>3 DEF Refused, Returns, Task, Texts
    <2>2. QED BY <2>1 DEF vars
<1>4. CASE TelemetryInside /\ UNCHANGED result
    <2>1. Next
        BY <1>4 DEF TelemetryInside, Next, TelemetryTaskStep
    <2>2. uptime' = uptime /\ pc'["Command"] = "idle" /\ pc'["Motion"] = pc["Motion"]
        BY <1>1, <1>4, TelemetryControl
        DEF TelemetryInside, TelemetryLock, TelemetryCopyMotion, TelemetryCopyRest,
            TelemetryUnlock, TelemetryDrain, TelemetryLabels, shared
    <2>3. QED BY <1>1, <1>4, <2>1, <2>2 DEF Task
<1>5. QED BY <1>2, <1>3, <1>4 DEF TelemetryCall

\* What being an index of a sequence of length m comes to.
LEMMA IndexFacts ==
    ASSUME NEW m \in Nat, NEW i \in 1..m
    PROVE  i \in Nat /\ 1 <= i /\ i <= m /\ i - 1 \in Nat /\ (i - 1) + 1 = i
OBVIOUS

\* The script's next line is one the parser accepts.
LEMMA ScriptLine ==
    ASSUME NEW i \in 1..Len(Script)
    PROVE  Script[i] \in Commands /\ Len(Script) \in Nat
<1>1. Script \in Seq(Commands)
    BY ScriptAssumption
<1>2. QED BY <1>1

LEMMA OtherCallEffects ==
    ASSUME TypeOK, result \in [Task -> Texts], index \in Nat,
           NEW t \in {"Command", "Telemetry"},
           t = "Command" => Feed,
           t = "Telemetry" => TelemetryCall /\ UNCHANGED index
    PROVE  /\ [Next]_vars
           /\ result' \in [Task -> Texts] /\ uptime' = uptime /\ index' \in Nat
           /\ \A u \in Task : u # t => pc'[u] = pc[u]
<1>1. CASE t = "Command"
    <2>1. CASE index < Len(Script)
        <3>1. CommandCall(Script[index + 1]) /\ index' = index + 1
            BY <1>1, <2>1 DEF Feed
        <3>2. Script[index + 1] \in Commands
            <4>1. Script \in Seq(Commands)
                BY ScriptAssumption
            <4>2. QED BY <2>1, <4>1
        <3>3. QED BY <3>1, <3>2, CommandCallEffects
    <2>2. CASE ~(index < Len(Script))
        BY <1>1, <2>2 DEF Feed, dvars, rvars, vars
    <2>3. QED BY <2>1, <2>2
<1>2. CASE t = "Telemetry"
    BY <1>2, TelemetryCallEffects
<1>3. QED BY <1>1, <1>2

-----------------------------------------------------------------------------
(* The lines on their way.                                                 *)

\* A step that sends, takes, handles and writes nothing moves no line.
LEMMA PipelineKept ==
    ASSUME NEW n \in Nat, Pipeline(n),
           UNCHANGED <<printed, telQueue, cmdQueue, response, command>>,
           pc'["Motion"] = "handle" <=> pc["Motion"] = "handle",
           response # "" => pc'["Motion"] \in {"advance", "refresh", "unlock", "respond"}
    PROVE  Pipeline(n)' /\ Held' = Held
<1>1. Held' = Held
    BY DEF Held
<1>2. QED BY <1>1 DEF Pipeline, Answered

\* The lengths are numbers.
LEMMA PipelineTypes ==
    ASSUME TypeOK, NEW n \in Nat, Pipeline(n)
    PROVE  /\ Answered \in Nat /\ Len(printed) = Answered + 1 /\ Len(printed) \in Nat
           /\ Len(telQueue) \in Nat /\ Len(cmdQueue) \in Nat /\ Held \in {0, 1}
<1>1. Len(telQueue) \in Nat /\ Len(cmdQueue) \in Nat /\ Len(printed) \in Nat
    BY LenProperties DEF TypeOK, Pipeline
<1>2. Answered \in Nat /\ Len(printed) = Answered + 1
    <2>1. \A m \in Nat : m = (m - 1) + 1
        OBVIOUS
    <2>2. Answered = Len(printed) - 1
        BY DEF Answered
    <2>3. QED BY <1>1, <2>1, <2>2 DEF Pipeline
<1>3. Held \in {0, 1}
    BY DEF Held
<1>4. QED BY <1>1, <1>2, <1>3

\* CommandTask's step with the next line of the script and room for it.
LEMMA CommandPipeline ==
    ASSUME TypeOK, result \in [Task -> Texts], NEW n \in Nat, Pipeline(n),
           n < Len(Script), Len(cmdQueue) < CMD_CAP, CommandCall(Script[n + 1])
    PROVE  /\ Pipeline(n + 1)' /\ result'["Command"] = "OK"
           /\ cmdQueue' = Append(cmdQueue, Script[n + 1]) /\ UNCHANGED <<telQueue, pc, response>>
<1>1. /\ CommandAccept(Script[n + 1]) /\ Room(cmdQueue, CMD_CAP)
      /\ Returns("Command", "OK") /\ UNCHANGED printed
    BY DEF CommandCall, AcceptReturns, Room
<1>2. /\ cmdQueue' = Append(cmdQueue, Script[n + 1])
      /\ UNCHANGED <<telQueue, pc, command, response>>
    BY <1>1 DEF CommandAccept, Sent
<1>3. /\ Answered \in Nat /\ Len(telQueue) \in Nat /\ Len(cmdQueue) \in Nat /\ Held \in {0, 1}
    BY PipelineTypes
<1>4. Script[n + 1] \in Commands /\ Len(Script) \in Nat
    <2>1. Script \in Seq(Commands)
        BY ScriptAssumption
    <2>2. QED BY <2>1
<1>5. /\ Len(cmdQueue') = Len(cmdQueue) + 1
      /\ \A i \in 1..Len(cmdQueue) : cmdQueue'[i] = cmdQueue[i]
      /\ cmdQueue'[Len(cmdQueue) + 1] = Script[n + 1]
    <2>1. cmdQueue \in Seq(Commands)
        BY DEF TypeOK
    <2>2. QED BY <1>2, <1>4, <2>1, AppendProperties
<1>6. Held' = Held /\ Answered' = Answered
    BY <1>1, <1>2 DEF Held, Answered
<1>7. /\ n = Answered + Len(telQueue) + Held + Len(cmdQueue)
      /\ \A i \in 1..Len(cmdQueue) :
            cmdQueue[i] = Script[Answered + Len(telQueue) + Held + i]
    BY DEF Pipeline
<1>8. n + 1 = Answered + Len(telQueue) + Held + (Len(cmdQueue) + 1) /\ n + 1 <= Len(Script)
    BY <1>3, <1>4, <1>7
<1>9. \A i \in 1..(Len(cmdQueue) + 1) :
          cmdQueue'[i] = Script[Answered + Len(telQueue) + Held + i]
    <2> SUFFICES ASSUME NEW i \in 1..(Len(cmdQueue) + 1)
                 PROVE  cmdQueue'[i] = Script[Answered + Len(telQueue) + Held + i]
        OBVIOUS
    <2>1. CASE i = Len(cmdQueue) + 1
        BY <1>3, <1>5, <1>8, <2>1
    <2>2. CASE i # Len(cmdQueue) + 1
        <3>1. i \in 1..Len(cmdQueue)
            BY <1>3, <2>2
        <3>2. QED BY <1>5, <1>7, <3>1
    <2>3. QED BY <2>1, <2>2
<1>10. Pipeline(n + 1)'
    BY <1>1, <1>2, <1>5, <1>6, <1>8, <1>9 DEF Pipeline
<1>11. result'["Command"] = "OK"
    <2>1. "Command" \in Task /\ result' = [result EXCEPT !["Command"] = "OK"]
        BY <1>1 DEF Returns, Task
    <2>2. QED BY <2>1
<1>12. QED BY <1>2, <1>10, <1>11

\* MotionTask takes the oldest line, if there is one.
LEMMA ReceivePipeline ==
    ASSUME TypeOK, NEW n \in Nat, Pipeline(n), MotionReceive, UNCHANGED printed
    PROVE  Pipeline(n)' /\ Held' + Len(cmdQueue') = Held + Len(cmdQueue)
<1>1. /\ pc["Motion"] = "receive" /\ UNCHANGED <<telQueue, response>>
      /\ pc'["Motion"] \in {"advance", "handle"}
    BY MotionControl DEF MotionReceive, At, MotionLabels
<1>2. response = ""
    BY <1>1 DEF Pipeline
<1>3. CASE cmdQueue = <<>>
    <2>1. pc'["Motion"] = "advance" /\ UNCHANGED <<cmdQueue, command>>
        BY <1>3, MotionControl DEF MotionReceive, MotionLabels
    <2>2. QED BY <1>1, <1>2, <1>3, <2>1, PipelineKept
<1>4. CASE cmdQueue # <<>>
    <2>1. /\ pc'["Motion"] = "handle" /\ command' = Head(cmdQueue) /\ cmdQueue' = Tail(cmdQueue)
        BY <1>4, MotionControl DEF MotionReceive, MotionLabels
    <2>2. /\ cmdQueue' \in Seq(Commands) /\ Len(cmdQueue') = Len(cmdQueue) - 1
          /\ command' = cmdQueue[1] /\ Len(cmdQueue) \in Nat \ {0}
          /\ \A i \in 1..Len(cmdQueue') : cmdQueue'[i] = cmdQueue[i + 1]
        <3>1. cmdQueue \in Seq(Commands)
            BY DEF TypeOK
        <3>2. QED BY <1>4, <2>1, <3>1, HeadTailProperties
    <2>3. Held = 0 /\ Held' = 1 /\ Answered' = Answered /\ Answered \in Nat /\ Len(telQueue) \in Nat
        BY <1>1, <1>2, <2>1, PipelineTypes DEF Held, Answered
    <2>4. /\ n = Answered + Len(telQueue) + 0 + Len(cmdQueue)
          /\ \A i \in 1..Len(cmdQueue) : cmdQueue[i] = Script[Answered + Len(telQueue) + 0 + i]
        BY <2>3 DEF Pipeline
    <2>5. n = Answered + Len(telQueue) + 1 + Len(cmdQueue')
        BY <2>2, <2>3, <2>4
    <2>6. command' = Script[Answered + Len(telQueue) + 1]
        BY <2>2, <2>3, <2>4
    <2>7. \A i \in 1..Len(cmdQueue') : cmdQueue'[i] = Script[Answered + Len(telQueue) + 1 + i]
        <3> SUFFICES ASSUME NEW i \in 1..Len(cmdQueue')
                     PROVE  cmdQueue'[i] = Script[Answered + Len(telQueue) + 1 + i]
            OBVIOUS
        <3>1. i + 1 \in 1..Len(cmdQueue) /\ i \in Nat
            BY <2>2
        <3>2. Answered + Len(telQueue) + 0 + (i + 1) = Answered + Len(telQueue) + 1 + i
            BY <2>3, <3>1
        <3>3. QED BY <2>2, <2>4, <3>1, <3>2
    <2>8. Pipeline(n)'
        BY <1>1, <1>2, <2>1, <2>3, <2>5, <2>6, <2>7 DEF Pipeline
    <2>9. QED BY <2>2, <2>3, <2>8
<1>5. QED BY <1>3, <1>4

\* MotionTask's reply is one of those its line may have.
LEMMA HandlePipeline ==
    ASSUME TypeOK, SafetyInv, NEW n \in Nat, Pipeline(n), MotionHandle, UNCHANGED printed
    PROVE  Pipeline(n)' /\ Held' = Held /\ UNCHANGED cmdQueue
<1>1. /\ pc["Motion"] = "handle" /\ pc'["Motion"] = "advance"
      /\ UNCHANGED <<cmdQueue, telQueue>> /\ HandleCommand
    BY MotionControl DEF MotionHandle, At, MotionLabels
<1>2. response' \in Replies(command.type) /\ response' # ""
    BY <1>1, HandledReply
<1>3. Held = 1 /\ Held' = 1 /\ Answered' = Answered
    BY <1>1, <1>2 DEF Held, Answered
<1>4. command = Script[Answered + Len(telQueue) + 1]
    BY <1>1 DEF Pipeline
<1>5. QED BY <1>1, <1>2, <1>3, <1>4 DEF Pipeline

\* A reply that finds room is the youngest in the telemetry queue.
RoomToAnswer == response # "" => Len(telQueue) < TEL_CAP

LEMMA RespondPipeline ==
    ASSUME TypeOK, result \in [Task -> Texts], NEW n \in Nat, Pipeline(n),
           RoomToAnswer, MotionReturns, UNCHANGED printed
    PROVE  /\ Pipeline(n)' /\ UNCHANGED cmdQueue /\ Held' = 0
           /\ result'["Motion"] = IF Held = 1 THEN "OK" ELSE "NO_MESSAGE"
<1>1. /\ pc["Motion"] = "respond" /\ pc'["Motion"] = "idle"
      /\ UNCHANGED cmdQueue /\ response' = ""
      /\ telQueue' = IF response = "" THEN telQueue ELSE Append(telQueue, response)
    BY MotionControl DEF MotionReturns, MotionRespond, At, Sent, Room, RoomToAnswer
<1>2. /\ Held = IF response = "" THEN 0 ELSE 1
      /\ Held' = 0 /\ Answered' = Answered
    BY <1>1 DEF Held, Answered
<1>3. result'["Motion"] = IF response = "" THEN "NO_MESSAGE" ELSE "OK"
    <2>1. "Motion" \in Task
        BY DEF Task
    <2>2. QED BY <1>1, <2>1 DEF MotionReturns, Returns, Room, RoomToAnswer
<1>4. CASE response = ""
    <2>1. telQueue' = telQueue /\ Held = 0
        BY <1>1, <1>2, <1>4
    <2>2. Pipeline(n)'
        BY <1>1, <1>2, <1>4, <2>1 DEF Pipeline
    <2>3. result'["Motion"] = IF Held = 1 THEN "OK" ELSE "NO_MESSAGE"
        <3>1. ~(Held = 1)
            BY <2>1
        <3>2. QED BY <1>3, <1>4, <3>1
    <2>4. QED BY <1>1, <1>2, <2>2, <2>3
<1>5. CASE response # ""
    <2>1. Held = 1 /\ telQueue' = Append(telQueue, response)
        BY <1>1, <1>2, <1>5
    <2>2. /\ Len(telQueue') = Len(telQueue) + 1
          /\ \A i \in 1..Len(telQueue) : telQueue'[i] = telQueue[i]
          /\ telQueue'[Len(telQueue) + 1] = response
        <3>1. telQueue \in Seq(Lines) /\ response \in Lines
            BY <1>5 DEF TypeOK, Lines
        <3>2. QED BY <2>1, <3>1, AppendProperties
    <2>3. /\ Answered \in Nat /\ Len(telQueue) \in Nat /\ Len(cmdQueue) \in Nat
        BY PipelineTypes
    <2>4. /\ n = Answered + Len(telQueue) + 1 + Len(cmdQueue)
          /\ \A i \in 1..Len(cmdQueue) : cmdQueue[i] = Script[Answered + Len(telQueue) + 1 + i]
        BY <2>1 DEF Pipeline
    <2>5. n = Answered + Len(telQueue') + 0 + Len(cmdQueue)
        BY <2>2, <2>3, <2>4
    <2>6. \A i \in 1..Len(telQueue') : telQueue'[i] \in Replies(Script[Answered + i].type)
        <3> SUFFICES ASSUME NEW i \in 1..Len(telQueue')
                     PROVE  telQueue'[i] \in Replies(Script[Answered + i].type)
            OBVIOUS
        <3>1. CASE i = Len(telQueue) + 1
            <4>1. response \in Replies(Script[Answered + Len(telQueue) + 1].type)
                BY <1>5 DEF Pipeline
            <4>2. Answered + Len(telQueue) + 1 = Answered + i
                BY <2>3, <3>1
            <4>3. QED BY <2>2, <3>1, <4>1, <4>2
        <3>2. CASE i # Len(telQueue) + 1
            <4>1. i \in 1..Len(telQueue)
                BY <2>2, <2>3, <3>2
            <4>2. QED BY <2>2, <4>1 DEF Pipeline
        <3>3. QED BY <3>1, <3>2
    <2>7. \A i \in 1..Len(cmdQueue) : cmdQueue[i] = Script[Answered + Len(telQueue') + 0 + i]
        <3> SUFFICES ASSUME NEW i \in 1..Len(cmdQueue)
                     PROVE  cmdQueue[i] = Script[Answered + Len(telQueue') + 0 + i]
            OBVIOUS
        <3>1. Answered + Len(telQueue') + 0 + i = Answered + Len(telQueue) + 1 + i
            BY <2>2, <2>3
        <3>2. QED BY <2>4, <3>1
    <2>8. Pipeline(n)'
        BY <1>1, <1>2, <2>5, <2>6, <2>7 DEF Pipeline
    <2>9. QED BY <1>1, <1>2, <1>3, <1>5, <2>1, <2>8
<1>6. QED BY <1>4, <1>5

\* No call of MotionTask's step loses a line if its reply finds room: what it does to the lines it holds and to those that wait for it.
LEMMA MotionPipeline ==
    ASSUME TypeOK, SafetyInv, result \in [Task -> Texts], NEW n \in Nat, Pipeline(n),
           RoomToAnswer, NEW delta, MotionCall(delta)
    PROVE  /\ Pipeline(n)'
           /\ \/ /\ Refused("Motion") /\ UNCHANGED vars
              \/ /\ MotionReturns /\ UNCHANGED cmdQueue /\ Held' = 0
                 /\ pc["Motion"] = "respond" /\ pc'["Motion"] = "idle"
                 /\ result'["Motion"] = IF Held = 1 THEN "OK" ELSE "NO_MESSAGE"
              \/ /\ UNCHANGED telQueue /\ pc'["Motion"] # "idle"
                 /\ Held' + Len(cmdQueue') = Held + Len(cmdQueue)
                 /\ pc["Motion"] \in {"idle", "receive"} /\ Len(cmdQueue) <= 1 =>
                      pc'["Motion"] = "receive" \/ cmdQueue' = <<>>
                 /\ pc["Motion"] \notin {"idle", "receive"} =>
                      pc'["Motion"] # "receive" /\ UNCHANGED cmdQueue
<1>1. UNCHANGED printed
    BY DEF MotionCall
<1>2. CASE MotionReturns
    <2>1. pc["Motion"] = "respond" /\ pc'["Motion"] = "idle"
        BY <1>2, MotionControl DEF MotionReturns, MotionRespond, At
    <2>2. QED BY <1>1, <1>2, <2>1, RespondPipeline
<1>3. CASE Refused("Motion")
    <2>1. UNCHANGED vars
        BY <1>3 DEF Refused
    <2>2. UNCHANGED <<printed, telQueue, cmdQueue, response, command, pc>>
        BY <1>1, <2>1 DEF vars
    <2>3. Pipeline(n)'
        BY <2>2 DEF Pipeline, Answered, Held
    <2>4. QED BY <1>3, <2>1, <2>3
<1>4. CASE MotionReceive
    <2>1. pc["Motion"] = "receive" /\ UNCHANGED telQueue /\ pc'["Motion"] \in {"advance", "handle"}
        BY <1>4, MotionControl DEF MotionReceive, At, MotionLabels
    <2>2. Len(cmdQueue) <= 1 => cmdQueue' = <<>>
        <3>1. CASE cmdQueue = <<>>
            BY <1>4, <3>1 DEF MotionReceive
        <3>2. CASE cmdQueue # <<>>
            <4>1. cmdQueue' = Tail(cmdQueue) /\ cmdQueue \in Seq(Commands)
                BY <1>4, <3>2 DEF MotionReceive, TypeOK
            <4>2. /\ Len(cmdQueue') = Len(cmdQueue) - 1 /\ Len(cmdQueue) \in Nat \ {0}
                  /\ cmdQueue' \in Seq(Commands)
                BY <3>2, <4>1, HeadTailProperties
            <4>3. QED BY <4>2, EmptySeq
        <3>3. QED BY <3>1, <3>2
    <2>3. QED BY <1>1, <1>4, <2>1, <2>2, ReceivePipeline
<1>5. CASE MotionHandle
    <2>1. pc["Motion"] = "handle" /\ UNCHANGED telQueue /\ pc'["Motion"] = "advance"
        BY <1>5, MotionControl DEF MotionHandle, At, MotionLabels
    <2>2. QED BY <1>1, <1>5, <2>1, HandlePipeline
<1>6. CASE MotionLock
    <2>1. pc["Motion"] = "idle" /\ pc'["Motion"] = "receive"
          /\ UNCHANGED <<telQueue, cmdQueue, response, command>>
        BY <1>6, MotionControl DEF MotionLock, At, MotionLabels
    <2>2. response = ""
        BY <2>1 DEF Pipeline
    <2>3. Pipeline(n)' /\ Held' = Held
        BY <1>1, <2>1, <2>2, PipelineKept
    <2>4. QED BY <2>1, <2>3
<1>7. CASE MotionAdvance \/ MotionRefresh \/ MotionUnlock
    <2>1. /\ pc["Motion"] \in {"advance", "refresh", "unlock"}
          /\ pc'["Motion"] \in {"refresh", "unlock", "respond"}
          /\ UNCHANGED <<telQueue, cmdQueue, response, command>>
        BY <1>7, MotionControl DEF MotionAdvance, MotionRefresh, MotionUnlock, At, MotionLabels
    <2>2. Pipeline(n)' /\ Held' = Held
        BY <1>1, <2>1, PipelineKept
    <2>3. QED BY <2>1, <2>2
<1>8. QED BY <1>2, <1>3, <1>4, <1>5, <1>6, <1>7 DEF MotionCall, MotionInside

\* TelemetryTask writes the oldest reply, or moves none.
LEMMA TelemetryPipeline ==
    ASSUME TypeOK, NEW n \in Nat, Pipeline(n), TelemetryCall
    PROVE  /\ Pipeline(n)' /\ Held' = Held
           /\ UNCHANGED cmdQueue /\ pc'["Motion"] = pc["Motion"]
<1>1. UNCHANGED <<cmdQueue, response, command>> /\ pc'["Motion"] = pc["Motion"]
    <2>1. CASE Refused("Telemetry")
        BY <2>1 DEF Refused, vars
    <2>2. CASE TelemetryReturns
        BY <2>2, TelemetryControl DEF TelemetryReturns, TelemetrySendStatus, shared
    <2>3. CASE TelemetryInside
        BY <2>3, TelemetryControl
        DEF TelemetryInside, TelemetryLock, TelemetryCopyMotion, TelemetryCopyRest,
            TelemetryUnlock, TelemetryDrain, TelemetryLabels, shared
    <2>4. QED BY <2>1, <2>2, <2>3 DEF TelemetryCall
<1>2. Held' = Held
    BY <1>1 DEF Held
<1>3. CASE telQueue' = telQueue
    <2>1. printed' = printed
        BY <1>3 DEF TelemetryCall
    <2>2. Answered' = Answered
        BY <2>1 DEF Answered
    <2>3. QED BY <1>1, <1>2, <1>3, <2>1, <2>2 DEF Pipeline
<1>4. CASE telQueue' # telQueue
    <2>1. TelemetryDrain
        <3>1. ~TelemetrySendStatus /\ ~UNCHANGED vars
            BY <1>4 DEF TelemetrySendStatus, shared, vars
        <3>2. ~(TelemetryLock \/ TelemetryCopyMotion \/ TelemetryCopyRest \/ TelemetryUnlock)
            BY <1>4 DEF TelemetryLock, TelemetryCopyMotion, TelemetryCopyRest,
                        TelemetryUnlock, shared
        <3>3. QED BY <3>1, <3>2 DEF TelemetryCall, TelemetryReturns, Refused, TelemetryInside
    <2>2. /\ telQueue # <<>> /\ line' = Head(telQueue) /\ telQueue' = Tail(telQueue)
          /\ printed' = Append(printed, line')
        BY <1>4, <2>1 DEF TelemetryDrain, TelemetryCall
    <2>3. /\ telQueue' \in Seq(Lines) /\ Len(telQueue') = Len(telQueue) - 1
          /\ Len(telQueue) \in Nat \ {0} /\ line' = telQueue[1] /\ line' \in Lines
          /\ \A i \in 1..Len(telQueue') : telQueue'[i] = telQueue[i + 1]
        <3>1. telQueue \in Seq(Lines)
            BY DEF TypeOK
        <3>2. QED BY <2>2, <3>1, HeadTailProperties
    <2>4. /\ Answered \in Nat /\ Len(printed) = Answered + 1 /\ Len(printed) \in Nat
          /\ Len(cmdQueue) \in Nat /\ Held \in {0, 1}
        BY PipelineTypes
    <2>5. /\ printed' \in Seq(Lines \cup {"OK BOOT RTOS_MOTION_FW_SIM"})
          /\ Len(printed') = Answered + 2 /\ printed'[Answered + 2] = line'
          /\ \A i \in 1..(Answered + 1) : printed'[i] = printed[i]
        <3> DEFINE S == Lines \cup {"OK BOOT RTOS_MOTION_FW_SIM"}
        <3>1. printed \in Seq(S) /\ line' \in S
            BY <2>3 DEF Pipeline
        <3> HIDE DEF S
        <3>2. /\ Append(printed, line') \in Seq(S)
              /\ Len(Append(printed, line')) = Len(printed) + 1
              /\ \A i \in 1..Len(printed) : Append(printed, line')[i] = printed[i]
              /\ Append(printed, line')[Len(printed) + 1] = line'
            BY <3>1, AppendProperties
        <3>3. Len(printed) + 1 = Answered + 2
            BY <2>4
        <3>4. QED BY <2>2, <2>4, <3>2, <3>3 DEF S
    <2>6. Answered' = Answered + 1
        <3>1. \A m \in Nat : (m + 2) - 1 = m + 1
            OBVIOUS
        <3>2. Answered' = Len(printed') - 1
            BY DEF Answered
        <3>3. QED BY <2>4, <2>5, <3>1, <3>2
    <2>7. /\ n = Answered + Len(telQueue) + Held + Len(cmdQueue) /\ n <= Len(Script)
          /\ \A i \in 1..Answered : printed[i + 1] \in Replies(Script[i].type)
          /\ \A i \in 1..Len(telQueue) : telQueue[i] \in Replies(Script[Answered + i].type)
        BY DEF Pipeline
    <2>8. n = (Answered + 1) + Len(telQueue') + Held + Len(cmdQueue)
        BY <2>3, <2>4, <2>7
    <2>9. \A i \in 1..(Answered + 1) : printed'[i + 1] \in Replies(Script[i].type)
        <3> SUFFICES ASSUME NEW i \in 1..(Answered + 1)
                     PROVE  printed'[i + 1] \in Replies(Script[i].type)
            OBVIOUS
        <3>1. CASE i = Answered + 1
            <4>1. 1 \in 1..Len(telQueue) /\ i + 1 = Answered + 2
                BY <2>3, <2>4, <3>1
            <4>2. telQueue[1] \in Replies(Script[Answered + 1].type)
                BY <2>7, <4>1
            <4>3. QED BY <2>3, <2>5, <3>1, <4>1, <4>2
        <3>2. CASE i # Answered + 1
            <4>1. i \in 1..Answered /\ i + 1 \in 1..(Answered + 1)
                BY <2>4, <3>2
            <4>2. QED BY <2>5, <2>7, <4>1
        <3>3. QED BY <3>1, <3>2
    <2>10. \A i \in 1..Len(telQueue') : telQueue'[i] \in Replies(Script[(Answered + 1) + i].type)
        <3> SUFFICES ASSUME NEW i \in 1..Len(telQueue')
                     PROVE  telQueue'[i] \in Replies(Script[(Answered + 1) + i].type)
            OBVIOUS
        <3>1. i + 1 \in 1..Len(telQueue) /\ Answered + (i + 1) = (Answered + 1) + i
            BY <2>3, <2>4
        <3>2. QED BY <2>3, <2>7, <3>1
    <2>11. (Answered + 1) + Len(telQueue') = Answered + Len(telQueue)
        BY <2>3, <2>4
    <2>12. /\ \A i \in 1..Len(cmdQueue) :
                cmdQueue[i] = Script[(Answered + 1) + Len(telQueue') + Held + i]
           /\ pc["Motion"] = "handle" => command = Script[(Answered + 1) + Len(telQueue') + 1]
           /\ response # "" =>
                /\ pc["Motion"] \in {"advance", "refresh", "unlock", "respond"}
                /\ response \in Replies(Script[(Answered + 1) + Len(telQueue') + 1].type)
        BY <2>11 DEF Pipeline
    <2>13. Pipeline(n)'
        <3>1. Answered' \in Nat
            BY <2>4, <2>6
        <3>2. UNCHANGED <<cmdQueue, response, command, Held, Script>> /\ pc'["Motion"] = pc["Motion"]
            BY <1>1, <1>2
        <3>3. QED BY <2>5, <2>6, <2>7, <2>8, <2>9, <2>10, <2>12, <3>1, <3>2 DEF Pipeline
    <2>14. QED BY <1>1, <1>2, <2>13
<1>5. QED BY <1>3, <1>4

-----------------------------------------------------------------------------
(* No step of the scheduler demo breaks the invariant; one lemma each.     *)

\* A step of the tasks, or none, keeps their types and the mutex discipline.
LEMMA TasksGoOn ==
    ASSUME SchedulerInv, [Next]_vars
    PROVE  TypeOK' /\ MutexDiscipline'
BY TypeNext, MutexNext DEF SchedulerInv

\* One more step is due one period later, and there are not more than ticks.
LEMMA DueFacts ==
    ASSUME began \in Nat, NEW n \in Int
    PROVE  /\ Due(n) \in Int /\ Due(n + 1) = Due(n) + Period["Motion"]
           /\ Due(n - 1) = Due(n) - Period["Motion"]
           /\ n >= 0 => n <= Due(n)
<1>1. Period["Motion"] \in Nat \ {0}
    BY SchedulerAssumption DEF Task
<1> DEFINE p == Period["Motion"]
<1>2. p \in Nat \ {0}
    BY <1>1
<1> HIDE DEF p
<1>3. /\ p * n \in Int /\ p * (n + 1) = p * n + p /\ p * (n - 1) = p * n - p
      /\ n >= 0 => n <= p * n
    BY <1>2
<1>4. QED BY <1>2, <1>3 DEF Due, p

\* The counters are integers.
LEMMA MadeType ==
    ASSUME TypeOK, LoopTypes
    PROVE  Made \in Int /\ uptime \in Nat /\ refused \in Nat /\ uptime < UPTIME_MOD
<1>1. UPTIME_MOD \in Nat /\ uptime \in 0..(UPTIME_MOD - 1) /\ refused \in Nat
    BY TasksAssumption DEF TypeOK, LoopTypes
<1>2. (IF Counted THEN 1 ELSE 0) \in {0, 1}
    OBVIOUS
<1>3. Made \in Int
    BY <1>1, <1>2 DEF Made
<1>4. QED BY <1>1, <1>3

\* The tick interrupt.
LEMMA TickKeeps ==
    ASSUME SchedulerInv, Tick
    PROVE  SchedulerInv'
<1>1. UNCHANGED <<vars, result, at, wake, index, stop, began, refused>> /\ now' = now + 1
    BY DEF Tick, dvars, rvars, loops
<1>2. UNCHANGED <<pc, uptime>>
    BY <1>1 DEF vars
<1>3. TypeOK' /\ MutexDiscipline'
    BY <1>1, TasksGoOn
<1>4. now \in Nat /\ late \in Nat /\ late' = (IF Busy THEN late + 1 ELSE late) /\ late' <= MAX_LATE
    BY DEF Tick, SchedulerInv, LoopTypes
<1>5. LoopTypes'
    BY <1>1, <1>4, SchedulerAssumption DEF SchedulerInv, LoopTypes
<1>6. Phases'
    BY <1>1, <1>2 DEF SchedulerInv, Phases
<1>7. ASSUME ~stop PROVE InTime'
    <2>1. at["Supervisor"] = "created" => Busy
        BY DEF Busy, Ready, Thread
    <2>2. at["Supervisor"] = "runtime" /\ ~Busy => now < wake["Supervisor"]
        BY <1>4 DEF Busy, Ready, Thread, SchedulerInv, LoopTypes
    <2>3. InTime /\ wake["Supervisor"] \in Nat /\ DEMO_RUNTIME \in Nat
        BY <1>7, SchedulerAssumption DEF SchedulerInv, LoopTypes, Thread
    <2>4. CASE Busy
        BY <1>1, <1>4, <2>3, <2>4 DEF InTime
    <2>5. CASE ~Busy
        BY <1>1, <1>4, <2>1, <2>2, <2>3, <2>5 DEF InTime
    <2>6. QED BY <2>4, <2>5
<1>8. ASSUME ~stop PROVE OnTime'
    <2>1. Made' = Made /\ \A n : Due(n)' = Due(n)
        BY <1>1, <1>2 DEF Made, Counted, Due
    <2>2. Made \in Int /\ began \in Nat /\ wake["Motion"] \in Nat
        BY MadeType DEF SchedulerInv, LoopTypes, Thread, Task
    <2>3. Due(Made - 1) \in Int
        BY <2>2, DueFacts
    <2>4. OnTime
        BY <1>8 DEF SchedulerInv
    <2>5. /\ \A n \in Int : n <= now => n <= now'
        BY <1>1, <1>4
    <2>6. QED BY <1>1, <2>1, <2>2, <2>3, <2>4, <2>5 DEF OnTime
<1>9. QED BY <1>1, <1>3, <1>5, <1>6, <1>7, <1>8 DEF SchedulerInv

\* A loop's condition.
LEMMA BeginKeeps ==
    ASSUME SchedulerInv, NEW t \in Task, Begin(t)
    PROVE  SchedulerInv'
<1>1. /\ UNCHANGED <<vars, result, now, late, index, stop, refused>>
      /\ Running(t) /\ at[t] \in {"created", "delay"}
      /\ at' = [at EXCEPT ![t] = IF stop THEN "stopped" ELSE "step"]
      /\ wake' = IF at[t] = "created" THEN [wake EXCEPT ![t] = now] ELSE wake
      /\ began' = IF at[t] = "created" /\ t = "Motion" THEN now ELSE began
    BY DEF Begin, dvars, rvars
<1>2. UNCHANGED <<pc, uptime>>
    BY <1>1 DEF vars
<1>3. TypeOK' /\ MutexDiscipline'
    BY <1>1, TasksGoOn
<1>4. t \in Thread /\ t # "Supervisor" /\ "Supervisor" \in Thread /\ "Motion" \in Thread
    BY DEF Thread, Task
<1>5. /\ \A u \in Thread : u # t => at'[u] = at[u] /\ wake'[u] = wake[u]
      /\ at'[t] = IF stop THEN "stopped" ELSE "step"
      /\ wake'[t] = IF at[t] = "created" THEN now ELSE wake[t]
    BY <1>1, <1>4 DEF SchedulerInv, LoopTypes
<1>6. LoopTypes'
    BY <1>1, <1>4, <1>5 DEF SchedulerInv, LoopTypes, Thread
<1>7. Phases'
    BY <1>1, <1>2, <1>4, <1>5 DEF SchedulerInv, Phases, Thread
<1>8. ASSUME ~stop PROVE InTime'
    BY <1>1, <1>4, <1>5, <1>8 DEF SchedulerInv, InTime
<1>9. ASSUME ~stop PROVE OnTime'
    <2>1. Made' = Made /\ OnTime /\ now \in Nat /\ began \in Nat
        BY <1>1, <1>2, <1>9 DEF Made, Counted, SchedulerInv, LoopTypes
    <2>2. CASE t # "Motion"
        <3>1. began' = began /\ at'["Motion"] = at["Motion"] /\ wake'["Motion"] = wake["Motion"]
            BY <1>1, <1>4, <1>5, <2>2
        <3>2. QED BY <1>1, <2>1, <3>1 DEF OnTime, Due
    <2>3. CASE t = "Motion" /\ at[t] = "created"
        <3>1. /\ at'["Motion"] = "step" /\ wake'["Motion"] = now /\ began' = now
              /\ now' = now /\ Made' = 0
            BY <1>1, <1>5, <1>9, <2>1, <2>3 DEF OnTime
        <3>2. Due(0)' = now
            <4>1. Period["Motion"] * 0 = 0
                BY SchedulerAssumption DEF Task
            <4>2. QED BY <2>1, <3>1, <4>1 DEF Due
        <3>3. QED BY <2>1, <3>1, <3>2 DEF OnTime
    <2>4. CASE t = "Motion" /\ at[t] = "delay"
        <3>1. /\ at'["Motion"] = "step" /\ wake'["Motion"] = wake["Motion"] /\ began' = began
              /\ now' = now
            BY <1>1, <1>5, <1>9, <2>4
        <3>2. wake["Motion"] <= now
            BY <1>1, <2>4 DEF Running, Ready
        <3>3. Made >= 0 /\ wake["Motion"] = Due(Made) /\ began <= now
            <4>1. Made \in Int
                BY MadeType DEF SchedulerInv
            <4>2. QED BY <2>1, <2>4, <4>1 DEF OnTime
        <3>4. QED BY <2>1, <3>1, <3>2, <3>3 DEF OnTime, Due
    <2>5. QED BY <1>1, <2>2, <2>3, <2>4
<1>10. QED BY <1>1, <1>3, <1>6, <1>7, <1>8, <1>9 DEF SchedulerInv

\* What a call that may have returned does to its loop.
LEMMA RunLoop ==
    ASSUME SchedulerInv, NEW t \in Task, Run(t)
    PROVE  /\ UNCHANGED <<now, late, stop, began>> /\ at[t] = "step" /\ ~stop
           /\ \A u \in Thread : u # t => at'[u] = at[u] /\ wake'[u] = wake[u]
           /\ at'[t] = IF Returned(t) THEN "delay" ELSE "step"
           /\ wake'[t] = IF Returned(t) THEN wake[t] + Period[t] ELSE wake[t]
           /\ at' \in [Thread -> {"created", "step", "delay", "stopped",
                                  "runtime", "stop", "grace", "ended"}]
           /\ wake' \in [Thread -> Nat]
<1>1. t \in Thread /\ at[t] = "step" /\ UNCHANGED <<now, late, stop, began>>
    BY DEF Thread, Run
<1>2. ~stop
    BY <1>1 DEF SchedulerInv, Phases
<1>3. wake[t] + Period[t] \in Nat
    BY <1>1, SchedulerAssumption DEF SchedulerInv, LoopTypes
<1>4. CASE Returned(t)
    BY <1>1, <1>2, <1>3, <1>4 DEF Run, DelayUntil, SchedulerInv, LoopTypes
<1>5. CASE ~Returned(t)
    BY <1>1, <1>2, <1>5 DEF Run, SchedulerInv, LoopTypes
<1>6. QED BY <1>4, <1>5

\* Whichever task runs, the parts that do not depend on MotionTask's counters.
LEMMA RunParts ==
    ASSUME SchedulerInv, NEW t \in Task, Run(t), [Next]_vars,
           result' \in [Task -> Texts], index' \in Nat, refused' \in Nat,
           \A u \in Task : u # t => pc'[u] = pc[u]
    PROVE  TypeOK' /\ MutexDiscipline' /\ LoopTypes' /\ Phases' /\ InTime'
<1>1. TypeOK' /\ MutexDiscipline'
    BY TasksGoOn
<1>2. "Supervisor" \in Thread /\ t # "Supervisor" /\ Task \subseteq Thread
    BY DEF Thread, Task
<1>3. LoopTypes'
    BY <1>2, RunLoop DEF SchedulerInv, LoopTypes
<1>4. Phases'
    <2>1. at'["Supervisor"] = at["Supervisor"] /\ stop' = stop /\ ~stop
        BY <1>2, RunLoop
    <2>2. \A u \in Task : at'[u] # "step" => pc'[u] = "idle"
        BY <1>2, RunLoop DEF SchedulerInv, Phases, Returned
    <2>3. \A u \in Task : at'[u] = "stopped" => stop'
        BY <1>2, RunLoop DEF SchedulerInv, Phases
    <2>4. QED BY <2>1, <2>2, <2>3 DEF SchedulerInv, Phases
<1>5. InTime'
    BY <1>2, RunLoop DEF SchedulerInv, InTime
<1>6. QED BY <1>1, <1>3, <1>4, <1>5

\* A call of MotionTask's step.  Its count reaches uptime_ms before it returns,
\* and cannot wrap it: there are no more steps than ticks.
LEMMA RunMotionKeeps ==
    ASSUME SchedulerInv, Run("Motion")
    PROVE  SchedulerInv'
<1>1. /\ TypeOK /\ LoopTypes /\ Phases /\ result \in [Task -> Texts] /\ "Motion" \in Task
      /\ MotionCall(1) /\ index' = index
      /\ refused' = IF result'["Motion"] = "ERROR_MUTEX" /\ Returned("Motion")
                    THEN refused + 1 ELSE refused
    BY DEF SchedulerInv, LoopTypes, Run, Task
<1>2. /\ UNCHANGED <<now, late, stop, began>> /\ at["Motion"] = "step" /\ ~stop
      /\ at'["Motion"] = IF pc'["Motion"] = "idle" THEN "delay" ELSE "step"
      /\ wake'["Motion"] = IF pc'["Motion"] = "idle"
                           THEN wake["Motion"] + Period["Motion"] ELSE wake["Motion"]
    BY <1>1, RunLoop DEF Returned
<1>3. OnTime /\ InTime
    BY <1>2 DEF SchedulerInv
<1>4. /\ Made \in Int /\ uptime \in Nat /\ refused \in Nat /\ uptime < UPTIME_MOD
      /\ began \in Nat /\ now \in Nat /\ wake["Motion"] \in Nat
    BY <1>1, MadeType DEF LoopTypes, Thread, Task
<1>5. /\ wake["Motion"] = Due(Made) /\ wake["Motion"] <= now /\ Made >= 0 /\ began <= now
    BY <1>2, <1>3 DEF OnTime
<1>6. now <= DEMO_RUNTIME + MAX_LATE
    <2>1. /\ at["Supervisor"] \in {"created", "runtime"} /\ late \in 0..MAX_LATE
          /\ DEMO_RUNTIME \in Nat /\ MAX_LATE \in Nat
        BY <1>1, <1>2, SchedulerAssumption DEF LoopTypes, Phases
    <2>2. QED BY <1>3, <1>4, <2>1 DEF InTime
<1>7. refused' \in Nat /\ index' \in Nat
    BY <1>1, <1>4 DEF LoopTypes
<1>8. \A n : Due(n)' = Due(n)
    BY <1>2 DEF Due
<1>9. \/ pc'["Motion"] # "idle" /\ Made' = Made
      \/ pc'["Motion"] = "idle" /\ Made' = Made + 1
    <2>1. CASE pc["Motion"] = "idle" /\ pc'["Motion"] = "idle" /\ uptime' = uptime
               /\ result'["Motion"] = "ERROR_MUTEX"
        BY <1>1, <1>4, <2>1 DEF Made, Counted, Returned
    <2>2. CASE /\ pc["Motion"] \in {"idle", "receive", "handle"}
               /\ pc'["Motion"] \in {"receive", "handle", "advance"} /\ uptime' = uptime
        BY <1>1, <1>4, <2>2 DEF Made, Counted, Returned
    <2>3. CASE /\ pc["Motion"] = "advance" /\ pc'["Motion"] = "refresh"
               /\ uptime' = (uptime + 1) % UPTIME_MOD
        <3>1. Made = uptime + refused /\ refused' = refused
            BY <1>1, <1>4, <2>3 DEF Made, Counted, Returned
        <3>2. Made <= now
            <4>1. Made <= Due(Made) /\ Due(Made) \in Int
                BY <1>4, <1>5, DueFacts
            <4>2. QED BY <1>4, <1>5, <4>1
        <3>3. uptime + 1 \in 0..(UPTIME_MOD - 1) /\ UPTIME_MOD \in Nat
            BY <1>4, <1>6, <3>1, <3>2, SchedulerAssumption, TasksAssumption
        <3>4. (uptime + 1) % UPTIME_MOD = uptime + 1
            BY <3>3
        <3>5. Counted'
            BY <2>3 DEF Counted
        <3>6. QED BY <1>4, <2>3, <3>1, <3>4, <3>5 DEF Made
    <2>4. CASE /\ pc["Motion"] \in {"refresh", "unlock"}
               /\ pc'["Motion"] \in {"unlock", "respond"} /\ uptime' = uptime
        BY <1>1, <1>4, <2>4 DEF Made, Counted, Returned
    <2>5. CASE /\ pc["Motion"] = "respond" /\ pc'["Motion"] = "idle" /\ uptime' = uptime
               /\ result'["Motion"] # "ERROR_MUTEX"
        BY <1>1, <1>4, <2>5 DEF Made, Counted, Returned
    <2>6. QED BY <1>1, <2>1, <2>2, <2>3, <2>4, <2>5, MotionCallEffects
<1>10. OnTime'
    <2>1. CASE pc'["Motion"] # "idle" /\ Made' = Made
        BY <1>2, <1>5, <1>8, <2>1 DEF OnTime
    <2>2. CASE pc'["Motion"] = "idle" /\ Made' = Made + 1
        <3>1. Due(Made + 1) = Due(Made) + Period["Motion"] /\ Made + 1 - 1 = Made
            BY <1>4, DueFacts
        <3>2. Made' - 1 = Made /\ Made' >= 1
            BY <1>4, <1>5, <2>2
        <3>3. wake'["Motion"] = Due(Made + 1) /\ Due(Made) <= now
            BY <1>2, <1>5, <2>2, <3>1
        <3>4. /\ wake'["Motion"] = began' + Period["Motion"] * Made'
              /\ began' + Period["Motion"] * (Made' - 1) <= now'
            BY <1>2, <2>2, <3>2, <3>3 DEF Due
        <3>5. at'["Motion"] = "delay" /\ began' <= now'
            BY <1>2, <1>5, <2>2
        <3>6. QED BY <3>2, <3>4, <3>5 DEF OnTime, Due
    <2>3. QED BY <1>9, <2>1, <2>2
<1>11. TypeOK' /\ MutexDiscipline' /\ LoopTypes' /\ Phases' /\ InTime'
    BY <1>1, <1>7, MotionCallEffects, RunParts
<1>12. QED BY <1>10, <1>11 DEF SchedulerInv

\* A call of another task's step.
LEMMA RunOtherKeeps ==
    ASSUME SchedulerInv, NEW t \in {"Command", "Telemetry"}, Run(t)
    PROVE  SchedulerInv'
<1>1. /\ TypeOK /\ LoopTypes /\ result \in [Task -> Texts] /\ index \in Nat
      /\ t \in Task /\ t # "Motion" /\ "Motion" \in Task /\ "Motion" \in Thread
      /\ refused' = refused
    BY DEF SchedulerInv, LoopTypes, Run, Task, Thread
<1>2. /\ t = "Command" => Feed
      /\ t = "Telemetry" => TelemetryCall /\ UNCHANGED index
    BY DEF Run
<1>3. /\ [Next]_vars
      /\ result' \in [Task -> Texts] /\ uptime' = uptime /\ index' \in Nat
      /\ \A u \in Task : u # t => pc'[u] = pc[u]
    BY <1>1, <1>2, OtherCallEffects
<1>4. refused' \in Nat
    BY <1>1 DEF LoopTypes
<1>5. TypeOK' /\ MutexDiscipline' /\ LoopTypes' /\ Phases' /\ InTime'
    BY <1>1, <1>3, <1>4, RunParts
<1>6. /\ UNCHANGED <<now, began>> /\ ~stop
      /\ at'["Motion"] = at["Motion"] /\ wake'["Motion"] = wake["Motion"]
    BY <1>1, RunLoop
<1>7. Made' = Made /\ OnTime
    BY <1>1, <1>3, <1>6 DEF Made, Counted, SchedulerInv
<1>8. OnTime'
    BY <1>6, <1>7 DEF OnTime, Due
<1>9. QED BY <1>5, <1>8 DEF SchedulerInv

\* The supervisor runs only while no task is ready, so none is in a step.
LEMMA SupervisorKeeps ==
    ASSUME SchedulerInv, Supervisor
    PROVE  SchedulerInv'
<1>1. PICK from \in {"created", "runtime", "stop", "grace"},
           to \in {"runtime", "stop", "grace", "ended"}, due \in Nat :
          /\ SupervisorGoes(from, to, due)
          /\ \/ from = "created" /\ to = "runtime" /\ due = now + DEMO_RUNTIME /\ stop' = stop
             \/ from = "runtime" /\ to = "stop" /\ stop' = TRUE
             \/ from = "stop" /\ to = "grace" /\ stop' = stop
             \/ from = "grace" /\ to = "ended" /\ stop' = stop
    <2>1. now + DEMO_RUNTIME \in Nat /\ now + SHUTDOWN_GRACE \in Nat
        BY SchedulerAssumption DEF SchedulerInv, LoopTypes
    <2>2. QED BY <2>1 DEF Supervisor
<1>2. /\ UNCHANGED <<vars, result, now, late, index, began, refused>>
      /\ Running("Supervisor") /\ at["Supervisor"] = from
      /\ at' = [at EXCEPT !["Supervisor"] = to]
      /\ wake' = [wake EXCEPT !["Supervisor"] = due]
    BY <1>1 DEF SupervisorGoes, dvars, rvars
<1>3. UNCHANGED <<pc, uptime>>
    BY <1>2 DEF vars
<1>4. TypeOK' /\ MutexDiscipline'
    BY <1>2, TasksGoOn
<1>5. "Supervisor" \in Thread /\ "Supervisor" \notin Task /\ Task \subseteq Thread
      /\ "Motion" \in Task
    BY DEF Thread, Task
<1>6. /\ \A t \in Task : at'[t] = at[t] /\ wake'[t] = wake[t]
      /\ at'["Supervisor"] = to /\ wake'["Supervisor"] = due
    BY <1>2, <1>5 DEF SchedulerInv, LoopTypes
<1>7. LoopTypes'
    BY <1>2, <1>5, <1>6 DEF SchedulerInv, LoopTypes
<1>8. \A t \in Task : at[t] # "step"
    <2> SUFFICES ASSUME NEW t \in Task, at[t] = "step" PROVE FALSE
        OBVIOUS
    <2>1. t \in Thread /\ Ready(t)
        BY <1>5 DEF Ready
    <2>2. Rank(t) <= Rank("Supervisor")
        BY <1>2, <2>1 DEF Running
    <2>3. Rank(t) = Priority[t] /\ Rank("Supervisor") = SUPERVISOR_PRIORITY
        BY <1>5 DEF Rank
    <2>4. /\ SUPERVISOR_PRIORITY < Priority[t]
          /\ Priority[t] \in Nat /\ SUPERVISOR_PRIORITY \in Nat
        BY SchedulerAssumption, TasksAssumption
    <2>5. QED BY <2>2, <2>3, <2>4
<1>9. Phases'
    BY <1>1, <1>2, <1>3, <1>6, <1>8 DEF SchedulerInv, Phases
<1>10. ASSUME ~stop' PROVE InTime' /\ OnTime'
    <2>1. from = "created" /\ to = "runtime" /\ due = now + DEMO_RUNTIME /\ ~stop
        BY <1>1, <1>2, <1>10 DEF SchedulerInv, Phases
    <2>2. /\ now <= late /\ now \in Nat /\ late \in Nat /\ DEMO_RUNTIME \in Nat
          /\ now' = now /\ late' = late
        BY <1>2, <2>1, SchedulerAssumption DEF SchedulerInv, InTime, LoopTypes
    <2>3. InTime'
        BY <1>6, <2>1, <2>2 DEF InTime
    <2>4. Made' = Made /\ OnTime /\ began' = began
        BY <1>2, <1>3, <2>1 DEF Made, Counted, SchedulerInv
    <2>5. OnTime'
        BY <1>5, <1>6, <2>2, <2>4 DEF OnTime, Due
    <2>6. QED BY <2>3, <2>5
<1>11. QED BY <1>4, <1>7, <1>9, <1>10 DEF SchedulerInv

-----------------------------------------------------------------------------
(* No call of main breaks the invariant; one lemma per task.               *)

\* main's call is a step of the tasks, and nobody holds the mutex when it begins.
LEMMA HostTasks ==
    ASSUME DemosInv, HostRuns
    PROVE  /\ [Next]_vars /\ result' \in [Task -> Texts] /\ ~stop'
           /\ exit = "" /\ step \in 1..Len(Script) /\ Proceed
<1>1. /\ TypeOK /\ result \in [Task -> Texts] /\ HostInv
      /\ exit = "" /\ Perform /\ Proceed /\ ~stop'
    BY DEF DemosInv, HostRuns, HostStep, HostInv, loops
<1>2. step \in 1..Len(Script)
    BY <1>1 DEF HostInv, HostPhases
<1>3. CASE CommandCall(Script[step])
    BY <1>1, <1>2, <1>3, ScriptLine, CommandCallEffects
<1>4. CASE MotionCall(IF tick = 0 THEN 0 ELSE 1)
    BY <1>1, <1>2, <1>4, MotionCallEffects
<1>5. CASE TelemetryCall
    BY <1>1, <1>2, <1>5, TelemetryCallEffects
<1>6. QED BY <1>1, <1>3, <1>4, <1>5 DEF Perform

\* The steps in the middle of TelemetryTask's step do not end it.
LEMMA TelemetryStaysInside ==
    ASSUME TypeOK, TelemetryInside
    PROVE  pc'["Telemetry"] # "idle"
<1>1. CASE TelemetryDrain
    BY <1>1 DEF TelemetryDrain, At
<1>2. CASE TelemetryLock
    BY <1>2, TelemetryControl DEF TelemetryLock, TelemetryLabels
<1>3. CASE TelemetryCopyMotion
    BY <1>3, TelemetryControl DEF TelemetryCopyMotion, TelemetryLabels
<1>4. CASE TelemetryCopyRest
    BY <1>4, TelemetryControl DEF TelemetryCopyRest, TelemetryLabels
<1>5. CASE TelemetryUnlock
    BY <1>5, TelemetryControl DEF TelemetryUnlock, TelemetryLabels
<1>6. QED BY <1>1, <1>2, <1>3, <1>4, <1>5 DEF TelemetryInside

\* step is an index into the script.
LEMMA HostStepRange ==
    ASSUME DemosInv, HostRuns
    PROVE  step \in Nat /\ 1 <= step /\ step <= Len(Script) /\ Len(Script) \in Nat
<1>1. step \in 1..Len(Script)
    BY HostTasks
<1>2. QED BY <1>1, IndexFacts, ScriptLine

\* The two tasks that take the mutex do so one after the other.
LEMMA HostNotRefused ==
    ASSUME MutexDiscipline, pc["Motion"] = "idle", pc["Telemetry"] = "idle"
    PROVE  ~Refused("Motion") /\ ~Refused("Telemetry")
BY DEF MutexDiscipline, MotionHolds, TelemetryHolds, Refused

\* The command queue is empty when main submits a line.
LEMMA HostCommand ==
    ASSUME DemosInv, HostRuns, call = "Command"
    PROVE  HostInv'
<1>1. /\ TypeOK /\ result \in [Task -> Texts] /\ CommandCall(Script[step])
      /\ Pipeline(Submitted) /\ HostPhases /\ exit = "" /\ Proceed /\ ~stop'
    BY HostTasks DEF DemosInv, HostRuns, HostStep, HostInv, Perform
<1>2. /\ step \in 1..Len(Script) /\ Submitted = step - 1 /\ tick = 0
      /\ cmdQueue = <<>> /\ telQueue = <<>> /\ \A t \in Task : pc[t] = "idle"
    <2>1. exit = "" /\ HostPhases
        BY <1>1
    <2>2. Submitted = step - 1
        BY <2>1 DEF Submitted
    <2>3. cmdQueue = <<>> /\ telQueue = <<>> /\ \A t \in Task : pc[t] = "idle"
        BY <2>1 DEF HostPhases
    <2>4. step \in 1..Len(Script)
        BY HostTasks
    <2>5. tick = 0
        BY <1>1, <2>1 DEF HostPhases
    <2>6. QED BY <2>2, <2>3, <2>4, <2>5
<1>3. PICK n \in Nat : n = step - 1
    BY <1>2, ScriptLine
<1>4. n + 1 = step /\ n < Len(Script) /\ Len(cmdQueue) = 0 /\ 0 < CMD_CAP
    BY <1>2, <1>3, ScriptLine, TasksAssumption
<1>5. Pipeline(n) /\ CommandCall(Script[n + 1])
    BY <1>1, <1>2, <1>3, <1>4
<1>6. /\ Pipeline(n + 1)' /\ result'["Command"] = "OK"
      /\ cmdQueue' = Append(cmdQueue, Script[n + 1]) /\ UNCHANGED <<telQueue, pc, response>>
    BY <1>1, <1>4, <1>5, CommandPipeline
<1>7. call' = "Motion" /\ step' = step /\ tick' = 0 /\ exit' = ""
    <2>1. Returned("Command")
        BY <1>2, <1>6 DEF Returned, Task
    <2>2. QED BY <1>1, <1>2, <1>6, <2>1 DEF Proceed, Accepted, Advance, GoTo
<1>8. Held' = 0 /\ Len(cmdQueue') = 1
    <2>1. pc["Motion"] = "idle"
        BY <1>2 DEF Task
    <2>2. response = ""
        BY <1>5, <2>1 DEF Pipeline
    <2>3. Script[n + 1] \in Commands /\ cmdQueue \in Seq(Commands)
        BY <1>2, <1>4, ScriptLine DEF TypeOK
    <2>4. Len(cmdQueue') = Len(cmdQueue) + 1
        BY <1>6, <2>3, AppendProperties
    <2>5. Held' = 0
        BY <1>6, <2>1, <2>2 DEF Held
    <2>6. 0 + 1 = 1
        OBVIOUS
    <2>7. QED BY <1>4, <2>4, <2>5, <2>6
<1>9. Pipeline(Submitted)'
    <2>1. Submitted' = n + 1
        BY <1>4, <1>7 DEF Submitted
    <2>2. QED BY <1>6, <2>1 DEF Pipeline
<1>10. HostPhases'
    <2>1. Held' + Len(cmdQueue') = IF tick' = 0 THEN 1 ELSE 0
        <3>1. 0 + 1 = 1
            OBVIOUS
        <3>2. QED BY <1>7, <1>8, <3>1
    <2>2. step' \in 1..Len(Script) /\ tick' \in Nat /\ telQueue' = <<>>
          /\ pc'["Motion"] = "idle" /\ pc'["Telemetry"] = "idle"
        BY <1>2, <1>6, <1>7 DEF Task
    <2>3. QED BY <1>7, <2>1, <2>2 DEF HostPhases, Task
<1>11. QED BY <1>1, <1>9, <1>10 DEF HostInv

\* MotionTask finds the line that was submitted, or none in a tick, and the
\* telemetry queue empty.
LEMMA HostMotion ==
    ASSUME DemosInv, HostRuns, call = "Motion"
    PROVE  HostInv'
<1>1. /\ TypeOK /\ SafetyInv /\ MutexDiscipline /\ result \in [Task -> Texts]
      /\ Pipeline(Submitted) /\ HostPhases /\ exit = "" /\ Proceed /\ ~stop'
      /\ step \in 1..Len(Script) /\ MotionCall(IF tick = 0 THEN 0 ELSE 1)
    BY HostTasks DEF DemosInv, HostRuns, HostStep, HostInv, Perform
<1>2. /\ Submitted = step /\ tick \in Nat /\ pc["Telemetry"] = "idle" /\ telQueue = <<>>
      /\ Held + Len(cmdQueue) = (IF tick = 0 THEN 1 ELSE 0)
      /\ pc["Motion"] \notin {"idle", "receive"} => cmdQueue = <<>>
    BY <1>1 DEF HostPhases, Submitted
<1>3. PICK n \in Nat : n = step
    BY HostStepRange
<1>4. Pipeline(n) /\ RoomToAnswer
    <2>1. Len(telQueue) = 0 /\ 0 < TEL_CAP
        BY <1>2, EmptySeq, TasksAssumption
    <2>2. QED BY <1>1, <1>2, <1>3, <2>1 DEF RoomToAnswer
<1>5. /\ Held \in {0, 1} /\ Len(cmdQueue) \in Nat
      /\ Len(cmdQueue) <= 1 /\ (cmdQueue = <<>> => Len(cmdQueue) = 0)
    <2>1. Held \in {0, 1} /\ Len(cmdQueue) \in Nat
        BY <1>1, <1>4, PipelineTypes
    <2>2. \A m \in Nat : Held + m = (IF tick = 0 THEN 1 ELSE 0) => m <= 1
        BY <2>1
    <2>3. QED BY <1>2, <2>1, <2>2, EmptySeq
<1>6. pc'["Telemetry"] = "idle"
    BY <1>1, <1>2, MotionCallEffects DEF Task
<1>7. /\ Pipeline(n)'
      /\ \/ /\ UNCHANGED cmdQueue
            /\ pc["Motion"] = "respond" /\ pc'["Motion"] = "idle"
            /\ result'["Motion"] = IF Held = 1 THEN "OK" ELSE "NO_MESSAGE"
         \/ /\ UNCHANGED telQueue /\ pc'["Motion"] # "idle"
            /\ Held' + Len(cmdQueue') = Held + Len(cmdQueue)
            /\ pc["Motion"] \in {"idle", "receive"} =>
                 pc'["Motion"] = "receive" \/ cmdQueue' = <<>>
            /\ pc["Motion"] \notin {"idle", "receive"} => UNCHANGED cmdQueue
    <2>1. ~Refused("Motion")
        <3>1. Refused("Motion") => pc["Motion"] = "idle"
            BY DEF Refused, At
        <3>2. QED BY <1>1, <1>2, <3>1, HostNotRefused
    <2>2. QED BY <1>1, <1>4, <1>5, <2>1, MotionPipeline
<1>8. CASE /\ UNCHANGED cmdQueue
           /\ pc["Motion"] = "respond" /\ pc'["Motion"] = "idle"
           /\ result'["Motion"] = IF Held = 1 THEN "OK" ELSE "NO_MESSAGE"
    <2>1. cmdQueue' = <<>> /\ Held = IF tick = 0 THEN 1 ELSE 0
        BY <1>2, <1>5, <1>8
    <2>2. result'["Motion"] \in Accepted
        BY <1>2, <1>8, <2>1 DEF Accepted
    <2>3. call' = "Telemetry" /\ step' = step /\ tick' = tick /\ exit' = ""
        BY <1>1, <1>8, <2>2 DEF Proceed, Returned, Advance, GoTo
    <2>4. Submitted' = n
        BY <1>3, <2>3 DEF Submitted
    <2>5. Pipeline(Submitted)'
        BY <1>7, <2>4 DEF Pipeline
    <2>6. HostPhases'
        BY <1>1, <1>2, <1>8, <2>1, <2>3 DEF HostPhases, Task
    <2>7. QED BY <1>1, <2>5, <2>6 DEF HostInv
<1>9. CASE /\ UNCHANGED telQueue /\ pc'["Motion"] # "idle"
           /\ Held' + Len(cmdQueue') = Held + Len(cmdQueue)
           /\ pc["Motion"] \in {"idle", "receive"} =>
                pc'["Motion"] = "receive" \/ cmdQueue' = <<>>
           /\ pc["Motion"] \notin {"idle", "receive"} => UNCHANGED cmdQueue
    <2>1. UNCHANGED <<call, step, tick, exit>>
        BY <1>1, <1>9 DEF Proceed, Returned, main
    <2>2. Submitted' = n
        BY <1>1, <1>3, <2>1 DEF Submitted
    <2>3. Pipeline(Submitted)'
        BY <1>7, <2>2 DEF Pipeline
    <2>4. pc'["Motion"] \notin {"idle", "receive"} => cmdQueue' = <<>>
        BY <1>2, <1>9
    <2>5. HostPhases'
        BY <1>1, <1>2, <1>6, <1>9, <2>1, <2>4 DEF HostPhases, Task
    <2>6. QED BY <1>1, <2>3, <2>5 DEF HostInv
<1>10. QED BY <1>7, <1>8, <1>9

\* When TelemetryTask's step returns, every line submitted has been answered.
LEMMA HostTelemetry ==
    ASSUME DemosInv, HostRuns, call = "Telemetry"
    PROVE  HostInv'
<1>1. /\ TypeOK /\ MutexDiscipline /\ result \in [Task -> Texts]
      /\ Pipeline(Submitted) /\ HostPhases /\ exit = "" /\ Proceed /\ ~stop'
      /\ step \in 1..Len(Script) /\ TelemetryCall
    BY HostTasks DEF DemosInv, HostRuns, HostStep, HostInv, Perform
<1>2. /\ Submitted = step /\ tick \in Nat /\ pc["Motion"] = "idle" /\ cmdQueue = <<>>
      /\ pc["Command"] = "idle"
    BY <1>1 DEF HostPhases, Submitted, TypeOK
<1>3. PICK n \in Nat : n = step
    BY HostStepRange
<1>4. Pipeline(n)
    BY <1>1, <1>2, <1>3
<1>5. /\ Pipeline(n)' /\ cmdQueue' = <<>> /\ pc'["Motion"] = "idle" /\ pc'["Command"] = "idle"
      /\ Held' = 0
    <2>1. response = ""
        BY <1>2, <1>4 DEF Pipeline
    <2>2. Held = 0
        BY <1>2, <2>1 DEF Held
    <2>3. pc'["Command"] = "idle"
        BY <1>1, <1>2, TelemetryCallEffects DEF Task
    <2>4. QED BY <1>1, <1>2, <1>4, <2>2, <2>3, TelemetryPipeline
<1>6. CASE TelemetryReturns
    <2>1. /\ telQueue' = <<>> /\ pc'["Telemetry"] = "idle" /\ result'["Telemetry"] = "OK"
        BY <1>1, <1>6, TelemetryControl
        DEF TelemetryReturns, TelemetrySendStatus, shared, Returns, Task
    <2>2. Advance /\ Len(cmdQueue') = 0
        BY <1>1, <1>5, <2>1 DEF Proceed, Returned, Accepted
    <2>3. \A t \in Task : pc'[t] = "idle"
        BY <1>5, <2>1 DEF Task
    <2>4. CASE Simulates /\ GoTo("Motion", step, tick + 1)
        <3>1. call' = "Motion" /\ step' = step /\ tick' = tick + 1 /\ exit' = ""
            BY <1>1, <2>4 DEF GoTo
        <3>2. Submitted' = n
            BY <1>3, <3>1 DEF Submitted
        <3>3. Pipeline(Submitted)'
            BY <1>5, <3>2 DEF Pipeline
        <3>4. tick + 1 \in Nat /\ tick + 1 # 0
            BY <1>2
        <3>5. Held' + Len(cmdQueue') = IF tick' = 0 THEN 1 ELSE 0
            <4>1. 0 + 0 = 0
                OBVIOUS
            <4>2. QED BY <1>5, <2>2, <3>1, <3>4, <4>1
        <3>6. step' \in 1..Len(Script) /\ tick' \in Nat
            BY <1>1, <3>1, <3>4
        <3>7. HostPhases'
            BY <1>5, <2>1, <3>1, <3>5, <3>6 DEF HostPhases, Task
        <3>8. QED BY <1>1, <3>3, <3>7 DEF HostInv
    <2>5. CASE step < Len(Script) /\ GoTo("Command", step + 1, 0)
        <3>1. call' = "Command" /\ step' = step + 1 /\ tick' = 0 /\ exit' = ""
            BY <1>1, <2>5 DEF GoTo
        <3>2. Submitted' = n
            <4>1. (step + 1) - 1 = step
                BY HostStepRange
            <4>2. Submitted' = step' - 1
                BY <3>1 DEF Submitted
            <4>3. QED BY <1>3, <3>1, <4>1, <4>2
        <3>3. Pipeline(Submitted)'
            BY <1>5, <3>2 DEF Pipeline
        <3>4. step + 1 \in 1..Len(Script)
            BY <2>5, HostStepRange
        <3>5. HostPhases'
            BY <1>5, <2>1, <2>3, <3>1, <3>4 DEF HostPhases, Task
        <3>6. QED BY <1>1, <3>3, <3>5 DEF HostInv
    <2>6. CASE step = Len(Script) /\ exit' = "0" /\ UNCHANGED <<call, step, tick>>
        <3>1. Submitted' = n
            BY <1>3, <2>6 DEF Submitted
        <3>2. Pipeline(Submitted)'
            BY <1>5, <3>1 DEF Pipeline
        <3>3. HostPhases'
            BY <1>1, <1>2, <1>5, <2>1, <2>3, <2>6 DEF HostPhases, Task
        <3>4. QED BY <1>1, <3>2, <3>3 DEF HostInv
    <2>7. QED BY <2>2, <2>4, <2>5, <2>6 DEF Advance, Simulates
<1>7. CASE TelemetryInside
    <2>1. pc'["Telemetry"] # "idle"
        BY <1>1, <1>7, TelemetryStaysInside
    <2>2. UNCHANGED <<call, step, tick, exit>>
        BY <1>1, <2>1 DEF Proceed, Returned, main
    <2>3. Submitted' = n
        BY <1>1, <1>3, <2>2 DEF Submitted
    <2>4. Pipeline(Submitted)'
        BY <1>5, <2>3 DEF Pipeline
    <2>5. HostPhases'
        BY <1>1, <1>2, <1>5, <2>2 DEF HostPhases, Task
    <2>6. QED BY <1>1, <2>4, <2>5 DEF HostInv
<1>8. ~Refused("Telemetry")
    <2>1. Refused("Telemetry") => pc["Telemetry"] = "idle"
        BY DEF Refused, At
    <2>2. QED BY <1>1, <1>2, <2>1, HostNotRefused
<1>9. QED BY <1>1, <1>6, <1>7, <1>8 DEF TelemetryCall

LEMMA HostKeeps ==
    ASSUME DemosInv, HostRuns
    PROVE  HostInv' /\ [Next]_vars /\ result' \in [Task -> Texts]
<1>1. call \in Task
    BY DEF DemosInv, HostRuns, HostInv, HostPhases
<1>2. QED BY <1>1, HostTasks, HostCommand, HostMotion, HostTelemetry DEF Task

-----------------------------------------------------------------------------
(* The lines of the scheduler demo.                                        *)

\* With a line held, the queued replies are fewer than the lines submitted.
LEMMA OneHeld ==
    ASSUME NEW a \in Nat, NEW b \in Nat, NEW d \in Nat, NEW n \in Nat,
           NEW k \in Nat, NEW cap \in Nat,
           n = a + b + 1 + d, n <= k, k <= cap
    PROVE  b < cap
OBVIOUS

\* A script no longer than the queues never finds one full.
LEMMA SchedulerPipeline ==
    ASSUME SchedulerInv, SafetyInv, NoLineLost, program = "scheduler", Pipeline(index),
           SchedulerStep
    PROVE  Pipeline(index)'
<1>1. /\ TypeOK /\ result \in [Task -> Texts] /\ index \in Nat
      /\ Len(Script) <= CMD_CAP /\ Len(Script) <= TEL_CAP
      /\ CMD_CAP \in Nat /\ TEL_CAP \in Nat
    BY TasksAssumption DEF SchedulerInv, LoopTypes, NoLineLost
<1>2. PICK n \in Nat : n = index
    BY <1>1
<1>3. Pipeline(n)
    BY <1>2
<1>4. /\ Answered \in Nat /\ Len(telQueue) \in Nat /\ Len(cmdQueue) \in Nat /\ Held \in {0, 1}
      /\ n = Answered + Len(telQueue) + Held + Len(cmdQueue) /\ n <= Len(Script)
      /\ Len(Script) \in Nat
    BY <1>1, <1>3, PipelineTypes, ScriptAssumption, LenProperties DEF Pipeline
<1>5. ASSUME Pipeline(n)', index' = n PROVE Pipeline(index)'
    BY <1>5 DEF Pipeline
<1>6. ASSUME UNCHANGED <<dvars, index>> PROVE Pipeline(index)'
    BY <1>3, <1>2, <1>6 DEF dvars, rvars, vars, Pipeline, Answered, Held
<1>7. CASE Tick \/ Supervisor
    BY <1>6, <1>7 DEF Tick, Supervisor, SupervisorGoes, loops
<1>8. ASSUME NEW t \in Task, Begin(t) PROVE Pipeline(index)'
    BY <1>6, <1>8 DEF Begin
<1>9. CASE Run("Command")
    <2>1. CASE index < Len(Script)
        <3>1. CommandCall(Script[n + 1]) /\ index' = n + 1 /\ n < Len(Script)
            BY <1>2, <1>9, <2>1 DEF Run, Feed
        <3>2. Len(cmdQueue) < CMD_CAP
            BY <1>1, <1>4, <3>1
        <3>3. Pipeline(n + 1)'
            BY <1>1, <1>3, <3>1, <3>2, CommandPipeline
        <3>4. QED BY <3>1, <3>3 DEF Pipeline
    <2>2. CASE ~(index < Len(Script))
        BY <1>6, <1>9, <2>2 DEF Run, Feed
    <2>3. QED BY <2>1, <2>2
<1>10. CASE Run("Telemetry")
    <2>1. TelemetryCall /\ index' = n
        BY <1>2, <1>10 DEF Run
    <2>2. Pipeline(n)'
        BY <1>1, <1>3, <2>1, TelemetryPipeline
    <2>3. QED BY <1>5, <2>1, <2>2
<1>11. CASE Run("Motion")
    <2>1. MotionCall(1) /\ index' = n
        BY <1>2, <1>11 DEF Run
    <2>2. RoomToAnswer
        <3> SUFFICES ASSUME response # "" PROVE Len(telQueue) < TEL_CAP
            BY DEF RoomToAnswer
        <3>1. Held = 1
            BY DEF Held
        <3>2. QED BY <1>1, <1>4, <3>1, OneHeld
    <2>3. Pipeline(n)'
        BY <1>1, <1>3, <2>1, <2>2, MotionPipeline
    <2>4. QED BY <1>5, <2>1, <2>3
<1>12. QED BY <1>7, <1>8, <1>9, <1>10, <1>11 DEF SchedulerStep, Task

-----------------------------------------------------------------------------
(* The theorems.                                                           *)

LEMMA DemosInitInv == DemosInit => DemosInv
<1> SUFFICES ASSUME DemosInit PROVE DemosInv
    OBVIOUS
<1>1. /\ program \in {"host", "scheduler"} /\ Init /\ result = [t \in Task |-> ""]
      /\ now = 0 /\ late = 0 /\ at = [t \in Thread |-> "created"]
      /\ wake = [t \in Thread |-> 0] /\ index = 0 /\ stop = FALSE
      /\ began = 0 /\ refused = 0
    BY DEF DemosInit, SchedulerInit, DemoInit, RInit
<1>2. TypeOK /\ MutexDiscipline /\ uptime = 0 /\ pc = [t \in Task |-> "idle"]
    BY <1>1, TypeInit DEF Init, MutexDiscipline, MotionHolds, TelemetryHolds, Task
<1>3. LoopTypes
    <2>1. result \in [Task -> Texts] /\ wake \in [Thread -> Nat]
        BY <1>1 DEF Texts
    <2>2. \A t \in Thread : at[t] = "created"
        BY <1>1
    <2>3. at \in [Thread -> {"created", "step", "delay", "stopped",
                            "runtime", "stop", "grace", "ended"}]
        BY <1>1
    <2>4. late \in 0..MAX_LATE
        <3>1. late = 0 /\ MAX_LATE \in Nat
            BY <1>1, SchedulerAssumption
        <3>2. QED BY <3>1
    <2>5. QED BY <1>1, <2>1, <2>2, <2>3, <2>4 DEF LoopTypes, Thread
<1>4. Phases
    BY <1>1, <1>2 DEF Phases, Thread, Task
<1>5. InTime /\ OnTime
    <2>1. at["Motion"] = "created" /\ at["Supervisor"] = "created"
        BY <1>1 DEF Thread, Task
    <2>2. ~Counted
        BY <1>2 DEF Counted, Task
    <2>3. Made = 0
        <3>1. uptime = 0 /\ refused = 0
            BY <1>1, <1>2
        <3>2. (IF Counted THEN 1 ELSE 0) = 0
            BY <2>2
        <3>3. Made = 0 + 0 - 0
            BY <3>1, <3>2 DEF Made
        <3>4. 0 + 0 - 0 = 0
            OBVIOUS
        <3>5. QED BY <3>3, <3>4
    <2>4. now = 0 /\ late = 0
        BY <1>1
    <2>5. QED BY <2>1, <2>3, <2>4 DEF InTime, OnTime
<1>6. SchedulerInv /\ SafetyInv /\ result \in [Task -> Texts]
    BY <1>1, <1>2, <1>3, <1>4, <1>5, SafetyInit DEF SchedulerInv, LoopTypes
<1>7. Pipeline(0) /\ cmdQueue = <<>> /\ telQueue = <<>>
    <2>1. /\ printed = <<"OK BOOT RTOS_MOTION_FW_SIM">> /\ cmdQueue = <<>> /\ telQueue = <<>>
          /\ response = "" /\ pc["Motion"] = "idle"
        BY <1>1, <1>2 DEF DemosInit, SchedulerInit, DemoInit, Init, Task
    <2>2. /\ Len(printed) = 1 /\ printed \in Seq(Lines \cup {"OK BOOT RTOS_MOTION_FW_SIM"})
          /\ Len(cmdQueue) = 0 /\ Len(telQueue) = 0
        <3> DEFINE boot == "OK BOOT RTOS_MOTION_FW_SIM"
        <3>1. boot \in Lines \cup {boot}
            OBVIOUS
        <3> HIDE DEF boot
        <3>2. Len(<<boot>>) = 1 /\ <<boot>> \in Seq(Lines \cup {boot})
            BY <3>1
        <3>3. QED BY <2>1, <3>2, EmptySeq DEF boot
    <2>3. Answered = 0 /\ Held = 0
        <3>1. 1 - 1 = 0
            OBVIOUS
        <3>2. QED BY <2>1, <2>2, <3>1 DEF Answered, Held
    <2>4. Len(Script) \in Nat
        BY ScriptAssumption, LenProperties
    <2>5. 1..0 = {} /\ 0 = 0 + 0 + 0 + 0 /\ 0 \in Nat /\ 0 <= Len(Script)
        BY <2>4
    <2>6. /\ 0 = Answered + Len(telQueue) + Held + Len(cmdQueue)
          /\ 1..Answered = {} /\ 1..Len(telQueue) = {} /\ 1..Len(cmdQueue) = {}
        BY <2>2, <2>3, <2>5
    <2>7. Pipeline(0)
        BY <2>1, <2>2, <2>3, <2>5, <2>6 DEF Pipeline
    <2>8. QED BY <2>1, <2>7
<1>8. HostInv
    <2>1. /\ call = "Command" /\ step = 1 /\ tick = 0 /\ exit = IF Script = <<>> THEN "0" ELSE ""
        BY DEF DemosInit, HostInit
    <2>2. Script \in Seq(Commands) /\ Len(Script) \in Nat
        BY ScriptAssumption, LenProperties
    <2>3. Script = <<>> <=> Len(Script) = 0
        BY <2>2, EmptySeq
    <2>4. Submitted = 0 /\ (exit = "" => 1 \in 1..Len(Script))
        <3>1. 1 - 1 = 0 /\ \A m \in Nat : m # 0 => 1 \in 1..m
            OBVIOUS
        <3>2. QED BY <2>1, <2>2, <2>3, <3>1 DEF Submitted
    <2>5. HostPhases
        BY <1>2, <1>7, <2>1, <2>4 DEF HostPhases, Task
    <2>6. QED BY <1>1, <1>7, <2>4, <2>5 DEF HostInv
<1>9. QED BY <1>1, <1>2, <1>6, <1>7, <1>8 DEF DemosInv

\* Every step of either program is one of the tasks', or none.
LEMMA DemosTasks ==
    ASSUME DemosInv, [DemosNext]_demovars
    PROVE  [Next]_vars /\ result' \in [Task -> Texts]
<1>1. TypeOK /\ result \in [Task -> Texts] /\ (index \in Nat \/ program = "host")
    BY DEF DemosInv, SchedulerInv, LoopTypes
<1>2. CASE HostRuns
    BY <1>2, HostKeeps
<1>3. CASE SchedulerRuns
    <2>1. /\ TypeOK /\ result \in [Task -> Texts] /\ index \in Nat /\ SchedulerStep
        BY <1>1, <1>3 DEF SchedulerRuns, DemosInv
    <2>2. CASE Tick \/ Supervisor
        BY <2>1, <2>2 DEF Tick, Supervisor, SupervisorGoes, dvars, rvars
    <2>3. ASSUME NEW t \in Task, Begin(t) PROVE [Next]_vars /\ result' \in [Task -> Texts]
        BY <2>1, <2>3 DEF Begin, dvars, rvars
    <2>4. CASE Run("Motion")
        BY <2>1, <2>4, MotionCallEffects DEF Run
    <2>5. ASSUME NEW t \in {"Command", "Telemetry"}, Run(t)
          PROVE  [Next]_vars /\ result' \in [Task -> Texts]
        <3>1. /\ t = "Command" => Feed
              /\ t = "Telemetry" => TelemetryCall /\ UNCHANGED index
            BY <2>5 DEF Run
        <3>2. QED BY <2>1, <3>1, OtherCallEffects
    <2>6. QED BY <2>1, <2>2, <2>3, <2>4, <2>5 DEF SchedulerStep, Task
<1>4. CASE UNCHANGED demovars
    BY <1>4 DEF demovars, svars, dvars, rvars, DemosInv
<1>5. QED BY <1>2, <1>3, <1>4 DEF DemosNext

LEMMA DemosNextInv == DemosInv /\ [DemosNext]_demovars => DemosInv'
<1> SUFFICES ASSUME DemosInv, [DemosNext]_demovars PROVE DemosInv'
    OBVIOUS
<1>1. TypeOK' /\ MutexDiscipline' /\ SafetyInv' /\ result' \in [Task -> Texts]
    BY DemosTasks, TypeNext, MutexNext, SafetyNext DEF DemosInv
<1>2. CASE HostRuns
    BY <1>1, <1>2, HostKeeps DEF HostRuns, DemosInv
<1>3. CASE SchedulerRuns
    <2>1. /\ SchedulerInv /\ SafetyInv /\ SchedulerStep /\ program = "scheduler"
          /\ program' = program
        BY <1>3 DEF SchedulerRuns, DemosInv
    <2>2. SchedulerInv'
        BY <2>1, TickKeeps, BeginKeeps, RunMotionKeeps, RunOtherKeeps, SupervisorKeeps
        DEF SchedulerStep, Task
    <2>3. NoLineLost' => Pipeline(index)'
        <3>1. NoLineLost' => NoLineLost
            BY <2>1 DEF NoLineLost
        <3>2. QED BY <2>1, <3>1, SchedulerPipeline DEF DemosInv
    <2>4. QED BY <1>1, <2>1, <2>2, <2>3 DEF DemosInv
<1>4. CASE UNCHANGED demovars
    <2>1. /\ UNCHANGED <<vars, result, printed, now, late, at, wake, index, stop, began, refused,
                         call, step, tick, exit>>
          /\ program' = program
        BY <1>4 DEF demovars, svars, dvars, rvars, loops, main
    <2>2. UNCHANGED <<pc, uptime, cmdQueue, telQueue, command, response>>
        BY <2>1 DEF vars
    <2>3. ASSUME SchedulerInv PROVE SchedulerInv'
        <3>1. LoopTypes' /\ Phases'
            BY <2>1, <2>2, <2>3 DEF SchedulerInv, LoopTypes, Phases
        <3>2. ASSUME ~stop PROVE InTime' /\ OnTime'
            BY <2>1, <2>2, <2>3, <3>2
            DEF SchedulerInv, InTime, OnTime, Made, Counted, Due
        <3>3. QED BY <1>1, <2>1, <3>1, <3>2 DEF SchedulerInv
    <2>4. Submitted' = Submitted /\ index' = index
        BY <2>1 DEF Submitted
    <2>5. Pipeline(Submitted) => Pipeline(Submitted)'
        BY <2>1, <2>2, <2>4 DEF Pipeline, Answered, Held
    <2>6. Pipeline(index) => Pipeline(index)'
        BY <2>1, <2>2, <2>4 DEF Pipeline, Answered, Held
    <2>7. HostPhases => HostPhases'
        BY <2>1, <2>2 DEF HostPhases, Held
    <2>8. NoLineLost' = NoLineLost
        BY <2>1 DEF NoLineLost
    <2>9. QED BY <1>1, <2>1, <2>3, <2>5, <2>6, <2>7, <2>8 DEF DemosInv, HostInv
<1>5. QED BY <1>2, <1>3, <1>4 DEF DemosNext

LEMMA DemosCorrect == DemosSpec => []DemosInv
BY DemosInitInv, DemosNextInv, PTL DEF DemosSpec

\* Either program is the tasks of app_tasks.c run in some order: whatever holds of
\* AppTasks for every interleaving holds in both demos.
THEOREM DemosRunTheTasks == DemosSpec => Spec
<1>1. DemosInit => Init
    BY DEF DemosInit, SchedulerInit, DemoInit, RInit
<1>2. DemosInv /\ [DemosNext]_demovars => [Next]_vars
    BY DemosTasks
<1>3. QED BY <1>1, <1>2, DemosCorrect, PTL DEF DemosSpec, Spec

\* The stage keeps to the safety envelope in both demos.
THEOREM DemosKeepTheEnvelope == DemosSpec => EnvelopeSpec
BY DemosRunTheTasks, TasksImplementEnvelope

\* main never gives up on a script and has the answer to a line before it submits
\* the next; with either program each reply answers its line of the script, for
\* every script and all capacities.
THEOREM ScriptsAreAnswered == DemosSpec => []Conversation
<1>1. ASSUME TypeOK, NEW n \in Nat, Pipeline(n)
      PROVE  \A i \in 1..(Len(printed) - 1) :
                i \in DOMAIN Script /\ printed[i + 1] \in Replies(Script[i].type)
    <2>1. /\ Answered = Len(printed) - 1 /\ Answered \in Nat /\ Len(Script) \in Nat
          /\ DOMAIN Script = 1..Len(Script)
        BY <1>1, ScriptAssumption, LenProperties DEF Answered, Pipeline
    <2>2. Len(telQueue) \in Nat /\ Len(cmdQueue) \in Nat /\ Held \in {0, 1}
        BY <1>1, PipelineTypes
    <2>3. Answered <= Len(Script)
        <3>1. n = Answered + Len(telQueue) + Held + Len(cmdQueue) /\ n <= Len(Script)
            BY <1>1 DEF Pipeline
        <3>2. Answered <= n
            BY <2>1, <2>2, <3>1
        <3>3. QED BY <2>1, <3>1, <3>2
    <2>4. \A i \in 1..Answered : printed[i + 1] \in Replies(Script[i].type)
        BY <1>1 DEF Pipeline
    <2>5. QED BY <2>1, <2>3, <2>4
<1>2. ASSUME DemosInv PROVE Conversation
    <2>1. TypeOK /\ Len(Script) \in Nat
        BY <1>2, ScriptAssumption, LenProperties DEF DemosInv
    <2>2. CASE program = "host"
        <3>1. /\ Pipeline(Submitted) /\ exit \in {"", "0"} /\ Submitted \in Nat
              /\ exit = "" => step \in 1..Len(Script)
              /\ exit # "" \/ call = "Command" =>
                    cmdQueue = <<>> /\ telQueue = <<>> /\ pc["Motion"] = "idle"
            <4>1. HostInv
                BY <1>2, <2>2 DEF DemosInv
            <4>2. Submitted \in Nat
                <5>1. exit = "" => step \in 1..Len(Script)
                    BY <4>1 DEF HostInv, HostPhases
                <5>2. QED BY <2>1, <5>1, IndexFacts DEF Submitted
            <4>3. QED BY <4>1, <4>2 DEF HostInv, HostPhases, Task
        <3>2. PICK n \in Nat : n = Submitted
            BY <3>1
        <3>3. Pipeline(n) /\ Answered \in Nat /\ Len(printed) = Answered + 1
            BY <2>1, <3>1, <3>2, PipelineTypes
        <3>4. ASSUME exit # "" \/ call = "Command" PROVE n = Answered
            <4>1. response = "" /\ pc["Motion"] = "idle"
                BY <3>1, <3>3, <3>4 DEF Pipeline
            <4>2. Held = 0 /\ Len(cmdQueue) = 0 /\ Len(telQueue) = 0
                BY <3>1, <3>4, <4>1, EmptySeq DEF Held
            <4>3. n = Answered + Len(telQueue) + Held + Len(cmdQueue)
                BY <3>3 DEF Pipeline
            <4>4. QED BY <3>3, <4>2, <4>3
        <3>5. exit = "" /\ call = "Command" => Len(printed) = step
            <4> SUFFICES ASSUME exit = "", call = "Command" PROVE Len(printed) = step
                OBVIOUS
            <4>1. n = step - 1 /\ n = Answered
                BY <3>2, <3>4 DEF Submitted
            <4>2. step \in 1..Len(Script)
                BY <3>1
            <4>3. (step - 1) + 1 = step
                BY <2>1, <4>2, IndexFacts
            <4>4. QED BY <3>3, <4>1, <4>3
        <3>6. exit = "0" => Len(printed) = Len(Script) + 1
            BY <3>2, <3>3, <3>4 DEF Submitted
        <3>7. QED BY <1>1, <2>1, <3>1, <3>3, <3>5, <3>6 DEF Conversation
    <2>3. CASE program = "scheduler"
        <3>1. NoLineLost => Pipeline(index) /\ index \in Nat
            BY <1>2, <2>3 DEF DemosInv, SchedulerInv, LoopTypes
        <3>2. ASSUME NoLineLost
              PROVE  \A i \in 1..(Len(printed) - 1) :
                        i \in DOMAIN Script /\ printed[i + 1] \in Replies(Script[i].type)
            <4>1. PICK n \in Nat : n = index
                BY <3>1, <3>2
            <4>2. Pipeline(n)
                BY <3>1, <3>2, <4>1
            <4>3. QED BY <1>1, <2>1, <4>2
        <3>3. QED BY <2>3, <3>2 DEF Conversation
    <2>4. QED BY <1>2, <2>2, <2>3 DEF DemosInv
<1>3. QED BY <1>2, DemosCorrect, PTL

\* Ending the demo cuts no task's step and leaves the mutex free, whenever the
\* supervisor's deadline falls and however late the tasks are.
THEOREM NoStepIsCut == DemosSpec => []NoStepCut
<1>1. DemosInv => NoStepCut
    <2> SUFFICES ASSUME DemosInv, stop
                 PROVE  ~locked /\ \A t \in Task : pc[t] = "idle" /\ at[t] # "step"
        BY DEF NoStepCut
    <2>1. SchedulerInv
        BY DEF DemosInv, HostInv
    <2>2. \A t \in Task : at[t] # "step" /\ pc[t] = "idle"
        BY <2>1 DEF SchedulerInv, Phases
    <2>3. ~locked
        BY <2>1, <2>2 DEF SchedulerInv, MutexDiscipline, MotionHolds, TelemetryHolds, Task
    <2>4. QED BY <2>2, <2>3
<1>2. QED BY <1>1, DemosCorrect, PTL

\* A quotient is known by the multiples of the divisor around the dividend.
LEMMA QuotientBetween ==
    ASSUME NEW p \in Nat \ {0}, NEW d \in Nat, NEW q \in Nat,
           p * q <= d, d < p * (q + 1)
    PROVE  d \div p = q
<1> DEFINE e == d \div p
<1>1. e \in Int /\ d % p \in 0..(p - 1) /\ d = p * e + (d % p)
    OBVIOUS
<1> HIDE DEF e
<1>2. p * e <= d /\ d < p * e + p /\ p * e \in Int /\ p * q \in Int /\ p * (q + 1) = p * q + p
    BY <1>1
<1>3. ASSUME e > q PROVE FALSE
    <2>1. p * e >= p * (q + 1)
        BY <1>1, <1>3
    <2>2. QED BY <1>2, <2>1
<1>4. ASSUME e < q PROVE FALSE
    <2>1. p * q >= p * (e + 1) /\ p * (e + 1) = p * e + p
        BY <1>1, <1>4
    <2>2. QED BY <1>2, <2>1
<1>5. QED BY <1>1, <1>3, <1>4 DEF e

\* MotionTask loses no period: once it has caught up it has made a step for each,
\* for all periods and however the late ticks fall.
THEOREM NoPeriodIsLost == DemosSpec => []UptimeKeepsUp
<1>1. DemosInv => UptimeKeepsUp
    <2> SUFFICES ASSUME DemosInv, program = "scheduler", ~Busy, ~stop
                 PROVE  uptime + refused = (now - began) \div Period["Motion"] + 1
        BY DEF UptimeKeepsUp
    <2>1. /\ TypeOK /\ LoopTypes /\ Phases /\ OnTime /\ "Motion" \in Task /\ "Motion" \in Thread
        BY DEF DemosInv, SchedulerInv, Task, Thread
    <2>2. ~Ready("Motion")
        BY <2>1 DEF Busy
    <2>3. at["Motion"] = "delay" /\ ~(now >= wake["Motion"])
        BY <2>1, <2>2 DEF Ready, LoopTypes, Phases
    <2>4. pc["Motion"] = "idle"
        BY <2>1, <2>3 DEF Phases
    <2>5. /\ Made \in Int /\ now \in Nat /\ began \in Nat /\ wake["Motion"] \in Nat
          /\ uptime \in Nat /\ refused \in Nat
        BY <2>1, MadeType DEF LoopTypes
    <2>6. /\ wake["Motion"] = Due(Made) /\ Due(Made - 1) <= now /\ Made >= 1 /\ began <= now
        BY <2>1, <2>3 DEF OnTime
    <2>7. Made = uptime + refused
        BY <2>4, <2>5 DEF Made, Counted
    <2> DEFINE p == Period["Motion"]
               d == now - began
               q == Made - 1
    <2>8. p \in Nat \ {0} /\ d \in Nat /\ q \in Nat /\ q + 1 = Made
        BY <2>1, <2>5, <2>6, SchedulerAssumption
    <2>9. p * q <= d /\ d < p * (q + 1)
        <3>1. now < Due(Made) /\ Due(Made) = began + p * (q + 1) /\ Due(Made - 1) = began + p * q
            <4>1. now < wake["Motion"]
                BY <2>3, <2>5
            <4>2. QED BY <2>6, <2>8, <4>1 DEF Due
        <3>2. p * q \in Int /\ p * (q + 1) \in Int
            BY <2>8
        <3> HIDE DEF p, q
        <3>3. QED BY <2>5, <2>6, <3>1, <3>2 DEF q
    <2> HIDE DEF p, d, q
    <2>10. d \div p = q
        BY <2>8, <2>9, QuotientBetween
    <2>11. QED BY <2>5, <2>7, <2>8, <2>10 DEF p, d, q
<1>2. QED BY <1>1, DemosCorrect, PTL
==============================================================================
