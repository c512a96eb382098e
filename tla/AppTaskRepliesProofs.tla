------------------------- MODULE AppTaskRepliesProofs -------------------------
(***************************************************************************)
(* What a host may conclude from the replies, for every assignment of      *)
(* priorities, every queue capacity and every set of commands; and what    *)
(* the priorities add: TelemetryTask is never refused, and a rejected line *)
(* overtakes no more than what waits in the command queue.                 *)
(***************************************************************************)
EXTENDS AppTaskReplies, AppTasksProofs, FiniteSetTheorems

-----------------------------------------------------------------------------
(* The results.                                                            *)

\* Every step that returns a result is a step of the tasks or a refusal.
LEMMA ResultStep == [RNext]_rvars => [Next]_vars
<1> SUFFICES ASSUME [RNext]_rvars PROVE [Next]_vars
    OBVIOUS
<1>1. CASE \E c \in Commands : AcceptReturns(c)
    BY <1>1 DEF AcceptReturns, Next, CommandTaskStep
<1>2. CASE \E e \in ParseErrors : RejectReturns(e)
    BY <1>2 DEF RejectReturns, Next, CommandTaskStep
<1>3. CASE \E t \in {"Motion", "Telemetry"} : Refused(t)
    BY <1>3 DEF Refused
<1>4. CASE MotionReturns
    BY <1>4 DEF MotionReturns, Next, MotionTaskStep
<1>5. CASE TelemetryReturns
    BY <1>5 DEF TelemetryReturns, Next, TelemetryTaskStep
<1>6. CASE GoesOn
    BY <1>6 DEF GoesOn, MotionInside, TelemetryInside, Next, MotionTaskStep, TelemetryTaskStep
<1>7. CASE UNCHANGED rvars
    BY <1>7 DEF rvars
<1>8. QED BY <1>1, <1>2, <1>3, <1>4, <1>5, <1>6, <1>7 DEF RNext

\* The statuses of app_task_status_t, and none before the first step.
Statuses == {"OK", "NO_MESSAGE", "ERROR_PARSE", "ERROR_QUEUE_FULL", "ERROR_MUTEX"}
ResultType == result \in [Task -> Statuses \cup {""}]

\* TelemetryTask can start a step only while MotionTask is between two of its
\* own, and then nobody holds the mutex: it is not refused.
LEMMA NotRefused ==
    ASSUME Priority["Motion"] > Priority["Telemetry"], TypeOK, MutexDiscipline
    PROVE  ~Refused("Telemetry")
<1> SUFFICES ASSUME Refused("Telemetry") PROVE FALSE
    OBVIOUS
<1>1. pc["Telemetry"] = "idle" /\ MayRun("Telemetry") /\ locked
    BY DEF Refused, At
<1>2. pc["Motion"] = "idle"
    BY <1>1 DEF MayRun, Task
<1>3. ~MotionHolds /\ ~TelemetryHolds
    BY <1>1, <1>2 DEF MotionHolds, TelemetryHolds
<1>4. QED BY <1>1, <1>3 DEF MutexDiscipline

\* With MotionTask above TelemetryTask, as the scheduler creates them, no status
\* line is ever skipped for the mutex, whatever the priority of CommandTask.
THEOREM TelemetryAlwaysLocks ==
    ASSUME Priority["Motion"] > Priority["Telemetry"]
    PROVE  RSpec => []TelemetryNeverRefused
<1> DEFINE RInv == TypeOK /\ MutexDiscipline /\ ResultType /\ TelemetryNeverRefused
<1>1. RInit => RInv
    <2> SUFFICES ASSUME RInit PROVE RInv
        OBVIOUS
    <2>1. TypeOK
        BY TypeInit DEF RInit
    <2>2. MutexDiscipline
        BY DEF RInit, Init, MutexDiscipline, MotionHolds, TelemetryHolds, Task
    <2>3. ResultType /\ TelemetryNeverRefused
        BY DEF RInit, ResultType, TelemetryNeverRefused, Task
    <2>4. QED BY <2>1, <2>2, <2>3
<1>2. RInv /\ [RNext]_rvars => RInv'
    <2> SUFFICES ASSUME RInv, [RNext]_rvars PROVE RInv'
        OBVIOUS
    <2>1. TypeOK' /\ MutexDiscipline'
        BY ResultStep, TypeNext, MutexNext
    <2> SUFFICES ResultType' /\ TelemetryNeverRefused'
        BY <2>1
    <2>2. ASSUME NEW t \in Task, NEW r \in Statuses, Returns(t, r),
                 t = "Telemetry" => r # "ERROR_MUTEX"
          PROVE  ResultType' /\ TelemetryNeverRefused'
        BY <2>2 DEF Returns, ResultType, TelemetryNeverRefused, Task
    <2>3. CASE \E c \in Commands : AcceptReturns(c)
        <3>1. PICK r \in Statuses : Returns("Command", r)
            BY <2>3 DEF AcceptReturns, Statuses
        <3>2. QED BY <2>2, <3>1 DEF Task
    <2>4. CASE \E e \in ParseErrors : RejectReturns(e)
        <3>1. PICK r \in Statuses : Returns("Command", r)
            BY <2>4 DEF RejectReturns, Statuses
        <3>2. QED BY <2>2, <3>1 DEF Task
    <2>5. CASE \E t \in {"Motion", "Telemetry"} : Refused(t)
        <3>1. Refused("Motion")
            BY <2>5, NotRefused
        <3>2. Returns("Motion", "ERROR_MUTEX") /\ "ERROR_MUTEX" \in Statuses
            BY <3>1 DEF Refused, Statuses
        <3>3. QED BY <2>2, <3>2 DEF Task
    <2>6. CASE MotionReturns
        <3>1. PICK r \in Statuses : Returns("Motion", r)
            BY <2>6 DEF MotionReturns, Statuses
        <3>2. QED BY <2>2, <3>1 DEF Task
    <2>7. CASE TelemetryReturns
        <3>1. Returns("Telemetry", "OK") /\ "OK" \in Statuses
            BY <2>7 DEF TelemetryReturns, Statuses
        <3>2. QED BY <2>2, <3>1 DEF Task
    <2>8. CASE GoesOn \/ UNCHANGED rvars
        BY <2>8 DEF GoesOn, rvars, ResultType, TelemetryNeverRefused
    <2>9. QED BY <2>3, <2>4, <2>5, <2>6, <2>7, <2>8 DEF RNext
<1>3. QED BY <1>1, <1>2, PTL DEF RSpec

-----------------------------------------------------------------------------
(* Sequences of line numbers.                                              *)

\* What is in a sequence after a number is appended to it.
LEMMA AppendIds ==
    ASSUME NEW S, NEW s \in Seq(S), NEW n \in S
    PROVE  /\ Append(s, n) \in Seq(S)
           /\ Len(Append(s, n)) = Len(s) + 1
           /\ \A i \in 1..Len(s) : Append(s, n)[i] = s[i]
           /\ Append(s, n)[Len(s) + 1] = n
           /\ Range(Append(s, n)) = Range(s) \cup {n}
           /\ IsInjective(s) /\ n \notin Range(s) => IsInjective(Append(s, n))
<1>1. /\ Append(s, n) \in Seq(S)
      /\ Len(Append(s, n)) = Len(s) + 1
      /\ \A i \in 1..Len(s) : Append(s, n)[i] = s[i]
      /\ Append(s, n)[Len(s) + 1] = n
    OBVIOUS
<1>2. /\ DOMAIN s = 1..Len(s) /\ Len(s) \in Nat
      /\ DOMAIN Append(s, n) = 1..(Len(s) + 1)
    BY <1>1
<1>3. Range(Append(s, n)) = Range(s) \cup {n}
    BY <1>1, <1>2 DEF Range
<1>4. IsInjective(s) /\ n \notin Range(s) => IsInjective(Append(s, n))
    BY <1>1, <1>2 DEF Range, IsInjective
<1>5. QED BY <1>1, <1>3, <1>4

\* What is in a sequence after its first number is taken.
LEMMA TakeIds ==
    ASSUME NEW S, NEW s \in Seq(S), s # <<>>
    PROVE  /\ Head(s) \in S /\ Head(s) = s[1]
           /\ Tail(s) \in Seq(S)
           /\ Len(Tail(s)) = Len(s) - 1
           /\ \A i \in 1..Len(Tail(s)) : Tail(s)[i] = s[i + 1]
           /\ Range(s) = Range(Tail(s)) \cup {Head(s)}
           /\ IsInjective(s) => IsInjective(Tail(s)) /\ Head(s) \notin Range(Tail(s))
<1>1. /\ Head(s) \in S /\ Head(s) = s[1]
      /\ Tail(s) \in Seq(S)
      /\ Len(Tail(s)) = Len(s) - 1
      /\ \A i \in 1..Len(Tail(s)) : Tail(s)[i] = s[i + 1]
    BY HeadTailProperties
<1>2. /\ DOMAIN s = 1..Len(s) /\ Len(s) \in Nat \ {0}
      /\ DOMAIN Tail(s) = 1..(Len(s) - 1)
    BY <1>1, EmptySeq
<1>3. Range(s) = Range(Tail(s)) \cup {Head(s)}
    <2>1. ASSUME NEW i \in 1..Len(s) PROVE s[i] \in Range(Tail(s)) \cup {Head(s)}
        <3>1. CASE i = 1
            BY <1>1, <3>1
        <3>2. CASE i # 1
            <4>1. i - 1 \in 1..(Len(s) - 1) /\ s[i] = Tail(s)[i - 1]
                BY <1>1, <1>2, <3>2
            <4>2. QED BY <1>2, <4>1 DEF Range
        <3>3. QED BY <3>1, <3>2
    <2>2. ASSUME NEW i \in 1..(Len(s) - 1) PROVE Tail(s)[i] \in Range(s)
        BY <1>1, <1>2 DEF Range
    <2>3. Head(s) \in Range(s)
        BY <1>1, <1>2 DEF Range
    <2>4. QED BY <1>2, <2>1, <2>2, <2>3 DEF Range
<1>4. ASSUME IsInjective(s)
      PROVE  IsInjective(Tail(s)) /\ Head(s) \notin Range(Tail(s))
    <2>1. \A i, j \in 1..Len(s) : s[i] = s[j] => i = j
        BY <1>2, <1>4 DEF IsInjective
    <2>2. \A i, j \in 1..(Len(s) - 1) : Tail(s)[i] = Tail(s)[j] => i = j
        BY <1>1, <1>2, <2>1
    <2>3. \A i \in 1..(Len(s) - 1) : Tail(s)[i] # Head(s)
        BY <1>1, <1>2, <2>1
    <2>4. QED BY <1>2, <2>2, <2>3 DEF IsInjective, Range
<1>5. QED BY <1>1, <1>3, <1>4

\* Two sequences after another hold what both hold, once if they share nothing.
LEMMA ConcatIds ==
    ASSUME NEW S, NEW a \in Seq(S), NEW b \in Seq(S)
    PROVE  /\ Range(a \o b) = Range(a) \cup Range(b)
           /\ IsInjective(a) /\ IsInjective(b) /\ Range(a) \cap Range(b) = {}
                => IsInjective(a \o b)
<1>1. /\ Len(a \o b) = Len(a) + Len(b)
      /\ Len(a) \in Nat /\ Len(b) \in Nat
      /\ DOMAIN a = 1..Len(a) /\ DOMAIN b = 1..Len(b)
      /\ DOMAIN (a \o b) = 1..(Len(a) + Len(b))
    BY ConcatProperties, LenProperties
<1>2. \A i \in 1..(Len(a) + Len(b)) :
          (a \o b)[i] = IF i <= Len(a) THEN a[i] ELSE b[i - Len(a)]
    BY ConcatProperties
<1>3. \A i \in 1..Len(a) : i \in 1..(Len(a) + Len(b)) /\ (a \o b)[i] = a[i]
    BY <1>1, <1>2
<1>4. \A i \in 1..Len(b) :
          Len(a) + i \in 1..(Len(a) + Len(b)) /\ (a \o b)[Len(a) + i] = b[i]
    BY <1>1, <1>2
<1>5. \A i \in 1..(Len(a) + Len(b)) :
          \/ i \in 1..Len(a) /\ (a \o b)[i] = a[i]
          \/ i > Len(a) /\ i - Len(a) \in 1..Len(b) /\ (a \o b)[i] = b[i - Len(a)]
    BY <1>1, <1>2
<1>6. Range(a \o b) = Range(a) \cup Range(b)
    <2>1. /\ Range(a) = {a[i] : i \in 1..Len(a)} /\ Range(b) = {b[i] : i \in 1..Len(b)}
          /\ Range(a \o b) = {(a \o b)[i] : i \in 1..(Len(a) + Len(b))}
        BY <1>1 DEF Range
    <2>2. ASSUME NEW x \in Range(a \o b) PROVE x \in Range(a) \cup Range(b)
        <3>1. PICK i \in 1..(Len(a) + Len(b)) : x = (a \o b)[i]
            BY <2>1
        <3>2. QED BY <1>5, <2>1, <3>1
    <2>3. ASSUME NEW x \in Range(a) PROVE x \in Range(a \o b)
        <3>1. PICK i \in 1..Len(a) : x = a[i]
            BY <2>1
        <3>2. QED BY <1>3, <2>1, <3>1
    <2>4. ASSUME NEW x \in Range(b) PROVE x \in Range(a \o b)
        <3>1. PICK i \in 1..Len(b) : x = b[i]
            BY <2>1
        <3>2. QED BY <1>4, <2>1, <3>1
    <2>5. QED BY <2>2, <2>3, <2>4
<1>7. ASSUME IsInjective(a), IsInjective(b), Range(a) \cap Range(b) = {},
             NEW i \in 1..(Len(a) + Len(b)), NEW j \in 1..(Len(a) + Len(b)),
             (a \o b)[i] = (a \o b)[j]
      PROVE  i = j
    <2>1. /\ \A k, m \in 1..Len(a) : a[k] = a[m] => k = m
          /\ \A k, m \in 1..Len(b) : b[k] = b[m] => k = m
          /\ \A k \in 1..Len(a), m \in 1..Len(b) : a[k] # b[m]
        <3>1. /\ \A k, m \in 1..Len(a) : a[k] = a[m] => k = m
              /\ \A k, m \in 1..Len(b) : b[k] = b[m] => k = m
            BY <1>1, <1>7 DEF IsInjective
        <3>2. /\ \A k \in 1..Len(a) : a[k] \in Range(a)
              /\ \A m \in 1..Len(b) : b[m] \in Range(b)
            BY <1>1 DEF Range
        <3>3. QED BY <1>7, <3>1, <3>2
    <2>2. CASE i \in 1..Len(a) /\ j \in 1..Len(a)
        BY <1>3, <1>7, <2>1, <2>2
    <2>3. CASE i \notin 1..Len(a) /\ j \notin 1..Len(a)
        <3>1. i - Len(a) = j - Len(a)
            BY <1>5, <1>7, <2>1, <2>3
        <3>2. QED BY <1>1, <3>1
    <2>4. CASE ~(i \in 1..Len(a) <=> j \in 1..Len(a))
        BY <1>5, <1>7, <2>1, <2>4
    <2>5. QED BY <2>2, <2>3, <2>4
<1>8. QED BY <1>1, <1>6, <1>7 DEF IsInjective

-----------------------------------------------------------------------------
(* What a step does, as far as the lines are concerned.                    *)

\* A step of the lines returns as a step of the tasks does.
LEMMA LineStep == [HNext]_hvars => [RNext]_rvars
BY DEF HNext, AcceptLine, RejectLine, RespondLine, FollowLines, RNext, hvars

\* How far MotionTask is with a command.
Before == pc["Motion"] \in {"idle", "receive"}
Handling == pc["Motion"] = "handle"
After == pc["Motion"] \in {"advance", "refresh", "unlock", "respond"}

\* The steps that neither take, answer nor write a line.
Quiet ==
    /\ UNCHANGED <<cmdQueue, telQueue, response, ids>>
    /\ line' \in {line, ""}
    /\ \/ Before /\ Before'
       \/ Before /\ After'
       \/ After /\ After'
       \/ Handling /\ Handling' /\ UNCHANGED command

\* MotionTask takes the oldest command.
Takes ==
    /\ cmdQueue # <<>> /\ Before /\ Handling'
    /\ command' = Head(cmdQueue) /\ cmdQueue' = Tail(cmdQueue)
    /\ motionId' = Head(cmdIds) /\ cmdIds' = Tail(cmdIds)
    /\ UNCHANGED <<telQueue, line, said, telIds, printed, lost>>

\* MotionTask handles it.
Answering ==
    /\ Handling /\ After' /\ HandleCommand
    /\ UNCHANGED <<cmdQueue, telQueue, command, line, ids>>

\* TelemetryTask writes the oldest reply.
Writes ==
    /\ telQueue # <<>>
    /\ line' = Head(telQueue) /\ telQueue' = Tail(telQueue)
    /\ printed' = Append(printed, Head(telIds)) /\ telIds' = Tail(telIds)
    /\ UNCHANGED <<cmdQueue, command, response, said, cmdIds, motionId, lost>>
    /\ UNCHANGED pc

\* A queue that loses its head is not the queue it was.
LEMMA TailDiffers ==
    ASSUME NEW S, NEW s \in Seq(S), s # <<>>
    PROVE  Tail(s) # s
<1>1. Len(Tail(s)) = Len(s) - 1 /\ Len(s) \in Nat
    BY HeadTailProperties, LenProperties
<1>2. \A n \in Nat : n # n - 1
    OBVIOUS
<1>3. QED BY <1>1, <1>2

\* A task in the middle of its step takes, handles or writes a line, or none.
LEMMA FollowEffects ==
    ASSUME TypeOK, FollowLines
    PROVE  Quiet \/ Takes \/ Answering \/ Writes
<1> USE DEF Before, Handling, After
<1>1. GoesOn /\ UNCHANGED <<said, lost>>
    BY DEF FollowLines
<1>2. ASSUME UNCHANGED <<cmdQueue, telQueue>> PROVE UNCHANGED ids
    BY <1>2 DEF FollowLines, ids
<1>3. ASSUME UNCHANGED <<cmdQueue, telQueue, command, response, line>>,
             NEW from \in {"idle"} \cup MotionLabels, NEW to \in {"idle"} \cup MotionLabels,
             pc["Motion"] = from, pc'["Motion"] = to,
             <<from, to>> \in {<<"idle", "receive">>, <<"receive", "advance">>,
                               <<"advance", "refresh">>, <<"refresh", "unlock">>,
                               <<"unlock", "respond">>}
      PROVE  Quiet
    BY <1>2, <1>3 DEF Quiet
<1>4. CASE MotionLock
    BY <1>3, <1>4, MotionControl DEF MotionLock, MotionLabels, At
<1>5. CASE MotionReceive
    <2>1. CASE cmdQueue = <<>>
        BY <1>3, <1>5, <2>1, MotionControl DEF MotionReceive, MotionLabels, At
    <2>2. CASE cmdQueue # <<>>
        <3>1. cmdQueue' = Tail(cmdQueue) /\ cmdQueue' # cmdQueue /\ telQueue' = telQueue
            BY <1>5, <2>2, TailDiffers DEF MotionReceive, TypeOK
        <3>2. /\ motionId' = Head(cmdIds) /\ cmdIds' = Tail(cmdIds)
              /\ UNCHANGED <<printed, telIds>>
            BY <3>1 DEF FollowLines
        <3>3. /\ pc["Motion"] = "receive" /\ pc'["Motion"] = "handle"
              /\ command' = Head(cmdQueue) /\ line' = line
            BY <1>5, <2>2, MotionControl DEF MotionReceive, MotionLabels, At
        <3>4. QED BY <1>1, <2>2, <3>1, <3>2, <3>3 DEF Takes
    <2>3. QED BY <2>1, <2>2
<1>6. CASE MotionHandle
    <2>1. pc["Motion"] = "handle" /\ pc'["Motion"] = "advance"
        BY <1>6, MotionControl DEF MotionHandle, MotionLabels, At
    <2>2. HandleCommand /\ UNCHANGED <<cmdQueue, telQueue, command, line>>
        BY <1>6 DEF MotionHandle
    <2>3. QED BY <1>2, <2>1, <2>2 DEF Answering
<1>7. CASE MotionAdvance
    BY <1>3, <1>7, MotionControl DEF MotionAdvance, MotionLabels, At
<1>8. CASE MotionRefresh
    BY <1>3, <1>8, MotionControl DEF MotionRefresh, MotionLabels, At
<1>9. CASE MotionUnlock
    BY <1>3, <1>9, MotionControl DEF MotionUnlock, MotionLabels, At
<1>10. CASE TelemetryDrain
    <2>1. telQueue' = Tail(telQueue) /\ telQueue' # telQueue /\ cmdQueue' = cmdQueue
        BY <1>10, TailDiffers DEF TelemetryDrain, TypeOK
    <2>2. /\ printed' = Append(printed, Head(telIds)) /\ telIds' = Tail(telIds)
          /\ UNCHANGED <<motionId, cmdIds>>
        BY <2>1 DEF FollowLines
    <2>3. QED BY <1>1, <1>10, <2>1, <2>2 DEF TelemetryDrain, Writes
<1>11. CASE TelemetryLock \/ TelemetryCopyMotion \/ TelemetryCopyRest \/ TelemetryUnlock
    <2>1. UNCHANGED <<cmdQueue, telQueue, command, response, line>>
        BY <1>11 DEF TelemetryLock, TelemetryCopyMotion, TelemetryCopyRest, TelemetryUnlock,
                     shared
    <2>2. pc'["Motion"] = pc["Motion"]
        BY <1>11, TelemetryControl
        DEF TelemetryLock, TelemetryCopyMotion, TelemetryCopyRest, TelemetryUnlock,
            TelemetryLabels
    <2>3. pc["Motion"] \in {"idle"} \cup MotionLabels
        BY DEF TypeOK
    <2>4. QED BY <1>2, <2>1, <2>2, <2>3 DEF Quiet, MotionLabels
<1>12. QED
    BY <1>1, <1>4, <1>5, <1>6, <1>7, <1>8, <1>9, <1>10, <1>11
    DEF GoesOn, MotionInside, TelemetryInside

-----------------------------------------------------------------------------
(* The inductive invariant.                                                *)

\* The line MotionTask is handling, if any.
Held == IF motionId = 0 THEN {} ELSE {motionId}

IdTypes ==
    /\ said \in Seq(CommandTypes \cup ParseErrors)
    /\ printed \in Seq(Nat) /\ telIds \in Seq(Nat) /\ cmdIds \in Seq(Nat)
    /\ motionId \in Nat
    /\ result \in [Task -> Statuses \cup {""}]

\* The lines are distributed over the places they can be in.
Apart(a, b, c, d, e) ==
    /\ a \cap b = {} /\ a \cap c = {} /\ a \cap d = {} /\ a \cap e = {}
    /\ b \cap c = {} /\ b \cap d = {} /\ b \cap e = {}
    /\ c \cap d = {} /\ c \cap e = {}
    /\ d \cap e = {}

InOnePlace ==
    /\ IsInjective(printed) /\ IsInjective(telIds) /\ IsInjective(cmdIds)
    /\ Apart(Range(printed), Range(telIds), Held, Range(cmdIds), lost)
    /\ Range(printed) \cup Range(telIds) \cup Held \cup Range(cmdIds) \cup lost
         = 1..Len(said)

\* Each queue has the numbers of its messages beside it, MotionTask has a number
\* exactly as long as it has a command, and what is due as a reply is one.
Matching ==
    /\ Len(cmdIds) = Len(cmdQueue) /\ Len(telIds) = Len(telQueue)
    /\ \A i \in 1..Len(cmdQueue) : said[cmdIds[i]] = cmdQueue[i].type
    /\ \A i \in 1..Len(telQueue) : Answers(telQueue[i], telIds[i])
    /\ Before => motionId = 0 /\ response = ""
    /\ Handling => motionId # 0 /\ said[motionId] = command.type
    /\ After => /\ motionId = 0 <=> response = ""
                /\ response # "" => Answers(response, motionId)
    /\ line # "" => printed # <<>> /\ Answers(line, Last(printed))

LineInv == IdTypes /\ InOnePlace /\ Matching

\* Before the first line everything is empty.
LEMMA LineInit == HInit => LineInv
<1> SUFFICES ASSUME HInit PROVE LineInv
    OBVIOUS
<1>1. /\ said = <<>> /\ cmdIds = <<>> /\ telIds = <<>> /\ printed = <<>>
      /\ motionId = 0 /\ lost = {}
      /\ cmdQueue = <<>> /\ telQueue = <<>> /\ response = "" /\ line = ""
      /\ pc["Motion"] = "idle" /\ result \in [Task -> Statuses \cup {""}]
    BY DEF HInit, RInit, Init, Task
<1>2. IdTypes
    BY <1>1, EmptySeq DEF IdTypes
<1>3. Range(<<>>) = {} /\ IsInjective(<<>>) /\ 1..Len(<<>>) = {}
    BY DEF Range, IsInjective
<1>4. InOnePlace
    BY <1>1, <1>3 DEF InOnePlace, Apart, Held
<1>5. Matching
    BY <1>1, <1>3 DEF Matching, Before, Handling, After
<1>6. QED BY <1>2, <1>4, <1>5 DEF LineInv

\* Every number in one of the places is a line's.
LEMMA NumbersOfLines ==
    ASSUME LineInv
    PROVE  /\ Len(said) \in Nat /\ DOMAIN said = 1..Len(said)
           /\ \A i \in 1..Len(cmdIds) : cmdIds[i] \in 1..Len(said)
           /\ \A i \in 1..Len(telIds) : telIds[i] \in 1..Len(said)
           /\ motionId # 0 => motionId \in 1..Len(said)
<1>1. Len(said) \in Nat /\ DOMAIN said = 1..Len(said)
    BY LenProperties DEF LineInv, IdTypes
<1>2. /\ Range(cmdIds) \subseteq 1..Len(said)
      /\ Range(telIds) \subseteq 1..Len(said)
      /\ Held \subseteq 1..Len(said)
    BY DEF LineInv, InOnePlace
<1>3. /\ \A i \in 1..Len(cmdIds) : cmdIds[i] \in Range(cmdIds)
      /\ \A i \in 1..Len(telIds) : telIds[i] \in Range(telIds)
    BY LenProperties DEF LineInv, IdTypes, Range
<1>4. QED BY <1>1, <1>2, <1>3 DEF Held

\* A new line takes nothing from what the earlier ones said.
LEMMA SaidStays ==
    ASSUME LineInv, NEW what \in CommandTypes \cup ParseErrors, Say(what)
    PROVE  /\ said' \in Seq(CommandTypes \cup ParseErrors)
           /\ Len(said') = Len(said) + 1 /\ Len(said) \in Nat
           /\ said'[Len(said')] = what
           /\ \A i \in 1..Len(said) : said'[i] = said[i]
           /\ \A r, id : Answers(r, id) =>
                  id \in 1..Len(said) /\ id \in DOMAIN said' /\ r \in Replies(said'[id])
           /\ \A i \in 1..Len(cmdIds) : said'[cmdIds[i]] = said[cmdIds[i]]
           /\ motionId # 0 => said'[motionId] = said[motionId]
           /\ 1..Len(said') = 1..Len(said) \cup {Len(said')}
           /\ Len(said') \notin 1..Len(said) /\ Len(said') \in Nat
<1>1. /\ said' \in Seq(CommandTypes \cup ParseErrors)
      /\ Len(said') = Len(said) + 1
      /\ said'[Len(said) + 1] = what
      /\ \A i \in 1..Len(said) : said'[i] = said[i]
    <2>1. said \in Seq(CommandTypes \cup ParseErrors) /\ said' = Append(said, what)
        BY DEF Say, LineInv, IdTypes
    <2>2. QED BY <2>1, AppendIds
<1>2. Len(said) \in Nat /\ DOMAIN said = 1..Len(said)
    BY NumbersOfLines
<1>3. DOMAIN said' = 1..(Len(said) + 1)
    BY <1>1, LenProperties
<1>4. ASSUME NEW r, NEW id, Answers(r, id)
      PROVE  id \in 1..Len(said) /\ id \in DOMAIN said' /\ r \in Replies(said'[id])
    <2>1. id \in 1..Len(said) /\ r \in Replies(said[id])
        BY <1>2, <1>4 DEF Answers
    <2>2. id \in DOMAIN said' /\ said'[id] = said[id]
        BY <1>1, <1>2, <1>3, <2>1
    <2>3. QED BY <2>1, <2>2
<1>5. /\ 1..Len(said') = 1..Len(said) \cup {Len(said')}
      /\ Len(said') \notin 1..Len(said) /\ Len(said') \in Nat
    BY <1>1, <1>2
<1>6. QED BY <1>1, <1>2, <1>4, <1>5, NumbersOfLines

\* A line that is accepted joins the command queue with its number, or is lost.
LEMMA AcceptKeeps ==
    ASSUME TypeOK, LineInv, NEW c \in Commands, AcceptLine(c)
    PROVE  LineInv'
<1> DEFINE n == Len(said')
<1>1. /\ UNCHANGED <<telQueue, pc, command, response, line, telIds, motionId, printed>>
      /\ cmdQueue' = Sent(cmdQueue, CMD_CAP, c)
      /\ Say(c.type)
    BY DEF AcceptLine, AcceptReturns, CommandAccept
<1>2. c.type \in CommandTypes \cup ParseErrors
    BY TasksAssumption DEF Command
<1>3. /\ cmdIds \in Seq(Nat) /\ cmdQueue \in Seq(Commands)
      /\ Len(cmdIds) = Len(cmdQueue) /\ Len(cmdQueue) \in Nat
    BY LenProperties DEF LineInv, IdTypes, Matching, TypeOK
<1>4. /\ result' \in [Task -> Statuses \cup {""}]
      /\ result'["Command"] = IF Room(cmdQueue, CMD_CAP) THEN "OK" ELSE "ERROR_QUEUE_FULL"
    BY DEF AcceptLine, AcceptReturns, Returns, LineInv, IdTypes, Task, Statuses
<1>5. CASE Room(cmdQueue, CMD_CAP)
    <2>1. cmdQueue' = Append(cmdQueue, c) /\ cmdIds' = Append(cmdIds, n) /\ lost' = lost
        BY <1>1, <1>4, <1>5 DEF AcceptLine, Sent
    <2>0. n \in Nat
        BY <1>1, <1>2, SaidStays
    <2>2. /\ cmdIds' \in Seq(Nat) /\ Len(cmdIds') = Len(cmdIds) + 1
          /\ \A i \in 1..Len(cmdIds) : cmdIds'[i] = cmdIds[i]
          /\ cmdIds'[Len(cmdIds) + 1] = n
          /\ Range(cmdIds') = Range(cmdIds) \cup {n}
          /\ IsInjective(cmdIds) /\ n \notin Range(cmdIds) => IsInjective(cmdIds')
        <3> HIDE DEF n
        <3>1. QED BY <1>3, <2>0, <2>1, AppendIds
    <2>3. /\ Len(cmdQueue') = Len(cmdQueue) + 1
          /\ \A i \in 1..Len(cmdQueue) : cmdQueue'[i] = cmdQueue[i]
          /\ cmdQueue'[Len(cmdQueue) + 1] = c
        BY <1>3, <2>1, AppendIds
    <2>4. IdTypes'
        BY <1>1, <1>2, <1>4, <2>2, SaidStays DEF LineInv, IdTypes
    <2>5. InOnePlace'
        BY <1>1, <1>2, <2>1, <2>2, SaidStays DEF LineInv, InOnePlace, Apart, Held
    <2>6. Matching'
        <3>1. \A i \in 1..Len(cmdQueue') : said'[cmdIds'[i]] = cmdQueue'[i].type
            <4> SUFFICES ASSUME NEW i \in 1..(Len(cmdQueue) + 1)
                         PROVE  said'[cmdIds'[i]] = cmdQueue'[i].type
                BY <2>3
            <4>1. CASE i \in 1..Len(cmdQueue)
                <5>1. said[cmdIds[i]] = cmdQueue[i].type
                    BY <4>1 DEF LineInv, Matching
                <5>2. cmdIds'[i] = cmdIds[i] /\ cmdQueue'[i] = cmdQueue[i]
                    BY <1>3, <2>2, <2>3, <4>1
                <5>3. said'[cmdIds[i]] = said[cmdIds[i]]
                    BY <1>1, <1>2, <1>3, <4>1, SaidStays
                <5>4. QED BY <5>1, <5>2, <5>3
            <4>2. CASE i = Len(cmdQueue) + 1
                BY <1>1, <1>2, <1>3, <2>2, <2>3, <4>2, SaidStays
            <4>3. QED BY <1>3, <4>1, <4>2
        <3>2. QED BY <1>1, <1>2, <1>3, <2>2, <2>3, <3>1, SaidStays
                  DEF LineInv, Matching, Answers, Before, Handling, After
    <2>7. QED BY <2>4, <2>5, <2>6 DEF LineInv
<1>6. CASE ~Room(cmdQueue, CMD_CAP)
    <2>1. cmdQueue' = cmdQueue /\ cmdIds' = cmdIds /\ lost' = lost \cup {n}
        BY <1>1, <1>4, <1>6 DEF AcceptLine, Sent
    <2>2. IdTypes'
        BY <1>1, <1>2, <1>4, <2>1, SaidStays DEF LineInv, IdTypes
    <2>3. InOnePlace'
        BY <1>1, <1>2, <2>1, SaidStays DEF LineInv, InOnePlace, Apart, Held
    <2>4. Matching'
        BY <1>1, <1>2, <1>3, <2>1, SaidStays DEF LineInv, Matching, Answers, Before, Handling, After
    <2>5. QED BY <2>2, <2>3, <2>4 DEF LineInv
<1>7. QED BY <1>5, <1>6

\* What a line is rejected with is what it is answered with.
LEMMA ErrorIsAnswer ==
    ASSUME NEW e \in ParseErrors
    PROVE  e \in Replies(e)
BY TextsAssumption DEF Replies, CommandTypes

\* A line that is rejected has its answer in the telemetry queue, or is lost.
LEMMA RejectKeeps ==
    ASSUME TypeOK, LineInv, NEW e \in ParseErrors, RejectLine(e)
    PROVE  LineInv'
<1> DEFINE n == Len(said')
<1>1. /\ UNCHANGED <<cmdQueue, pc, command, response, line, cmdIds, motionId, printed>>
      /\ telQueue' = Sent(telQueue, TEL_CAP, e)
      /\ Say(e)
    BY DEF RejectLine, RejectReturns, CommandReject
<1>2. e \in CommandTypes \cup ParseErrors /\ e \in Lines
    BY DEF Lines
<1>3. /\ telIds \in Seq(Nat) /\ telQueue \in Seq(Lines)
      /\ Len(telIds) = Len(telQueue) /\ Len(telQueue) \in Nat
      /\ Len(cmdIds) = Len(cmdQueue)
    BY LenProperties DEF LineInv, IdTypes, Matching, TypeOK
<1>4. /\ result' \in [Task -> Statuses \cup {""}]
      /\ result'["Command"] = IF Room(telQueue, TEL_CAP) THEN "ERROR_PARSE"
                              ELSE "ERROR_QUEUE_FULL"
    BY DEF RejectLine, RejectReturns, Returns, LineInv, IdTypes, Task, Statuses
<1>5. CASE Room(telQueue, TEL_CAP)
    <2>1. telQueue' = Append(telQueue, e) /\ telIds' = Append(telIds, n) /\ lost' = lost
        BY <1>1, <1>4, <1>5 DEF RejectLine, Sent
    <2>0. n \in Nat
        BY <1>1, <1>2, SaidStays
    <2>2. /\ telIds' \in Seq(Nat) /\ Len(telIds') = Len(telIds) + 1
          /\ \A i \in 1..Len(telIds) : telIds'[i] = telIds[i]
          /\ telIds'[Len(telIds) + 1] = n
          /\ Range(telIds') = Range(telIds) \cup {n}
          /\ IsInjective(telIds) /\ n \notin Range(telIds) => IsInjective(telIds')
        <3> HIDE DEF n
        <3>1. QED BY <1>3, <2>0, <2>1, AppendIds
    <2>3. /\ Len(telQueue') = Len(telQueue) + 1
          /\ \A i \in 1..Len(telQueue) : telQueue'[i] = telQueue[i]
          /\ telQueue'[Len(telQueue) + 1] = e
        BY <1>2, <1>3, <2>1, AppendIds
    <2>4. IdTypes'
        BY <1>1, <1>2, <1>4, <2>2, SaidStays DEF LineInv, IdTypes
    <2>5. InOnePlace'
        BY <1>1, <1>2, <2>1, <2>2, SaidStays DEF LineInv, InOnePlace, Apart, Held
    <2>6. Matching'
        <3>1. \A i \in 1..Len(telQueue') :
                  /\ telIds'[i] \in DOMAIN said'
                  /\ telQueue'[i] \in Replies(said'[telIds'[i]])
            <4> SUFFICES ASSUME NEW i \in 1..(Len(telQueue) + 1)
                         PROVE  /\ telIds'[i] \in DOMAIN said'
                                /\ telQueue'[i] \in Replies(said'[telIds'[i]])
                BY <2>3
            <4>1. CASE i \in 1..Len(telQueue)
                <5>1. Answers(telQueue[i], telIds[i])
                    BY <4>1 DEF LineInv, Matching
                <5>2. telQueue'[i] = telQueue[i] /\ telIds'[i] = telIds[i]
                    BY <1>3, <2>2, <2>3, <4>1
                <5>3. QED BY <1>1, <1>2, <5>1, <5>2, SaidStays
            <4>2. CASE i = Len(telQueue) + 1
                <5>1. telQueue'[i] = e /\ telIds'[i] = n
                    BY <1>3, <2>2, <2>3, <4>2
                <5>2. n \in DOMAIN said' /\ said'[n] = e
                    BY <1>1, <1>2, SaidStays, LenProperties
                <5>3. QED BY <5>1, <5>2, ErrorIsAnswer
            <4>3. QED BY <1>3, <4>1, <4>2
        <3>2. (\A i \in 1..Len(telQueue) : Answers(telQueue[i], telIds[i]))'
            BY <3>1 DEF Answers, Replies
        <3>3. /\ \A i \in 1..Len(cmdIds) : said'[cmdIds[i]] = said[cmdIds[i]]
              /\ motionId # 0 => said'[motionId] = said[motionId]
              /\ \A r, id : Answers(r, id) => id \in DOMAIN said' /\ r \in Replies(said'[id])
            BY <1>1, <1>2, SaidStays
        <3>4. /\ Len(cmdIds') = Len(cmdQueue') /\ Len(telIds') = Len(telQueue')
              /\ \A i \in 1..Len(cmdQueue') : said'[cmdIds'[i]] = cmdQueue'[i].type
            BY <1>1, <1>3, <2>2, <2>3, <3>3 DEF LineInv, Matching
        <3>5. /\ Before' => motionId' = 0 /\ response' = ""
              /\ Handling' => motionId' # 0 /\ said'[motionId'] = command'.type
              /\ After' => motionId' = 0 <=> response' = ""
            BY <1>1, <3>3 DEF LineInv, Matching, Before, Handling, After
        <3>6. After /\ response # "" =>
                  response \in Replies(said'[motionId]) /\ motionId \in DOMAIN said'
            BY <3>3 DEF LineInv, Matching
        <3>7. line # "" => /\ printed # <<>>
                          /\ line \in Replies(said'[Last(printed)])
                          /\ Last(printed) \in DOMAIN said'
            BY <3>3 DEF LineInv, Matching
        <3>8. QED BY <1>1, <3>2, <3>4, <3>5, <3>6, <3>7 DEF Matching, Answers, After, Replies
    <2>7. QED BY <2>4, <2>5, <2>6 DEF LineInv
<1>6. CASE ~Room(telQueue, TEL_CAP)
    <2>1. telQueue' = telQueue /\ telIds' = telIds /\ lost' = lost \cup {n}
        BY <1>1, <1>4, <1>6 DEF RejectLine, Sent
    <2>2. IdTypes'
        BY <1>1, <1>2, <1>4, <2>1, SaidStays DEF LineInv, IdTypes
    <2>3. InOnePlace'
        BY <1>1, <1>2, <2>1, SaidStays DEF LineInv, InOnePlace, Apart, Held
    <2>4. Matching'
        BY <1>1, <1>2, <1>3, <2>1, SaidStays DEF LineInv, Matching, Answers, Before, Handling, After
    <2>5. QED BY <2>2, <2>3, <2>4 DEF LineInv
<1>7. QED BY <1>5, <1>6

\* A reply that finds room joins the telemetry queue with its line's number.
LEMMA RespondKeeps ==
    ASSUME TypeOK, LineInv, RespondLine
    PROVE  LineInv'
<1>1. /\ UNCHANGED <<cmdQueue, line, said, cmdIds, printed>>
      /\ pc["Motion"] = "respond" /\ pc'["Motion"] = "idle"
      /\ response' = "" /\ motionId' = 0
      /\ telQueue' = IF response = "" THEN telQueue ELSE Sent(telQueue, TEL_CAP, response)
    BY MotionControl DEF RespondLine, MotionReturns, MotionRespond, At
<1>2. /\ result' \in [Task -> Statuses \cup {""}]
      /\ result'["Motion"] = IF response = "" THEN "NO_MESSAGE"
                             ELSE IF Room(telQueue, TEL_CAP) THEN "OK"
                             ELSE "ERROR_QUEUE_FULL"
    BY DEF RespondLine, MotionReturns, Returns, LineInv, IdTypes, Task, Statuses
<1>3. /\ telIds \in Seq(Nat) /\ telQueue \in Seq(Lines)
      /\ Len(telIds) = Len(telQueue) /\ Len(telQueue) \in Nat
      /\ Len(cmdIds) = Len(cmdQueue) /\ motionId \in Nat
    BY LenProperties DEF LineInv, IdTypes, Matching, TypeOK
<1>4. /\ motionId = 0 <=> response = ""
      /\ response # "" => Answers(response, motionId)
    BY <1>1 DEF LineInv, Matching, After
<1>5. Held' = {} /\ Before' /\ ~Handling' /\ ~After'
    BY <1>1 DEF Held, Before, Handling, After
<1>6. CASE response # "" /\ Room(telQueue, TEL_CAP)
    <2>1. telQueue' = Append(telQueue, response) /\ telIds' = Append(telIds, motionId)
          /\ lost' = lost
        BY <1>1, <1>2, <1>6 DEF RespondLine, Sent
    <2>2. /\ telIds' \in Seq(Nat) /\ Len(telIds') = Len(telIds) + 1
          /\ \A i \in 1..Len(telIds) : telIds'[i] = telIds[i]
          /\ telIds'[Len(telIds) + 1] = motionId
          /\ Range(telIds') = Range(telIds) \cup {motionId}
          /\ IsInjective(telIds) /\ motionId \notin Range(telIds) => IsInjective(telIds')
        BY <1>3, <2>1, AppendIds
    <2>3. response \in Lines
        BY <1>6 DEF TypeOK, Lines
    <2>4. /\ Len(telQueue') = Len(telQueue) + 1
          /\ \A i \in 1..Len(telQueue) : telQueue'[i] = telQueue[i]
          /\ telQueue'[Len(telQueue) + 1] = response
        BY <1>3, <2>1, <2>3, AppendIds
    <2>5. IdTypes'
        BY <1>1, <1>2, <2>2 DEF LineInv, IdTypes
    <2>6. Held = {motionId}
        BY <1>4, <1>6 DEF Held
    <2>7. InOnePlace'
        BY <1>1, <1>5, <2>1, <2>2, <2>6 DEF LineInv, InOnePlace, Apart
    <2>8. \A i \in 1..Len(telQueue') :
              telIds'[i] \in DOMAIN said /\ telQueue'[i] \in Replies(said[telIds'[i]])
        <3> SUFFICES ASSUME NEW i \in 1..(Len(telQueue) + 1)
                     PROVE  /\ telIds'[i] \in DOMAIN said
                            /\ telQueue'[i] \in Replies(said[telIds'[i]])
            BY <2>4
        <3>1. CASE i \in 1..Len(telQueue)
            <4>1. Answers(telQueue[i], telIds[i])
                BY <3>1 DEF LineInv, Matching
            <4>2. telQueue'[i] = telQueue[i] /\ telIds'[i] = telIds[i]
                BY <1>3, <2>2, <2>4, <3>1
            <4>3. QED BY <4>1, <4>2 DEF Answers
        <3>2. CASE i = Len(telQueue) + 1
            BY <1>3, <1>4, <1>6, <2>2, <2>4, <3>2 DEF Answers
        <3>3. QED BY <1>3, <3>1, <3>2
    <2>9. (\A i \in 1..Len(telQueue) : Answers(telQueue[i], telIds[i]))'
        BY <1>1, <2>8 DEF Answers, Replies
    <2>10. Matching'
        BY <1>1, <1>3, <1>5, <2>2, <2>4, <2>9 DEF LineInv, Matching, Answers
    <2>11. QED BY <2>5, <2>7, <2>10 DEF LineInv
<1>7. CASE response # "" /\ ~Room(telQueue, TEL_CAP)
    <2>1. telQueue' = telQueue /\ telIds' = telIds /\ lost' = lost \cup {motionId}
        BY <1>1, <1>2, <1>7 DEF RespondLine, Sent
    <2>2. Held = {motionId}
        BY <1>4, <1>7 DEF Held
    <2>3. IdTypes'
        BY <1>1, <1>2, <2>1 DEF LineInv, IdTypes
    <2>4. InOnePlace'
        BY <1>1, <1>5, <2>1, <2>2 DEF LineInv, InOnePlace, Apart
    <2>5. Matching'
        BY <1>1, <1>3, <1>5, <2>1 DEF LineInv, Matching, Answers
    <2>6. QED BY <2>3, <2>4, <2>5 DEF LineInv
<1>8. CASE response = ""
    <2>1. telQueue' = telQueue /\ telIds' = telIds /\ lost' = lost
        BY <1>1, <1>2, <1>8 DEF RespondLine
    <2>2. Held = {}
        BY <1>4, <1>8 DEF Held
    <2>3. IdTypes'
        BY <1>1, <1>2, <2>1 DEF LineInv, IdTypes
    <2>4. InOnePlace'
        BY <1>1, <1>5, <2>1, <2>2 DEF LineInv, InOnePlace, Apart
    <2>5. Matching'
        BY <1>1, <1>3, <1>5, <2>1 DEF LineInv, Matching, Answers
    <2>6. QED BY <2>3, <2>4, <2>5 DEF LineInv
<1>9. QED BY <1>6, <1>7, <1>8

\* The queue and its numbers lose their heads together.
LEMMA TakesKeeps ==
    ASSUME TypeOK, LineInv, Takes, result' = result
    PROVE  LineInv'
<1>1. /\ cmdIds \in Seq(Nat) /\ cmdQueue \in Seq(Commands)
      /\ Len(cmdIds) = Len(cmdQueue) /\ Len(cmdQueue) \in Nat \ {0}
      /\ cmdQueue # <<>> /\ cmdIds # <<>>
    <2>1. Len(cmdQueue) \in Nat \ {0}
        BY EmptySeq DEF Takes, TypeOK
    <2>2. QED BY <2>1 DEF Takes, LineInv, IdTypes, Matching, TypeOK
<1>2. /\ motionId' = cmdIds[1] /\ motionId' \in Nat /\ cmdIds' \in Seq(Nat)
      /\ Len(cmdIds') = Len(cmdIds) - 1
      /\ \A i \in 1..Len(cmdIds') : cmdIds'[i] = cmdIds[i + 1]
      /\ Range(cmdIds) = Range(cmdIds') \cup {motionId'}
      /\ IsInjective(cmdIds) => IsInjective(cmdIds') /\ motionId' \notin Range(cmdIds')
    <2>1. motionId' = Head(cmdIds) /\ cmdIds' = Tail(cmdIds)
        BY DEF Takes
    <2>2. QED BY <1>1, <2>1, TakeIds
<1>3. /\ command' = cmdQueue[1]
      /\ Len(cmdQueue') = Len(cmdQueue) - 1
      /\ \A i \in 1..Len(cmdQueue') : cmdQueue'[i] = cmdQueue[i + 1]
    BY <1>1, TakeIds DEF Takes
<1>4. /\ UNCHANGED <<telQueue, line, said, telIds, printed, lost>>
      /\ motionId = 0 /\ ~Before' /\ Handling' /\ ~After'
    BY DEF Takes, LineInv, Matching, Before, Handling, After
<1>5. cmdIds[1] \in 1..Len(said) /\ motionId' # 0 /\ Held = {} /\ Held' = {motionId'}
    BY <1>1, <1>2, <1>4, NumbersOfLines DEF Held
<1>6. IdTypes'
    BY <1>2, <1>4 DEF LineInv, IdTypes
<1>7. InOnePlace'
    BY <1>2, <1>4, <1>5 DEF LineInv, InOnePlace, Apart
<1>8. \A i \in 1..Len(cmdQueue') : said[cmdIds'[i]] = cmdQueue'[i].type
    <2> SUFFICES ASSUME NEW i \in 1..(Len(cmdQueue) - 1)
                 PROVE  said[cmdIds'[i]] = cmdQueue'[i].type
        BY <1>3
    <2>1. i + 1 \in 1..Len(cmdQueue)
        BY <1>1
    <2>2. said[cmdIds[i + 1]] = cmdQueue[i + 1].type
        BY <2>1 DEF LineInv, Matching
    <2>3. cmdIds'[i] = cmdIds[i + 1] /\ cmdQueue'[i] = cmdQueue[i + 1]
        BY <1>1, <1>2, <1>3
    <2>4. QED BY <2>2, <2>3
<1>9. said[motionId'] = command'.type
    <2>1. 1 \in 1..Len(cmdQueue)
        BY <1>1
    <2>2. said[cmdIds[1]] = cmdQueue[1].type
        BY <2>1 DEF LineInv, Matching
    <2>3. QED BY <1>2, <1>3, <2>2
<1>10. Matching'
    <2>1. (\A i \in 1..Len(telQueue) : Answers(telQueue[i], telIds[i]))'
        BY <1>4 DEF LineInv, Matching, Answers
    <2>2. QED BY <1>1, <1>2, <1>3, <1>4, <1>5, <1>8, <1>9, <2>1 DEF LineInv, Matching, Answers
<1>11. QED BY <1>6, <1>7, <1>10 DEF LineInv

\* What MotionTask answers is an answer to the line it has in hand.
LEMMA AnsweringKeeps ==
    ASSUME TypeOK, SafetyInv, LineInv, Answering, result' = result
    PROVE  LineInv'
<1>1. /\ UNCHANGED <<cmdQueue, telQueue, line, said, cmdIds, telIds, motionId, printed, lost>>
      /\ Handling /\ ~Before' /\ ~Handling' /\ After'
    BY DEF Answering, ids, Before, Handling, After
<1>2. motionId # 0 /\ said[motionId] = command.type /\ motionId \in DOMAIN said
    BY <1>1, NumbersOfLines DEF LineInv, Matching
<1>3. response' \in Replies(said[motionId]) /\ response' # ""
    BY <1>2, HandledReply DEF Answering
<1>4. IdTypes'
    BY <1>1 DEF LineInv, IdTypes
<1>5. InOnePlace'
    BY <1>1 DEF LineInv, InOnePlace, Apart, Held
<1>6. Matching'
    BY <1>1, <1>2, <1>3 DEF LineInv, Matching, Answers
<1>7. QED BY <1>4, <1>5, <1>6 DEF LineInv

\* What is written goes out with the number it was queued with.
LEMMA WritesKeeps ==
    ASSUME TypeOK, LineInv, Writes, result' = result
    PROVE  LineInv'
<1>1. /\ telIds \in Seq(Nat) /\ telQueue \in Seq(Lines)
      /\ Len(telIds) = Len(telQueue) /\ Len(telQueue) \in Nat \ {0}
      /\ telQueue # <<>> /\ telIds # <<>>
      /\ printed \in Seq(Nat) /\ Len(printed) \in Nat
    <2>1. Len(telQueue) \in Nat \ {0}
        BY EmptySeq DEF Writes, TypeOK
    <2>2. QED BY <2>1, LenProperties DEF Writes, LineInv, IdTypes, Matching, TypeOK
<1> DEFINE id == Head(telIds)
<1>2. /\ id = telIds[1] /\ id \in Nat /\ telIds' \in Seq(Nat)
      /\ Len(telIds') = Len(telIds) - 1
      /\ \A i \in 1..Len(telIds') : telIds'[i] = telIds[i + 1]
      /\ Range(telIds) = Range(telIds') \cup {id}
      /\ IsInjective(telIds) => IsInjective(telIds') /\ id \notin Range(telIds')
    <2>1. telIds' = Tail(telIds)
        BY DEF Writes
    <2>2. QED BY <1>1, <2>1, TakeIds
<1>3. /\ line' = telQueue[1]
      /\ Len(telQueue') = Len(telQueue) - 1
      /\ \A i \in 1..Len(telQueue') : telQueue'[i] = telQueue[i + 1]
    BY <1>1, TakeIds DEF Writes
<1>4. /\ printed' = Append(printed, id)
      /\ UNCHANGED <<cmdQueue, command, response, said, cmdIds, motionId, lost, pc>>
    BY DEF Writes
<1> HIDE DEF id
<1>5. /\ printed' \in Seq(Nat) /\ Len(printed') = Len(printed) + 1
      /\ printed'[Len(printed) + 1] = id
      /\ Range(printed') = Range(printed) \cup {id}
      /\ IsInjective(printed) /\ id \notin Range(printed) => IsInjective(printed')
    BY <1>1, <1>2, <1>4, AppendIds
<1>6. IdTypes'
    BY <1>2, <1>4, <1>5 DEF LineInv, IdTypes
<1>7. InOnePlace'
    BY <1>2, <1>4, <1>5 DEF LineInv, InOnePlace, Apart, Held
<1>8. \A i \in 1..Len(telQueue') :
          telIds'[i] \in DOMAIN said /\ telQueue'[i] \in Replies(said[telIds'[i]])
    <2> SUFFICES ASSUME NEW i \in 1..(Len(telQueue) - 1)
                 PROVE  /\ telIds'[i] \in DOMAIN said
                        /\ telQueue'[i] \in Replies(said[telIds'[i]])
        BY <1>3
    <2>1. i + 1 \in 1..Len(telQueue)
        BY <1>1
    <2>2. Answers(telQueue[i + 1], telIds[i + 1])
        BY <2>1 DEF LineInv, Matching
    <2>3. telIds'[i] = telIds[i + 1] /\ telQueue'[i] = telQueue[i + 1]
        BY <1>1, <1>2, <1>3
    <2>4. QED BY <2>2, <2>3 DEF Answers
<1>9. id \in DOMAIN said /\ line' \in Replies(said[id])
    <2>1. 1 \in 1..Len(telQueue)
        BY <1>1
    <2>2. Answers(telQueue[1], telIds[1])
        BY <2>1 DEF LineInv, Matching
    <2>3. QED BY <1>2, <1>3, <2>2 DEF Answers
<1>10. printed' # <<>> /\ Last(printed') = id
    BY <1>1, <1>5 DEF Last
<1>11. Matching'
    <2>1. (\A i \in 1..Len(telQueue) : Answers(telQueue[i], telIds[i]))'
        BY <1>4, <1>8 DEF Answers, Replies
    <2>2. Answers(line, Last(printed))'
        BY <1>4, <1>9, <1>10 DEF Answers, Replies
    <2>3. QED BY <1>1, <1>2, <1>3, <1>4, <1>10, <2>1, <2>2
              DEF LineInv, Matching, Answers, Before, Handling, After
<1>12. QED BY <1>6, <1>7, <1>11 DEF LineInv

\* The other steps leave every line where it is.
LEMMA QuietKeeps ==
    ASSUME TypeOK, LineInv, Quiet, result' \in [Task -> Statuses \cup {""}]
    PROVE  LineInv'
<1>1. /\ UNCHANGED <<cmdQueue, telQueue, response, said, cmdIds, telIds, motionId, printed, lost>>
      /\ line' \in {line, ""}
    BY DEF Quiet, ids
<1>2. IdTypes'
    BY <1>1 DEF LineInv, IdTypes
<1>3. InOnePlace'
    BY <1>1 DEF LineInv, InOnePlace, Apart, Held
<1>4. /\ Before' => motionId = 0 /\ response = ""
      /\ Handling' => motionId # 0 /\ said[motionId] = command'.type
      /\ After' => /\ motionId = 0 <=> response = ""
                   /\ response # "" => Answers(response, motionId)
    BY DEF Quiet, LineInv, Matching, Before, Handling, After
<1>5. Matching'
    BY <1>1, <1>4 DEF LineInv, Matching, Answers
<1>6. QED BY <1>2, <1>3, <1>5 DEF LineInv

\* No step misplaces a line or matches it with another's reply.
LEMMA LineNext ==
    TypeOK /\ SafetyInv /\ LineInv /\ [HNext]_hvars => LineInv'
<1> SUFFICES ASSUME TypeOK, SafetyInv, LineInv, [HNext]_hvars PROVE LineInv'
    OBVIOUS
<1>1. ASSUME NEW c \in Commands, AcceptLine(c) PROVE LineInv'
    BY <1>1, AcceptKeeps
<1>2. ASSUME NEW e \in ParseErrors, RejectLine(e) PROVE LineInv'
    BY <1>2, RejectKeeps
<1>3. CASE RespondLine
    BY <1>3, RespondKeeps
<1>4. CASE FollowLines
    <2>1. result' = result
        BY <1>4 DEF FollowLines, GoesOn
    <2>2. result' \in [Task -> Statuses \cup {""}]
        BY <2>1 DEF LineInv, IdTypes
    <2>3. QED BY <1>4, <2>1, <2>2, FollowEffects, QuietKeeps, TakesKeeps, AnsweringKeeps,
                 WritesKeeps
<1>5. ASSUME UNCHANGED <<cmdQueue, telQueue, response, command, ids>>,
             line' \in {line, ""}, pc'["Motion"] = pc["Motion"],
             result' \in [Task -> Statuses \cup {""}]
      PROVE  LineInv'
    <2>1. Quiet
        BY <1>5 DEF Quiet, Before, Handling, After, TypeOK, MotionLabels
    <2>2. QED BY <1>5, <2>1, QuietKeeps
<1>6. CASE TelemetryReturns /\ UNCHANGED ids
    <2>1. /\ UNCHANGED <<cmdQueue, telQueue, response, command>> /\ line' = ""
          /\ pc'["Motion"] = pc["Motion"]
        BY <1>6, TelemetryControl DEF TelemetryReturns, TelemetrySendStatus, shared
    <2>2. result' \in [Task -> Statuses \cup {""}]
        BY <1>6 DEF TelemetryReturns, Returns, LineInv, IdTypes, Statuses
    <2>3. QED BY <1>5, <1>6, <2>1, <2>2
<1>7. ASSUME NEW t \in {"Motion", "Telemetry"}, Refused(t), UNCHANGED ids PROVE LineInv'
    <2>1. UNCHANGED <<cmdQueue, telQueue, response, command, line, pc>>
        BY <1>7 DEF Refused, vars
    <2>2. result' \in [Task -> Statuses \cup {""}]
        BY <1>7 DEF Refused, Returns, LineInv, IdTypes, Statuses
    <2>3. QED BY <1>5, <1>7, <2>1, <2>2
<1>8. CASE UNCHANGED hvars
    <2>1. /\ UNCHANGED <<cmdQueue, telQueue, response, command, line, pc, ids>>
          /\ result' = result
        BY <1>8 DEF hvars, rvars, vars
    <2>2. QED BY <1>5, <2>1 DEF LineInv, IdTypes
<1>9. QED BY <1>1, <1>2, <1>3, <1>4, <1>6, <1>7, <1>8 DEF HNext

\* The tasks' own invariants hold beside the lines.
TasksInv == TypeOK /\ SafetyInv

LEMMA TasksNext == TasksInv /\ [HNext]_hvars => TasksInv'
BY LineStep, ResultStep, TypeNext, SafetyNext DEF TasksInv

LEMMA LineCorrect == HSpec => [](TasksInv /\ LineInv)
<1>1. HInit => TasksInv /\ LineInv
    BY LineInit, TypeInit, SafetyInit DEF HInit, RInit, TasksInv
<1>2. TasksInv /\ LineInv /\ [HNext]_hvars => (TasksInv /\ LineInv)'
    BY TasksNext, LineNext DEF TasksInv
<1>3. QED BY <1>1, <1>2, PTL DEF HSpec

\* The order of the replies holds every line in it once.
LEMMA OrderIds ==
    ASSUME LineInv
    PROVE  /\ Order \in Seq(Nat)
           /\ IsInjective(Order)
           /\ Range(Order) = Range(printed) \cup Range(telIds) \cup Held \cup Range(cmdIds)
<1> DEFINE held == IF motionId = 0 THEN <<>> ELSE <<motionId>>
           done == printed \o telIds
<1>1. /\ printed \in Seq(Nat) /\ telIds \in Seq(Nat) /\ cmdIds \in Seq(Nat)
      /\ motionId \in Nat
    BY DEF LineInv, IdTypes
<1>2. held \in Seq(Nat) /\ Range(held) = Held /\ IsInjective(held)
    BY <1>1 DEF Held, Range, IsInjective
<1>3. /\ done \in Seq(Nat)
      /\ Range(done) = Range(printed) \cup Range(telIds)
      /\ IsInjective(done)
    BY <1>1, ConcatIds, ConcatProperties DEF LineInv, InOnePlace, Apart
<1> HIDE DEF held, done
<1>4. /\ done \o held \in Seq(Nat)
      /\ Range(done \o held) = Range(done) \cup Held
      /\ IsInjective(done \o held)
    BY <1>2, <1>3, ConcatIds, ConcatProperties DEF LineInv, InOnePlace, Apart
<1> DEFINE taken == done \o held
<1> HIDE DEF taken
<1>5. /\ taken \o cmdIds \in Seq(Nat)
      /\ Range(taken \o cmdIds) = Range(taken) \cup Range(cmdIds)
      /\ IsInjective(taken \o cmdIds)
    <2>1. taken \in Seq(Nat) /\ IsInjective(taken) /\ Range(taken) = Range(done) \cup Held
        BY <1>4 DEF taken
    <2>2. IsInjective(cmdIds) /\ Range(taken) \cap Range(cmdIds) = {}
        BY <1>3, <2>1 DEF LineInv, InOnePlace, Apart
    <2>3. QED BY <1>1, <2>1, <2>2, ConcatIds, ConcatProperties
<1>6. QED BY <1>3, <1>4, <1>5 DEF Order, held, done, taken

\* Every line is lost or answered exactly once, for all priorities, queue
\* capacities and commands, and for any number of lines.
THEOREM EveryLineOnce == HSpec => []AnsweredOnce
<1>1. LineInv => AnsweredOnce
    <2> SUFFICES ASSUME LineInv PROVE AnsweredOnce
        OBVIOUS
    <2>1. DOMAIN said = 1..Len(said)
        BY NumbersOfLines
    <2>2. Range(Order) \cup lost = 1..Len(said) /\ Range(Order) \cap lost = {}
        BY OrderIds DEF LineInv, InOnePlace, Apart
    <2>3. QED BY <2>1, <2>2, OrderIds DEF AnsweredOnce, LineInv, Matching
<1>2. QED BY <1>1, LineCorrect, PTL

\* A reply answers the line it belongs to: a host that counts its lines and the
\* replies is never given one command's reply for another's.
THEOREM RepliesBelong == HSpec => []RepliesMatch
<1>1. TasksInv /\ LineInv => RepliesMatch
    <2> SUFFICES ASSUME TasksInv, LineInv PROVE RepliesMatch
        OBVIOUS
    <2>1. DOMAIN telQueue = 1..Len(telQueue)
        BY LenProperties DEF TasksInv, TypeOK
    <2>2. QED BY <2>1 DEF RepliesMatch, LineInv, Matching
<1>2. QED BY <1>1, LineCorrect, PTL

-----------------------------------------------------------------------------
(* Overtaking.  x is ahead of y when its reply comes before y's; a line    *)
(* overtakes the earlier ones that it is ahead of.  A step that only moves *)
(* lines from one place to the next puts none ahead of another.            *)

Precedes(s, x, y) == \E i, j \in 1..Len(s) : i < j /\ s[i] = x /\ s[j] = y

Ahead(x, y) ==
    \/ Precedes(printed, x, y) \/ Precedes(telIds, x, y) \/ Precedes(cmdIds, x, y)
    \/ x \in Range(printed) /\ y \in Range(telIds) \cup Held \cup Range(cmdIds)
    \/ x \in Range(telIds) /\ y \in Held \cup Range(cmdIds)
    \/ x \in Held /\ y \in Range(cmdIds)

Overtaken(x) == {y \in 1..(x - 1) : Ahead(x, y)}

\* Only a rejected line has overtaken others, and no more than the queue holds.
Overtaking ==
    \A x \in 1..Len(said) :
        /\ Overtaken(x) # {} => said[x] \in ParseErrors
        /\ Cardinality(Overtaken(x)) <= CMD_CAP

\* What is appended is behind everything else.
LEMMA PrecedesAppend ==
    ASSUME NEW s \in Seq(Nat), NEW n \in Nat, NEW x, NEW y, Precedes(Append(s, n), x, y)
    PROVE  Precedes(s, x, y) \/ (x \in Range(s) /\ y = n)
<1>1. /\ Len(Append(s, n)) = Len(s) + 1 /\ Len(s) \in Nat /\ DOMAIN s = 1..Len(s)
      /\ \A i \in 1..Len(s) : Append(s, n)[i] = s[i]
      /\ Append(s, n)[Len(s) + 1] = n
    BY AppendIds, LenProperties
<1>2. PICK i \in 1..(Len(s) + 1), j \in 1..(Len(s) + 1) :
          i < j /\ Append(s, n)[i] = x /\ Append(s, n)[j] = y
    BY <1>1 DEF Precedes
<1>3. i \in 1..Len(s) /\ s[i] = x
    BY <1>1, <1>2
<1>4. CASE j \in 1..Len(s)
    BY <1>1, <1>2, <1>3, <1>4 DEF Precedes
<1>5. CASE j = Len(s) + 1
    BY <1>1, <1>2, <1>3, <1>5 DEF Range
<1>6. QED BY <1>1, <1>4, <1>5

\* The head is ahead of the rest, whose order stays as it was.
LEMMA PrecedesTail ==
    ASSUME NEW s \in Seq(Nat), s # <<>>, NEW x, NEW y
    PROVE  /\ Precedes(Tail(s), x, y) => Precedes(s, x, y)
           /\ x = Head(s) /\ y \in Range(Tail(s)) => Precedes(s, x, y)
<1>1. /\ Head(s) = s[1] /\ Len(Tail(s)) = Len(s) - 1
      /\ \A i \in 1..Len(Tail(s)) : Tail(s)[i] = s[i + 1]
      /\ Len(s) \in Nat \ {0} /\ DOMAIN Tail(s) = 1..(Len(s) - 1)
    <2>1. Tail(s) \in Seq(Nat)
        BY TakeIds
    <2>2. QED BY <2>1, TakeIds, EmptySeq, LenProperties
<1>2. ASSUME Precedes(Tail(s), x, y) PROVE Precedes(s, x, y)
    <2>1. PICK i \in 1..(Len(s) - 1), j \in 1..(Len(s) - 1) :
              i < j /\ Tail(s)[i] = x /\ Tail(s)[j] = y
        BY <1>1, <1>2 DEF Precedes
    <2>2. /\ i + 1 \in 1..Len(s) /\ j + 1 \in 1..Len(s) /\ i + 1 < j + 1
          /\ s[i + 1] = x /\ s[j + 1] = y
        BY <1>1, <2>1
    <2>3. QED BY <2>2 DEF Precedes
<1>3. ASSUME x = Head(s), y \in Range(Tail(s)) PROVE Precedes(s, x, y)
    <2>1. PICK j \in 1..(Len(s) - 1) : Tail(s)[j] = y
        BY <1>1, <1>3 DEF Range
    <2>2. /\ 1 \in 1..Len(s) /\ j + 1 \in 1..Len(s) /\ 1 < j + 1
          /\ s[1] = x /\ s[j + 1] = y
        BY <1>1, <1>3, <2>1
    <2>3. QED BY <2>2 DEF Precedes
<1>4. QED BY <1>2, <1>3

\* In two sequences one after the other, x precedes y in one of them or across.
LEMMA PrecedesConcat ==
    ASSUME NEW a \in Seq(Nat), NEW b \in Seq(Nat), NEW x, NEW y, Precedes(a \o b, x, y)
    PROVE  \/ Precedes(a, x, y) \/ Precedes(b, x, y)
           \/ x \in Range(a) /\ y \in Range(b)
<1>1. /\ Len(a \o b) = Len(a) + Len(b) /\ Len(a) \in Nat /\ Len(b) \in Nat
      /\ DOMAIN a = 1..Len(a) /\ DOMAIN b = 1..Len(b)
    BY ConcatProperties, LenProperties
<1>2. \A i \in 1..(Len(a) + Len(b)) :
          \/ i \in 1..Len(a) /\ (a \o b)[i] = a[i]
          \/ i > Len(a) /\ i - Len(a) \in 1..Len(b) /\ (a \o b)[i] = b[i - Len(a)]
    <2>1. \A i \in 1..(Len(a) + Len(b)) :
              (a \o b)[i] = IF i <= Len(a) THEN a[i] ELSE b[i - Len(a)]
        BY ConcatProperties
    <2>2. QED BY <1>1, <2>1
<1>3. PICK i \in 1..(Len(a) + Len(b)), j \in 1..(Len(a) + Len(b)) :
          i < j /\ (a \o b)[i] = x /\ (a \o b)[j] = y
    BY <1>1 DEF Precedes
<1>4. CASE i \in 1..Len(a) /\ j \in 1..Len(a)
    <2>1. a[i] = x /\ a[j] = y
        BY <1>1, <1>2, <1>3, <1>4
    <2>2. QED BY <1>3, <1>4, <2>1 DEF Precedes
<1>5. CASE i > Len(a) /\ j > Len(a)
    <2>1. /\ i - Len(a) \in 1..Len(b) /\ j - Len(a) \in 1..Len(b)
          /\ i - Len(a) < j - Len(a)
          /\ b[i - Len(a)] = x /\ b[j - Len(a)] = y
        BY <1>1, <1>2, <1>3, <1>5
    <2>2. QED BY <2>1 DEF Precedes
<1>6. CASE i \in 1..Len(a) /\ j > Len(a)
    <2>1. a[i] = x /\ j - Len(a) \in 1..Len(b) /\ b[j - Len(a)] = y
        BY <1>1, <1>2, <1>3, <1>6
    <2>2. QED BY <1>1, <1>6, <2>1 DEF Range
<1>7. QED BY <1>1, <1>3, <1>4, <1>5, <1>6

\* What is ahead of something is somewhere.
LEMMA AheadIds ==
    ASSUME printed \in Seq(Nat), telIds \in Seq(Nat), cmdIds \in Seq(Nat),
           NEW x, NEW y, Ahead(x, y)
    PROVE  x \in Range(printed) \cup Range(telIds) \cup Held \cup Range(cmdIds)
<1>1. ASSUME NEW s \in Seq(Nat), Precedes(s, x, y) PROVE x \in Range(s)
    <2>1. DOMAIN s = 1..Len(s)
        BY LenProperties
    <2>2. QED BY <1>1, <2>1 DEF Precedes, Range
<1>2. QED BY <1>1 DEF Ahead

\* A sequence holds no more numbers than it has places.
LEMMA CountIds ==
    ASSUME NEW s \in Seq(Nat)
    PROVE  IsFiniteSet(Range(s)) /\ Cardinality(Range(s)) <= Len(s)
<1>1. Len(s) \in Nat /\ DOMAIN s = 1..Len(s)
    BY LenProperties
<1>2. s \in Surjection(1..Len(s), Range(s))
    BY <1>1 DEF Range, Surjection
<1>3. IsFiniteSet(1..Len(s)) /\ Cardinality(1..Len(s)) = Len(s)
    <2>1. ASSUME NEW n \in Nat PROVE IsFiniteSet(1..n) /\ Cardinality(1..n) = n
        BY FS_Interval
    <2>2. QED BY <1>1, <2>1
<1>4. QED BY <1>2, <1>3, FS_Surjection

\* Overtaking stays bounded if no line gets ahead of an earlier one but a new
\* line that is rejected, and that one of the commands in the queue only.
LEMMA OvertakingKeeps ==
    ASSUME LineInv, Overtaking, Len(cmdQueue) <= CMD_CAP, Len(said') \in Nat,
           \A i \in 1..Len(said) : said'[i] = said[i],
           \A x \in 1..Len(said) : \A y \in 1..(x - 1) : Ahead(x, y)' => Ahead(x, y),
           \A x \in (1..Len(said')) \ (1..Len(said)) :
               \/ Overtaken(x)' = {}
               \/ said'[x] \in ParseErrors /\ Overtaken(x)' \subseteq Range(cmdIds)
    PROVE  Overtaking'
<1> SUFFICES ASSUME NEW x \in 1..Len(said')
             PROVE  /\ Overtaken(x)' # {} => said'[x] \in ParseErrors
                    /\ Cardinality(Overtaken(x)') <= CMD_CAP
    BY DEF Overtaking
<1>1. CASE x \in 1..Len(said)
    <2>1. Overtaken(x)' \subseteq Overtaken(x)
        BY <1>1 DEF Overtaken
    <2>2. IsFiniteSet(Overtaken(x))
        <3>1. x - 1 \in Int
            BY <1>1, NumbersOfLines
        <3>2. IsFiniteSet(1..(x - 1))
            BY <3>1, FS_Interval
        <3>3. QED BY <3>2, FS_Subset DEF Overtaken
    <2>3. Cardinality(Overtaken(x)') <= Cardinality(Overtaken(x))
        BY <2>1, <2>2, FS_Subset
    <2>4. /\ Cardinality(Overtaken(x)) \in Nat /\ Cardinality(Overtaken(x)') \in Nat
          /\ CMD_CAP \in Nat
        BY <2>1, <2>2, FS_Subset, FS_CardinalityType, TasksAssumption
    <2>5. QED BY <1>1, <2>1, <2>3, <2>4 DEF Overtaking
<1>2. CASE x \notin 1..Len(said)
    <2>1. CASE Overtaken(x)' = {}
        BY <2>1, FS_EmptySet, TasksAssumption
    <2>2. CASE said'[x] \in ParseErrors /\ Overtaken(x)' \subseteq Range(cmdIds)
        <3>1. /\ cmdIds \in Seq(Nat) /\ Len(cmdIds) = Len(cmdQueue)
            BY DEF LineInv, IdTypes, Matching
        <3>2. IsFiniteSet(Range(cmdIds)) /\ Cardinality(Range(cmdIds)) <= Len(cmdIds)
            BY <3>1, CountIds
        <3>3. /\ Cardinality(Overtaken(x)') <= Cardinality(Range(cmdIds))
              /\ IsFiniteSet(Overtaken(x)')
            BY <2>2, <3>2, FS_Subset
        <3>4. /\ Cardinality(Overtaken(x)') \in Nat /\ Cardinality(Range(cmdIds)) \in Nat
              /\ CMD_CAP \in Nat /\ Len(cmdIds) \in Nat
            BY <3>1, <3>2, <3>3, FS_CardinalityType, LenProperties, TasksAssumption
        <3>5. QED BY <2>2, <3>1, <3>2, <3>3, <3>4
    <2>3. QED BY <1>2, <2>1, <2>2
<1>3. QED BY <1>1, <1>2

\* No line gets ahead of another if no new one comes in.
LEMMA NoneGetsAhead ==
    ASSUME LineInv, Overtaking, Len(cmdQueue) <= CMD_CAP, said' = said,
           \A x, y : Ahead(x, y)' => Ahead(x, y)
    PROVE  Overtaking'
<1>1. Len(said) \in Nat
    BY NumbersOfLines
<1>2. (1..Len(said')) \ (1..Len(said)) = {}
    OBVIOUS
<1>3. QED BY <1>1, <1>2, OvertakingKeeps

\* A reply that finds room takes its line's place behind the other replies, and
\* one that is lost leaves the order.
LEMMA RespondOvertakes ==
    ASSUME TypeOK, LineInv, Overtaking, RespondLine
    PROVE  Overtaking'
<1>1. /\ telIds \in Seq(Nat) /\ motionId \in Nat /\ Len(cmdQueue) <= CMD_CAP
      /\ \/ telIds' = telIds
         \/ telIds' = Append(telIds, motionId) /\ motionId # 0
      /\ UNCHANGED <<printed, cmdIds, said>> /\ motionId' = 0
    <2>1. /\ result'["Motion"] = IF response = "" THEN "NO_MESSAGE"
                                 ELSE IF Room(telQueue, TEL_CAP) THEN "OK"
                                 ELSE "ERROR_QUEUE_FULL"
          /\ pc["Motion"] = "respond"
        BY DEF RespondLine, MotionReturns, MotionRespond, At, Returns, LineInv, IdTypes, Task
    <2>2. motionId = 0 <=> response = ""
        BY <2>1 DEF LineInv, Matching, After
    <2>3. QED BY <2>1, <2>2 DEF RespondLine, LineInv, IdTypes, TypeOK
<1>2. ASSUME NEW x, NEW y, Ahead(x, y)' PROVE Ahead(x, y)
    <2>1. CASE telIds' = telIds
        BY <1>1, <1>2, <2>1 DEF Ahead, Held
    <2>2. CASE telIds' = Append(telIds, motionId) /\ motionId # 0
        <3>1. Range(telIds') = Range(telIds) \cup Held /\ Held = {motionId}
            BY <1>1, <2>2, AppendIds DEF Held
        <3>2. Precedes(telIds', x, y) =>
                  Precedes(telIds, x, y) \/ (x \in Range(telIds) /\ y \in Held)
            BY <1>1, <2>2, <3>1, PrecedesAppend
        <3>3. QED BY <1>1, <1>2, <3>1, <3>2 DEF Ahead, Held
    <2>3. QED BY <1>1, <2>1, <2>2
<1>3. QED BY <1>1, <1>2, NoneGetsAhead

\* The line MotionTask takes stays ahead of those behind it in the queue.
LEMMA TakesOvertakes ==
    ASSUME TypeOK, LineInv, Overtaking, Takes
    PROVE  Overtaking'
<1>1. /\ cmdIds \in Seq(Nat) /\ cmdIds # <<>> /\ Len(cmdQueue) <= CMD_CAP
      /\ motionId = 0
    <2>1. Len(cmdIds) = Len(cmdQueue) /\ Len(cmdQueue) # 0
        BY EmptySeq DEF Takes, LineInv, Matching, TypeOK
    <2>2. QED BY <2>1 DEF Takes, LineInv, IdTypes, Matching, TypeOK
<1>2. /\ UNCHANGED <<printed, telIds, said>>
      /\ motionId' = Head(cmdIds) /\ cmdIds' = Tail(cmdIds)
      /\ Range(cmdIds) = Range(cmdIds') \cup {motionId'}
    BY <1>1, TakeIds DEF Takes
<1>3. ASSUME NEW x, NEW y, Ahead(x, y)' PROVE Ahead(x, y)
    <2>1. /\ Precedes(cmdIds', x, y) => Precedes(cmdIds, x, y)
          /\ x = motionId' /\ y \in Range(cmdIds') => Precedes(cmdIds, x, y)
        BY <1>1, <1>2, PrecedesTail
    <2>2. Held = {} /\ Held' \subseteq {motionId'}
        BY <1>1 DEF Held
    <2>3. QED BY <1>2, <1>3, <2>1, <2>2 DEF Ahead
<1>4. QED BY <1>1, <1>2, <1>3, NoneGetsAhead

\* So does the line whose reply is written.
LEMMA WritesOvertakes ==
    ASSUME TypeOK, LineInv, Overtaking, Writes
    PROVE  Overtaking'
<1>1. /\ telIds \in Seq(Nat) /\ telIds # <<>> /\ printed \in Seq(Nat)
      /\ Len(cmdQueue) <= CMD_CAP
    <2>1. Len(telIds) = Len(telQueue) /\ Len(telQueue) # 0
        BY EmptySeq DEF Writes, LineInv, Matching, TypeOK
    <2>2. QED BY <2>1 DEF LineInv, IdTypes, TypeOK
<1> DEFINE id == Head(telIds)
<1>2. /\ UNCHANGED <<cmdIds, motionId, said>>
      /\ telIds' = Tail(telIds) /\ printed' = Append(printed, id) /\ id \in Nat
      /\ Range(telIds) = Range(telIds') \cup {id}
    BY <1>1, TakeIds DEF Writes
<1> HIDE DEF id
<1>3. Range(printed') = Range(printed) \cup {id}
    <2>1. printed \in Seq(Nat) /\ id \in Nat
        BY <1>1, <1>2
    <2>2. Range(Append(printed, id)) = Range(printed) \cup {id}
        BY <2>1, AppendIds
    <2>3. QED BY <1>2, <2>2
<1>4. ASSUME NEW x, NEW y, Ahead(x, y)' PROVE Ahead(x, y)
    <2>1. /\ Precedes(telIds', x, y) => Precedes(telIds, x, y)
          /\ x = id /\ y \in Range(telIds') => Precedes(telIds, x, y)
        BY <1>1, <1>2, PrecedesTail DEF id
    <2>2. Precedes(printed', x, y) => Precedes(printed, x, y) \/ (x \in Range(printed) /\ y = id)
        BY <1>1, <1>2, PrecedesAppend
    <2>3. Held' = Held
        BY <1>2 DEF Held
    <2>4. QED BY <1>2, <1>3, <1>4, <2>1, <2>2, <2>3 DEF Ahead
<1>5. QED BY <1>1, <1>2, <1>4, NoneGetsAhead

\* An accepted line goes behind all the others.
LEMMA AcceptOvertakes ==
    ASSUME TypeOK, LineInv, Overtaking, NEW c \in Commands, AcceptLine(c)
    PROVE  Overtaking'
<1> DEFINE n == Len(said')
<1>1. /\ c.type \in CommandTypes \cup ParseErrors /\ Say(c.type)
      /\ cmdIds \in Seq(Nat) /\ Len(cmdQueue) <= CMD_CAP
      /\ UNCHANGED <<printed, telIds, motionId>>
      /\ cmdIds' = cmdIds \/ cmdIds' = Append(cmdIds, n)
    BY TasksAssumption DEF Command, AcceptLine, AcceptReturns, CommandAccept, LineInv, IdTypes,
                           TypeOK
<1>2. /\ n = Len(said) + 1 /\ Len(said) \in Nat
      /\ \A i \in 1..Len(said) : said'[i] = said[i]
    BY <1>1, SaidStays
<1>3. Range(printed) \cup Range(telIds) \cup Held \cup Range(cmdIds) \subseteq 1..Len(said)
    BY DEF LineInv, InOnePlace
<1> HIDE DEF n
<1>4. Held' = Held
    BY <1>1 DEF Held
<1>5. ASSUME NEW x, NEW y, Ahead(x, y)' PROVE Ahead(x, y) \/ (x \in 1..Len(said) /\ y = n)
    <2>1. CASE cmdIds' = cmdIds
        BY <1>1, <1>4, <1>5, <2>1 DEF Ahead
    <2>2. CASE cmdIds' = Append(cmdIds, n)
        <3>1. Range(cmdIds') = Range(cmdIds) \cup {n}
            BY <1>1, <1>2, <2>2, AppendIds
        <3>2. Precedes(cmdIds', x, y) => Precedes(cmdIds, x, y) \/ (x \in Range(cmdIds) /\ y = n)
            BY <1>1, <1>2, <2>2, PrecedesAppend
        <3>3. QED BY <1>1, <1>3, <1>4, <1>5, <3>1, <3>2 DEF Ahead
    <2>3. QED BY <1>1, <2>1, <2>2
<1>6. \A x \in 1..Len(said) : \A y \in 1..(x - 1) : Ahead(x, y)' => Ahead(x, y)
    BY <1>2, <1>5
<1>7. \A x \in (1..n) \ (1..Len(said)) : Overtaken(x)' = {}
    <2> SUFFICES ASSUME NEW x \in (1..n) \ (1..Len(said)), NEW y \in 1..(x - 1), Ahead(x, y)'
                 PROVE  FALSE
        BY DEF Overtaken
    <2>1. x = n /\ y # n
        BY <1>2
    <2>2. Ahead(x, y)
        BY <1>2, <1>5, <2>1
    <2>3. x \in 1..Len(said)
        BY <1>3, <2>2, AheadIds DEF LineInv, IdTypes
    <2>4. QED BY <2>3
<1>8. QED BY <1>1, <1>2, <1>6, <1>7, OvertakingKeeps DEF n

\* While CommandTask runs MotionTask has no line in hand, so what a rejected line
\* overtakes is what waits in the command queue.
LEMMA RejectOvertakes ==
    ASSUME Priority["Motion"] > Priority["Command"],
           TypeOK, LineInv, Overtaking, NEW e \in ParseErrors, RejectLine(e)
    PROVE  Overtaking'
<1> DEFINE n == Len(said')
<1>1. /\ Say(e) /\ telIds \in Seq(Nat) /\ Len(cmdQueue) <= CMD_CAP
      /\ UNCHANGED <<printed, cmdIds, motionId>>
      /\ telIds' = telIds \/ telIds' = Append(telIds, n)
    BY DEF RejectLine, RejectReturns, CommandReject, LineInv, IdTypes, TypeOK
<1>2. motionId = 0 /\ Held = {} /\ Held' = {}
    <2>1. pc["Motion"] = "idle"
        BY DEF RejectLine, RejectReturns, CommandReject, At, MayRun, Task
    <2>2. QED BY <1>1, <2>1 DEF LineInv, Matching, Before, Held
<1>3. /\ n = Len(said) + 1 /\ Len(said) \in Nat /\ said'[n] = e
      /\ \A i \in 1..Len(said) : said'[i] = said[i]
    BY <1>1, SaidStays
<1>4. Range(printed) \cup Range(telIds) \cup Held \cup Range(cmdIds) \subseteq 1..Len(said)
    BY DEF LineInv, InOnePlace
<1> HIDE DEF n
<1>5. ASSUME NEW x, NEW y, Ahead(x, y)'
      PROVE  Ahead(x, y) \/ (x \in 1..Len(said) /\ y = n) \/ (x = n /\ y \in Range(cmdIds))
    <2>1. CASE telIds' = telIds
        BY <1>1, <1>2, <1>5, <2>1 DEF Ahead
    <2>2. CASE telIds' = Append(telIds, n)
        <3>1. Range(telIds') = Range(telIds) \cup {n}
            BY <1>1, <1>3, <2>2, AppendIds
        <3>2. Precedes(telIds', x, y) => Precedes(telIds, x, y) \/ (x \in Range(telIds) /\ y = n)
            <4>1. telIds \in Seq(Nat) /\ n \in Nat
                BY <1>1, <1>3
            <4> HIDE DEF n
            <4>2. QED BY <2>2, <4>1, PrecedesAppend
        <3>3. QED BY <1>1, <1>2, <1>4, <1>5, <3>1, <3>2 DEF Ahead
    <2>3. QED BY <1>1, <2>1, <2>2
<1>6. \A x \in 1..Len(said) : \A y \in 1..(x - 1) : Ahead(x, y)' => Ahead(x, y)
    BY <1>3, <1>5
<1>7. \A x \in (1..n) \ (1..Len(said)) :
          said'[x] \in ParseErrors /\ Overtaken(x)' \subseteq Range(cmdIds)
    <2> SUFFICES ASSUME NEW x \in (1..n) \ (1..Len(said))
                 PROVE  said'[x] \in ParseErrors /\ Overtaken(x)' \subseteq Range(cmdIds)
        OBVIOUS
    <2>1. x = n
        BY <1>3
    <2>2. ASSUME NEW y \in 1..(x - 1), Ahead(x, y)' PROVE y \in Range(cmdIds)
        <3>1. x \notin 1..Len(said) /\ y # n
            BY <1>3, <2>1
        <3>2. ~Ahead(x, y)
            BY <1>4, <3>1, AheadIds DEF LineInv, IdTypes
        <3>3. QED BY <1>5, <2>2, <3>1, <3>2
    <2>3. QED BY <1>3, <2>1, <2>2 DEF Overtaken
<1>8. QED BY <1>1, <1>3, <1>6, <1>7, OvertakingKeeps DEF n

\* With MotionTask above CommandTask no step puts a line ahead of an earlier one
\* unless it is rejected, and then only of those in the command queue.
LEMMA OvertakingNext ==
    ASSUME Priority["Motion"] > Priority["Command"]
    PROVE  TasksInv /\ LineInv /\ Overtaking /\ [HNext]_hvars => Overtaking'
<1> SUFFICES ASSUME TasksInv, LineInv, Overtaking, [HNext]_hvars PROVE Overtaking'
    OBVIOUS
<1>1. TypeOK
    BY DEF TasksInv
<1>2. ASSUME NEW c \in Commands, AcceptLine(c) PROVE Overtaking'
    BY <1>1, <1>2, AcceptOvertakes
<1>3. ASSUME NEW e \in ParseErrors, RejectLine(e) PROVE Overtaking'
    BY <1>1, <1>3, RejectOvertakes
<1>4. CASE RespondLine
    BY <1>1, <1>4, RespondOvertakes
<1>5. CASE UNCHANGED ids
    <2>1. \A x, y : Ahead(x, y)' => Ahead(x, y)
        BY <1>5 DEF Ahead, Held, ids
    <2>2. said' = said /\ Len(cmdQueue) <= CMD_CAP
        BY <1>1, <1>5 DEF ids, TypeOK
    <2>3. QED BY <2>1, <2>2, NoneGetsAhead
<1>6. CASE FollowLines
    <2>1. Quiet \/ Takes \/ Answering \/ Writes
        BY <1>1, <1>6, FollowEffects
    <2>2. QED BY <1>1, <1>5, <2>1, TakesOvertakes, WritesOvertakes DEF Quiet, Answering
<1>7. CASE UNCHANGED hvars
    BY <1>5, <1>7 DEF hvars
<1>8. QED BY <1>2, <1>3, <1>4, <1>5, <1>6, <1>7 DEF HNext

\* In the order of the replies x comes before y only if it is ahead of it.
LEMMA OrderIsAhead ==
    ASSUME LineInv, NEW x, NEW y, Precedes(Order, x, y)
    PROVE  Ahead(x, y)
<1> DEFINE held == IF motionId = 0 THEN <<>> ELSE <<motionId>>
           done == printed \o telIds
           taken == done \o held
<1>1. /\ printed \in Seq(Nat) /\ telIds \in Seq(Nat) /\ cmdIds \in Seq(Nat)
      /\ motionId \in Nat
    BY DEF LineInv, IdTypes
<1>2. held \in Seq(Nat) /\ Range(held) = Held /\ ~Precedes(held, x, y)
    BY <1>1 DEF Held, Range, Precedes
<1>3. Order = taken \o cmdIds
    BY DEF Order
<1>4. /\ done \in Seq(Nat) /\ Range(done) = Range(printed) \cup Range(telIds)
      /\ Precedes(done, x, y) => \/ Precedes(printed, x, y) \/ Precedes(telIds, x, y)
                                 \/ x \in Range(printed) /\ y \in Range(telIds)
    BY <1>1, ConcatIds, ConcatProperties, PrecedesConcat
<1> HIDE DEF held, done
<1>5. /\ taken \in Seq(Nat) /\ Range(taken) = Range(done) \cup Held
      /\ Precedes(taken, x, y) => \/ Precedes(done, x, y)
                                  \/ x \in Range(done) /\ y \in Held
    BY <1>2, <1>4, ConcatIds, ConcatProperties, PrecedesConcat
<1> HIDE DEF taken
<1>6. \/ Precedes(taken, x, y) \/ Precedes(cmdIds, x, y)
      \/ x \in Range(taken) /\ y \in Range(cmdIds)
    BY <1>1, <1>3, <1>5, PrecedesConcat
<1>7. QED BY <1>4, <1>5, <1>6 DEF Ahead

\* The positions a reply is ahead of hold different lines, which it overtakes.
LEMMA OvertakenCounts ==
    ASSUME LineInv, NEW i \in 1..Len(Order)
    PROVE  LET J == {j \in (i + 1)..Len(Order) : Order[j] < Order[i]}
               x == Order[i]
           IN  /\ x \in 1..Len(said)
               /\ J # {} => Overtaken(x) # {}
               /\ Cardinality(J) <= Cardinality(Overtaken(x))
               /\ Cardinality(J) \in Nat /\ Cardinality(Overtaken(x)) \in Nat
<1> DEFINE J == {j \in (i + 1)..Len(Order) : Order[j] < Order[i]}
           x == Order[i]
           f == [j \in J |-> Order[j]]
<1>1. /\ Len(Order) \in Nat /\ DOMAIN Order = 1..Len(Order)
      /\ \A j \in 1..Len(Order) : Order[j] \in 1..Len(said)
      /\ \A j, k \in 1..Len(Order) : Order[j] = Order[k] => j = k
      /\ Len(said) \in Nat
    <2>1. Order \in Seq(Nat) /\ IsInjective(Order) /\ Range(Order) \subseteq 1..Len(said)
        BY OrderIds DEF LineInv, InOnePlace
    <2>2. Len(Order) \in Nat /\ DOMAIN Order = 1..Len(Order)
        BY <2>1, LenProperties
    <2>3. QED BY <2>1, <2>2, NumbersOfLines DEF IsInjective, Range
<1>2. x \in 1..Len(said)
    BY <1>1
<1>3. \A j \in J : j \in 1..Len(Order) /\ Order[j] \in Overtaken(x)
    <2> SUFFICES ASSUME NEW j \in J PROVE j \in 1..Len(Order) /\ Order[j] \in Overtaken(x)
        OBVIOUS
    <2>1. j \in 1..Len(Order) /\ i < j /\ Order[j] \in 1..(x - 1)
        BY <1>1
    <2>2. Precedes(Order, x, Order[j])
        BY <2>1 DEF Precedes
    <2>3. QED BY <2>1, <2>2, OrderIsAhead DEF Overtaken
<1>4. f \in Injection(J, Overtaken(x))
    BY <1>1, <1>3 DEF Injection, IsInjective
<1>5. IsFiniteSet(Overtaken(x))
    <2>1. x - 1 \in Int
        BY <1>2
    <2>2. IsFiniteSet(1..(x - 1))
        BY <2>1, FS_Interval
    <2>3. QED BY <2>2, FS_Subset DEF Overtaken
<1>6. Cardinality(J) <= Cardinality(Overtaken(x)) /\ IsFiniteSet(J)
    <2> HIDE DEF J, x, f
    <2>1. QED BY <1>4, <1>5, FS_Injection
<1>7. J # {} => Overtaken(x) # {}
    BY <1>3
<1>8. QED BY <1>2, <1>5, <1>6, <1>7, FS_CardinalityType

\* Accepted lines are answered in the order they came in, and a rejected one is
\* answered before no more than CMD_CAP earlier ones, for every queue capacity and
\* all priorities that put MotionTask above CommandTask, as the firmware's do.
THEOREM RepliesInOrder ==
    ASSUME Priority["Motion"] > Priority["Command"]
    PROVE  HSpec => []OvertakesOnlyQueued
<1>1. HInit => Overtaking
    <2>1. HInit => said = <<>>
        BY DEF HInit
    <2>2. QED BY <2>1 DEF Overtaking
<1>2. TasksInv /\ LineInv /\ Overtaking /\ [HNext]_hvars => Overtaking'
    BY OvertakingNext
<1>3. LineInv /\ Overtaking => OvertakesOnlyQueued
    <2> SUFFICES ASSUME LineInv, Overtaking, NEW i \in DOMAIN Order
                 PROVE  LET overtaken == {j \in (i + 1)..Len(Order) : Order[j] < Order[i]}
                        IN  /\ overtaken # {} => said[Order[i]] \in ParseErrors
                            /\ Cardinality(overtaken) <= CMD_CAP
        BY DEF OvertakesOnlyQueued
    <2> DEFINE J == {j \in (i + 1)..Len(Order) : Order[j] < Order[i]}
    <2>1. i \in 1..Len(Order)
        BY OrderIds, LenProperties
    <2>2. /\ Order[i] \in 1..Len(said)
          /\ J # {} => Overtaken(Order[i]) # {}
          /\ Cardinality(J) <= Cardinality(Overtaken(Order[i]))
          /\ Cardinality(J) \in Nat /\ Cardinality(Overtaken(Order[i])) \in Nat
        BY <2>1, OvertakenCounts
    <2> HIDE DEF J
    <2>3. /\ Overtaken(Order[i]) # {} => said[Order[i]] \in ParseErrors
          /\ Cardinality(Overtaken(Order[i])) <= CMD_CAP
        BY <2>2 DEF Overtaking
    <2>4. CMD_CAP \in Nat
        BY TasksAssumption
    <2>5. QED BY <2>2, <2>3, <2>4 DEF J
<1>4. QED BY <1>1, <1>2, <1>3, LineCorrect, PTL DEF HSpec
===============================================================================
