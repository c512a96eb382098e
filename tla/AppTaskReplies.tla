---------------------------- MODULE AppTaskReplies -----------------------------
(***************************************************************************)
(* Which line a reply belongs to.  Neither the messages nor the replies of *)
(* app_tasks.c carry an identity; here history variables number the lines  *)
(* and follow the numbers through the queues and the tasks, by what the    *)
(* steps return.  The properties say what a host may conclude from the     *)
(* replies it reads.                                                       *)
(***************************************************************************)
EXTENDS AppTaskResults, SequencesExt

CONSTANT MAX_LINES      \* the lines of one behaviour

\* The answer to a rejected line cannot be taken for a command's name.
ASSUME TextsAssumption == ParseErrors \cap CommandTypes = {}

VARIABLES
    said,       \* what each line asked for, in the order of the lines
    cmdIds,     \* the numbers of the lines in cmdQueue
    telIds,     \* the numbers of the lines whose replies are in telQueue
    motionId,   \* the line MotionTask is handling, 0 for none
    printed,    \* the lines whose replies were written, in that order
    lost        \* the lines that were or will be given no reply

ids == <<said, cmdIds, telIds, motionId, printed, lost>>
hvars == <<rvars, ids>>

HInit ==
    /\ RInit
    /\ said = <<>> /\ cmdIds = <<>> /\ telIds = <<>>
    /\ motionId = 0 /\ printed = <<>> /\ lost = {}

\* A new line gets the next number.
Say(what) == Len(said) < MAX_LINES /\ said' = Append(said, what)

AcceptLine(c) ==
    /\ AcceptReturns(c)
    /\ Say(c.type)
    /\ IF result'["Command"] = "OK"
       THEN cmdIds' = Append(cmdIds, Len(said')) /\ UNCHANGED lost
       ELSE lost' = lost \cup {Len(said')} /\ UNCHANGED cmdIds
    /\ UNCHANGED <<telIds, motionId, printed>>

RejectLine(e) ==
    /\ RejectReturns(e)
    /\ Say(e)
    /\ IF result'["Command"] = "ERROR_PARSE"
       THEN telIds' = Append(telIds, Len(said')) /\ UNCHANGED lost
       ELSE lost' = lost \cup {Len(said')} /\ UNCHANGED telIds
    /\ UNCHANGED <<cmdIds, motionId, printed>>

\* A tick without a command has nothing to say; a reply may find no room.
RespondLine ==
    /\ MotionReturns
    /\ CASE result'["Motion"] = "OK" ->
              telIds' = Append(telIds, motionId) /\ UNCHANGED lost
         [] result'["Motion"] = "ERROR_QUEUE_FULL" ->
              lost' = lost \cup {motionId} /\ UNCHANGED telIds
         [] OTHER -> UNCHANGED <<telIds, lost>>
    /\ motionId' = 0
    /\ UNCHANGED <<said, cmdIds, printed>>

\* The queues lose their heads to MotionTask and to the writer.
FollowLines ==
    /\ GoesOn
    /\ IF cmdQueue' # cmdQueue
       THEN motionId' = Head(cmdIds) /\ cmdIds' = Tail(cmdIds)
       ELSE UNCHANGED <<motionId, cmdIds>>
    /\ IF telQueue' # telQueue
       THEN printed' = Append(printed, Head(telIds)) /\ telIds' = Tail(telIds)
       ELSE UNCHANGED <<printed, telIds>>
    /\ UNCHANGED <<said, lost>>

HNext ==
    \/ \E c \in Commands : AcceptLine(c)
    \/ \E e \in ParseErrors : RejectLine(e)
    \/ RespondLine
    \/ FollowLines
    \/ (TelemetryReturns \/ \E t \in {"Motion", "Telemetry"} : Refused(t)) /\ UNCHANGED ids

HSpec == HInit /\ [][HNext]_hvars /\ Fairness

-----------------------------------------------------------------------------
(* Properties.                                                             *)

\* The order the lines will be answered in, as far as they are.
Order == printed \o telIds \o (IF motionId = 0 THEN <<>> ELSE <<motionId>>) \o cmdIds

\* Every line is either lost or answered exactly once: it is in one place, on its
\* way through the queues and the tasks or printed, and no reply is without one.
AnsweredOnce ==
    /\ IsInjective(Order)
    /\ Range(Order) \cup lost = DOMAIN said
    /\ Range(Order) \cap lost = {}
    /\ Len(cmdIds) = Len(cmdQueue) /\ Len(telIds) = Len(telQueue)

\* A reply answers the line it belongs to: the host may count the lines it sent,
\* whatever commands, ticks without commands and lost replies come in between.
Answers(reply, id) == id \in DOMAIN said /\ reply \in Replies(said[id])

RepliesMatch ==
    /\ \A i \in DOMAIN telQueue : Answers(telQueue[i], telIds[i])
    /\ line # "" => Answers(line, Last(printed))

\* Accepted lines are answered in the order they came in.  Only the answer to a
\* rejected line may be printed before those of earlier ones: CommandTask gives it
\* at once, past what waits in the command queue and no more than that, because
\* MotionTask is between two steps whenever CommandTask runs.
OvertakesOnlyQueued ==
    \A i \in DOMAIN Order :
        LET overtaken == {j \in (i + 1)..Len(Order) : Order[j] < Order[i]}
        IN  /\ overtaken # {} => said[Order[i]] \in ParseErrors
            /\ Cardinality(overtaken) <= CMD_CAP

\* A line that was not lost at once is answered, or its reply is lost to a full
\* queue: none stays in a queue for ever.
EveryLineSettles ==
    \A id \in 1..MAX_LINES :
        (id \in DOMAIN said) ~> (id \in lost \/ id \in Range(printed))
===============================================================================
