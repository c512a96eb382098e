--------------------------------- MODULE Demos ----------------------------------
(***************************************************************************)
(* The two demo executables over the same tasks: motion_fw_sim (main.c)    *)
(* and motion_freertos_scheduler_demo (main_freertos_scheduler.c).         *)
(***************************************************************************)
EXTENDS AppScheduler, HostDemo

VARIABLE program    \* the executable that was started

demovars == <<svars, program, main>>

DemosInit == program \in {"host", "scheduler"} /\ SchedulerInit /\ HostInit

HostRuns ==
    /\ program = "host"
    /\ HostStep
    /\ UNCHANGED <<now, late, loops, program>>

SchedulerRuns ==
    /\ program = "scheduler"
    /\ SchedulerStep
    /\ UNCHANGED <<program, main>>

DemosNext == HostRuns \/ SchedulerRuns

DemosSpec == DemosInit /\ [][DemosNext]_demovars

\* A demo that can go on does: the program is not suspended for ever, and the
\* tick interrupt goes on coming.
FairDemosSpec == DemosSpec /\ WF_demovars(DemosNext)

Ended == IF program = "host" THEN exit # "" ELSE at["Supervisor"] = "ended"

-----------------------------------------------------------------------------
(* Properties.                                                             *)

\* test_freertos_scheduler_demo.py and the demo's script: whichever program runs
\* it, each line has been answered once, in order, before the demo ends.
ScriptAnswered ==
    Ended => printed = <<"OK BOOT RTOS_MOTION_FW_SIM", "OK PONG", "OK MOVE QUEUED",
                         "OK ESTOP", "OK FAULT CLEARED", "OK STATUS">>

\* The same test looks for the states the script leads through.  The status line
\* that shows the move is written before ESTOP is handled only if the tasks are
\* not a whole motion period behind.
ShowsEveryState ==
    Ended /\ late < Period["Motion"] =>
        {<<"MOVING", FALSE>>, <<"FAULT", TRUE>>, <<"IDLE", FALSE>>} \subseteq shown

\* main.c never gives up, and writes the answer to a line before it submits the
\* next: the demo of the steps is a conversation.  With either program the n-th
\* reply written is a reply to the n-th line of the script, unless the scheduler's
\* CommandTask, which does not look at what its steps return, fed on a script
\* longer than the queues while they were full.
NoLineLost ==
    \/ program = "host"
    \/ Len(Script) <= CMD_CAP /\ Len(Script) <= TEL_CAP

Conversation ==
    /\ program = "host" =>
        /\ exit # "1"
        /\ exit = "" /\ call = "Command" => Len(printed) = step
        /\ exit = "0" => Len(printed) = Len(Script) + 1
    /\ NoLineLost => \A n \in 1..(Len(printed) - 1) :
          n \in DOMAIN Script /\ printed[n + 1] \in Replies(Script[n].type)

\* app_scheduler.c, the supervisor: the stop flag is set when no task is inside a
\* step, although by the lowest priority and however late the tasks are, and no
\* task enters another, so that ending the kernel cuts none and the mutex is free.
NoStepCut == stop => ~locked /\ \A t \in Task : pc[t] = "idle" /\ at[t] # "step"

\* vTaskDelayUntil loses no period: whenever the tasks have caught up, MotionTask
\* has made one step for every period since it started, and only the steps that
\* were refused the mutex are missing from uptime_ms.
UptimeKeepsUp ==
    program = "scheduler" /\ ~Busy /\ ~stop =>
        uptime + refused = (now - began) \div Period["Motion"] + 1

\* Both demos come to their end.
DemosEnd == <>Ended
===============================================================================
