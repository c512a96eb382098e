# A TLA+ development of the RTOS motion firmware simulator

This directory specifies the firmware under `src/firmware`: a two-axis stage
driven by text commands, built from three periodic tasks (CommandTask,
MotionTask, TelemetryTask) that share two bounded queues, a mutex and an event
group. The modules are translated from the C sources; TLC checks them on small
instances and TLAPS proves the theorems below for every value of the constants.
`PROJECT.json` maps every definition to the lines it stands for.

## 1. The system

| Component | State it keeps | Operations | What makes it correct |
|---|---|---|---|
| `motion_controller.c` | static `motion_status`, start point, path length, distance travelled, remainder | `init`, `start_move`, `update`, `stop`, `set_fault`, `clear_fault` | the stage stays in its travel range, moves at the feed rate, ends exactly on the target, and nothing of an ended or replaced move survives |
| `fault_manager.c` | static flag and reason | `init`, `set_fault`, `trigger_estop`, `clear` | a fault stays latched until it is cleared explicitly |
| `app_tasks.c` | `app_context_t`: two queues, mutex, event group, uptime | the three task steps | the three copies of the fault agree, tasks exclude each other, the status line is one moment's, a queued ESTOP takes effect |
| `rtos_port_host.c` | ring buffer, boolean mutex, event bits | init/send/receive, lock/unlock, set/clear/get | a queue is a bounded FIFO; a lock is refused when taken, an unlock when free |
| `rtos_port_freertos.c` | kernel handles | the same API on the kernel with zero waits | the same contract, answered alike, with preemption inside each call |
| `app_scheduler.c` | task table, stop flag, script index | three periodic loops, supervisor | no period is lost, the script is answered in full, and the shutdown cuts no step |
| `command_parser.c` | none | `command_parser_parse` | a rejected line leaves no operands behind; a feed rate is never zero |
| `telemetry.c` | writer callback | send line, startup, status | a printed position reads back as the number it was |
| `pid_controller.c` | integral, previous error | init, reset, update | output and integral stay clamped, without wind-up, and a NaN does not outlive a reset |
| `Core/main.c` | loop counters | the demo without a kernel | every line is answered before the next is submitted, and no step returns what main does not expect |
| `Core/main_freertos_scheduler.c` | none | starts the scheduler | none of its own |

**How they interact.** CommandTask (500 ms, priority 3) parses one line; it
sends an accepted command to the command queue and the error text of a rejected
line to the telemetry queue. MotionTask (100 ms, priority 4) takes the mutex,
handles at most one command by calling the fault manager and the motion
controller, advances the stage, publishes the event bits, gives the mutex back,
and only then queues the reply. TelemetryTask (500 ms, priority 2) copies a
snapshot under the mutex, gives it back, prints every queued line, and prints the
status from the snapshot. Every queue and mutex call has a zero timeout: nothing
blocks, a refusal is returned as a status, and the scheduler discards it.

**What is hard.** Preemption between the steps of TelemetryTask (stale or torn
snapshots, a motion tick refused the mutex), queues at their limit (lost
commands and lost replies), redundant state updated in sequence (three copies of
the fault, two gates for MOVE, a MOVING bit that CLEAR_FAULT clears), integer
rounding in the motion path, replies without an identity, ticks that come while
a task still works, and progress that rests on other tasks' periods.
`PROJECT.json` lists each hazard at its line, with the properties about it.

## 2. Modules

| Module | Models |
|---|---|
| `IntegerSqrt` | the square root of `motion_controller.c`, by its value and by its loop over the bits |
| `MotionController` | the API of `motion_controller.c` as operators on the record of its static variables |
| `MotionStage` | the same state with one action per API call, called in any order; `MCMotionStage` instantiates it |
| `FaultManager` | `fault_manager.c` as operators on its two statics |
| `AppTasks` | the three task steps, cut where another task can run; composes `MotionController` and `FaultManager` |
| `AppTasksProperties` | the properties of the tasks, the fairness, the refinement mapping; `MCAppTasks` instantiates it |
| `AppTaskResults` | `AppTasks` plus the status each step returns; `MCAppTaskResults` instantiates it |
| `AppTaskReplies` | `AppTaskResults` with history variables that number the lines and follow them through queues and tasks; `MCAppTaskReplies` instantiates it |
| `SafetyEnvelope` | abstract: a mode and a position, and how they may change |
| `BoundedFifo` | abstract: the queue contract of `rtos_port.h` |
| `RtosPort` | what both backends have in common: items and a capacity |
| `RtosQueueHost` | the ring buffer of `rtos_port_host.c` |
| `RtosQueueFreeRtos` | the queue wrapper of `rtos_port_freertos.c`, each call cut between its check and its kernel call |
| `RtosBackends` | both backends side by side, with their mutex and event group; `MCRtosBackends` instantiates it |
| `DemoTasks` | the calls of the task steps as the demos make them, and what was printed |
| `AppScheduler` | `app_scheduler.c` and the kernel's scheduling: loops, ticks, delays, stop flag, supervisor |
| `HostDemo` | `main.c`: the calls in its order, and its exit status |
| `Demos` | the two demo programs, one state machine each; `MCDemos` instantiates it |
| `FixedWidth` | the signed integer type of the two modules below |
| `CommandParser` | `command_parser_parse` token by token; `MCCommandParser` instantiates it |
| `Telemetry` | `telemetry.c`: the writer and the text of a position; `MCTelemetry` instantiates it |
| `PidController` | `pid_controller.c` over integers and NaN; `MCPidController` instantiates it |
| `MotionControllerProofs` | lemmas about the API calls, for the two modules below |
| `MotionStageProofs` | the theorems about the stage and its square root |
| `AppTasksProofs` | those about the three tasks and the envelope they implement |
| `AppTaskRepliesProofs` | those about lines and replies, and about what the steps return |
| `RtosBackendsProofs` | those about the ring, the FreeRTOS wrapper, and both beside each other |
| `LineProofs` | those about the lines the firmware reads (the parser) and the one it writes (telemetry) |
| `PidControllerProofs` | those about the PID controller |
| `DemosProofs` | those about the two demo programs; it builds on `AppTasksProofs` |

**State and actions.** `motion` is the record of all static variables of
`motion_controller.c`; `fault` the two of `fault_manager.c`; `cmdQueue`,
`telQueue`, `locked`, `events` and `uptime` the fields of `app_context_t`. `pc`
says where each task is inside its step, and `command`, `response`, `snapshot`
and `line` are the locals that live across a cut.

- `CommandAccept` / `CommandReject` are a whole step of CommandTask: parsing
  touches nothing shared and the step ends with its one queue operation.
- `MotionLock`, `MotionReceive`, `MotionHandle`, `MotionAdvance`,
  `MotionRefresh`, `MotionUnlock`, `MotionRespond` are `app_motion_task_step` in
  order. `MotionHandle` is the whole of `app_tasks_handle_command`, one disjunct
  per case, each with every call it makes (fault manager, motion controller,
  event bits). It is one action because everything it writes is read by
  other tasks under the mutex only, which `MutexDiscipline` checks.
- `TelemetryLock`, `TelemetryCopyMotion`, `TelemetryCopyRest`,
  `TelemetryUnlock`, `TelemetryDrain` (one per line) and `TelemetrySendStatus`
  are `app_telemetry_task_step` in order. The copy is cut in two so that a torn
  snapshot could be seen.
- A step that is refused the mutex returns at once and changes nothing, so it is
  a stutter in `AppTasks`; `AppTaskResults` makes it an action (`Refused`).
- `MayRun` is the scheduler: a task runs only while no task of a higher priority
  is inside a step. No step ever blocks, so a task inside one always wants the
  processor. Time is left out here: an idle task may start a step at any moment,
  which covers every release pattern of the periods; `AppScheduler` has the time. With equal priorities every
  interleaving of the steps is possible.

- `CommandParser` is a state machine because a call returns at the first wrong
  token: `line` is what strtok has handed out, `saw` the three `saw_` flags,
  `command` the struct of the caller, who may pass the same one again, filled or
  uninitialised. `FirstToken`, `TokenAfterWord`, `EndAfterWord`, `MoveField`,
  `MoveBadToken` and `MoveEnd` are the branches of the two parsing functions,
  each with the reset that follows it. The tasks use the parser through
  `CommandAccept` and `CommandReject` as a whole, since it shares nothing.
- `RtosQueueFreeRtos` cuts a call where the code leaves the kernel:
  `SendCheck` / `Send` and `ReceiveCheck` / `Receive`, with `message` the
  producers' copies. What it promises is `BoundedFifo`, which is what `AppTasks`
  takes a queue to be. `RtosBackends` makes every call that returns from the
  wrapper to the host port too, at the moment the wrapper takes effect, and
  compares what they return. The mutex is `locked` in one and a `holder` in the
  other; `ClearBits` / `ClearGetsBits` are the two kernel calls of a clear. Only one
  task sets and clears bits, as in `app_tasks.c`, where the holder of the state
  mutex does; with two, a clear could answer with another task's bits. No task
  gives back a mutex another one holds: the host port would accept it, the kernel
  asserts.
- `AppTaskReplies` adds nothing to the behaviour. `said` is what each line asked
  for, `cmdIds` and `telIds` run along the two queues, `motionId` is the line
  MotionTask is at, `printed` what the host has read and `lost` what it never will.
- `AppScheduler` runs the steps of `AppTasks`. `at` is where each loop is and
  `wake` when it is due; `Begin` is the while condition, `Run` one action of a step,
  with `DelayUntil` when the step's call returns. `Tick` may come at any moment;
  `late` counts the ticks that find a task still working. `SupervisorGoes` are the
  four stages of the supervisor. A task that has left its loop only delays again
  and again and is taken to be gone. `began` and `refused` are history.
- `HostDemo` has the two nested loops of main: `call` is the task step under way or
  due, `step` the line of the script and `tick` the round of the simulation, zero in
  `main_run_command`; `exit` is what main has returned. `Perform` is one action of the
  call, and `Proceed`, when the call has returned, what main does with its status:
  `Advance` to the next call if it is `Accepted`, and otherwise give up.
- `Demos` is one or the other program, chosen at the start, over one copy of the tasks.
- `Telemetry` keeps of a text what a reader sees: the sign, and the digits before
  and after the point. `PidController` has the caller's structure, which holds
  anything before `pid_controller_init`, and four history variables (`accepted`,
  `ready`, `fresh`, `tainted`) that only the properties read.

**Abstractions.** Messages and replies are records and names, not text. The
square root is taken by its value (`FloorSqrt`) in the motion arithmetic, and
`PathIsRoot` compares the value with the loop's (`Isqrt`). The
32-bit width is kept where the code's sum could wrap (`UINT_MOD` in
`DistanceStep` and `Update`, `UPTIME_MOD` for the uptime). A token is a word or a field whose text is or is
not a number; how strtok cuts a line and the 96-byte limit are not modelled
beyond the error they lead to. The conversions keep what matters: strtol
saturates, strtoul wraps a minus sign. The PID arithmetic
keeps the rules of NaN, which passes the guards and the clamp because every
comparison with it is false. Otherwise its doubles are exact integers: rounding,
infinities, overflow and signed zeros are left out.
One tick of the scheduler stands for 50 ms, half a motion period. The locals of a task
are reset when its step ends, since the next step starts without them.

## 3. Properties and runs

Every run finishes in well under two minutes with two workers.

| Run | Instance | Checks |
|---|---|---|
| `motion_stage` | 6 by 4 stage, every target, feed rates 0, 3, 17, 63 with a tick of 1/10 s and a tick of zero; 21 thousand states | `TypeOK`, `NothingLeftOver`, `ExactDistance`, `PathIsRoot`, `SpeedLimit`, `DoneOnTarget`, `MoveEnds` |
| `app_tasks_priorities` | the scheduler's priorities, all six commands and a limit violation, rejected lines, both queues of capacity 1; 1.3 million states | `TypeOK`, `FaultCoupling`, `MovingBit`, `StopHonoured`, `GatesAgree`, `FaultLatch`, `EnvelopeSpec` |
| `app_tasks_equal` | equal priorities, the commands that move the stage or change the fault, an uptime of two values; 1.4 million states | `MutexDiscipline`, `CoherentSnapshot` |
| `app_tasks_live` | the scheduler's priorities, MOVE, ESTOP and CLEAR_FAULT, command queue of capacity 2 | `EstopTakesEffect` |
| `app_task_replies` | the scheduler's priorities, three lines of three kinds (two commands and a rejected line), queues of capacity 1; 58 thousand states | `TelemetryNeverRefused`, `AnsweredOnce`, `RepliesMatch`, `OvertakesOnlyQueued`, `EveryLineSettles` |
| `rtos_port` | two messages, capacity 3, two producers and a consumer, two event bits; 420 thousand states | `ReceiveFindsMessage`, `BackendsAgree`, `FifoSpec` |
| `command_parser` | a scale of 2, a 4-bit int, a 5-bit long, numbers on both sides of every limit; 57 thousand states | `TypeOK`, `RejectedLeavesNothing`, `MoveGrammar`, `AcceptedIsUsable` |
| `demos` | the script of both programs on an axis of 22 units, the periods and priorities of the code, up to 4 late ticks; 304 thousand states | `ScriptAnswered`, `ShowsEveryState`, `Conversation`, `NoStepCut`, `UptimeKeepsUp`, `DemosEnd` |
| `telemetry` | the positions of a 16-bit integer around zero, a whole millimetre and both limits; 964 states | `StatusReadsBack` |
| `pid_controller` | valid, reversed and NaN configurations, ranges that exclude zero, NaN among the signals and the times; 466 states | `TypeOK`, `IntegralInRange`, `OutputInRange`, `NoWindup` |
| `estop_is_queued`, `negative_feedrate` | small instances | the two findings of section 5, each ends in a counterexample |

**What the properties say.** Each is stated in a comment above its definition.
In short: the motion arithmetic neither loses nor gains distance
(`ExactDistance`, with the history variable `budget`) and never leaves the
travel range although only targets are bounds-checked (`TypeOK`); an
ended, stopped, faulted or replaced move leaves nothing behind
(`NothingLeftOver`); the three copies of the fault agree (`FaultCoupling`) and
so do the two gates of MOVE (`GatesAgree`); a fault freezes the stage until it is
cleared (`FaultLatch`); the snapshot TelemetryTask prints is one
moment's (`CoherentSnapshot`) thanks to the mutex (`MutexDiscipline`); the event
bits tell the truth outside the middle of a tick (`MovingBit`, `StopHonoured`);
and the whole task layer implements `SafetyEnvelope`. The parser accepts exactly the
lines of the MOVE grammar, stated without its loop (`MoveGrammar`), stores no
number that overflows, and leaves nothing of a rejected line
(`RejectedLeavesNothing`). Both queue backends implement the same `BoundedFifo`,
and every call answers alike on both (`BackendsAgree`), so that what the unit
tests see on the host port holds on FreeRTOS.

A host that counts its lines can tell which line a reply answers: no reply is
without its line and none comes twice (`AnsweredOnce`, `RepliesMatch`); the only
replies out of turn are those to rejected lines, past no more than the commands
that waited (`OvertakesOnlyQueued`); every line ends answered or lost
(`EveryLineSettles`). The scheduler's demo answers its whole script however the
late ticks fall (`ScriptAnswered`), the stop flag falls between the steps
(`NoStepCut`), and uptime lags behind the clock by refused ticks only
(`UptimeKeepsUp`). That the status lines show the move needs more: with the tasks a
whole motion period late, MotionTask handles ESTOP before TelemetryTask prints
(`ShowsEveryState` has that condition, and does not hold without it). The PID
integral keeps to its range except for the zero a reset leaves (`IntegralInRange`),
moves off a limit at the first error of the other sign (`NoWindup`), and is used with
the configuration that was accepted last, not with one that was refused (`TypeOK`).

**What they do not promise.** `CoherentSnapshot` allows the printed status to be
older than the replies printed before it (the last remark of section 5); no document
asks for more. `EveryLineSettles` and `DemosEnd` speak of finitely many lines. The
drain loop of TelemetryTask ends only when it sees its queue empty, and a source of
lines without end that fills the queue as fast as it is printed would keep it there:
what excludes that is how long a step takes, and the model has no execution times. A
clear of `STOP_REQUESTED` that is forgotten breaks `StopHonoured`; a STOP that forgets
to set the bit breaks no property: only a unit test reads it (`test_app_tasks.c:152`). A sum of path
and step that wraps is out of reach at the ticks the tasks use (`NoWrapAssumption`).

**Bounds, and why they are enough.** Queues of capacity 1 are full after one
message and empty after one more, so full, empty and refused all occur at
once; capacity 2 in the liveness run puts a command in front of the ESTOP. The
task instances use a stage of one axis and two units that a move crosses in two
ticks, so that a move has a middle for a STOP, an ESTOP, a limit fault or another
MOVE to hit; the arithmetic on two axes is the business of `motion_stage`,
whose feed rates include one slower than a unit per tick, one that needs several
ticks for a path, the largest, and zero. The distance sum does not wrap at the
instances, as it does not with the schedulers' `delta_ms` of 0 and 100: the
largest feed rate is `UINT_MOD - 1` and a tick a tenth of `MS_PER_S`, as 100 is
of 1000. The widths of the
parser run are small, but int and long differ, the scale does not divide the
limits, and the limits of the scaled int, the scaled unsigned int, the long and
the unsigned long are four different places with a number on either side; a line
has at most as many tokens as the grammar allows before the first wrong one.
Capacity 3 makes the ring wrap with every fill, and lets one producer take the last
place between the other's check and its send. Three lines with queues of one place
let a line be overtaken, lost and answered in one behaviour. Four late ticks are two
motion periods: enough to preempt any step, to refuse a tick the mutex, to start a
step when the next one is due already, and to use up the supervisor's grace; the
tasks of the demo need a fraction of a tick. The axis of 22 units at one unit per
period is the script's move, 53.9 mm at 2.5 mm per period, to within a period.
`MAX_LATE`, `MAX_LINES` and the lengths of the script and the simulation bound the
counters; everything else is bounded by the code.
`UPTIME_MOD` is 1 where nothing reads the uptime and 2 where a torn
snapshot could show in it.

**Fairness.** `MotionLock` and `TelemetryLock` are strongly fair: each task asks
for the mutex once in every period, the section of the other task is a few
instructions long, and MotionTask runs five times in a period of
TelemetryTask, so neither always finds it taken. MotionTask inside a step is weakly
fair: nothing has a higher priority. TelemetryTask inside a step is strongly
fair: it is interrupted whenever a higher task is inside a step, and each of those
returns to its delay after a bounded number of instructions. CommandTask is
not fair: nothing obliges the host to send a line. For the motion module alone,
`Ticks` says that ticks of a positive length keep coming; `MoveEnds` then holds
for behaviours in which moves are eventually no longer replaced. The demos assume
only that a program that can go on does (weak fairness of the whole next-state
relation): the tick interrupt keeps coming and the kernel runs the ready task.

## 4. Proofs

All theorems are of the form "for every value of the constants that satisfies
the named assumptions":

| Assumption | Asks for |
|---|---|
| `StageAssumption` | non-negative travel ranges, a positive divisor and modulus |
| `StageInputsAssumption` | targets in range, numbers of their width, a travel range whose squares fit the bits of the root |
| `NoWrapAssumption` | one tick at the largest feed rate, added to the longest path, stays below `UINT_MOD`: in the code up to ticks of 999 ms, and MotionTask's are of 100 ms |
| `TasksAssumption` | positive capacities, commands whose feed rate is not zero (`AcceptedCanBeUsed` proves that of the parser), natural numbers for ticks and priorities |
| `TextsAssumption` | no error text is the name of a command |
| `QueueAssumption`, `KernelQueueAssumption`, `BackendsAssumption` | positive capacity, a consumer that does not send, the task of the event bits among the tasks |
| `ParserAssumption` | a long at least as wide as an int, an int at least as large as the scale; the theorems stand beside those of telemetry, so their int is one of up to 32 bits |
| `SchedulerAssumption` | positive periods, a supervisor below every task, and an uptime that the demo's run time does not wrap |
| `ScriptAssumption` | a script of commands |
| `HostAssumption` | a number of simulation steps |
| `TelemetryAssumption` | positions of 32 bits at most, and no caller that formats a status line itself |

Some theorems need a priority order that the scheduler sets and say so in their
statement or assumption: `TelemetryAlwaysLocks` a MotionTask above
TelemetryTask, `RepliesInOrder` a MotionTask above CommandTask, and those of the
demos a supervisor below all. Everything else about the tasks holds for all
priorities.

| Theorem | Says |
|---|---|
| `TypeCorrect` | `Spec => []TypeOK` of the tasks |
| `MutualExclusion` | `Spec => []MutexDiscipline` |
| `SafetyCorrect`, `FaultCopiesAgree`, `StopIsHonoured`, `MoveGatesAgree`, `MovingBitIsRight` | `Spec => []SafetyInv` and its parts |
| `SnapshotIsCoherent` | `Spec => []CoherentSnapshot` |
| `FaultIsLatched` | `Spec => FaultLatch` |
| `TasksImplementEnvelope` | `Spec => EnvelopeSpec` |
| `TelemetryAlwaysLocks` | `RSpec => []TelemetryNeverRefused` |
| `EveryLineOnce`, `RepliesBelong`, `RepliesInOrder` | `HSpec => []AnsweredOnce`, `[]RepliesMatch`, `[]OvertakesOnlyQueued` |
| `StageStaysInRange`, `NothingIsLeft`, `DistanceIsExact` | the stage's `TypeOK`, `NothingLeftOver`, `ExactDistance` |
| `MovesEndOnTarget`, `SpeedIsLimited` | the stage's action properties `DoneOnTarget`, `SpeedLimit` |
| `LoopFindsRoot`, `PathIsTheRoot` | the loop over the bits computes the root of every number they can hold; `Spec => []PathIsRoot` |
| `RingCorrect`, `RingIsFifo` | the ring's indices agree; the ring implements `BoundedFifo` |
| `ReceiveNeverStale`, `WrapperIsFifo` | a receive that passed its check finds a message; check-then-call implements `BoundedFifo` |
| `BackendsAnswerAlike` | `BSpec => []BackendsAgree`: both backends hold the same and answer the same |
| `NumbersFit`, `RejectedIsEmpty`, `AcceptedCanBeUsed`, `GrammarAccepted` | the parser's `TypeOK`, `RejectedLeavesNothing`, `AcceptedIsUsable`, `MoveGrammar` |
| `LimitsStayOrdered`, `IntegralStaysInRange`, `OutputStaysInRange`, `NeverWindsUp` | the PID controller's `TypeOK`, `IntegralInRange`, `OutputInRange`, `NoWindup` |
| `StatusIsReadable` | `TSpec => []StatusReadsBack` |
| `NoStepIsCut`, `NoPeriodIsLost`, `ScriptsAreAnswered` | `DemosSpec => []NoStepCut`, `[]UptimeKeepsUp`, `[]Conversation` |
| `DemosRunTheTasks`, `DemosKeepTheEnvelope` | `DemosSpec => Spec` of the tasks, and so `DemosSpec => EnvelopeSpec` |

**The stage.** `MotionControllerProofs` has one lemma per API call: it keeps
`MotionType` and says what it does to state and position. The difficult one is
`InterpolateInRange`: with less than the whole path travelled, the truncated
interpolation lies between start and target in either direction (`DivBound`), so
that `Update` stays in the travel range. `ZeroPathLength` is what makes a move of
no length harmless: only a move to where the stage already is has one.

`StageInv` is the stage's inductive invariant: the properties of the run, and `OnLine`:
a moving stage stands at the interpolated point of its path, which is at least as
long as the way on either axis (`PathBounds`, from `RootBounds`) and no longer than
both together. `TickDistance` is where `NoWrapAssumption` is used: with it neither
truncation of the code loses anything, and the units and the carried remainder add
up to the budget. `TickShape` then says that a tick goes on along the line or ends
the move, and the speed limit follows from `DivStep`: with a slope of at most one, the
rounded way grows by the units of the tick and one at most.

`LoopFindsRoot` is an induction over the rounds of `motion_isqrt_u64`. `Found` is its
loop invariant: after the round for a bit that is the square of *q*, `result` is
*a q* and `value` has lost *a* squared, for the *a* found so far; *a* is not above the
root and *a + q* is. `RoundFinds` takes it from one bit to the next, and at the last
bit *q* is one. The provers cannot instantiate the library's induction theorems, which
take an operator. `InductionUpTo` and `RecursionUpTo` are induction and recursion up
to a number over a set and a function instead; both come from the least element
of a set of numbers (`LeastNumber`), which well-foundedness gives. Powers are a
recursive function in the model because the provers know nothing of `^`.
`KeepsLength` carries the result from the start of a move to every tick of it.

**The tasks.** `TypeOK` is inductive with the lemmas about the calls. `MutexDiscipline` is inductive
with `TypeOK`: `locked` is equivalent to one of the two tasks being inside its
section. The safety invariant `SafetyInv` joins `FaultCoupling`, `MovingBit`,
`StopHonoured` and `GatesAgree`; they are inductive together but not apart: that
`start_move` accepts a move the handler let through rests on the fault flag and
the motion state agreeing, and on no command with a zero feed rate. `FaultCoupling`
is preserved by each command as a whole, which is why `MotionHandle` is one
action. For `CoherentSnapshot` the strengthening says what has been copied at
each label of TelemetryTask; it needs `MutexDiscipline`, since it is the lock that
keeps MotionTask from writing between the copies. `TasksImplementEnvelope` maps
the initial state and then every action to a step or a stutter of
`SafetyEnvelope`: a command to one of Move, Stop, Fault, Clear, a tick to
Advance, and everything else to a stutter.

**Lines and replies.** `TelemetryAlwaysLocks` runs through `MutexDiscipline`: a
TelemetryTask that may start a step has a MotionTask between two of its own,
so neither holds the lock. `LineInv` is inductive beside `SafetyInv`: every line is in
exactly one place (printed, with a reply queued, with MotionTask, with a command
queued, or lost) and only once there (`InOnePlace`), each queue has the numbers of
its messages beside it, and what MotionTask is about to answer is the answer
to its line (`Matching`). `SafetyInv` is needed because the reply to a MOVE depends on
both gates agreeing. For the order, `Ahead` says that one line comes before another
in this pipeline, within a place or across two. A step that moves a line on from
the head of one queue to the tail of the next puts nothing ahead of anything. Only
two steps do: a rejected line goes straight to the telemetry queue, past
the command queue and nothing else. That is where the priority is used: no
command is in MotionTask's hands when CommandTask starts a step. `Overtaking` counts
what it passed, which the capacity bounds.

**The queues.** The ring's refinement reads the
abstract queue from the head on; its proof needs that head, tail and count agree
(`RingInv`). For the wrapper, `ReceiveNeverStale` is inductive
because only the consumer, which is between its two calls, could empty the queue;
`WrapperIsFifo` then maps both checks to a failure or a stutter.
`BackendsAnswerAlike` splits into the queues (`QueuesInv`) and the rest
(`LockAndBitsInv`). For the queues, `RingSends` and `RingReceives` take the
ring's refinement over, so that ring and kernel queue
both do what a bounded FIFO does at the moment the wrapper takes effect. For the
clear, whose answer is asked for in a second kernel call, the invariant says that
nothing sets or clears a bit in between.

**The parser.** The invariant ties `saw` to the command: until F has been stored the rate is zero,
after it not, and `PositionFits` and `FeedrateFits` show that a checked number times the scale
stays in its type, on either side of zero and for any scale. `GrammarAccepted`
adds `FieldsRead`: inside the loop the tokens so far are fields of different kinds,
exactly those in `saw`, and storing any of them again would change nothing. At the end
of the line that is the grammar; at a wrong token it is the reason why the line
does not match.

**The PID controller.** `PidInv` adds to the properties that a controller which was
initialised and has seen no NaN holds none (`NumbersInside`). With `Numeric`, the
operators on doubles are then those of the integers, and the clamp does what its
name says. The four theorems are about these idealised doubles. In IEEE arithmetic an
overflow to infinity can make a NaN out of numbers (inf - inf, 0 * inf), and an error
too small to change the sum leaves the integral where it was.

**Telemetry.** `Magnitude` shows that the unsigned sum of `telemetry_abs_i32` is the
distance from zero at the most negative number too. `Places` takes a number below 10^7
apart, one remainder by ten after the other; `LengthOfWhole` and `LengthOfFraction` say
how many of those digits are printed, and `ReadsDigits` that the places not printed
are worth nothing. `ReadsPosition` joins whole part, fraction and sign. The digits are
taken by their places, of which a 32-bit position has a fixed number, so that no
induction over the text is needed.

**The scheduler.** `SchedulerInv` holds what the loops keep. `Phases`: the supervisor,
below every task, sets the flag only when none is inside a step, and no loop enters
one after that. `OnTime`: MotionTask's wake time is `began` plus a period for every
step made, refused ones included, and it is never more than a period ahead of the
clock; `InTime` bounds the clock by the run time and the late ticks, so that the
uptime does not wrap. When no task is working, MotionTask is waiting for a wake
time that is still to come, which leaves one possible count.

**The demos and their scripts.** `DemosRunTheTasks` maps every step of either program
to a step of `AppTasks` or to none, so that everything proved of the tasks holds in the
demos; `DemosKeepTheEnvelope` is one consequence. `ScriptsAreAnswered` rests on
`Pipeline(n)`: the *n* lines submitted so far are, in the order of the script, the ones
answered on the host, the ones whose replies are queued, the one MotionTask holds, and
the ones in the command queue, and each queue holds what belongs to its lines. Every
step that moves a line on keeps this if the queue it enters has room (`RoomToAnswer`);
`SafetyInv` comes in again for the reply to a MOVE. For the scheduler a
script no longer than the queues leaves room always, since the lines in all places
together are no more than the script (`OneHeld`). For main.c nothing is asked of the
script: `HostPhases` says where its one line is during each call (before
CommandTask's step nowhere, before MotionTask's in the command queue, before
TelemetryTask's in the telemetry queue), so the queues are empty whenever something is
sent, no lock is ever refused, and no status makes main give up. That includes the
ticks of the simulation, which find no command and must be let through:
`ProceedOnlyOnOk` is the mutant that does not.

**Only model-checked.** Liveness (`MoveEnds`, `EstopTakesEffect`,
`EveryLineSettles`, `DemosEnd`) is out of the proof system's reach.
`ScriptAnswered` names the very texts of one script on one axis, and `ShowsEveryState`
the states it leads through, which depend on the length of its move against the
periods; what holds of them for every script is `Conversation`.

## 5. Where the code and its documents disagree

1. `EstopIsQueued`: REQ-007 (`docs/requirements.md:62-66`) says that a received
   ESTOP stops motion and sets the fault. An ESTOP that meets a full command
   queue is dropped (`app_tasks.c:251`) and nothing is printed. The demo's one
   command per 500 ms never fills eight places; a faster source of lines would.
2. `NegativeFeedrateRefused`: `command_parser.c:90-91` says that a negative feed
   rate has no meaning. The sign is left to `strtoul` (`command_parser.c:101`),
   which wraps it modulo `ULONG_MAX + 1`; a number near `-ULONG_MAX` is accepted
   as a small positive rate. `F=-1` is refused.

Three remarks. `app_scheduler.c:114-116` says that telemetry is isolated from the
motion update path; with the shared mutex a tick that preempts TelemetryTask inside
its section is refused (`app_tasks.c:268`) and dropped, command, motion and uptime,
which `refused` counts in the demos and `EstopTakesEffect` allows for. The tests of
the scheduler demo look for a status line in state MOVING, which lateness of one
motion period can hide. And `test_pid_controller.c:81` passes a structure that was
never initialised, so `initialized` is whatever was on the stack; the model starts
from any such structure.

The demo's reader should also know that the status line printed directly after
`OK ESTOP` may have been copied before the ESTOP was handled
(`app_tasks.c:310-323`) and still say `fault=0`: `CoherentSnapshot` promises one
moment's values, not the latest. The next status line is right.

## 6. Not modelled

NULL arguments, which no caller in the repository passes (a NULL line is one of the
parser's errors), and objects that cannot be created, which static allocation rules
out: these calls return at once and change nothing. The to-string functions and the
getters change nothing either. Characters: how `strtok` cuts a line, and the lengths
of the text buffers, which every text of the firmware fits. The stub of
`app_scheduler_start` in host builds returns false. The FreeRTOS kernel is a
submodule outside the repository, modelled by what its calls answer. Tests, build
files and the generated ARM build directory carry no behaviour of the firmware.

## 7. Plan

Every component of the firmware has a module and a run, and every safety property that
is about more than one script has its theorem. What could still be added is outside
the present abstractions: characters and buffer lengths in the parser and the telemetry,
and rounding in the PID arithmetic.
