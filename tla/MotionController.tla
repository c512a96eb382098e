--------------------------- MODULE MotionController ---------------------------
(***************************************************************************)
(* The simulated two-axis stage of motion_controller.c as operators on one *)
(* record, the module's static variables.  Every operator is one API call  *)
(* of the C module: it takes the record before the call and returns the    *)
(* record after it.  MotionStage gives them a behaviour of their own and   *)
(* AppTasks calls them from MotionTask.                                    *)
(***************************************************************************)
EXTENDS IntegerSqrt

CONSTANTS
    MAX_X,      \* MOTION_MAX_X_MILLI_MM, 100000 in the code (the minimum is 0)
    MAX_Y,      \* MOTION_MAX_Y_MILLI_MM, 100000 in the code
    MS_PER_S,   \* the divisor 1000u of the distance computation
    UINT_MOD    \* number of uint32_t values, 2^32 in the code

ASSUME StageAssumption ==
    /\ MAX_X \in Nat
    /\ MAX_Y \in Nat
    /\ MS_PER_S \in Nat \ {0}
    /\ UINT_MOD \in Nat \ {0}

MotionStates == {"IDLE", "MOVING", "STOPPED", "DONE", "FAULT"}

\* The static variables, the position and the move inside the travel range.
MotionType ==
    [x : 0..MAX_X, y : 0..MAX_Y, target_x : 0..MAX_X, target_y : 0..MAX_Y,
     feedrate : 0..(UINT_MOD - 1), state : MotionStates,
     start_x : 0..MAX_X, start_y : 0..MAX_Y, path_length : Nat,
     distance_traveled : Nat, remainder : 0..(MS_PER_S - 1)]

-----------------------------------------------------------------------------
(* Arithmetic helpers.                                                     *)

\* C's signed division truncates toward zero, TLA+'s \div rounds down.
TruncDiv(a, b) == IF a >= 0 THEN a \div b ELSE -((-a) \div b)

\* The root is taken by its value; MotionStage compares it with the loop's.
PathLength(sx, sy, tx, ty) ==
    FloorSqrt((tx - sx) * (tx - sx) + (ty - sy) * (ty - sy))

InterpolatePosition(start, target, traveled, path) ==
    IF path = 0 THEN target
    ELSE start + TruncDiv((target - start) * traveled, path)

IsTargetInBounds(tx, ty) == tx \in 0..MAX_X /\ ty \in 0..MAX_Y

-----------------------------------------------------------------------------
(* The API calls.                                                          *)

MotionInit ==
    [x |-> 0, y |-> 0, target_x |-> 0, target_y |-> 0, feedrate |-> 0,
     state |-> "IDLE", start_x |-> 0, start_y |-> 0,
     path_length |-> 0, distance_traveled |-> 0, remainder |-> 0]

\* The tail every way of ending a move shares: no speed, no progress left over.
Halted(m, s) ==
    [m EXCEPT !.feedrate = 0, !.state = s, !.path_length = 0,
              !.distance_traveled = 0, !.remainder = 0]

\* Mutant: the move ends without snapping onto the target.
FinishMoveInPlace(m) == Halted(m, "DONE")

FinishMove(m) ==
    Halted([m EXCEPT !.x = m.target_x, !.y = m.target_y], "DONE")

AcceptsMove(m, f) == m.state # "FAULT" /\ f # 0

\* Mutant: a move replacing one under way keeps the old progress.
StartMoveKeepsProgress(m, tx, ty, f) ==
    LET len == PathLength(m.x, m.y, tx, ty)
    IN  IF ~AcceptsMove(m, f) THEN m
        ELSE IF len = 0
        THEN FinishMove([m EXCEPT !.target_x = tx, !.target_y = ty])
        ELSE [m EXCEPT !.start_x = m.x, !.start_y = m.y,
                       !.target_x = tx, !.target_y = ty, !.feedrate = f,
                       !.path_length = len, !.state = "MOVING"]

\* The record after motion_controller_start_move, unchanged if it is refused.
StartMove(m, tx, ty, f) ==
    LET len   == PathLength(m.x, m.y, tx, ty)
        begun == [m EXCEPT !.start_x = m.x, !.start_y = m.y,
                           !.target_x = tx, !.target_y = ty,
                           !.feedrate = f, !.path_length = len,
                           !.distance_traveled = 0, !.remainder = 0]
    IN  IF ~AcceptsMove(m, f) THEN m
        ELSE IF len = 0 THEN FinishMove(begun)
        ELSE [begun EXCEPT !.state = "MOVING"]

\* The products of one tick: whole units to advance and what is carried over.
DistanceNumerator(m, delta) == m.feedrate * delta + m.remainder
DistanceStep(m, delta) == (DistanceNumerator(m, delta) \div MS_PER_S) % UINT_MOD

\* Mutant: the sub-unit part of a tick is thrown away.
UpdateDropsRemainder(m, delta) ==
    LET step == ((m.feedrate * delta) \div MS_PER_S) % UINT_MOD
        far  == (m.distance_traveled + step) % UINT_MOD
    IN  IF m.state # "MOVING" \/ delta = 0 \/ step = 0 THEN m
        ELSE IF far >= m.path_length THEN FinishMove(m)
        ELSE [m EXCEPT
                !.distance_traveled = far,
                !.x = InterpolatePosition(m.start_x, m.target_x, far, m.path_length),
                !.y = InterpolatePosition(m.start_y, m.target_y, far, m.path_length)]

\* Mutant: the stage goes on past the end of the path.
UpdateOvershoots(m, delta) ==
    LET far == m.distance_traveled + DistanceStep(m, delta)
    IN  IF m.state # "MOVING" \/ delta = 0 THEN m
        ELSE [m EXCEPT
                !.distance_traveled = far,
                !.x = InterpolatePosition(m.start_x, m.target_x, far, m.path_length),
                !.y = InterpolatePosition(m.start_y, m.target_y, far, m.path_length)]

Update(m, delta) ==
    LET step    == DistanceStep(m, delta)
        carried == [m EXCEPT !.remainder = DistanceNumerator(m, delta) % MS_PER_S]
        far     == (m.distance_traveled + step) % UINT_MOD
    IN  IF m.state # "MOVING" \/ delta = 0 THEN m
        ELSE IF step = 0 THEN carried
        ELSE IF far >= m.path_length THEN FinishMove(m)
        ELSE [carried EXCEPT
                !.distance_traveled = far,
                !.x = InterpolatePosition(m.start_x, m.target_x, far, m.path_length),
                !.y = InterpolatePosition(m.start_y, m.target_y, far, m.path_length)]

\* The record with the current position as the target and the move ended.
HoldPosition(m, s) == Halted([m EXCEPT !.target_x = m.x, !.target_y = m.y], s)

Stop(m) == IF m.state = "FAULT" THEN m ELSE HoldPosition(m, "STOPPED")

\* Mutant: only the state changes, the move's target and progress stay behind.
SetFaultStateOnly(m) == [m EXCEPT !.state = "FAULT"]

SetFault(m) == HoldPosition(m, "FAULT")

ClearFault(m) == IF m.state = "FAULT" THEN [m EXCEPT !.state = "IDLE"] ELSE m
===============================================================================
