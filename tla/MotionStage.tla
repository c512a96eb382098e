----------------------------- MODULE MotionStage ------------------------------
(***************************************************************************)
(* motion_controller.c on its own: the state its static variables hold and *)
(* one action per API call that changes it, called in any order, as the    *)
(* unit tests and AppTasks may.  budget is a history variable that only    *)
(* the properties read.                                                    *)
(***************************************************************************)
EXTENDS MotionController

CONSTANTS
    Targets,    \* the <<x, y>> pairs start_move is called with
    Feedrates,  \* the feed rates start_move is called with
    Deltas,     \* the delta_ms update is called with
    ROOT_BITS   \* rounds of motion_isqrt_u64 at most, 32 in the code

ASSUME StageInputsAssumption ==
    /\ Targets \subseteq (0..MAX_X) \X (0..MAX_Y)
    /\ Feedrates \subseteq 0..(UINT_MOD - 1)
    /\ Deltas \subseteq 0..(UINT_MOD - 1)
    /\ ROOT_BITS \in Nat
    /\ MAX_X * MAX_X + MAX_Y * MAX_Y < PowersOfFour(ROOT_BITS)[ROOT_BITS]

\* One tick at the largest feed rate, added to the longest path, does not wrap.
\* In the code that is so up to ticks of 999 ms; MotionTask's are of 100 ms.
ASSUME NoWrapAssumption ==
    \A delta \in Deltas :
        ((UINT_MOD - 1) * delta + MS_PER_S - 1) \div MS_PER_S + MAX_X + MAX_Y < UINT_MOD

VARIABLES
    motion,     \* the static variables of motion_controller.c
    budget      \* sum of feedrate * delta_ms over the ticks of the present
                \* move, counted no further than the length of its path

vars == <<motion, budget>>

-----------------------------------------------------------------------------
Init == motion = MotionInit /\ budget = 0

\* AppTasks calls start_move only after the bounds check, so Targets are in
\* bounds; the fault state and the zero feed rate are the call's own to refuse.
CallStartMove(tx, ty, f) ==
    /\ motion' = StartMove(motion, tx, ty, f)
    /\ budget' = IF AcceptsMove(motion, f) THEN 0 ELSE budget

Smaller(a, b) == IF a <= b THEN a ELSE b

CallUpdate(delta) ==
    /\ motion' = Update(motion, delta)
    /\ budget' = IF motion'.state = "MOVING"
                 THEN Smaller(budget + motion.feedrate * delta,
                              motion'.path_length * MS_PER_S)
                 ELSE 0

CallStop == motion' = Stop(motion) /\ budget' = 0

CallSetFault == motion' = SetFault(motion) /\ budget' = 0

CallClearFault == motion' = ClearFault(motion) /\ UNCHANGED budget

Next ==
    \/ \E t \in Targets, f \in Feedrates : CallStartMove(t[1], t[2], f)
    \/ \E delta \in Deltas : CallUpdate(delta)
    \/ CallStop
    \/ CallSetFault
    \/ CallClearFault

Spec == Init /\ [][Next]_vars

\* MotionTask runs once per period: ticks of a positive length keep coming.
Ticks == \A delta \in Deltas \ {0} : WF_vars(CallUpdate(delta))
FairSpec == Spec /\ Ticks

-----------------------------------------------------------------------------
(* Invariants.                                                             *)

\* Type invariant.  That x and y stay in the travel range is the guarantee of
\* the interpolation: only the targets are ever bounds-checked by the code.
TypeOK == motion \in MotionType /\ budget \in Nat

\* Once no move is under way nothing of it is left that a later tick, move or
\* fault clear could take up again: no rate, no progress, no pending target.
NothingLeftOver ==
    motion.state # "MOVING" =>
        /\ motion.feedrate = 0
        /\ motion.path_length = 0
        /\ motion.distance_traveled = 0
        /\ motion.remainder = 0
        /\ motion.target_x = motion.x /\ motion.target_y = motion.y

\* The distance accounting is exact: whole units travelled plus the carried
\* remainder are what feed rate and elapsed time amount to, none is lost to
\* rounding or counted twice, and a move still MOVING has not used up its path.
ExactDistance ==
    motion.state = "MOVING" =>
        /\ motion.distance_traveled * MS_PER_S + motion.remainder = budget
        /\ budget < motion.path_length * MS_PER_S

\* The length of a move is the root its loop of bits computes: the straight
\* line from start to target, rounded down, for squares and for all others.
PathIsRoot ==
    motion.state = "MOVING" =>
        LET dx == motion.target_x - motion.start_x
            dy == motion.target_y - motion.start_y
        IN  motion.path_length = Isqrt(dx * dx + dy * dy, ROOT_BITS)

-----------------------------------------------------------------------------
(* What a step may never do.                                               *)

Abs(n) == IF n >= 0 THEN n ELSE -n
Larger(a, b) == IF a >= b THEN a ELSE b

\* One call never moves an axis further than the feed rate allows in the
\* longest period, plus one unit of rounding; also when it snaps to the target.
SpeedLimit ==
    [][ \A d \in Deltas :
          (\A e \in Deltas : e <= d) =>
              LET far == (motion.feedrate * d + motion.remainder) \div MS_PER_S + 1
              IN  Larger(Abs(motion'.x - motion.x), Abs(motion'.y - motion.y)) <= far
      ]_vars

\* A tick that ends a move leaves the stage exactly on the move's target, and
\* never does so early: the time the move was given covers its whole path.
DoneOnTarget ==
    [][ \A d \in Deltas :
          CallUpdate(d) /\ motion.state = "MOVING" /\ motion'.state # "MOVING" =>
              /\ motion'.x = motion.target_x /\ motion'.y = motion.target_y
              /\ budget + motion.feedrate * d >= motion.path_length * MS_PER_S
      ]_vars

-----------------------------------------------------------------------------
(* Liveness.                                                               *)

\* Only a move that begins has used up none of its budget.
BeginsMove == motion'.state = "MOVING" /\ budget' = 0

\* However slow the feed rate (less than one unit per tick included), a move
\* that no other move replaces for ever ends: the carried remainder adds up.
MoveEnds == <>[][~BeginsMove]_vars => <>[](motion.state # "MOVING")
===============================================================================
