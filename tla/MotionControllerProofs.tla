------------------------ MODULE MotionControllerProofs ------------------------
(***************************************************************************)
(* Lemmas about the API calls of motion_controller.c, for every travel     *)
(* range and integer width: each call keeps the record's type.             *)
(***************************************************************************)
EXTENDS MotionController, FiniteSetTheorems, TLAPS

\* Division by p takes a multiple of p not above n to a number not above it.
LEMMA DivBound ==
    ASSUME NEW w \in Nat, NEW d \in Nat, NEW p \in Nat, d < p
    PROVE  (w * d) \div p \in 0..w
<1> DEFINE q == (w * d) \div p
<1>1. w * d \in Nat /\ p \in Nat \ {0}
    OBVIOUS
<1>2. q \in Int /\ w * d = p * q + ((w * d) % p) /\ (w * d) % p \in 0..(p - 1)
    BY <1>1
<1>3. w * d <= w * p
    OBVIOUS
<1>4. q <= w
    <2>1. SUFFICES ASSUME q >= w + 1 PROVE FALSE
        BY <1>2
    <2>2. p * q >= p * (w + 1)
        BY <2>1, <1>2
    <2>3. QED BY <2>2, <1>1, <1>2, <1>3
<1>5. q >= 0
    <2>1. SUFFICES ASSUME q <= -1 PROVE FALSE
        BY <1>2
    <2>2. p * q <= -p
        BY <2>1, <1>2
    <2>3. QED BY <2>2, <1>1, <1>2
<1>6. QED BY <1>2, <1>4, <1>5

\* The interpolated position lies between start and target, on either axis and
\* in either direction, as long as less than the whole path is travelled.
LEMMA InterpolateInRange ==
    ASSUME NEW M \in Nat, NEW a \in 0..M, NEW b \in 0..M,
           NEW d \in Nat, NEW p \in Nat, d < p
    PROVE  InterpolatePosition(a, b, d, p) \in 0..M
<1>1. InterpolatePosition(a, b, d, p) = a + TruncDiv((b - a) * d, p)
    BY DEF InterpolatePosition
<1>2. CASE a <= b
    <2>1. (b - a) \in Nat /\ (b - a) * d >= 0
        BY <1>2
    <2>2. TruncDiv((b - a) * d, p) = ((b - a) * d) \div p
        BY <2>1 DEF TruncDiv
    <2>3. ((b - a) * d) \div p \in 0..(b - a)
        BY <2>1, DivBound
    <2>4. QED BY <1>1, <2>2, <2>3
<1>3. CASE b < a /\ d = 0
    <2>1. (b - a) * d = 0 /\ 0 * d = 0
        BY <1>3
    <2>2. 0 \div p \in 0..0
        BY <2>1, DivBound
    <2>3. TruncDiv((b - a) * d, p) = 0
        BY <2>1, <2>2 DEF TruncDiv
    <2>4. QED BY <1>1, <2>3
<1>4. CASE b < a /\ d # 0
    <2>1. (a - b) \in Nat /\ (b - a) * d < 0 /\ -((b - a) * d) = (a - b) * d
        BY <1>4
    <2>2. TruncDiv((b - a) * d, p) = -(((a - b) * d) \div p)
        BY <2>1 DEF TruncDiv
    <2>3. ((a - b) * d) \div p \in 0..(a - b)
        BY <2>1, DivBound
    <2>4. QED BY <1>1, <2>2, <2>3
<1>5. QED BY <1>2, <1>3, <1>4

\* The path length is a natural number, whatever the two points.
LEMMA PathLengthType ==
    ASSUME NEW sx \in Int, NEW sy \in Int, NEW tx \in Int, NEW ty \in Int
    PROVE  PathLength(sx, sy, tx, ty) \in Nat
<1> DEFINE n == (tx - sx) * (tx - sx) + (ty - sy) * (ty - sy)
           R == {r \in 1..n : r * r <= n}
<1>1. n \in Int
    OBVIOUS
<1>2. IsFiniteSet(1..n)
    BY <1>1, FS_Interval
<1>3. IsFiniteSet(R)
    BY <1>2, FS_Subset
<1>4. Cardinality(R) \in Nat
    BY <1>3, FS_CardinalityType
<1>5. QED BY <1>4 DEF PathLength, FloorSqrt

\* Only a move to where the stage already is has no length.
LEMMA ZeroPathLength ==
    ASSUME NEW sx \in Int, NEW sy \in Int, NEW tx \in Int, NEW ty \in Int,
           PathLength(sx, sy, tx, ty) = 0
    PROVE  tx = sx /\ ty = sy
<1> DEFINE dx == tx - sx
           dy == ty - sy
           n == dx * dx + dy * dy
           R == {r \in 1..n : r * r <= n}
<1>1. dx \in Int /\ dy \in Int /\ n \in Int /\ dx * dx >= 0 /\ dy * dy >= 0
    OBVIOUS
<1>2. IsFiniteSet(R)
    <2>1. IsFiniteSet(1..n)
        BY <1>1, FS_Interval
    <2>2. QED BY <2>1, FS_Subset
<1>3. Cardinality(R) = 0
    BY DEF PathLength, FloorSqrt
<1>4. R = {}
    BY <1>2, <1>3, FS_EmptySet
<1>5. ~(n >= 1)
    <2>1. SUFFICES ASSUME n >= 1 PROVE FALSE
        OBVIOUS
    <2>2. 1 \in R
        BY <2>1, <1>1
    <2>3. QED BY <2>2, <1>4
<1>6. dx * dx = 0 /\ dy * dy = 0
    BY <1>1, <1>5
<1>7. dx = 0 /\ dy = 0
    BY <1>1, <1>6
<1>8. QED BY <1>7

\* The stage starts in its type.
LEMMA MotionInitType == MotionInit \in MotionType
BY StageAssumption DEF MotionInit, MotionType, MotionStates

\* Ending a move keeps the type whatever state it ends in.
LEMMA HaltedType ==
    ASSUME NEW m \in MotionType, NEW s \in MotionStates
    PROVE  Halted(m, s) \in MotionType
<1>1. 0 \in 0..(UINT_MOD - 1) /\ 0 \in 0..(MS_PER_S - 1) /\ 0 \in Nat
    BY StageAssumption
<1>2. QED BY <1>1 DEF Halted, MotionType

\* Snapping onto the target keeps the type.
LEMMA FinishMoveType ==
    ASSUME NEW m \in MotionType
    PROVE  /\ FinishMove(m) \in MotionType
           /\ FinishMove(m).state = "DONE"
<1> DEFINE at == [m EXCEPT !.x = m.target_x, !.y = m.target_y]
<1>1. at \in MotionType
    BY DEF MotionType
<1>2. "DONE" \in MotionStates
    BY DEF MotionStates
<1>3. Halted(at, "DONE") \in MotionType
    BY <1>1, <1>2, HaltedType
<1>4. Halted(at, "DONE").state = "DONE"
    BY <1>1 DEF Halted, MotionType
<1>5. QED BY <1>3, <1>4 DEF FinishMove

\* A move to a target in bounds keeps the type, does not enter FAULT and does not
\* displace the stage, not even a move of no length that ends at once.
LEMMA StartMoveType ==
    ASSUME NEW m \in MotionType, NEW tx \in 0..MAX_X, NEW ty \in 0..MAX_Y,
           NEW f \in 0..(UINT_MOD - 1)
    PROVE  /\ StartMove(m, tx, ty, f) \in MotionType
           /\ StartMove(m, tx, ty, f).x = m.x /\ StartMove(m, tx, ty, f).y = m.y
           /\ ~AcceptsMove(m, f) => StartMove(m, tx, ty, f) = m
           /\ AcceptsMove(m, f) => StartMove(m, tx, ty, f).state \in {"MOVING", "DONE"}
<1> DEFINE len   == PathLength(m.x, m.y, tx, ty)
           begun == [m EXCEPT !.start_x = m.x, !.start_y = m.y,
                              !.target_x = tx, !.target_y = ty,
                              !.feedrate = f, !.path_length = len,
                              !.distance_traveled = 0, !.remainder = 0]
<1>0. m.x \in Int /\ m.y \in Int /\ tx \in Int /\ ty \in Int
    BY StageAssumption DEF MotionType
<1>1. len \in Nat
    BY <1>0, PathLengthType
<1> HIDE DEF len
<1>2. begun \in MotionType
    <2>1. 0 \in 0..(MS_PER_S - 1) /\ 0 \in Nat
        BY StageAssumption
    <2>2. QED BY <1>1, <2>1 DEF MotionType
<1>3. CASE ~AcceptsMove(m, f)
    BY <1>3 DEF StartMove
<1>4. CASE AcceptsMove(m, f) /\ len = 0
    <2>1. StartMove(m, tx, ty, f) = FinishMove(begun)
        BY <1>4 DEF StartMove, len
    <2>2. FinishMove(begun).x = tx /\ FinishMove(begun).y = ty
        BY <1>2 DEF FinishMove, Halted, MotionType
    <2>3. tx = m.x /\ ty = m.y
        BY <1>0, <1>4, ZeroPathLength DEF len
    <2>4. QED BY <1>2, <1>4, <2>1, <2>2, <2>3, FinishMoveType
<1>5. CASE AcceptsMove(m, f) /\ len # 0
    <2>1. StartMove(m, tx, ty, f) = [begun EXCEPT !.state = "MOVING"]
        BY <1>5 DEF StartMove, len
    <2>2. "MOVING" \in MotionStates
        BY DEF MotionStates
    <2>3. [begun EXCEPT !.state = "MOVING"] \in MotionType
        BY <1>2, <2>2 DEF MotionType
    <2>4. /\ [begun EXCEPT !.state = "MOVING"].state = "MOVING"
          /\ [begun EXCEPT !.state = "MOVING"].x = m.x
          /\ [begun EXCEPT !.state = "MOVING"].y = m.y
        BY DEF MotionType
    <2>5. QED BY <1>5, <2>1, <2>3, <2>4
<1>6. QED BY <1>3, <1>4, <1>5

\* A tick of any length keeps the type: the position stays in the travel range.
LEMMA UpdateType ==
    ASSUME NEW m \in MotionType, NEW delta \in Nat
    PROVE  /\ Update(m, delta) \in MotionType
           /\ m.state # "MOVING" => Update(m, delta) = m
           /\ m.state = "MOVING" => Update(m, delta).state \in {"MOVING", "DONE"}
<1> DEFINE n       == DistanceNumerator(m, delta)
           step    == DistanceStep(m, delta)
           carried == [m EXCEPT !.remainder = n % MS_PER_S]
           far     == (m.distance_traveled + step) % UINT_MOD
           px == InterpolatePosition(m.start_x, m.target_x, far, m.path_length)
           py == InterpolatePosition(m.start_y, m.target_y, far, m.path_length)
           moved   == [carried EXCEPT !.distance_traveled = far, !.x = px, !.y = py]
<1>1. n \in Nat
    <2>1. m.feedrate \in Nat /\ m.remainder \in Nat
        BY StageAssumption DEF MotionType
    <2>2. QED BY <2>1 DEF DistanceNumerator
<1>2. step \in Nat
    <2>1. n \div MS_PER_S \in Int
        BY <1>1, StageAssumption
    <2>2. QED BY <2>1, StageAssumption DEF DistanceStep
<1>3. n % MS_PER_S \in 0..(MS_PER_S - 1)
    BY <1>1, StageAssumption
<1>4. far \in Nat
    <2>1. m.distance_traveled + step \in Nat
        BY <1>2 DEF MotionType
    <2>2. QED BY <2>1, StageAssumption
<1> HIDE DEF n, step, far
<1>5. carried \in MotionType /\ carried.state = m.state
    BY <1>3 DEF MotionType
<1>6. CASE m.state # "MOVING" \/ delta = 0
    BY <1>6 DEF Update
<1>7. CASE m.state = "MOVING" /\ delta # 0 /\ step = 0
    <2>1. Update(m, delta) = carried
        BY <1>7 DEF Update, n, step
    <2>2. QED BY <1>5, <1>7, <2>1
<1>8. CASE m.state = "MOVING" /\ delta # 0 /\ step # 0 /\ far >= m.path_length
    <2>1. Update(m, delta) = FinishMove(m)
        BY <1>8 DEF Update, n, step, far
    <2>2. QED BY <1>8, <2>1, FinishMoveType
<1>9. CASE m.state = "MOVING" /\ delta # 0 /\ step # 0 /\ ~(far >= m.path_length)
    <2>1. Update(m, delta) = moved
        BY <1>9 DEF Update, n, step, far
    <2>2. m.path_length \in Nat /\ far < m.path_length
        BY <1>4, <1>9 DEF MotionType
    <2>3. px \in 0..MAX_X
        BY <1>4, <2>2, InterpolateInRange, StageAssumption DEF MotionType
    <2>4. py \in 0..MAX_Y
        BY <1>4, <2>2, InterpolateInRange, StageAssumption DEF MotionType
    <2> HIDE DEF px, py, carried
    <2>5. moved \in MotionType /\ moved.state = carried.state
        BY <1>4, <1>5, <2>3, <2>4 DEF MotionType
    <2>6. QED BY <1>5, <1>9, <2>1, <2>5
<1>10. QED BY <1>6, <1>7, <1>8, <1>9

\* Ending a move on the spot keeps the type and the position.
LEMMA HoldPositionType ==
    ASSUME NEW m \in MotionType, NEW s \in MotionStates
    PROVE  /\ HoldPosition(m, s) \in MotionType
           /\ HoldPosition(m, s).x = m.x /\ HoldPosition(m, s).y = m.y
           /\ HoldPosition(m, s).state = s
<1> DEFINE here == [m EXCEPT !.target_x = m.x, !.target_y = m.y]
<1>1. here \in MotionType /\ here.x = m.x /\ here.y = m.y
    BY DEF MotionType
<1>2. Halted(here, s) \in MotionType
    BY <1>1, HaltedType
<1>3. /\ Halted(here, s).x = here.x /\ Halted(here, s).y = here.y
      /\ Halted(here, s).state = s
    BY <1>1 DEF Halted, MotionType
<1>4. QED BY <1>1, <1>2, <1>3 DEF HoldPosition

\* A stop keeps the type and never leaves the stage moving.
LEMMA StopType ==
    ASSUME NEW m \in MotionType
    PROVE  /\ Stop(m) \in MotionType
           /\ Stop(m).x = m.x /\ Stop(m).y = m.y
           /\ Stop(m).state = IF m.state = "FAULT" THEN "FAULT" ELSE "STOPPED"
BY HoldPositionType DEF Stop, MotionStates

\* A fault keeps the type and the position, and the state is FAULT.
LEMMA SetFaultType ==
    ASSUME NEW m \in MotionType
    PROVE  /\ SetFault(m) \in MotionType
           /\ SetFault(m).x = m.x /\ SetFault(m).y = m.y
           /\ SetFault(m).state = "FAULT"
BY HoldPositionType DEF SetFault, MotionStates

\* Clearing a fault keeps the type and the position, and leaves FAULT.
LEMMA ClearFaultType ==
    ASSUME NEW m \in MotionType
    PROVE  /\ ClearFault(m) \in MotionType
           /\ ClearFault(m).x = m.x /\ ClearFault(m).y = m.y
           /\ ClearFault(m).state = IF m.state = "FAULT" THEN "IDLE" ELSE m.state
BY DEF ClearFault, MotionType, MotionStates
===============================================================================
