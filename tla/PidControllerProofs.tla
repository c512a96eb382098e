-------------------------- MODULE PidControllerProofs --------------------------
(***************************************************************************)
(* The controller keeps its integral and its output within the limits and  *)
(* does not wind up, for every set of configurations, of garbage, of       *)
(* signals and of times.  The doubles are PidController's: integers and    *)
(* NaN, without rounding or infinities.  Nothing is promised of a          *)
(* controller that has been given a NaN, so the inductive invariant first  *)
(* says where no NaN is.                                                   *)
(***************************************************************************)
EXTENDS PidController, TLAPS

-----------------------------------------------------------------------------
(* Arithmetic with NaN.                                                    *)

\* On doubles that are numbers the operators are those of the integers.
LEMMA Numeric ==
    ASSUME NEW a \in Int, NEW b \in Int
    PROVE  /\ a \in Double /\ a # NaN
           /\ Less(a, b) <=> a < b
           /\ LessEq(a, b) <=> a <= b
           /\ Plus(a, b) = a + b
           /\ Minus(a, b) = a - b
           /\ Product(a, b) = a * b
           /\ b > 0 => Over(a, b) = a \div b /\ Over(a, b) \in Int
BY PidAssumption DEF Double, Less, LessEq, Plus, Minus, Product, Over

\* No operator leaves the doubles; a quotient has a divisor the guard lets pass.
LEMMA DoubleClosed ==
    ASSUME NEW a \in Double, NEW b \in Double
    PROVE  /\ Plus(a, b) \in Double
           /\ Minus(a, b) \in Double
           /\ Product(a, b) \in Double
           /\ ~LessEq(b, 0) => Over(a, b) \in Double
<1>1. CASE NaN \in {a, b}
    BY <1>1 DEF Double, Plus, Minus, Product, Over
<1>2. CASE NaN \notin {a, b}
    <2>1. a \in Int /\ b \in Int
        BY <1>2 DEF Double
    <2>2. 0 # NaN
        BY PidAssumption
    <2>3. ~LessEq(b, 0) => b > 0
        BY <1>2, <2>1, <2>2 DEF LessEq
    <2>4. a + b \in Int /\ a - b \in Int /\ a * b \in Int /\ (b > 0 => a \div b \in Int)
        BY <2>1
    <2>5. QED BY <1>2, <2>3, <2>4 DEF Double, Plus, Minus, Product, Over
<1>3. QED BY <1>1, <1>2

\* Limits in order are numbers.
LEMMA LimitsAreNumbers ==
    ASSUME NEW lo \in Double, NEW hi \in Double, LessEq(lo, hi)
    PROVE  lo \in Int /\ hi \in Int /\ lo <= hi
BY DEF Double, LessEq

\* A clamp returns one of its arguments.
LEMMA ClampClosed ==
    ASSUME NEW v \in Double, NEW lo \in Double, NEW hi \in Double
    PROVE  Clamp(v, lo, hi) \in Double
BY DEF Clamp

\* A number clamped to limits in order is between them, and itself if it was.
LEMMA ClampNumber ==
    ASSUME NEW v \in Int, NEW lo \in Int, NEW hi \in Int, lo <= hi
    PROVE  /\ Clamp(v, lo, hi) \in lo..hi
           /\ Clamp(v, lo, hi) = IF v < lo THEN lo ELSE IF hi < v THEN hi ELSE v
BY PidAssumption DEF Clamp, Less

-----------------------------------------------------------------------------
(* The inductive invariant.                                                *)

\* A controller that was initialised and has seen no NaN since holds none.
NumbersInside ==
    ready /\ ~tainted => controller.previous_error \in Int /\ controller.integral \in Int

PidInv ==
    /\ TypeOK
    /\ NumbersInside
    /\ IntegralInRange
    /\ OutputInRange

\* A configuration that is accepted has limits that are numbers, in order.
LEMMA OrderedLimits ==
    ASSUME TypeOK, ready
    PROVE  /\ controller.config.output_min \in Int
           /\ controller.config.output_max \in Int
           /\ controller.config.output_min <= controller.config.output_max
           /\ controller.config.integral_min \in Int
           /\ controller.config.integral_max \in Int
           /\ controller.config.integral_min <= controller.config.integral_max
BY LimitsAreNumbers DEF TypeOK, Controller, Config

\* An update that keeps the controller untainted was given numbers.
LEMMA UntaintedInputs ==
    ASSUME NEW setpoint \in Signals, NEW measurement \in Signals, NEW dt \in Times,
           Update(setpoint, measurement, dt), ~tainted', TypeOK
    PROVE  /\ ~tainted
           /\ setpoint \in Int /\ measurement \in Int
           /\ dt \in Int /\ dt > 0
<1>1. ~tainted /\ NaN \notin {setpoint, measurement, dt}
    BY DEF Update, TypeOK
<1>2. setpoint \in Int /\ measurement \in Int /\ dt \in Int
    BY <1>1, PidAssumption DEF Double
<1>3. dt > 0
    BY <1>2, Numeric DEF Update
<1>4. QED BY <1>1, <1>2, <1>3

\* The integral an update of numbers leaves, and what it computed the output of.
LEMMA UntaintedUpdate ==
    ASSUME NEW setpoint \in Signals, NEW measurement \in Signals, NEW dt \in Times,
           Update(setpoint, measurement, dt), ~tainted', PidInv, ready
    PROVE  LET c == controller.config
               error == setpoint - measurement
               sum == controller.integral + error * dt
           IN  /\ error \in Int /\ sum \in Int
               /\ controller'.config = c
               /\ controller'.previous_error = error
               /\ controller'.integral = Clamp(sum, c.integral_min, c.integral_max)
               /\ controller'.integral \in c.integral_min..c.integral_max
<1> DEFINE c == controller.config
           error == setpoint - measurement
           sum == controller.integral + error * dt
<1>1. /\ setpoint \in Int /\ measurement \in Int /\ dt \in Int
      /\ controller.integral \in Int
    BY UntaintedInputs DEF PidInv, NumbersInside
<1>2. error \in Int /\ Minus(setpoint, measurement) = error
    BY <1>1, Numeric
<1>3. error * dt \in Int /\ Product(error, dt) = error * dt
    BY <1>1, <1>2, Numeric
<1>4. sum \in Int /\ Plus(controller.integral, error * dt) = sum
    <2> DEFINE product == error * dt
    <2>1. product \in Int
        BY <1>3
    <2> HIDE DEF product
    <2>2. /\ controller.integral + product \in Int
          /\ Plus(controller.integral, product) = controller.integral + product
        BY <1>1, <2>1, PidAssumption DEF Plus
    <2>3. QED BY <2>2 DEF product
<1>5. Accumulated(error, dt) = Clamp(sum, c.integral_min, c.integral_max)
    BY <1>3, <1>4 DEF Accumulated
<1>6. /\ controller'.config = c
      /\ controller'.previous_error = error
      /\ controller'.integral = Accumulated(error, dt)
    BY <1>2 DEF Update, PidInv, TypeOK, Controller
<1>7. Clamp(sum, c.integral_min, c.integral_max) \in c.integral_min..c.integral_max
    BY <1>4, OrderedLimits, ClampNumber DEF PidInv
<1>8. QED BY <1>2, <1>4, <1>5, <1>6, <1>7

\* With gains that are numbers, so is the sum of the three terms.
LEMMA TermsNumber ==
    ASSUME NEW c \in Config, NaN \notin {c.kp, c.ki, c.kd},
           NEW e \in Int, NEW i \in Int, NEW d \in Int
    PROVE  Terms(c, e, i, d) \in Int
<1>1. c.kp \in Int /\ c.ki \in Int /\ c.kd \in Int
    BY DEF Config, Double
<1> DEFINE p == c.kp * e
           q == c.ki * i
           r == c.kd * d
<1>2. p \in Int /\ q \in Int /\ r \in Int
    BY <1>1
<1>3. Product(c.kp, e) = p /\ Product(c.ki, i) = q /\ Product(c.kd, d) = r
    BY <1>1, Numeric
<1> HIDE DEF p, q, r
<1>4. Plus(p, q) = p + q /\ p + q \in Int
    BY <1>2, Numeric
<1>5. Plus(p + q, r) = (p + q) + r /\ (p + q) + r \in Int
    BY <1>2, <1>4, Numeric
<1>6. QED BY <1>3, <1>4, <1>5 DEF Terms

\* An update leaves a typed controller with the configuration it had.
LEMMA UpdateType ==
    ASSUME NEW setpoint \in Signals, NEW measurement \in Signals, NEW dt \in Times,
           Update(setpoint, measurement, dt), TypeOK
    PROVE  TypeOK'
<1> DEFINE error == Minus(setpoint, measurement)
<1>1. setpoint \in Double /\ measurement \in Double /\ dt \in Double
    BY PidAssumption
<1>2. /\ controller \in Controller
      /\ controller.config \in Config
      /\ controller.integral \in Double /\ controller.previous_error \in Double
    BY DEF TypeOK, Controller
<1>3. error \in Double /\ Product(error, dt) \in Double
    BY <1>1, DoubleClosed
<1>4. Plus(controller.integral, Product(error, dt)) \in Double
    BY <1>2, <1>3, DoubleClosed
<1>5. Accumulated(error, dt) \in Double
    BY <1>2, <1>4, ClampClosed DEF Accumulated, Config
<1>6. /\ controller' = [controller EXCEPT !.integral = Accumulated(error, dt),
                                          !.previous_error = error]
      /\ ~LessEq(dt, 0)
    BY DEF Update
<1>7. /\ controller' \in Controller
      /\ controller'.config = controller.config
      /\ controller'.initialized = controller.initialized
      /\ controller'.integral \in Double
    BY <1>2, <1>3, <1>5, <1>6 DEF Controller
<1>8. output' \in Double
    <2> DEFINE d == Over(Minus(error, controller.previous_error), dt)
               k == controller.config
    <2>1. d \in Double
        BY <1>1, <1>2, <1>3, <1>6, DoubleClosed
    <2>2. k.kp \in Double /\ k.ki \in Double /\ k.kd \in Double
          /\ k.output_min \in Double /\ k.output_max \in Double
        BY <1>2 DEF Config
    <2> HIDE DEF error, d
    <2>3. /\ Product(k.kp, error) \in Double
          /\ Product(k.ki, controller'.integral) \in Double
          /\ Product(k.kd, d) \in Double
        BY <1>3, <1>7, <2>1, <2>2, DoubleClosed
    <2>4. Terms(k, error, controller'.integral, d) \in Double
        BY <2>3, DoubleClosed DEF Terms
    <2>5. output' = Clamp(Terms(k, error, controller'.integral, d), k.output_min, k.output_max)
        BY DEF Update, error, d
    <2>6. QED BY <2>2, <2>4, <2>5, ClampClosed
<1>9. /\ ready' = ready /\ accepted' = accepted
      /\ fresh' \in BOOLEAN /\ tainted' \in BOOLEAN
    BY DEF Update, TypeOK
<1>10. QED BY <1>7, <1>8, <1>9 DEF TypeOK

\* An update keeps the invariant.
LEMMA UpdateKeeps ==
    ASSUME NEW setpoint \in Signals, NEW measurement \in Signals, NEW dt \in Times,
           Update(setpoint, measurement, dt), PidInv
    PROVE  PidInv'
<1>1. TypeOK'
    BY UpdateType DEF PidInv
<1>2. ready' = ready /\ fresh' = FALSE
    BY DEF Update
<1>3. CASE ~ready \/ tainted'
    BY <1>1, <1>2, <1>3 DEF PidInv, NumbersInside, IntegralInRange, OutputInRange
<1>4. CASE ready /\ ~tainted'
    <2> DEFINE k == controller.config
               error == setpoint - measurement
    <2>1. /\ error \in Int
          /\ controller'.config = k
          /\ controller'.previous_error = error
          /\ controller'.integral \in k.integral_min..k.integral_max
        BY <1>4, UntaintedUpdate
    <2>2. /\ k.output_min \in Int /\ k.output_max \in Int /\ k.output_min <= k.output_max
          /\ k.integral_min \in Int /\ k.integral_max \in Int
        BY <1>4, OrderedLimits DEF PidInv
    <2>3. controller'.integral \in Int
        BY <2>1, <2>2
    <2>4. NumbersInside' /\ IntegralInRange'
        BY <2>1, <2>2, <2>3, Numeric DEF NumbersInside, IntegralInRange
    <2>5. ASSUME NaN \notin {k.kp, k.ki, k.kd}
          PROVE  LessEq(k.output_min, output') /\ LessEq(output', k.output_max)
        <3> DEFINE d == Over(Minus(error, controller.previous_error), dt)
        <3>1. /\ setpoint \in Int /\ measurement \in Int /\ dt \in Int /\ dt > 0
              /\ controller.previous_error \in Int
            BY <1>4, UntaintedInputs DEF PidInv, NumbersInside
        <3>2. Minus(setpoint, measurement) = error
            BY <3>1, Numeric
        <3>3. d \in Int
            <4> HIDE DEF error
            <4> DEFINE change == error - controller.previous_error
            <4>1. Minus(error, controller.previous_error) = change /\ change \in Int
                BY <2>1, <3>1, PidAssumption DEF Minus
            <4> HIDE DEF change
            <4>2. QED BY <3>1, <4>1, Numeric
        <3>4. k \in Config
            BY DEF PidInv, TypeOK, Controller
        <3>5. Terms(k, error, controller'.integral, d) \in Int
            BY <2>1, <2>3, <2>5, <3>3, <3>4, TermsNumber
        <3>6. output' = Clamp(Terms(k, error, controller'.integral, d), k.output_min, k.output_max)
            BY <3>2 DEF Update
        <3>7. output' \in k.output_min..k.output_max
            BY <2>2, <3>5, <3>6, ClampNumber
        <3>8. QED BY <2>2, <3>7, Numeric
    <2>6. OutputInRange'
        BY <2>1, <2>5 DEF OutputInRange
    <2>7. QED BY <1>1, <2>4, <2>6 DEF PidInv
<1>5. QED BY <1>3, <1>4

\* An init keeps the invariant: one that is refused changes nothing.
LEMMA InitKeeps ==
    ASSUME NEW config \in Configs, CallInit(config), PidInv
    PROVE  PidInv'
<1>1. CASE ConfigIsValid(config)
    <2>1. /\ controller' = [config |-> config, previous_error |-> 0,
                            integral |-> 0, initialized |-> TRUE]
          /\ accepted' = config /\ output' = output
          /\ ready' = TRUE /\ fresh' = TRUE /\ tainted' = FALSE
        BY <1>1 DEF CallInit
    <2>2. config \in Config /\ 0 \in Double
        BY PidAssumption DEF Double
    <2>3. controller' \in Controller
        BY <2>1, <2>2 DEF Controller
    <2>4. /\ controller'.config = config /\ controller'.initialized
          /\ controller'.previous_error = 0 /\ controller'.integral = 0
        BY <2>1
    <2>5. TypeOK'
        BY <1>1, <2>1, <2>3, <2>4 DEF PidInv, TypeOK, ConfigIsValid
    <2>6. QED BY <2>1, <2>4, <2>5 DEF PidInv, NumbersInside, IntegralInRange, OutputInRange
<1>2. CASE ~ConfigIsValid(config)
    BY <1>2 DEF CallInit, PidInv, TypeOK, NumbersInside, IntegralInRange, OutputInRange
<1>3. QED BY <1>1, <1>2

\* A reset keeps the invariant; it leaves a zero the range may exclude.
LEMMA ResetKeeps == PidInv /\ CallReset => PidInv'
<1> SUFFICES ASSUME PidInv, CallReset PROVE PidInv'
    OBVIOUS
<1>1. /\ controller' = [controller EXCEPT !.previous_error = 0, !.integral = 0]
      /\ fresh' = TRUE /\ tainted' = FALSE
      /\ UNCHANGED <<output, accepted, ready>>
    BY DEF CallReset
<1>2. controller \in Controller /\ 0 \in Double
    BY DEF PidInv, TypeOK, Double
<1>3. /\ controller' \in Controller
      /\ controller'.config = controller.config
      /\ controller'.initialized = controller.initialized
      /\ controller'.previous_error = 0 /\ controller'.integral = 0
    BY <1>1, <1>2 DEF Controller
<1>4. TypeOK'
    BY <1>1, <1>3 DEF PidInv, TypeOK
<1>5. QED BY <1>1, <1>3, <1>4 DEF PidInv, NumbersInside, IntegralInRange, OutputInRange

\* No call breaks the invariant.
LEMMA PidNext == PidInv /\ [Next]_vars => PidInv'
<1>1. ASSUME PidInv, UNCHANGED vars PROVE PidInv'
    BY <1>1 DEF vars, PidInv, TypeOK, NumbersInside, IntegralInRange, OutputInRange
<1>2. QED BY <1>1, InitKeeps, ResetKeeps, UpdateKeeps DEF Next

\* The invariant holds of a struct on the stack that holds anything.
LEMMA PidStarts == Init => PidInv
<1> SUFFICES ASSUME Init PROVE PidInv
    OBVIOUS
<1>1. controller \in Controller
    BY PidAssumption DEF Init
<1>2. /\ ready = FALSE /\ fresh = FALSE /\ tainted = TRUE
      /\ accepted = controller.config /\ output \in Double
    BY DEF Init, Double
<1>3. QED
    BY <1>1, <1>2 DEF PidInv, TypeOK, NumbersInside, IntegralInRange, OutputInRange

\* The calls keep the invariant.
LEMMA PidCorrect == Spec => []PidInv
BY PidStarts, PidNext, PTL DEF Spec

-----------------------------------------------------------------------------
(* The theorems.                                                           *)

\* After an init the limits are numbers and in order and the configuration is the
\* last one accepted, whatever is refused later and whatever the struct held before.
THEOREM LimitsStayOrdered == Spec => []TypeOK
<1>1. PidInv => TypeOK
    BY DEF PidInv
<1>2. QED BY <1>1, PidCorrect, PTL

\* No error, however long it lasts, accumulates beyond the integral's limits.
THEOREM IntegralStaysInRange == Spec => []IntegralInRange
<1>1. PidInv => IntegralInRange
    BY DEF PidInv
<1>2. QED BY <1>1, PidCorrect, PTL

\* With gains that are numbers no update stores an output beyond its limits.
THEOREM OutputStaysInRange == Spec => []OutputInRange
<1>1. PidInv => OutputInRange
    BY DEF PidInv
<1>2. QED BY <1>1, PidCorrect, PTL

\* What an update makes of an integral that is in its range already.
LEMMA LeavesTheLimit ==
    ASSUME PidInv, NEW setpoint \in Signals, NEW measurement \in Signals,
           NEW dt \in Times, Update(setpoint, measurement, dt),
           ready, ~fresh, ~tainted'
    PROVE  LET c == controller.config
           IN  /\ setpoint < measurement /\ c.integral_min < InUse(controller) =>
                     InUse(controller') < InUse(controller)
               /\ setpoint > measurement /\ InUse(controller) < c.integral_max =>
                     InUse(controller) < InUse(controller')
<1> DEFINE k == controller.config
           lo == k.integral_min
           hi == k.integral_max
           i == controller.integral
           error == setpoint - measurement
           sum == i + error * dt
<1>1. /\ ~tainted /\ setpoint \in Int /\ measurement \in Int /\ dt \in Int /\ dt > 0
    BY UntaintedInputs DEF PidInv
<1>2. lo \in Int /\ hi \in Int /\ lo <= hi
    BY OrderedLimits DEF PidInv
<1>3. i \in Int /\ lo <= i /\ i <= hi
    BY <1>1, <1>2, Numeric DEF PidInv, NumbersInside, IntegralInRange
<1>4. /\ error \in Int /\ sum \in Int
      /\ controller'.config = k
      /\ controller'.integral = Clamp(sum, lo, hi)
      /\ controller'.integral \in lo..hi
    BY UntaintedUpdate
<1>5. InUse(controller) = i /\ InUse(controller') = Clamp(sum, lo, hi)
    <2>0. ASSUME NEW n \in Int, lo <= n, n <= hi
          PROVE  Clamp(n, lo, hi) = n
        <3> HIDE DEF lo, hi
        <3>1. Clamp(n, lo, hi) = IF n < lo THEN lo ELSE IF hi < n THEN hi ELSE n
            BY <1>2, ClampNumber
        <3>2. QED BY <1>2, <2>0, <3>1
    <2>1. Clamp(i, lo, hi) = i
        BY <1>3, <2>0
    <2>2. controller'.integral \in Int /\ lo <= controller'.integral /\ controller'.integral <= hi
        BY <1>2, <1>4
    <2>3. Clamp(controller'.integral, lo, hi) = controller'.integral
        BY <2>0, <2>2
    <2>4. QED BY <1>4, <2>1, <2>3 DEF InUse
<1>6. Clamp(sum, lo, hi) = IF sum < lo THEN lo ELSE IF hi < sum THEN hi ELSE sum
    BY <1>2, <1>4, ClampNumber
<1>7. (error < 0 => error * dt < 0) /\ (error > 0 => error * dt > 0) /\ error * dt \in Int
    BY <1>1, <1>4
<1>8. /\ setpoint < measurement => sum < i
      /\ setpoint > measurement => sum > i
    <2>1. (setpoint < measurement => error < 0) /\ (setpoint > measurement => error > 0)
        BY <1>1
    <2> HIDE DEF error
    <2>2. QED BY <1>3, <1>7, <2>1
<1> HIDE DEF sum
<1>9. QED BY <1>2, <1>3, <1>4, <1>5, <1>6, <1>8

\* There is no wind-up: an error of the other sign takes the integral off its limit
\* at once, however long it was held there.
THEOREM NeverWindsUp == Spec => NoWindup
<1>1. PidInv /\ [Next]_vars =>
        [ \A setpoint, measurement \in Signals, dt \in Times :
          Update(setpoint, measurement, dt) /\ ready /\ ~fresh /\ ~tainted' =>
            LET c == controller.config
            IN  /\ setpoint < measurement /\ c.integral_min < InUse(controller) =>
                      InUse(controller') < InUse(controller)
                /\ setpoint > measurement /\ InUse(controller) < c.integral_max =>
                      InUse(controller) < InUse(controller')
        ]_vars
    BY LeavesTheLimit
<1>2. QED BY <1>1, PidCorrect, PTL DEF Spec, NoWindup
===============================================================================
