----------------------------- MODULE PidController -----------------------------
(***************************************************************************)
(* pid_controller.c.  A double is an integer number of small units or NaN; *)
(* rounding is left out, the rules of NaN are kept: every comparison with  *)
(* it is false and every sum or product with it is NaN again.              *)
(***************************************************************************)
EXTENDS Integers

CONSTANTS
    NaN,
    Configs,        \* the configurations pid_controller_init is called with
    Garbage,        \* what a controller nobody initialised may hold
    Signals,        \* setpoints and measurements
    Times           \* the dt_seconds of the updates

Double == Int \cup {NaN}

Config ==
    [kp : Double, ki : Double, kd : Double, output_min : Double, output_max : Double,
     integral_min : Double, integral_max : Double]

Controller ==
    [config : Config, previous_error : Double, integral : Double, initialized : BOOLEAN]

ASSUME PidAssumption ==
    /\ NaN \notin Int
    /\ Configs \subseteq Config
    /\ Garbage \subseteq Controller
    /\ Signals \subseteq Double
    /\ Times \subseteq Double

VARIABLES
    controller,     \* the caller's pid_controller_t
    output,         \* what the last successful update stored
    accepted,       \* history: the configuration of the last init that succeeded
    ready,          \* history: an init has succeeded
    fresh,          \* history: no update has succeeded since init or reset
    tainted         \* history: an update since then was given a NaN

vars == <<controller, output, accepted, ready, fresh, tainted>>

-----------------------------------------------------------------------------
(* Arithmetic with NaN.                                                    *)

Less(a, b) == a # NaN /\ b # NaN /\ a < b
LessEq(a, b) == a # NaN /\ b # NaN /\ a <= b
Plus(a, b) == IF NaN \in {a, b} THEN NaN ELSE a + b
Minus(a, b) == IF NaN \in {a, b} THEN NaN ELSE a - b
Product(a, b) == IF NaN \in {a, b} THEN NaN ELSE a * b
Over(a, b) == IF NaN \in {a, b} THEN NaN ELSE a \div b

\* Mutant: the upper limit is forgotten.
ClampFromBelow(value, minimum, maximum) ==
    IF Less(value, minimum) THEN minimum ELSE value

\* pid_clamp lets a NaN through: both of its comparisons are false.
Clamp(value, minimum, maximum) ==
    IF Less(value, minimum) THEN minimum
    ELSE IF Less(maximum, value) THEN maximum ELSE value

\* Mutant: only a wrong order is looked for, which a NaN limit does not have.
ConfigIsNotReversed(config) ==
    /\ ~Less(config.output_max, config.output_min)
    /\ ~Less(config.integral_max, config.integral_min)

\* A range with a NaN limit is refused, unlike a NaN gain.
ConfigIsValid(config) ==
    /\ LessEq(config.output_min, config.output_max)
    /\ LessEq(config.integral_min, config.integral_max)

-----------------------------------------------------------------------------
(* The calls.                                                              *)

\* A pid_controller_t on the stack holds anything until it is initialised.
Init ==
    /\ controller \in Garbage
    /\ output = 0
    /\ accepted = controller.config
    /\ ready = FALSE /\ fresh = FALSE /\ tainted = TRUE

\* Mutant: the configuration is stored before it is looked at.
CallInitStoresFirst(config) ==
    /\ IF ConfigIsValid(config)
       THEN /\ controller' = [config |-> config, previous_error |-> 0,
                              integral |-> 0, initialized |-> TRUE]
            /\ accepted' = config
            /\ ready' = TRUE /\ fresh' = TRUE /\ tainted' = FALSE
       ELSE /\ controller' = [controller EXCEPT !.config = config]
            /\ UNCHANGED <<accepted, ready, fresh, tainted>>
    /\ UNCHANGED output

CallInit(config) ==
    /\ IF ConfigIsValid(config)
       THEN /\ controller' = [config |-> config, previous_error |-> 0,
                              integral |-> 0, initialized |-> TRUE]
            /\ accepted' = config
            /\ ready' = TRUE /\ fresh' = TRUE /\ tainted' = FALSE
       ELSE UNCHANGED <<controller, accepted, ready, fresh, tainted>>
    /\ UNCHANGED output

\* Mutant: the accumulated error survives the reset.
CallResetKeepsIntegral ==
    /\ controller.initialized
    /\ controller' = [controller EXCEPT !.previous_error = 0]
    /\ fresh' = TRUE /\ tainted' = FALSE
    /\ UNCHANGED <<output, accepted, ready>>

CallReset ==
    /\ controller.initialized
    /\ controller' = [controller EXCEPT !.previous_error = 0, !.integral = 0]
    /\ fresh' = TRUE /\ tainted' = FALSE
    /\ UNCHANGED <<output, accepted, ready>>

\* The sum of the three terms, before the clamp.
Terms(config, error, integral, derivative) ==
    Plus(Plus(Product(config.kp, error), Product(config.ki, integral)),
         Product(config.kd, derivative))

Accumulated(error, dt) ==
    Clamp(Plus(controller.integral, Product(error, dt)),
          controller.config.integral_min, controller.config.integral_max)

\* Mutant: the clamp is applied to what is used, not to what is kept.
UpdateWindsUp(setpoint, measurement, dt) ==
    LET error == Minus(setpoint, measurement)
    IN  /\ controller.initialized
        /\ ~LessEq(dt, 0)
        /\ controller' =
             [controller EXCEPT !.integral = Plus(@, Product(error, dt)),
                                !.previous_error = error]
        /\ output' =
             Clamp(Terms(controller.config, error, Accumulated(error, dt),
                         Over(Minus(error, controller.previous_error), dt)),
                   controller.config.output_min, controller.config.output_max)
        /\ fresh' = FALSE
        /\ tainted' = (tainted \/ NaN \in {setpoint, measurement, dt})
        /\ UNCHANGED <<accepted, ready>>

\* A dt that is NaN passes the guard: it is not less than or equal to zero.
Update(setpoint, measurement, dt) ==
    LET error == Minus(setpoint, measurement)
    IN  /\ controller.initialized
        /\ ~LessEq(dt, 0)
        /\ controller' =
             [controller EXCEPT !.integral = Accumulated(error, dt),
                                !.previous_error = error]
        /\ output' =
             Clamp(Terms(controller.config, error, controller'.integral,
                         Over(Minus(error, controller.previous_error), dt)),
                   controller.config.output_min, controller.config.output_max)
        /\ fresh' = FALSE
        /\ tainted' = (tainted \/ NaN \in {setpoint, measurement, dt})
        /\ UNCHANGED <<accepted, ready>>

Next ==
    \/ \E config \in Configs : CallInit(config)
    \/ CallReset
    \/ \E setpoint, measurement \in Signals, dt \in Times :
          Update(setpoint, measurement, dt)

Spec == Init /\ [][Next]_vars

-----------------------------------------------------------------------------
(* Properties.                                                             *)

\* Type invariant.  After an init the limits are numbers and in order, and the
\* configuration in use is, gains and all, the last one that was accepted: one
\* that is refused leaves it in place, and no reset or update touches it.
TypeOK ==
    /\ controller \in Controller
    /\ output \in Double
    /\ ready \in BOOLEAN /\ fresh \in BOOLEAN /\ tainted \in BOOLEAN
    /\ ready => controller.initialized
    /\ controller.config = accepted
    /\ ready => LET c == controller.config
                IN  LessEq(c.output_min, c.output_max)
                    /\ LessEq(c.integral_min, c.integral_max)

\* No error, however long it lasts, accumulates beyond the limits, and a NaN
\* does not outlive a reset or an init.  Only the zero that a reset leaves
\* behind may lie outside the range, until the first update clamps it.
IntegralInRange ==
    ready /\ ~tainted =>
        LET c == controller.config
        IN  \/ /\ LessEq(c.integral_min, controller.integral)
               /\ LessEq(controller.integral, c.integral_max)
            \/ fresh /\ controller.integral = 0

\* With gains that are numbers the output is within its limits after every
\* update, the first one after a reset outside the integral's range included.
OutputInRange ==
    LET c == controller.config
    IN  ready /\ ~tainted /\ ~fresh /\ NaN \notin {c.kp, c.ki, c.kd} =>
            LessEq(c.output_min, output) /\ LessEq(output, c.output_max)

\* There is no wind-up: however long the integral was held at a limit, the first
\* error of the other sign takes what the output is computed from off it.  Only
\* the first update after a reset may spend its error on reaching the range.
InUse(c) == Clamp(c.integral, c.config.integral_min, c.config.integral_max)

NoWindup ==
    [][ \A setpoint, measurement \in Signals, dt \in Times :
          Update(setpoint, measurement, dt) /\ ready /\ ~fresh /\ ~tainted' =>
            LET c == controller.config
            IN  /\ setpoint < measurement /\ c.integral_min < InUse(controller) =>
                      InUse(controller') < InUse(controller)
                /\ setpoint > measurement /\ InUse(controller) < c.integral_max =>
                      InUse(controller) < InUse(controller')
      ]_vars
===============================================================================
