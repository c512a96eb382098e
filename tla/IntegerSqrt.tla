------------------------------ MODULE IntegerSqrt ------------------------------
(***************************************************************************)
(* The square root of motion_controller.c twice: by its value, which is    *)
(* what the motion arithmetic and its proofs use, and by the loop over the *)
(* bits of motion_isqrt_u64 that computes it.                              *)
(***************************************************************************)
EXTENDS Integers, FiniteSets

\* There are as many positive numbers whose square is at most n as the root of
\* n rounded down.
FloorSqrt(n) == Cardinality({r \in 1..n : r * r <= n})

\* Mutant: a number that is a square falls just short.
RootStepStrict(s, bit) ==
    IF s.value > s.result + bit
    THEN [value |-> s.value - (s.result + bit), result |-> s.result \div 2 + bit]
    ELSE [s EXCEPT !.result = s.result \div 2]

\* One round of the loop, for one bit.
RootStep(s, bit) ==
    IF s.value >= s.result + bit
    THEN [value |-> s.value - (s.result + bit), result |-> s.result \div 2 + bit]
    ELSE [s EXCEPT !.result = s.result \div 2]

\* The powers of four up to the n-th: bit at its start, 1 << 62, and all that
\* the shifts by two make of it.
PowersOfFour(n) ==
    LET power[k \in 0..n] == IF k = 0 THEN 1 ELSE 4 * power[k - 1]
    IN  power

\* The rounds for the bits from the first on down to one.
RootLoop(value, bit, first) ==
    LET loop[i \in 0..first] ==
            IF i = 0 THEN [value |-> value, result |-> 0]
            ELSE RootStep(loop[i - 1], bit[first - i])
    IN  loop

\* The whole function: the loop begins with the largest bit that is not above
\* the value; 32 of them fit a uint64_t.
Isqrt(value, bits) ==
    LET bit   == PowersOfFour(bits)
        first == Cardinality({k \in 0..(bits - 1) : bit[k] <= value})
    IN  RootLoop(value, bit, first)[first].result
===============================================================================
