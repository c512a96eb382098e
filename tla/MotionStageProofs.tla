--------------------------- MODULE MotionStageProofs ---------------------------
(***************************************************************************)
(* The stage moves exactly as far as feed rate and time amount to, on the  *)
(* line to its target, and ends on it: for every travel range, integer     *)
(* width, target and feed rate, and every tick whose product does not wrap.*)
(***************************************************************************)
EXTENDS MotionStage, MotionControllerProofs, NaturalsInduction, WellFoundedInduction

-----------------------------------------------------------------------------
(* Induction and recursion over data, by sets and functions: the library's *)
(* theorems take an operator, which no prover can instantiate.             *)

\* Every set of natural numbers that is not empty has a least element.
LEMMA LeastNumber ==
    ASSUME NEW T, T \subseteq Nat, T # {}
    PROVE  \E x \in T : \A y \in T : x <= y
<1> DEFINE R == OpToRel(<, Nat)
<1>1. IsWellFoundedOn(R, Nat)
    BY NatLessThanWellFounded
<1> HIDE DEF R
<1>2. PICK x \in T : \A y \in T : ~(<<y, x>> \in R)
    BY <1>1, WFMin
<1>3. \A y \in T : ~(<<y, x>> \in OpToRel(<, Nat))
    BY <1>2 DEF R
<1>4. \A y \in T : ~(y < x)
    BY <1>3 DEF OpToRel
<1>5. QED BY <1>4

\* Induction up to n, over a set in place of a predicate.
LEMMA InductionUpTo ==
    ASSUME NEW n \in Nat, NEW T, 0 \in T, \A k \in 1..n : k - 1 \in T => k \in T
    PROVE  \A k \in 0..n : k \in T
<1> DEFINE Bad == {k \in 0..n : k \notin T}
<1>1. SUFFICES ASSUME Bad # {} PROVE FALSE
    OBVIOUS
<1>2. PICK x \in Bad : \A y \in Bad : x <= y
    <2>1. Bad \subseteq Nat
        OBVIOUS
    <2> HIDE DEF Bad
    <2>2. QED BY <1>1, <2>1, LeastNumber
<1>3. x \in 1..n /\ x - 1 \in 0..n /\ x - 1 \notin Bad
    BY <1>2
<1>4. QED BY <1>2, <1>3

\* f is defined up to n by recursion: from base on, by the step for each number.
DefinedUpTo(f, n, S, base, step) ==
    /\ f \in [0..n -> S]
    /\ f[0] = base
    /\ \A k \in 1..n : f[k] = step[k][f[k - 1]]

\* Such a function exists.
LEMMA RecursionUpTo ==
    ASSUME NEW n \in Nat, NEW S, NEW base \in S, NEW step \in [1..n -> [S -> S]]
    PROVE  \E f : DefinedUpTo(f, n, S, base, step)
<1> DEFINE T == {m \in 0..n : \E f : DefinedUpTo(f, m, S, base, step)}
<1>1. 0 \in T
    <2> DEFINE f == [i \in 0..0 |-> base]
    <2>1. f \in [0..0 -> S] /\ f[0] = base /\ \A k \in 1..0 : FALSE
        OBVIOUS
    <2> HIDE DEF f
    <2>2. DefinedUpTo(f, 0, S, base, step)
        BY <2>1 DEF DefinedUpTo
    <2>3. QED BY <2>2
<1>2. ASSUME NEW m \in 1..n, m - 1 \in T PROVE m \in T
    <2>1. PICK f : DefinedUpTo(f, m - 1, S, base, step)
        BY <1>2
    <2> DEFINE g == [i \in 0..m |-> IF i = m THEN step[m][f[m - 1]] ELSE f[i]]
    <2>2. /\ f \in [0..(m - 1) -> S] /\ f[0] = base
          /\ \A k \in 1..(m - 1) : f[k] = step[k][f[k - 1]]
        BY <2>1 DEF DefinedUpTo
    <2>3. f[m - 1] \in S /\ step[m] \in [S -> S]
        BY <2>2
    <2>4. g \in [0..m -> S]
        BY <2>2, <2>3
    <2>5. ASSUME NEW k \in 1..m PROVE g[k] = step[k][g[k - 1]]
        <3>1. CASE k = m
            <4>1. m \in 0..m /\ m - 1 \in 0..m /\ m - 1 # m
                OBVIOUS
            <4>2. QED BY <3>1, <4>1
        <3>2. CASE k # m
            <4>1. k \in 1..(m - 1) /\ k - 1 \in 0..m /\ k - 1 # m
                BY <3>2
            <4>2. QED BY <2>2, <4>1
        <3>3. QED BY <3>1, <3>2
    <2>6. g[0] = base
        BY <2>2
    <2> HIDE DEF g
    <2>7. DefinedUpTo(g, m, S, base, step)
        BY <2>4, <2>5, <2>6 DEF DefinedUpTo
    <2>8. QED BY <2>7
<1> HIDE DEF T
<1>3. \A k \in 0..n : k \in T
    BY <1>1, <1>2, InductionUpTo
<1>4. QED BY <1>3 DEF T

-----------------------------------------------------------------------------
(* The root.                                                               *)

\* The root is the largest number whose square is not above n.
LEMMA RootBounds ==
    ASSUME NEW n \in Nat, NEW k \in Nat
    PROVE  /\ k * k <= n => k <= FloorSqrt(n)
           /\ n < (k + 1) * (k + 1) => FloorSqrt(n) <= k
<1> DEFINE R == {r \in 1..n : r * r <= n}
<1>1. IsFiniteSet(R)
    <2>1. IsFiniteSet(1..n)
        BY FS_Interval
    <2>2. QED BY <2>1, FS_Subset
<1>2. IsFiniteSet(1..k) /\ Cardinality(1..k) = k
    BY FS_Interval
<1>3. ASSUME k * k <= n PROVE k <= Cardinality(R)
    <2>1. ASSUME NEW r \in 1..k PROVE r \in R
        <3>1. r * r <= k * k /\ r <= r * r
            OBVIOUS
        <3>2. QED BY <1>3, <3>1
    <2>2. (1..k) \subseteq R
        BY <2>1
    <2> HIDE DEF R
    <2>3. Cardinality(1..k) <= Cardinality(R)
        BY <1>1, <2>2, FS_Subset
    <2>4. QED BY <1>2, <2>3
<1>4. ASSUME n < (k + 1) * (k + 1) PROVE Cardinality(R) <= k
    <2>1. ASSUME NEW r \in R PROVE r \in 1..k
        <3>1. r \in 1..n /\ r * r < (k + 1) * (k + 1)
            BY <1>4
        <3>2. SUFFICES ASSUME r >= k + 1 PROVE FALSE
            BY <3>1
        <3>3. r * r >= (k + 1) * (k + 1)
            BY <3>1, <3>2
        <3>4. QED BY <3>1, <3>3
    <2>2. R \subseteq 1..k
        BY <2>1
    <2> HIDE DEF R
    <2>3. Cardinality(R) <= Cardinality(1..k)
        BY <1>2, <2>2, FS_Subset
    <2>4. QED BY <1>2, <2>3
<1>5. QED BY <1>3, <1>4 DEF FloorSqrt

\* Every power is four times the one before.
LEMMA PowersStep ==
    ASSUME NEW n \in Nat
    PROVE  /\ PowersOfFour(n) \in [0..n -> Nat \ {0}]
           /\ PowersOfFour(n)[0] = 1
           /\ \A k \in 1..n : PowersOfFour(n)[k] = 4 * PowersOfFour(n)[k - 1]
<1> DEFINE Recursive(f) == f = [k \in 0..n |-> IF k = 0 THEN 1 ELSE 4 * f[k - 1]]
           P == Nat \ {0}
           step == [k \in 1..n |-> [q \in P |-> 4 * q]]
           p == PowersOfFour(n)
<1>1. PICK f : DefinedUpTo(f, n, P, 1, step)
    <2>1. step \in [1..n -> [P -> P]] /\ 1 \in P
        OBVIOUS
    <2> HIDE DEF P, step
    <2>2. QED BY <2>1, RecursionUpTo
<1>2. Recursive(f)
    <2>1. ASSUME NEW k \in 1..n PROVE f[k] = 4 * f[k - 1]
        <3>1. f[k] = step[k][f[k - 1]]
            <4> HIDE DEF step, P
            <4>1. QED BY <1>1 DEF DefinedUpTo
        <3>2. f[k - 1] \in P
            <4> HIDE DEF step, P
            <4>1. QED BY <1>1 DEF DefinedUpTo
        <3>3. QED BY <3>1, <3>2
    <2>2. f \in [0..n -> P] /\ f[0] = 1
        BY <1>1 DEF DefinedUpTo
    <2>3. QED BY <2>1, <2>2
<1>3. p = CHOOSE g : Recursive(g)
    BY DEF PowersOfFour
<1>4. Recursive(p)
    <2> HIDE DEF Recursive, p
    <2>1. QED BY <1>2, <1>3
<1>5. p[0] = 1 /\ \A k \in 1..n : p[k] = 4 * p[k - 1]
    <2> HIDE DEF p
    <2>1. QED BY <1>4
<1>6. \A k \in 0..n : p[k] \in P
    <2> DEFINE T == {k \in 0..n : p[k] \in P}
    <2>1. 0 \in T
        <3> HIDE DEF p
        <3>1. QED BY <1>5
    <2>2. ASSUME NEW k \in 1..n, k - 1 \in T PROVE k \in T
        <3> HIDE DEF p
        <3>1. p[k - 1] \in P /\ p[k] = 4 * p[k - 1]
            BY <1>5, <2>2
        <3>2. QED BY <3>1
    <2> HIDE DEF T
    <2>3. \A k \in 0..n : k \in T
        BY <2>1, <2>2, InductionUpTo
    <2>4. QED BY <2>3 DEF T
<1>7. QED
    <2>1. p = [k \in 0..n |-> p[k]]
        <3> HIDE DEF p
        <3>1. QED BY <1>4
    <2> HIDE DEF p
    <2>2. p \in [0..n -> P]
        BY <2>1, <1>6
    <2>3. QED BY <2>2, <1>5 DEF p

\* The loop's variables.
LoopVariables == [value : Int, result : Int]

\* The states of the loop: each follows from the one before by a round.
LEMMA LoopStep ==
    ASSUME NEW value \in Nat, NEW n \in Nat, NEW bit \in [0..n -> Nat \ {0}],
           NEW first \in 0..n
    PROVE  /\ RootLoop(value, bit, first)[0] = [value |-> value, result |-> 0]
           /\ \A i \in 1..first : RootLoop(value, bit, first)[i]
                  = RootStep(RootLoop(value, bit, first)[i - 1], bit[first - i])
<1> DEFINE base == [value |-> value, result |-> 0]
           Recursive(f) == f = [i \in 0..first |-> IF i = 0 THEN base
                                ELSE RootStep(f[i - 1], bit[first - i])]
           step == [i \in 1..first |-> [s \in LoopVariables |-> RootStep(s, bit[first - i])]]
           loop == RootLoop(value, bit, first)
<1>1. PICK f : DefinedUpTo(f, first, LoopVariables, base, step)
    <2>1. base \in LoopVariables
        BY DEF LoopVariables
    <2>2. ASSUME NEW i \in 1..first, NEW s \in LoopVariables
          PROVE  RootStep(s, bit[first - i]) \in LoopVariables
        <3>1. bit[first - i] \in Nat
            BY first - i \in 0..n
        <3>2. s.value \in Int /\ s.result \in Int /\ s.result \div 2 \in Int
            BY DEF LoopVariables
        <3>3. CASE s.value >= s.result + bit[first - i]
            <4>1. s.value - (s.result + bit[first - i]) \in Int
                  /\ s.result \div 2 + bit[first - i] \in Int
                BY <3>1, <3>2
            <4>2. QED BY <3>3, <4>1 DEF RootStep, LoopVariables
        <3>4. CASE ~(s.value >= s.result + bit[first - i])
            BY <3>2, <3>4 DEF RootStep, LoopVariables
        <3>5. QED BY <3>3, <3>4
    <2>3. step \in [1..first -> [LoopVariables -> LoopVariables]]
        BY <2>2
    <2> HIDE DEF step, base
    <2>4. QED BY <2>1, <2>3, RecursionUpTo
<1>2. Recursive(f)
    <2> HIDE DEF base
    <2>1. ASSUME NEW i \in 1..first PROVE f[i] = RootStep(f[i - 1], bit[first - i])
        <3>1. f[i] = step[i][f[i - 1]]
            <4> HIDE DEF step
            <4>1. QED BY <1>1 DEF DefinedUpTo
        <3>2. f[i - 1] \in LoopVariables
            <4> HIDE DEF step
            <4>1. QED BY <1>1 DEF DefinedUpTo
        <3>3. QED BY <3>1, <3>2
    <2>2. f \in [0..first -> LoopVariables] /\ f[0] = base
        BY <1>1 DEF DefinedUpTo
    <2>3. QED BY <2>1, <2>2
<1>3. loop = CHOOSE g : Recursive(g)
    BY DEF RootLoop
<1>4. Recursive(loop)
    <2> HIDE DEF Recursive, loop
    <2>1. QED BY <1>2, <1>3
<1> HIDE DEF loop
<1>5. loop[0] = base /\ \A i \in 1..first : loop[i] = RootStep(loop[i - 1], bit[first - i])
    <2> HIDE DEF base
    <2>1. QED BY <1>4
<1>6. QED BY <1>5 DEF loop

\* What holds of them after the round for bit b, the square of q: the root found
\* so far is a, its square is taken off the value, and adding q would be too much.
Found(s, value, b) ==
    /\ s \in LoopVariables
    /\ \A q \in Nat : q * q = b =>
          \E a \in Nat : /\ s.result = a * q
                         /\ s.value = value - a * a
                         /\ a * a <= value /\ value < (a + q) * (a + q)

\* A round finds one more bit of the root.
LEMMA RoundFinds ==
    ASSUME NEW value \in Nat, NEW b \in Nat, NEW s, Found(s, value, 4 * b)
    PROVE  Found(RootStep(s, b), value, b)
<1>1. RootStep(s, b) \in LoopVariables
    BY DEF RootStep, Found, LoopVariables
<1>2. ASSUME NEW q \in Nat, q * q = b
      PROVE  \E a \in Nat : /\ RootStep(s, b).result = a * q
                            /\ RootStep(s, b).value = value - a * a
                            /\ a * a <= value /\ value < (a + q) * (a + q)
    <2>1. 2 * q \in Nat /\ (2 * q) * (2 * q) = 4 * b
        BY <1>2
    <2>2. PICK a \in Nat : /\ s.result = a * (2 * q)
                           /\ s.value = value - a * a
                           /\ a * a <= value /\ value < (a + 2 * q) * (a + 2 * q)
        BY <2>1 DEF Found
    <2> DEFINE aq == a * q
               aa == a * a
    <2>3. /\ aq \in Nat /\ aa \in Nat
          /\ a * (2 * q) = 2 * aq
          /\ (a + q) * (a + q) = aa + 2 * aq + b
          /\ (a + q) * q = aq + b
          /\ (a + q) + q = a + 2 * q
        BY <1>2
    <2>4. s.result = 2 * aq /\ s.value = value - aa
        BY <2>2, <2>3
    <2>5. s.result \div 2 = aq
        <3> HIDE DEF aq
        <3>1. QED BY <2>3, <2>4
    <2>6. s \in [value : Int, result : Int]
        BY DEF Found, LoopVariables
    <2>7. CASE s.value >= s.result + b
        <3>1. RootStep(s, b) = [value |-> s.value - (s.result + b), result |-> aq + b]
            BY <2>5, <2>7 DEF RootStep
        <3>2. (a + q) * (a + q) <= value
            <4> HIDE DEF aq, aa
            <4>1. QED BY <2>3, <2>4, <2>7
        <3>3. s.value - (s.result + b) = value - (a + q) * (a + q)
            <4> HIDE DEF aq, aa
            <4>1. QED BY <2>3, <2>4
        <3>4. aq + b = (a + q) * q
            BY <2>3
        <3>5. value < ((a + q) + q) * ((a + q) + q)
            BY <2>2, <2>3
        <3>6. a + q \in Nat
            OBVIOUS
        <3> HIDE DEF aq, aa
        <3>7. QED BY <3>1, <3>2, <3>3, <3>4, <3>5, <3>6
    <2>8. CASE ~(s.value >= s.result + b)
        <3>1. RootStep(s, b) = [s EXCEPT !.result = aq]
            BY <2>5, <2>8 DEF RootStep
        <3>2. RootStep(s, b).value = value - a * a /\ RootStep(s, b).result = a * q
            BY <2>4, <2>6, <3>1
        <3>3. value < (a + q) * (a + q)
            <4> HIDE DEF aq, aa
            <4>1. QED BY <2>3, <2>4, <2>8
        <3>4. QED BY <2>2, <3>2, <3>3
    <2>9. QED BY <2>7, <2>8
<1>3. QED BY <1>1, <1>2 DEF Found

\* The loop computes the root of every value below the power of four it can hold:
\* motion_isqrt_u64 is right for every width.
THEOREM LoopFindsRoot ==
    ASSUME NEW bits \in Nat, NEW value \in Nat, value < PowersOfFour(bits)[bits]
    PROVE  Isqrt(value, bits) = FloorSqrt(value)
<1> DEFINE bit == PowersOfFour(bits)
           First == {k \in 0..(bits - 1) : bit[k] <= value}
           first == Cardinality(First)
           loop == RootLoop(value, bit, first)
<1>1. /\ bit \in [0..bits -> Nat \ {0}] /\ bit[0] = 1
      /\ \A k \in 1..bits : bit[k] = 4 * bit[k - 1]
    BY PowersStep
<1>2. value < bit[bits]
    OBVIOUS
<1>3. Isqrt(value, bits) = loop[first].result
    BY DEF Isqrt
<1> HIDE DEF bit
<1>4. first \in 0..bits /\ value < bit[first]
    <2> DEFINE Above == {m \in 0..bits : value < bit[m]}
    <2>1. PICK m \in Above : \A k \in Above : m <= k
        <3>1. bits \in Above /\ Above \subseteq Nat
            BY <1>2
        <3> HIDE DEF Above
        <3>2. QED BY <3>1, LeastNumber
    <2>2. ASSUME NEW k \in 0..bits, k < m PROVE bit[k] <= value
        BY <1>1, <2>1, <2>2
    <2>3. \A k \in 0..bits : m <= k => value < bit[k]
        <3> DEFINE T == {k \in 0..bits : m <= k => value < bit[k]}
        <3>1. 0 \in T
            BY <2>1
        <3>2. ASSUME NEW k \in 1..bits, k - 1 \in T PROVE k \in T
            <4>1. /\ m <= k - 1 => value < bit[k - 1]
                  /\ bit[k] = 4 * bit[k - 1] /\ bit[k - 1] \in Nat
                BY <1>1, <3>2
            <4>2. CASE m <= k - 1
                BY <4>1, <4>2
            <4>3. CASE ~(m <= k - 1)
                <5>1. m <= k => m = k
                    BY <2>1, <4>3
                <5>2. QED BY <2>1, <5>1
            <4>4. QED BY <4>2, <4>3
        <3> HIDE DEF T
        <3>3. \A k \in 0..bits : k \in T
            BY <3>1, <3>2, InductionUpTo
        <3>4. QED BY <3>3 DEF T
    <2>4. First = 0..(m - 1)
        <3>1. ASSUME NEW k \in First PROVE k \in 0..(m - 1)
            <4>1. k \in 0..bits /\ bit[k] <= value /\ bit[k] \in Nat
                BY <1>1
            <4>2. QED BY <2>1, <2>3, <4>1
        <3>2. ASSUME NEW k \in 0..(m - 1) PROVE k \in First
            <4>1. k \in 0..(bits - 1) /\ k \in 0..bits /\ k < m
                BY <2>1
            <4>2. QED BY <2>2, <4>1
        <3>3. QED BY <3>1, <3>2
    <2>5. Cardinality(0..(m - 1)) = m
        <3>1. m - 1 - 0 + 1 = m /\ (0 > m - 1 => m = 0)
            BY <2>1
        <3>2. 0 \in Int /\ m - 1 \in Int
            BY <2>1
        <3>3. QED BY <3>1, <3>2, FS_Interval
    <2>6. QED BY <2>1, <2>4, <2>5
<1> HIDE DEF First, first
<1>5. /\ loop[0] = [value |-> value, result |-> 0]
      /\ \A i \in 1..first : loop[i] = RootStep(loop[i - 1], bit[first - i])
    BY <1>1, <1>4, LoopStep
<1> HIDE DEF loop
<1>6. \A i \in 0..first : Found(loop[i], value, bit[first - i])
    <2> DEFINE T == {i \in 0..first : Found(loop[i], value, bit[first - i])}
    <2>1. 0 \in T
        <3>1. ASSUME NEW q \in Nat, q * q = bit[first]
              PROVE  /\ loop[0].result = 0 * q /\ loop[0].value = value - 0 * 0
                     /\ 0 * 0 <= value /\ value < (0 + q) * (0 + q)
            BY <1>4, <1>5, <3>1
        <3>2. loop[0] \in LoopVariables
            BY <1>5 DEF LoopVariables
        <3>3. first - 0 = first /\ 0 \in 0..first /\ 0 \in Nat
            BY <1>4
        <3>4. Found(loop[0], value, bit[first])
            BY <3>1, <3>2, <3>3 DEF Found
        <3>5. QED BY <3>3, <3>4
    <2>2. ASSUME NEW i \in 1..first, i - 1 \in T PROVE i \in T
        <3>1. /\ first - i \in 0..bits /\ first - (i - 1) \in 1..bits
              /\ (first - (i - 1)) - 1 = first - i
            BY <1>4
        <3>2. bit[first - (i - 1)] = 4 * bit[first - i] /\ bit[first - i] \in Nat
            BY <1>1, <3>1
        <3>3. Found(RootStep(loop[i - 1], bit[first - i]), value, bit[first - i])
            BY <2>2, <3>2, RoundFinds
        <3>4. QED BY <1>5, <3>3
    <2> HIDE DEF T
    <2>3. first \in Nat
        BY <1>4
    <2>4. \A i \in 0..first : i \in T
        BY <2>1, <2>2, <2>3, InductionUpTo
    <2>5. QED BY <2>4 DEF T
<1>7. Found(loop[first], value, 1)
    <2>1. first \in 0..first /\ first - first = 0
        BY <1>4
    <2>2. QED BY <1>1, <1>6, <2>1
<1>8. PICK a \in Nat : /\ loop[first].result = a * 1
                       /\ a * a <= value /\ value < (a + 1) * (a + 1)
    <2>1. 1 \in Nat /\ 1 * 1 = 1
        OBVIOUS
    <2>2. QED BY <1>7, <2>1 DEF Found
<1>9. a <= FloorSqrt(value) /\ FloorSqrt(value) <= a
    BY <1>8, RootBounds
<1>10. FloorSqrt(value) \in Nat
    <2>1. IsFiniteSet(1..value)
        BY FS_Interval
    <2>2. IsFiniteSet({r \in 1..value : r * r <= value})
        BY <2>1, FS_Subset
    <2>3. QED BY <2>2, FS_CardinalityType DEF FloorSqrt
<1>11. QED BY <1>3, <1>8, <1>9, <1>10

-----------------------------------------------------------------------------
(* Arithmetic of the line.                                                 *)

\* The path is at least as long as the move on either axis and no longer than the
\* two together.
LEMMA PathBounds ==
    ASSUME NEW sx \in 0..MAX_X, NEW sy \in 0..MAX_Y,
           NEW tx \in 0..MAX_X, NEW ty \in 0..MAX_Y
    PROVE  /\ Abs(tx - sx) <= PathLength(sx, sy, tx, ty)
           /\ Abs(ty - sy) <= PathLength(sx, sy, tx, ty)
           /\ PathLength(sx, sy, tx, ty) <= MAX_X + MAX_Y
<1> DEFINE a == Abs(tx - sx)
           b == Abs(ty - sy)
<1>1. /\ a \in Nat /\ b \in Nat /\ a <= MAX_X /\ b <= MAX_Y
      /\ a * a = (tx - sx) * (tx - sx) /\ b * b = (ty - sy) * (ty - sy)
    BY StageAssumption DEF Abs
<1>2. PathLength(sx, sy, tx, ty) = FloorSqrt(a * a + b * b)
    BY <1>1 DEF PathLength
<1> HIDE DEF a, b
<1>3. a * a \in Nat /\ b * b \in Nat /\ a * b \in Nat
    BY <1>1
<1>4. a * a + b * b < (a + b + 1) * (a + b + 1)
    BY <1>1, <1>3
<1>5. a <= FloorSqrt(a * a + b * b) /\ b <= FloorSqrt(a * a + b * b)
    BY <1>1, <1>3, RootBounds
<1>6. FloorSqrt(a * a + b * b) <= a + b
    BY <1>1, <1>3, <1>4, RootBounds
<1>7. FloorSqrt(a * a + b * b) \in Nat
    <2>1. sx \in Int /\ sy \in Int /\ tx \in Int /\ ty \in Int
        BY StageAssumption
    <2>2. QED BY <2>1, <1>2, PathLengthType
<1>8. QED BY <1>1, <1>2, <1>5, <1>6, <1>7, StageAssumption DEF a, b

\* Dividing with a slope of at most one, e - d more steps give at most e - d + 1 more.
LEMMA DivStep ==
    ASSUME NEW w \in Nat, NEW p \in Nat \ {0}, w <= p,
           NEW d \in Nat, NEW e \in Nat, d <= e
    PROVE  (w * e) \div p - (w * d) \div p \in 0..(e - d + 1)
<1> DEFINE q == (w * d) \div p
           r == (w * d) % p
           u == (w * e) \div p
           v == (w * e) % p
<1>1. w * d \in Nat /\ w * e \in Nat
    OBVIOUS
<1>2. /\ q \in Int /\ r \in 0..(p - 1) /\ w * d = p * q + r
      /\ u \in Int /\ v \in 0..(p - 1) /\ w * e = p * u + v
    BY <1>1
<1> HIDE DEF q, r, u, v
<1>3. w * e - w * d = w * (e - d) /\ w * (e - d) <= p * (e - d) /\ w * (e - d) >= 0
    OBVIOUS
<1>4. p * u - p * q = p * (u - q)
    BY <1>2
<1>5. p * (u - q) < p * (e - d) + p /\ p * (u - q) > -p
    BY <1>1, <1>2, <1>3, <1>4
<1>6. u - q <= e - d
    <2>1. SUFFICES ASSUME u - q >= e - d + 1 PROVE FALSE
        BY <1>2
    <2>2. p * (u - q) >= p * (e - d + 1)
        BY <2>1, <1>2
    <2>3. p * (e - d + 1) = p * (e - d) + p
        OBVIOUS
    <2>4. QED BY <2>2, <2>3, <1>5, <1>2
<1>7. u - q >= 0
    <2>1. SUFFICES ASSUME u - q <= -1 PROVE FALSE
        BY <1>2
    <2>2. p * (u - q) <= p * (-1)
        BY <2>1, <1>2
    <2>3. p * (-1) = -p
        OBVIOUS
    <2>4. QED BY <2>2, <2>3, <1>5, <1>2
<1>8. QED BY <1>2, <1>6, <1>7 DEF q, u

\* Ends of the interpolation: no way travelled is the start, all of it the target.
LEMMA InterpolateEnds ==
    ASSUME NEW a \in Int, NEW b \in Int, NEW p \in Nat \ {0}
    PROVE  /\ InterpolatePosition(a, b, 0, p) = a
           /\ InterpolatePosition(a, b, p, p) = b
<1>1. ASSUME NEW w \in Nat PROVE (w * p) \div p = w
    <2>1. w * p \in Nat /\ (w * p) = p * w + 0
        OBVIOUS
    <2> DEFINE q == (w * p) \div p
               r == (w * p) % p
    <2>2. q \in Int /\ r \in 0..(p - 1) /\ w * p = p * q + r
        BY <2>1
    <2> HIDE DEF q, r
    <2>3. p * (w - q) = r
        BY <2>1, <2>2
    <2>4. w - q = 0
        <3>1. ~(w - q >= 1)
            <4>1. SUFFICES ASSUME w - q >= 1 PROVE FALSE
                OBVIOUS
            <4>2. p * (w - q) >= p
                BY <4>1, <2>2
            <4>3. QED BY <4>2, <2>2, <2>3
        <3>2. ~(w - q <= -1)
            <4>1. SUFFICES ASSUME w - q <= -1 PROVE FALSE
                OBVIOUS
            <4>2. p * (w - q) <= -p
                BY <4>1, <2>2
            <4>3. QED BY <4>2, <2>2, <2>3
        <3>3. QED BY <3>1, <3>2, <2>2
    <2>5. QED BY <2>2, <2>4 DEF q
<1>2. TruncDiv((b - a) * 0, p) = 0
    <2>1. (b - a) * 0 = 0 /\ 0 * p = 0 /\ 0 >= 0
        OBVIOUS
    <2>2. 0 \div p = 0
        BY <1>1, <2>1
    <2>3. QED BY <2>1, <2>2 DEF TruncDiv
<1>3. TruncDiv((b - a) * p, p) = b - a
    <2>1. CASE b >= a
        <3>1. (b - a) \in Nat /\ (b - a) * p >= 0
            BY <2>1
        <3>2. QED BY <3>1, <1>1 DEF TruncDiv
    <2>2. CASE b < a
        <3>1. (a - b) \in Nat /\ (b - a) * p < 0 /\ -((b - a) * p) = (a - b) * p
            BY <2>2
        <3>2. QED BY <3>1, <1>1 DEF TruncDiv
    <2>3. QED BY <2>1, <2>2
<1>4. QED BY <1>2, <1>3 DEF InterpolatePosition

\* Between two points of the path an axis moves no further than the way between
\* them, plus one unit of rounding.
LEMMA InterpolateStep ==
    ASSUME NEW a \in Int, NEW b \in Int, NEW p \in Nat \ {0}, Abs(b - a) <= p,
           NEW d \in Nat, NEW e \in Nat, d <= e
    PROVE  Abs(InterpolatePosition(a, b, e, p) - InterpolatePosition(a, b, d, p))
               <= e - d + 1
<1> DEFINE D(w, n) == (w * n) \div p
<1>1. ASSUME NEW n \in Nat
      PROVE  InterpolatePosition(a, b, n, p) = a + TruncDiv((b - a) * n, p)
    BY DEF InterpolatePosition
<1>2. CASE b >= a
    <2>1. (b - a) \in Nat /\ b - a <= p
        BY <1>2 DEF Abs
    <2>2. ASSUME NEW n \in Nat
          PROVE  TruncDiv((b - a) * n, p) = D(b - a, n) /\ D(b - a, n) \in Int
        <3>1. (b - a) * n \in Nat
            BY <2>1
        <3>2. QED BY <3>1 DEF TruncDiv
    <2>3. D(b - a, e) - D(b - a, d) \in 0..(e - d + 1)
        BY <2>1, DivStep
    <2> HIDE DEF D
    <2>4. QED BY <1>1, <2>2, <2>3 DEF Abs
<1>3. CASE b < a
    <2>1. (a - b) \in Nat /\ a - b <= p
        BY <1>3 DEF Abs
    <2>2. ASSUME NEW n \in Nat
          PROVE  TruncDiv((b - a) * n, p) = -D(a - b, n) /\ D(a - b, n) \in Int
        <3>1. (a - b) * n \in Nat /\ (b - a) * n = -((a - b) * n)
            BY <2>1
        <3>2. CASE (a - b) * n = 0
            <4>1. (b - a) * n = 0 /\ 0 \div p = 0
                <5>1. InterpolatePosition(0, 0, 0, p) = 0
                    BY InterpolateEnds
                <5>2. InterpolatePosition(0, 0, 0, p) = 0 + (0 \div p)
                    BY DEF InterpolatePosition, TruncDiv
                <5>3. 0 \div p \in Int
                    OBVIOUS
                <5>4. QED BY <3>1, <3>2, <5>1, <5>2, <5>3
            <4>2. QED BY <3>2, <4>1 DEF TruncDiv
        <3>3. CASE (a - b) * n # 0
            <4>1. (b - a) * n < 0 /\ -((b - a) * n) = (a - b) * n
                BY <3>1, <3>3
            <4>2. QED BY <3>1, <4>1 DEF TruncDiv
        <3>4. QED BY <3>2, <3>3
    <2>3. D(a - b, e) - D(a - b, d) \in 0..(e - d + 1)
        BY <2>1, DivStep
    <2> HIDE DEF D
    <2>4. QED BY <1>1, <2>2, <2>3 DEF Abs
<1>4. QED BY <1>2, <1>3

\* Division is monotonic.
LEMMA DivMono ==
    ASSUME NEW a \in Nat, NEW b \in Nat, a <= b, NEW p \in Nat \ {0}
    PROVE  a \div p \in Nat /\ a \div p <= b \div p
<1> DEFINE q == a \div p
           r == a % p
           u == b \div p
           v == b % p
<1>1. /\ q \in Int /\ r \in 0..(p - 1) /\ a = p * q + r
      /\ u \in Int /\ v \in 0..(p - 1) /\ b = p * u + v
    OBVIOUS
<1> HIDE DEF q, r, u, v
<1>2. q <= u
    <2>1. SUFFICES ASSUME q - u >= 1 PROVE FALSE
        BY <1>1
    <2>2. p * (q - u) >= p /\ p * (q - u) = p * q - p * u
        BY <1>1, <2>1
    <2>3. QED BY <1>1, <2>2
<1>3. q >= 0
    <2>1. SUFFICES ASSUME q <= -1 PROVE FALSE
        BY <1>1
    <2>2. p * q <= -p
        BY <1>1, <2>1
    <2>3. QED BY <1>1, <2>2
<1>4. QED BY <1>1, <1>2, <1>3 DEF q, u

\* A number below the modulus is its own remainder.
LEMMA ModSmall ==
    ASSUME NEW k \in Nat, NEW m \in Nat, k < m
    PROVE  k % m = k
OBVIOUS

-----------------------------------------------------------------------------
(* The invariant.                                                          *)

\* The stage is on the interpolated line of its move, whose path is at least as
\* long as the way on either axis and short enough for a tick not to wrap.
OnLine ==
    motion.state = "MOVING" =>
        LET m == motion
            p == m.path_length
        IN  /\ p \in 1..(MAX_X + MAX_Y)
            /\ Abs(m.target_x - m.start_x) <= p
            /\ Abs(m.target_y - m.start_y) <= p
            /\ m.x = InterpolatePosition(m.start_x, m.target_x, m.distance_traveled, p)
            /\ m.y = InterpolatePosition(m.start_y, m.target_y, m.distance_traveled, p)

StageInv == TypeOK /\ NothingLeftOver /\ ExactDistance /\ OnLine

\* The distance of a tick and where it takes the move, without the wraps.
Way(delta) == DistanceNumerator(motion, delta) \div MS_PER_S
Carry(delta) == DistanceNumerator(motion, delta) % MS_PER_S
Far(delta) == motion.distance_traveled + Way(delta)

\* No tick wraps: the whole units and the carried remainder after it amount to
\* what the budget and the tick amount to.
LEMMA TickDistance ==
    ASSUME StageInv, NEW delta \in Deltas, motion.state = "MOVING"
    PROVE  /\ Way(delta) \in Nat /\ Carry(delta) \in 0..(MS_PER_S - 1)
           /\ Far(delta) \in Nat
           /\ DistanceStep(motion, delta) = Way(delta)
           /\ (motion.distance_traveled + Way(delta)) % UINT_MOD = Far(delta)
           /\ Far(delta) * MS_PER_S + Carry(delta) = budget + motion.feedrate * delta
<1> DEFINE f == motion.feedrate
           d == motion.distance_traveled
           n == DistanceNumerator(motion, delta)
           b == (UINT_MOD - 1) * delta + MS_PER_S - 1
<1>1. /\ f \in 0..(UINT_MOD - 1) /\ d \in Nat /\ delta \in Nat
      /\ motion.remainder \in 0..(MS_PER_S - 1) /\ motion.path_length \in Nat
    BY StageInputsAssumption DEF StageInv, TypeOK, MotionType
<1>2. n = f * delta + motion.remainder /\ f * delta \in Nat
    BY <1>1 DEF DistanceNumerator
<1>3. f * delta <= (UINT_MOD - 1) * delta
    BY <1>1, StageAssumption
<1>4. n \in Nat /\ b \in Nat /\ n <= b
    <2>1. (UINT_MOD - 1) * delta \in Int
        BY <1>1, StageAssumption
    <2> HIDE DEF f, n
    <2>2. QED BY <2>1, <1>1, <1>2, <1>3, StageAssumption
<1> HIDE DEF n, b, f, d
<1>5. n \div MS_PER_S \in Nat /\ n \div MS_PER_S <= b \div MS_PER_S
    BY <1>4, DivMono, StageAssumption
<1>6. /\ n % MS_PER_S \in 0..(MS_PER_S - 1)
      /\ n = MS_PER_S * (n \div MS_PER_S) + (n % MS_PER_S)
    BY <1>4, StageAssumption
<1>7. Way(delta) = n \div MS_PER_S /\ Carry(delta) = n % MS_PER_S
    BY DEF Way, Carry, n
<1>8. d < motion.path_length /\ motion.path_length <= MAX_X + MAX_Y
    <2>1. d * MS_PER_S + motion.remainder < motion.path_length * MS_PER_S
        BY DEF StageInv, ExactDistance, d
    <2>2. SUFFICES ASSUME d >= motion.path_length PROVE FALSE
        BY <1>1, StageAssumption DEF StageInv, OnLine
    <2>3. d * MS_PER_S >= motion.path_length * MS_PER_S
        BY <2>2, <1>1, StageAssumption
    <2>4. QED BY <2>1, <2>3, <1>1, StageAssumption
<1>9. b \div MS_PER_S + MAX_X + MAX_Y < UINT_MOD
    BY NoWrapAssumption DEF b
<1>10. d + n \div MS_PER_S < UINT_MOD /\ n \div MS_PER_S < UINT_MOD
    <2>1. b \div MS_PER_S \in Int
        BY <1>4, StageAssumption
    <2>2. QED BY <2>1, <1>1, <1>5, <1>8, <1>9, StageAssumption
<1>11. /\ (n \div MS_PER_S) % UINT_MOD = n \div MS_PER_S
       /\ (d + n \div MS_PER_S) % UINT_MOD = d + n \div MS_PER_S
    BY <1>1, <1>5, <1>10, ModSmall, StageAssumption
<1>12. DistanceStep(motion, delta) = Way(delta)
    BY <1>7, <1>11 DEF DistanceStep, n
<1>13. Far(delta) * MS_PER_S + Carry(delta) = budget + f * delta
    <2>1. d * MS_PER_S + motion.remainder = budget /\ budget \in Nat
        BY DEF StageInv, ExactDistance, TypeOK, d
    <2>2. (d + n \div MS_PER_S) * MS_PER_S
              = d * MS_PER_S + MS_PER_S * (n \div MS_PER_S)
        BY <1>1, <1>5, StageAssumption
    <2>3. Far(delta) = d + n \div MS_PER_S
        BY <1>7 DEF Far, d
    <2>4. MS_PER_S * (n \div MS_PER_S) \in Int /\ d * MS_PER_S \in Int
        BY <1>1, <1>5, StageAssumption
    <2>5. n = f * delta + motion.remainder
        BY <1>2
    <2>6. Far(delta) * MS_PER_S = d * MS_PER_S + MS_PER_S * (n \div MS_PER_S)
        BY <2>2, <2>3
    <2>7. Carry(delta) = n % MS_PER_S /\ n % MS_PER_S \in Int
        BY <1>6, <1>7, StageAssumption
    <2>8. motion.remainder \in Int /\ f * delta \in Int
        BY <1>1, <1>2, StageAssumption
    <2>9. QED BY <2>1, <2>4, <2>5, <2>6, <2>7, <2>8, <1>6
<1>14. Far(delta) \in Nat /\ Far(delta) = d + n \div MS_PER_S
    BY <1>1, <1>5, <1>7 DEF Far, d
<1>15. QED BY <1>5, <1>6, <1>7, <1>11, <1>12, <1>13, <1>14 DEF f, d

\* A tick goes on along the line or, with the path used up, ends on the target.
LEMMA TickShape ==
    ASSUME StageInv, NEW delta \in Deltas, motion.state = "MOVING", delta # 0
    PROVE  /\ Far(delta) < motion.path_length =>
                Update(motion, delta) =
                    [motion EXCEPT
                        !.remainder = Carry(delta), !.distance_traveled = Far(delta),
                        !.x = InterpolatePosition(motion.start_x, motion.target_x,
                                                  Far(delta), motion.path_length),
                        !.y = InterpolatePosition(motion.start_y, motion.target_y,
                                                  Far(delta), motion.path_length)]
           /\ Far(delta) >= motion.path_length => Update(motion, delta) = FinishMove(motion)
<1> DEFINE X(n) == InterpolatePosition(motion.start_x, motion.target_x, n, motion.path_length)
           Y(n) == InterpolatePosition(motion.start_y, motion.target_y, n, motion.path_length)
           d == motion.distance_traveled
<1>1. motion \in MotionType /\ motion.path_length \in Nat /\ d \in Nat
    BY DEF StageInv, TypeOK, MotionType
<1>2. /\ Way(delta) \in Nat /\ DistanceStep(motion, delta) = Way(delta)
      /\ (d + DistanceStep(motion, delta)) % UINT_MOD = Far(delta)
    BY TickDistance
<1>3. DistanceNumerator(motion, delta) % MS_PER_S = Carry(delta)
    BY DEF Carry
<1>4. CASE Way(delta) = 0
    <2>1. Far(delta) = d /\ d < motion.path_length
        <3>1. /\ d * MS_PER_S + motion.remainder < motion.path_length * MS_PER_S
              /\ motion.remainder \in Nat
            BY StageAssumption DEF StageInv, ExactDistance, TypeOK, MotionType
        <3>2. ~(d >= motion.path_length)
            <4>1. SUFFICES ASSUME d >= motion.path_length PROVE FALSE
                OBVIOUS
            <4>2. d * MS_PER_S >= motion.path_length * MS_PER_S
                BY <4>1, <1>1, StageAssumption
            <4>3. QED BY <4>2, <3>1, <1>1, StageAssumption
        <3>3. QED BY <3>2, <1>1, <1>4 DEF Far
    <2>2. Update(motion, delta) = [motion EXCEPT !.remainder = Carry(delta)]
        BY <1>2, <1>3, <1>4 DEF Update
    <2>3. motion.x = X(d) /\ motion.y = Y(d)
        BY DEF StageInv, OnLine
    <2> HIDE DEF X, Y
    <2>4. [motion EXCEPT !.remainder = Carry(delta)]
              = [motion EXCEPT !.remainder = Carry(delta), !.distance_traveled = d,
                               !.x = X(d), !.y = Y(d)]
        BY <1>1, <2>3 DEF MotionType
    <2>5. QED BY <1>1, <2>1, <2>2, <2>4 DEF X, Y
<1>5. CASE Way(delta) # 0 /\ Far(delta) < motion.path_length
    <2> HIDE DEF X, Y
    <2>1. ~(Far(delta) >= motion.path_length) /\ Far(delta) \in Nat
        BY <1>1, <1>5, TickDistance
    <2>2. Update(motion, delta)
              = [[motion EXCEPT !.remainder = Carry(delta)] EXCEPT
                    !.distance_traveled = Far(delta), !.x = X(Far(delta)), !.y = Y(Far(delta))]
        BY <1>2, <1>3, <1>5, <2>1 DEF Update, X, Y
    <2>3. QED BY <1>1, <1>5, <2>1, <2>2 DEF X, Y
<1>6. CASE Way(delta) # 0 /\ ~(Far(delta) < motion.path_length)
    <2>1. Far(delta) >= motion.path_length
        BY <1>1, <1>6, TickDistance
    <2>2. Update(motion, delta) = FinishMove(motion)
        BY <1>2, <1>6, <2>1 DEF Update
    <2>3. QED BY <1>6, <2>2
<1>7. QED BY <1>4, <1>5, <1>6

-----------------------------------------------------------------------------
(* The invariant is inductive: one lemma per call.                         *)

\* A record whose move has ended: nothing of it is left.
Ended(m) ==
    /\ m \in MotionType /\ m.state # "MOVING"
    /\ m.feedrate = 0 /\ m.path_length = 0
    /\ m.distance_traveled = 0 /\ m.remainder = 0
    /\ m.target_x = m.x /\ m.target_y = m.y

\* A stage without a move satisfies the whole invariant.
LEMMA EndedIsEnough ==
    ASSUME Ended(motion'), budget' \in Nat
    PROVE  StageInv'
BY DEF Ended, StageInv, TypeOK, NothingLeftOver, ExactDistance, OnLine

\* Snapping onto the target ends a move.
LEMMA FinishEnds ==
    ASSUME NEW m \in MotionType
    PROVE  /\ Ended(FinishMove(m))
           /\ FinishMove(m).x = m.target_x /\ FinishMove(m).y = m.target_y
<1>1. FinishMove(m) \in MotionType
    BY FinishMoveType
<1>2. QED BY <1>1 DEF FinishMove, Halted, Ended, MotionType

\* Holding the position ends a move.
LEMMA HoldEnds ==
    ASSUME NEW m \in MotionType, NEW s \in MotionStates, s # "MOVING"
    PROVE  Ended(HoldPosition(m, s))
<1>1. HoldPosition(m, s) \in MotionType
    BY HoldPositionType
<1>2. QED BY <1>1 DEF HoldPosition, Halted, Ended, MotionType

\* A new move starts with nothing used up, on the line to its target.
LEMMA StartKeepsInv ==
    ASSUME StageInv, NEW t \in Targets, NEW f \in Feedrates, CallStartMove(t[1], t[2], f)
    PROVE  StageInv'
<1> DEFINE tx == t[1]
           ty == t[2]
           len == PathLength(motion.x, motion.y, tx, ty)
           begun == [motion EXCEPT !.start_x = motion.x, !.start_y = motion.y,
                                   !.target_x = tx, !.target_y = ty,
                                   !.feedrate = f, !.path_length = len,
                                   !.distance_traveled = 0, !.remainder = 0]
<1>1. /\ motion \in MotionType /\ budget \in Nat
      /\ tx \in 0..MAX_X /\ ty \in 0..MAX_Y /\ f \in 0..(UINT_MOD - 1)
    BY StageInputsAssumption DEF StageInv, TypeOK
<1>2. motion.x \in 0..MAX_X /\ motion.y \in 0..MAX_Y
    BY <1>1 DEF MotionType
<1>3. len \in Nat
    <2>1. motion.x \in Int /\ motion.y \in Int /\ tx \in Int /\ ty \in Int
        BY <1>1, <1>2, StageAssumption
    <2> HIDE DEF tx, ty
    <2>2. QED BY <2>1, PathLengthType
<1>4. /\ Abs(tx - motion.x) <= len /\ Abs(ty - motion.y) <= len
      /\ len <= MAX_X + MAX_Y
    BY <1>1, <1>2, PathBounds
<1>5. CASE ~AcceptsMove(motion, f)
    <2>1. motion' = motion /\ budget' = budget
        BY <1>5 DEF CallStartMove, StartMove
    <2>2. QED BY <2>1 DEF StageInv, TypeOK, NothingLeftOver, ExactDistance, OnLine
<1> HIDE DEF len, tx, ty
<1>6. begun \in MotionType
    <2>1. 0 \in 0..(MS_PER_S - 1) /\ 0 \in Nat
        BY StageAssumption
    <2>2. QED BY <1>1, <1>2, <1>3, <2>1 DEF MotionType, tx, ty
<1>7. CASE AcceptsMove(motion, f) /\ len = 0
    <2>1. motion' = FinishMove(begun) /\ budget' = 0
        BY <1>7 DEF CallStartMove, StartMove, len, tx, ty
    <2>2. Ended(motion') /\ budget' \in Nat
        BY <1>6, <2>1, FinishEnds
    <2>3. QED BY <2>2, EndedIsEnough
<1>8. CASE AcceptsMove(motion, f) /\ len # 0
    <2>1. motion' = [begun EXCEPT !.state = "MOVING"] /\ budget' = 0
        BY <1>8 DEF CallStartMove, StartMove, len, tx, ty
    <2>2. /\ motion' \in MotionType /\ motion'.state = "MOVING"
          /\ motion'.start_x = motion.x /\ motion'.start_y = motion.y
          /\ motion'.target_x = tx /\ motion'.target_y = ty
          /\ motion'.path_length = len
          /\ motion'.distance_traveled = 0 /\ motion'.remainder = 0
          /\ motion'.x = motion.x /\ motion'.y = motion.y
        BY <1>6, <2>1 DEF MotionType, MotionStates
    <2>3. len \in Nat \ {0} /\ len \in 1..(MAX_X + MAX_Y)
        BY <1>3, <1>4, <1>8, StageAssumption
    <2>4. /\ InterpolatePosition(motion.x, tx, 0, len) = motion.x
          /\ InterpolatePosition(motion.y, ty, 0, len) = motion.y
        BY <1>1, <1>2, <2>3, InterpolateEnds, StageAssumption
    <2>5. OnLine'
        BY <1>4, <2>2, <2>3, <2>4 DEF OnLine
    <2>6. 0 * MS_PER_S + 0 = 0 /\ 0 < len * MS_PER_S
        BY <2>3, StageAssumption
    <2>7. ExactDistance'
        BY <2>1, <2>2, <2>6 DEF ExactDistance
    <2>8. QED BY <2>1, <2>2, <2>5, <2>7 DEF StageInv, TypeOK, NothingLeftOver
<1>9. QED BY <1>5, <1>7, <1>8

\* A tick keeps the accounts, goes on along the line, or ends the move.
LEMMA UpdateKeepsInv ==
    ASSUME StageInv, NEW delta \in Deltas, CallUpdate(delta)
    PROVE  StageInv'
<1> DEFINE used == budget + motion.feedrate * delta
           all == motion.path_length * MS_PER_S
<1>1. /\ motion \in MotionType /\ budget \in Nat /\ delta \in Nat
      /\ motion.feedrate \in Nat /\ motion.path_length \in Nat
    BY StageAssumption, StageInputsAssumption DEF StageInv, TypeOK, MotionType
<1>2. motion' = Update(motion, delta)
    BY DEF CallUpdate
<1>3. motion.feedrate * delta \in Nat /\ used \in Nat /\ all \in Nat
    BY <1>1, StageAssumption
<1>4. CASE motion.state # "MOVING"
    <2>1. motion' = motion /\ budget' = 0
        BY <1>4, <1>2 DEF Update, CallUpdate
    <2>2. QED
        BY <1>4, <2>1 DEF StageInv, TypeOK, NothingLeftOver, ExactDistance, OnLine
<1>5. CASE motion.state = "MOVING" /\ delta = 0
    <2>1. motion' = motion
        BY <1>5, <1>2 DEF Update
    <2>2. motion.feedrate * 0 = 0 /\ budget < motion.path_length * MS_PER_S
        BY <1>1, <1>5 DEF StageInv, ExactDistance
    <2>3. budget' = Smaller(budget + 0, motion.path_length * MS_PER_S)
        BY <1>5, <2>1, <2>2 DEF CallUpdate
    <2>4. budget' = budget
        <3>1. budget + 0 = budget /\ budget <= motion.path_length * MS_PER_S
            BY <1>1, <1>3, <2>2
        <3>2. QED BY <2>3, <3>1 DEF Smaller
    <2>5. QED
        BY <2>1, <2>4 DEF StageInv, TypeOK, NothingLeftOver, ExactDistance, OnLine
<1>6. CASE motion.state = "MOVING" /\ delta # 0 /\ Far(delta) >= motion.path_length
    <2>1. motion' = FinishMove(motion)
        BY <1>2, <1>6, TickShape
    <2>2. Ended(motion')
        BY <1>1, <2>1, FinishEnds
    <2>3. budget' = 0
        BY <2>2 DEF CallUpdate, Ended
    <2>4. QED BY <2>2, <2>3, EndedIsEnough
<1>7. CASE motion.state = "MOVING" /\ delta # 0 /\ Far(delta) < motion.path_length
    <2> DEFINE X == InterpolatePosition(motion.start_x, motion.target_x,
                                        Far(delta), motion.path_length)
               Y == InterpolatePosition(motion.start_y, motion.target_y,
                                        Far(delta), motion.path_length)
    <2>1. motion' = [motion EXCEPT
                        !.remainder = Carry(delta), !.distance_traveled = Far(delta),
                        !.x = X, !.y = Y]
        BY <1>2, <1>7, TickShape
    <2>2. motion' \in MotionType
        BY <1>1, <1>2, UpdateType
    <2> HIDE DEF X, Y
    <2>3. /\ motion'.state = "MOVING" /\ motion'.path_length = motion.path_length
          /\ motion'.remainder = Carry(delta) /\ motion'.distance_traveled = Far(delta)
          /\ motion'.start_x = motion.start_x /\ motion'.start_y = motion.start_y
          /\ motion'.target_x = motion.target_x /\ motion'.target_y = motion.target_y
          /\ motion'.x = X /\ motion'.y = Y
        BY <1>1, <1>7, <2>1 DEF MotionType
    <2>4. OnLine'
        BY <1>7, <2>3 DEF StageInv, OnLine, X, Y
    <2>5. /\ Far(delta) * MS_PER_S + Carry(delta) = used
          /\ Far(delta) \in Nat /\ Carry(delta) \in 0..(MS_PER_S - 1)
        BY <1>7, TickDistance
    <2>6. used < all
        <3>1. (Far(delta) + 1) * MS_PER_S <= all
            BY <1>1, <1>7, <2>5, StageAssumption
        <3>2. (Far(delta) + 1) * MS_PER_S = Far(delta) * MS_PER_S + MS_PER_S
            BY <2>5, StageAssumption
        <3>3. Far(delta) * MS_PER_S \in Int /\ MS_PER_S \in Nat
            BY <2>5, StageAssumption
        <3> HIDE DEF used, all
        <3>4. QED BY <1>3, <2>5, <3>1, <3>2, <3>3
    <2>7. budget' = used
        <3>1. budget' = Smaller(used, all)
            BY <2>3 DEF CallUpdate
        <3> HIDE DEF used, all
        <3>2. QED BY <1>3, <2>6, <3>1 DEF Smaller
    <2>8. ExactDistance'
        BY <2>3, <2>5, <2>6, <2>7 DEF ExactDistance
    <2>9. QED
        BY <1>3, <2>2, <2>3, <2>4, <2>7, <2>8 DEF StageInv, TypeOK, NothingLeftOver
<1>8. Far(delta) < motion.path_length \/ Far(delta) >= motion.path_length \/ motion.state # "MOVING"
    BY <1>1, TickDistance
<1>9. QED BY <1>4, <1>5, <1>6, <1>7, <1>8

\* Stop, fault and clear leave no move, or the stage as it was.
LEMMA OtherCallsKeepInv ==
    ASSUME StageInv, CallStop \/ CallSetFault \/ CallClearFault
    PROVE  StageInv'
<1>1. motion \in MotionType /\ budget \in Nat
    BY DEF StageInv, TypeOK
<1>2. CASE CallStop /\ motion.state = "FAULT"
    <2>1. motion' = motion /\ budget' = 0
        BY <1>2 DEF CallStop, Stop
    <2>2. QED
        BY <1>2, <2>1 DEF StageInv, TypeOK, NothingLeftOver, ExactDistance, OnLine
<1>3. CASE CallStop /\ motion.state # "FAULT"
    <2>1. motion' = HoldPosition(motion, "STOPPED") /\ budget' = 0
        BY <1>3 DEF CallStop, Stop
    <2>2. Ended(motion') /\ budget' \in Nat
        BY <1>1, <2>1, HoldEnds DEF MotionStates
    <2>3. QED BY <2>2, EndedIsEnough
<1>4. CASE CallSetFault
    <2>1. motion' = HoldPosition(motion, "FAULT") /\ budget' = 0
        BY <1>4 DEF CallSetFault, SetFault
    <2>2. Ended(motion') /\ budget' \in Nat
        BY <1>1, <2>1, HoldEnds DEF MotionStates
    <2>3. QED BY <2>2, EndedIsEnough
<1>5. CASE CallClearFault /\ motion.state = "FAULT"
    <2>1. motion' = [motion EXCEPT !.state = "IDLE"] /\ budget' = budget
        BY <1>5 DEF CallClearFault, ClearFault
    <2>2. /\ motion.feedrate = 0 /\ motion.path_length = 0
          /\ motion.distance_traveled = 0 /\ motion.remainder = 0
          /\ motion.target_x = motion.x /\ motion.target_y = motion.y
        BY <1>5 DEF StageInv, NothingLeftOver
    <2>3. Ended(motion')
        BY <1>1, <2>1, <2>2 DEF Ended, MotionType, MotionStates
    <2>4. QED BY <1>1, <2>1, <2>3, EndedIsEnough
<1>6. CASE CallClearFault /\ motion.state # "FAULT"
    <2>1. motion' = motion /\ budget' = budget
        BY <1>6 DEF CallClearFault, ClearFault
    <2>2. QED BY <2>1 DEF StageInv, TypeOK, NothingLeftOver, ExactDistance, OnLine
<1>7. QED BY <1>2, <1>3, <1>4, <1>5, <1>6

\* The stage starts in the invariant and no call leaves it.
LEMMA StageInvariant == Spec => []StageInv
<1>1. Init => StageInv
    BY MotionInitType DEF Init, MotionInit, StageInv, TypeOK, NothingLeftOver, ExactDistance, OnLine
<1>2. StageInv /\ [Next]_vars => StageInv'
    <2> SUFFICES ASSUME StageInv, [Next]_vars PROVE StageInv'
        OBVIOUS
    <2>1. CASE UNCHANGED vars
        BY <2>1 DEF vars, StageInv, TypeOK, NothingLeftOver, ExactDistance, OnLine
    <2>2. QED
        BY <2>1, StartKeepsInv, UpdateKeepsInv, OtherCallsKeepInv DEF Next
<1>3. QED BY <1>1, <1>2, PTL DEF Spec

-----------------------------------------------------------------------------
(* The theorems.                                                           *)

\* No sequence of calls takes the stage out of its travel range.
THEOREM StageStaysInRange == Spec => []TypeOK
<1>1. StageInv => TypeOK
    BY DEF StageInv
<1>2. QED BY <1>1, StageInvariant, PTL

\* However a move ends, nothing of it is left for a later tick or move.
THEOREM NothingIsLeft == Spec => []NothingLeftOver
<1>1. StageInv => NothingLeftOver
    BY DEF StageInv
<1>2. QED BY <1>1, StageInvariant, PTL

\* No distance is lost to rounding or counted twice, however long the move.
THEOREM DistanceIsExact == Spec => []ExactDistance
<1>1. StageInv => ExactDistance
    BY DEF StageInv
<1>2. QED BY <1>1, StageInvariant, PTL

\* A tick that ends a move leaves the stage on its target, and never early.
LEMMA TickEndsOnTarget ==
    ASSUME StageInv, NEW d \in Deltas, CallUpdate(d),
           motion.state = "MOVING", motion'.state # "MOVING"
    PROVE  /\ motion'.x = motion.target_x /\ motion'.y = motion.target_y
           /\ budget + motion.feedrate * d >= motion.path_length * MS_PER_S
<1>1. motion \in MotionType /\ motion.path_length \in Nat
    BY DEF StageInv, TypeOK, MotionType
<1>2. motion' = Update(motion, d)
    BY DEF CallUpdate
<1>3. d # 0
    BY <1>2 DEF Update
<1>4. /\ Far(d) \in Nat /\ Carry(d) \in 0..(MS_PER_S - 1)
      /\ Far(d) * MS_PER_S + Carry(d) = budget + motion.feedrate * d
    BY TickDistance
<1>5. Far(d) >= motion.path_length
    <2>1. SUFFICES ASSUME Far(d) < motion.path_length PROVE FALSE
        BY <1>1, <1>4
    <2>2. motion'.state = motion.state
        BY <1>1, <1>2, <1>3, <2>1, TickShape DEF MotionType
    <2>3. QED BY <2>2
<1>6. motion' = FinishMove(motion)
    BY <1>2, <1>3, <1>5, TickShape
<1>7. motion'.x = motion.target_x /\ motion'.y = motion.target_y
    BY <1>1, <1>6, FinishEnds
<1>8. Far(d) * MS_PER_S >= motion.path_length * MS_PER_S
    BY <1>1, <1>4, <1>5, StageAssumption
<1>9. Far(d) * MS_PER_S \in Int /\ motion.path_length * MS_PER_S \in Int
    BY <1>1, <1>4, StageAssumption
<1>10. QED BY <1>4, <1>7, <1>8, <1>9, StageAssumption

\* A move ends on its target, and not before its time has been spent on it.
THEOREM MovesEndOnTarget == Spec => DoneOnTarget
<1>1. StageInv /\ [Next]_vars =>
        [\A d \in Deltas :
            CallUpdate(d) /\ motion.state = "MOVING" /\ motion'.state # "MOVING" =>
                /\ motion'.x = motion.target_x /\ motion'.y = motion.target_y
                /\ budget + motion.feedrate * d >= motion.path_length * MS_PER_S]_vars
    BY TickEndsOnTarget
<1>2. QED BY <1>1, StageInvariant, PTL DEF Spec, DoneOnTarget

\* One tick moves an axis no further than its whole units, plus one of rounding.
LEMMA TickMovesLittle ==
    ASSUME StageInv, NEW e \in Deltas, CallUpdate(e), motion.state = "MOVING", e # 0
    PROVE  /\ Abs(motion'.x - motion.x) <= Way(e) + 1
           /\ Abs(motion'.y - motion.y) <= Way(e) + 1
<1> DEFINE p == motion.path_length
           d == motion.distance_traveled
           X(n) == InterpolatePosition(motion.start_x, motion.target_x, n, p)
           Y(n) == InterpolatePosition(motion.start_y, motion.target_y, n, p)
<1>1. /\ motion \in MotionType /\ p \in Nat /\ d \in Nat
      /\ motion.start_x \in Int /\ motion.start_y \in Int
      /\ motion.target_x \in Int /\ motion.target_y \in Int
    BY StageAssumption DEF StageInv, TypeOK, MotionType
<1>2. /\ p \in Nat \ {0}
      /\ Abs(motion.target_x - motion.start_x) <= p
      /\ Abs(motion.target_y - motion.start_y) <= p
      /\ motion.x = X(d) /\ motion.y = Y(d)
    BY <1>1 DEF StageInv, OnLine
<1>3. Way(e) \in Nat /\ Far(e) = d + Way(e)
    BY TickDistance DEF Far
<1>4. motion' = Update(motion, e)
    BY DEF CallUpdate
<1>5. ASSUME NEW n \in Nat, d <= n
      PROVE  Abs(X(n) - X(d)) <= n - d + 1 /\ Abs(Y(n) - Y(d)) <= n - d + 1
    BY <1>1, <1>2, <1>5, InterpolateStep
<1>6. CASE Far(e) < p
    <2>1. motion'.x = X(Far(e)) /\ motion'.y = Y(Far(e))
        BY <1>1, <1>4, <1>6, TickShape DEF MotionType
    <2>2. Far(e) \in Nat /\ d <= Far(e) /\ Far(e) - d + 1 = Way(e) + 1
        BY <1>1, <1>3
    <2> HIDE DEF X, Y
    <2>3. QED BY <1>2, <1>5, <2>1, <2>2
<1>7. CASE Far(e) >= p
    <2>1. motion'.x = X(p) /\ motion'.y = Y(p)
        <3>1. motion'.x = motion.target_x /\ motion'.y = motion.target_y
            BY <1>1, <1>4, <1>7, TickShape, FinishEnds
        <3>2. X(p) = motion.target_x /\ Y(p) = motion.target_y
            BY <1>1, <1>2, InterpolateEnds
        <3>3. QED BY <3>1, <3>2
    <2>2. d <= p
        <3>1. d * MS_PER_S + motion.remainder < p * MS_PER_S /\ motion.remainder \in Nat
            BY StageAssumption DEF StageInv, ExactDistance, TypeOK, MotionType
        <3>2. SUFFICES ASSUME d >= p + 1 PROVE FALSE
            BY <1>1
        <3>3. d * MS_PER_S >= p * MS_PER_S
            BY <1>1, <3>2, StageAssumption
        <3>4. d * MS_PER_S \in Int /\ p * MS_PER_S \in Int
            BY <1>1, StageAssumption
        <3> HIDE DEF d, p
        <3>5. QED BY <3>1, <3>3, <3>4
    <2>3. p - d + 1 <= Way(e) + 1
        BY <1>1, <1>3, <1>7
    <2>4. Abs(X(p) - X(d)) <= p - d + 1 /\ Abs(Y(p) - Y(d)) <= p - d + 1
        BY <1>1, <1>5, <2>2
    <2>5. Abs(X(p) - X(d)) \in Int /\ Abs(Y(p) - Y(d)) \in Int
        <3>1. X(p) \in Int /\ Y(p) \in Int /\ X(d) \in Int /\ Y(d) \in Int
            <4>1. motion.x \in Int /\ motion.y \in Int
                BY <1>1, StageAssumption DEF MotionType
            <4>2. QED BY <1>1, <1>2, <4>1, InterpolateEnds
        <3> HIDE DEF X, Y
        <3>2. QED BY <3>1 DEF Abs
    <2> HIDE DEF X, Y
    <2>6. QED BY <1>1, <1>2, <1>3, <2>1, <2>3, <2>4, <2>5
<1>8. QED BY <1>1, <1>3, <1>6, <1>7

\* However the calls come, one never moves an axis further than the longest
\* period allows at the move's feed rate, plus one unit of rounding.
THEOREM SpeedIsLimited == Spec => SpeedLimit
<1>1. ASSUME StageInv, Next, NEW d \in Deltas, \A e \in Deltas : e <= d
      PROVE  Larger(Abs(motion'.x - motion.x), Abs(motion'.y - motion.y))
                 <= (motion.feedrate * d + motion.remainder) \div MS_PER_S + 1
    <2> DEFINE far == (motion.feedrate * d + motion.remainder) \div MS_PER_S
    <2>1. /\ motion \in MotionType /\ motion.feedrate \in Nat /\ motion.remainder \in Nat
          /\ motion.x \in Int /\ motion.y \in Int /\ d \in Nat
        BY <1>1, StageAssumption, StageInputsAssumption DEF StageInv, TypeOK, MotionType
    <2>2. far \in Nat
        <3>1. motion.feedrate * d + motion.remainder \in Nat
            BY <2>1
        <3>2. QED BY <3>1, DivMono, StageAssumption
    <2>3. ASSUME motion'.x = motion.x, motion'.y = motion.y
          PROVE  Larger(Abs(motion'.x - motion.x), Abs(motion'.y - motion.y)) <= far + 1
        BY <2>1, <2>2, <2>3 DEF Larger, Abs
    <2>4. ASSUME NEW t \in Targets, NEW f \in Feedrates, CallStartMove(t[1], t[2], f)
          PROVE  motion'.x = motion.x /\ motion'.y = motion.y
        <3>1. t[1] \in 0..MAX_X /\ t[2] \in 0..MAX_Y /\ f \in 0..(UINT_MOD - 1)
            BY StageInputsAssumption
        <3>2. QED BY <2>1, <2>4, <3>1, StartMoveType DEF CallStartMove
    <2>5. ASSUME NEW e \in Deltas, CallUpdate(e), motion.state # "MOVING" \/ e = 0
          PROVE  motion'.x = motion.x /\ motion'.y = motion.y
        BY <2>5 DEF CallUpdate, Update
    <2>6. ASSUME NEW e \in Deltas, CallUpdate(e), motion.state = "MOVING", e # 0
          PROVE  Larger(Abs(motion'.x - motion.x), Abs(motion'.y - motion.y)) <= far + 1
        <3>1. Way(e) \in Nat /\ e \in Nat /\ e <= d
            BY <1>1, <2>6, TickDistance, StageInputsAssumption
        <3>2. Way(e) <= far
            <4>1. motion.feedrate * e <= motion.feedrate * d
                BY <2>1, <3>1
            <4>2. /\ motion.feedrate * e + motion.remainder \in Nat
                  /\ motion.feedrate * d + motion.remainder \in Nat
                  /\ motion.feedrate * e + motion.remainder
                         <= motion.feedrate * d + motion.remainder
                BY <2>1, <3>1, <4>1
            <4>3. QED BY <4>2, DivMono, StageAssumption DEF Way, DistanceNumerator
        <3>3. /\ Abs(motion'.x - motion.x) <= Way(e) + 1
              /\ Abs(motion'.y - motion.y) <= Way(e) + 1
            BY <1>1, <2>6, TickMovesLittle
        <3>4. motion' \in MotionType
            BY <2>1, <2>6, <3>1, UpdateType DEF CallUpdate
        <3>5. motion'.x \in Int /\ motion'.y \in Int
            BY <3>4, StageAssumption DEF MotionType
        <3>6. Abs(motion'.x - motion.x) \in Int /\ Abs(motion'.y - motion.y) \in Int
            BY <2>1, <3>5 DEF Abs
        <3> HIDE DEF far
        <3>7. QED BY <2>2, <3>1, <3>2, <3>3, <3>6 DEF Larger
    <2>7. ASSUME CallStop \/ CallSetFault \/ CallClearFault
          PROVE  motion'.x = motion.x /\ motion'.y = motion.y
        BY <2>1, <2>7, StopType, SetFaultType, ClearFaultType
        DEF CallStop, CallSetFault, CallClearFault
    <2> HIDE DEF far
    <2>8. Larger(Abs(motion'.x - motion.x), Abs(motion'.y - motion.y)) <= far + 1
        BY <1>1, <2>3, <2>4, <2>5, <2>6, <2>7 DEF Next
    <2>9. QED BY <2>8 DEF far
<1>2. StageInv /\ [Next]_vars =>
        [\A d \in Deltas :
            (\A e \in Deltas : e <= d) =>
                LET far == (motion.feedrate * d + motion.remainder) \div MS_PER_S + 1
                IN  Larger(Abs(motion'.x - motion.x), Abs(motion'.y - motion.y)) <= far
        ]_vars
    BY <1>1
<1>3. QED BY <1>2, StageInvariant, PTL DEF Spec, SpeedLimit

-----------------------------------------------------------------------------
(* The length of a path.                                                   *)

\* A move keeps the length its start gave it.
KeepsLength ==
    motion.state = "MOVING" =>
        motion.path_length
            = PathLength(motion.start_x, motion.start_y, motion.target_x, motion.target_y)

LEMMA LengthInvariant == Spec => [](TypeOK /\ KeepsLength)
<1>1. Init => KeepsLength
    BY DEF Init, MotionInit, KeepsLength
<1>2. TypeOK /\ KeepsLength /\ [Next]_vars => KeepsLength'
    <2> SUFFICES ASSUME TypeOK, KeepsLength, [Next]_vars, motion'.state = "MOVING"
                 PROVE  motion'.path_length
                            = PathLength(motion'.start_x, motion'.start_y,
                                         motion'.target_x, motion'.target_y)
        BY DEF KeepsLength
    <2>1. motion \in MotionType
        BY DEF TypeOK
    <2>2. CASE UNCHANGED vars
        BY <2>2 DEF vars, KeepsLength
    <2>3. ASSUME NEW t \in Targets, NEW f \in Feedrates, CallStartMove(t[1], t[2], f)
          PROVE  motion'.path_length
                     = PathLength(motion'.start_x, motion'.start_y,
                                  motion'.target_x, motion'.target_y)
        <3> DEFINE len == PathLength(motion.x, motion.y, t[1], t[2])
                   begun == [motion EXCEPT !.start_x = motion.x, !.start_y = motion.y,
                                           !.target_x = t[1], !.target_y = t[2],
                                           !.feedrate = f, !.path_length = len,
                                           !.distance_traveled = 0, !.remainder = 0]
        <3>1. motion' = StartMove(motion, t[1], t[2], f)
            BY <2>3 DEF CallStartMove
        <3>2. CASE ~AcceptsMove(motion, f)
            BY <3>1, <3>2 DEF StartMove, KeepsLength
        <3>3. CASE AcceptsMove(motion, f) /\ len = 0
            <4>1. motion' = FinishMove(begun)
                BY <3>1, <3>3 DEF StartMove
            <4>2. motion'.state = "DONE"
                BY <2>1, <4>1 DEF FinishMove, Halted, MotionType
            <4>3. QED BY <4>2
        <3>4. CASE AcceptsMove(motion, f) /\ len # 0
            <4>1. motion' = [begun EXCEPT !.state = "MOVING"]
                BY <3>1, <3>4 DEF StartMove
            <4> HIDE DEF len
            <4>2. /\ motion'.start_x = motion.x /\ motion'.start_y = motion.y
                  /\ motion'.target_x = t[1] /\ motion'.target_y = t[2]
                  /\ motion'.path_length = len
                BY <2>1, <4>1 DEF MotionType
            <4>3. QED BY <4>2 DEF len
        <3>5. QED BY <3>2, <3>3, <3>4
    <2>4. ASSUME NEW delta \in Deltas, CallUpdate(delta)
          PROVE  /\ motion.state = "MOVING" /\ motion'.path_length = motion.path_length
                 /\ motion'.start_x = motion.start_x /\ motion'.start_y = motion.start_y
                 /\ motion'.target_x = motion.target_x /\ motion'.target_y = motion.target_y
        <3>1. motion' = Update(motion, delta)
            BY <2>4 DEF CallUpdate
        <3>2. FinishMove(motion).state = "DONE"
            BY <2>1 DEF FinishMove, Halted, MotionType
        <3>3. QED BY <2>1, <3>1, <3>2 DEF Update, MotionType
    <2>5. ASSUME CallStop PROVE motion' = motion
        BY <2>1, <2>5 DEF CallStop, Stop, HoldPosition, Halted, MotionType
    <2>6. ASSUME CallSetFault PROVE FALSE
        BY <2>1, <2>6 DEF CallSetFault, SetFault, HoldPosition, Halted, MotionType
    <2>7. ASSUME CallClearFault PROVE motion' = motion
        BY <2>1, <2>7 DEF CallClearFault, ClearFault, MotionType
    <2>8. QED BY <2>2, <2>3, <2>4, <2>5, <2>6, <2>7 DEF Next, KeepsLength
<1>3. QED BY <1>1, <1>2, StageStaysInRange, PTL DEF Spec

\* The length of every move is what motion_isqrt_u64 computes bit by bit: no
\* square root of the travel range needs more bits than the loop has.
THEOREM PathIsTheRoot == Spec => []PathIsRoot
<1>1. TypeOK /\ KeepsLength => PathIsRoot
    <2> SUFFICES ASSUME TypeOK, KeepsLength, motion.state = "MOVING"
                 PROVE  LET dx == motion.target_x - motion.start_x
                            dy == motion.target_y - motion.start_y
                        IN  motion.path_length = Isqrt(dx * dx + dy * dy, ROOT_BITS)
        BY DEF PathIsRoot
    <2> DEFINE dx == motion.target_x - motion.start_x
               dy == motion.target_y - motion.start_y
               square == dx * dx + dy * dy
    <2>1. dx \in Int /\ dy \in Int /\ dx \in (-MAX_X)..MAX_X /\ dy \in (-MAX_Y)..MAX_Y
        BY StageAssumption DEF TypeOK, MotionType
    <2>2. \A n \in Nat : \A d \in (-n)..n : d * d \in Nat /\ d * d <= n * n
        <3>1. ASSUME NEW n \in Nat, NEW d \in 0..n PROVE d * d \in Nat /\ d * d <= n * n
            <4>1. d * d <= d * n /\ d * n <= n * n
                OBVIOUS
            <4>2. QED BY <4>1
        <3>2. ASSUME NEW n \in Nat, NEW d \in (-n)..n PROVE d * d \in Nat /\ d * d <= n * n
            <4>1. CASE d >= 0
                BY <3>1, <4>1
            <4>2. CASE d < 0
                <5>1. -d \in 0..n /\ (-d) * (-d) = d * d
                    BY <4>2
                <5>2. QED BY <3>1, <5>1
            <4>3. QED BY <4>1, <4>2
        <3>3. QED BY <3>2
    <2>3. motion.path_length = FloorSqrt(square)
        BY DEF KeepsLength, PathLength
    <2> HIDE DEF dx, dy
    <2>4. /\ dx * dx \in Nat /\ dx * dx <= MAX_X * MAX_X
          /\ dy * dy \in Nat /\ dy * dy <= MAX_Y * MAX_Y
        BY <2>1, <2>2, StageAssumption
    <2>5. MAX_X * MAX_X \in Int /\ MAX_Y * MAX_Y \in Int
        BY StageAssumption
    <2>6. PowersOfFour(ROOT_BITS)[ROOT_BITS] \in Nat
        <3>1. ROOT_BITS \in 0..ROOT_BITS
            BY StageInputsAssumption
        <3>2. QED BY <3>1, PowersStep, StageInputsAssumption
    <2>7. MAX_X * MAX_X + MAX_Y * MAX_Y < PowersOfFour(ROOT_BITS)[ROOT_BITS]
        BY StageInputsAssumption
    <2>8. square \in Nat /\ square < PowersOfFour(ROOT_BITS)[ROOT_BITS]
        BY <2>4, <2>5, <2>6, <2>7
    <2> HIDE DEF square
    <2>9. Isqrt(square, ROOT_BITS) = FloorSqrt(square)
        BY <2>8, LoopFindsRoot, StageInputsAssumption
    <2>10. QED BY <2>3, <2>9 DEF square, dx, dy
<1>2. QED BY <1>1, LengthInvariant, PTL
===============================================================================
