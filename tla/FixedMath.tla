----------------------------- MODULE FixedMath -----------------------------
(***************************************************************************)
(* The arithmetic of the simulation (engine/math fix.h, rng.h): fixed      *)
(* point numbers with as many bits of fraction as of whole, interpolation  *)
(* in twice the width narrowed once, the square root digit by digit, and   *)
(* the bounded draw of the random numbers.                                 *)
(*                                                                         *)
(* The width is a parameter: 32 bits in the code, few enough in a run to   *)
(* try every operand.  The words that pcg32_next returns are any words.    *)
(* Products, quotients, the sine table and conversions from and to float   *)
(* are single expressions and left out.                                    *)
(***************************************************************************)
EXTENDS Integers, FiniteSets

CONSTANT Fraction       (* bits of fraction, half of a word: 16            *)

VARIABLE work           (* the call that runs or has returned              *)

Idle == [op |-> "none"]

One   == 2 ^ Fraction
Words == 0 .. 2 ^ (2 * Fraction) - 1                        (* uint32_t *)
Fix   == -(2 ^ (2 * Fraction - 1)) .. 2 ^ (2 * Fraction - 1) - 1
Wide  == 0 .. 2 ^ (4 * Fraction) - 1                        (* uint64_t *)

(* (fix) of an int64_t *)
Narrowed(v) ==
    LET half == 2 ^ (2 * Fraction - 1) IN ((v + half) % (2 * half)) - half

(* The sum of a and the narrowed step, before it is an int32_t again. *)
FixLerp(a, b, t) == a + Narrowed(((b - a) * t) \div One)

MathInit == work = Idle

Returned(op, args, value) ==
    work' = [op |-> "done", of |-> op, args |-> args, value |-> value]

----------------------------------------------------------------------------
Finish ==
    /\ work.op = "done"
    /\ work' = Idle

(* fix_lerp, of a t between 0 and 1 *)
Lerp(a, b, t) == Returned("lerp", <<a, b, t>>, FixLerp(a, b, t))

(* fix_isqrt64 of any number, which fix_sqrt calls with x << 16: first the *)
(* highest power of four that is not above it ...                          *)
StartSqrt(input) ==
    work' = [op |-> "seek", input |-> input, rest |-> input, res |-> 0,
                bit |-> 2 ^ (4 * Fraction - 2)]

Seek ==
    /\ work.op = "seek"
    /\ work' = IF work.bit > work.rest THEN [work EXCEPT !.bit = @ \div 4]
                                       ELSE [work EXCEPT !.op = "digit"]

(* Fault: a digit that leaves nothing is not taken.                        *)
TakesDigitStrictly == work.rest > work.res + work.bit

TakesDigit == work.rest >= work.res + work.bit

(* ... and then a binary digit of the root for each of them. *)
Digit ==
    /\ work.op = "digit"
    /\ work.bit # 0
    /\ work' = [work EXCEPT
                    !.rest = IF TakesDigit THEN @ - (work.res + work.bit) ELSE @,
                    !.res  = (@ \div 2) + (IF TakesDigit THEN work.bit ELSE 0),
                    !.bit  = @ \div 4]

SqrtReturns ==
    /\ work.op = "digit"
    /\ work.bit = 0
    /\ Returned("sqrt", <<work.input>>, work.res)

----------------------------------------------------------------------------
(* The words below it would make small results likelier. *)
Threshold(bound) == ((2 ^ (2 * Fraction) - bound) % (2 ^ (2 * Fraction))) % bound

(* pcg32_range: words are drawn until one is not below the threshold *)
StartRange(bound) ==
    IF bound = 0 THEN Returned("range", <<0>>, 0)
                 ELSE work' = [op |-> "range", bound |-> bound]

Draw(word) ==
    IF word >= Threshold(work.bound)
      THEN Returned("range", <<work.bound>>, word % work.bound)
      ELSE UNCHANGED work

MathNext ==
    \/ /\ work = Idle
       /\ \/ \E a, b \in Fix, t \in 0 .. One : Lerp(a, b, t)
          \/ \E input \in Wide : StartSqrt(input)
          \/ \E bound \in Words : StartRange(bound)
    \/ Seek \/ Digit \/ SqrtReturns
    \/ work.op = "range" /\ \E word \in Words : Draw(word)
    \/ Finish

MathSpec == MathInit /\ [][MathNext]_work

----------------------------------------------------------------------------
(* The root is exact for every number of the full width, with no digit     *)
(* lost on the way and nothing that overflows.                             *)
RootExact ==
    /\ work.op \in {"seek", "digit"} =>
        /\ {work.rest, work.res, work.bit, work.res + work.bit} \subseteq Wide
        /\ work.op = "digit" => work.rest <= work.input
    /\ work.op = "done" /\ work.of = "sqrt" =>
        LET n == work.args[1] IN
        /\ work.value * work.value <= n
        /\ n < (work.value + 1) * (work.value + 1)

(* Every result of a bounded draw stands for as many words as any other.   *)
DrawsEven ==
    work.op = "range" =>
        \A r \in 0 .. work.bound - 1 :
            Cardinality({x \in Words : x >= Threshold(work.bound) /\ x % work.bound = r})
              = Cardinality({x \in Words : x >= Threshold(work.bound)}) \div work.bound

(* Between two numbers there is no way out of the range of numbers, however*)
(* far apart they are (in builds whose int32_t sums wrap).                 *)
StaysBetween ==
    work.op = "done" /\ work.of = "lerp" =>
        LET a == work.args[1]
            b == work.args[2]
        IN  Narrowed(work.value) \in IF a <= b THEN a .. b ELSE b .. a

(* What replays rest on, for every operand: exact roots, even draws, and   *)
(* interpolation between its ends.                                         *)
NumbersExact == RootExact /\ DrawsEven /\ StaysBetween

(* fix.h:8: "All intermediates are computed in 64-bit and narrowed once,   *)
(* so there is no signed-overflow UB".  The sum in fix_lerp is of 32 bits  *)
(* and is made after the narrowing.                                        *)
NoSignedOverflow == work.op = "done" /\ work.of = "lerp" => work.value \in Fix
=============================================================================
