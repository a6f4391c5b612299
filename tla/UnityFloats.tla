---------------------------- MODULE UnityFloats ----------------------------
(***************************************************************************)
(* Unity's assertions on floats.  A UNITY_FLOAT is an integer of at most   *)
(* MaxFinite, an infinity or a NaN; results beyond MaxFinite are infinite, *)
(* rounding is left out but in the product with UNITY_FLOAT_PRECISION,     *)
(* which is 1 / Precision here.  One behaviour is one call, made while the *)
(* test has not failed.                                                    *)
(***************************************************************************)
EXTENDS Integers, Sequences, FiniteSetsExt

CONSTANTS
  MaxFinite, \* FLT_MAX
  Precision, \* 1 / UNITY_FLOAT_PRECISION
  Floats,    \* what a test passes
  ArrayFloats, Deltas, Sizes  \* what it passes in arrays, as their delta and size

Inf == MaxFinite + 1
NaN == MaxFinite + 2

\* Assumed of the constants.
FloatAssumption ==
  /\ MaxFinite \in Nat /\ Precision \in Nat \ {0}
  /\ Floats \cup ArrayFloats \cup Deltas \subseteq (-Inf) .. NaN
  /\ Sizes \subseteq Nat

VARIABLES
  call,     \* the assertion and its arguments
  k,        \* the element of the arrays being compared
  outcome   \* "entered", "running", "passed" or "failed"

vars == <<call, k, outcome>>

Traits == {"NOT_INF", "INF", "NOT_NEG_INF", "NEG_INF", "NOT_NAN", "NAN", "NOT_DET", "DET"}

Comparisons == {{"GREATER_THAN"}, {"SMALLER_THAN"}, {"GREATER_THAN", "EQUAL_TO"},
                {"SMALLER_THAN", "EQUAL_TO"}}

\* The calls: on two floats, and on two arrays or an array and a value.
WithinCalls ==
  [kind : {"within", "not_within"}, delta : Floats, expected : Floats, actual : Floats]

EqualCalls == [kind : {"equal", "not_equal"}, expected : Floats, actual : Floats]

OrderCalls == [kind : {"order"}, compare : Comparisons, expected : Floats, actual : Floats]

SpecialCalls == [kind : {"special"}, trait : Traits, actual : Floats]

ArrayCalls(n) ==
  [kind : {"array"}, delta : Deltas, pointers : {"arrays", "same", "one_null"},
   expected : [1 .. n -> ArrayFloats], actual : [1 .. n -> ArrayFloats]]

EachCalls(n) ==
  [kind : {"each"}, delta : {0}, pointers : {"arrays", "one_null"},
   expected : [1 .. 1 -> ArrayFloats], actual : [1 .. n -> ArrayFloats]]

Init ==
  /\ \/ call \in WithinCalls \cup EqualCalls \cup OrderCalls \cup SpecialCalls
     \/ \E n \in Sizes : call \in ArrayCalls(n) \cup EachCalls(n)
  /\ k = 1
  /\ outcome = "entered"

-----------------------------------------------------------------------------
IsInf(x) == x \in {Inf, -Inf}
IsNaN(x) == x = NaN

\* A result, which overflows to an infinity.
Result(x) == IF x > MaxFinite THEN Inf ELSE IF x < -MaxFinite THEN -Inf ELSE x

Negative(x) == ~IsNaN(x) /\ x < 0
Neg(x) == IF IsNaN(x) THEN x ELSE -x
Magnitude(x) == IF Negative(x) THEN Neg(x) ELSE x

\* Comparisons with a NaN are false.
Less(x, y) == ~IsNaN(x) /\ ~IsNaN(y) /\ x < y

Plus(x, y) ==
  IF IsNaN(x) \/ IsNaN(y) \/ (IsInf(x) /\ y = -x) THEN NaN
  ELSE IF IsInf(x) THEN x ELSE IF IsInf(y) THEN y ELSE Result(x + y)

Minus(x, y) == Plus(x, Neg(y))

\* x * UNITY_FLOAT_PRECISION, rounded to zero.
TimesPrecision(x) ==
  IF IsNaN(x) \/ IsInf(x) THEN x
  ELSE IF x < 0 THEN -((-x) \div Precision) ELSE x \div Precision

-----------------------------------------------------------------------------
\* Mutant of UnityFloatsWithin: an infinite difference is compared like others.
FloatsWithinAnyDiff(delta, expected, actual) ==
  LET diff == Magnitude(Minus(actual, expected))
  IN  \/ IsInf(expected) /\ IsInf(actual) /\ Negative(expected) = Negative(actual)
      \/ IsNaN(expected) /\ IsNaN(actual)
      \/ ~(IsNaN(diff) \/ Less(Magnitude(delta), diff))

UnityFloatsWithin(delta, expected, actual) ==
  LET diff == Magnitude(Minus(actual, expected))
  IN  \/ IsInf(expected) /\ IsInf(actual) /\ Negative(expected) = Negative(actual)
      \/ IsNaN(expected) /\ IsNaN(actual)
      \/ ~(IsNaN(diff) \/ IsInf(diff) \/ Less(Magnitude(delta), diff))

Conclude(passed) ==
  /\ outcome = "entered"
  /\ outcome' = IF passed THEN "passed" ELSE "failed"
  /\ UNCHANGED <<call, k>>

\* TEST_ASSERT_EQUAL_FLOAT passes the product of expected as the delta.
DeltaPassed == IF call.kind \in {"equal", "not_equal"} THEN TimesPrecision(call.expected)
                                                       ELSE call.delta

UnityAssertFloatsWithin ==
  /\ call.kind \in {"within", "equal"}
  /\ Conclude(UnityFloatsWithin(DeltaPassed, call.expected, call.actual))

UnityAssertFloatsNotWithin ==
  /\ call.kind \in {"not_within", "not_equal"}
  /\ Conclude(~UnityFloatsWithin(DeltaPassed, call.expected, call.actual))

\* Mutant of NotInOrder: it looks for a failure rather than for a success.
NotInOrderByFailure(compare, threshold, actual) ==
  \/ "SMALLER_THAN" \in compare /\ (Less(threshold, actual) \/ actual = threshold)
  \/ "GREATER_THAN" \in compare /\ (Less(actual, threshold) \/ actual = threshold)

\* "not success", to get the right result for a NaN.
NotInOrder(compare, threshold, actual) ==
  \/ "SMALLER_THAN" \in compare /\ ~Less(actual, threshold)
  \/ "GREATER_THAN" \in compare /\ ~Less(threshold, actual)

UnityAssertGreaterOrLessFloat ==
  /\ call.kind = "order"
  /\ LET threshold == call.expected
     IN  Conclude(\/ ~NotInOrder(call.compare, threshold, call.actual)
                  \/ /\ "EQUAL_TO" \in call.compare
                     /\ UnityFloatsWithin(TimesPrecision(threshold), threshold, call.actual))

\* Is a float what the trait, or what the negated trait, is about?
HasTrait(trait, x) ==
  CASE trait \in {"INF", "NOT_INF"} -> IsInf(x) /\ ~Negative(x)
    [] trait \in {"NEG_INF", "NOT_NEG_INF"} -> IsInf(x) /\ Negative(x)
    [] trait \in {"NAN", "NOT_NAN"} -> IsNaN(x)
    [] trait \in {"DET", "NOT_DET"} -> ~IsInf(x) /\ ~IsNaN(x)

\* The trait is wanted if the style is odd.
UnityAssertFloatSpecial ==
  /\ call.kind = "special"
  /\ Conclude(HasTrait(call.trait, call.actual) =
                (call.trait \in {"INF", "NEG_INF", "NAN", "DET"}))

-----------------------------------------------------------------------------
ExpectedAt(n) == IF call.kind = "each" THEN call.expected[1] ELSE call.expected[n]

\* Mutant of ElementDelta: the sign of the product is kept.
ElementDeltaSigned(expected) == Plus(Magnitude(call.delta), TimesPrecision(expected))

\* The delta of an element, both parts without their sign.
ElementDelta(expected) == Plus(Magnitude(call.delta), Magnitude(TimesPrecision(expected)))

EnterFloatArray ==
  /\ outcome = "entered"
  /\ outcome' = CASE call.actual = << >> -> "failed"
                  [] call.actual # << >> /\ IsInf(call.delta) -> "passed"
                  [] call.actual # << >> /\ IsNaN(call.delta) -> "failed"
                  [] OTHER -> CASE call.pointers = "same" -> "passed"
                                [] call.pointers = "one_null" -> "failed"
                                [] call.pointers = "arrays" -> "running"
  /\ UNCHANGED <<call, k>>

CompareFloats ==
  /\ outcome = "running"
  /\ IF k > Len(call.actual)
       THEN outcome' = "passed" /\ UNCHANGED k
     ELSE IF ~UnityFloatsWithin(ElementDelta(ExpectedAt(k)), ExpectedAt(k), call.actual[k])
       THEN outcome' = "failed" /\ UNCHANGED k
     ELSE k' = k + 1 /\ UNCHANGED outcome
  /\ UNCHANGED call

UnityAssertWithinFloatArray ==
  /\ call.kind \in {"array", "each"}
  /\ EnterFloatArray \/ CompareFloats

Next ==
  \/ UnityAssertFloatsWithin \/ UnityAssertFloatsNotWithin
  \/ UnityAssertGreaterOrLessFloat \/ UnityAssertFloatSpecial
  \/ UnityAssertWithinFloatArray

Spec == Init /\ [][Next]_vars

-----------------------------------------------------------------------------
\* Two floats are the same number up to a tolerance: the same infinity, both
\* a NaN, or finite and no further apart, in arithmetic without a bound.
Near(tolerance, x, y) ==
  IF IsNaN(x) \/ IsNaN(y) \/ IsInf(x) \/ IsInf(y) THEN x = y
  ELSE Max({x - y, y - x}) <= tolerance

Tolerance(x) == IF IsNaN(x) \/ IsInf(x) THEN 0 ELSE Max({x, -x}) \div Precision

Finite(x) == ~IsNaN(x) /\ ~IsInf(x)

(***************************************************************************)
(* An assertion of (in)equality on two floats passes exactly when they are *)
(* (not) near, a negative delta counting without its sign, overflow of the *)
(* difference never making them near.  For a delta that is a number: a NaN *)
(* is taken for as large a delta as there is.                              *)
(***************************************************************************)
WithinIsNear ==
  /\ call.kind \in {"within", "not_within"} /\ Finite(call.delta) /\ outcome # "entered" =>
       ((outcome = "passed") = (call.kind = "within")
          <=> Near(Max({call.delta, -call.delta}), call.expected, call.actual))
  /\ call.kind \in {"equal", "not_equal"} /\ outcome # "entered" =>
       ((outcome = "passed") = (call.kind = "equal")
          <=> Near(Tolerance(call.expected), call.expected, call.actual))

(***************************************************************************)
(* An ordering holds of numbers in that order, infinities included, of     *)
(* nothing that is a NaN on one side, and, if it includes equality, of     *)
(* what TEST_ASSERT_EQUAL_FLOAT takes for equal.                           *)
(***************************************************************************)
OrderOfNumbers ==
  call.kind = "order" /\ outcome # "entered" =>
    (outcome = "passed" <=>
       \/ /\ NaN \notin {call.expected, call.actual}
          /\ IF "GREATER_THAN" \in call.compare THEN call.actual > call.expected
                                                ELSE call.actual < call.expected
       \/ /\ "EQUAL_TO" \in call.compare
          /\ Near(Tolerance(call.expected), call.expected, call.actual))

(***************************************************************************)
(* Arrays are compared element by element, to the first that is not near   *)
(* its expected value, which is where k stays; an array without an element *)
(* or a delta that is a NaN never passes.  No sum of the two deltas makes  *)
(* floats near whose difference overflows.                                 *)
(***************************************************************************)
ArraysAreNear ==
  LET Tol(n) == Min({MaxFinite, Max({call.delta, -call.delta}) + Tolerance(ExpectedAt(n))})
      Far == {n \in DOMAIN call.actual : ~Near(Tol(n), ExpectedAt(n), call.actual[n])}
  IN  /\ call.kind \in {"array", "each"} /\ outcome = "passed" =>
           call.actual # << >> /\ ~IsNaN(call.delta)
      /\ call.kind \in {"array", "each"} /\ call.pointers = "arrays" /\ Finite(call.delta) =>
           /\ \A n \in Far : k <= n
           /\ outcome = "failed" /\ call.actual # << >> => k \in Far
           /\ outcome = "passed" => Far = {}
=============================================================================
