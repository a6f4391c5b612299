---------------------------- MODULE UnityNumbers ----------------------------
(***************************************************************************)
(* Unity's assertions on two integers: the macros, which cast what the     *)
(* test passes to the width and sign of a type and then to UNITY_INT, and  *)
(* the four functions that compare.  One behaviour is one call, made while *)
(* the test has not failed.  What is printed of a failure is kept as the   *)
(* two values it shows.                                                    *)
(***************************************************************************)
EXTENDS UnityWords, FiniteSetsExt

CONSTANTS
  Types,   \* [bytes : width of the cast, style : display style] of the macros
  Values,  \* what a test passes: any integer of C, signed or not
  Deltas,  \* what it passes as a delta
  Masks    \* what it passes as a mask

UNITY_INT_WIDTH == 4 * ByteBits

\* INT and UINT cast to UNITY_INT but are shown as numbers of an int's width.
\* Assumed of the constants.
TypesAssumption ==
  /\ \A t \in Types :
       /\ t.style \in UNITY_DISPLAY_STYLE_T
       /\ \/ t.bytes = t.style.length
          \/ t.bytes = 8 /\ t.style.length = 4 /\ t.style.range \in {"INT", "UINT"}
  /\ Values \subseteq Int

VARIABLES
  call,    \* the assertion and its arguments
  outcome, \* "entered", "passed" or "failed"
  report   \* the two values a failure shows

vars == <<call, outcome, report>>

Relations == {"EQUAL", "NOT_EQUAL", "GREATER_THAN", "SMALLER_THAN",
              "GREATER_OR_EQUAL", "SMALLER_OR_EQUAL"}

Init ==
  /\ call \in [relation : Relations, type : Types, expected : Values, actual : Values]
       \cup [relation : {"WITHIN"}, type : Types, expected : Values, actual : Values,
             delta : Deltas]
       \cup [relation : {"BITS"}, expected : Values, actual : Values, mask : Masks]
  /\ outcome = "entered"
  /\ report = {}

\* UnityTestResultsFailBegin, the two values, UNITY_FAIL_AND_BAIL.
Conclude(failed, expected, actual) ==
  /\ outcome = "entered"
  /\ outcome' = IF failed THEN "failed" ELSE "passed"
  /\ report' = IF failed THEN {expected, actual} ELSE {}
  /\ UNCHANGED call

-----------------------------------------------------------------------------
\* Mutant of EqualArgument: the cast to the type is missing.
EqualArgumentUncast(type, v) == UNITY_INT(v)

\* The cast of the macros of EQUAL: a HEX is cast to a signed type, too.
EqualArgument(type, v) ==
  IF type.style.range = "UINT" THEN UNITY_INT(Low(v, type.bytes))
                               ELSE Signed(Low(v, type.bytes), type.bytes)

\* The cast of all other macros.
Argument(type, v) ==
  IF IsSigned(type.style) THEN Signed(Low(v, type.bytes), type.bytes)
                          ELSE UNITY_INT(Low(v, type.bytes))

\* A delta is cast to the unsigned type, or passed as a UNITY_UINT.
DeltaArgument(type, delta) == Low(delta, type.bytes)

-----------------------------------------------------------------------------
UnityAssertEqualNumber ==
  /\ call.relation = "EQUAL"
  /\ LET expected == EqualArgument(call.type, call.expected)
         actual == EqualArgument(call.type, call.actual)
     IN  Conclude(expected # actual,
                  Shown(call.type.style, expected), Shown(call.type.style, actual))

\* Mutant of Ordered: unsigned numbers are compared as UNITY_INT.
OrderedSigned(style, smaller, larger) == smaller < larger

\* The comparisons of UNITY_INT, and of UNITY_UINT for UINT and HEX.
Ordered(style, smaller, larger) ==
  IF IsSigned(style) THEN smaller < larger ELSE UNITY_UINT(smaller) < UNITY_UINT(larger)

\* compare: the flags EQUAL_TO, GREATER_THAN and SMALLER_THAN.
UnityAssertGreaterOrLessOrEqualNumber(relation, compare) ==
  /\ call.relation = relation
  /\ LET style == call.type.style
         threshold == Argument(call.type, call.expected)
         actual == Argument(call.type, call.actual)
         failed == \/ threshold = actual /\ "EQUAL_TO" \notin compare
                   \/ Ordered(style, threshold, actual) /\ "SMALLER_THAN" \in compare
                   \/ Ordered(style, actual, threshold) /\ "GREATER_THAN" \in compare
     IN  Conclude(failed, Shown(style, threshold), Shown(style, actual))

TEST_ASSERT_NOT_EQUAL == UnityAssertGreaterOrLessOrEqualNumber("NOT_EQUAL", {})

TEST_ASSERT_GREATER_THAN ==
  UnityAssertGreaterOrLessOrEqualNumber("GREATER_THAN", {"GREATER_THAN"})

TEST_ASSERT_SMALLER_THAN ==
  UnityAssertGreaterOrLessOrEqualNumber("SMALLER_THAN", {"SMALLER_THAN"})

TEST_ASSERT_GREATER_OR_EQUAL ==
  UnityAssertGreaterOrLessOrEqualNumber("GREATER_OR_EQUAL", {"GREATER_THAN", "EQUAL_TO"})

TEST_ASSERT_SMALLER_OR_EQUAL ==
  UnityAssertGreaterOrLessOrEqualNumber("SMALLER_OR_EQUAL", {"SMALLER_THAN", "EQUAL_TO"})

UnityAssertNumbersWithin ==
  /\ call.relation = "WITHIN"
  /\ LET style == call.type.style
         expected == Argument(call.type, call.expected)
         actual == Argument(call.type, call.actual)
     IN  Conclude(Differs(style, DeltaArgument(call.type, call.delta), expected, actual),
                  Shown(style, expected), Shown(style, actual))

-----------------------------------------------------------------------------
\* The bits set in a UNITY_UINT.
Bits(v) == {i \in 0 .. (8 * ByteBits - 1) : (UNITY_UINT(v) \div 2^i) % 2 = 1}

\* From the highest bit of an int down: the bit, or an X outside of the mask.
UnityPrintMask(mask, number) ==
  [i \in 0 .. UNITY_INT_WIDTH - 1 |->
     CASE i \notin Bits(mask) -> "X"
       [] i \in Bits(mask) \cap Bits(number) -> "1"
       [] i \in Bits(mask) \ Bits(number) -> "0"]

\* Mutant of UnderMask: only the bits of an int are compared.
UnderMaskOfInt(mask, v) == {b \in Bits(mask) \cap Bits(v) : b < UNITY_INT_WIDTH}

UnderMask(mask, v) == Bits(mask) \cap Bits(v)

UnityAssertBits ==
  /\ call.relation = "BITS"
  /\ Conclude(UnderMask(call.mask, call.expected) # UnderMask(call.mask, call.actual),
              UnityPrintMask(call.mask, call.expected), UnityPrintMask(call.mask, call.actual))

Next ==
  \/ UnityAssertEqualNumber
  \/ TEST_ASSERT_NOT_EQUAL
  \/ TEST_ASSERT_GREATER_THAN \/ TEST_ASSERT_SMALLER_THAN
  \/ TEST_ASSERT_GREATER_OR_EQUAL \/ TEST_ASSERT_SMALLER_OR_EQUAL
  \/ UnityAssertNumbersWithin
  \/ UnityAssertBits

Spec == Init /\ [][Next]_vars

-----------------------------------------------------------------------------
\* The number of the macro's type that an argument is converted to.
Number(v) ==
  NumberOf([call.type.style EXCEPT !.length = call.type.bytes], Low(v, call.type.bytes))

Fails(threshold, actual) ==
  CASE call.relation = "EQUAL" -> actual # threshold
    [] call.relation = "NOT_EQUAL" -> actual = threshold
    [] call.relation = "GREATER_THAN" -> actual <= threshold
    [] call.relation = "SMALLER_THAN" -> actual >= threshold
    [] call.relation = "GREATER_OR_EQUAL" -> actual < threshold
    [] call.relation = "SMALLER_OR_EQUAL" -> actual > threshold
    [] call.relation = "WITHIN" ->
         Max({actual - threshold, threshold - actual}) > call.delta

\* A delta that the macro's unsigned type cannot hold is cut: 256 becomes 0.
DeltaFits == call.relation = "WITHIN" => call.delta \in 0 .. 2^(ByteBits * call.type.bytes) - 1

\* Bits under the mask in which the two differ.
WrongBits == {b \in Bits(call.mask) : (b \in Bits(call.expected)) # (b \in Bits(call.actual))}

IsWrong ==
  IF call.relation = "BITS" THEN WrongBits # {}
  ELSE Fails(Number(call.expected), Number(call.actual))

(***************************************************************************)
(* An integer assertion fails exactly when the numbers of the type it      *)
(* names are not in its relation, whatever sign extension the casts to     *)
(* UNITY_INT do and wherever the subtraction of WITHIN wraps around -      *)
(* provided the delta is a number of that type; and one on bits exactly    *)
(* when a bit under the mask differs, of all 64.                           *)
(***************************************************************************)
JudgesNumbers ==
  DeltaFits /\ outcome # "entered" => (outcome = "failed" <=> IsWrong)

(***************************************************************************)
(* A failed comparison of two different values shows them differently: the *)
(* digits printed include those that differ.  For masks only in the bits   *)
(* of an int, which is what UnityPrintMask shows of 64.                    *)
(***************************************************************************)
FailureIsVisible ==
  /\ call.relation \in {"EQUAL", "WITHIN"} /\ DeltaFits /\ outcome = "failed" =>
       Cardinality(report) = 2
  /\ call.relation = "BITS" /\ outcome = "failed" =>
       (Cardinality(report) = 2 <=>
          \E i \in Bits(call.mask) : /\ i < UNITY_INT_WIDTH
                                     /\ (i \in Bits(call.expected)) # (i \in Bits(call.actual)))
=============================================================================
