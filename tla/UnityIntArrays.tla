--------------------------- MODULE UnityIntArrays ---------------------------
(***************************************************************************)
(* UnityAssertEqualIntArray and UnityAssertNumbersArrayWithin, element by  *)
(* element: pointers that walk through memory, elements of 1, 2, 4 or 8    *)
(* bytes read as the display style says, UNITY_INT arithmetic of 8 bytes.  *)
(* Memory holds bit patterns; a byte has ByteBits bits.  One behaviour is  *)
(* one call, made while the test has not failed.  Output is left out but   *)
(* for what it says of the element that failed.                            *)
(***************************************************************************)
EXTENDS UnityWords, Sequences, FiniteSetsExt

CONSTANTS
  Styles,      \* display styles: an element length and a range
  Lengths,     \* numbers of elements the caller passes
  Patterns(_), \* Patterns(n): what memory may hold in n bytes
  Deltas,      \* deltas the caller passes
  NullPtr

\* The pointers of a loop.
Pointers == [buffer : {"e", "a"}, at : Nat]

\* Assumed of the constants.
ArrayAssumption ==
  /\ NullPtr \notin Pointers
  /\ Styles \subseteq UNITY_DISPLAY_STYLE_T
  /\ \A n \in {8} \cup {s.length : s \in Styles} : Patterns(n) \subseteq 0 .. (2^(ByteBits * n) - 1)
  /\ Lengths \subseteq Nat
  /\ Deltas \subseteq 0 .. (2^(8 * ByteBits) - 1)

VARIABLES
  call,              \* the arguments of the call
  memory,            \* what the buffers hold
  expected, actual,  \* the pointers: a buffer and an index, or NullPtr
  elements,          \* elements still to compare
  outcome,           \* "entered", "running", "passed" or "failed"
  report             \* what is printed of a failure

vars == <<call, memory, expected, actual, elements, outcome, report>>

Loop == <<expected, actual, elements>>

-----------------------------------------------------------------------------
\* The element of a TEST_ASSERT_EACH_EQUAL: the low bytes of a number.
UnityNumToPtr(num, size) == << Low(num, size) >>

\* expect_val and actual_val of both functions.
Load(style, pattern) ==
  IF IsSigned(style) THEN Signed(pattern, style.length) ELSE UNITY_INT(pattern)

\* Mutant of Report: the expected value is shown twice.
ReportExpectedTwice(left, e, a) ==
  [element |-> call.num_elements - left - 1, expected |-> e, actual |-> e]

\* What is printed of a failure, left elements before the end of the array.
Report(left, e, a) ==
  [element |-> call.num_elements - left - 1, expected |-> e, actual |-> a]

NoReport == [element |-> -1, expected |-> 0, actual |-> 0]

UnityIsOneArrayNull == expected # actual /\ NullPtr \in {expected, actual}

-----------------------------------------------------------------------------
Start(buffer) == [buffer |-> buffer, at |-> 1]

\* The calls: each of the two functions, on arrays or on an array and a value.
Init ==
  \E style \in Styles, num \in Lengths, array \in BOOLEAN :
    /\ call \in [style : {style}, num_elements : {num}, to_array : {array},
                 function : {"equal"}, delta : {0}]
           \cup [style : {style}, num_elements : {num}, to_array : {array},
                 function : {"within"}, delta : Deltas]
    /\ LET Arrays(n) == [1 .. n -> Patterns(style.length)]
       IN  memory \in [e : IF array THEN Arrays(num)
                           ELSE {UnityNumToPtr(v, style.length) : v \in Patterns(8)},
                       a : Arrays(num)]
    /\ expected \in {NullPtr, Start("e"), Start("a")}
    /\ actual \in {NullPtr, Start("a")}
    /\ elements = num
    /\ outcome = "entered"
    /\ report = NoReport

\* The checks before the loop.
Enter ==
  /\ outcome = "entered"
  /\ outcome' = CASE call.num_elements = 0 -> "failed"
                  [] call.num_elements # 0 /\ expected = actual -> "passed"
                  [] call.num_elements # 0 /\ UnityIsOneArrayNull -> "failed"
                  [] OTHER -> "running"
  /\ UNCHANGED <<call, memory, Loop, report>>

At(p) == memory[p.buffer][p.at]

\* Mutant of Step: the value is an array as well.
StepBoth ==
  /\ expected' = [expected EXCEPT !.at = @ + 1]
  /\ actual' = [actual EXCEPT !.at = @ + 1]

Step ==
  /\ expected' = IF call.to_array THEN [expected EXCEPT !.at = @ + 1] ELSE expected
  /\ actual' = [actual EXCEPT !.at = @ + 1]

\* The elements that are compared.
ExpectedElement == Load(call.style, At(expected))
ActualElement   == Load(call.style, At(actual))

\* One turn of a loop; different says whether these elements differ.
Compare(different) ==
  /\ outcome = "running" /\ elements > 0
  /\ elements' = elements - 1
  /\ \/ /\ different
        /\ outcome' = "failed"
        /\ report' = Report(elements', ExpectedElement, ActualElement)
        /\ UNCHANGED <<expected, actual>>
     \/ ~ different /\ Step /\ UNCHANGED <<outcome, report>>
  /\ UNCHANGED <<call, memory>>

UnityAssertEqualIntArray ==
  call.function = "equal" /\ Compare(ExpectedElement # ActualElement)

UnityAssertNumbersArrayWithin ==
  /\ call.function = "within"
  /\ Compare(Differs(call.style, call.delta, ExpectedElement, ActualElement))

Finish ==
  /\ outcome = "running" /\ elements = 0
  /\ outcome' = "passed"
  /\ UNCHANGED <<call, memory, Loop, report>>

Next == Enter \/ UnityAssertEqualIntArray \/ UnityAssertNumbersArrayWithin \/ Finish

Spec == Init /\ [][Next]_vars

-----------------------------------------------------------------------------
\* Element k of the two arrays, as the number its style says it is.
ExpectedValue(k) == NumberOf(call.style, memory.e[IF call.to_array THEN k ELSE 1])
ActualValue(k)   == NumberOf(call.style, memory.a[k])

\* The elements that are too far apart, counted as numbers without a bound.
Wrong == {k \in 1 .. call.num_elements :
            Max({ExpectedValue(k) - ActualValue(k), ActualValue(k) - ExpectedValue(k)})
              > call.delta}

\* There is nothing to compare.
NothingToCompare == call.num_elements = 0 \/ UnityIsOneArrayNull

(***************************************************************************)
(* An assertion on two arrays, or on an array and a value, fails exactly   *)
(* when there is nothing to compare or, in two different arrays, two       *)
(* elements are further apart than delta as numbers of their type, though  *)
(* every subtraction wraps around in 64 bits; and it names the first such  *)
(* element.                                                                *)
(***************************************************************************)
ComparesNumbers ==
  /\ outcome \in {"passed", "failed"} =>
       (outcome = "failed" <=> NothingToCompare \/ (expected # actual /\ Wrong # {}))
  /\ outcome = "failed" => (NothingToCompare <=> report = NoReport)
  /\ report # NoReport =>
       /\ report.element + 1 \in Wrong
       /\ \A k \in Wrong : report.element + 1 <= k

(***************************************************************************)
(* Nothing is compared by accident: an assertion on no element fails, on a *)
(* missing array too, and otherwise the elements read are those there are. *)
(***************************************************************************)
ReadsWhatIsThere ==
  /\ outcome = "passed" => call.num_elements > 0
  /\ outcome = "running" /\ elements > 0 =>
       /\ expected.at \in DOMAIN memory[expected.buffer]
       /\ actual.at \in DOMAIN memory[actual.buffer]

(***************************************************************************)
(* A failure shows two different values.  HEX prints as many digits as the *)
(* element has, UINT all of a 64-bit number.                               *)
(***************************************************************************)
FailureIsVisible ==
  report # NoReport => Shown(call.style, report.expected) # Shown(call.style, report.actual)
=============================================================================
