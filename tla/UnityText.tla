----------------------------- MODULE UnityText -----------------------------
(***************************************************************************)
(* Unity's assertions on strings, character by character, and what they    *)
(* print: UnityAssertEqualString, UnityAssertEqualStringLen and            *)
(* UnityAssertEqualStringArray.  A string is a buffer of characters; char  *)
(* is signed.  One behaviour is one call, made while the test has not      *)
(* failed.                                                                 *)
(***************************************************************************)
EXTENDS Integers, SequencesExt

CONSTANTS
  Buffers,  \* what a string may be in: functions from 0 .. size - 1 to char
  Elements, \* the strings of an array: some of Buffers, or NullPtr
  Sizes,    \* numbers of elements the caller passes
  Limits,   \* lengths passed to UnityAssertEqualStringLen
  NullPtr

Terminated(s) == \E k \in DOMAIN s : s[k] = 0

\* A string has its terminator, or, if a length is passed, so many characters.
Strings == {s \in Buffers : Terminated(s)} \cup {NullPtr}

StringsOfLength(n) ==
  {s \in Buffers : Terminated(s) \/ 0 .. n - 1 \subseteq DOMAIN s} \cup {NullPtr}

\* Assumed of the constants.
TextAssumption ==
  /\ \A s \in Buffers : /\ DOMAIN s \subseteq Nat /\ \A k \in DOMAIN s : 0 .. k \subseteq DOMAIN s
                       /\ \A k \in DOMAIN s : s[k] \in -128 .. 127
  /\ NullPtr \notin Buffers
  /\ Elements \subseteq Strings
  /\ Sizes \subseteq Nat /\ Limits \subseteq Nat

VARIABLES
  call,     \* the function and its arguments
  i, j,     \* the character and the element being compared
  outcome,  \* "entered", "running", "passed" or "failed"
  report    \* the two texts a failure shows

vars == <<call, i, j, outcome, report>>

\* The calls of the three functions, the last one on two arrays or on a value.
StringCalls == [kind : {"string"}, expected : [1 .. 1 -> Strings], actual : [1 .. 1 -> Strings]]

StringLenCalls(n) ==
  [kind : {"len"}, length : {n}, expected : [1 .. 1 -> StringsOfLength(n)],
   actual : [1 .. 1 -> StringsOfLength(n)]]

ArrayCalls(n) ==
  [kind : {"array"}, expected : [1 .. n -> Elements], actual : [1 .. n -> Elements],
   pointers : {"arrays", "same", "expected_null", "actual_null"}]

EachCalls(n) ==
  [kind : {"each"}, expected : [1 .. 1 -> Elements], actual : [1 .. n -> Elements],
   pointers : {"arrays", "actual_null"}]

Init ==
  /\ \/ call \in StringCalls
     \/ \E n \in Limits : call \in StringLenCalls(n)
     \/ \E n \in Sizes : call \in ArrayCalls(n) \cup EachCalls(n)
  /\ i = 0 /\ j = 1
  /\ outcome = "entered"
  /\ report = << >>

-----------------------------------------------------------------------------
\* The digit of a nibble; the characters ' and \.
Nibble(n) == IF n <= 9 THEN 48 + n ELSE 55 + n
Quote == 39
Backslash == 92

UnityPrintNumberHex(number, nibbles) ==
  [k \in 1 .. nibbles |-> Nibble((number \div 16^(nibbles - k)) % 16)]

\* Mutant of UnityPrintChar: one digit for a code.
PrintCharOneDigit(c) ==
  IF c \in 32 .. 126 THEN <<c>> ELSE <<Backslash, 120>> \o UnityPrintNumberHex(c, 1)

\* Printable characters as they are, \r, \n, and codes \x.. for all others.
UnityPrintChar(c) ==
  CASE c \in 32 .. 126 -> <<c>>
    [] c = 13 -> <<Backslash, 114>>
    [] c = 10 -> <<Backslash, 110>>
    [] OTHER -> <<Backslash, 120>> \o UnityPrintNumberHex(c, 2)

PrintPrefix(s, n) == FlattenSeq([k \in 1 .. n |-> UnityPrintChar(s[k - 1])])

FirstZero(s) == CHOOSE k \in DOMAIN s : s[k] = 0 /\ \A l \in 0 .. k - 1 : s[l] # 0

UnityPrint(s) == PrintPrefix(s, FirstZero(s))

\* The characters that UnityPrintLen looks at: each before it tests the length.
PrintLenReads(s, length) == {k \in 0 .. length : \A l \in 0 .. k - 1 : s[l] # 0}

\* It prints what is in front of the last one.
UnityPrintLen(s, length) == PrintPrefix(s, Max(PrintLenReads(s, length)))

UnityStrNull == <<78, 85, 76, 76>>

UnityPrintExpectedAndActualStrings(e, a) ==
  [k \in 1 .. 2 |-> LET s == IF k = 1 THEN e ELSE a
                    IN  IF s = NullPtr THEN UnityStrNull
                        ELSE <<Quote>> \o UnityPrint(s) \o <<Quote>>]

UnityPrintExpectedAndActualStringsLen(e, a, length) ==
  [k \in 1 .. 2 |-> LET s == IF k = 1 THEN e ELSE a
                    IN  IF s = NullPtr THEN UnityStrNull
                        ELSE <<Quote>> \o UnityPrintLen(s, length) \o <<Quote>>]

-----------------------------------------------------------------------------
Act == call.actual[j]
Expd == IF call.kind = "each" THEN call.expected[1] ELSE call.expected[j]

Fail(texts) ==
  /\ outcome' = "failed"
  /\ report' = texts
  /\ UNCHANGED <<call, i, j>>

Become(result) ==
  /\ outcome' = result
  /\ UNCHANGED <<call, i, j, report>>

\* One turn of the loop over two strings, or their two pointers if one is
\* NULL: they differ, go on in the next character, or end.
Turn(inside, texts, End) ==
  IF NullPtr \in {Expd, Act}
    THEN IF Expd # Act THEN Fail(texts) ELSE End
  ELSE IF inside /\ (Expd[i] # 0 \/ Act[i] # 0)
    THEN IF Expd[i] # Act[i] THEN Fail(texts)
         ELSE i' = i + 1 /\ UNCHANGED <<call, j, outcome, report>>
  ELSE End

UnityAssertEqualString ==
  /\ call.kind = "string"
  /\ \/ outcome = "entered" /\ Become("running")
     \/ /\ outcome = "running"
        /\ Turn(TRUE, UnityPrintExpectedAndActualStrings(Expd, Act), Become("passed"))

\* Mutant of WithinLength: one character more.
WithinLengthAndOne(k) == k <= call.length

WithinLength(k) == k < call.length

UnityAssertEqualStringLen ==
  /\ call.kind = "len"
  /\ \/ outcome = "entered" /\ Become("running")
     \/ /\ outcome = "running"
        /\ Turn(WithinLength(i), UnityPrintExpectedAndActualStringsLen(Expd, Act, call.length),
                Become("passed"))

\* Mutant of NextElement: the index of the character is kept.
NextElementSameIndex ==
  IF j < Len(call.actual) THEN j' = j + 1 /\ UNCHANGED <<call, i, outcome, report>>
                          ELSE Become("passed")

NextElement ==
  IF j < Len(call.actual) THEN j' = j + 1 /\ i' = 0 /\ UNCHANGED <<call, outcome, report>>
                          ELSE Become("passed")

\* With ARRAY_TO_VAL the value takes the place of the expected array.
ExpectedIsNull ==
  IF call.kind = "each" THEN call.expected[1] = NullPtr ELSE call.pointers = "expected_null"

UnityAssertEqualStringArray ==
  /\ call.kind \in {"array", "each"}
  /\ \/ /\ outcome = "entered"
        /\ Become(CASE call.actual = << >> -> "failed"
                    [] call.actual # << >> /\ call.pointers = "same" -> "passed"
                    [] OTHER -> IF ExpectedIsNull # (call.pointers = "actual_null") THEN "failed"
                                ELSE IF ExpectedIsNull THEN "passed" ELSE "running")
     \/ /\ outcome = "running"
        /\ Turn(TRUE, UnityPrintExpectedAndActualStrings(Expd, Act), NextElement)

Next == UnityAssertEqualString \/ UnityAssertEqualStringLen \/ UnityAssertEqualStringArray

Spec == Init /\ [][Next]_vars

-----------------------------------------------------------------------------
\* The text of a string, of at most n characters (all if n is negative).
Text(s, n) ==
  [k \in {k \in DOMAIN s : (n < 0 \/ k < n) /\ \A l \in 0 .. k : s[l] # 0} |-> s[k]]

Limit == IF call.kind = "len" THEN call.length ELSE -1

SameText(e, a) ==
  IF NullPtr \in {e, a} THEN e = a ELSE Text(e, Limit) = Text(a, Limit)

ExpectedText(k) == IF call.kind = "each" THEN call.expected[1] ELSE call.expected[k]

\* The elements whose texts differ.
Wrong == {k \in DOMAIN call.actual : ~SameText(ExpectedText(k), call.actual[k])}

\* There is no array of strings, or one of two.  A NULL that every element is
\* to be equal to is taken for an array that is missing.
NothingToCompare ==
  /\ call.kind \in {"array", "each"}
  /\ \/ call.actual = << >>
     \/ call.pointers # "same" /\ ExpectedIsNull # (call.pointers = "actual_null")

\* Two pointers to one array, or two that are NULL.
SameArrays ==
  /\ call.kind \in {"array", "each"}
  /\ call.pointers = "same" \/ (ExpectedIsNull /\ call.pointers = "actual_null")

(***************************************************************************)
(* An assertion on strings, or on arrays of strings, fails exactly when    *)
(* there is nothing to compare or two texts differ, NULL being equal to    *)
(* NULL only; and the element named is the first that differs.             *)
(***************************************************************************)
ComparesText ==
  /\ outcome \in {"passed", "failed"} =>
       (outcome = "failed" <=> NothingToCompare \/ (~SameArrays /\ Wrong # {}))
  /\ outcome = "failed" => (NothingToCompare <=> report = << >>)
  /\ report # << >> => j \in Wrong /\ \A k \in Wrong : j <= k
  /\ outcome = "running" => \A k \in Wrong : j <= k

(***************************************************************************)
(* unity.c, 1777: "handle case of one pointers being null (if both null,   *)
(* test should pass)".  With EACH_EQUAL that case is not reached.          *)
(***************************************************************************)
NullsAreEqual ==
  call.kind = "each" /\ call.pointers = "arrays" /\ call.actual # << >> /\ Wrong = {} =>
    outcome # "failed"

(***************************************************************************)
(* The comparison reads no character behind a terminator, nor behind the   *)
(* length the caller gave: the loop ends by the shorter text.  What is     *)
(* printed of a failure stays in the string, too, but for one character,   *)
(* the one behind the length.                                              *)
(***************************************************************************)
ReadsInside ==
  /\ outcome = "running" /\ NullPtr \notin {Expd, Act} /\ (call.kind = "len" => WithinLength(i)) =>
       /\ \A s \in {Expd, Act} : i \in DOMAIN s /\ \A k \in 0 .. i - 1 : s[k] # 0
       /\ call.kind = "len" => i < call.length
  /\ report # << >> /\ call.kind = "len" =>
       \A s \in {Expd, Act} \ {NullPtr} :
         PrintLenReads(s, call.length) \subseteq DOMAIN s \cup {call.length}

(***************************************************************************)
(* TEST_ASSERT_EQUAL_STRING_LEN compares strings up to a length, which     *)
(* need no terminator then: printing them, too, should not read behind it. *)
(***************************************************************************)
PrintsInside ==
  report # << >> /\ call.kind = "len" =>
    \A s \in {Expd, Act} \ {NullPtr} : PrintLenReads(s, call.length) \subseteq DOMAIN s

(***************************************************************************)
(* A failure shows two different texts: codes keep all unprintable         *)
(* characters apart.  Only a text with a backslash of its own can look     *)
(* like an escape, which is not escaped itself.                            *)
(***************************************************************************)
FailureIsVisible ==
  report # << >> /\ (\A s \in {Expd, Act} \ {NullPtr} : \A k \in DOMAIN s : s[k] # Backslash) =>
    report[1] # report[2]
=============================================================================
