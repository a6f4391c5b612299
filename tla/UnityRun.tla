------------------------------ MODULE UnityRun ------------------------------
(***************************************************************************)
(* How Unity, the framework of the tests, runs a suite: UnityBegin, one    *)
(* UnityDefaultTestRun per RUN_TEST, UnityEnd, whose result main returns.  *)
(* setUp, the test and tearDown are the user's: they assert, fail, ignore  *)
(* or return, as they like.  An assertion that fails leaves them by        *)
(* longjmp to the setjmp of the last TEST_PROTECT.  Output is left out.    *)
(***************************************************************************)
EXTENDS Integers, Sequences, FiniteSets

CONSTANTS
  MaxTests,  \* bound: tests in a suite
  ExitCodes  \* exit statuses a process has (256)

ASSUME RunAssumption == MaxTests \in Nat /\ ExitCodes \in Nat \ {0}

VARIABLES
  Unity,       \* the counters and flags of UNITY_STORAGE_T
  AbortFrame,  \* the TEST_PROTECT that longjmp returns to
  control,     \* which function runs
  exit,        \* what main returned, once control is "ended"
  fate,        \* ghost: the first failure or ignore of the running test
  fates        \* ghost: the fates of the tests that are over

vars == <<Unity, AbortFrame, control, exit, fate, fates>>

UNITY_STORAGE_T == [NumberOfTests : Nat, TestFailures : Nat, TestIgnores : Nat,
                    CurrentTestFailed : BOOLEAN, CurrentTestIgnored : BOOLEAN]

UserCode == {"setUp", "test", "tearDown"}
Fates == {"pass", "fail", "ignore"}

TypeOK ==
  /\ Unity \in UNITY_STORAGE_T
  /\ AbortFrame \in {"none", "test", "tearDown"}
  /\ control \in {"main", "conclude", "ended"} \cup UserCode
  /\ exit \in 0 .. (ExitCodes - 1)
  /\ fate \in Fates /\ fates \in Seq(Fates)

UnityBegin ==
  Unity = [NumberOfTests |-> 0, TestFailures |-> 0, TestIgnores |-> 0,
           CurrentTestFailed |-> FALSE, CurrentTestIgnored |-> FALSE]

Init ==
  /\ UnityBegin
  /\ AbortFrame = "none"
  /\ control = "main"
  /\ exit = 0
  /\ fate = "pass" /\ fates = << >>

-----------------------------------------------------------------------------
\* RUN_TEST, up to the call of setUp.
UnityDefaultTestRun ==
  /\ control = "main"
  /\ Unity.NumberOfTests < MaxTests
  /\ Unity' = [Unity EXCEPT !.NumberOfTests = @ + 1]
  /\ AbortFrame' = "test"
  /\ control' = "setUp"
  /\ fate' = "pass"
  /\ UNCHANGED <<exit, fates>>

\* The second TEST_PROTECT: a failure in code comes back here.
TEST_PROTECT(code) ==
  AbortFrame' = code /\ control' = code

\* Mutant of TEST_ABORT: a test that fails is over at once.
AbortToEnd ==
  control' = "conclude" /\ UNCHANGED AbortFrame

\* Mutant of TEST_ABORT: a test that fails is tried again.
AbortToSetUp ==
  control' = "setUp" /\ UNCHANGED AbortFrame

\* TEST_ABORT: from the test to tearDown, from tearDown to the conclusion.
TEST_ABORT ==
  \/ AbortFrame = "test" /\ TEST_PROTECT("tearDown")
  \/ AbortFrame = "tearDown" /\ control' = "conclude" /\ UNCHANGED AbortFrame

\* The user's function ends without an abort.
Return ==
  \/ control = "setUp" /\ control' = "test" /\ UNCHANGED AbortFrame
  \/ control = "test" /\ TEST_PROTECT("tearDown")
  \/ control = "tearDown" /\ control' = "conclude" /\ UNCHANGED AbortFrame

Leave == Return /\ UNCHANGED <<Unity, exit, fate, fates>>

\* The user may leave without an assertion: TEST_PASS.
TEST_PASS ==
  control \in UserCode /\ TEST_ABORT /\ UNCHANGED <<Unity, exit, fate, fates>>

Flagged == Unity.CurrentTestFailed \/ Unity.CurrentTestIgnored

\* RETURN_IF_FAIL_OR_IGNORE: the next assertion, whichever, ends a function
\* that goes on after a failure; none does but tearDown.
RETURN_IF_FAIL_OR_IGNORE ==
  control \in UserCode /\ Flagged /\ TEST_ABORT /\ UNCHANGED <<Unity, exit, fate, fates>>

\* UnityFail, and every assertion whose condition does not hold.
UnityFail ==
  /\ control \in UserCode /\ ~ Flagged
  /\ Unity' = [Unity EXCEPT !.CurrentTestFailed = TRUE]
  /\ TEST_ABORT
  /\ fate' = "fail"
  /\ UNCHANGED <<exit, fates>>

\* Mutant of UnityIgnore: a test that failed can still be ignored.
IgnoreAfterFailure ==
  /\ control \in UserCode
  /\ Unity' = [Unity EXCEPT !.CurrentTestIgnored = TRUE]
  /\ TEST_ABORT
  /\ fate' = IF fate = "pass" THEN "ignore" ELSE fate
  /\ UNCHANGED <<exit, fates>>

UnityIgnore ==
  /\ control \in UserCode /\ ~ Flagged
  /\ Unity' = [Unity EXCEPT !.CurrentTestIgnored = TRUE]
  /\ TEST_ABORT
  /\ fate' = "ignore"
  /\ UNCHANGED <<exit, fates>>

\* Mutant of Counted: a test that is not ignored fails or passes for ever.
CountedFlagsKept ==
  IF Unity.CurrentTestIgnored
    THEN [Unity EXCEPT !.TestIgnores = @ + 1, !.CurrentTestIgnored = FALSE]
    ELSE [Unity EXCEPT !.TestFailures = @ + (IF Unity.CurrentTestFailed THEN 1 ELSE 0)]

Counted ==
  [Unity EXCEPT
     !.TestIgnores  = @ + (IF Unity.CurrentTestIgnored THEN 1 ELSE 0),
     !.TestFailures = @ + (IF Unity.CurrentTestFailed /\ ~ Unity.CurrentTestIgnored
                             THEN 1 ELSE 0),
     !.CurrentTestFailed = FALSE, !.CurrentTestIgnored = FALSE]

UnityConcludeTest ==
  /\ control = "conclude"
  /\ Unity' = Counted
  /\ control' = "main"
  /\ fates' = Append(fates, fate)
  /\ UNCHANGED <<AbortFrame, exit, fate>>

\* Mutant of UnityEnd: ignored tests excuse the failed ones.
EndExcused ==
  /\ control = "main"
  /\ exit' = IF Unity.TestIgnores = 0 THEN Unity.TestFailures % ExitCodes ELSE 0
  /\ control' = "ended"
  /\ UNCHANGED <<Unity, AbortFrame, fate, fates>>

\* Mutant of UnityEnd: an exit status is as wide as an int.
EndUnreduced ==
  /\ control = "main"
  /\ exit' = Unity.TestFailures
  /\ control' = "ended"
  /\ UNCHANGED <<Unity, AbortFrame, fate, fates>>

\* return UNITY_END(), of which the parent sees the low bits.
UnityEnd ==
  /\ control = "main"
  /\ exit' = Unity.TestFailures % ExitCodes
  /\ control' = "ended"
  /\ UNCHANGED <<Unity, AbortFrame, fate, fates>>

User == Leave \/ TEST_PASS \/ RETURN_IF_FAIL_OR_IGNORE \/ UnityFail \/ UnityIgnore

Next == UnityDefaultTestRun \/ User \/ UnityConcludeTest \/ UnityEnd

Spec == Init /\ [][Next]_vars

-----------------------------------------------------------------------------
Running == control \in UserCode \cup {"conclude"}

Among(f) == Cardinality({i \in DOMAIN fates : fates[i] = f})

(***************************************************************************)
(* Every test that was started is counted once, under the first thing that *)
(* went wrong in it: a failure in tearDown counts, one that follows an     *)
(* ignore does not, and nothing an earlier test did counts again.          *)
(***************************************************************************)
CountedByFirstFault ==
  /\ Unity.TestFailures = Among("fail")
  /\ Unity.TestIgnores = Among("ignore")
  /\ Unity.NumberOfTests = Len(fates) + (IF Running THEN 1 ELSE 0)

(***************************************************************************)
(* The flags of UNITY_STORAGE_T are those of the running test, never left  *)
(* over from an earlier one, whose failure would end the next setUp.       *)
(***************************************************************************)
FlagsOfRunningTest ==
  /\ Unity.CurrentTestFailed <=> Running /\ fate = "fail"
  /\ Unity.CurrentTestIgnored <=> Running /\ fate = "ignore"

(***************************************************************************)
(* The exit status, all that CTest sees, is 0 exactly when no test failed, *)
(* for suites of fewer tests than there are exit statuses.                 *)
(***************************************************************************)
ExitTellsFailure ==
  control = "ended" /\ Len(fates) < ExitCodes => (exit = 0 <=> Among("fail") = 0)

(***************************************************************************)
(* tearDown runs once for each test, whatever happened in setUp and in the *)
(* test; no abort leads back to it or past it.                             *)
(***************************************************************************)
TearDownOnce ==
  [][/\ control' = "conclude" /\ control # "conclude" => control = "tearDown"
     /\ control' = "tearDown" => control \in {"setUp", "test"}]_vars

(***************************************************************************)
(* A test that was started is concluded.                                   *)
(***************************************************************************)
TestsConclude == (control = "setUp") ~> (control = "main")
=============================================================================
