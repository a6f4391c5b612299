----------------------------- MODULE TestBench ------------------------------
(***************************************************************************)
(* The device tests on the runner of UnityRun.  A test initialises ports   *)
(* and asserts that this returned 0, makes calls and asserts what they     *)
(* return; it may close ports again.  The ports are static variables of    *)
(* the library, so they survive the test; init of a port in use returns    *)
(* -1.  What is tested may be wrong: the assertions on it fail now and     *)
(* then.                                                                   *)
(*                                                                         *)
(* Programs differ in who closes the ports.  The tests of test_gpio.c and  *)
(* test_pwm.c leave theirs open for a tearDown that closes all; those of   *)
(* test_spi.c close what they opened, and tearDown is empty.  A program    *)
(* "other" has any other tests: it is that of UnityRun.                    *)
(***************************************************************************)
EXTENDS UnityRun

CONSTANTS
  Suites,  \* per program, its tearDown and its tests, sequences of statements
  Ports    \* the ports they use

Statements == [do : {"open", "duplicate", "uninitialized", "check", "close", "closed"},
               port : Ports]

ASSUME BenchAssumption ==
  /\ "other" \notin DOMAIN Suites
  /\ \A p \in DOMAIN Suites :
       /\ Suites[p].tearDown \in {"closing", "empty"}
       /\ Suites[p].tests \in Seq(Seq(Statements))
       /\ Len(Suites[p].tests) <= MaxTests

\* The ports a test has opened itself and not closed when it comes to its
\* statement i.
OpenBefore(test, i) ==
  {p \in Ports : \E j \in 1 .. i - 1 :
     /\ test[j].do = "open" /\ test[j].port = p
     /\ \A k \in j + 1 .. i - 1 :
          ~ (test[k].do \in {"close", "closed"} /\ test[k].port = p)}

\* Run alone, a test finds the ports open or closed that it expects to be.
ExpectsItsOwn(test) ==
  \A i \in DOMAIN test :
    /\ test[i].do \in {"open", "uninitialized"} => test[i].port \notin OpenBefore(test, i)
    /\ test[i].do \in {"duplicate", "closed"} => test[i].port \in OpenBefore(test, i)

\* It has closed them at its end.
ClosesItsOwn(test) == OpenBefore(test, Len(test) + 1) = {}

\* What the author of a suite has to see to.
ASSUME SuiteAssumption ==
  \A p \in DOMAIN Suites : \A n \in DOMAIN Suites[p].tests :
    /\ ExpectsItsOwn(Suites[p].tests[n])
    /\ Suites[p].tearDown = "empty" => ClosesItsOwn(Suites[p].tests[n])

Programs == DOMAIN Suites \cup {"other"}

VARIABLES
  program,  \* the program that runs
  open,     \* ports in use
  step,     \* the statement of the running test
  faulty    \* ghost: what the running test checks was found wrong

bench     == <<open, step, faulty>>
benchVars == <<vars, program, bench>>

BenchInit ==
  Init /\ program \in Programs /\ open = {} /\ step = 1 /\ faulty = FALSE

-----------------------------------------------------------------------------
Suite == Suites[program].tests

\* tearDown closes all ports (GPIO, PWM), or does nothing (SPI, UART, CAN).
Closing == program # "other" /\ Suites[program].tearDown = "closing"

Test == Suite[Unity.NumberOfTests]

InTest == program # "other" /\ control = "test" /\ step <= Len(Test)

Statement == Test[step]

\* An assertion holds, and the test goes on; or it does not.
Asserted(condition) ==
  \/ condition /\ step' = step + 1 /\ UNCHANGED vars
  \/ ~ condition /\ UnityFail /\ UNCHANGED step

\* TEST_ASSERT_EQUAL_INT(0, init(...))
OpenPort ==
  /\ InTest /\ Statement.do = "open"
  /\ Asserted(Statement.port \notin open)
  /\ open' = open \cup {Statement.port}
  /\ UNCHANGED faulty

\* A second init: TEST_ASSERT_EQUAL_INT(-1, init(...))
OpenDuplicate ==
  /\ InTest /\ Statement.do = "duplicate"
  /\ Asserted(Statement.port \in open)
  /\ open' = open \cup {Statement.port}
  /\ UNCHANGED faulty

\* A call on a port not initialised yet, of close at times:
\* TEST_ASSERT_EQUAL_INT(-1, ...)
UseUninitialized ==
  /\ InTest /\ Statement.do = "uninitialized"
  /\ Asserted(Statement.port \notin open)
  /\ open' \in {open, open \ {Statement.port}}
  /\ UNCHANGED faulty

\* What the test is about.
Check ==
  /\ InTest /\ Statement.do = "check"
  /\ \E right \in BOOLEAN :
       /\ Asserted(right)
       /\ faulty' = (faulty \/ ~ right)
  /\ UNCHANGED open

\* Mutant of ClosePort: the end of the test closes nothing.
ClosePortForgotten ==
  /\ InTest /\ Statement.do = "close"
  /\ step' = step + 1
  /\ UNCHANGED <<vars, open, faulty>>

ClosePort ==
  /\ InTest /\ Statement.do = "close"
  /\ step' = step + 1
  /\ open' = open \ {Statement.port}
  /\ UNCHANGED <<vars, faulty>>

\* TEST_ASSERT_EQUAL_INT(0, close(...))
CloseOpened ==
  /\ InTest /\ Statement.do = "closed"
  /\ Asserted(Statement.port \in open)
  /\ open' = open \ {Statement.port}
  /\ UNCHANGED faulty

StartTest ==
  /\ Unity.NumberOfTests < Len(Suite)
  /\ UnityDefaultTestRun /\ step' = 1 /\ faulty' = FALSE /\ UNCHANGED open

EndOfFunction ==
  /\ control = "setUp" \/ (control = "test" /\ step > Len(Test))
  /\ Leave /\ UNCHANGED <<open, step, faulty>>

\* Mutant of TearDown: it closes the ports of the tests that passed.
TearDownUnlessFailed ==
  /\ control = "tearDown"
  /\ Leave
  /\ open' = IF Closing /\ ~ Flagged THEN {} ELSE open
  /\ UNCHANGED <<step, faulty>>

\* Mutant of TearDown: it closes the ports of the tests that failed.
TearDownIfFailed ==
  /\ control = "tearDown"
  /\ Leave
  /\ open' = IF Closing /\ Flagged THEN {} ELSE open
  /\ UNCHANGED <<step, faulty>>

TearDown ==
  /\ control = "tearDown"
  /\ Leave
  /\ open' = IF Closing THEN {} ELSE open
  /\ UNCHANGED <<step, faulty>>

RunnerStep ==
  /\ UnityConcludeTest \/ (UnityEnd /\ Unity.NumberOfTests = Len(Suite))
  /\ UNCHANGED bench

TestStep ==
  \/ EndOfFunction \/ TearDown
  \/ OpenPort \/ OpenDuplicate \/ UseUninitialized \/ Check
  \/ ClosePort \/ CloseOpened

BenchNext ==
  \/ program # "other" /\ (StartTest \/ TestStep \/ RunnerStep) /\ UNCHANGED program
  \/ program = "other" /\ Next /\ UNCHANGED <<program, bench>>

BenchSpec == BenchInit /\ [][BenchNext]_benchVars

\* The functions of the tests return, one way or another; the runner goes on.
FairBenchSpec ==
  /\ BenchSpec
  /\ WF_benchVars(program # "other" /\ TestStep /\ UNCHANGED program)
  /\ WF_benchVars(program = "other" /\ User /\ UNCHANGED <<program, bench>>)
  /\ WF_benchVars(UnityConcludeTest /\ UNCHANGED <<program, bench>>)

-----------------------------------------------------------------------------
(***************************************************************************)
(* With a tearDown that closes the ports a test fails only because of what *)
(* it checks itself, never because of what an earlier one left open: the   *)
(* tests that pass all leave their ports to tearDown, and those that fail  *)
(* leave them wherever an assertion took them.                             *)
(***************************************************************************)
BlameIsLocal == Closing /\ fate = "fail" => faulty

(***************************************************************************)
(* With an empty tearDown, and tests that close their ports, this still    *)
(* holds of the first test that fails: the suite never turns red without   *)
(* cause.                                                                  *)
(***************************************************************************)
FirstBlameIsRight ==
  program # "other" /\ ~ Closing /\ fate = "fail" =>
    faulty \/ \E i \in DOMAIN fates : fates[i] # "pass"

-----------------------------------------------------------------------------
(***************************************************************************)
(* test_spi.c tests "operations on uninitialized bus" in a test that does  *)
(* not close the bus first: no earlier test has left it open.              *)
(***************************************************************************)
UninitializedIsClosed ==
  InTest /\ Statement.do = "uninitialized" => Statement.port \notin open
=============================================================================
