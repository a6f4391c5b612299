-------------------------- MODULE TestBenchProofs ---------------------------
(***************************************************************************)
(* Theorems about UnityRun, the runner alone, whatever the user's code     *)
(* does, for any number of tests and of exit statuses; then about          *)
(* TestBench, the device tests on it, for any suite.                       *)
(***************************************************************************)
EXTENDS TestBench, FiniteSetTheorems, TLAPS

-----------------------------------------------------------------------------
(* The runner.                                                             *)

\* The setjmp an abort returns to is that of the function that runs.
Framed ==
  /\ control \in {"setUp", "test"} => AbortFrame = "test"
  /\ control = "tearDown" => AbortFrame = "tearDown"

\* What the parent of the process will see.
ExitIsCount == control = "ended" => exit = Unity.TestFailures % ExitCodes

IInv ==
  /\ TypeOK /\ Framed /\ CountedByFirstFault /\ FlagsOfRunningTest /\ ExitIsCount
  /\ Unity.NumberOfTests <= MaxTests

\* One more test is over: it counts under its own fate and no other.
LEMMA AmongAppend ==
  ASSUME NEW s \in Seq(Fates), NEW e \in Fates, NEW f \in Fates
  PROVE  Cardinality({i \in DOMAIN Append(s, e) : Append(s, e)[i] = f}) =
         Cardinality({i \in DOMAIN s : s[i] = f}) + (IF e = f THEN 1 ELSE 0)
<1> DEFINE Old == {i \in DOMAIN s : s[i] = f}
           New == {i \in DOMAIN Append(s, e) : Append(s, e)[i] = f}
           n   == Len(s) + 1
<1>1. n \in Nat /\ DOMAIN s = 1 .. Len(s) /\ DOMAIN Append(s, e) = 1 .. n
      /\ n \notin Old /\ Len(s) \in Nat
  OBVIOUS
<1>2. IsFiniteSet(Old) /\ Cardinality(Old) \in Nat
  <2>1. IsFiniteSet(1 .. Len(s))
    BY <1>1, FS_Interval
  <2>2. Old \in SUBSET (1 .. Len(s))
    BY <1>1
  <2> QED
    BY <2>1, <2>2, FS_Subset, FS_CardinalityType
<1>3. New = IF e = f THEN Old \cup {n} ELSE Old
  <2>1. ASSUME NEW i \in 1 .. Len(s)
        PROVE  Append(s, e)[i] = s[i]
    OBVIOUS
  <2>2. Append(s, e)[n] = e
    OBVIOUS
  <2>3. 1 .. n = (1 .. Len(s)) \cup {n}
    BY <1>1
  <2> QED
    BY <1>1, <2>1, <2>2, <2>3
<1> HIDE DEF Old, New
<1>4. n \notin Old
  BY <1>1
<1>5. Cardinality(Old \cup {n}) = Cardinality(Old) + 1
  BY <1>2, <1>4, FS_AddElement
<1>6. Cardinality(New) = Cardinality(Old) + (IF e = f THEN 1 ELSE 0)
  BY <1>2, <1>3, <1>5
<1> QED
  BY <1>6 DEF Old, New

\* No more tests are counted under a fate than are over.
LEMMA AmongBound ==
  ASSUME NEW s \in Seq(Fates), NEW f \in Fates
  PROVE  Cardinality({i \in DOMAIN s : s[i] = f}) \in 0 .. Len(s)
<1>1. DOMAIN s = 1 .. Len(s) /\ Len(s) \in Nat
  OBVIOUS
<1>2. IsFiniteSet(1 .. Len(s)) /\ Cardinality(1 .. Len(s)) = Len(s)
  BY <1>1, FS_Interval
<1>3. {i \in DOMAIN s : s[i] = f} \in SUBSET (1 .. Len(s))
  BY <1>1
<1> DEFINE Part == {i \in DOMAIN s : s[i] = f}
<1> HIDE DEF Part
<1>4. Part \in SUBSET (1 .. Len(s))
  BY <1>3 DEF Part
<1>5. IsFiniteSet(Part) /\ Cardinality(Part) <= Len(s)
  BY <1>2, <1>4, FS_Subset
<1>6. Cardinality(Part) \in Nat
  BY <1>5, FS_CardinalityType
<1> QED
  BY <1>1, <1>5, <1>6 DEF Part

LEMMA InitIInv == Init => IInv
<1> SUFFICES ASSUME Init PROVE IInv
  OBVIOUS
<1> USE RunAssumption
<1>1. TypeOK /\ Framed /\ FlagsOfRunningTest /\ ExitIsCount
  BY DEF Init, UnityBegin, TypeOK, UNITY_STORAGE_T, UserCode, Fates, Framed,
         FlagsOfRunningTest, Running, ExitIsCount
<1>2. ASSUME NEW f PROVE Among(f) = 0
  <2>1. {i \in DOMAIN fates : fates[i] = f} = {}
    BY DEF Init
  <2> QED
    BY <2>1, FS_EmptySet DEF Among
<1>3. CountedByFirstFault /\ Unity.NumberOfTests <= MaxTests
  BY <1>2 DEF Init, UnityBegin, CountedByFirstFault, Running, UserCode
<1> QED
  BY <1>1, <1>3 DEF IInv

\* A step in user code either leaves the test as it is, or an abort or a
\* return takes it further; it flags at most the first fault.
Moves ==
  \/ control' = "test" /\ AbortFrame' = AbortFrame /\ control = "setUp"
  \/ control' = "tearDown" /\ AbortFrame' = "tearDown" /\ control \in {"setUp", "test"}
  \/ control' = "conclude" /\ AbortFrame' = AbortFrame /\ control = "tearDown"

Flags ==
  \/ UNCHANGED <<Unity, fate>>
  \/ /\ ~ Flagged /\ fate' = "fail"
     /\ Unity' = [Unity EXCEPT !.CurrentTestFailed = TRUE]
  \/ /\ ~ Flagged /\ fate' = "ignore"
     /\ Unity' = [Unity EXCEPT !.CurrentTestIgnored = TRUE]

LEMMA UserMoves ==
  ASSUME IInv, User
  PROVE  Moves /\ Flags /\ UNCHANGED <<exit, fates>>
<1>1. TEST_ABORT /\ control \in UserCode => Moves
  BY DEF IInv, Framed, TEST_ABORT, TEST_PROTECT, UserCode, Moves
<1>2. Return => Moves
  BY DEF Return, TEST_PROTECT, Moves
<1> QED
  BY <1>1, <1>2 DEF User, Leave, TEST_PASS, RETURN_IF_FAIL_OR_IGNORE, UnityFail,
                    UnityIgnore, Flags

LEMMA NextIInv == IInv /\ [Next]_vars => IInv'
<1> SUFFICES ASSUME IInv, [Next]_vars PROVE IInv'
  OBVIOUS
<1> USE RunAssumption
<1>1. CASE UnityDefaultTestRun
  <2>1. (TypeOK /\ Framed /\ FlagsOfRunningTest /\ ExitIsCount)'
    BY <1>1 DEF IInv, UnityDefaultTestRun, TypeOK, UNITY_STORAGE_T, UserCode, Fates, Framed,
                FlagsOfRunningTest, Running, ExitIsCount
  <2>2. \A f : Among(f)' = Among(f)
    BY <1>1 DEF UnityDefaultTestRun, Among
  <2>3. Unity.NumberOfTests = Len(fates)
    BY <1>1 DEF IInv, CountedByFirstFault, UnityDefaultTestRun, Running, UserCode, TypeOK
  <2>4. (CountedByFirstFault /\ Unity.NumberOfTests <= MaxTests)'
    BY <1>1, <2>2, <2>3 DEF IInv, UnityDefaultTestRun, TypeOK, UNITY_STORAGE_T,
                            CountedByFirstFault, Running, UserCode
  <2> QED
    BY <2>1, <2>4 DEF IInv
<1>2. CASE User
  <2>1. Moves /\ Flags /\ UNCHANGED <<exit, fates>>
    BY <1>2, UserMoves
  <2>2. Unity.NumberOfTests' = Unity.NumberOfTests
        /\ Unity.TestFailures' = Unity.TestFailures /\ Unity.TestIgnores' = Unity.TestIgnores
        /\ Unity' \in UNITY_STORAGE_T
    BY <2>1 DEF Flags, IInv, TypeOK, UNITY_STORAGE_T
  <2>3. Running /\ Running' /\ control' # "ended"
    BY <2>1 DEF Moves, Running, UserCode
  <2>4. (TypeOK /\ Framed /\ ExitIsCount)'
    BY <2>1, <2>2 DEF Moves, Flags, IInv, TypeOK, Framed, ExitIsCount, UserCode, Fates
  <2>5. FlagsOfRunningTest'
    BY <2>1, <2>3 DEF Flags, Flagged, IInv, TypeOK, UNITY_STORAGE_T, FlagsOfRunningTest
  <2>6. \A f : Among(f)' = Among(f)
    BY <2>1 DEF Among
  <2>7. (CountedByFirstFault /\ Unity.NumberOfTests <= MaxTests)'
    BY <2>1, <2>2, <2>3, <2>6 DEF IInv, CountedByFirstFault
  <2> QED
    BY <2>4, <2>5, <2>7 DEF IInv
<1>3. CASE UnityConcludeTest
  <2>1. Running /\ ~ Running' /\ control' = "main"
    BY <1>3 DEF UnityConcludeTest, Running, UserCode
  <2>2. /\ Unity.TestFailures' = Unity.TestFailures + (IF fate = "fail" THEN 1 ELSE 0)
        /\ Unity.TestIgnores' = Unity.TestIgnores + (IF fate = "ignore" THEN 1 ELSE 0)
        /\ Unity.NumberOfTests' = Unity.NumberOfTests
        /\ ~ Unity.CurrentTestFailed' /\ ~ Unity.CurrentTestIgnored'
        /\ Unity' \in UNITY_STORAGE_T
    <3>1. Unity \in UNITY_STORAGE_T /\ fate \in Fates
      BY DEF IInv, TypeOK
    <3>2. Unity.CurrentTestFailed = (fate = "fail")
      BY <2>1, <3>1 DEF IInv, FlagsOfRunningTest, UNITY_STORAGE_T
    <3>3. Unity.CurrentTestIgnored = (fate = "ignore")
      BY <2>1, <3>1 DEF IInv, FlagsOfRunningTest, UNITY_STORAGE_T
    <3>4. Unity' = Counted
      BY <1>3 DEF UnityConcludeTest
    <3>5. Unity.TestFailures \in Nat /\ Unity.TestIgnores \in Nat
      BY <3>1 DEF UNITY_STORAGE_T
    <3>6. Unity' \in UNITY_STORAGE_T /\ ~ Unity.CurrentTestFailed'
          /\ ~ Unity.CurrentTestIgnored' /\ Unity.NumberOfTests' = Unity.NumberOfTests
      <4> DEFINE i == Unity.TestIgnores + (IF Unity.CurrentTestIgnored THEN 1 ELSE 0)
                 f == Unity.TestFailures
                        + (IF Unity.CurrentTestFailed /\ ~ Unity.CurrentTestIgnored
                             THEN 1 ELSE 0)
      <4>1. i \in Nat /\ f \in Nat
        BY <3>5
      <4>2. Unity' = [Unity EXCEPT !.TestIgnores = i, !.TestFailures = f,
                                   !.CurrentTestFailed = FALSE, !.CurrentTestIgnored = FALSE]
        BY <3>4 DEF Counted
      <4> HIDE DEF i, f
      <4> QED
        BY <3>1, <4>1, <4>2 DEF UNITY_STORAGE_T
    <3>7. Unity.TestIgnores' = Unity.TestIgnores + (IF Unity.CurrentTestIgnored THEN 1 ELSE 0)
      BY <3>1, <3>4 DEF Counted, UNITY_STORAGE_T
    <3>8. Unity.TestFailures' = Unity.TestFailures
             + (IF Unity.CurrentTestFailed /\ ~ Unity.CurrentTestIgnored THEN 1 ELSE 0)
      BY <3>1, <3>4 DEF Counted, UNITY_STORAGE_T
    <3>9. Unity.TestIgnores' = Unity.TestIgnores + (IF fate = "ignore" THEN 1 ELSE 0)
      BY <3>3, <3>7
    <3>10. Unity.CurrentTestFailed /\ ~ Unity.CurrentTestIgnored <=> fate = "fail"
      BY <3>1, <3>2, <3>3
    <3>11. Unity.TestFailures' = Unity.TestFailures + (IF fate = "fail" THEN 1 ELSE 0)
      BY <3>8, <3>10
    <3> QED
      BY <3>6, <3>9, <3>11
  <2>3. (TypeOK /\ Framed /\ FlagsOfRunningTest /\ ExitIsCount)'
    BY <1>3, <2>1, <2>2 DEF UnityConcludeTest, IInv, TypeOK, Framed, FlagsOfRunningTest,
                            ExitIsCount, UserCode
  <2>4. ASSUME NEW f \in Fates
        PROVE  Among(f)' = Among(f) + (IF fate = f THEN 1 ELSE 0)
    BY <1>3, AmongAppend DEF UnityConcludeTest, Among, IInv, TypeOK
  <2>5. Len(fates') = Len(fates) + 1 /\ Len(fates) \in Nat
    BY <1>3 DEF UnityConcludeTest, IInv, TypeOK
  <2>6. (CountedByFirstFault /\ Unity.NumberOfTests <= MaxTests)'
    BY <2>1, <2>2, <2>4, <2>5 DEF IInv, CountedByFirstFault, Fates
  <2> QED
    BY <2>3, <2>6 DEF IInv
<1>4. CASE UnityEnd
  <2>1. ~ Running /\ ~ Running' /\ control' = "ended" /\ UNCHANGED <<Unity, AbortFrame, fate, fates>>
        /\ exit' = Unity.TestFailures % ExitCodes
    BY <1>4 DEF UnityEnd, Running, UserCode
  <2>2. exit' \in 0 .. (ExitCodes - 1)
    BY <2>1 DEF IInv, TypeOK, UNITY_STORAGE_T
  <2>3. (TypeOK /\ Framed /\ FlagsOfRunningTest /\ ExitIsCount)'
    BY <2>1, <2>2 DEF IInv, TypeOK, Framed, FlagsOfRunningTest, ExitIsCount, UserCode
  <2>4. (CountedByFirstFault /\ Unity.NumberOfTests <= MaxTests)'
    BY <2>1 DEF IInv, CountedByFirstFault, Among
  <2> QED
    BY <2>3, <2>4 DEF IInv
<1>5. CASE UNCHANGED vars
  BY <1>5 DEF vars, IInv, TypeOK, Framed, FlagsOfRunningTest, ExitIsCount, Running,
              CountedByFirstFault, Among
<1> QED
  BY <1>1, <1>2, <1>3, <1>4, <1>5 DEF Next

LEMMA IInvHolds == Spec => []IInv
  BY InitIInv, NextIInv, PTL DEF Spec

-----------------------------------------------------------------------------
\* No step takes the runner's counters, flags or control out of their types.
THEOREM RunnerTypeCorrect == Spec => []TypeOK
<1>1. IInv => TypeOK
  BY DEF IInv
<1> QED
  BY <1>1, IInvHolds, PTL

\* UnityConcludeTest counts each test once, under the first thing that went
\* wrong in it.
THEOREM EachCountedOnce == Spec => []CountedByFirstFault
<1>1. IInv => CountedByFirstFault
  BY DEF IInv
<1> QED
  BY <1>1, IInvHolds, PTL

\* No flag survives its test.
THEOREM FlagsAreFresh == Spec => []FlagsOfRunningTest
<1>1. IInv => FlagsOfRunningTest
  BY DEF IInv
<1> QED
  BY <1>1, IInvHolds, PTL

LEMMA IInvExit == IInv => ExitTellsFailure
<1> SUFFICES ASSUME IInv, control = "ended", Len(fates) < ExitCodes
             PROVE  exit = 0 <=> Among("fail") = 0
  BY DEF ExitTellsFailure
<1>1. Among("fail") \in 0 .. Len(fates) /\ Len(fates) \in Nat
  <2>1. fates \in Seq(Fates) /\ "fail" \in Fates
    BY DEF IInv, TypeOK, Fates
  <2> QED
    BY <2>1, AmongBound DEF Among
<1>2. exit = Among("fail") % ExitCodes
  BY DEF IInv, ExitIsCount, CountedByFirstFault
<1>3. Among("fail") % ExitCodes = Among("fail")
  BY <1>1, RunAssumption
<1> QED
  BY <1>2, <1>3

\* CTest sees 0 exactly when no test failed, if they are fewer than exit
\* statuses.
THEOREM ExitIsVerdict == Spec => []ExitTellsFailure
  BY IInvExit, IInvHolds, PTL

LEMMA StepTearsDown ==
  ASSUME IInv, [Next]_vars
  PROVE  [/\ control' = "conclude" /\ control # "conclude" => control = "tearDown"
          /\ control' = "tearDown" => control \in {"setUp", "test"}]_vars
<1>1. CASE User
  BY <1>1, UserMoves DEF Moves
<1> QED
  BY <1>1 DEF Next, UnityDefaultTestRun, UnityConcludeTest, UnityEnd, vars

\* Whatever is asserted, aborted or returned from, tearDown runs once in every
\* test that is concluded.
THEOREM TearDownRunsOnce == Spec => TearDownOnce
  BY StepTearsDown, IInvHolds, PTL DEF Spec, TearDownOnce

-----------------------------------------------------------------------------
(* The device tests.                                                       *)

BenchTypeOK ==
  /\ program \in Programs /\ open \subseteq Ports
  /\ step \in Nat \ {0} /\ faulty \in BOOLEAN

\* The programs of which the port table is known: those whose tearDown closes
\* all, and those whose tearDown is empty as long as no test has failed.
AllPassed == \A i \in DOMAIN fates : fates[i] = "pass"
Known == program # "other" /\ (Closing \/ AllPassed)

\* What is open is what the running test has opened itself.
OpenIsOwn ==
  /\ control \in {"main", "setUp"} => open = {}
  /\ control = "setUp" => step = 1
  /\ control = "test" => step <= Len(Test) + 1 /\ open = OpenBefore(Test, step)
  /\ control = "tearDown" /\ fate = "pass" /\ ~ Closing => open = {}
  /\ control = "conclude" /\ (fate = "pass" \/ Closing) => open = {}

\* No test is started but those of the suite.
InSuite == program # "other" => Unity.NumberOfTests <= Len(Suite)

BenchInv ==
  /\ BenchTypeOK
  /\ InSuite
  /\ Known => OpenIsOwn /\ (fate = "fail" => faulty)

\* A program of any form takes the steps of the runner, or none that it sees.
LEMMA BenchStep == [BenchNext]_benchVars => [Next]_vars
<1>1. ASSUME NEW condition, Asserted(condition) PROVE [Next]_vars
  BY <1>1 DEF Asserted, Next, User
<1>2. EndOfFunction \/ TearDown => Next
  BY DEF EndOfFunction, TearDown, Next, User
<1>3. OpenPort => [Next]_vars
  BY <1>1 DEF OpenPort
<1>4. UseUninitialized => [Next]_vars
  BY <1>1 DEF UseUninitialized
<1>5. Check => [Next]_vars
  BY <1>1 DEF Check
<1>6. ClosePort => [Next]_vars
  BY DEF ClosePort
<1>8. OpenDuplicate => [Next]_vars
  BY <1>1 DEF OpenDuplicate
<1>9. CloseOpened => [Next]_vars
  BY <1>1 DEF CloseOpened
<1>7. StartTest \/ RunnerStep => Next
  BY DEF StartTest, RunnerStep, Next
<1> QED
  BY <1>2, <1>3, <1>4, <1>5, <1>6, <1>7, <1>8, <1>9
  DEF BenchNext, TestStep, benchVars, vars

\* The device tests run as UnityRun says: what holds of every program under the
\* runner holds of them.
THEOREM TestsRunOnRunner == BenchSpec => Spec
<1>1. BenchInit => Init
  BY DEF BenchInit
<1> QED
  BY <1>1, BenchStep, PTL DEF BenchSpec, Spec

LEMMA BenchIInv == BenchSpec => []IInv
  BY TestsRunOnRunner, IInvHolds, PTL

\* A test opens nothing before its first statement, and each statement changes
\* what is open as OpenPort and ClosePort do.
LEMMA OpenBeforeFirst == ASSUME NEW test PROVE OpenBefore(test, 1) = {}
  BY DEF OpenBefore

LEMMA OpenBeforeNext ==
  ASSUME NEW test \in Seq(Statements), NEW i \in 1 .. Len(test)
  PROVE  OpenBefore(test, i + 1) =
           CASE test[i].do = "open"  -> OpenBefore(test, i) \cup {test[i].port}
             [] test[i].do \in {"close", "closed"} -> OpenBefore(test, i) \ {test[i].port}
             [] OTHER -> OpenBefore(test, i)
<1> DEFINE Opens(j, p)  == test[j].do = "open" /\ test[j].port = p
           Closes(j, p) == test[j].do \in {"close", "closed"} /\ test[j].port = p
           At(n, p) == \E j \in 1 .. n - 1 :
                         Opens(j, p) /\ \A k \in j + 1 .. n - 1 : ~ Closes(k, p)
<1>1. i \in Nat \ {0} /\ test[i] \in Statements /\ test[i].port \in Ports
  <2>1. test[i] \in Statements /\ i \in Nat \ {0}
    OBVIOUS
  <2> QED
    BY <2>1 DEF Statements
<1>2. \A n, p : p \in OpenBefore(test, n) <=> p \in Ports /\ At(n, p)
  BY DEF OpenBefore
<1>3. \A p : ~ (Opens(i, p) /\ Closes(i, p))
  OBVIOUS
<1> HIDE DEF Opens, Closes
<1>4. ASSUME NEW p
      PROVE  At(i + 1, p) <=> Opens(i, p) \/ (At(i, p) /\ ~ Closes(i, p))
  <2>1. ASSUME At(i + 1, p)
        PROVE  Opens(i, p) \/ (At(i, p) /\ ~ Closes(i, p))
    <3>1. PICK j \in 1 .. i : Opens(j, p) /\ \A k \in j + 1 .. i : ~ Closes(k, p)
      BY <1>1, <2>1
    <3>2. CASE j = i
      BY <3>1, <3>2
    <3>3. CASE j # i
      <4>1. j \in 1 .. i - 1 /\ i \in j + 1 .. i /\ \A k \in j + 1 .. i - 1 : k \in j + 1 .. i
        BY <1>1, <3>3
      <4> QED
        BY <3>1, <4>1
    <3> QED
      BY <3>2, <3>3
  <2>2. ASSUME Opens(i, p)
        PROVE  At(i + 1, p)
    <3>1. i \in 1 .. (i + 1) - 1 /\ i + 1 .. (i + 1) - 1 = {}
      BY <1>1
    <3> QED
      BY <2>2, <3>1
  <2>3. ASSUME At(i, p), ~ Closes(i, p)
        PROVE  At(i + 1, p)
    <3>1. PICK j \in 1 .. i - 1 : Opens(j, p) /\ \A k \in j + 1 .. i - 1 : ~ Closes(k, p)
      BY <2>3
    <3>2. j \in 1 .. (i + 1) - 1
          /\ \A k \in j + 1 .. (i + 1) - 1 : k = i \/ k \in j + 1 .. i - 1
      BY <1>1, <3>1
    <3> QED
      BY <2>3, <3>1, <3>2
  <2> QED
    BY <2>1, <2>2, <2>3
<1> HIDE DEF At
<1>5. ASSUME NEW p
      PROVE  p \in OpenBefore(test, i + 1) <=>
               p \in Ports /\ (Opens(i, p) \/ (p \in OpenBefore(test, i) /\ ~ Closes(i, p)))
  BY <1>2, <1>4
<1>6. CASE test[i].do = "open"
  BY <1>1, <1>2, <1>5, <1>6 DEF Opens, Closes
<1>7. CASE test[i].do \in {"close", "closed"}
  BY <1>1, <1>2, <1>5, <1>7 DEF Opens, Closes
<1>8. CASE test[i].do \notin {"open", "close", "closed"}
  BY <1>1, <1>2, <1>5, <1>8 DEF Opens, Closes
<1> QED
  BY <1>6, <1>7, <1>8

-----------------------------------------------------------------------------
\* The test that runs is one of the suite's, and right on its own.
LEMMA TestOfSuite ==
  ASSUME IInv, BenchInv, Running, program # "other"
  PROVE  /\ Test \in Seq(Statements) /\ ExpectsItsOwn(Test)
         /\ ~ Closing => ClosesItsOwn(Test)
<1>1. program \in DOMAIN Suites
  BY DEF BenchInv, BenchTypeOK, Programs
<1>2. Suite \in Seq(Seq(Statements)) /\ Suites[program].tearDown \in {"closing", "empty"}
  BY <1>1, BenchAssumption DEF Suite
<1>3. Unity.NumberOfTests \in 1 .. Len(Suite)
  <2>1. Len(fates) \in Nat /\ Unity.NumberOfTests \in Nat
    BY DEF IInv, TypeOK, UNITY_STORAGE_T
  <2>2. Unity.NumberOfTests <= Len(Suite) /\ Len(Suite) \in Nat
    BY <1>2 DEF BenchInv, InSuite
  <2> QED
    BY <2>1, <2>2 DEF IInv, CountedByFirstFault
<1>4. Unity.NumberOfTests \in DOMAIN Suites[program].tests
  BY <1>2, <1>3 DEF Suite
<1>5. Test \in Seq(Statements)
  BY <1>2, <1>3 DEF Test
<1>6. ExpectsItsOwn(Test) /\ (Suites[program].tearDown = "empty" => ClosesItsOwn(Test))
  BY <1>1, <1>4, SuiteAssumption DEF Test, Suite
<1> QED
  BY <1>2, <1>5, <1>6 DEF Closing

LEMMA InitBenchInv == BenchInit => BenchInv
<1> SUFFICES ASSUME BenchInit PROVE BenchInv
  OBVIOUS
<1>1. BenchTypeOK
  <2>1. faulty \in BOOLEAN
    BY Zenon DEF BenchInit
  <2>2. step \in Nat \ {0} /\ open \subseteq Ports /\ program \in Programs
    BY DEF BenchInit
  <2> QED
    BY <2>1, <2>2 DEF BenchTypeOK
<1>2. control = "main" /\ open = {} /\ fate = "pass"
  BY DEF BenchInit, Init
<1>3. OpenIsOwn
  BY <1>2 DEF OpenIsOwn
<1>4. InSuite
  <2>1. program # "other" => Suites[program].tests \in Seq(Seq(Statements))
    BY <1>1, BenchAssumption DEF BenchTypeOK, Programs
  <2>2. Unity.NumberOfTests = 0
    BY DEF BenchInit, Init, UnityBegin
  <2> QED
    BY <2>1, <2>2 DEF InSuite, Suite
<1> QED
  BY <1>1, <1>2, <1>3, <1>4 DEF BenchInv

\* A statement whose assertion holds, or that asserts nothing, leaves the runner
\* alone; one that fails takes the test to tearDown.
LEMMA FailedInTest ==
  ASSUME IInv, control = "test", UnityFail
  PROVE  /\ control' = "tearDown" /\ fate' = "fail" /\ UNCHANGED fates
         /\ Unity'.NumberOfTests = Unity.NumberOfTests
<1>1. Unity \in UNITY_STORAGE_T
  BY DEF IInv, TypeOK
<1> QED
  BY <1>1 DEF UnityFail, TEST_ABORT, TEST_PROTECT, IInv, Framed, UNITY_STORAGE_T

LEMMA TestStepBenchInv ==
  ASSUME IInv, BenchInv, program # "other", TestStep, UNCHANGED program
  PROVE  BenchInv'
<1>1. BenchTypeOK /\ InSuite /\ (Known => OpenIsOwn /\ (fate = "fail" => faulty))
  BY DEF BenchInv
<1>2. ASSUME InTest
      PROVE  /\ Test \in Seq(Statements) /\ ExpectsItsOwn(Test) /\ control = "test"
             /\ step \in 1 .. Len(Test) /\ Statement = Test[step]
             /\ Statement \in Statements /\ Statement.port \in Ports
  <2>1. Test \in Seq(Statements) /\ ExpectsItsOwn(Test) /\ control = "test"
    BY <1>2, TestOfSuite DEF InTest, Running, UserCode
  <2>2. step \in 1 .. Len(Test)
    BY <1>1, <1>2, <2>1 DEF InTest, BenchTypeOK
  <2>3. Statement = Test[step] /\ Test[step] \in Statements
    BY <2>1, <2>2 DEF Statement
  <2> QED
    BY <2>1, <2>2, <2>3 DEF Statements
<1>3. Closing' = Closing
  BY DEF Closing
<1>4. ASSUME UNCHANGED vars
      PROVE  Test' = Test /\ Known' = Known /\ Unity' = Unity /\ InSuite'
             /\ control' = control /\ fate' = fate
  BY <1>1, <1>3, <1>4 DEF vars, Test, Suite, Known, AllPassed, InSuite
\* The test goes on, and the next statement finds what this one has left open.
<1>5. ASSUME InTest, UNCHANGED vars, step' = step + 1, faulty' = faulty,
             open' \subseteq Ports,
             open = OpenBefore(Test, step) => open' = OpenBefore(Test, step + 1)
      PROVE  BenchInv'
  <2>1. BenchTypeOK'
    BY <1>1, <1>5 DEF BenchTypeOK
  <2>2. Known => OpenIsOwn'
    BY <1>1, <1>2, <1>4, <1>5 DEF OpenIsOwn
  <2> QED
    BY <1>1, <1>4, <1>5, <2>1, <2>2 DEF BenchInv
\* The test fails: for a reason of its own, if only its own ports are open.
<1>6. ASSUME InTest, UnityFail, UNCHANGED step, faulty' \in BOOLEAN, open' \subseteq Ports,
             OpenIsOwn => faulty'
      PROVE  BenchInv'
  <2>1. BenchTypeOK'
    BY <1>1, <1>6 DEF BenchTypeOK
  <2>2. control' = "tearDown" /\ fate' = "fail" /\ Known' = Known /\ InSuite'
    BY <1>1, <1>2, <1>3, <1>6, FailedInTest DEF Known, AllPassed, InSuite, Suite
  <2> QED
    BY <1>1, <1>6, <2>1, <2>2 DEF BenchInv, OpenIsOwn
\* A statement that asserts that its port is as the test has left it.
<1>7. ASSUME InTest, NEW condition, Asserted(condition), faulty' = faulty, open' \subseteq Ports,
             OpenIsOwn => condition,
             condition /\ open = OpenBefore(Test, step) => open' = OpenBefore(Test, step + 1)
      PROVE  BenchInv'
  <2>1. faulty' \in BOOLEAN
    BY <1>1, <1>7 DEF BenchTypeOK
  <2>2. CASE condition /\ step' = step + 1 /\ UNCHANGED vars
    BY <1>5, <1>7, <2>2
  <2>3. CASE ~ condition /\ UnityFail /\ UNCHANGED step
    BY <1>6, <1>7, <2>1, <2>3
  <2> QED
    BY <1>7, <2>2, <2>3 DEF Asserted
<1>8. CASE EndOfFunction
  <2>1. /\ UNCHANGED <<Unity, fate, fates, open, step, faulty>>
        /\ Test' = Test /\ Known' = Known /\ BenchTypeOK' /\ InSuite'
    BY <1>1, <1>3, <1>8
    DEF EndOfFunction, Leave, Test, Suite, Known, AllPassed, BenchTypeOK, InSuite
  <2>2. CASE control = "setUp"
    <3>1. control' = "test"
      BY <1>8, <2>2 DEF EndOfFunction, Leave, Return
    <3>2. Len(Test) \in Nat
      BY <2>2, TestOfSuite DEF Running, UserCode
    <3>3. ASSUME Known
          PROVE  OpenIsOwn'
      <4>1. open' = {} /\ step' = 1
        BY <1>1, <2>1, <2>2, <3>3 DEF OpenIsOwn
      <4>2. OpenBefore(Test', step') = {}
        BY <4>1, OpenBeforeFirst
      <4>3. step' <= Len(Test') + 1
        BY <2>1, <3>2, <4>1
      <4> QED
        BY <3>1, <4>1, <4>2, <4>3 DEF OpenIsOwn
    <3> QED
      BY <1>1, <2>1, <3>3 DEF BenchInv
  <2>3. CASE control = "test" /\ step > Len(Test)
    <3>1. control' = "tearDown"
      BY <1>8, <2>3 DEF EndOfFunction, Leave, Return, TEST_PROTECT
    <3>2. Test \in Seq(Statements) /\ (~ Closing => ClosesItsOwn(Test))
      BY <2>3, TestOfSuite DEF Running, UserCode
    <3>3. Known /\ ~ Closing => open = {}
      <4>1. Known => step = Len(Test) + 1
        BY <1>1, <2>3, <3>2 DEF OpenIsOwn, BenchTypeOK
      <4> QED
        BY <1>1, <2>3, <3>2, <4>1 DEF OpenIsOwn, ClosesItsOwn
    <3> QED
      BY <1>1, <1>3, <2>1, <3>1, <3>3 DEF BenchInv, OpenIsOwn
  <2> QED
    BY <1>8, <2>2, <2>3 DEF EndOfFunction
<1>9. CASE TearDown
  <2>1. UNCHANGED <<Unity, fate, fates, step, faulty>> /\ control = "tearDown"
        /\ control' = "conclude" /\ open' = (IF Closing THEN {} ELSE open)
    BY <1>9 DEF TearDown, Leave, Return, TEST_PROTECT
  <2>2. BenchTypeOK' /\ InSuite' /\ Known' = Known
    BY <1>1, <1>3, <2>1 DEF BenchTypeOK, InSuite, Suite, Known, AllPassed
  <2>3. Known => OpenIsOwn'
    BY <1>1, <1>3, <2>1 DEF OpenIsOwn
  <2> QED
    BY <1>1, <2>1, <2>2, <2>3 DEF BenchInv
<1>10. CASE OpenPort
  <2>1. InTest /\ Statement.do = "open" /\ open' = open \cup {Statement.port} /\ faulty' = faulty
        /\ Asserted(Statement.port \notin open)
    BY <1>10 DEF OpenPort
  <2>2. open' \subseteq Ports
    BY <1>1, <1>2, <2>1 DEF BenchTypeOK
  <2>3. open = OpenBefore(Test, step) => open' = OpenBefore(Test, step + 1)
    BY <1>2, <2>1, OpenBeforeNext
  <2>4. OpenIsOwn => Statement.port \notin open
    BY <1>2, <2>1 DEF OpenIsOwn, ExpectsItsOwn
  <2> QED
    BY <1>7, <2>1, <2>2, <2>3, <2>4
<1>11. CASE OpenDuplicate
  <2>1. InTest /\ Statement.do = "duplicate" /\ open' = open \cup {Statement.port}
        /\ faulty' = faulty /\ Asserted(Statement.port \in open)
    BY <1>11 DEF OpenDuplicate
  <2>2. open' \subseteq Ports
    BY <1>1, <1>2, <2>1 DEF BenchTypeOK
  <2>3. Statement.port \in open /\ open = OpenBefore(Test, step)
          => open' = OpenBefore(Test, step + 1)
    BY <1>2, <2>1, OpenBeforeNext
  <2>4. OpenIsOwn => Statement.port \in open
    BY <1>2, <2>1 DEF OpenIsOwn, ExpectsItsOwn
  <2> QED
    BY <1>7, <2>1, <2>2, <2>3, <2>4
<1>12. CASE UseUninitialized
  <2>1. InTest /\ Statement.do = "uninitialized" /\ faulty' = faulty
        /\ open' \in {open, open \ {Statement.port}} /\ Asserted(Statement.port \notin open)
    BY <1>12 DEF UseUninitialized
  <2>2. open' \subseteq Ports
    BY <1>1, <2>1 DEF BenchTypeOK
  <2>3. Statement.port \notin open /\ open = OpenBefore(Test, step)
          => open' = OpenBefore(Test, step + 1)
    BY <1>2, <2>1, OpenBeforeNext
  <2>4. OpenIsOwn => Statement.port \notin open
    BY <1>2, <2>1 DEF OpenIsOwn, ExpectsItsOwn
  <2> QED
    BY <1>7, <2>1, <2>2, <2>3, <2>4
<1>13. CASE Check
  <2>1. InTest /\ Statement.do = "check" /\ open' = open
    BY <1>13 DEF Check
  <2>2. PICK right \in BOOLEAN : Asserted(right) /\ faulty' = (faulty \/ ~ right)
    BY <1>13 DEF Check
  <2>3. open' \subseteq Ports /\ faulty' \in BOOLEAN /\ faulty \in BOOLEAN
    BY <1>1, <2>1, <2>2 DEF BenchTypeOK
  <2>4. open = OpenBefore(Test, step) => open' = OpenBefore(Test, step + 1)
    BY <1>2, <2>1, OpenBeforeNext
  <2>5. CASE right
    BY <1>5, <2>1, <2>2, <2>3, <2>4, <2>5 DEF Asserted
  <2>6. CASE ~ right
    BY <1>6, <2>1, <2>2, <2>3, <2>6 DEF Asserted
  <2> QED
    BY <2>5, <2>6
<1>14. CASE ClosePort
  <2>1. InTest /\ Statement.do = "close" /\ open' = open \ {Statement.port} /\ faulty' = faulty
        /\ UNCHANGED vars /\ step' = step + 1
    BY <1>14 DEF ClosePort
  <2>2. open = OpenBefore(Test, step) => open' = OpenBefore(Test, step + 1)
    BY <1>2, <2>1, OpenBeforeNext
  <2>3. open' \subseteq Ports
    BY <1>1, <2>1 DEF BenchTypeOK
  <2> QED
    BY <1>5, <2>1, <2>2, <2>3
<1>15. CASE CloseOpened
  <2>1. InTest /\ Statement.do = "closed" /\ open' = open \ {Statement.port}
        /\ faulty' = faulty /\ Asserted(Statement.port \in open)
    BY <1>15 DEF CloseOpened
  <2>2. open' \subseteq Ports
    BY <1>1, <2>1 DEF BenchTypeOK
  <2>3. open = OpenBefore(Test, step) => open' = OpenBefore(Test, step + 1)
    BY <1>2, <2>1, OpenBeforeNext
  <2>4. OpenIsOwn => Statement.port \in open
    BY <1>2, <2>1 DEF OpenIsOwn, ExpectsItsOwn
  <2> QED
    BY <1>7, <2>1, <2>2, <2>3, <2>4
<1> QED
  BY <1>8, <1>9, <1>10, <1>11, <1>12, <1>13, <1>14, <1>15 DEF TestStep

LEMMA NextBenchInv == IInv /\ BenchInv /\ [BenchNext]_benchVars => BenchInv'
<1> SUFFICES ASSUME IInv, BenchInv, [BenchNext]_benchVars PROVE BenchInv'
  OBVIOUS
<1>1. BenchTypeOK /\ InSuite /\ (Known => OpenIsOwn /\ (fate = "fail" => faulty))
  BY DEF BenchInv
<1>2. Unity \in UNITY_STORAGE_T /\ fates \in Seq(Fates) /\ fate \in Fates
  BY DEF IInv, TypeOK
<1>3. CASE program # "other" /\ StartTest /\ UNCHANGED program
  <2>1. /\ control = "main" /\ control' = "setUp" /\ fate' = "pass" /\ fates' = fates
        /\ step' = 1 /\ faulty' = FALSE /\ open' = open /\ program' = program
    BY <1>3 DEF StartTest, UnityDefaultTestRun
  <2>2. BenchTypeOK'
    <3>1. faulty' \in BOOLEAN
      BY <2>1, Zenon
    <3>2. step' \in Nat \ {0} /\ open' \subseteq Ports /\ program' \in Programs
      BY <1>1, <2>1 DEF BenchTypeOK
    <3> QED
      BY <3>1, <3>2 DEF BenchTypeOK
  <2>3. Known' = Known /\ (Known => OpenIsOwn')
    BY <1>1, <2>1 DEF Known, AllPassed, OpenIsOwn, Closing
  <2>4. InSuite'
    <3>1. Suites[program].tests \in Seq(Seq(Statements))
      BY <1>1, <1>3, BenchAssumption DEF BenchTypeOK, Programs
    <3>2. Len(Suite) \in Nat /\ Suite' = Suite
      BY <2>1, <3>1 DEF Suite
    <3>3. Unity'.NumberOfTests = Unity.NumberOfTests + 1 /\ Unity.NumberOfTests < Len(Suite)
      BY <1>2, <1>3 DEF StartTest, UnityDefaultTestRun, UNITY_STORAGE_T
    <3> QED
      BY <1>2, <3>2, <3>3 DEF InSuite, UNITY_STORAGE_T
  <2> QED
    BY <1>1, <2>1, <2>2, <2>3, <2>4 DEF BenchInv
<1>4. CASE program # "other" /\ TestStep /\ UNCHANGED program
  BY <1>4, TestStepBenchInv
<1>5. CASE UnityConcludeTest /\ UNCHANGED bench /\ UNCHANGED program
  <2>1. BenchTypeOK' /\ control = "conclude" /\ control' = "main" /\ fate' = fate
        /\ fates' = Append(fates, fate) /\ open' = open /\ faulty' = faulty
        /\ Closing' = Closing
    BY <1>1, <1>5 DEF UnityConcludeTest, bench, BenchTypeOK, Closing
  <2>2. AllPassed' => AllPassed /\ fate = "pass"
    <3>1. Append(fates, fate)[Len(fates) + 1] = fate /\ Len(fates) + 1 \in DOMAIN Append(fates, fate)
      BY <1>2
    <3>2. ASSUME NEW i \in DOMAIN fates
          PROVE  i \in DOMAIN Append(fates, fate) /\ Append(fates, fate)[i] = fates[i]
      BY <1>2
    <3> QED
      BY <2>1, <3>1, <3>2 DEF AllPassed
  <2>3. InSuite'
    BY <1>1, <1>2, <1>5 DEF InSuite, Suite, UnityConcludeTest, Counted, UNITY_STORAGE_T
  <2>4. Known' => Known /\ OpenIsOwn' /\ (fate = "fail" => faulty)
    BY <1>1, <1>5, <2>1, <2>2 DEF Known, OpenIsOwn
  <2> QED
    BY <2>1, <2>3, <2>4 DEF BenchInv
<1>6. CASE UnityEnd /\ UNCHANGED bench /\ UNCHANGED program
  BY <1>1, <1>6
  DEF UnityEnd, bench, BenchInv, BenchTypeOK, OpenIsOwn, Known, AllPassed, InSuite, Suite, Closing
<1>7. CASE program = "other" /\ UNCHANGED <<program, bench>>
  BY <1>1, <1>7 DEF BenchInv, BenchTypeOK, Known, bench, InSuite
<1>8. CASE UNCHANGED benchVars
  BY <1>1, <1>8
  DEF benchVars, vars, bench, BenchInv, BenchTypeOK, OpenIsOwn, Known, AllPassed, Test, InSuite,
      Suite, Closing
<1> QED
  BY <1>3, <1>4, <1>5, <1>6, <1>7, <1>8 DEF BenchNext, RunnerStep

LEMMA BenchInvHolds == BenchSpec => []BenchInv
  BY InitBenchInv, NextBenchInv, BenchIInv, PTL DEF BenchSpec

-----------------------------------------------------------------------------
\* With a tearDown that closes the ports, as those of test_gpio.c and test_pwm.c
\* do, a test fails because of what it checks and of nothing earlier tests left
\* behind, whether they failed or left their ports to tearDown.
THEOREM BlameStaysLocal == BenchSpec => []BlameIsLocal
<1>1. BenchInv => BlameIsLocal
  BY DEF BenchInv, Known, BlameIsLocal, Closing
<1> QED
  BY <1>1, BenchInvHolds, PTL

\* With an empty tearDown, as that of test_spi.c, this still holds of the first
\* test of the suite that fails.
THEOREM FirstBlameHolds == BenchSpec => []FirstBlameIsRight
<1>1. BenchInv => FirstBlameIsRight
  BY DEF BenchInv, Known, AllPassed, FirstBlameIsRight
<1> QED
  BY <1>1, BenchInvHolds, PTL
=============================================================================
