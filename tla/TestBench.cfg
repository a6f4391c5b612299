SPECIFICATION FairBenchSpec
CONSTANTS
  Suites <- MCSuites
  Ports = {0, 1, 2}
  MaxTests = 5
  ExitCodes = 4
INVARIANTS TypeOK CountedByFirstFault FlagsOfRunningTest ExitTellsFailure BlameIsLocal FirstBlameIsRight
PROPERTIES TearDownOnce TestsConclude
\* The program ends.
CHECK_DEADLOCK FALSE
