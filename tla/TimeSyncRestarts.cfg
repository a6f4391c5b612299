CONSTANTS
  a = a
  b = b
  Clients = {a, b}
  Pieces = {a, b}
  AppId <- OwnNames
  MAX_CLIENTS = 3
  expected_clients = 2
  tick_interval_ns = 3
  TimeMod = 4
  MaxSockets = 3
  Hwm = 2
  Faults = {"timeout", "crash", "slow_join"}
SYMMETRY ClientSymmetry
SPECIFICATION Spec
INVARIANTS RespondedMeansDone AckAccounting
PROPERTIES AdvanceOnlyWhenAllDone ImplementsBarrier
CHECK_DEADLOCK FALSE
