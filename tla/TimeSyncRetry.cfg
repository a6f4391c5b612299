CONSTANTS
  a = a
  b = b
  Clients = {a, b}
  Pieces = {a, b}
  AppId <- OwnNames
  MAX_CLIENTS = 2
  expected_clients = 2
  tick_interval_ns = 1
  TimeMod = 4
  MaxSockets = 2
  Hwm = 2
  Faults = {"timeout"}
SPECIFICATION Spec
INVARIANT RefusedMeansTaken
CHECK_DEADLOCK FALSE
