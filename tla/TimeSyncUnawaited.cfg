CONSTANTS
  a = a
  b = b
  Clients = {a, b}
  Pieces = {a, b}
  AppId <- OwnNames
  MAX_CLIENTS = 2
  expected_clients = 1
  tick_interval_ns = 1
  TimeMod = 4
  MaxSockets = 1
  Hwm = 2
  Faults = {}
SPECIFICATION Spec
INVARIANT RunningIsRegistered
CHECK_DEADLOCK FALSE
