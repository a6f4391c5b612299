CONSTANTS
  a = a
  b = b
  Clients = {a, b}
  Pieces = {a, b}
  AppId <- OwnNames
  MAX_CLIENTS = 2
  expected_clients = 2
  tick_interval_ns = 1
  TimeMod = 2
  MaxSockets = 2
  MaxStarts = 2
  Hwm = 1
  Faults = {"timeout", "crash", "slow_join"}
SPECIFICATION RecoverySpec
INVARIANT RegistrationSound
PROPERTIES TimeRecovers OrphansReturn
\* A client that has lost a race and used up its lives stops.
CHECK_DEADLOCK FALSE
