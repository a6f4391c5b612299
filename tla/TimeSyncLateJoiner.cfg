CONSTANTS
  a = a
  b = b
  x = x
  Clients = {a, b, x}
  Pieces = {a, b, x}
  AppId <- OwnNames
  MAX_CLIENTS = 3
  expected_clients = 2
  tick_interval_ns = 3
  TimeMod = 4
  MaxSockets = 1
  Hwm = 2
  Faults = {"timeout", "crash", "slow_join"}
SYMMETRY ClientSymmetry
SPECIFICATION Spec
INVARIANTS TypeOK RegistrationSound LockStep
PROPERTIES ImplementsBarrier
CHECK_DEADLOCK FALSE
