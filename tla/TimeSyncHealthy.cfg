CONSTANTS
  a = a
  b = b
  x = x
  Clients = {a, b, x}
  Pieces = {a, b, x}
  AppId <- OwnNames
  MAX_CLIENTS = 2
  expected_clients = 2
  tick_interval_ns = 1
  TimeMod = 2
  MaxSockets = 1
  Hwm = 1
  Faults = {}
SPECIFICATION LiveSpec
PROPERTIES EveryRunningClientTicks HandshakeSucceeds TimeAdvances
