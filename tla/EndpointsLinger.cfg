SPECIFICATION AloneSpec
CONSTANTS
  Addresses = {"first", "second"}
  BadAddress = "bad"
  MaxContexts = 2
  MaxSockets = 4
PROPERTY ClientStops
\* A client whose shutdown waits does nothing else.
CHECK_DEADLOCK FALSE
