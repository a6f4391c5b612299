-------------------------- MODULE MCTimeSyncFaults --------------------------
(* Constant values for model checking TimeSyncFaults. *)
EXTENDS TimeSyncFaults

\* Each client has a short name of its own.
OwnNames == [c \in Clients |-> <<c>>]
=============================================================================
