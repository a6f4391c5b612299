----------------------------- MODULE MCTimeSync -----------------------------
(* Constant values for model checking TimeSync. *)
EXTENDS TimeSync, TLC

\* Each client has a short name of its own.
OwnNames == [c \in Clients |-> <<c>>]

\* Every client is given the same short name.
SameName == LET p == CHOOSE p \in Pieces : TRUE IN [c \in Clients |-> <<p>>]

\* Names of 58 to 63 characters.
LongNames == [c \in Clients |-> <<c, c>>]

ClientSymmetry == Permutations(Clients)
=============================================================================
