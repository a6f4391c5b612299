---------------------------- MODULE TickBarrier ----------------------------
(***************************************************************************)
(* What the time server promises, with no sockets and no client table:     *)
(* Size members enrol, then time moves in steps, and it moves only when    *)
(* every member has finished the current step.  A member finishes each     *)
(* step at most once.                                                      *)
(***************************************************************************)
EXTENDS Integers, FiniteSets

CONSTANTS Names, Size, Interval, Modulus

VARIABLES
  running,  \* has the clock started?
  members,  \* who takes part
  now,      \* the current time
  done      \* members that have finished the current step

vars == <<running, members, now, done>>

Init ==
  /\ running = FALSE
  /\ members = {}
  /\ now = 0
  /\ done = {}

Enrol(n) ==
  /\ ~ running
  /\ n \notin members
  /\ members' = members \cup {n}
  /\ UNCHANGED <<running, now, done>>

Start ==
  /\ ~ running
  /\ Cardinality(members) = Size
  /\ running' = TRUE
  /\ UNCHANGED <<members, now, done>>

Finish(n) ==
  /\ running
  /\ n \in members \ done
  /\ done' = done \cup {n}
  /\ UNCHANGED <<running, members, now>>

Advance ==
  /\ running
  /\ done = members
  /\ now' = (now + Interval) % Modulus
  /\ done' = {}
  /\ UNCHANGED <<running, members>>

Next ==
  \/ \E n \in Names : Enrol(n) \/ Finish(n)
  \/ Start
  \/ Advance

Spec == Init /\ [][Next]_vars
=============================================================================
