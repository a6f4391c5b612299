------------------------------- MODULE I2cBus -------------------------------
(***************************************************************************)
(* The simulated I2C buses, simulith_i2c.c.  Calls come in any order, from *)
(* the application and from the read and write callbacks it registered: a  *)
(* callback runs inside the call that reached it.  A bus is never closed,  *)
(* and one in use can be initialised again: the device that runs inside a  *)
(* call is then no longer the one on the bus.  Addresses, registers, bytes *)
(* and errno, which only tells why a call was refused, are left out.       *)
(***************************************************************************)
EXTENDS Integers, Sequences

CONSTANTS
  MAX_I2C_BUSES,  \* buses (8)
  Callbacks,      \* functions the caller registers
  Lengths,        \* lengths the caller passes
  Results,        \* what callbacks return
  MaxDepth,       \* bound: how deep calls nest
  NullPtr

\* Assumed of the constants.
I2cAssumption ==
  /\ MAX_I2C_BUSES \in Nat
  /\ NullPtr \notin Callbacks
  /\ Lengths \subseteq Nat /\ Results \subseteq Int
  /\ MaxDepth \in Nat

Buses  == 0 .. (MAX_I2C_BUSES - 1)
BusIds == 0 .. MAX_I2C_BUSES   \* what a caller passes: one too many

VARIABLES
  i2c_buses,  \* the table of buses
  calls,      \* the reads and writes inside a callback, innermost last
  answer      \* the call that ended last: its bus, its result and the device an
              \* init attached

vars == <<i2c_buses, calls, answer>>

i2c_bus_t == [initialized : BOOLEAN,
              read_cb : Callbacks \cup {NullPtr}, write_cb : Callbacks \cup {NullPtr}]

\* A device, as DevicePort sees it: a callback for each operation.
Ops     == {"read", "write"}
Devices == [Ops -> Callbacks \cup {NullPtr}]

AsDevice(read_cb, write_cb) == [op \in Ops |-> IF op = "read" THEN read_cb ELSE write_cb]

TypeOK ==
  /\ i2c_buses \in [Buses -> i2c_bus_t]
  /\ calls \in Seq([port : Buses, callback : Callbacks])
  /\ Len(calls) <= MaxDepth
  /\ answer \in [port : BusIds, value : Results \cup {0, -1},
                 device : Devices \cup {NullPtr}]

Init ==
  /\ i2c_buses = [b \in Buses |->
                    [initialized |-> FALSE, read_cb |-> NullPtr, write_cb |-> NullPtr]]
  /\ calls = << >>
  /\ answer = [port |-> 0, value |-> 0, device |-> NullPtr]

-----------------------------------------------------------------------------
Return(b, value) == answer' = [port |-> b, value |-> value, device |-> NullPtr]

\* The early returns: -1, and no change.
Reject(b) ==
  Return(b, -1) /\ UNCHANGED <<i2c_buses, calls>>

IsOpen(b) == b \in Buses /\ i2c_buses[b].initialized

\* Mutant of simulith_i2c_init: it is enough to have one of the callbacks.
InitReadOnly(b, read_cb, write_cb) ==
  IF b \in Buses /\ ~ (read_cb = NullPtr /\ write_cb = NullPtr)
    THEN /\ i2c_buses' = [i2c_buses EXCEPT ![b] =
                            [initialized |-> TRUE, read_cb |-> read_cb,
                             write_cb |-> write_cb]]
         /\ answer' = [port |-> b, value |-> 0, device |-> AsDevice(read_cb, write_cb)]
         /\ UNCHANGED calls
    ELSE Reject(b)

simulith_i2c_init(b, read_cb, write_cb) ==
  IF b \in Buses /\ read_cb # NullPtr /\ write_cb # NullPtr
    THEN /\ i2c_buses' = [i2c_buses EXCEPT ![b] =
                            [initialized |-> TRUE, read_cb |-> read_cb,
                             write_cb |-> write_cb]]
         /\ answer' = [port |-> b, value |-> 0, device |-> AsDevice(read_cb, write_cb)]
         /\ UNCHANGED calls
    ELSE Reject(b)

\* The callback is called: the read or write goes on when it returns.
ReachDevice(b, callback) ==
  /\ Len(calls) < MaxDepth
  /\ calls' = Append(calls, [port |-> b, callback |-> callback])
  /\ UNCHANGED <<i2c_buses, answer>>

\* Mutant of simulith_i2c_read: the bus is not looked at.
ReadAnyBus(b, buffer, len) ==
  IF b \in Buses /\ buffer /\ len # 0
    THEN ReachDevice(b, i2c_buses[b].read_cb)
    ELSE Reject(b)

\* buffer is FALSE when the caller passes NULL for the data.
simulith_i2c_read(b, buffer, len) ==
  IF IsOpen(b) /\ buffer /\ len # 0
    THEN ReachDevice(b, i2c_buses[b].read_cb)
    ELSE Reject(b)

simulith_i2c_write(b, buffer, len) ==
  IF IsOpen(b) /\ buffer /\ len # 0
    THEN ReachDevice(b, i2c_buses[b].write_cb)
    ELSE Reject(b)

\* Mutant of CallbackReturns: the call of the application ends, whatever runs.
OutermostReturns(r) ==
  /\ calls # << >>
  /\ Return(calls[1].port, r)
  /\ calls' = Tail(calls)
  /\ UNCHANGED i2c_buses

\* The innermost callback returns, and with it the call that reached it.
CallbackReturns(r) ==
  /\ calls # << >>
  /\ Return(calls[Len(calls)].port, r)
  /\ calls' = SubSeq(calls, 1, Len(calls) - 1)
  /\ UNCHANGED i2c_buses

\* By the application, or by the callback that runs: the code cannot tell.
Next ==
  \/ \E b \in BusIds :
       \/ \E read_cb, write_cb \in Callbacks \cup {NullPtr} :
            simulith_i2c_init(b, read_cb, write_cb)
       \/ \E buffer \in BOOLEAN, len \in Lengths :
            simulith_i2c_read(b, buffer, len) \/ simulith_i2c_write(b, buffer, len)
  \/ \E r \in Results : CallbackReturns(r)

Spec == Init /\ [][Next]_vars

-----------------------------------------------------------------------------
Device == INSTANCE DevicePort WITH
  PortIds    <- BusIds,
  Ports      <- Buses,
  NoCallback <- NullPtr,
  Exclusive  <- FALSE,
  Depth      <- MaxDepth,
  open       <- {b \in Buses : i2c_buses[b].initialized},
  attached   <- [b \in Buses |-> AsDevice(i2c_buses[b].read_cb, i2c_buses[b].write_cb)],
  result     <- <<answer.port, answer.value, answer.device>>

(***************************************************************************)
(* A read or a write reaches a callback of the last init of its bus, never *)
(* of a replaced device, though a replaced device may still be inside a    *)
(* call; and each call returns what its own callback returned.             *)
(***************************************************************************)
ImplementsDevicePort == Device!Spec
=============================================================================
