----------------------------- MODULE DevicePort -----------------------------
(***************************************************************************)
(* What UART, SPI and I2C promise to who attaches a simulated device to a  *)
(* port: calls on the port are handed to that device, to no other, and     *)
(* what it returns is what the caller gets.  A device may itself make any  *)
(* call before it returns, so calls nest; they end in the reverse order.   *)
(***************************************************************************)
EXTENDS Integers, Sequences

CONSTANTS
  PortIds, Ports,  \* ports a caller may name, and those there are
  Devices,         \* a device: its callback, or NoCallback, for each operation
  NoCallback,
  Exclusive,       \* must a port be closed before it is attached again?
  Depth            \* bound: how deep calls nest

VARIABLES
  open,      \* the ports in use
  attached,  \* attached[p]: the device on port p, while it is open
  calls,     \* the calls inside a callback: port and callback, innermost last
  result     \* of the call that ended last: its port, what it returned, and
             \* the device it attached, or NoCallback

vars == <<open, attached, calls, result>>

Init ==
  /\ open = {}
  /\ attached \in [Ports -> Devices]
  /\ calls = << >>
  /\ \E p \in PortIds : result = <<p, 0, NoCallback>>

Attach(p) ==
  /\ p \in Ports
  /\ Exclusive => p \notin open
  /\ open' = open \cup {p}
  /\ \E d \in Devices :
       /\ result' = <<p, 0, d>>
       /\ attached' = [attached EXCEPT ![p] = d]
  /\ UNCHANGED calls

Detach(p) ==
  /\ p \in open
  /\ result' = <<p, 0, NoCallback>>
  /\ open' = open \ {p}
  /\ UNCHANGED <<attached, calls>>

\* A call reaches the device.
Enter(p) ==
  /\ p \in open
  /\ Len(calls) < Depth
  /\ \E op \in DOMAIN attached[p] :
       /\ attached[p][op] # NoCallback
       /\ calls' = Append(calls, [port |-> p, callback |-> attached[p][op]])
  /\ UNCHANGED <<open, attached, result>>

\* The device returns r, and so does the call.
Leave(r) ==
  /\ calls # << >>
  /\ result' = <<calls[Len(calls)].port, r, NoCallback>>
  /\ calls' = SubSeq(calls, 1, Len(calls) - 1)
  /\ UNCHANGED <<open, attached>>

\* A call on an open port that does not need the device.
Answer(p, r) ==
  /\ p \in open
  /\ result' = <<p, r, NoCallback>>
  /\ UNCHANGED <<open, attached, calls>>

Refuse(p) ==
  /\ result' = <<p, -1, NoCallback>>
  /\ UNCHANGED <<open, attached, calls>>

Next ==
  \/ \E p \in PortIds :
       \/ Attach(p) \/ Detach(p) \/ Enter(p) \/ Refuse(p)
       \/ result'[2] \in Nat /\ Answer(p, result'[2])
  \/ result'[2] \in Int /\ Leave(result'[2])

Spec == Init /\ [][Next]_vars
=============================================================================
