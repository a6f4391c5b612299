------------------------------ MODULE UartPort ------------------------------
(***************************************************************************)
(* The simulated UART ports, simulith_uart.c.  Calls come in any order,    *)
(* with valid and invalid arguments, from the application and from the     *)
(* receive callbacks it registered: a callback runs inside the call of     *)
(* simulith_uart_send that reached it.  Bytes are left out: data goes to   *)
(* the callback as it is, and no code writes to rx_buffer.                 *)
(***************************************************************************)
EXTENDS Integers, Sequences, FiniteSetsExt

CONSTANTS
  MAX_UART_PORTS,  \* ports (8)
  RX_BUFFER_SIZE,  \* length of rx_buffer (1024)
  Configs,         \* configurations the caller passes, NullPtr included
  Callbacks,       \* functions the caller registers
  Lengths,         \* lengths the caller passes
  Results,         \* what callbacks return
  MaxDepth,        \* bound: how deep sends nest
  NullPtr

Config == [baud_rate : Nat, data_bits : Nat, stop_bits : Nat,
           parity : Nat, flow_control : Nat]

\* Assumed of the constants.
UartAssumption ==
  /\ MAX_UART_PORTS \in Nat
  /\ RX_BUFFER_SIZE \in Nat \ {0}
  /\ Configs \subseteq Config \cup {NullPtr}
  /\ NullPtr \notin Callbacks
  /\ Lengths \subseteq Nat /\ Results \subseteq Int
  /\ MaxDepth \in Nat

Ports   == 0 .. (MAX_UART_PORTS - 1)
PortIds == 0 .. MAX_UART_PORTS   \* what a caller passes: one too many

VARIABLES
  uart_ports,  \* the table of ports
  calls,       \* the sends inside a callback, innermost last
  answer       \* the call that ended last: its name, port, length and result, and
               \* the device an init attached

vars == <<uart_ports, calls, answer>>

uart_port_t == [initialized    : BOOLEAN,
                config         : Config,
                rx_callback    : Callbacks \cup {NullPtr},
                rx_buffer_head : 0 .. (RX_BUFFER_SIZE - 1),
                rx_buffer_tail : 0 .. (RX_BUFFER_SIZE - 1)]

\* A device, as DevicePort sees it: the callback of the one operation.
AsDevice(rx_cb) == [op \in {"send"} |-> rx_cb]
Devices == {AsDevice(rx_cb) : rx_cb \in Callbacks \cup {NullPtr}}

CallNames == {"none", "init", "send", "receive", "available", "close"}

TypeOK ==
  /\ uart_ports \in [Ports -> uart_port_t]
  /\ calls \in Seq([port : Ports, callback : Callbacks, len : Lengths \ {0}])
  /\ Len(calls) <= MaxDepth
  /\ answer \in [call : CallNames, port : PortIds, len : Lengths \cup {0},
                 value : Lengths \cup Results \cup {0, -1},
                 device : Devices \cup {NullPtr}]

ZeroConfig == [baud_rate |-> 0, data_bits |-> 0, stop_bits |-> 0,
               parity |-> 0, flow_control |-> 0]

Init ==
  /\ uart_ports = [p \in Ports |->
                     [initialized |-> FALSE, config |-> ZeroConfig,
                      rx_callback |-> NullPtr,
                      rx_buffer_head |-> 0, rx_buffer_tail |-> 0]]
  /\ calls = << >>
  /\ answer = [call |-> "none", port |-> 0, len |-> 0, value |-> 0, device |-> NullPtr]

-----------------------------------------------------------------------------
\* Mutant of is_valid_config: no configuration is as good as a valid one.
ValidOrNull(config) == config = NullPtr \/ config.baud_rate \in {9600, 115200}

is_valid_config(config) ==
  /\ config # NullPtr
  /\ config.baud_rate \in {9600, 19200, 38400, 57600, 115200}
  /\ config.data_bits \in 5 .. 8
  /\ config.stop_bits \in 1 .. 2
  /\ config.parity <= 2
  /\ config.flow_control <= 2

Return(call, p, len, value) ==
  answer' = [call |-> call, port |-> p, len |-> len, value |-> value, device |-> NullPtr]

ReturnAttached(p, rx_cb) ==
  answer' = [call |-> "init", port |-> p, len |-> 0, value |-> 0, device |-> AsDevice(rx_cb)]

\* The early returns: -1, and no change.
Reject(call, p, len) ==
  Return(call, p, len, -1) /\ UNCHANGED <<uart_ports, calls>>

IsOpen(p) == p \in Ports /\ uart_ports[p].initialized

\* Mutant of simulith_uart_init: a NULL callback leaves the old one in place.
InitKeepingCallback(p, config, rx_cb) ==
  IF p \in Ports /\ is_valid_config(config) /\ ~ IsOpen(p)
    THEN /\ uart_ports' = [uart_ports EXCEPT ![p] =
                             [initialized |-> TRUE, config |-> config,
                              rx_callback |-> IF rx_cb = NullPtr THEN @.rx_callback
                                                                 ELSE rx_cb,
                              rx_buffer_head |-> 0, rx_buffer_tail |-> 0]]
         /\ ReturnAttached(p, rx_cb)
         /\ UNCHANGED calls
    ELSE Reject("init", p, 0)

simulith_uart_init(p, config, rx_cb) ==
  IF p \in Ports /\ is_valid_config(config) /\ ~ IsOpen(p)
    THEN /\ uart_ports' = [uart_ports EXCEPT ![p] =
                             [initialized |-> TRUE, config |-> config,
                              rx_callback |-> rx_cb,
                              rx_buffer_head |-> 0, rx_buffer_tail |-> 0]]
         /\ ReturnAttached(p, rx_cb)
         /\ UNCHANGED calls
    ELSE Reject("init", p, 0)

\* Mutant of SendDirect: without a callback the data loops back into rx_buffer.
SendIntoBuffer(p, len) ==
  /\ uart_ports[p].rx_callback = NullPtr
  /\ uart_ports' = [uart_ports EXCEPT ![p].rx_buffer_head = (@ + len) % RX_BUFFER_SIZE]
  /\ Return("send", p, len, len)
  /\ UNCHANGED calls

\* Without a callback the data goes nowhere.
SendDirect(p, len) ==
  /\ uart_ports[p].rx_callback = NullPtr
  /\ Return("send", p, len, len)
  /\ UNCHANGED <<uart_ports, calls>>

\* The callback is called: the send goes on when it returns.
SendLoopback(p, len) ==
  /\ uart_ports[p].rx_callback # NullPtr
  /\ Len(calls) < MaxDepth
  /\ calls' = Append(calls, [port |-> p, callback |-> uart_ports[p].rx_callback,
                             len |-> len])
  /\ UNCHANGED <<uart_ports, answer>>

\* buffer is FALSE when the caller passes NULL for the data.
simulith_uart_send(p, buffer, len) ==
  IF IsOpen(p) /\ buffer /\ len # 0
    THEN SendDirect(p, len) \/ SendLoopback(p, len)
    ELSE Reject("send", p, len)

\* The innermost callback returns, and with it the send that called it.
CallbackReturns(r) ==
  /\ calls # << >>
  /\ LET frame == calls[Len(calls)] IN Return("send", frame.port, frame.len, r)
  /\ calls' = SubSeq(calls, 1, Len(calls) - 1)
  /\ UNCHANGED uart_ports

bytes_available(p) ==
  (uart_ports[p].rx_buffer_head - uart_ports[p].rx_buffer_tail) % RX_BUFFER_SIZE

simulith_uart_receive(p, buffer, max_len) ==
  IF IsOpen(p) /\ buffer /\ max_len # 0
    THEN LET bytes_to_read == Min({bytes_available(p), max_len})
         IN  /\ uart_ports' = [uart_ports EXCEPT ![p].rx_buffer_tail =
                                 (@ + bytes_to_read) % RX_BUFFER_SIZE]
             /\ Return("receive", p, max_len, bytes_to_read)
             /\ UNCHANGED calls
    ELSE Reject("receive", p, max_len)

simulith_uart_available(p) ==
  IF IsOpen(p)
    THEN Return("available", p, 0, bytes_available(p)) /\ UNCHANGED <<uart_ports, calls>>
    ELSE Reject("available", p, 0)

simulith_uart_close(p) ==
  IF IsOpen(p)
    THEN /\ uart_ports' = [uart_ports EXCEPT ![p].initialized = FALSE]
         /\ Return("close", p, 0, 0)
         /\ UNCHANGED calls
    ELSE Reject("close", p, 0)

\* By the application, or by the callback that runs: the code cannot tell.
Next ==
  \/ \E p \in PortIds :
       \/ \E config \in Configs, rx_cb \in Callbacks \cup {NullPtr} :
            simulith_uart_init(p, config, rx_cb)
       \/ \E buffer \in BOOLEAN, len \in Lengths :
            simulith_uart_send(p, buffer, len) \/ simulith_uart_receive(p, buffer, len)
       \/ simulith_uart_available(p)
       \/ simulith_uart_close(p)
  \/ \E r \in Results : CallbackReturns(r)

Spec == Init /\ [][Next]_vars

-----------------------------------------------------------------------------
Device == INSTANCE DevicePort WITH
  NoCallback <- NullPtr,
  Exclusive  <- TRUE,
  Depth      <- MaxDepth,
  open       <- {p \in Ports : uart_ports[p].initialized},
  attached   <- [p \in Ports |-> AsDevice(uart_ports[p].rx_callback)],
  calls      <- [i \in DOMAIN calls |-> [port |-> calls[i].port,
                                         callback |-> calls[i].callback]],
  result     <- <<answer.port, answer.value, answer.device>>

(***************************************************************************)
(* What is sent reaches the callback of the init in force, never one of an *)
(* earlier life of the port, whatever callbacks do to the ports while they *)
(* run, and each send returns what its own callback returned.              *)
(***************************************************************************)
ImplementsDevicePort == Device!Spec

(***************************************************************************)
(* Nothing is ever received by polling: simulith_uart_receive and          *)
(* simulith_uart_available find an empty buffer on every port, whatever    *)
(* was sent to it.                                                         *)
(***************************************************************************)
NothingToPoll == \A p \in Ports : bytes_available(p) = 0

-----------------------------------------------------------------------------
(***************************************************************************)
(* simulith_uart.h: simulith_uart_send returns the "Number of bytes sent,  *)
(* -1 on failure".                                                         *)
(***************************************************************************)
SendCountsBytes ==
  answer.call = "send" => answer.value \in {-1, answer.len}
=============================================================================
