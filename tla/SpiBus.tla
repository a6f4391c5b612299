------------------------------- MODULE SpiBus -------------------------------
(***************************************************************************)
(* The simulated SPI buses, simulith_spi.c.  Calls come in any order, with *)
(* valid and invalid arguments, from the application and from the transfer *)
(* callbacks it registered: a callback runs inside the transfer that       *)
(* reached it.  The bytes are the callback's business and left out.        *)
(***************************************************************************)
EXTENDS Integers, Sequences

CONSTANTS
  MAX_SPI_BUSES,  \* buses, and chip selects of a bus (8)
  Configs,        \* configurations the caller passes, NullPtr included
  Callbacks,      \* functions the caller registers
  Lengths,        \* lengths the caller passes
  Results,        \* what callbacks return
  MaxDepth,       \* bound: how deep transfers nest
  NullPtr

Config == [clock_hz : Nat, mode : Nat, bit_order : Nat, cs_polarity : Nat, data_bits : Nat]

\* Assumed of the constants.
SpiAssumption ==
  /\ MAX_SPI_BUSES \in Nat
  /\ Configs \subseteq Config \cup {NullPtr}
  /\ NullPtr \notin Callbacks
  /\ Lengths \subseteq Nat /\ Results \subseteq Int
  /\ MaxDepth \in Nat

Buses  == 0 .. (MAX_SPI_BUSES - 1)
BusIds == 0 .. MAX_SPI_BUSES   \* what a caller passes: one too many

VARIABLES
  spi_buses,  \* the table of buses
  calls,      \* the transfers inside a callback, innermost last
  answer      \* the call that ended last: its name, bus, length and result, and
              \* the device an init attached

vars == <<spi_buses, calls, answer>>

spi_bus_t == [initialized : BOOLEAN, config : Config,
              transfer_callback : Callbacks \cup {NullPtr}]

\* A device, as DevicePort sees it: the callback of the one operation.
AsDevice(transfer_cb) == [op \in {"transfer"} |-> transfer_cb]
Devices == {AsDevice(transfer_cb) : transfer_cb \in Callbacks \cup {NullPtr}}

TypeOK ==
  /\ spi_buses \in [Buses -> spi_bus_t]
  /\ calls \in Seq([port : Buses, cs : Buses, callback : Callbacks, len : Lengths \ {0}])
  /\ Len(calls) <= MaxDepth
  /\ answer \in [call : {"none", "init", "transfer", "close"}, port : BusIds,
                 len : Lengths \cup {0}, value : Results \cup {0, -1},
                 device : Devices \cup {NullPtr}]

ZeroConfig == [clock_hz |-> 0, mode |-> 0, bit_order |-> 0, cs_polarity |-> 0, data_bits |-> 0]

Init ==
  /\ spi_buses = [b \in Buses |-> [initialized |-> FALSE, config |-> ZeroConfig,
                                   transfer_callback |-> NullPtr]]
  /\ calls = << >>
  /\ answer = [call |-> "none", port |-> 0, len |-> 0, value |-> 0, device |-> NullPtr]

-----------------------------------------------------------------------------
\* Mutant of is_valid_config: no configuration is as good as a valid one.
ValidOrNull(config) == config = NullPtr \/ config.clock_hz >= 1000

is_valid_config(config) ==
  /\ config # NullPtr
  /\ 1000 <= config.clock_hz /\ config.clock_hz <= 100000000
  /\ config.mode <= 3
  /\ config.bit_order <= 1
  /\ config.cs_polarity <= 1
  /\ config.data_bits \in 4 .. 16

Return(call, b, len, value) ==
  answer' = [call |-> call, port |-> b, len |-> len, value |-> value, device |-> NullPtr]

ReturnAttached(b, transfer_cb) ==
  answer' = [call |-> "init", port |-> b, len |-> 0, value |-> 0,
             device |-> AsDevice(transfer_cb)]

\* The early returns, with no change.
ReturnEarly(call, b, len, value) ==
  Return(call, b, len, value) /\ UNCHANGED <<spi_buses, calls>>

IsOpen(b) == b \in Buses /\ spi_buses[b].initialized

\* Mutant of simulith_spi_init: the callback may be NULL.
InitWithNull(b, config, transfer_cb) ==
  IF b \in Buses /\ is_valid_config(config) /\ ~ IsOpen(b)
    THEN /\ spi_buses' = [spi_buses EXCEPT ![b] =
                            [initialized |-> TRUE, config |-> config,
                             transfer_callback |-> transfer_cb]]
         /\ ReturnAttached(b, transfer_cb)
         /\ UNCHANGED calls
    ELSE ReturnEarly("init", b, 0, -1)

\* Mutant of simulith_spi_init: a bus in use is initialised again.
InitAgain(b, config, transfer_cb) ==
  IF b \in Buses /\ is_valid_config(config) /\ transfer_cb # NullPtr
    THEN /\ spi_buses' = [spi_buses EXCEPT ![b] =
                            [initialized |-> TRUE, config |-> config,
                             transfer_callback |-> transfer_cb]]
         /\ ReturnAttached(b, transfer_cb)
         /\ UNCHANGED calls
    ELSE ReturnEarly("init", b, 0, -1)

simulith_spi_init(b, config, transfer_cb) ==
  IF b \in Buses /\ is_valid_config(config) /\ transfer_cb # NullPtr /\ ~ IsOpen(b)
    THEN /\ spi_buses' = [spi_buses EXCEPT ![b] =
                            [initialized |-> TRUE, config |-> config,
                             transfer_callback |-> transfer_cb]]
         /\ ReturnAttached(b, transfer_cb)
         /\ UNCHANGED calls
    ELSE ReturnEarly("init", b, 0, -1)

\* The callback is called: the transfer goes on when it returns.
ReachDevice(b, cs, len) ==
  /\ Len(calls) < MaxDepth
  /\ calls' = Append(calls, [port |-> b, cs |-> cs, len |-> len,
                             callback |-> spi_buses[b].transfer_callback])
  /\ UNCHANGED <<spi_buses, answer>>

\* buffer is FALSE when the caller passes NULL for tx_data and for rx_data.
simulith_spi_transfer(b, cs, buffer, len) ==
  IF IsOpen(b) /\ cs \in Buses /\ buffer
    THEN IF len = 0 THEN ReturnEarly("transfer", b, len, 0) ELSE ReachDevice(b, cs, len)
    ELSE ReturnEarly("transfer", b, len, -1)

\* The innermost callback returns, and with it the transfer that called it.
CallbackReturns(r) ==
  /\ calls # << >>
  /\ LET frame == calls[Len(calls)] IN Return("transfer", frame.port, frame.len, r)
  /\ calls' = SubSeq(calls, 1, Len(calls) - 1)
  /\ UNCHANGED spi_buses

simulith_spi_close(b) ==
  IF IsOpen(b)
    THEN /\ spi_buses' = [spi_buses EXCEPT ![b].initialized = FALSE]
         /\ Return("close", b, 0, 0)
         /\ UNCHANGED calls
    ELSE ReturnEarly("close", b, 0, -1)

\* By the application, or by the callback that runs: the code cannot tell.
Next ==
  \/ \E b \in BusIds :
       \/ \E config \in Configs, transfer_cb \in Callbacks \cup {NullPtr} :
            simulith_spi_init(b, config, transfer_cb)
       \/ \E cs \in {0, MAX_SPI_BUSES}, buffer \in BOOLEAN, len \in Lengths :
            simulith_spi_transfer(b, cs, buffer, len)
       \/ simulith_spi_close(b)
  \/ \E r \in Results : CallbackReturns(r)

Spec == Init /\ [][Next]_vars

-----------------------------------------------------------------------------
Device == INSTANCE DevicePort WITH
  PortIds    <- BusIds,
  Ports      <- Buses,
  NoCallback <- NullPtr,
  Exclusive  <- TRUE,
  Depth      <- MaxDepth,
  open       <- {b \in Buses : spi_buses[b].initialized},
  attached   <- [b \in Buses |-> AsDevice(spi_buses[b].transfer_callback)],
  calls      <- [i \in DOMAIN calls |-> [port |-> calls[i].port,
                                         callback |-> calls[i].callback]],
  result     <- <<answer.port, answer.value, answer.device>>

(***************************************************************************)
(* A transfer reaches the device of the init in force, never one of an     *)
(* earlier life of the bus, whatever callbacks do to the buses while they  *)
(* run, and returns what that device returned.                             *)
(***************************************************************************)
ImplementsDevicePort == Device!Spec
=============================================================================
