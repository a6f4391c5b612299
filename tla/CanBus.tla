------------------------------- MODULE CanBus -------------------------------
(***************************************************************************)
(* The simulated CAN buses, simulith_can.c.  One caller's calls, in any    *)
(* order, with valid and invalid arguments.  What is sent on a bus loops   *)
(* back to its own receive ring.                                           *)
(*                                                                         *)
(* An id, or a mask, is the set of its bits that are 1, so `id & mask' is  *)
(* an intersection, and an id fits in n bits iff it is a subset of the     *)
(* lower n.  The payload of a message is left out: nothing looks at it.    *)
(***************************************************************************)
EXTENDS Integers, Sequences

CONSTANTS
  MAX_CAN_BUSES,  \* buses (8)
  MAX_FILTERS,    \* filter slots of a bus (16)
  RX_SIZE,        \* length of rx_buffer (32)
  MAX_DLC,        \* SIMULITH_CAN_MAX_DLC (8)
  Bits,           \* bit positions of the id fields
  StdBits,        \* bits of a standard id, SIMULITH_CAN_ID_STD_MAX (0 .. 10)
  ExtBits,        \* bits of an extended id, SIMULITH_CAN_ID_EXT_MAX (0 .. 28)
  Configs,        \* configurations the caller passes to init, NullPtr included
  Messages,       \* messages the caller sends, NullPtr included
  Filters,        \* filters the caller adds
  Callbacks,      \* does the caller register a receive callback? {TRUE, FALSE}
  NullPtr

Message == [id : SUBSET Bits, is_extended : BOOLEAN, dlc : Nat]
Filter  == [id : SUBSET Bits, mask : SUBSET Bits, is_extended : BOOLEAN]
Config  == [bitrate : Nat, sample_point : Nat, sync_jump : Nat]

ASSUME CanAssumption ==
  /\ MAX_CAN_BUSES \in Nat /\ MAX_FILTERS \in Nat
  /\ RX_SIZE \in Nat \ {0}
  /\ MAX_DLC \in Nat
  /\ StdBits \subseteq ExtBits /\ ExtBits \subseteq Bits
  /\ Configs \subseteq Config \cup {NullPtr}
  /\ Messages \subseteq Message \cup {NullPtr}
  /\ Filters \subseteq Filter
  /\ Callbacks \subseteq BOOLEAN

Buses     == 0 .. (MAX_CAN_BUSES - 1)
BusIds    == 0 .. MAX_CAN_BUSES           \* what a caller passes: one too many
Slots     == 0 .. (MAX_FILTERS - 1)
FilterIds == -1 .. MAX_FILTERS            \* what a caller passes: two too many
RxIndex   == 0 .. (RX_SIZE - 1)

VARIABLES
  can_buses,  \* the table of buses
  answer      \* the last call: its name, its bus, its result, the message read

vars == <<can_buses, answer>>

ZeroMessage == [id |-> {}, is_extended |-> FALSE, dlc |-> 0]
ZeroConfig  == [bitrate |-> 0, sample_point |-> 0, sync_jump |-> 0]
NoFilters   == [i \in Slots |->
                  [filter |-> [id |-> {}, mask |-> {}, is_extended |-> FALSE],
                   active |-> FALSE]]

can_bus_t == [initialized : BOOLEAN,
              config      : Config,
              rx_callback : BOOLEAN,
              filters     : [Slots -> [filter : Filter, active : BOOLEAN]],
              rx_buffer   : [RxIndex -> Message],
              rx_head     : RxIndex,
              rx_tail     : RxIndex]

Calls == {"none", "init", "add_filter", "remove_filter", "send", "receive", "close"}

TypeOK ==
  /\ can_buses \in [Buses -> can_bus_t]
  /\ answer \in [call : Calls, bus : BusIds, value : FilterIds \cup {0, 1},
                 msg : Message \cup {NullPtr}]

Init ==
  /\ can_buses = [b \in Buses |->
                    [initialized |-> FALSE, config |-> ZeroConfig,
                     rx_callback |-> FALSE, filters |-> NoFilters,
                     rx_buffer |-> [i \in RxIndex |-> ZeroMessage],
                     rx_head |-> 0, rx_tail |-> 0]]
  /\ answer = [call |-> "none", bus |-> 0, value |-> 0, msg |-> NullPtr]

Return(call, b, value, msg) ==
  answer' = [call |-> call, bus |-> b, value |-> value, msg |-> msg]

\* The early returns: -1, and no change.
Reject(call, b) == Return(call, b, -1, NullPtr) /\ UNCHANGED can_buses

-----------------------------------------------------------------------------
SIMULITH_CAN_BITRATE_125K == 125000
SIMULITH_CAN_BITRATE_1M   == 1000000

is_valid_config(config) ==
  /\ config # NullPtr
  /\ config.bitrate \in SIMULITH_CAN_BITRATE_125K .. SIMULITH_CAN_BITRATE_1M
  /\ config.sample_point \in 50 .. 90
  /\ config.sync_jump \in 1 .. 4

is_valid_message(msg) ==
  /\ msg # NullPtr
  /\ msg.id \subseteq (IF msg.is_extended THEN ExtBits ELSE StdBits)
  /\ msg.dlc <= MAX_DLC

message_passes_filter(msg, filter) ==
  /\ msg.is_extended = filter.is_extended
  /\ msg.id \cap filter.mask = filter.id \cap filter.mask

IsOpen(b) == b \in Buses /\ can_buses[b].initialized

\* Mutant of simulith_can_init: rx_tail is left where it was.
InitHeadOnly(b, config, rx_cb) ==
  IF b \in Buses /\ is_valid_config(config) /\ ~ IsOpen(b)
    THEN /\ can_buses' = [can_buses EXCEPT ![b] =
                            [@ EXCEPT !.config = config,
                                      !.rx_callback = rx_cb,
                                      !.initialized = TRUE,
                                      !.rx_head = 0,
                                      !.filters = NoFilters]]
         /\ Return("init", b, 0, NullPtr)
    ELSE Reject("init", b)

\* The configuration is kept, the receive ring emptied, the filters cleared.
simulith_can_init(b, config, rx_cb) ==
  IF b \in Buses /\ is_valid_config(config) /\ ~ IsOpen(b)
    THEN /\ can_buses' = [can_buses EXCEPT ![b] =
                            [@ EXCEPT !.config = config,
                                      !.rx_callback = rx_cb,
                                      !.initialized = TRUE,
                                      !.rx_head = 0,
                                      !.rx_tail = 0,
                                      !.filters = NoFilters]]
         /\ Return("init", b, 0, NullPtr)
    ELSE Reject("init", b)

FreeFilterSlots(b) == {i \in Slots : ~ can_buses[b].filters[i].active}

\* The first free slot is the handle.
simulith_can_add_filter(b, filter) ==
  \/ /\ IsOpen(b)
     /\ \E i \in FreeFilterSlots(b) :
          /\ \A j \in FreeFilterSlots(b) : i <= j
          /\ can_buses' = [can_buses EXCEPT ![b].filters[i] =
                             [filter |-> filter, active |-> TRUE]]
          /\ Return("add_filter", b, i, NullPtr)
  \/ /\ IsOpen(b) => FreeFilterSlots(b) = {}
     /\ Reject("add_filter", b)

simulith_can_remove_filter(b, i) ==
  IF IsOpen(b) /\ i \in Slots /\ can_buses[b].filters[i].active
    THEN /\ can_buses' = [can_buses EXCEPT ![b].filters[i].active = FALSE]
         /\ Return("remove_filter", b, 0, NullPtr)
    ELSE Reject("remove_filter", b)

\* Mutant of NextIndex: no wrap-around.
NextIndexUnwrapped(i) == i + 1

NextIndex(i) == (i + 1) % RX_SIZE

PassesFilter(b, msg) ==
  \E i \in Slots : /\ can_buses[b].filters[i].active
                   /\ message_passes_filter(msg, can_buses[b].filters[i].filter)

(***************************************************************************)
(* The message enters the ring if there is a callback, which is not        *)
(* called, and if there is room.  The test of the filters has the callback *)
(* as its alternative: it lets everything through.                         *)
(***************************************************************************)
Stores(b, msg) ==
  /\ can_buses[b].rx_callback
  /\ PassesFilter(b, msg) \/ can_buses[b].rx_callback
  /\ NextIndex(can_buses[b].rx_head) # can_buses[b].rx_tail

StoreMessage(b, msg) ==
  can_buses' = [can_buses EXCEPT ![b].rx_buffer[can_buses[b].rx_head] = msg,
                                 ![b].rx_head = NextIndex(@)]

simulith_can_send(b, msg) ==
  IF IsOpen(b) /\ is_valid_message(msg)
    THEN /\ IF Stores(b, msg) THEN StoreMessage(b, msg) ELSE UNCHANGED can_buses
         /\ Return("send", b, 0, NullPtr)
    ELSE Reject("send", b)

\* buffer is FALSE when the caller passes NULL for the message to fill.
simulith_can_receive(b, buffer) ==
  \/ /\ IsOpen(b) /\ buffer
     /\ can_buses[b].rx_head = can_buses[b].rx_tail
     /\ Return("receive", b, 0, NullPtr)
     /\ UNCHANGED can_buses
  \/ /\ IsOpen(b) /\ buffer
     /\ can_buses[b].rx_head # can_buses[b].rx_tail
     /\ can_buses' = [can_buses EXCEPT ![b].rx_tail = NextIndex(@)]
     /\ Return("receive", b, 1, can_buses[b].rx_buffer[can_buses[b].rx_tail])
  \/ /\ ~ (IsOpen(b) /\ buffer)
     /\ Reject("receive", b)

simulith_can_close(b) ==
  IF IsOpen(b)
    THEN /\ can_buses' = [can_buses EXCEPT ![b].initialized = FALSE]
         /\ Return("close", b, 0, NullPtr)
    ELSE Reject("close", b)

Next ==
  \E b \in BusIds :
    \/ \E config \in Configs, rx_cb \in Callbacks : simulith_can_init(b, config, rx_cb)
    \/ \E filter \in Filters : simulith_can_add_filter(b, filter)
    \/ \E i \in FilterIds : simulith_can_remove_filter(b, i)
    \/ \E msg \in Messages : simulith_can_send(b, msg)
    \/ \E buffer \in BOOLEAN : simulith_can_receive(b, buffer)
    \/ simulith_can_close(b)

Spec == Init /\ [][Next]_vars

-----------------------------------------------------------------------------
\* How many messages wait in the ring of a bus, and which, oldest first.
RxCount(bus) == (bus.rx_head - bus.rx_tail) % RX_SIZE

RxQueue(bus) ==
  [k \in 1 .. RxCount(bus) |-> bus.rx_buffer[(bus.rx_tail + k - 1) % RX_SIZE]]

ActiveFilters(bus) == {i \in Slots : bus.filters[i].active}

openBuses    == {b \in Buses : can_buses[b].initialized}
withCallback == [b \in Buses |-> can_buses[b].rx_callback]
rxQueues     == [b \in Buses |-> RxQueue(can_buses[b])]
filterIds    == [b \in Buses |-> ActiveFilters(can_buses[b])]

ValidConfigs  == {config \in Configs : is_valid_config(config)}
ValidMessages == {msg \in Messages : is_valid_message(msg)}

Contract == INSTANCE CanContract WITH
  HandleIds <- FilterIds,
  Handles   <- Slots,
  Capacity  <- RX_SIZE - 1,
  NoMessage <- NullPtr,
  open      <- openBuses,
  looped    <- withCallback,
  queue     <- rxQueues,
  handles   <- filterIds

(***************************************************************************)
(* The ring with one slot left empty, the filter slots and the initialized *)
(* flag are a first-in first-out mailbox of RX_SIZE - 1 messages and a set *)
(* of handles, over any sequence of calls: reopened buses start empty, and *)
(* filters change nothing of what is received.                             *)
(***************************************************************************)
ImplementsContract == Contract!Spec

-----------------------------------------------------------------------------
(***************************************************************************)
(* simulith_can.h: simulith_can_send returns 0 "on success", and           *)
(* simulith_can_receive gives what was received.  So a send on an open bus *)
(* that returns 0 has put one more message in the ring.                    *)
(***************************************************************************)
SentIsQueued ==
  [][ answer'.call = "send" /\ answer'.value = 0
        => LET b == answer'.bus
           IN  can_buses'[b].rx_head # can_buses[b].rx_head ]_vars

(***************************************************************************)
(* can.c: "Check if message passes any active filters".  With filters set, *)
(* a message that passes none of them stays out of the ring.               *)
(***************************************************************************)
FiltersDecide ==
  [][ \A b \in Buses, msg \in Messages :
        /\ simulith_can_send(b, msg)
        /\ can_buses'[b].rx_head # can_buses[b].rx_head
        /\ FreeFilterSlots(b) # Slots
        => PassesFilter(b, msg) ]_vars
=============================================================================
