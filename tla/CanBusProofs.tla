---------------------------- MODULE CanBusProofs ----------------------------
(***************************************************************************)
(* Theorems about CanBus, for any number of buses and filter slots and any *)
(* length of the receive ring.                                             *)
(***************************************************************************)
EXTENDS CanBus, SequenceTheorems, TLAPS

-----------------------------------------------------------------------------
(* Type correctness. *)

LEMMA InputTypes ==
  /\ \A msg \in Messages : is_valid_message(msg) => msg \in Message
  /\ \A config \in Configs : is_valid_config(config) => config \in Config
<1>1. ASSUME NEW msg, is_valid_message(msg)
      PROVE  msg # NullPtr
  BY <1>1, Zenon DEF is_valid_message
<1>2. ASSUME NEW config, is_valid_config(config)
      PROVE  config # NullPtr
  BY <1>2, Zenon DEF is_valid_config
<1> QED
  BY <1>1, <1>2, CanAssumption

LEMMA RxIndexType ==
  /\ 0 \in RxIndex
  /\ \A i \in RxIndex : NextIndex(i) \in RxIndex
BY CanAssumption DEF RxIndex, NextIndex

LEMMA ReturnType ==
  ASSUME NEW call \in Calls, NEW b \in BusIds, NEW value \in FilterIds \cup {0, 1},
         NEW msg \in Message \cup {NullPtr}, Return(call, b, value, msg)
  PROVE  answer' \in [call : Calls, bus : BusIds, value : FilterIds \cup {0, 1},
                      msg : Message \cup {NullPtr}]
BY DEF Return

LEMMA RejectType ==
  ASSUME TypeOK, NEW call \in Calls, NEW b \in BusIds, Reject(call, b)
  PROVE  TypeOK'
<1>1. -1 \in FilterIds
  BY CanAssumption DEF FilterIds
<1> QED
  BY <1>1, ReturnType DEF Reject, TypeOK

FilterTable == [Slots -> [filter : Filter, active : BOOLEAN]]

LEMMA NoFiltersType == NoFilters \in FilterTable
BY DEF NoFilters, FilterTable, Filter

\* Changes of one bus, field by field.
LEMMA FieldUpdateTypes ==
  ASSUME NEW bus \in can_bus_t
  PROVE  /\ \A filters \in FilterTable : [bus EXCEPT !.filters = filters] \in can_bus_t
         /\ \A buffer \in [RxIndex -> Message], head \in RxIndex :
              [bus EXCEPT !.rx_buffer = buffer, !.rx_head = head] \in can_bus_t
         /\ \A config \in Config, rx_cb \in BOOLEAN, filters \in FilterTable :
              [bus EXCEPT !.config = config, !.rx_callback = rx_cb,
                          !.initialized = TRUE, !.rx_head = 0, !.rx_tail = 0,
                          !.filters = filters] \in can_bus_t
BY RxIndexType DEF can_bus_t, FilterTable

LEMMA BusUpdateType ==
  ASSUME TypeOK, NEW b \in Buses, NEW bus \in can_bus_t,
         can_buses' = [can_buses EXCEPT ![b] = bus]
  PROVE  can_buses' \in [Buses -> can_bus_t]
BY DEF TypeOK

LEMMA InitType == Init => TypeOK
<1> SUFFICES ASSUME Init PROVE TypeOK
  OBVIOUS
<1>1. ZeroMessage \in Message /\ ZeroConfig \in Config
  BY DEF ZeroMessage, Message, ZeroConfig, Config
<1>2. NoFilters \in [Slots -> [filter : Filter, active : BOOLEAN]]
  BY DEF NoFilters, Filter
<1>3. can_buses \in [Buses -> can_bus_t]
  BY <1>1, <1>2, RxIndexType DEF Init, can_bus_t
<1>4. 0 \in BusIds
  BY CanAssumption DEF BusIds
<1> QED
  BY <1>3, <1>4 DEF Init, TypeOK, Calls

LEMMA NextType == TypeOK /\ [Next]_vars => TypeOK'
<1> SUFFICES ASSUME TypeOK, [Next]_vars PROVE TypeOK'
  OBVIOUS
<1> DEFINE Done(call, b, value) == Return(call, b, value, NullPtr)
<1>1. ASSUME NEW b \in BusIds, NEW config \in Configs, NEW rx_cb \in Callbacks,
             simulith_can_init(b, config, rx_cb)
      PROVE  TypeOK'
  <2>1. CASE b \in Buses /\ is_valid_config(config) /\ ~ IsOpen(b)
    <3> DEFINE bus == [can_buses[b] EXCEPT !.config = config,
                                           !.rx_callback = rx_cb,
                                           !.initialized = TRUE,
                                           !.rx_head = 0,
                                           !.rx_tail = 0,
                                           !.filters = NoFilters]
    <3>1. can_buses' = [can_buses EXCEPT ![b] = bus] /\ Done("init", b, 0)
      BY <1>1, <2>1 DEF simulith_can_init
    <3>3. config \in Config /\ rx_cb \in BOOLEAN
      BY <2>1, InputTypes, CanAssumption
    <3>4. bus \in can_bus_t
      BY <2>1, <3>3, FieldUpdateTypes, NoFiltersType DEF TypeOK
    <3> QED
      BY <2>1, <3>1, <3>4, BusUpdateType, ReturnType DEF TypeOK, Calls
  <2>2. CASE Reject("init", b)
    BY <2>2, RejectType DEF Calls
  <2> QED
    BY <1>1, <2>1, <2>2 DEF simulith_can_init
<1>2. ASSUME NEW b \in BusIds, NEW filter \in Filters, simulith_can_add_filter(b, filter)
      PROVE  TypeOK'
  <2>1. ASSUME IsOpen(b), NEW i \in FreeFilterSlots(b),
               can_buses' = [can_buses EXCEPT ![b].filters[i] =
                               [filter |-> filter, active |-> TRUE]],
               Done("add_filter", b, i)
        PROVE  TypeOK'
    <3>1. b \in Buses /\ i \in Slots /\ i \in FilterIds
      BY <2>1, CanAssumption DEF IsOpen, FreeFilterSlots, Slots, FilterIds
    <3>2. can_buses' \in [Buses -> can_bus_t]
      <4> DEFINE slot == [filter |-> filter, active |-> TRUE]
                 filters == [can_buses[b].filters EXCEPT ![i] = slot]
      <4>1. slot \in [filter : Filter, active : BOOLEAN]
        BY CanAssumption
      <4>2. filters \in FilterTable
        BY <3>1, <4>1 DEF TypeOK, can_bus_t, FilterTable
      <4>3. can_buses' = [can_buses EXCEPT ![b] = [@ EXCEPT !.filters = filters]]
        BY <2>1
      <4> QED
        BY <3>1, <4>2, <4>3, FieldUpdateTypes, BusUpdateType DEF TypeOK
    <3> QED
      BY <2>1, <3>1, <3>2, ReturnType DEF TypeOK, Calls
  <2>2. CASE Reject("add_filter", b)
    BY <2>2, RejectType DEF Calls
  <2> QED
    BY <1>2, <2>1, <2>2 DEF simulith_can_add_filter
<1>3. ASSUME NEW b \in BusIds, NEW i \in FilterIds, simulith_can_remove_filter(b, i)
      PROVE  TypeOK'
  <2>1. ASSUME b \in Buses, i \in Slots, Done("remove_filter", b, 0),
               can_buses' = [can_buses EXCEPT ![b].filters[i].active = FALSE]
        PROVE  TypeOK'
    <3>1. can_buses' \in [Buses -> can_bus_t]
      <4> DEFINE slot == [can_buses[b].filters[i] EXCEPT !.active = FALSE]
                 filters == [can_buses[b].filters EXCEPT ![i] = slot]
      <4>1. can_buses[b].filters \in FilterTable
        BY <2>1 DEF TypeOK, can_bus_t, FilterTable
      <4>2. filters \in FilterTable
        BY <2>1, <4>1 DEF FilterTable
      <4>3. can_buses' = [can_buses EXCEPT ![b] = [@ EXCEPT !.filters = filters]]
        BY <2>1
      <4> QED
        BY <2>1, <4>2, <4>3, FieldUpdateTypes, BusUpdateType DEF TypeOK
    <3> QED
      BY <2>1, <3>1, ReturnType DEF TypeOK, Calls
  <2>2. CASE Reject("remove_filter", b)
    BY <2>2, RejectType DEF Calls
  <2> QED
    BY <1>3, <2>1, <2>2 DEF simulith_can_remove_filter, IsOpen
<1>4. ASSUME NEW b \in BusIds, NEW msg \in Messages, simulith_can_send(b, msg)
      PROVE  TypeOK'
  <2>1. ASSUME IsOpen(b), is_valid_message(msg), Done("send", b, 0),
               StoreMessage(b, msg) \/ UNCHANGED can_buses
        PROVE  TypeOK'
    <3>1. b \in Buses /\ msg \in Message
      BY <2>1, InputTypes DEF IsOpen
    <3>2. CASE StoreMessage(b, msg)
      <4>1. can_buses[b].rx_head \in RxIndex
        BY <3>1 DEF TypeOK, can_bus_t
      <4>2. can_buses' \in [Buses -> can_bus_t]
        <5> DEFINE head == can_buses[b].rx_head
                   buffer == [can_buses[b].rx_buffer EXCEPT ![head] = msg]
        <5>1. buffer \in [RxIndex -> Message]
          BY <3>1, <4>1 DEF TypeOK, can_bus_t
        <5>2. can_buses' = [can_buses EXCEPT ![b] =
                              [@ EXCEPT !.rx_buffer = buffer, !.rx_head = NextIndex(head)]]
          BY <3>1, <3>2 DEF StoreMessage, TypeOK
        <5> QED
          BY <3>1, <4>1, <5>1, <5>2, RxIndexType, FieldUpdateTypes, BusUpdateType
             DEF TypeOK
      <4> QED
        BY <2>1, <4>2, ReturnType DEF TypeOK, Calls
    <3>3. CASE UNCHANGED can_buses
      BY <2>1, <3>3, ReturnType DEF TypeOK, Calls
    <3> QED
      BY <2>1, <3>2, <3>3
  <2>2. CASE Reject("send", b)
    BY <2>2, RejectType DEF Calls
  <2> QED
    BY <1>4, <2>1, <2>2 DEF simulith_can_send
<1>5. ASSUME NEW b \in BusIds, NEW buffer \in BOOLEAN, simulith_can_receive(b, buffer)
      PROVE  TypeOK'
  <2>1. CASE Done("receive", b, 0) /\ UNCHANGED can_buses
    BY <2>1, ReturnType DEF TypeOK, Calls
  <2>2. ASSUME IsOpen(b), can_buses' = [can_buses EXCEPT ![b].rx_tail = NextIndex(@)],
               Return("receive", b, 1, can_buses[b].rx_buffer[can_buses[b].rx_tail])
        PROVE  TypeOK'
    <3>1. b \in Buses /\ can_buses[b].rx_tail \in RxIndex
      BY <2>2 DEF IsOpen, TypeOK, can_bus_t
    <3>2. can_buses[b].rx_buffer[can_buses[b].rx_tail] \in Message
      BY <3>1 DEF TypeOK, can_bus_t
    <3>3. can_buses' \in [Buses -> can_bus_t]
      BY <2>2, <3>1, RxIndexType DEF TypeOK, can_bus_t
    <3> QED
      BY <2>2, <3>2, <3>3, ReturnType DEF TypeOK, Calls
  <2>3. CASE Reject("receive", b)
    BY <2>3, RejectType DEF Calls
  <2> QED
    BY <1>5, <2>1, <2>2, <2>3 DEF simulith_can_receive
<1>6. ASSUME NEW b \in BusIds, simulith_can_close(b)
      PROVE  TypeOK'
  <2>1. ASSUME b \in Buses, can_buses' = [can_buses EXCEPT ![b].initialized = FALSE],
               Done("close", b, 0)
        PROVE  TypeOK'
    <3>1. can_buses' \in [Buses -> can_bus_t]
      BY <2>1 DEF TypeOK, can_bus_t
    <3> QED
      BY <2>1, <3>1, ReturnType DEF TypeOK, Calls
  <2>2. CASE Reject("close", b)
    BY <2>2, RejectType DEF Calls
  <2> QED
    BY <1>6, <2>1, <2>2 DEF simulith_can_close, IsOpen
<1>7. CASE UNCHANGED vars
  BY <1>7 DEF vars, TypeOK
<1> QED
  BY <1>1, <1>2, <1>3, <1>4, <1>5, <1>6, <1>7 DEF Next

\* The ring indices stay in the ring, and every slot of it holds a message,
\* through any sequence of calls.
THEOREM TypeCorrect == Spec => []TypeOK
<1>1. Init => TypeOK
  BY InitType
<1>2. TypeOK /\ [Next]_vars => TypeOK'
  BY NextType
<1> QED
  BY <1>1, <1>2, PTL DEF Spec

-----------------------------------------------------------------------------
(* The ring. *)

LEMMA RingMod ==
  /\ \A x \in 0 .. (RX_SIZE - 1) : x % RX_SIZE = x
  /\ \A x \in RX_SIZE .. (2 * RX_SIZE - 1) : x % RX_SIZE = x - RX_SIZE
  /\ \A x \in (0 - RX_SIZE) .. -1 : x % RX_SIZE = x + RX_SIZE
BY CanAssumption, SMT

\* Between head and tail there are n messages, and a slot is always left empty.
LEMMA RingIndices ==
  ASSUME NEW head \in RxIndex, NEW tail \in RxIndex,
         NEW n, n = (head - tail) % RX_SIZE
  PROVE  /\ n \in 0 .. (RX_SIZE - 1)
         /\ n = 0 <=> head = tail
         /\ NextIndex(head) # tail <=> n < RX_SIZE - 1
         /\ NextIndex(head) # tail => (NextIndex(head) - tail) % RX_SIZE = n + 1
         /\ head # tail => (head - NextIndex(tail)) % RX_SIZE = n - 1
         /\ (tail + n) % RX_SIZE = head
         /\ \A k \in 1 .. n : /\ (tail + k - 1) % RX_SIZE \in RxIndex
                              /\ (tail + k - 1) % RX_SIZE # head
         /\ \A k \in 1 .. (n - 1) :
              (NextIndex(tail) + k - 1) % RX_SIZE = (tail + k) % RX_SIZE
<1> DEFINE mod(x) == x % RX_SIZE
<1>1. /\ RX_SIZE \in Nat \ {0}
      /\ head \in 0 .. (RX_SIZE - 1) /\ tail \in 0 .. (RX_SIZE - 1)
  BY CanAssumption DEF RxIndex
<1>2. /\ \A x \in 0 .. (RX_SIZE - 1) : mod(x) = x
      /\ \A x \in RX_SIZE .. (2 * RX_SIZE - 1) : mod(x) = x - RX_SIZE
      /\ \A x \in (0 - RX_SIZE) .. -1 : mod(x) = x + RX_SIZE
  BY RingMod
<1>3. n = mod(head - tail)
  OBVIOUS
<1>4. /\ NextIndex(head) = mod(head + 1)
      /\ NextIndex(tail) = mod(tail + 1)
  BY DEF NextIndex
<1> HIDE DEF mod
<1>5. n = IF head >= tail THEN head - tail ELSE head - tail + RX_SIZE
  BY <1>1, <1>2, <1>3
<1>6. /\ NextIndex(head) = IF head + 1 = RX_SIZE THEN 0 ELSE head + 1
      /\ NextIndex(tail) = IF tail + 1 = RX_SIZE THEN 0 ELSE tail + 1
  BY <1>1, <1>2, <1>4
<1>7. /\ n \in 0 .. (RX_SIZE - 1)
      /\ n = 0 <=> head = tail
      /\ NextIndex(head) # tail <=> n < RX_SIZE - 1
  BY <1>1, <1>5, <1>6
<1>8. NextIndex(head) # tail => mod(NextIndex(head) - tail) = n + 1
  BY <1>1, <1>2, <1>5, <1>6
<1>9. head # tail => mod(head - NextIndex(tail)) = n - 1
  BY <1>1, <1>2, <1>5, <1>6
<1>10. mod(tail + n) = head
  BY <1>1, <1>2, <1>5
<1>11. ASSUME NEW k \in 1 .. n
       PROVE  mod(tail + k - 1) \in 0 .. (RX_SIZE - 1) /\ mod(tail + k - 1) # head
  BY <1>1, <1>2, <1>5
<1>12. ASSUME NEW k \in 1 .. (n - 1)
       PROVE  mod(NextIndex(tail) + k - 1) = mod(tail + k)
  BY <1>1, <1>2, <1>5, <1>6
<1> QED
  BY <1>7, <1>8, <1>9, <1>10, <1>11, <1>12 DEF mod, RxIndex

LEMMA RxQueueType ==
  ASSUME NEW bus \in can_bus_t
  PROVE  /\ RxCount(bus) \in 0 .. (RX_SIZE - 1)
         /\ RxQueue(bus) \in Seq(Message)
         /\ Len(RxQueue(bus)) = RxCount(bus)
<1>1. /\ bus.rx_head \in RxIndex /\ bus.rx_tail \in RxIndex
      /\ bus.rx_buffer \in [RxIndex -> Message]
  BY DEF can_bus_t
<1>2. /\ RxCount(bus) \in 0 .. (RX_SIZE - 1)
      /\ \A k \in 1 .. RxCount(bus) : (bus.rx_tail + k - 1) % RX_SIZE \in RxIndex
  BY <1>1, RingIndices DEF RxCount
<1>3. RxCount(bus) \in Nat
  BY <1>2, CanAssumption
<1>4. RxQueue(bus) \in [1 .. RxCount(bus) -> Message]
  BY <1>1, <1>2 DEF RxQueue
<1>5. RxQueue(bus) \in Seq(Message)
  BY <1>3, <1>4, SeqDef
<1> QED
  BY <1>2, <1>3, <1>4, <1>5, LenProperties

LEMMA RxQueueEmpty ==
  ASSUME NEW bus \in can_bus_t
  PROVE  RxQueue(bus) = << >> <=> bus.rx_head = bus.rx_tail
<1>1. bus.rx_head \in RxIndex /\ bus.rx_tail \in RxIndex
  BY DEF can_bus_t
<1>2. RxCount(bus) = 0 <=> bus.rx_head = bus.rx_tail
  BY <1>1, RingIndices DEF RxCount
<1> QED
  BY <1>2, RxQueueType, EmptySeq

\* Storing a message at the head appends it to the queue.
LEMMA StoreAppends ==
  ASSUME NEW bus \in can_bus_t, NEW msg \in Message, NEW stored \in can_bus_t,
         NextIndex(bus.rx_head) # bus.rx_tail,
         stored.rx_buffer = [bus.rx_buffer EXCEPT ![bus.rx_head] = msg],
         stored.rx_head = NextIndex(bus.rx_head), stored.rx_tail = bus.rx_tail
  PROVE  RxQueue(stored) = Append(RxQueue(bus), msg)
<1> DEFINE n == RxCount(bus)
           q == RxQueue(bus)
<1>1. /\ bus.rx_head \in RxIndex /\ bus.rx_tail \in RxIndex
      /\ bus.rx_buffer \in [RxIndex -> Message]
  BY DEF can_bus_t
<1>2. /\ n \in Nat /\ RxCount(stored) = n + 1
      /\ (bus.rx_tail + n) % RX_SIZE = bus.rx_head
      /\ \A k \in 1 .. n : /\ (bus.rx_tail + k - 1) % RX_SIZE \in RxIndex
                           /\ (bus.rx_tail + k - 1) % RX_SIZE # bus.rx_head
  BY <1>1, RingIndices DEF RxCount
<1>3. /\ q \in Seq(Message) /\ Len(q) = n
      /\ RxQueue(stored) \in Seq(Message) /\ Len(RxQueue(stored)) = n + 1
  BY <1>2, RxQueueType
<1>4. /\ Append(q, msg) \in Seq(Message) /\ Len(Append(q, msg)) = n + 1
      /\ \A k \in 1 .. n : Append(q, msg)[k] = q[k]
      /\ Append(q, msg)[n + 1] = msg
  BY <1>3, AppendProperties
<1>5. ASSUME NEW k \in 1 .. n
      PROVE  RxQueue(stored)[k] = q[k]
  <2>1. RxQueue(stored)[k] = stored.rx_buffer[(bus.rx_tail + k - 1) % RX_SIZE]
    BY <1>2 DEF RxQueue
  <2>2. q[k] = bus.rx_buffer[(bus.rx_tail + k - 1) % RX_SIZE]
    BY DEF RxQueue
  <2> QED
    BY <1>1, <1>2, <2>1, <2>2
<1>6. RxQueue(stored)[n + 1] = msg
  <2>1. RxQueue(stored)[n + 1] = stored.rx_buffer[(bus.rx_tail + (n + 1) - 1) % RX_SIZE]
    BY <1>2 DEF RxQueue
  <2>2. bus.rx_tail + (n + 1) - 1 = bus.rx_tail + n
    BY <1>1, <1>2, CanAssumption DEF RxIndex
  <2> QED
    BY <1>1, <1>2, <2>1, <2>2
<1>7. \A k \in 1 .. (n + 1) : RxQueue(stored)[k] = Append(q, msg)[k]
  BY <1>2, <1>4, <1>5, <1>6
<1> HIDE DEF n, q
<1>8. RxQueue(stored) = Append(q, msg)
  BY <1>3, <1>4, <1>7, SeqEqual
<1> QED
  BY <1>8 DEF q

\* Moving the tail on removes the first message of the queue.
LEMMA ReceiveRemoves ==
  ASSUME NEW bus \in can_bus_t, bus.rx_head # bus.rx_tail, NEW rest \in can_bus_t,
         rest.rx_buffer = bus.rx_buffer, rest.rx_head = bus.rx_head,
         rest.rx_tail = NextIndex(bus.rx_tail)
  PROVE  /\ RxQueue(bus) # << >>
         /\ RxQueue(rest) = Tail(RxQueue(bus))
         /\ Head(RxQueue(bus)) = bus.rx_buffer[bus.rx_tail]
<1> DEFINE n == RxCount(bus)
           q == RxQueue(bus)
<1>1. /\ bus.rx_head \in RxIndex /\ bus.rx_tail \in RxIndex
      /\ bus.rx_buffer \in [RxIndex -> Message]
  BY DEF can_bus_t
<1>2. /\ n \in Nat \ {0} /\ RxCount(rest) = n - 1
      /\ \A k \in 1 .. (n - 1) :
           (rest.rx_tail + k - 1) % RX_SIZE = (bus.rx_tail + k) % RX_SIZE
  BY <1>1, RingIndices DEF RxCount
<1>3. /\ q \in Seq(Message) /\ Len(q) = n
      /\ RxQueue(rest) \in Seq(Message) /\ Len(RxQueue(rest)) = n - 1
  BY <1>2, RxQueueType
<1>4. q # << >>
  BY <1>2, <1>3
<1>5. /\ Tail(q) \in Seq(Message) /\ Len(Tail(q)) = n - 1
      /\ \A k \in 1 .. (n - 1) : Tail(q)[k] = q[k + 1]
  BY <1>3, <1>4, HeadTailProperties
<1>6. ASSUME NEW k \in 1 .. (n - 1)
      PROVE  RxQueue(rest)[k] = Tail(q)[k]
  <2>1. RxQueue(rest)[k] = bus.rx_buffer[(bus.rx_tail + k) % RX_SIZE]
    BY <1>2 DEF RxQueue
  <2>2. k + 1 \in 1 .. n /\ bus.rx_tail + (k + 1) - 1 = bus.rx_tail + k
    BY <1>1, <1>2, CanAssumption DEF RxIndex
  <2>3. q[k + 1] = bus.rx_buffer[(bus.rx_tail + k) % RX_SIZE]
    BY <2>2 DEF RxQueue
  <2> QED
    BY <1>5, <2>1, <2>3
<1>7. q[1] = bus.rx_buffer[bus.rx_tail]
  <2>1. 1 \in 1 .. n /\ bus.rx_tail + 1 - 1 = bus.rx_tail
    BY <1>1, <1>2, CanAssumption DEF RxIndex
  <2>2. bus.rx_tail % RX_SIZE = bus.rx_tail
    BY <1>1, RingMod DEF RxIndex
  <2> QED
    BY <2>1, <2>2 DEF RxQueue
<1> HIDE DEF n, q
<1>8. Head(q) = q[1]
  BY <1>3, <1>4
<1>9. RxQueue(rest) = Tail(q)
  BY <1>3, <1>5, <1>6, SeqEqual
<1> QED
  BY <1>4, <1>7, <1>8, <1>9 DEF q

-----------------------------------------------------------------------------
(* CanBus implements CanContract. *)

\* What the contract sees of a step that changes nothing of the buses.
LEMMA SameBuses ==
  ASSUME UNCHANGED can_buses
  PROVE  UNCHANGED <<openBuses, withCallback, rxQueues, filterIds>>
BY DEF openBuses, withCallback, rxQueues, filterIds

\* What the contract sees of a step that changes one bus.
LEMMA OneBusChanges ==
  ASSUME TypeOK, NEW b \in Buses, NEW bus,
         can_buses' = [can_buses EXCEPT ![b] = bus]
  PROVE  /\ bus.initialized => openBuses' = openBuses \cup {b}
         /\ ~ bus.initialized => openBuses' = openBuses \ {b}
         /\ withCallback' = [withCallback EXCEPT ![b] = bus.rx_callback]
         /\ rxQueues' = [rxQueues EXCEPT ![b] = RxQueue(bus)]
         /\ filterIds' = [filterIds EXCEPT ![b] = ActiveFilters(bus)]
<1>1. /\ can_buses'[b] = bus
      /\ \A c \in Buses \ {b} : can_buses'[c] = can_buses[c]
  BY DEF TypeOK
<1>2. /\ bus.initialized => openBuses' = openBuses \cup {b}
      /\ ~ bus.initialized => openBuses' = openBuses \ {b}
  BY <1>1 DEF openBuses
<1>3. withCallback' = [withCallback EXCEPT ![b] = bus.rx_callback]
  <2>1. withCallback' = [c \in Buses |-> can_buses'[c].rx_callback]
    BY DEF withCallback
  <2>2. withCallback' = [c \in Buses |-> IF c = b THEN bus.rx_callback ELSE withCallback[c]]
    BY <1>1, <2>1 DEF withCallback
  <2> QED
    BY <2>2 DEF withCallback
<1>4. rxQueues' = [rxQueues EXCEPT ![b] = RxQueue(bus)]
  <2>1. rxQueues' = [c \in Buses |-> RxQueue(can_buses'[c])]
    BY DEF rxQueues, RxQueue, RxCount
  <2>2. rxQueues' = [c \in Buses |-> IF c = b THEN RxQueue(bus) ELSE rxQueues[c]]
    BY <1>1, <2>1 DEF rxQueues
  <2> QED
    BY <2>2 DEF rxQueues
<1>5. filterIds' = [filterIds EXCEPT ![b] = ActiveFilters(bus)]
  <2>1. filterIds' = [c \in Buses |-> ActiveFilters(can_buses'[c])]
    BY DEF filterIds, ActiveFilters
  <2>2. filterIds' = [c \in Buses |-> IF c = b THEN ActiveFilters(bus) ELSE filterIds[c]]
    BY <1>1, <2>1 DEF filterIds
  <2> QED
    BY <2>2 DEF filterIds
<1> QED
  BY <1>2, <1>3, <1>4, <1>5

\* What the contract does not see: the fields of the bus that stay.
LEMMA OneBusKeeps ==
  ASSUME TypeOK, NEW b \in Buses, NEW bus,
         can_buses' = [can_buses EXCEPT ![b] = bus]
  PROVE  /\ bus.initialized = can_buses[b].initialized => openBuses' = openBuses
         /\ bus.rx_callback = can_buses[b].rx_callback => withCallback' = withCallback
         /\ /\ bus.rx_buffer = can_buses[b].rx_buffer
            /\ bus.rx_head = can_buses[b].rx_head
            /\ bus.rx_tail = can_buses[b].rx_tail
            => rxQueues' = rxQueues
         /\ bus.filters = can_buses[b].filters => filterIds' = filterIds
<1>1. bus.initialized = can_buses[b].initialized => openBuses' = openBuses
  BY DEF TypeOK, openBuses
<1>2. bus.rx_callback = can_buses[b].rx_callback => withCallback' = withCallback
  BY OneBusChanges DEF withCallback
<1>3. ASSUME bus.rx_buffer = can_buses[b].rx_buffer,
             bus.rx_head = can_buses[b].rx_head, bus.rx_tail = can_buses[b].rx_tail
      PROVE  rxQueues' = rxQueues
  <2>1. RxQueue(bus) = RxQueue(can_buses[b])
    BY <1>3 DEF RxQueue, RxCount
  <2> QED
    BY <2>1, OneBusChanges DEF rxQueues
<1>4. ASSUME bus.filters = can_buses[b].filters
      PROVE  filterIds' = filterIds
  <2>1. ActiveFilters(bus) = ActiveFilters(can_buses[b])
    BY <1>4 DEF ActiveFilters
  <2> QED
    BY <2>1, OneBusChanges DEF filterIds
<1> QED
  BY <1>1, <1>2, <1>3, <1>4

LEMMA InitRefines == Init => Contract!Init
<1> SUFFICES ASSUME Init PROVE Contract!Init
  OBVIOUS
<1>1. \A b \in Buses : /\ can_buses[b].initialized = FALSE
                       /\ can_buses[b].rx_callback = FALSE
                       /\ can_buses[b].filters = NoFilters
                       /\ can_buses[b].rx_head = 0 /\ can_buses[b].rx_tail = 0
  BY DEF Init
<1>2. \A b \in Buses : ActiveFilters(can_buses[b]) = {}
  BY <1>1 DEF ActiveFilters, NoFilters
<1>3. \A b \in Buses : RxQueue(can_buses[b]) = << >>
  BY <1>1, InitType, RxQueueEmpty DEF TypeOK
<1> QED
  BY <1>1, <1>2, <1>3 DEF Contract!Init, Init, openBuses, withCallback, rxQueues, filterIds

\* A call that is rejected is refused, if the contract has a reason.
LEMMA RejectRefines ==
  ASSUME NEW call, NEW b, Reject(call, b)
  PROVE  Contract!Refuse(call, b)
BY SameBuses DEF Reject, Return, Contract!Refuse, Contract!Answer

LEMMA OpenBuses == \A b : b \in openBuses <=> IsOpen(b)
BY DEF openBuses, IsOpen

LEMMA InitStepRefines ==
  ASSUME TypeOK, NEW b \in BusIds, NEW config \in Configs, NEW rx_cb \in Callbacks,
         simulith_can_init(b, config, rx_cb)
  PROVE  Contract!Open(b, config, rx_cb) \/ Contract!Refused(b)
<1>1. b \in Buses /\ is_valid_config(config) /\ ~ IsOpen(b)
        <=> Contract!MayOpen(b, config)
  BY OpenBuses DEF Contract!MayOpen, ValidConfigs
<1>2. CASE b \in Buses /\ is_valid_config(config) /\ ~ IsOpen(b)
  <2> DEFINE bus == [can_buses[b] EXCEPT !.config = config,
                                         !.rx_callback = rx_cb,
                                         !.initialized = TRUE,
                                         !.rx_head = 0,
                                         !.rx_tail = 0,
                                         !.filters = NoFilters]
  <2>1. can_buses' = [can_buses EXCEPT ![b] = bus] /\ Return("init", b, 0, NullPtr)
    BY <1>2 DEF simulith_can_init
  <2>2. /\ bus \in can_bus_t
        /\ bus.initialized = TRUE /\ bus.rx_callback = rx_cb
        /\ bus.rx_head = bus.rx_tail /\ bus.filters = NoFilters
    <3>1. config \in Config /\ rx_cb \in BOOLEAN
      BY <1>2, InputTypes, CanAssumption
    <3>2. bus \in can_bus_t
      BY <1>2, <3>1, FieldUpdateTypes, NoFiltersType DEF TypeOK
    <3> QED
      BY <1>2, <3>2 DEF TypeOK, can_bus_t
  <2> HIDE DEF bus
  <2>3. RxQueue(bus) = << >>
    BY <2>2, RxQueueEmpty
  <2>4. ActiveFilters(bus) = {}
    BY <2>2 DEF ActiveFilters, NoFilters
  <2>5. /\ openBuses' = openBuses \cup {b}
        /\ withCallback' = [withCallback EXCEPT ![b] = rx_cb]
        /\ rxQueues' = [rxQueues EXCEPT ![b] = << >>]
        /\ filterIds' = [filterIds EXCEPT ![b] = {}]
    <3>1. /\ bus.initialized => openBuses' = openBuses \cup {b}
          /\ withCallback' = [withCallback EXCEPT ![b] = bus.rx_callback]
          /\ rxQueues' = [rxQueues EXCEPT ![b] = RxQueue(bus)]
          /\ filterIds' = [filterIds EXCEPT ![b] = ActiveFilters(bus)]
      BY <1>2, <2>1, OneBusChanges, Zenon
    <3> QED
      BY <2>2, <2>3, <2>4, <3>1
  <2> QED
    BY <1>1, <1>2, <2>1, <2>5 DEF Contract!Open, Contract!Answer, Return
<1>3. CASE ~ (b \in Buses /\ is_valid_config(config) /\ ~ IsOpen(b))
  <2>1. Reject("init", b)
    BY <1>3 DEF simulith_can_init
  <2> QED
    BY <1>1, <1>3, <2>1, RejectRefines DEF Contract!Refused
<1> QED
  BY <1>2, <1>3

LEMMA AddFilterRefines ==
  ASSUME TypeOK, NEW b \in BusIds, NEW filter \in Filters,
         simulith_can_add_filter(b, filter)
  PROVE  (\E i \in FilterIds : Contract!AddFilter(b, i)) \/ Contract!Refused(b)
<1>1. IsOpen(b) => /\ filterIds[b] \subseteq Slots
                   /\ FreeFilterSlots(b) = Slots \ filterIds[b]
  BY DEF IsOpen, filterIds, ActiveFilters, FreeFilterSlots
<1>2. ASSUME IsOpen(b), NEW i \in FreeFilterSlots(b),
             can_buses' = [can_buses EXCEPT ![b].filters[i] =
                             [filter |-> filter, active |-> TRUE]],
             Return("add_filter", b, i, NullPtr)
      PROVE  Contract!AddFilter(b, i) /\ i \in FilterIds
  <2> DEFINE slot == [filter |-> filter, active |-> TRUE]
             filters == [can_buses[b].filters EXCEPT ![i] = slot]
             bus == [can_buses[b] EXCEPT !.filters = filters]
  <2>1. b \in Buses /\ i \in Slots /\ i \in FilterIds /\ i \notin filterIds[b]
    BY <1>1, <1>2, CanAssumption DEF IsOpen, FreeFilterSlots, Slots, FilterIds
  <2>2. can_buses[b] \in can_bus_t /\ can_buses[b].filters \in FilterTable
    BY <2>1 DEF TypeOK, can_bus_t, FilterTable
  <2>3. can_buses' = [can_buses EXCEPT ![b] = bus]
    BY <1>2
  <2>4. ActiveFilters(bus) = filterIds[b] \cup {i}
    <3>1. bus.filters = filters
      BY <2>2 DEF can_bus_t
    <3>2. \A j \in Slots : filters[j].active <=> can_buses[b].filters[j].active \/ j = i
      BY <2>1, <2>2 DEF FilterTable
    <3> HIDE DEF filters, bus
    <3> QED
      BY <2>1, <3>1, <3>2 DEF ActiveFilters, filterIds
  <2>5. /\ bus.initialized = can_buses[b].initialized
        /\ bus.rx_callback = can_buses[b].rx_callback
        /\ bus.rx_buffer = can_buses[b].rx_buffer
        /\ bus.rx_head = can_buses[b].rx_head
        /\ bus.rx_tail = can_buses[b].rx_tail
    BY <2>2 DEF can_bus_t
  <2> HIDE DEF bus
  <2>6. /\ openBuses' = openBuses /\ withCallback' = withCallback
        /\ rxQueues' = rxQueues
        /\ filterIds' = [filterIds EXCEPT ![b] = filterIds[b] \cup {i}]
    <3>1. /\ bus.initialized = can_buses[b].initialized => openBuses' = openBuses
          /\ bus.rx_callback = can_buses[b].rx_callback => withCallback' = withCallback
          /\ /\ bus.rx_buffer = can_buses[b].rx_buffer
             /\ bus.rx_head = can_buses[b].rx_head
             /\ bus.rx_tail = can_buses[b].rx_tail
             => rxQueues' = rxQueues
      BY <2>1, <2>3, OneBusKeeps, Zenon
    <3>2. filterIds' = [filterIds EXCEPT ![b] = ActiveFilters(bus)]
      BY <2>1, <2>3, OneBusChanges, Zenon
    <3> QED
      BY <2>4, <2>5, <3>1, <3>2
  <2>7. Contract!MayAdd(b)
    BY <1>2, <2>1, OpenBuses DEF Contract!MayAdd
  <2> QED
    BY <1>2, <2>1, <2>6, <2>7 DEF Contract!AddFilter, Contract!Answer, Return
<1>3. ASSUME IsOpen(b) => FreeFilterSlots(b) = {}, Reject("add_filter", b)
      PROVE  Contract!Refused(b)
  <2>1. ~ Contract!MayAdd(b)
    BY <1>1, <1>3, OpenBuses DEF Contract!MayAdd
  <2> QED
    BY <1>3, <2>1, RejectRefines DEF Contract!Refused
<1> QED
  BY <1>2, <1>3 DEF simulith_can_add_filter

LEMMA RemoveFilterRefines ==
  ASSUME TypeOK, NEW b \in BusIds, NEW i \in FilterIds,
         simulith_can_remove_filter(b, i)
  PROVE  Contract!RemoveFilter(b, i) \/ Contract!Refused(b)
<1>1. IsOpen(b) /\ i \in Slots /\ can_buses[b].filters[i].active
        <=> Contract!MayRemove(b, i)
  BY OpenBuses DEF Contract!MayRemove, IsOpen, filterIds, ActiveFilters
<1>2. CASE IsOpen(b) /\ i \in Slots /\ can_buses[b].filters[i].active
  <2> DEFINE slot == [can_buses[b].filters[i] EXCEPT !.active = FALSE]
             filters == [can_buses[b].filters EXCEPT ![i] = slot]
             bus == [can_buses[b] EXCEPT !.filters = filters]
  <2>1. b \in Buses /\ i \in Slots
    BY <1>2 DEF IsOpen
  <2>2. can_buses[b] \in can_bus_t /\ can_buses[b].filters \in FilterTable
    BY <2>1 DEF TypeOK, can_bus_t, FilterTable
  <2>3. can_buses' = [can_buses EXCEPT ![b] = bus] /\ Return("remove_filter", b, 0, NullPtr)
    BY <1>2 DEF simulith_can_remove_filter
  <2>4. ActiveFilters(bus) = filterIds[b] \ {i}
    <3>1. bus.filters = filters
      BY <2>2 DEF can_bus_t
    <3>2. \A j \in Slots : filters[j].active <=> can_buses[b].filters[j].active /\ j # i
      BY <2>1, <2>2 DEF FilterTable
    <3> HIDE DEF filters, bus
    <3> QED
      BY <2>1, <3>1, <3>2 DEF ActiveFilters, filterIds
  <2>5. /\ bus.initialized = can_buses[b].initialized
        /\ bus.rx_callback = can_buses[b].rx_callback
        /\ bus.rx_buffer = can_buses[b].rx_buffer
        /\ bus.rx_head = can_buses[b].rx_head
        /\ bus.rx_tail = can_buses[b].rx_tail
    BY <2>2 DEF can_bus_t
  <2> HIDE DEF bus
  <2>6. /\ openBuses' = openBuses /\ withCallback' = withCallback
        /\ rxQueues' = rxQueues
        /\ filterIds' = [filterIds EXCEPT ![b] = filterIds[b] \ {i}]
    <3>1. /\ bus.initialized = can_buses[b].initialized => openBuses' = openBuses
          /\ bus.rx_callback = can_buses[b].rx_callback => withCallback' = withCallback
          /\ /\ bus.rx_buffer = can_buses[b].rx_buffer
             /\ bus.rx_head = can_buses[b].rx_head
             /\ bus.rx_tail = can_buses[b].rx_tail
             => rxQueues' = rxQueues
      BY <2>1, <2>3, OneBusKeeps, Zenon
    <3>2. filterIds' = [filterIds EXCEPT ![b] = ActiveFilters(bus)]
      BY <2>1, <2>3, OneBusChanges, Zenon
    <3> QED
      BY <2>4, <2>5, <3>1, <3>2
  <2> QED
    BY <1>1, <1>2, <2>3, <2>6 DEF Contract!RemoveFilter, Contract!Answer, Return
<1>3. CASE ~ (IsOpen(b) /\ i \in Slots /\ can_buses[b].filters[i].active)
  <2>1. Reject("remove_filter", b)
    BY <1>3 DEF simulith_can_remove_filter
  <2> QED
    BY <1>1, <1>3, <2>1, RejectRefines DEF Contract!Refused
<1> QED
  BY <1>2, <1>3

LEMMA SendRefines ==
  ASSUME TypeOK, NEW b \in BusIds, NEW msg \in Messages, simulith_can_send(b, msg)
  PROVE  Contract!Send(b, msg) \/ Contract!Refused(b)
<1>1. IsOpen(b) /\ is_valid_message(msg) <=> Contract!MaySend(b, msg)
  BY OpenBuses DEF Contract!MaySend, ValidMessages
<1>2. CASE IsOpen(b) /\ is_valid_message(msg)
  <2>1. /\ IF Stores(b, msg) THEN StoreMessage(b, msg) ELSE UNCHANGED can_buses
        /\ Return("send", b, 0, NullPtr)
    BY <1>2 DEF simulith_can_send
  <2>2. /\ b \in Buses /\ msg \in Message
        /\ can_buses[b] \in can_bus_t /\ can_buses[b].rx_callback \in BOOLEAN
        /\ can_buses[b].rx_head \in RxIndex /\ can_buses[b].rx_tail \in RxIndex
        /\ can_buses[b].rx_buffer \in [RxIndex -> Message]
    BY <1>2, InputTypes DEF IsOpen, TypeOK, can_bus_t
  <2>3. Stores(b, msg) <=> withCallback[b] /\ Len(rxQueues[b]) < RX_SIZE - 1
    <3>1. NextIndex(can_buses[b].rx_head) # can_buses[b].rx_tail
            <=> RxCount(can_buses[b]) < RX_SIZE - 1
      BY <2>2, RingIndices DEF RxCount
    <3>2. Len(rxQueues[b]) = RxCount(can_buses[b])
      BY <2>2, RxQueueType DEF rxQueues
    <3> QED
      BY <2>2, <3>1, <3>2 DEF Stores, withCallback
  <2>4. CASE Stores(b, msg)
    <3> DEFINE head == can_buses[b].rx_head
               buffer == [can_buses[b].rx_buffer EXCEPT ![head] = msg]
               bus == [can_buses[b] EXCEPT !.rx_buffer = buffer,
                                           !.rx_head = NextIndex(head)]
    <3>1. can_buses' = [can_buses EXCEPT ![b] = bus]
      BY <2>1, <2>2, <2>4 DEF StoreMessage, TypeOK
    <3>2. buffer \in [RxIndex -> Message] /\ bus \in can_bus_t
      BY <2>2, RxIndexType, FieldUpdateTypes
    <3>3. /\ bus.initialized = can_buses[b].initialized
          /\ bus.rx_callback = can_buses[b].rx_callback
          /\ bus.filters = can_buses[b].filters
          /\ bus.rx_tail = can_buses[b].rx_tail
          /\ bus.rx_head = NextIndex(can_buses[b].rx_head)
          /\ bus.rx_buffer = [can_buses[b].rx_buffer EXCEPT ![can_buses[b].rx_head] = msg]
      BY <2>2 DEF can_bus_t
    <3> HIDE DEF bus
    <3>4. RxQueue(bus) = Append(rxQueues[b], msg)
      <4>1. NextIndex(can_buses[b].rx_head) # can_buses[b].rx_tail
        BY <2>4 DEF Stores
      <4>2. RxQueue(bus) = Append(RxQueue(can_buses[b]), msg)
        BY <2>2, <3>2, <3>3, <4>1, StoreAppends
      <4> QED
        BY <2>2, <4>2 DEF rxQueues
    <3>5. /\ openBuses' = openBuses /\ withCallback' = withCallback
          /\ filterIds' = filterIds
      <4>1. /\ bus.initialized = can_buses[b].initialized => openBuses' = openBuses
            /\ bus.rx_callback = can_buses[b].rx_callback => withCallback' = withCallback
            /\ bus.filters = can_buses[b].filters => filterIds' = filterIds
        BY <2>2, <3>1, OneBusKeeps, Zenon
      <4> QED
        BY <3>3, <4>1
    <3>6. rxQueues' = [rxQueues EXCEPT ![b] = RxQueue(bus)]
      BY <2>2, <3>1, OneBusChanges, Zenon
    <3>7. rxQueues' = [rxQueues EXCEPT ![b] = Append(@, msg)]
      BY <3>4, <3>6
    <3> QED
      BY <1>1, <1>2, <2>1, <2>3, <2>4, <3>5, <3>7
         DEF Contract!Send, Contract!Answer, Return
  <2>5. CASE ~ Stores(b, msg)
    BY <1>1, <1>2, <2>1, <2>3, <2>5, SameBuses DEF Contract!Send, Contract!Answer, Return
  <2> QED
    BY <2>4, <2>5
<1>3. CASE ~ (IsOpen(b) /\ is_valid_message(msg))
  <2>1. Reject("send", b)
    BY <1>3 DEF simulith_can_send
  <2> QED
    BY <1>1, <1>3, <2>1, RejectRefines DEF Contract!Refused
<1> QED
  BY <1>2, <1>3

LEMMA ReceiveRefines ==
  ASSUME TypeOK, NEW b \in BusIds, NEW buffer \in BOOLEAN,
         simulith_can_receive(b, buffer)
  PROVE  Contract!Receive(b) \/ Contract!FindEmpty(b) \/ Contract!Refused(b)
<1>1. IsOpen(b) => /\ b \in Buses /\ can_buses[b] \in can_bus_t
                   /\ rxQueues[b] = RxQueue(can_buses[b])
  BY DEF IsOpen, TypeOK, rxQueues
<1>2. ASSUME IsOpen(b), can_buses[b].rx_head = can_buses[b].rx_tail,
             Return("receive", b, 0, NullPtr), UNCHANGED can_buses
      PROVE  Contract!FindEmpty(b)
  <2>1. rxQueues[b] = << >>
    BY <1>1, <1>2, RxQueueEmpty
  <2> QED
    BY <1>2, <2>1, OpenBuses, SameBuses DEF Contract!FindEmpty, Contract!Answer, Return
<1>3. ASSUME IsOpen(b), can_buses[b].rx_head # can_buses[b].rx_tail,
             can_buses' = [can_buses EXCEPT ![b].rx_tail = NextIndex(@)],
             Return("receive", b, 1, can_buses[b].rx_buffer[can_buses[b].rx_tail])
      PROVE  Contract!Receive(b)
  <2> DEFINE bus == [can_buses[b] EXCEPT !.rx_tail = NextIndex(can_buses[b].rx_tail)]
  <2>1. can_buses' = [can_buses EXCEPT ![b] = bus]
    BY <1>3
  <2>2. can_buses[b].rx_tail \in RxIndex
    BY <1>1, <1>3 DEF can_bus_t
  <2>3. bus \in can_bus_t
    BY <1>1, <1>3, <2>2, RxIndexType DEF can_bus_t
  <2>4. /\ bus.initialized = can_buses[b].initialized
        /\ bus.rx_callback = can_buses[b].rx_callback
        /\ bus.filters = can_buses[b].filters
        /\ bus.rx_buffer = can_buses[b].rx_buffer
        /\ bus.rx_head = can_buses[b].rx_head
        /\ bus.rx_tail = NextIndex(can_buses[b].rx_tail)
    BY <1>1, <1>3 DEF can_bus_t
  <2> HIDE DEF bus
  <2>5. /\ rxQueues[b] # << >>
        /\ RxQueue(bus) = Tail(rxQueues[b])
        /\ Head(rxQueues[b]) = can_buses[b].rx_buffer[can_buses[b].rx_tail]
    BY <1>1, <1>3, <2>3, <2>4, ReceiveRemoves
  <2>6. /\ openBuses' = openBuses /\ withCallback' = withCallback
        /\ filterIds' = filterIds
    <3>1. /\ bus.initialized = can_buses[b].initialized => openBuses' = openBuses
          /\ bus.rx_callback = can_buses[b].rx_callback => withCallback' = withCallback
          /\ bus.filters = can_buses[b].filters => filterIds' = filterIds
      BY <1>1, <1>3, <2>1, OneBusKeeps, Zenon
    <3> QED
      BY <2>4, <3>1
  <2>7. rxQueues' = [rxQueues EXCEPT ![b] = RxQueue(bus)]
    BY <1>1, <1>3, <2>1, OneBusChanges, Zenon
  <2>8. rxQueues' = [rxQueues EXCEPT ![b] = Tail(@)]
    BY <2>5, <2>7
  <2> QED
    BY <1>3, <2>5, <2>6, <2>8, OpenBuses DEF Contract!Receive, Contract!Answer, Return
<1>4. CASE Reject("receive", b)
  BY <1>4, RejectRefines DEF Contract!Refused
<1> QED
  BY <1>2, <1>3, <1>4 DEF simulith_can_receive

LEMMA CloseRefines ==
  ASSUME TypeOK, NEW b \in BusIds, simulith_can_close(b)
  PROVE  Contract!Close(b) \/ Contract!Refused(b)
<1>1. CASE IsOpen(b)
  <2> DEFINE bus == [can_buses[b] EXCEPT !.initialized = FALSE]
  <2>1. can_buses' = [can_buses EXCEPT ![b] = bus] /\ Return("close", b, 0, NullPtr)
    BY <1>1 DEF simulith_can_close
  <2>2. b \in Buses /\ can_buses[b] \in can_bus_t
    BY <1>1 DEF IsOpen, TypeOK
  <2>3. /\ bus.initialized = FALSE
        /\ bus.rx_callback = can_buses[b].rx_callback
        /\ bus.filters = can_buses[b].filters
        /\ bus.rx_buffer = can_buses[b].rx_buffer
        /\ bus.rx_head = can_buses[b].rx_head
        /\ bus.rx_tail = can_buses[b].rx_tail
    BY <2>2 DEF can_bus_t
  <2> HIDE DEF bus
  <2>4. /\ ~ bus.initialized => openBuses' = openBuses \ {b}
    BY <2>1, <2>2, OneBusChanges, Zenon
  <2>5. /\ bus.rx_callback = can_buses[b].rx_callback => withCallback' = withCallback
        /\ bus.filters = can_buses[b].filters => filterIds' = filterIds
        /\ /\ bus.rx_buffer = can_buses[b].rx_buffer
           /\ bus.rx_head = can_buses[b].rx_head
           /\ bus.rx_tail = can_buses[b].rx_tail
           => rxQueues' = rxQueues
    BY <2>1, <2>2, OneBusKeeps, Zenon
  <2> QED
    BY <1>1, <2>1, <2>3, <2>4, <2>5, OpenBuses DEF Contract!Close, Contract!Answer, Return
<1>2. CASE ~ IsOpen(b)
  BY <1>2, RejectRefines, OpenBuses DEF simulith_can_close, Contract!Refused
<1> QED
  BY <1>1, <1>2

LEMMA NextRefines == TypeOK /\ [Next]_vars => [Contract!Next]_(Contract!vars)
<1> SUFFICES ASSUME TypeOK, [Next]_vars PROVE [Contract!Next]_(Contract!vars)
  OBVIOUS
<1>1. ASSUME NEW b \in BusIds, NEW config \in Configs, NEW rx_cb \in Callbacks,
             simulith_can_init(b, config, rx_cb)
      PROVE  Contract!Next
  BY <1>1, InitStepRefines, CanAssumption DEF Contract!Next
<1>2. ASSUME NEW b \in BusIds, NEW filter \in Filters, simulith_can_add_filter(b, filter)
      PROVE  Contract!Next
  BY <1>2, AddFilterRefines DEF Contract!Next
<1>3. ASSUME NEW b \in BusIds, NEW i \in FilterIds, simulith_can_remove_filter(b, i)
      PROVE  Contract!Next
  BY <1>3, RemoveFilterRefines DEF Contract!Next
<1>4. ASSUME NEW b \in BusIds, NEW msg \in Messages, simulith_can_send(b, msg)
      PROVE  Contract!Next
  BY <1>4, SendRefines DEF Contract!Next
<1>5. ASSUME NEW b \in BusIds, NEW buffer \in BOOLEAN, simulith_can_receive(b, buffer)
      PROVE  Contract!Next
  BY <1>5, ReceiveRefines DEF Contract!Next
<1>6. ASSUME NEW b \in BusIds, simulith_can_close(b)
      PROVE  Contract!Next
  BY <1>6, CloseRefines DEF Contract!Next
<1>7. CASE UNCHANGED vars
  BY <1>7, SameBuses DEF vars, Contract!vars
<1> QED
  BY <1>1, <1>2, <1>3, <1>4, <1>5, <1>6, <1>7 DEF Next

\* The ring buffers, filter slots and initialized flags are the mailboxes and
\* handles of the contract, whatever calls are made and in whatever order.
THEOREM RefinesContract == Spec => ImplementsContract
<1>1. Init => Contract!Init
  BY InitRefines
<1>2. TypeOK /\ [Next]_vars => [Contract!Next]_(Contract!vars)
  BY NextRefines
<1> QED
  BY <1>1, <1>2, TypeCorrect, PTL DEF Spec, Contract!Spec, ImplementsContract
=============================================================================
