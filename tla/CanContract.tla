---------------------------- MODULE CanContract ----------------------------
(***************************************************************************)
(* What the users of simulith_can.h get: per bus, an open/close life, a    *)
(* first-in first-out mailbox of the messages sent, and handles for        *)
(* filters.  No ring, no slots.  A call that a user may not make returns   *)
(* -1 and changes nothing.                                                 *)
(***************************************************************************)
EXTENDS Integers, Sequences

CONSTANTS
  BusIds, Buses,             \* bus ids a caller may pass, and the valid ones
  Configs, ValidConfigs,     \* the same for configurations
  Messages, ValidMessages,   \* ... for messages
  HandleIds, Handles,        \* ... for filter handles
  Capacity,                  \* messages a mailbox holds
  NoMessage

VARIABLES
  open,     \* buses in use
  looped,   \* looped[b]: opened with a callback, hence with a mailbox
  queue,    \* queue[b]: messages waiting in b's mailbox
  handles,  \* handles[b]: filter handles given out
  answer    \* the last call: its name, its bus, its result and the message read

vars == <<open, looped, queue, handles, answer>>

Answer(call, b, value, msg) ==
  answer' = [call |-> call, bus |-> b, value |-> value, msg |-> msg]

Refuse(call, b) ==
  /\ Answer(call, b, -1, NoMessage)
  /\ UNCHANGED <<open, looped, queue, handles>>

Init ==
  /\ open = {}
  /\ looped = [b \in Buses |-> FALSE]
  /\ queue = [b \in Buses |-> << >>]
  /\ handles = [b \in Buses |-> {}]
  /\ answer = [call |-> "none", bus |-> 0, value |-> 0, msg |-> NoMessage]

-----------------------------------------------------------------------------
MayOpen(b, config) == b \in Buses \ open /\ config \in ValidConfigs
MayAdd(b)          == b \in open /\ handles[b] # Handles
MayRemove(b, h)    == b \in open /\ h \in handles[b]
MaySend(b, m)      == b \in open /\ m \in ValidMessages

Open(b, config, callback) ==
  /\ MayOpen(b, config)
  /\ open' = open \cup {b}
  /\ looped' = [looped EXCEPT ![b] = callback]
  /\ queue' = [queue EXCEPT ![b] = << >>]
  /\ handles' = [handles EXCEPT ![b] = {}]
  /\ Answer("init", b, 0, NoMessage)

Close(b) ==
  /\ b \in open
  /\ open' = open \ {b}
  /\ Answer("close", b, 0, NoMessage)
  /\ UNCHANGED <<looped, queue, handles>>

AddFilter(b, h) ==
  /\ MayAdd(b)
  /\ h \in Handles \ handles[b]
  /\ handles' = [handles EXCEPT ![b] = @ \cup {h}]
  /\ Answer("add_filter", b, h, NoMessage)
  /\ UNCHANGED <<open, looped, queue>>

RemoveFilter(b, h) ==
  /\ MayRemove(b, h)
  /\ handles' = [handles EXCEPT ![b] = @ \ {h}]
  /\ Answer("remove_filter", b, 0, NoMessage)
  /\ UNCHANGED <<open, looped, queue>>

\* A message for which there is no room, or no mailbox, is lost without notice.
Send(b, m) ==
  /\ MaySend(b, m)
  /\ queue' = IF looped[b] /\ Len(queue[b]) < Capacity
                THEN [queue EXCEPT ![b] = Append(@, m)]
                ELSE queue
  /\ Answer("send", b, 0, NoMessage)
  /\ UNCHANGED <<open, looped, handles>>

Receive(b) ==
  /\ b \in open /\ queue[b] # << >>
  /\ queue' = [queue EXCEPT ![b] = Tail(@)]
  /\ Answer("receive", b, 1, Head(queue[b]))
  /\ UNCHANGED <<open, looped, handles>>

FindEmpty(b) ==
  /\ b \in open /\ queue[b] = << >>
  /\ Answer("receive", b, 0, NoMessage)
  /\ UNCHANGED <<open, looped, queue, handles>>

\* What is refused.  A receive always may be: its buffer pointer may be NULL.
Refused(b) ==
  \/ (\E config \in Configs : ~ MayOpen(b, config)) /\ Refuse("init", b)
  \/ b \notin open /\ Refuse("close", b)
  \/ ~ MayAdd(b) /\ Refuse("add_filter", b)
  \/ (\E h \in HandleIds : ~ MayRemove(b, h)) /\ Refuse("remove_filter", b)
  \/ (\E m \in Messages : ~ MaySend(b, m)) /\ Refuse("send", b)
  \/ Refuse("receive", b)

Next ==
  \E b \in BusIds :
    \/ \E config \in Configs, callback \in BOOLEAN : Open(b, config, callback)
    \/ \E h \in HandleIds : AddFilter(b, h) \/ RemoveFilter(b, h)
    \/ \E m \in Messages : Send(b, m)
    \/ Close(b) \/ Receive(b) \/ FindEmpty(b) \/ Refused(b)

Spec == Init /\ [][Next]_vars
=============================================================================
