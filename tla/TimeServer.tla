----------------------------- MODULE TimeServer -----------------------------
(***************************************************************************)
(* The Simulith time server, simulith_server.c: it registers               *)
(* expected_clients clients, then publishes the time, waits until each     *)
(* registered client has acknowledged it, advances the time and repeats.   *)
(*                                                                         *)
(* One action is one turn of one of its loops.  The server runs one        *)
(* thread, and what it does between a zmq_recv and the matching zmq_send   *)
(* is seen by nobody before the send.                                      *)
(***************************************************************************)
EXTENDS SyncWire, FiniteSetsExt

CONSTANTS
  MAX_CLIENTS,       \* slots in the client table (32)
  expected_clients,  \* clients to wait for
  tick_interval_ns,  \* length of a tick
  TimeMod            \* 2^w for the width w of current_time_ns (w = 64)

\* What simulith_server_init accepts; it returns -1 on anything else.
ASSUME ServerAssumption ==
  /\ MAX_CLIENTS \in Nat
  /\ expected_clients \in 1 .. MAX_CLIENTS
  /\ TimeMod \in Nat
  /\ tick_interval_ns \in 1 .. (TimeMod - 1)

VARIABLES
  phase,            \* which loop of simulith_server_run the server is in
  client_states,    \* the client table
  ready_clients,    \* clients registered so far
  current_time_ns   \* simulation time

serverVars == <<phase, client_states, ready_clients, current_time_ns>>

Slots     == 0 .. (MAX_CLIENTS - 1)
TickSlots == 0 .. (expected_clients - 1)
Times     == 0 .. (TimeMod - 1)

ServerTypeOK ==
  /\ phase \in {"handshake", "ticking"}
  /\ client_states \in [Slots -> [id : Ids, responded : BOOLEAN]]
  /\ ready_clients \in 0 .. expected_clients
  /\ current_time_ns \in Times

ServerInit ==
  /\ phase = "handshake"
  /\ client_states = [i \in Slots |-> [id |-> NoId, responded |-> FALSE]]
  /\ ready_clients = 0
  /\ current_time_ns = 0

-----------------------------------------------------------------------------
\* Names in the client table.
RegisteredIds == {client_states[i].id : i \in Slots} \ {NoId}

\* Mutant of is_client_id_taken: the names are not compared.
AnyIdTaken(id) == \E i \in Slots : client_states[i].id # NoId

\* Mutant of is_client_id_taken: no duplicate check.
NoIdTaken(id) == FALSE

is_client_id_taken(id) ==
  \E i \in Slots : client_states[i].id # NoId /\ client_states[i].id = id

\* Mutant of FreeSlots: the search starts at slot 1.
FreeSlotsFromOne == {i \in Slots : i > 0 /\ client_states[i].id = NoId}

\* Mutant of FreeSlots: the search ends one slot early.
FreeSlotsButLast ==
  {i \in Slots : i < MAX_CLIENTS - 1 /\ client_states[i].id = NoId}

FreeSlots == {i \in Slots : client_states[i].id = NoId}

\* The answer to a message received in the handshake loop.
HandshakeAnswer(r) ==
  LET client_id == ReceivedId(r)
  IN  CASE r.kind # "ready" \/ client_id = NoId -> "ERR"
        [] r.kind = "ready" /\ client_id # NoId /\ is_client_id_taken(client_id)
             -> "DUP_ID"
        [] OTHER -> IF FreeSlots = {} THEN "ERR" ELSE "ACK"

\* A new client takes the first free slot.
Register(id) ==
  /\ client_states' = [client_states EXCEPT
                         ![Min(FreeSlots)] = [id |-> id, responded |-> FALSE]]
  /\ ready_clients' = ready_clients + 1

\* Mutant of ServeHandshake: the loop runs once too often (<= for <).
ServeHandshakeOneMore(r) ==
  /\ phase = "handshake"
  /\ ready_clients <= expected_clients
  /\ LET answer == HandshakeAnswer(r)
     IN  /\ IF answer = "ACK"
              THEN Register(ReceivedId(r))
              ELSE UNCHANGED <<client_states, ready_clients>>
         /\ AnswerRequest(r, answer)
  /\ UNCHANGED <<phase, current_time_ns, sock, subscribed, ticks>>

\* One turn of the handshake loop, on message r.
ServeHandshake(r) ==
  /\ phase = "handshake"
  /\ ready_clients < expected_clients
  /\ LET answer == HandshakeAnswer(r)
     IN  /\ IF answer = "ACK"
              THEN Register(ReceivedId(r))
              ELSE UNCHANGED <<client_states, ready_clients>>
         /\ AnswerRequest(r, answer)
  /\ UNCHANGED <<phase, current_time_ns, sock, subscribed, ticks>>

-----------------------------------------------------------------------------
\* Mutant of reset_responses: the last slot is not reset.
ResetAllButLast ==
  client_states' = [i \in Slots |->
                      IF i \in TickSlots /\ i < expected_clients - 1
                        THEN [client_states[i] EXCEPT !.responded = FALSE]
                        ELSE client_states[i]]

reset_responses ==
  client_states' = [i \in Slots |->
                      IF i \in TickSlots
                        THEN [client_states[i] EXCEPT !.responded = FALSE]
                        ELSE client_states[i]]

\* Mutant of all_clients_responded: one client may be missing.
AllButOneResponded ==
  Cardinality({i \in TickSlots : client_states[i].responded}) >= expected_clients - 1

\* Mutant of all_clients_responded: the count starts at slot 1.
AllButFirstResponded == \A i \in TickSlots \ {0} : client_states[i].responded

all_clients_responded == \A i \in TickSlots : client_states[i].responded

\* Mutant of AckedSlots: a message that contains the name, as READY does, counts.
ContainedIn(r) ==
  {i \in TickSlots : /\ client_states[i].id # NoId
                     /\ client_states[i].id = ReceivedId(r)}

\* The slots a tick acknowledgement matches; "READY <id>" matches none.
AckedSlots(r) ==
  {i \in TickSlots : /\ client_states[i].id # NoId
                     /\ r.kind = "ack"
                     /\ client_states[i].id = ReceivedId(r)}

handle_ack(r) ==
  client_states' =
    IF AckedSlots(r) = {}
      THEN client_states
      ELSE [client_states EXCEPT ![Min(AckedSlots(r))].responded = TRUE]

\* All clients are registered: the first broadcast, of the initial time.
StartTicking ==
  /\ phase = "handshake"
  /\ ready_clients >= expected_clients
  /\ phase' = "ticking"
  /\ Publish(current_time_ns)
  /\ reset_responses
  /\ UNCHANGED <<ready_clients, current_time_ns, requests, reply, sock, subscribed>>

(***************************************************************************)
(* One turn of the acknowledgement loop, on message r.  Every message is   *)
(* answered "ACK", whoever sent it.                                        *)
(***************************************************************************)
ServeAck(r) ==
  /\ phase = "ticking"
  /\ ~ all_clients_responded
  /\ handle_ack(r)
  /\ AnswerRequest(r, "ACK")
  /\ UNCHANGED <<phase, ready_clients, current_time_ns, sock, subscribed, ticks>>

\* Mutant of AdvanceTime: the broadcast comes before the addition.
AdvanceAfterBroadcast ==
  /\ phase = "ticking"
  /\ all_clients_responded
  /\ current_time_ns' = (current_time_ns + tick_interval_ns) % TimeMod
  /\ Publish(current_time_ns)
  /\ reset_responses
  /\ UNCHANGED <<phase, ready_clients, requests, reply, sock, subscribed>>

\* Mutant of AdvanceTime: broadcast and reset are done before the loop only.
AdvanceSilently ==
  /\ phase = "ticking"
  /\ all_clients_responded
  /\ current_time_ns' = (current_time_ns + tick_interval_ns) % TimeMod
  /\ UNCHANGED <<phase, client_states, ready_clients, wireVars>>

\* The acknowledgement loop ends: the time advances and is broadcast.
AdvanceTime ==
  /\ phase = "ticking"
  /\ all_clients_responded
  /\ current_time_ns' = (current_time_ns + tick_interval_ns) % TimeMod
  /\ Publish(current_time_ns')
  /\ reset_responses
  /\ UNCHANGED <<phase, ready_clients, requests, reply, sock, subscribed>>
=============================================================================
