------------------------------ MODULE TimeSync ------------------------------
(***************************************************************************)
(* The server and its clients over the wire: the time synchronisation      *)
(* protocol of Simulith, with slow joiners, handshake timeouts and client  *)
(* processes that die and start again (the server does not).               *)
(***************************************************************************)
EXTENDS TimeServer, TimeClient

vars == <<wireVars, serverVars, clientVars>>

Init == WireInit /\ ServerInit /\ ClientInit

ServerNext ==
  \/ \E r \in requests : ServeHandshake(r) \/ ServeAck(r)
  \/ StartTicking
  \/ AdvanceTime

ClientNext ==
  \E c \in Clients :
    \/ Connect(c) \/ Subscribe(c)
    \/ SendReady(c) \/ EndHandshake(c) \/ HandshakeTimeout(c)
    \/ ReceiveTick(c) \/ AckTick(c) \/ ReceiveAck(c)
    \/ Shutdown(c) \/ Crash(c)

Next ==
  \/ ServerNext /\ UNCHANGED clientVars
  \/ ClientNext /\ UNCHANGED serverVars

Spec == Init /\ [][Next]_vars

(***************************************************************************)
(* Fairness.  The server never stops.  Its REP socket takes requests fair- *)
(* queued, round robin between peers: whoever has a request pending is     *)
(* served after finitely many others, however often the server leaves      *)
(* zmq_recv to advance the time; hence strong fairness for each peer.      *)
(* Connections are established; an application runs its client, and        *)
(* on_tick returns.  Nothing is assumed of faults, nor of Shutdown.        *)
(***************************************************************************)
ServeRequestOf(c) ==
  /\ \E r \in requests : r.from = c /\ (ServeHandshake(r) \/ ServeAck(r))
  /\ UNCHANGED clientVars

Fairness ==
  /\ WF_vars((StartTicking \/ AdvanceTime) /\ UNCHANGED clientVars)
  /\ \A c \in Clients :
       /\ SF_vars(ServeRequestOf(c))
       /\ WF_vars(Subscribe(c) /\ UNCHANGED serverVars)
       /\ WF_vars((Connect(c) \/ SendReady(c)) /\ UNCHANGED serverVars)
       /\ WF_vars((EndHandshake(c) \/ ReceiveTick(c) \/ AckTick(c)
                     \/ ReceiveAck(c)) /\ UNCHANGED serverVars)

LiveSpec == Spec /\ Fairness

-----------------------------------------------------------------------------
(***************************************************************************)
(* Every variable keeps the values its declaration in the C code allows.   *)
(***************************************************************************)
TypeOK == WireTypeOK /\ ServerTypeOK /\ ClientTypeOK

\* c's name is in the client table: the server waits for it on every tick.
Registered(c) == client_id(c) \in RegisteredIds

(***************************************************************************)
(* The client table is dense and its names are distinct: slot i is taken   *)
(* iff i < ready_clients.  The registration loop searches all MAX_CLIENTS  *)
(* slots but the tick loop looks at the first expected_clients only, so a  *)
(* gap or a duplicate would be a client nobody, or nobody else, waits for. *)
(***************************************************************************)
RegistrationSound ==
  /\ \A i \in Slots : client_states[i].id # NoId <=> i < ready_clients
  /\ \A i, j \in Slots :
       /\ client_states[i].id # NoId
       /\ client_states[i].id = client_states[j].id
       => i = j
  /\ \A i \in Slots :
       client_states[i].responded =>
         phase = "ticking" /\ client_states[i].id # NoId
  /\ phase = "ticking" => ready_clients = expected_clients

(***************************************************************************)
(* A responded flag stands for the current tick, not for an earlier one:   *)
(* the named client's on_tick has returned from current_time_ns.  The      *)
(* acknowledgement itself does not say which tick it answers.              *)
(***************************************************************************)
RespondedMeansDone ==
  \A i \in Slots, c \in Clients :
    /\ client_states[i].responded
    /\ client_states[i].id = client_id(c)
    => seen[c] = current_time_ns

(***************************************************************************)
(* Lock step: a registered client has at most one time waiting for it, and *)
(* whatever time it has waiting or in on_tick is the server's current one. *)
(* So it is never told a time the simulation has left, and the high-water  *)
(* mark never costs it a tick.                                             *)
(***************************************************************************)
LockStep ==
  \A c \in Clients :
    Registered(c) =>
      /\ ticks[c] \in {<< >>, <<current_time_ns>>}
      /\ pc[c] = "ticking" => ticks[c] = << >> /\ time_ns[c] = current_time_ns

\* Each client has a name of its own.
UniqueNames == \A c, d \in Clients : client_id(c) = client_id(d) => c = d

PendingAcks(c) == {r \in requests : r.from = c /\ r.kind = "ack"}

\* The tick loop holds c's acknowledgement of the current tick.
Counted(c) == \E i \in TickSlots : /\ client_states[i].id = client_id(c)
                                  /\ client_states[i].responded

\* c has nothing left to do for the current tick.
Settled(c) ==
  /\ ticks[c] = << >>
  /\ pc[c] # "ticking"
  /\ seen[c] = current_time_ns

(***************************************************************************)
(* Where each acknowledgement is.  A broadcast gives each registered       *)
(* client one token: it is in c's SUB queue, then in on_tick, then in one  *)
(* pending acknowledgement, then in c's responded flag, and in one of      *)
(* these places only, across any crash and restart.  So an acknowledgement *)
(* left over from an earlier tick, or a second one for the same tick,      *)
(* never reaches handle_ack: it has no means to tell them apart.           *)
(***************************************************************************)
AckAccounting ==
  /\ \A r \in requests : r.id = client_id(r.from)
  /\ phase = "handshake" =>
       \A c \in Clients :
         ticks[c] = << >> /\ pc[c] # "ticking" /\ PendingAcks(c) = {}
  /\ \A c \in Clients :
       Registered(c) =>
         /\ \A q, r \in PendingAcks(c) : q = r
         /\ PendingAcks(c) # {} => Settled(c)
         /\ Counted(c) => Settled(c) /\ PendingAcks(c) = {}

(***************************************************************************)
(* README: the server "ensures all participants are synchronized for each  *)
(* simulation step".  Time moves on only when every registered client has  *)
(* returned from on_tick for the current time (before a crash, at least).  *)
(***************************************************************************)
AdvanceOnlyWhenAllDone ==
  [][ current_time_ns' # current_time_ns =>
        \A c \in Clients : Registered(c) => seen[c] = current_time_ns ]_vars

\* The protocol implements the abstract barrier.
doneClients ==
  {client_id(c) : c \in {d \in Clients : /\ phase = "ticking"
                                         /\ Registered(d)
                                         /\ seen[d] = current_time_ns}}

Barrier == INSTANCE TickBarrier WITH
             Names    <- {client_id(c) : c \in Clients},
             Size     <- expected_clients,
             Interval <- tick_interval_ns,
             Modulus  <- TimeMod,
             running  <- phase = "ticking",
             members  <- RegisteredIds,
             now      <- current_time_ns,
             done     <- doneClients

(***************************************************************************)
(* Every behaviour of the protocol, faults included, is one of the         *)
(* barrier's: simulith_server_run and simulith_client_run_loop together.   *)
(***************************************************************************)
ImplementsBarrier == Barrier!Spec

-----------------------------------------------------------------------------
(***************************************************************************)
(* Without faults every client in the tick loop is given a next tick,      *)
(* registered or not, whatever the others do.                              *)
(***************************************************************************)
EveryRunningClientTicks ==
  \A c \in Clients : (pc[c] = "waiting") ~> (pc[c] = "ticking")

(***************************************************************************)
(* Without faults every handshake ends with the client in the tick loop.   *)
(***************************************************************************)
HandshakeSucceeds ==
  \A c \in Clients : (pc[c] = "shaking") ~> (pc[c] = "waiting")

(***************************************************************************)
(* Simulation time never stops: simulith_server_run advances for ever.     *)
(***************************************************************************)
TimeAdvances == []<><<AdvanceTime>>_vars

-----------------------------------------------------------------------------
(***************************************************************************)
(* simulith_client_handshake returning 0 means the server waits for this   *)
(* client on every tick (README: "ensures all participants are             *)
(* synchronized").                                                         *)
(***************************************************************************)
RunningIsRegistered == \A c \in Clients : InLoop(c) => Registered(c)

(***************************************************************************)
(* simulith.h: a client's id is a unique identifier; the server checks for *)
(* duplicates, so no two clients run under one name.                       *)
(***************************************************************************)
RunningNamesDistinct ==
  \A c, d \in Clients :
    InLoop(c) /\ InLoop(d) /\ client_id(c) = client_id(d) => c = d

(***************************************************************************)
(* DUP_ID means that somebody else uses the name, as the server's log line *)
(* "Client ID is already in use" says.                                     *)
(***************************************************************************)
RefusedMeansTaken ==
  \A c \in Clients :
    reply[c] = "DUP_ID" =>
      \E d \in Clients \ {c} : client_id(d) = client_id(c)
=============================================================================
