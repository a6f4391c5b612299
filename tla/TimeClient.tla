----------------------------- MODULE TimeClient -----------------------------
(***************************************************************************)
(* A Simulith client, simulith_client.c, and the application that drives   *)
(* it: init, handshake, then the tick loop for ever.                       *)
(*                                                                         *)
(* The application is the one the tests show: it enters the tick loop only *)
(* after a handshake that returned 0.  After one that returned -1 it may   *)
(* call the handshake again, or shut the client down and start over.       *)
(***************************************************************************)
EXTENDS SyncWire

CONSTANTS
  AppId,       \* AppId[c]: the name c's application passes to init
  MaxSockets,  \* bound: how often a client process may be (re)initialised
  Faults       \* the faults that may happen, a subset of AllFaults

(***************************************************************************)
(*  "timeout"    the 1 s receive timeout of the handshake may expire       *)
(*  "crash"      a client process may die                                  *)
(*  "slow_join"  a client may call the handshake before its subscription   *)
(*               has reached the publisher (zmq_connect does not wait)     *)
(***************************************************************************)
AllFaults == {"timeout", "crash", "slow_join"}

ASSUME ClientAssumption ==
  /\ AppId \in [Clients -> Ids]
  /\ MaxSockets \in Nat
  /\ Faults \subseteq AllFaults

VARIABLES
  pc,       \* pc[c]: where c is in the client API
  time_ns,  \* time_ns[c]: the time c's on_tick runs with, a local variable
            \* of the body of simulith_client_run_loop (NoTime: out of scope)
  seen      \* history: the last time c's on_tick returned from, in any process

clientVars == <<pc, time_ns, seen>>

NoTime == -1

(***************************************************************************)
(*  "off"        no sockets                                                *)
(*  "connected"  initialised                                               *)
(*  "shaking"    READY sent, waiting for the answer                        *)
(*  "stuck"      the handshake timed out: the REQ socket still waits for   *)
(*               the answer and refuses every further zmq_send (EFSM)      *)
(*  "refused"    the handshake was answered with something else than ACK   *)
(*  "waiting"    in the tick loop, reading the SUB socket                  *)
(*  "ticking"    in the tick loop, in on_tick                              *)
(*  "acking"     in the tick loop, waiting for the server's ACK            *)
(***************************************************************************)
InLoop(c) == pc[c] \in {"waiting", "ticking", "acking"}

ClientTypeOK ==
  /\ pc \in [Clients -> {"off", "connected", "shaking", "stuck", "refused",
                         "waiting", "ticking", "acking"}]
  /\ time_ns \in [Clients -> Nat \cup {NoTime}]
  /\ seen \in [Clients -> Nat \cup {NoTime}]

ClientInit ==
  /\ pc = [c \in Clients |-> "off"]
  /\ time_ns = [c \in Clients |-> NoTime]
  /\ seen = [c \in Clients |-> NoTime]

\* The name simulith_client_init keeps: 63 characters of it.
client_id(c) == Truncate(AppId[c], 2)

Goto(c, here, there) ==
  /\ pc[c] \in here
  /\ pc' = [pc EXCEPT ![c] = there]

-----------------------------------------------------------------------------
\* An empty name is refused.
Connect(c) ==
  /\ AppId[c] # NoId
  /\ sock[c] < MaxSockets
  /\ Goto(c, {"off"}, "connected")
  /\ UNCHANGED <<time_ns, seen, wireVars>>

\* The subscription made by init reaches the publisher.
Subscribe(c) ==
  /\ pc[c] # "off"
  /\ c \notin subscribed
  /\ subscribed' = subscribed \cup {c}
  /\ UNCHANGED <<clientVars, requests, reply, sock, ticks>>

\* The handshake sends READY.  In state "stuck" zmq_send fails: no step.
SendReady(c) ==
  /\ c \in subscribed \/ "slow_join" \in Faults
  /\ Goto(c, {"connected", "refused"}, "shaking")
  /\ SendRequest(c, "ready", client_id(c))
  /\ UNCHANGED <<time_ns, seen, reply, sock, subscribed, ticks>>

\* The handshake is answered; on ACK the application enters the tick loop.
EndHandshake(c) ==
  /\ reply[c] # NoReply
  /\ Goto(c, {"shaking"}, IF reply[c] = "ACK" THEN "waiting" ELSE "refused")
  /\ reply' = [reply EXCEPT ![c] = NoReply]
  /\ UNCHANGED <<time_ns, seen, requests, sock, subscribed, ticks>>

\* The receive timeout expires, whatever may be on its way.
HandshakeTimeout(c) ==
  /\ "timeout" \in Faults
  /\ Goto(c, {"shaking"}, "stuck")
  /\ UNCHANGED <<time_ns, seen, wireVars>>

-----------------------------------------------------------------------------
\* The tick loop reads a time and calls on_tick.
ReceiveTick(c) ==
  /\ ticks[c] # << >>
  /\ Goto(c, {"waiting"}, "ticking")
  /\ time_ns' = [time_ns EXCEPT ![c] = Head(ticks[c])]
  /\ ticks' = [ticks EXCEPT ![c] = Tail(@)]
  /\ UNCHANGED <<seen, requests, reply, sock, subscribed>>

\* on_tick returns; the client acknowledges with its bare name.
AckTick(c) ==
  /\ Goto(c, {"ticking"}, "acking")
  /\ seen' = [seen EXCEPT ![c] = time_ns[c]]
  /\ time_ns' = [time_ns EXCEPT ![c] = NoTime]
  /\ SendRequest(c, "ack", client_id(c))
  /\ UNCHANGED <<reply, sock, subscribed, ticks>>

\* The server's answer is read and ignored.
ReceiveAck(c) ==
  /\ reply[c] # NoReply
  /\ Goto(c, {"acking"}, "waiting")
  /\ reply' = [reply EXCEPT ![c] = NoReply]
  /\ UNCHANGED <<time_ns, seen, requests, sock, subscribed, ticks>>

-----------------------------------------------------------------------------
\* Shutdown after a failed handshake; a request not yet sent lingers until it is.
Shutdown(c) ==
  /\ Goto(c, {"refused", "stuck"}, "off")
  /\ CloseSockets(c)
  /\ UNCHANGED <<time_ns, seen, requests>>

\* The client process dies; its request is lost unless it was already sent.
Crash(c) ==
  /\ "crash" \in Faults
  /\ pc[c] # "off"
  /\ pc' = [pc EXCEPT ![c] = "off"]
  /\ CloseSockets(c)
  /\ requests' \in {requests,
                    {r \in requests : ~ (r.from = c /\ r.sock = sock[c])}}
  /\ time_ns' = [time_ns EXCEPT ![c] = NoTime]
  /\ UNCHANGED seen
=============================================================================
