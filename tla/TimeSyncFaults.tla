--------------------------- MODULE TimeSyncFaults ---------------------------
(***************************************************************************)
(* The time synchronisation protocol when the server process dies and is   *)
(* started again under its addresses.  The server keeps nothing on disk:   *)
(* it comes back with an empty client table and time 0, while its clients' *)
(* sockets reconnect by themselves.                                        *)
(*                                                                         *)
(* Neither program restarts anything.  A supervisor is assumed: it starts  *)
(* the server again, and a client that is in its tick loop without being   *)
(* registered.                                                             *)
(*                                                                         *)
(* Recovery also needs luck with two races that the programs do not        *)
(* decide.  Both may be lost here, as in the code; untimely remembers it,  *)
(* and what is promised is promised as long as it is FALSE.                *)
(***************************************************************************)
EXTENDS TimeSync

CONSTANT MaxStarts  \* bound: server processes

ASSUME StartsAssumption == MaxStarts \in Nat \ {0}

VARIABLES
  starts,   \* server processes so far
  ticked,   \* history: clients whose on_tick has returned since the last start
  untimely  \* history: a race was lost

faultVars == <<starts, ticked, untimely>>
allVars   == <<vars, faultVars>>

FaultsInit == Init /\ starts = 1 /\ ticked = {} /\ untimely = FALSE

-----------------------------------------------------------------------------
\* What the client processes and the wire are left with: requests that have
\* not left a process, replies and times that have arrived; no subscription.
ServerConnectionsLost ==
  /\ requests' \in SUBSET {r \in requests : r.sock = sock[r.from]}
  /\ \E lost \in SUBSET Clients :
       reply' = [c \in Clients |-> IF c \in lost THEN NoReply ELSE reply[c]]
  /\ \E lost \in SUBSET Clients :
       ticks' = [c \in Clients |-> IF c \in lost THEN << >> ELSE ticks[c]]
  /\ subscribed' = {}
  /\ UNCHANGED sock

\* Mutant of ServerStarts: the table is not cleared.
ServerStartsWithTable ==
  /\ phase' = "handshake"
  /\ ready_clients' = 0
  /\ current_time_ns' = 0
  /\ UNCHANGED client_states

\* A new process: its static variables, then simulith_server_init.
ServerStarts ==
  /\ phase' = "handshake"
  /\ client_states' = [i \in Slots |-> [id |-> NoId, responded |-> FALSE]]
  /\ ready_clients' = 0
  /\ current_time_ns' = 0

ServerRestart ==
  /\ starts < MaxStarts
  /\ starts' = starts + 1
  /\ ticked' = {}
  /\ ServerStarts
  /\ ServerConnectionsLost
  /\ UNCHANGED <<clientVars, untimely>>

-----------------------------------------------------------------------------
\* In the tick loop of a server that does not know it.
Orphan(c) == InLoop(c) /\ ~Registered(c)

\* The supervisor kills an orphan, which Connect starts again.
RestartOrphan(c) == Orphan(c) /\ Crash(c)

\* c's READY waits for the server, or its answer is on the way.
AnswerComing(c) ==
  reply[c] # NoReply \/ \E r \in requests : r.from = c /\ r.sock = sock[c]

\* The first race: a second, in which the server gets the request and answers.
\* A client that gives up all the same may be registered behind its back.
GiveUp(c) ==
  /\ HandshakeTimeout(c)
  /\ untimely' = (untimely \/ AnswerComing(c))
  /\ UNCHANGED <<serverVars, starts, ticked>>

\* The second race: the subscriptions of those who register against the first
\* broadcast.  Who misses it is never sent another time.
StartAll ==
  /\ StartTicking
  /\ untimely' = (untimely \/ \E c \in Clients : Registered(c) /\ c \notin subscribed)
  /\ UNCHANGED <<clientVars, starts, ticked>>

ServeRequest(r) ==
  (ServeHandshake(r) \/ ServeAck(r)) /\ UNCHANGED <<clientVars, faultVars>>

Advance == AdvanceTime /\ UNCHANGED <<clientVars, faultVars>>

FinishTick(c) ==
  /\ AckTick(c)
  /\ ticked' = ticked \cup {c}
  /\ UNCHANGED <<serverVars, starts, untimely>>

ClientStep(c) ==
  /\ \/ Connect(c) \/ Subscribe(c) \/ SendReady(c) \/ EndHandshake(c)
     \/ ReceiveTick(c) \/ ReceiveAck(c) \/ Shutdown(c) \/ RestartOrphan(c)
  /\ UNCHANGED <<serverVars, faultVars>>

FaultsNext ==
  \/ \E r \in requests : ServeRequest(r)
  \/ StartAll \/ Advance
  \/ \E c \in Clients : ClientStep(c) \/ FinishTick(c) \/ GiveUp(c)
  \/ ServerRestart

FaultsSpec == FaultsInit /\ [][FaultsNext]_allVars

(***************************************************************************)
(* Fairness as in TimeSync, and of the supervisor.  A handshake that is    *)
(* not answered times out, and the application shuts down after it: its    *)
(* socket is of no use any more.                                           *)
(***************************************************************************)
ClientGoesOn(c) ==
  /\ \/ Connect(c) \/ SendReady(c) \/ EndHandshake(c)
     \/ ReceiveTick(c) \/ ReceiveAck(c) \/ RestartOrphan(c)
     \/ pc[c] = "stuck" /\ Shutdown(c)
  /\ UNCHANGED <<serverVars, faultVars>>

RecoverySpec ==
  /\ FaultsSpec
  /\ WF_allVars(StartAll \/ Advance)
  /\ \A c \in Clients :
       /\ SF_allVars(\E r \in requests : r.from = c /\ ServeRequest(r))
       /\ WF_allVars(Subscribe(c) /\ UNCHANGED <<serverVars, faultVars>>)
       /\ WF_allVars(ClientGoesOn(c) \/ FinishTick(c) \/ GiveUp(c))

-----------------------------------------------------------------------------
(***************************************************************************)
(* After a finite number of server restarts, with orphans restarted too,   *)
(* simulation time moves again for ever: nothing that the dead server left *)
(* behind keeps a client from registering with the new one, as long as no  *)
(* client gives up an answer that is coming or misses the first broadcast. *)
(***************************************************************************)
TimeRecovers == []~ untimely => []<><<AdvanceTime>>_vars

(***************************************************************************)
(* A client that has to wait for a server that does not know it is not     *)
(* left there: every orphan runs registered, or is started again and then  *)
(* does, as long as no race is lost.                                       *)
(***************************************************************************)
OrphansReturn ==
  []~ untimely => \A c \in Clients : Orphan(c) ~> (InLoop(c) /\ Registered(c))

(***************************************************************************)
(* README: "ensures all participants are synchronized for each simulation  *)
(* step": an acknowledgement the server counts is one of a time it has     *)
(* published itself, after which the client's on_tick has returned.        *)
(***************************************************************************)
AckOfThisServer ==
  \A i \in Slots, c \in Clients :
    client_states[i].responded /\ client_states[i].id = client_id(c) => c \in ticked
=============================================================================
