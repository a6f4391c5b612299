----------------------------- MODULE Endpoints ------------------------------
(***************************************************************************)
(* simulith_server_init and _shutdown, simulith_client_init and _shutdown  *)
(* as users of ZeroMQ: each keeps a context and two sockets in three       *)
(* static pointers.  Both sides run in one process, as in                  *)
(* test_simulith.c; calls of one side do not overlap.  What is refused     *)
(* before zmq_ctx_new changes nothing.  The protocol itself is in TimeSync.*)
(***************************************************************************)
EXTENDS Naturals, FiniteSetsExt

CONSTANTS
  Addresses,    \* addresses that can be bound and connected to
  BadAddress,   \* one that cannot
  MaxContexts,  \* ZeroMQ's limits
  MaxSockets

\* Assumed of the constants.
EndpointsAssumption ==
  /\ BadAddress \notin Addresses
  /\ MaxContexts \in Nat /\ MaxSockets \in Nat

Sides == {"server", "client"}
Null  == 0

VARIABLES
  held,         \* side -> its pointers; first: publisher or subscriber,
                \*         second: responder or requester
  contexts,     \* the contexts that exist: id and side
  sockets,      \* the sockets that exist: id, context, kind, address
  unsent,       \* requesters with a message that has not left
  lingering,    \* the closed ones among them
  ready,        \* sides whose last init returned 0
  terminating,  \* sides inside zmq_ctx_term
  careless      \* history: sides that called init without a shutdown between

vars == <<held, contexts, sockets, unsent, lingering, ready, terminating, careless>>

Kinds == {"PUB", "REP", "SUB", "REQ"}

TypeOK ==
  /\ held \in [Sides -> [context : 0 .. MaxContexts,
                         first : 0 .. MaxSockets, second : 0 .. MaxSockets]]
  /\ contexts \subseteq [id : 1 .. MaxContexts, side : Sides]
  /\ sockets \subseteq [id : 1 .. MaxSockets, context : 1 .. MaxContexts,
                        kind : Kinds, address : Addresses \cup {BadAddress}]
  /\ lingering \subseteq unsent /\ unsent \subseteq {s.id : s \in sockets}
  /\ ready \subseteq Sides /\ terminating \subseteq Sides /\ careless \subseteq Sides

AllNull == [context |-> Null, first |-> Null, second |-> Null]

Init ==
  /\ held = [side \in Sides |-> AllNull]
  /\ contexts = {} /\ sockets = {} /\ unsent = {} /\ lingering = {}
  /\ ready = {} /\ terminating = {} /\ careless = {}

-----------------------------------------------------------------------------
\* What ZeroMQ returns for a new object: NULL at its limit.
NewId(limit, used) ==
  IF 1 .. limit \subseteq used THEN Null ELSE Min((1 .. limit) \ used)

\* An address has one bound socket at a time; any number may connect.
Reaches(kind, a, others) ==
  /\ a # BadAddress
  /\ kind \in {"PUB", "REP"} =>
       ~ \E s \in others : s.kind \in {"PUB", "REP"} /\ s.address = a

\* The pointers after an init, and what it created.
Holds(side, context, first, second, new) ==
  /\ held' = [held EXCEPT ![side] =
                [context |-> context, first |-> first, second |-> second]]
  /\ contexts' = contexts \cup {c \in {[id |-> context, side |-> side]} : c.id # Null}
  /\ sockets' = sockets \cup {s \in new : s.id # Null}

\* Mutant of Open: the context is not looked at.
OpenInAny(side, kinds, a1, a2) ==
  LET context   == NewId(MaxContexts, {c.id : c \in contexts})
      used      == {s.id : s \in sockets}
      id1       == NewId(MaxSockets, used)
      id2       == NewId(MaxSockets, used \cup {id1})
      Socket(id, kind, a) ==
        [id |-> id, context |-> context, kind |-> kind,
         address |-> IF Reaches(kind, a, sockets) THEN a ELSE BadAddress]
  IN  /\ ready' = ready \cup {side}
      /\ Holds(side, context, id1, id2,
               {Socket(id1, kinds[1], a1), Socket(id2, kinds[2], a2)})

\* Context, first and second socket: the first failure ends it, and undoes
\* nothing.  A socket that reaches no address exists all the same.
Open(side, kinds, a1, a2) ==
  LET old       == held[side]
      context   == NewId(MaxContexts, {c.id : c \in contexts})
      used      == {s.id : s \in sockets}
      id1       == NewId(MaxSockets, used)
      id2       == NewId(MaxSockets, used \cup {id1})
      reaches1  == Reaches(kinds[1], a1, sockets)
      first     == [id |-> id1, context |-> context, kind |-> kinds[1],
                    address |-> IF reaches1 THEN a1 ELSE BadAddress]
      reaches2  == Reaches(kinds[2], a2, sockets \cup {first})
      second    == [id |-> id2, context |-> context, kind |-> kinds[2],
                    address |-> IF reaches2 THEN a2 ELSE BadAddress]
  IN  \/ /\ context = Null
         /\ Holds(side, Null, old.first, old.second, {})
         /\ ready' = ready \ {side}
      \/ /\ context # Null /\ (id1 = Null \/ ~ reaches1)
         /\ Holds(side, context, id1, old.second, {first})
         /\ ready' = ready \ {side}
      \/ /\ context # Null /\ id1 # Null /\ reaches1
         /\ Holds(side, context, id1, id2, {first, second})
         /\ ready' = IF id2 # Null /\ reaches2 THEN ready \cup {side} ELSE ready \ {side}

InitCalled(side) ==
  /\ side \notin terminating
  /\ careless' = IF held[side] = AllNull THEN careless ELSE careless \cup {side}
  /\ UNCHANGED <<unsent, lingering, terminating>>

simulith_server_init(pub_bind, rep_bind) ==
  InitCalled("server") /\ Open("server", <<"PUB", "REP">>, pub_bind, rep_bind)

simulith_client_init(pub_addr, rep_addr) ==
  InitCalled("client") /\ Open("client", <<"SUB", "REQ">>, pub_addr, rep_addr)

-----------------------------------------------------------------------------
\* A first READY is queued, whether there is a server or not; then the wait
\* for the answer ends, at the latest by its timeout.
simulith_client_handshake ==
  /\ "client" \in ready \ terminating
  /\ held["client"].second \notin unsent
  /\ unsent' = unsent \cup {held["client"].second}
  /\ UNCHANGED <<held, contexts, sockets, lingering, ready, terminating, careless>>

\* A responder is bound where s is connected: the message leaves.
Deliver(s) ==
  /\ s.id \in unsent
  /\ \E t \in sockets : t.kind = "REP" /\ t.address = s.address
  /\ unsent' = unsent \ {s.id}
  /\ lingering' = lingering \ {s.id}
  /\ sockets' = IF s.id \in lingering THEN sockets \ {s} ELSE sockets
  /\ UNCHANGED <<held, contexts, ready, terminating, careless>>

\* Mutant of Shutdown: the second socket is closed only if there is no first.
ShutdownElse(side) ==
  LET p      == held[side]
      closed == IF p.first # Null THEN {p.first} ELSE {p.second}
  IN  /\ side \notin terminating
      /\ lingering' = lingering \cup (closed \cap unsent)
      /\ sockets' = {s \in sockets : s.id \notin closed \/ s.id \in unsent}
      /\ terminating' = terminating \cup {side}
      /\ UNCHANGED <<held, contexts, unsent, ready, careless>>

\* The sockets are closed; one with an unsent message lingers, without limit.
Shutdown(side) ==
  LET closed == {held[side].first, held[side].second} \ {Null}
  IN  /\ side \notin terminating
      /\ lingering' = lingering \cup (closed \cap unsent)
      /\ sockets' = {s \in sockets : s.id \notin closed \/ s.id \in unsent}
      /\ terminating' = terminating \cup {side}
      /\ UNCHANGED <<held, contexts, unsent, ready, careless>>

\* Mutant of Terminate: the second pointer is not set to NULL.
TerminateKeepingSecond(side) ==
  /\ side \in terminating
  /\ ~ \E s \in sockets : s.context = held[side].context
  /\ contexts' = {c \in contexts : c.id # held[side].context}
  /\ held' = [held EXCEPT ![side] = [AllNull EXCEPT !.second = held[side].second]]
  /\ ready' = ready \ {side}
  /\ terminating' = terminating \ {side}
  /\ UNCHANGED <<sockets, unsent, lingering, careless>>

\* Mutant of Terminate: zmq_ctx_term is not called.
TerminateNothing(side) ==
  /\ side \in terminating
  /\ held' = [held EXCEPT ![side] = AllNull]
  /\ ready' = ready \ {side}
  /\ terminating' = terminating \ {side}
  /\ UNCHANGED <<contexts, sockets, unsent, lingering, careless>>

\* zmq_ctx_term waits for every socket of the context; the pointers are reset.
Terminate(side) ==
  /\ side \in terminating
  /\ ~ \E s \in sockets : s.context = held[side].context
  /\ contexts' = {c \in contexts : c.id # held[side].context}
  /\ held' = [held EXCEPT ![side] = AllNull]
  /\ ready' = ready \ {side}
  /\ terminating' = terminating \ {side}
  /\ UNCHANGED <<sockets, unsent, lingering, careless>>

Next ==
  \/ \E a1, a2 \in Addresses \cup {BadAddress} :
       simulith_server_init(a1, a2) \/ simulith_client_init(a1, a2)
  \/ simulith_client_handshake
  \/ \E s \in sockets : Deliver(s)
  \/ \E side \in Sides : Shutdown(side) \/ Terminate(side)

Spec == Init /\ [][Next]_vars

(***************************************************************************)
(* A careful client whose server never comes: it passes two addresses that *)
(* can be connected to, shuts down before it inits again, and nobody binds *)
(* either address.  ZeroMQ's own threads go on, and zmq_ctx_term returns   *)
(* when it can.                                                            *)
(***************************************************************************)
AloneNext ==
  \/ /\ held["client"] = AllNull
     /\ \E a1, a2 \in Addresses : a1 # a2 /\ simulith_client_init(a1, a2)
  \/ simulith_client_handshake
  \/ \E s \in sockets : Deliver(s)
  \/ Shutdown("client") \/ Terminate("client")

AloneSpec ==
  /\ Init /\ [][AloneNext]_vars
  /\ WF_vars(\E s \in sockets : Deliver(s))
  /\ WF_vars(Terminate("client"))

-----------------------------------------------------------------------------
(***************************************************************************)
(* A pointer that is not NULL points to an object that exists and has not  *)
(* been closed: no shutdown closes a socket twice, and no call uses one    *)
(* that is gone, however inits that failed half way and shutdowns follow   *)
(* each other.                                                             *)
(***************************************************************************)
PointersLive ==
  \A side \in Sides \ terminating :
    /\ held[side].context \in {c.id : c \in contexts} \cup {Null}
    /\ {held[side].first, held[side].second} \ {Null} \subseteq
         {s.id : s \in sockets} \ lingering

(***************************************************************************)
(* A shutdown waits for a message, never for a socket nobody will close:   *)
(* all sockets of the context it terminates are those it holds, though     *)
(* what it holds may be of two different inits.                            *)
(***************************************************************************)
ShutdownWaitsForMessageOnly ==
  \A side \in Sides, s \in sockets :
    s.context = held[side].context =>
      /\ s.id \in {held[side].first, held[side].second}
      /\ side \in terminating => s.id \in unsent

Contexts(side) == {c.id : c \in {d \in contexts : d.side = side}}

(***************************************************************************)
(* A program that shuts down before it calls init again, after one that    *)
(* failed too, leaves nothing behind when it has shut down.                *)
(***************************************************************************)
CarefulReleases ==
  \A side \in Sides \ careless :
    held[side] = AllNull => Contexts(side) = {}

(***************************************************************************)
(* simulith.h: "Cleanly shuts down the server", "Shut down the client and  *)
(* release resources": after a shutdown nothing of that side exists.       *)
(***************************************************************************)
ShutdownReleases ==
  \A side \in Sides : held[side] = AllNull => Contexts(side) = {}

(***************************************************************************)
(* simulith.h: "Shut down the client and release resources": the client's  *)
(* shutdown returns.                                                       *)
(***************************************************************************)
ClientStops == "client" \in terminating ~> "client" \notin terminating
=============================================================================
