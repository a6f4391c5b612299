------------------------------ MODULE SyncWire ------------------------------
(***************************************************************************)
(* The ZeroMQ transport of Simulith, as the server and the clients use it. *)
(* libzmq is not part of the repository: this module states what its       *)
(* sockets do for the calls in simulith_server.c and simulith_client.c.    *)
(*                                                                         *)
(*  - REQ/REP.  A REQ socket has one request in flight at a time.  The REP *)
(*    socket takes pending requests in any order between peers, and must   *)
(*    answer one before it takes the next.  A reply to a socket that is    *)
(*    gone is dropped.                                                     *)
(*  - PUB/SUB.  The publisher sends a message to the subscriptions it      *)
(*    knows at that moment and never again; each subscriber reads its own  *)
(*    messages in order; a full pipe drops the message.                    *)
(*                                                                         *)
(* A client name of the program is a character string.  Only three lengths *)
(* matter, so a name is a sequence of at most three pieces: its first 57   *)
(* characters, the next 6, and the rest.  The empty sequence is "".        *)
(***************************************************************************)
EXTENDS Integers, Sequences, FiniteSets

CONSTANTS
  Clients,   \* client processes
  Pieces,    \* pieces client names are made of
  Hwm        \* high-water mark of a publish/subscribe pipe (1000 by default)

ASSUME HwmAssumption == Hwm \in Nat \ {0}

VARIABLES
  requests,    \* requests sent and not yet received by the REP socket
  reply,       \* reply[c]: answer on its way to c's REQ socket, or NoReply
  sock,        \* sock[c]: number of c's current (or next) pair of sockets
  subscribed,  \* clients whose subscription has reached the PUB socket
  ticks        \* ticks[c]: times published to c and not yet read by it

wireVars == <<requests, reply, sock, subscribed, ticks>>

NoId    == << >>
NoReply == "none"
Replies == {"ACK", "DUP_ID", "ERR"}

\* The string n pieces long that strncpy, or a read into a short buffer, keeps.
Truncate(id, n) == SubSeq(id, 1, IF Len(id) < n THEN Len(id) ELSE n)

Ids == Seq(Pieces)

\* A request is "READY <id>" (kind "ready") or a bare "<id>" (kind "ack").
Requests == [from : Clients, sock : Nat, kind : {"ready", "ack"}, id : Ids]

WireTypeOK ==
  /\ requests \subseteq Requests
  /\ reply \in [Clients -> Replies \cup {NoReply}]
  /\ sock \in [Clients -> Nat]
  /\ subscribed \subseteq Clients
  /\ ticks \in [Clients -> Seq(Nat)]

WireInit ==
  /\ requests = {}
  /\ reply = [c \in Clients |-> NoReply]
  /\ sock = [c \in Clients |-> 0]
  /\ subscribed = {}
  /\ ticks = [c \in Clients |-> << >>]

-----------------------------------------------------------------------------
\* zmq_send on c's REQ socket.
SendRequest(c, kind, id) ==
  requests' = requests \cup
                {[from |-> c, sock |-> sock[c], kind |-> kind, id |-> id]}

\* zmq_recv then zmq_send on the REP socket: r is consumed, its sender answered.
AnswerRequest(r, answer) ==
  /\ requests' = requests \ {r}
  /\ reply' = IF r.sock = sock[r.from]
                THEN [reply EXCEPT ![r.from] = answer]
                ELSE reply

(***************************************************************************)
(* What the server's zmq_recv leaves of the name in its 63 byte read: the  *)
(* "READY " prefix takes 6 of them.  (zmq_recv reports the full size of a  *)
(* longer message, and buffer[size] = 0 then writes outside the buffer.    *)
(* That write is undefined; it is modelled as touching no state named      *)
(* here.)                                                                  *)
(***************************************************************************)
ReceivedId(r) == Truncate(r.id, IF r.kind = "ready" THEN 1 ELSE 2)

\* zmq_send on the PUB socket.
Publish(t) ==
  ticks' = [c \in Clients |->
              IF c \in subscribed /\ Len(ticks[c]) < Hwm
                THEN Append(ticks[c], t)
                ELSE ticks[c]]

\* The end of c's sockets: what was on its way to them is lost.
CloseSockets(c) ==
  /\ sock' = [sock EXCEPT ![c] = @ + 1]
  /\ reply' = [reply EXCEPT ![c] = NoReply]
  /\ subscribed' = subscribed \ {c}
  /\ ticks' = [ticks EXCEPT ![c] = << >>]
=============================================================================
