--------------------------- MODULE TimeSyncProofs ---------------------------
(***************************************************************************)
(* Theorems about TimeSync, for any number of clients, slots and names, and *)
(* about TimeSyncFaults, for any number of server processes.               *)
(***************************************************************************)
EXTENDS TimeSyncFaults, SequenceTheorems, FiniteSetTheorems, FunctionTheorems, TLAPS

-----------------------------------------------------------------------------
(* Names. *)

\* strncpy keeps a string, no longer than asked for, with the same characters.
LEMMA TruncateProperties ==
  ASSUME NEW S, NEW s \in Seq(S), NEW n \in Nat
  PROVE  /\ Truncate(s, n) \in Seq(S)
         /\ Len(Truncate(s, n)) = IF Len(s) < n THEN Len(s) ELSE n
         /\ \A i \in 1 .. Len(Truncate(s, n)) : Truncate(s, n)[i] = s[i]
<1> DEFINE k == IF Len(s) < n THEN Len(s) ELSE n
<1>1. Len(s) \in Nat /\ k \in 0 .. Len(s)
  BY LenProperties
<1>2. /\ SubSeq(s, 1, k) \in Seq(S)
      /\ Len(SubSeq(s, 1, k)) = k
      /\ \A i \in 1 .. k : SubSeq(s, 1, k)[i] = s[i]
  BY <1>1, SubSeqProperties
<1> QED
  BY <1>2 DEF Truncate

\* Cutting a name that was already cut changes nothing: a client's name goes
\* whole through the 63 byte read of an acknowledgement.
LEMMA TruncateTwice ==
  ASSUME NEW S, NEW s \in Seq(S), NEW n \in Nat
  PROVE  Truncate(Truncate(s, n), n) = Truncate(s, n)
<1> DEFINE t == Truncate(s, n)
<1>1. t \in Seq(S) /\ Len(t) <= n /\ Len(t) \in Nat
  BY TruncateProperties, LenProperties
<1>2. /\ Truncate(t, n) \in Seq(S)
      /\ Len(Truncate(t, n)) = Len(t)
      /\ \A i \in 1 .. Len(t) : Truncate(t, n)[i] = t[i]
  BY <1>1, TruncateProperties
<1> HIDE DEF t
<1>3. Truncate(t, n) = t
  BY <1>1, <1>2, SeqEqual
<1> QED
  BY <1>3 DEF t

LEMMA ClientIdType ==
  ASSUME NEW c \in Clients
  PROVE  client_id(c) \in Ids
BY ClientAssumption, TruncateProperties DEF client_id, Ids

LEMMA ReceivedIdType ==
  ASSUME NEW r \in Requests
  PROVE  ReceivedId(r) \in Ids
BY TruncateProperties DEF ReceivedId, Requests, Ids

-----------------------------------------------------------------------------
(* Type correctness. *)

LEMMA PublishType ==
  ASSUME TypeOK, NEW t \in Nat, Publish(t)
  PROVE  ticks' \in [Clients -> Seq(Nat)]
BY AppendProperties DEF TypeOK, WireTypeOK, Publish

LEMMA SendRequestType ==
  ASSUME TypeOK, NEW c \in Clients, NEW kind \in {"ready", "ack"},
         SendRequest(c, kind, client_id(c))
  PROVE  requests' \subseteq Requests
BY ClientIdType DEF TypeOK, WireTypeOK, SendRequest, Requests

LEMMA AnswerRequestType ==
  ASSUME TypeOK, NEW r \in requests, NEW answer \in Replies,
         AnswerRequest(r, answer)
  PROVE  /\ requests' \subseteq Requests
         /\ reply' \in [Clients -> Replies \cup {NoReply}]
BY DEF TypeOK, WireTypeOK, AnswerRequest, Requests

LEMMA CloseSocketsType ==
  ASSUME TypeOK, NEW c \in Clients, CloseSockets(c)
  PROVE  /\ reply' \in [Clients -> Replies \cup {NoReply}]
         /\ sock' \in [Clients -> Nat]
         /\ subscribed' \subseteq Clients
         /\ ticks' \in [Clients -> Seq(Nat)]
BY EmptySeq DEF TypeOK, WireTypeOK, CloseSockets

LEMMA ResetResponsesType ==
  ASSUME TypeOK, reset_responses
  PROVE  client_states' \in [Slots -> [id : Ids, responded : BOOLEAN]]
BY DEF TypeOK, ServerTypeOK, reset_responses

LEMMA InitType == Init => TypeOK
<1> SUFFICES ASSUME Init PROVE TypeOK
  OBVIOUS
<1>1. WireTypeOK
  BY EmptySeq DEF Init, WireInit, WireTypeOK
<1>2. ServerTypeOK
  BY EmptySeq, ServerAssumption DEF Init, ServerInit, ServerTypeOK, NoId, Ids, Times
<1>3. ClientTypeOK
  BY DEF Init, ClientInit, ClientTypeOK
<1> QED
  BY <1>1, <1>2, <1>3 DEF TypeOK

LEMMA NextType == TypeOK /\ [Next]_vars => TypeOK'
<1> SUFFICES ASSUME TypeOK, [Next]_vars PROVE TypeOK'
  OBVIOUS
<1> USE DEF TypeOK
<1>1. ASSUME NEW r \in requests, ServeHandshake(r), UNCHANGED clientVars
      PROVE  TypeOK'
  <2>1. r \in Requests
    BY DEF WireTypeOK
  <2>2. HandshakeAnswer(r) \in Replies
    BY DEF HandshakeAnswer, Replies
  <2>3. WireTypeOK'
    BY <1>1, <2>2, AnswerRequestType DEF ServeHandshake, WireTypeOK
  <2>4. ServerTypeOK'
    <3>1. CASE Register(ReceivedId(r))
      <4>1. [id |-> ReceivedId(r), responded |-> FALSE]
              \in [id : Ids, responded : BOOLEAN]
        BY <2>1, ReceivedIdType
      <4>2. client_states' \in [Slots -> [id : Ids, responded : BOOLEAN]]
        BY <3>1, <4>1 DEF Register, ServerTypeOK
      <4>3. ready_clients' \in 0 .. expected_clients
        BY <1>1, <3>1, ServerAssumption DEF ServeHandshake, Register, ServerTypeOK
      <4> QED
        BY <1>1, <4>2, <4>3 DEF ServeHandshake, ServerTypeOK
    <3>2. CASE UNCHANGED <<client_states, ready_clients>>
      BY <1>1, <3>2 DEF ServeHandshake, ServerTypeOK
    <3> QED
      BY <1>1, <3>1, <3>2 DEF ServeHandshake
  <2> QED
    BY <1>1, <2>3, <2>4 DEF ClientTypeOK, clientVars
<1>2. ASSUME NEW r \in requests, ServeAck(r), UNCHANGED clientVars
      PROVE  TypeOK'
  <2>1. WireTypeOK'
    BY <1>2, AnswerRequestType DEF ServeAck, WireTypeOK, Replies
  <2>2. ServerTypeOK'
    BY <1>2 DEF ServeAck, handle_ack, ServerTypeOK
  <2> QED
    BY <1>2, <2>1, <2>2 DEF ClientTypeOK, clientVars
<1>3. ASSUME StartTicking, UNCHANGED clientVars
      PROVE  TypeOK'
  <2>1. current_time_ns \in Nat
    BY ServerAssumption DEF ServerTypeOK, Times
  <2>2. WireTypeOK'
    BY <1>3, <2>1, PublishType DEF StartTicking, WireTypeOK
  <2>3. ServerTypeOK'
    BY <1>3, ResetResponsesType DEF StartTicking, ServerTypeOK
  <2> QED
    BY <1>3, <2>2, <2>3 DEF ClientTypeOK, clientVars
<1>4. ASSUME AdvanceTime, UNCHANGED clientVars
      PROVE  TypeOK'
  <2>1. current_time_ns' \in Times
    BY <1>4, ServerAssumption DEF AdvanceTime, ServerTypeOK, Times
  <2>2. current_time_ns' \in Nat
    BY <2>1, ServerAssumption DEF Times
  <2>3. WireTypeOK'
    BY <1>4, <2>2, PublishType DEF AdvanceTime, WireTypeOK
  <2>4. ServerTypeOK'
    BY <1>4, <2>1, ResetResponsesType DEF AdvanceTime, ServerTypeOK
  <2> QED
    BY <1>4, <2>3, <2>4 DEF ClientTypeOK, clientVars
<1>5. ASSUME ClientNext, UNCHANGED serverVars
      PROVE  TypeOK'
  <2>1. ServerTypeOK'
    BY <1>5 DEF ServerTypeOK, serverVars, Slots, Times
  <2> SUFFICES ASSUME NEW c \in Clients,
                      \/ Connect(c) \/ Subscribe(c)
                      \/ SendReady(c) \/ EndHandshake(c) \/ HandshakeTimeout(c)
                      \/ ReceiveTick(c) \/ AckTick(c) \/ ReceiveAck(c)
                      \/ Shutdown(c) \/ Crash(c)
               PROVE  WireTypeOK' /\ ClientTypeOK'
    BY <1>5, <2>1 DEF ClientNext
  <2>2. CASE Connect(c)
    BY <2>2 DEF Connect, Goto, WireTypeOK, ClientTypeOK, wireVars
  <2>3. CASE Subscribe(c)
    BY <2>3 DEF Subscribe, WireTypeOK, ClientTypeOK, clientVars
  <2>4. CASE SendReady(c)
    BY <2>4, SendRequestType DEF SendReady, Goto, WireTypeOK, ClientTypeOK
  <2>5. CASE EndHandshake(c)
    BY <2>5 DEF EndHandshake, Goto, WireTypeOK, ClientTypeOK
  <2>6. CASE HandshakeTimeout(c)
    BY <2>6 DEF HandshakeTimeout, Goto, WireTypeOK, ClientTypeOK, wireVars
  <2>7. CASE ReceiveTick(c)
    <3>1. Head(ticks[c]) \in Nat /\ Tail(ticks[c]) \in Seq(Nat)
      BY <2>7, HeadTailProperties DEF ReceiveTick, WireTypeOK
    <3> QED
      BY <2>7, <3>1 DEF ReceiveTick, Goto, WireTypeOK, ClientTypeOK
  <2>8. CASE AckTick(c)
    BY <2>8, SendRequestType DEF AckTick, Goto, WireTypeOK, ClientTypeOK
  <2>9. CASE ReceiveAck(c)
    BY <2>9 DEF ReceiveAck, Goto, WireTypeOK, ClientTypeOK
  <2>10. CASE Shutdown(c)
    BY <2>10, CloseSocketsType DEF Shutdown, Goto, WireTypeOK, ClientTypeOK
  <2>11. CASE Crash(c)
    BY <2>11, CloseSocketsType DEF Crash, WireTypeOK, ClientTypeOK
  <2> QED
    BY <2>2, <2>3, <2>4, <2>5, <2>6, <2>7, <2>8, <2>9, <2>10, <2>11
<1>6. CASE UNCHANGED vars
  BY <1>6 DEF vars, wireVars, serverVars, clientVars, WireTypeOK, ServerTypeOK,
              ClientTypeOK
<1> QED
  BY <1>1, <1>2, <1>3, <1>4, <1>5, <1>6 DEF Next, ServerNext

\* Every variable of the protocol keeps the values its C declaration allows:
\* the time stays within its width and no more clients are counted than expected.
THEOREM TypeCorrect == Spec => []TypeOK
<1>1. Init => TypeOK
  BY InitType
<1>2. TypeOK /\ [Next]_vars => TypeOK'
  BY NextType
<1> QED
  BY <1>1, <1>2, PTL DEF Spec

-----------------------------------------------------------------------------
(* The client table. *)

\* The slot the registration loop finds: the table is filled in order.
LEMMA FirstFreeSlot ==
  ASSUME TypeOK, RegistrationSound, ready_clients < expected_clients
  PROVE  /\ ready_clients \in Slots
         /\ Min(FreeSlots) = ready_clients
<1>1. ready_clients \in Slots
  BY ServerAssumption DEF TypeOK, ServerTypeOK, Slots
<1>2. \A i \in Slots : i \in FreeSlots <=> ~ (i < ready_clients)
  BY DEF RegistrationSound, FreeSlots
<1>3. FreeSlots \subseteq Slots /\ Slots \subseteq Int
  BY ServerAssumption DEF FreeSlots, Slots
<1>4. ready_clients \in FreeSlots /\ \A j \in FreeSlots : ready_clients =< j
  BY <1>1, <1>2, <1>3
<1>5. \A i \in FreeSlots : (\A j \in FreeSlots : i =< j) => i = ready_clients
  BY <1>1, <1>3, <1>4
<1>6. Min(FreeSlots) = CHOOSE x \in FreeSlots : \A y \in FreeSlots : x =< y
  BY DEF Min
<1> QED
  BY <1>1, <1>4, <1>5, <1>6

\* No two slots match one acknowledgement, so the first match is the match.
LEMMA OneAckedSlot ==
  ASSUME TypeOK, RegistrationSound, NEW r, NEW i \in AckedSlots(r)
  PROVE  Min(AckedSlots(r)) = i
<1>1. i \in Slots /\ i \in Int /\ TickSlots \subseteq Slots
  BY ServerAssumption DEF AckedSlots, TickSlots, Slots
<1>2. \A j \in AckedSlots(r) : j = i
  BY <1>1 DEF AckedSlots, RegistrationSound
<1>3. Min(AckedSlots(r)) =
        CHOOSE x \in AckedSlots(r) : \A y \in AckedSlots(r) : x =< y
  BY DEF Min
<1>4. \A y \in AckedSlots(r) : i =< y
  BY <1>1, <1>2
<1> HIDE DEF AckedSlots
<1> QED
  BY <1>2, <1>3, <1>4

\* Only a new name is registered.
LEMMA AckMeansNew ==
  ASSUME NEW r, HandshakeAnswer(r) = "ACK"
  PROVE  ReceivedId(r) # NoId /\ ~ is_client_id_taken(ReceivedId(r))
<1> DEFINE id == ReceivedId(r)
<1>1. HandshakeAnswer(r) =
        CASE r.kind # "ready" \/ id = NoId -> "ERR"
          [] r.kind = "ready" /\ id # NoId /\ is_client_id_taken(id) -> "DUP_ID"
          [] OTHER -> IF FreeSlots = {} THEN "ERR" ELSE "ACK"
  BY DEF HandshakeAnswer
<1> HIDE DEF id
<1>2. ~ (r.kind # "ready" \/ id = NoId)
  BY <1>1
<1>3. ~ (r.kind = "ready" /\ id # NoId /\ is_client_id_taken(id))
  BY <1>1
<1> QED
  BY <1>2, <1>3 DEF id

LEMMA HandshakeRegistration ==
  ASSUME TypeOK, RegistrationSound, NEW r \in requests, ServeHandshake(r)
  PROVE  \/ /\ Register(ReceivedId(r))
            /\ ReceivedId(r) # NoId
            /\ ~ is_client_id_taken(ReceivedId(r))
         \/ UNCHANGED <<client_states, ready_clients>>
BY AckMeansNew DEF ServeHandshake

LEMMA RegisterSound ==
  ASSUME TypeOK, RegistrationSound, ready_clients < expected_clients,
         phase = "handshake", phase' = phase,
         NEW id \in Ids, id # NoId, ~ is_client_id_taken(id), Register(id)
  PROVE  RegistrationSound'
<1> DEFINE n == ready_clients
           slot == [id |-> id, responded |-> FALSE]
<1>1. n \in Slots /\ n \in Nat /\ ready_clients' = n + 1
  BY FirstFreeSlot DEF Register, TypeOK, ServerTypeOK
<1>2. client_states' = [client_states EXCEPT ![n] = slot]
  BY FirstFreeSlot DEF Register
<1>3. \A i \in Slots : client_states'[i] = IF i = n THEN slot ELSE client_states[i]
  BY <1>1, <1>2 DEF TypeOK, ServerTypeOK
<1>4. \A i \in Slots : i \in Int /\ client_states[i].id # id
  BY ServerAssumption DEF is_client_id_taken, Slots
<1>5. \A i \in Slots : client_states'[i].id # NoId <=> i < ready_clients'
  BY <1>1, <1>3, <1>4 DEF RegistrationSound
<1>6. ASSUME NEW i \in Slots, NEW j \in Slots, client_states'[i].id # NoId,
             client_states'[i].id = client_states'[j].id
      PROVE  i = j
  BY <1>3, <1>4, <1>6 DEF RegistrationSound
<1>7. \A i \in Slots : ~ client_states'[i].responded
  BY <1>3 DEF RegistrationSound
<1> QED
  BY <1>5, <1>6, <1>7 DEF RegistrationSound

LEMMA ResetSound ==
  ASSUME TypeOK, RegistrationSound, reset_responses, phase' = "ticking",
         ready_clients' = ready_clients, ready_clients = expected_clients
  PROVE  /\ RegistrationSound'
         /\ \A i \in Slots : client_states'[i].id = client_states[i].id
         /\ \A i \in TickSlots : ~ client_states'[i].responded
<1>1. \A i \in Slots : client_states[i] \in [id : Ids, responded : BOOLEAN]
  BY DEF TypeOK, ServerTypeOK
<1>2. ASSUME NEW i \in Slots
      PROVE  /\ client_states'[i].id = client_states[i].id
             /\ client_states'[i].responded => client_states[i].responded
             /\ i \in TickSlots => ~ client_states'[i].responded
  BY <1>1 DEF reset_responses
<1>3. TickSlots \subseteq Slots
  BY ServerAssumption DEF TickSlots, Slots
<1> QED
  BY <1>2, <1>3 DEF RegistrationSound

LEMMA HandleAckSound ==
  ASSUME TypeOK, RegistrationSound, NEW r, handle_ack(r), phase = "ticking",
         phase' = phase, ready_clients' = ready_clients
  PROVE  /\ RegistrationSound'
         /\ \A i \in Slots :
              /\ client_states'[i].id = client_states[i].id
              /\ client_states'[i].responded <=>
                   client_states[i].responded \/ i \in AckedSlots(r)
<1>1. ASSUME NEW i \in Slots
      PROVE  /\ client_states'[i].id = client_states[i].id
             /\ client_states'[i].responded <=>
                  client_states[i].responded \/ i \in AckedSlots(r)
  <2>1. CASE AckedSlots(r) = {}
    BY <2>1 DEF handle_ack
  <2>2. CASE AckedSlots(r) # {}
    <3>1. PICK k \in AckedSlots(r) : TRUE
      BY <2>2
    <3>2. Min(AckedSlots(r)) = k /\ \A j \in AckedSlots(r) : j = k
      BY <3>1, OneAckedSlot
    <3>3. k \in Slots
      BY ServerAssumption DEF AckedSlots, TickSlots, Slots
    <3>4. client_states' = [client_states EXCEPT ![k].responded = TRUE]
      BY <2>2, <3>2 DEF handle_ack
    <3>5. client_states[i] \in [id : Ids, responded : BOOLEAN]
      BY DEF TypeOK, ServerTypeOK
    <3> QED
      BY <3>1, <3>2, <3>3, <3>4, <3>5 DEF TypeOK, ServerTypeOK
  <2> QED
    BY <2>1, <2>2
<1>2. \A i \in AckedSlots(r) : client_states[i].id # NoId
  BY DEF AckedSlots
<1> QED
  BY <1>1, <1>2 DEF RegistrationSound

LEMMA InitSound == Init => RegistrationSound
BY ServerAssumption DEF Init, ServerInit, RegistrationSound, Slots

LEMMA NextSound == TypeOK /\ RegistrationSound /\ [Next]_vars => RegistrationSound'
<1> SUFFICES ASSUME TypeOK, RegistrationSound, [Next]_vars PROVE RegistrationSound'
  OBVIOUS
<1>1. ASSUME NEW r \in requests, ServeHandshake(r)
      PROVE  RegistrationSound'
  <2>1. r \in Requests
    BY DEF TypeOK, WireTypeOK
  <2>2. CASE /\ Register(ReceivedId(r))
             /\ ReceivedId(r) # NoId
             /\ ~ is_client_id_taken(ReceivedId(r))
    BY <1>1, <2>1, <2>2, ReceivedIdType, RegisterSound DEF ServeHandshake
  <2>3. CASE UNCHANGED <<client_states, ready_clients>>
    BY <1>1, <2>3 DEF ServeHandshake, RegistrationSound
  <2> QED
    BY <1>1, <2>2, <2>3, HandshakeRegistration
<1>2. ASSUME NEW r \in requests, ServeAck(r)
      PROVE  RegistrationSound'
  BY <1>2, HandleAckSound DEF ServeAck
<1>3. CASE StartTicking
  BY <1>3, ResetSound, ServerAssumption DEF StartTicking, TypeOK, ServerTypeOK
<1>4. CASE AdvanceTime
  BY <1>4, ResetSound DEF AdvanceTime, RegistrationSound
<1>5. CASE UNCHANGED serverVars
  BY <1>5 DEF serverVars, RegistrationSound
<1>6. CASE UNCHANGED vars
  BY <1>5, <1>6 DEF vars
<1> QED
  BY <1>1, <1>2, <1>3, <1>4, <1>5, <1>6 DEF Next, ServerNext

\* The client table is dense and its names are distinct, whatever the names and
\* faults: the first-free-slot search of simulith_server_run and the first-match
\* search of handle_ack agree on who is registered.
THEOREM TableCorrect == Spec => []RegistrationSound
<1>1. Init => RegistrationSound
  BY InitSound
<1>2. TypeOK /\ RegistrationSound /\ [Next]_vars => RegistrationSound'
  BY NextSound
<1> QED
  BY <1>1, <1>2, TypeCorrect, PTL DEF Spec

-----------------------------------------------------------------------------
(* Acknowledgements.  The tokens of AckAccounting and LockStep are kept     *)
(* together, per client: neither is inductive without the other.            *)

\* Where the token of the current tick is, for a registered client c.
TokenAt(c) ==
  /\ ticks[c] \in {<< >>, <<current_time_ns>>}
  /\ pc[c] = "ticking" => ticks[c] = << >> /\ time_ns[c] = current_time_ns
  /\ \A q, r \in PendingAcks(c) : q = r
  /\ PendingAcks(c) # {} => Settled(c)
  /\ Counted(c) => Settled(c) /\ PendingAcks(c) = {}

Quiet(c) == ticks[c] = << >> /\ pc[c] # "ticking" /\ PendingAcks(c) = {}

OwnIds == \A r \in requests : r.id = client_id(r.from)

Tokens ==
  /\ OwnIds
  /\ phase = "handshake" => \A c \in Clients : Quiet(c)
  /\ \A c \in Clients : Registered(c) => TokenAt(c)

LEMMA TokensAre == Tokens <=> AckAccounting /\ LockStep
BY DEF Tokens, OwnIds, Quiet, TokenAt, AckAccounting, LockStep

\* What a registered client knows of its slot.
LEMMA RegisteredSlot ==
  ASSUME NEW c \in Clients
  PROVE  Registered(c) <=> /\ client_id(c) # NoId
                           /\ \E i \in Slots : client_states[i].id = client_id(c)
BY DEF Registered, RegisteredIds

\* The name read from an acknowledgement is its sender's.
LEMMA AckId ==
  ASSUME TypeOK, OwnIds, NEW r \in requests, r.kind = "ack"
  PROVE  ReceivedId(r) = client_id(r.from)
<1>1. r.from \in Clients /\ r.id = Truncate(AppId[r.from], 2)
  BY DEF TypeOK, WireTypeOK, Requests, OwnIds, client_id
<1>2. AppId[r.from] \in Seq(Pieces)
  BY <1>1, ClientAssumption DEF Ids
<1> QED
  BY <1>1, <1>2, TruncateTwice DEF ReceivedId, client_id

\* A broadcast gives each client one token, provided none had one.
LEMMA BroadcastTokens ==
  ASSUME TypeOK, TypeOK', OwnIds, UNCHANGED requests, UNCHANGED clientVars,
         phase' = "ticking", Publish(current_time_ns'),
         \A i \in TickSlots : ~ client_states'[i].responded,
         \A c \in Clients : Registered(c)' => Quiet(c)
  PROVE  Tokens'
<1>1. OwnIds'
  BY DEF OwnIds
<1>2. ASSUME NEW c \in Clients, Registered(c)'
      PROVE  TokenAt(c)'
  <2>1. Quiet(c)
    BY <1>2
  <2>2. ticks'[c] \in {<< >>, <<current_time_ns'>>}
    <3>1. Append(ticks[c], current_time_ns') = <<current_time_ns'>>
      BY <2>1 DEF Quiet
    <3> QED
      BY <2>1, <3>1 DEF Publish, Quiet
  <2>3. pc'[c] # "ticking" /\ PendingAcks(c)' = {}
    BY <2>1 DEF Quiet, clientVars, PendingAcks
  <2>4. ~ Counted(c)'
    BY DEF Counted
  <2> QED
    BY <2>2, <2>3, <2>4 DEF TokenAt
<1> QED
  BY <1>1, <1>2 DEF Tokens

LEMMA HandshakeTokens ==
  ASSUME TypeOK, RegistrationSound', Tokens, NEW r \in requests,
         ServeHandshake(r), UNCHANGED clientVars
  PROVE  Tokens'
<1>1. requests' \subseteq requests
  BY DEF ServeHandshake, AnswerRequest
<1>2. \A c \in Clients : Quiet(c)'
  BY <1>1 DEF ServeHandshake, Tokens, Quiet, PendingAcks, clientVars
<1>3. \A i \in Slots : ~ client_states'[i].responded
  BY DEF RegistrationSound, ServeHandshake
<1>4. TickSlots \subseteq Slots
  BY ServerAssumption DEF TickSlots, Slots
<1>5. \A c \in Clients : TokenAt(c)'
  BY <1>2, <1>3, <1>4 DEF TokenAt, Quiet, Counted
<1> QED
  BY <1>1, <1>2, <1>5 DEF Tokens, OwnIds

LEMMA ServeAckTokens ==
  ASSUME UniqueNames, TypeOK, RegistrationSound, Tokens, NEW r \in requests,
         ServeAck(r), UNCHANGED clientVars
  PROVE  Tokens'
<1>1. /\ requests' = requests \ {r}
      /\ UNCHANGED <<phase, current_time_ns, ticks, pc, time_ns, seen>>
  BY DEF ServeAck, AnswerRequest, clientVars
<1>2. \A i \in Slots :
        /\ client_states'[i].id = client_states[i].id
        /\ client_states'[i].responded <=>
             client_states[i].responded \/ i \in AckedSlots(r)
  BY HandleAckSound DEF ServeAck
<1>3. OwnIds'
  BY <1>1 DEF Tokens, OwnIds
<1>4. ASSUME NEW c \in Clients, Registered(c)'
      PROVE  TokenAt(c)'
  <2>1. Registered(c)
    BY <1>2, <1>4 DEF Registered, RegisteredIds
  <2>2. TokenAt(c)
    BY <2>1 DEF Tokens
  <2>3. PendingAcks(c)' \subseteq PendingAcks(c) /\ (Settled(c)' <=> Settled(c))
    BY <1>1 DEF PendingAcks, Settled
  <2>4. ASSUME Counted(c)'
        PROVE  Settled(c) /\ PendingAcks(c)' = {}
    <3>1. PICK i \in TickSlots : /\ client_states'[i].id = client_id(c)
                                 /\ client_states'[i].responded
      BY <2>4 DEF Counted
    <3>2. i \in Slots
      BY ServerAssumption DEF TickSlots, Slots
    <3>3. CASE client_states[i].responded
      BY <1>2, <2>2, <2>3, <3>1, <3>2, <3>3 DEF TokenAt, Counted
    <3>4. CASE i \in AckedSlots(r)
      <4>1. r.kind = "ack" /\ client_id(c) = ReceivedId(r)
        BY <1>2, <3>1, <3>2, <3>4 DEF AckedSlots
      <4>2. r.from \in Clients
        BY DEF TypeOK, WireTypeOK, Requests
      <4>3. r.from = c
        BY <4>1, <4>2, AckId DEF UniqueNames, Tokens
      <4>4. r \in PendingAcks(c) /\ r \notin PendingAcks(c)'
        BY <1>1, <4>1, <4>3 DEF PendingAcks
      <4> QED
        BY <2>2, <2>3, <4>4 DEF TokenAt
    <3> QED
      BY <1>2, <3>1, <3>2, <3>3, <3>4
  <2> QED
    BY <1>1, <2>2, <2>3, <2>4 DEF TokenAt
<1> QED
  BY <1>1, <1>3, <1>4 DEF Tokens, ServeAck

\* All clients responded: each registered client has finished the tick.
LEMMA AllRespondedSettled ==
  ASSUME TypeOK, RegistrationSound, Tokens, phase = "ticking",
         all_clients_responded, NEW c \in Clients, Registered(c)
  PROVE  Settled(c) /\ Quiet(c)
<1>1. PICK i \in Slots : /\ client_states[i].id = client_id(c)
                         /\ client_states[i].id # NoId
  BY RegisteredSlot
<1>2. i \in TickSlots
  BY <1>1, ServerAssumption DEF RegistrationSound, TickSlots, Slots
<1>3. Counted(c)
  BY <1>1, <1>2 DEF Counted, all_clients_responded
<1> QED
  BY <1>3 DEF Tokens, TokenAt, Settled, Quiet

LEMMA AdvanceTokens ==
  ASSUME TypeOK, TypeOK', RegistrationSound, Tokens, AdvanceTime, UNCHANGED clientVars
  PROVE  Tokens'
<1>1. /\ \A i \in Slots : client_states'[i].id = client_states[i].id
      /\ \A i \in TickSlots : ~ client_states'[i].responded
  BY ResetSound DEF AdvanceTime, RegistrationSound
<1>2. \A c \in Clients : Registered(c)' => Quiet(c)
  BY <1>1, AllRespondedSettled DEF AdvanceTime, Registered, RegisteredIds
<1> QED
  BY <1>1, <1>2, BroadcastTokens DEF AdvanceTime, Tokens

LEMMA StartTokens ==
  ASSUME TypeOK, TypeOK', RegistrationSound, Tokens, StartTicking, UNCHANGED clientVars
  PROVE  Tokens'
<1>1. \A i \in TickSlots : ~ client_states'[i].responded
  BY ResetSound, ServerAssumption DEF StartTicking, TypeOK, ServerTypeOK
<1>2. \A c \in Clients : Quiet(c)
  BY DEF Tokens, StartTicking
<1> QED
  BY <1>1, <1>2, BroadcastTokens DEF StartTicking, Tokens

\* A step of client c leaves the tokens of the others where they are.
LEMMA OtherTokens ==
  ASSUME UNCHANGED serverVars, NEW c \in Clients, NEW d \in Clients,
         UNCHANGED <<ticks[d], pc[d], time_ns[d], seen[d]>>,
         PendingAcks(d)' = PendingAcks(d)
  PROVE  /\ Quiet(d) => Quiet(d)'
         /\ TokenAt(d) => TokenAt(d)'
<1>1. Settled(d)' <=> Settled(d)
  BY DEF Settled, serverVars
<1>2. Counted(d)' <=> Counted(d)
  BY DEF Counted, serverVars
<1> QED
  BY <1>1, <1>2 DEF Quiet, TokenAt, serverVars

\* c's step keeps the tokens if it keeps c's own.
LEMMA ClientTokens ==
  ASSUME Tokens, UNCHANGED serverVars, NEW c \in Clients, OwnIds',
         \A d \in Clients \ {c} :
           /\ UNCHANGED <<ticks[d], pc[d], time_ns[d], seen[d]>>
           /\ PendingAcks(d)' = PendingAcks(d),
         Quiet(c) => Quiet(c)',
         Registered(c) => TokenAt(c)'
  PROVE  Tokens'
<1>1. \A d \in Clients : Registered(d)' <=> Registered(d)
  BY DEF Registered, RegisteredIds, serverVars
<1>2. \A d \in Clients \ {c} : /\ Quiet(d) => Quiet(d)'
                               /\ TokenAt(d) => TokenAt(d)'
  BY OtherTokens
<1>3. phase' = phase
  BY DEF serverVars
<1> QED
  BY <1>1, <1>2, <1>3 DEF Tokens

\* A step that moves no token of c and no acknowledgement.
LEMMA NoTokenMoves ==
  ASSUME Tokens, UNCHANGED serverVars, NEW c \in Clients, OwnIds',
         UNCHANGED <<ticks, time_ns, seen>>,
         \A d \in Clients : PendingAcks(d)' = PendingAcks(d),
         \A d \in Clients \ {c} : pc'[d] = pc[d],
         pc'[c] # "ticking" \/ pc'[c] = pc[c]
  PROVE  Tokens'
<1>1. Quiet(c) => Quiet(c)'
  BY DEF Quiet
<1>2. Settled(c) => Settled(c)'
  BY DEF Settled, serverVars
<1>3. Counted(c)' <=> Counted(c)
  BY DEF Counted, serverVars
<1>4. Registered(c) => TokenAt(c)'
  BY <1>2, <1>3 DEF Tokens, TokenAt, serverVars
<1> QED
  BY <1>1, <1>4, ClientTokens

\* The end of c's sockets: its token is lost, or is on its way to the server.
LEMMA ClosedTokens ==
  ASSUME TypeOK, Tokens, UNCHANGED serverVars, NEW c \in Clients, CloseSockets(c),
         pc' = [pc EXCEPT ![c] = "off"], requests' \subseteq requests,
         \A d \in Clients \ {c} : PendingAcks(d)' = PendingAcks(d) /\ time_ns'[d] = time_ns[d],
         UNCHANGED seen
  PROVE  Tokens'
<1>1. ticks'[c] = << >> /\ pc'[c] = "off" /\ PendingAcks(c)' \subseteq PendingAcks(c)
  BY DEF CloseSockets, TypeOK, WireTypeOK, ClientTypeOK, PendingAcks
<1>2. \A d \in Clients \ {c} : UNCHANGED <<ticks[d], pc[d], seen[d]>>
  BY DEF CloseSockets, TypeOK, WireTypeOK, ClientTypeOK
<1>3. OwnIds'
  BY DEF Tokens, OwnIds
<1>4. Quiet(c) => Quiet(c)'
  BY <1>1 DEF Quiet
<1>5. Settled(c) => Settled(c)'
  BY <1>1 DEF Settled, serverVars
<1>6. Counted(c)' <=> Counted(c)
  BY DEF Counted, serverVars
<1>7. Registered(c) => TokenAt(c)'
  BY <1>1, <1>5, <1>6 DEF Tokens, TokenAt
<1> QED
  BY <1>2, <1>3, <1>4, <1>7, ClientTokens

LEMMA ReceiveTickTokens ==
  ASSUME TypeOK, Tokens, UNCHANGED serverVars, NEW c \in Clients, ReceiveTick(c)
  PROVE  Tokens'
<1>1. /\ ticks[c] # << >>
      /\ pc[c] = "waiting" /\ pc' = [pc EXCEPT ![c] = "ticking"]
      /\ time_ns' = [time_ns EXCEPT ![c] = Head(ticks[c])]
      /\ ticks' = [ticks EXCEPT ![c] = Tail(@)]
      /\ UNCHANGED <<seen, requests>>
  BY DEF ReceiveTick, Goto
<1>2. \A d \in Clients : PendingAcks(d)' = PendingAcks(d)
  BY <1>1 DEF PendingAcks
<1>3. OwnIds'
  BY <1>1 DEF Tokens, OwnIds
<1>4. \A d \in Clients \ {c} : UNCHANGED <<ticks[d], pc[d], time_ns[d], seen[d]>>
  BY <1>1 DEF TypeOK, WireTypeOK, ClientTypeOK
<1>5. ASSUME Registered(c)
      PROVE  TokenAt(c)'
  <2>1. TokenAt(c) /\ ticks[c] = <<current_time_ns>>
    BY <1>1, <1>5 DEF Tokens, TokenAt
  <2>2. ticks'[c] = << >> /\ time_ns'[c] = current_time_ns /\ pc'[c] = "ticking"
    BY <1>1, <2>1 DEF TypeOK, WireTypeOK, ClientTypeOK
  <2>3. ~ Settled(c)
    BY <1>1 DEF Settled
  <2>4. PendingAcks(c)' = {} /\ ~ Counted(c)'
    BY <1>2, <2>1, <2>3 DEF TokenAt, Counted, serverVars
  <2> QED
    BY <2>2, <2>4 DEF TokenAt, serverVars
<1>6. ~ Quiet(c)
  BY <1>1 DEF Quiet
<1> QED
  BY <1>2, <1>3, <1>4, <1>5, <1>6, ClientTokens

LEMMA AckTickTokens ==
  ASSUME TypeOK, Tokens, UNCHANGED serverVars, NEW c \in Clients, AckTick(c)
  PROVE  Tokens'
<1> DEFINE ack == [from |-> c, sock |-> sock[c], kind |-> "ack", id |-> client_id(c)]
<1>1. /\ pc[c] = "ticking" /\ pc' = [pc EXCEPT ![c] = "acking"]
      /\ seen' = [seen EXCEPT ![c] = time_ns[c]]
      /\ time_ns' = [time_ns EXCEPT ![c] = NoTime]
      /\ requests' = requests \cup {ack}
      /\ ticks' = ticks
  BY DEF AckTick, Goto, SendRequest
<1>2. PendingAcks(c)' = PendingAcks(c) \cup {ack}
  BY <1>1 DEF PendingAcks
<1>3. \A d \in Clients \ {c} : /\ UNCHANGED <<ticks[d], pc[d], time_ns[d], seen[d]>>
                               /\ PendingAcks(d)' = PendingAcks(d)
  BY <1>1 DEF TypeOK, WireTypeOK, ClientTypeOK, PendingAcks
<1>4. OwnIds'
  BY <1>1 DEF Tokens, OwnIds
<1>5. ASSUME Registered(c)
      PROVE  TokenAt(c)'
  <2>1. /\ TokenAt(c)
        /\ ticks[c] = << >> /\ time_ns[c] = current_time_ns
        /\ ~ Settled(c)
    BY <1>1, <1>5 DEF Tokens, TokenAt, Settled
  <2>2. PendingAcks(c)' = {ack} /\ ~ Counted(c)'
    BY <1>2, <2>1 DEF TokenAt, Counted, serverVars
  <2>3. ticks'[c] = << >> /\ pc'[c] = "acking" /\ seen'[c] = current_time_ns
    BY <1>1, <2>1 DEF TypeOK, WireTypeOK, ClientTypeOK
  <2> QED
    BY <2>2, <2>3 DEF TokenAt, Settled, serverVars
<1>6. ~ Quiet(c)
  BY <1>1 DEF Quiet
<1> QED
  BY <1>3, <1>4, <1>5, <1>6, ClientTokens

LEMMA SendReadyTokens ==
  ASSUME TypeOK, Tokens, UNCHANGED serverVars, NEW c \in Clients, SendReady(c)
  PROVE  Tokens'
<1> DEFINE ready == [from |-> c, sock |-> sock[c], kind |-> "ready", id |-> client_id(c)]
<1>1. requests' = requests \cup {ready}
  BY DEF SendReady, SendRequest
<1>2. \A d \in Clients : PendingAcks(d)' = PendingAcks(d)
  BY <1>1 DEF PendingAcks
<1>3. OwnIds'
  BY <1>1 DEF Tokens, OwnIds
<1>4. pc' = [pc EXCEPT ![c] = "shaking"] /\ UNCHANGED <<ticks, time_ns, seen>>
  BY DEF SendReady, Goto
<1> QED
  BY <1>2, <1>3, <1>4, NoTokenMoves DEF TypeOK, ClientTypeOK

LEMMA CrashTokens ==
  ASSUME TypeOK, Tokens, UNCHANGED serverVars, NEW c \in Clients, Crash(c)
  PROVE  Tokens'
<1>1. \A d \in Clients \ {c} : PendingAcks(d)' = PendingAcks(d)
  <2>1. CASE requests' = requests
    BY <2>1 DEF PendingAcks
  <2>2. CASE requests' = {r \in requests : ~ (r.from = c /\ r.sock = sock[c])}
    BY <2>2 DEF PendingAcks
  <2> QED
    BY <2>1, <2>2 DEF Crash
<1>2. \A d \in Clients \ {c} : time_ns'[d] = time_ns[d]
  BY DEF Crash, TypeOK, ClientTypeOK
<1>3. /\ CloseSockets(c) /\ pc' = [pc EXCEPT ![c] = "off"]
      /\ requests' \subseteq requests /\ UNCHANGED seen
  BY DEF Crash
<1> QED
  BY <1>1, <1>2, <1>3, ClosedTokens

LEMMA ClientStepTokens ==
  ASSUME TypeOK, Tokens, ClientNext, UNCHANGED serverVars
  PROVE  Tokens'
<1> SUFFICES ASSUME NEW c \in Clients,
                    \/ Connect(c) \/ Subscribe(c)
                    \/ SendReady(c) \/ EndHandshake(c) \/ HandshakeTimeout(c)
                    \/ ReceiveTick(c) \/ AckTick(c) \/ ReceiveAck(c)
                    \/ Shutdown(c) \/ Crash(c)
             PROVE  Tokens'
  BY DEF ClientNext
<1>1. ASSUME UNCHANGED requests
      PROVE  OwnIds' /\ \A d \in Clients : PendingAcks(d)' = PendingAcks(d)
  BY <1>1 DEF Tokens, OwnIds, PendingAcks
<1>2. CASE Connect(c)
  BY <1>1, <1>2, NoTokenMoves DEF Connect, Goto, wireVars, TypeOK, ClientTypeOK
<1>3. CASE Subscribe(c)
  BY <1>1, <1>3, NoTokenMoves DEF Subscribe, clientVars
<1>4. CASE SendReady(c)
  BY <1>4, SendReadyTokens
<1>5. CASE EndHandshake(c)
  BY <1>1, <1>5, NoTokenMoves DEF EndHandshake, Goto, TypeOK, ClientTypeOK
<1>6. CASE HandshakeTimeout(c)
  BY <1>1, <1>6, NoTokenMoves DEF HandshakeTimeout, Goto, wireVars, TypeOK, ClientTypeOK
<1>7. CASE ReceiveTick(c)
  BY <1>7, ReceiveTickTokens
<1>8. CASE AckTick(c)
  BY <1>8, AckTickTokens
<1>9. CASE ReceiveAck(c)
  BY <1>1, <1>9, NoTokenMoves DEF ReceiveAck, Goto, TypeOK, ClientTypeOK
<1>10. CASE Shutdown(c)
  BY <1>1, <1>10, ClosedTokens DEF Shutdown, Goto
<1>11. CASE Crash(c)
  BY <1>11, CrashTokens
<1> QED
  BY <1>2, <1>3, <1>4, <1>5, <1>6, <1>7, <1>8, <1>9, <1>10, <1>11

LEMMA InitTokens == Init => Tokens
BY DEF Init, WireInit, ServerInit, ClientInit, Tokens, OwnIds, Quiet,
       PendingAcks, Registered, RegisteredIds, Slots

LEMMA NextTokens ==
  ASSUME UniqueNames, TypeOK, TypeOK', RegistrationSound, RegistrationSound',
         Tokens, [Next]_vars
  PROVE  Tokens'
<1>1. ASSUME NEW r \in requests, ServeHandshake(r) \/ ServeAck(r), UNCHANGED clientVars
      PROVE  Tokens'
  BY <1>1, HandshakeTokens, ServeAckTokens
<1>2. CASE StartTicking /\ UNCHANGED clientVars
  BY <1>2, StartTokens
<1>3. CASE AdvanceTime /\ UNCHANGED clientVars
  BY <1>3, AdvanceTokens
<1>4. CASE ClientNext /\ UNCHANGED serverVars
  BY <1>4, ClientStepTokens
<1>5. CASE UNCHANGED vars
  <2>1. UNCHANGED <<requests, ticks, phase, client_states, current_time_ns,
                    pc, time_ns, seen>>
    BY <1>5 DEF vars, wireVars, serverVars, clientVars
  <2>2. \A c \in Clients : PendingAcks(c)' = PendingAcks(c)
    BY <2>1 DEF PendingAcks
  <2> QED
    BY <2>1, <2>2 DEF Tokens, OwnIds, Quiet, Registered, RegisteredIds, TokenAt,
                      Counted, Settled
<1> QED
  BY <1>1, <1>2, <1>3, <1>4, <1>5 DEF Next, ServerNext

-----------------------------------------------------------------------------
(* The theorems.  They need each client to have a name of its own: two      *)
(* clients with one name share a slot, and either may answer for the other. *)

\* The inductive invariant.
IInv == TypeOK /\ RegistrationSound /\ Tokens

LEMMA IInvHolds ==
  ASSUME UniqueNames
  PROVE  Spec => []IInv
<1>1. Init => IInv
  BY InitType, InitSound, InitTokens DEF IInv
<1>2. IInv /\ [Next]_vars => IInv'
  BY NextType, NextSound, NextTokens DEF IInv
<1> QED
  BY <1>1, <1>2, PTL DEF Spec

\* No acknowledgement reaches handle_ack late or twice, through any crash and
\* restart of client processes, although it does not say which tick it answers.
THEOREM AcksAccounted ==
  ASSUME UniqueNames
  PROVE  Spec => []AckAccounting
<1>1. IInv => AckAccounting
  BY TokensAre DEF IInv
<1> QED
  BY <1>1, IInvHolds, PTL

\* A registered client never reads a time that the server has already left.
THEOREM InLockStep ==
  ASSUME UniqueNames
  PROVE  Spec => []LockStep
<1>1. IInv => LockStep
  BY TokensAre DEF IInv
<1> QED
  BY <1>1, IInvHolds, PTL

\* A responded flag of the client table is about the current tick.
THEOREM RespondedIsDone ==
  ASSUME UniqueNames
  PROVE  Spec => []RespondedMeansDone
<1>1. IInv => RespondedMeansDone
  <2> SUFFICES ASSUME IInv, NEW i \in Slots, NEW c \in Clients,
                      client_states[i].responded, client_states[i].id = client_id(c)
               PROVE  seen[c] = current_time_ns
    BY DEF RespondedMeansDone
  <2>1. phase = "ticking" /\ client_states[i].id # NoId
    BY DEF IInv, RegistrationSound
  <2>2. i \in TickSlots
    BY <2>1, ServerAssumption DEF IInv, RegistrationSound, TickSlots, Slots
  <2>3. Registered(c) /\ Counted(c)
    BY <2>1, <2>2, RegisteredSlot DEF Counted
  <2> QED
    BY <2>3 DEF IInv, Tokens, TokenAt, Settled
<1> QED
  BY <1>1, IInvHolds, PTL

\* simulith_server_run moves the time on only when each registered client has
\* returned from on_tick for the current time.
THEOREM AdvanceIsSafe ==
  ASSUME UniqueNames
  PROVE  Spec => AdvanceOnlyWhenAllDone
<1>1. ASSUME IInv, [Next]_vars
      PROVE  [ current_time_ns' # current_time_ns =>
                 \A c \in Clients : Registered(c) => seen[c] = current_time_ns ]_vars
  <2> SUFFICES ASSUME current_time_ns' # current_time_ns, NEW c \in Clients, Registered(c)
               PROVE  seen[c] = current_time_ns
    OBVIOUS
  <2>1. AdvanceTime
    BY <1>1 DEF Next, ServerNext, ServeHandshake, ServeAck, StartTicking,
                vars, serverVars
  <2> QED
    BY <1>1, <2>1, AllRespondedSettled DEF IInv, AdvanceTime, Settled
<1> QED
  BY <1>1, IInvHolds, PTL DEF Spec, AdvanceOnlyWhenAllDone

-----------------------------------------------------------------------------
(* The barrier.  The handshake reads a name 6 characters shorter than the   *)
(* acknowledgements do: a longer name is registered under one that nobody   *)
(* acknowledges with, and no member of the barrier answers to it.           *)

\* Names of at most 57 characters.
ShortNames == \A c \in Clients : Len(AppId[c]) <= 1

ClientNames == {client_id(c) : c \in Clients}

\* What the refinement needs besides IInv: whoever is registered is a client,
\* and no on_tick has returned before the first broadcast.
BarrierInv ==
  /\ RegisteredIds \subseteq ClientNames
  /\ phase = "handshake" => \A c \in Clients : seen[c] = NoTime

\* The name read from a READY request is its sender's.
LEMMA ReadyId ==
  ASSUME ShortNames, TypeOK, OwnIds, NEW r \in requests
  PROVE  ReceivedId(r) = client_id(r.from)
<1> DEFINE s == AppId[r.from]
           k == IF r.kind = "ready" THEN 1 ELSE 2
<1>1. r.from \in Clients /\ r.id = Truncate(s, 2)
  BY DEF TypeOK, WireTypeOK, Requests, OwnIds, client_id
<1>2. s \in Seq(Pieces) /\ Len(s) <= 1 /\ Len(s) \in Nat
  BY <1>1, ClientAssumption, LenProperties DEF Ids, ShortNames
<1> HIDE DEF s
<1>3. \A n \in {1, 2} : Truncate(s, n) = s
  <2> SUFFICES ASSUME NEW n \in {1, 2} PROVE Truncate(s, n) = s
    OBVIOUS
  <2>1. /\ Truncate(s, n) \in Seq(Pieces)
        /\ Len(Truncate(s, n)) = Len(s)
        /\ \A i \in 1 .. Len(Truncate(s, n)) : Truncate(s, n)[i] = s[i]
    BY <1>2, TruncateProperties
  <2> QED
    BY <1>2, <2>1, SeqEqual
<1>4. ReceivedId(r) = Truncate(r.id, k)
  BY DEF ReceivedId
<1>5. k \in {1, 2}
  OBVIOUS
<1> QED
  BY <1>1, <1>3, <1>4, <1>5 DEF client_id, s

\* Registration adds one name to the table.
LEMMA RegisterAddsName ==
  ASSUME TypeOK, RegistrationSound, ready_clients < expected_clients,
         NEW id \in Ids, id # NoId, Register(id)
  PROVE  RegisteredIds' = RegisteredIds \cup {id}
<1> DEFINE n == ready_clients
           slot == [id |-> id, responded |-> FALSE]
<1>1. n \in Slots /\ client_states' = [client_states EXCEPT ![n] = slot]
  BY FirstFreeSlot DEF Register
<1>2. \A i \in Slots : client_states'[i] = IF i = n THEN slot ELSE client_states[i]
  BY <1>1 DEF TypeOK, ServerTypeOK
<1>3. client_states[n].id = NoId
  BY <1>1, ServerAssumption DEF RegistrationSound, TypeOK, ServerTypeOK
<1>4. ASSUME NEW x
      PROVE  x \in RegisteredIds' <=> x \in RegisteredIds \cup {id}
  <2>1. x \in RegisteredIds' <=> x # NoId /\ \E i \in Slots : client_states'[i].id = x
    BY DEF RegisteredIds
  <2>2. x \in RegisteredIds <=> x # NoId /\ \E i \in Slots : client_states[i].id = x
    BY DEF RegisteredIds
  <2> QED
    BY <1>1, <1>2, <1>3, <2>1, <2>2
<1> QED
  BY <1>4

\* A change that keeps the names of the slots keeps the set of names.
LEMMA SameNames ==
  ASSUME \A i \in Slots : client_states'[i].id = client_states[i].id
  PROVE  RegisteredIds' = RegisteredIds
BY DEF RegisteredIds

LEMMA InitBarrier == Init => BarrierInv
BY DEF Init, ServerInit, ClientInit, BarrierInv, RegisteredIds, NoId

LEMMA NextBarrier ==
  ASSUME ShortNames, IInv, BarrierInv, [Next]_vars
  PROVE  BarrierInv'
<1>1. ASSUME NEW r \in requests, ServeHandshake(r), UNCHANGED clientVars
      PROVE  BarrierInv'
  <2>1. r \in Requests /\ ReceivedId(r) = client_id(r.from)
    BY ReadyId DEF IInv, TypeOK, WireTypeOK, Tokens
  <2>2. ReceivedId(r) \in ClientNames /\ ReceivedId(r) \in Ids
    BY <2>1, ReceivedIdType DEF Requests, ClientNames
  <2>3. RegisteredIds' \subseteq ClientNames
    <3>1. CASE /\ Register(ReceivedId(r))
               /\ ReceivedId(r) # NoId
      BY <1>1, <2>2, <3>1, RegisterAddsName DEF ServeHandshake, IInv, BarrierInv
    <3>2. CASE UNCHANGED <<client_states, ready_clients>>
      BY <3>2 DEF RegisteredIds, BarrierInv
    <3> QED
      BY <1>1, <3>1, <3>2, HandshakeRegistration DEF IInv
  <2> QED
    BY <1>1, <2>3 DEF ServeHandshake, BarrierInv, clientVars
<1>2. ASSUME NEW r \in requests, ServeAck(r)
      PROVE  BarrierInv'
  BY <1>2, HandleAckSound, SameNames DEF ServeAck, BarrierInv, IInv
<1>3. CASE StartTicking
  BY <1>3, ResetSound, SameNames, ServerAssumption
     DEF StartTicking, BarrierInv, IInv, TypeOK, ServerTypeOK
<1>4. CASE AdvanceTime
  BY <1>4, ResetSound, SameNames DEF AdvanceTime, RegistrationSound, BarrierInv, IInv
<1>5. ASSUME ClientNext, UNCHANGED serverVars
      PROVE  BarrierInv'
  <2>1. phase = "handshake" => seen' = seen
    BY <1>5 DEF ClientNext, IInv, Tokens, Quiet, Connect, Subscribe, SendReady,
                EndHandshake, HandshakeTimeout, ReceiveTick, AckTick, ReceiveAck,
                Shutdown, Crash, Goto, clientVars
  <2> QED
    BY <1>5, <2>1 DEF BarrierInv, RegisteredIds, serverVars
<1>6. CASE UNCHANGED vars
  BY <1>6 DEF BarrierInv, RegisteredIds, vars, serverVars, clientVars
<1> QED
  BY <1>1, <1>2, <1>3, <1>4, <1>5, <1>6 DEF Next, ServerNext

\* Once ready_clients has reached expected_clients, so many names are registered.
LEMMA AllRegistered ==
  ASSUME TypeOK, RegistrationSound, ready_clients >= expected_clients
  PROVE  Cardinality(RegisteredIds) = expected_clients
<1> DEFINE n == expected_clients
           f == [i \in 1 .. n |-> client_states[i - 1].id]
<1>1. n \in Nat /\ ready_clients = n
  BY ServerAssumption DEF TypeOK, ServerTypeOK
<1>2. \A i \in 1 .. n : i - 1 \in Slots /\ client_states[i - 1].id # NoId
  BY <1>1, ServerAssumption DEF RegistrationSound, Slots
<1>3. f \in [1 .. n -> RegisteredIds]
  BY <1>2 DEF RegisteredIds
<1>4. \A i, j \in 1 .. n : f[i] = f[j] => i = j
  BY <1>1, <1>2 DEF RegistrationSound
<1>5. \A x \in RegisteredIds : \E i \in 1 .. n : f[i] = x
  <2> SUFFICES ASSUME NEW x \in RegisteredIds
               PROVE  \E i \in 1 .. n : f[i] = x
    OBVIOUS
  <2>1. PICK k \in Slots : client_states[k].id = x /\ x # NoId
    BY DEF RegisteredIds
  <2>2. k + 1 \in 1 .. n /\ (k + 1) - 1 = k
    BY <1>1, <2>1, ServerAssumption DEF RegistrationSound, Slots
  <2> QED
    BY <2>1, <2>2
<1> HIDE DEF f
<1>6. f \in Bijection(1 .. n, RegisteredIds)
  BY <1>3, <1>4, <1>5, Fun_IsBij
<1>7. ExistsBijection(1 .. n, RegisteredIds)
  BY <1>6, Fun_ExistsBij
<1> QED
  BY <1>1, <1>7, FS_CountingElements

\* A name is done when the client that bears it is.
LEMMA DoneNames ==
  ASSUME UniqueNames, NEW c \in Clients
  PROVE  client_id(c) \in doneClients
           <=> /\ phase = "ticking"
               /\ Registered(c)
               /\ seen[c] = current_time_ns
BY DEF doneClients, UniqueNames

\* A step that changes nothing the barrier is made of.
LEMMA Stutter ==
  ASSUME UNCHANGED <<phase, current_time_ns, seen>>, RegisteredIds' = RegisteredIds
  PROVE  UNCHANGED Barrier!vars
BY DEF Barrier!vars, doneClients, Registered

LEMMA NothingDone == phase = "handshake" => doneClients = {}
BY DEF doneClients

LEMMA InitRefines == Init => Barrier!Init
BY NothingDone DEF Init, ServerInit, Barrier!Init, RegisteredIds, NoId

LEMMA HandshakeRefines ==
  ASSUME ShortNames, IInv, BarrierInv, NEW r \in requests, ServeHandshake(r),
         UNCHANGED clientVars
  PROVE  Barrier!Next \/ UNCHANGED Barrier!vars
<1>1. phase = "handshake" /\ UNCHANGED <<phase, current_time_ns, seen>>
  BY DEF ServeHandshake, clientVars
<1>2. CASE UNCHANGED <<client_states, ready_clients>>
  BY <1>1, <1>2, Stutter DEF RegisteredIds
<1>3. CASE /\ Register(ReceivedId(r))
           /\ ReceivedId(r) # NoId
           /\ ~ is_client_id_taken(ReceivedId(r))
  <2> DEFINE n == ReceivedId(r)
  <2>1. r \in Requests /\ n = client_id(r.from)
    BY ReadyId DEF IInv, TypeOK, WireTypeOK, Tokens
  <2>2. n \in {client_id(c) : c \in Clients} /\ n \in Ids
    BY <2>1, ReceivedIdType DEF Requests
  <2>3. n \notin RegisteredIds
    BY <1>3 DEF is_client_id_taken, RegisteredIds
  <2>4. RegisteredIds' = RegisteredIds \cup {n}
    BY <1>3, <2>2, RegisterAddsName DEF ServeHandshake, IInv
  <2>5. doneClients' = doneClients
    BY <1>1, NothingDone DEF doneClients
  <2>6. Barrier!Enrol(n)
    BY <1>1, <2>3, <2>4, <2>5 DEF Barrier!Enrol
  <2> QED
    BY <2>2, <2>6 DEF Barrier!Next
<1> QED
  BY <1>2, <1>3, HandshakeRegistration DEF IInv

\* Nobody has finished the tick that the first broadcast begins.
LEMMA StartRefines ==
  ASSUME IInv, BarrierInv, StartTicking, UNCHANGED clientVars
  PROVE  Barrier!Start
<1>1. RegisteredIds' = RegisteredIds
  BY ResetSound, SameNames, ServerAssumption DEF StartTicking, IInv, TypeOK, ServerTypeOK
<1>2. Cardinality(RegisteredIds) = expected_clients
  BY AllRegistered DEF StartTicking, IInv
<1>3. current_time_ns' # NoTime /\ \A c \in Clients : seen'[c] = NoTime
  BY ServerAssumption
     DEF StartTicking, BarrierInv, clientVars, IInv, TypeOK, ServerTypeOK, Times, NoTime
<1>4. doneClients = {} /\ doneClients' = {}
  BY <1>3, NothingDone DEF StartTicking, doneClients
<1>5. Barrier!Cardinality(RegisteredIds) = Cardinality(RegisteredIds)
  BY DEF Cardinality, Barrier!Cardinality
<1> QED
  BY <1>1, <1>2, <1>4, <1>5 DEF StartTicking, Barrier!Start

\* The time has moved, and no on_tick has returned from the new one.
LEMMA AdvanceRefines ==
  ASSUME UniqueNames, IInv, BarrierInv, AdvanceTime, UNCHANGED clientVars
  PROVE  Barrier!Advance
<1>1. RegisteredIds' = RegisteredIds
  BY ResetSound, SameNames DEF AdvanceTime, RegistrationSound, IInv
<1>2. \A c \in Clients : Registered(c) => seen[c] = current_time_ns
  BY AllRespondedSettled DEF AdvanceTime, IInv, Settled
<1>3. doneClients = RegisteredIds
  BY <1>2 DEF AdvanceTime, doneClients, Registered, BarrierInv, ClientNames
<1>4. current_time_ns' = (current_time_ns + tick_interval_ns) % TimeMod
  BY DEF AdvanceTime
<1>5. current_time_ns' # current_time_ns
  <2>1. /\ current_time_ns \in 0 .. (TimeMod - 1)
        /\ tick_interval_ns \in 1 .. (TimeMod - 1)
        /\ TimeMod \in Nat
    BY ServerAssumption DEF IInv, TypeOK, ServerTypeOK, Times
  <2>2. CASE current_time_ns + tick_interval_ns < TimeMod
    BY <1>4, <2>1, <2>2
  <2>3. CASE ~ (current_time_ns + tick_interval_ns < TimeMod)
    <3>1. (current_time_ns + tick_interval_ns) % TimeMod
            = current_time_ns + tick_interval_ns - TimeMod
      BY <2>1, <2>3
    <3> QED
      BY <1>4, <2>1, <3>1
  <2> QED
    BY <2>2, <2>3
<1>6. doneClients' = {}
  BY <1>1, <1>2, <1>5 DEF doneClients, Registered, clientVars
<1> QED
  BY <1>1, <1>3, <1>4, <1>6 DEF AdvanceTime, Barrier!Advance

\* A return from on_tick finishes the client's step; one of a client that is not
\* registered, or the second from one time, is none of the barrier's business.
LEMMA AckTickRefines ==
  ASSUME UniqueNames, IInv, BarrierInv, UNCHANGED serverVars,
         NEW c \in Clients, AckTick(c)
  PROVE  Barrier!Next \/ UNCHANGED Barrier!vars
<1> DEFINE n == client_id(c)
<1>1. pc[c] = "ticking" /\ seen' = [seen EXCEPT ![c] = time_ns[c]]
  BY DEF AckTick, Goto
<1>2. /\ UNCHANGED <<phase, current_time_ns>> /\ RegisteredIds' = RegisteredIds
      /\ \A d \in Clients : Registered(d)' <=> Registered(d)
  BY DEF serverVars, RegisteredIds, Registered
<1>3. \A d \in Clients \ {c} : seen'[d] = seen[d] /\ client_id(d) # n
  BY <1>1 DEF IInv, TypeOK, ClientTypeOK, UniqueNames
<1>4. phase = "ticking"
  BY <1>1 DEF IInv, Tokens, Quiet, TypeOK, ServerTypeOK
<1>5. CASE ~ Registered(c)
  <2>1. doneClients' = doneClients
    BY <1>2, <1>3, <1>5 DEF doneClients
  <2> QED
    BY <1>2, <2>1 DEF Barrier!vars
<1>6. CASE Registered(c)
  <2>1. seen'[c] = current_time_ns
    BY <1>1, <1>6 DEF IInv, Tokens, TokenAt, TypeOK, ClientTypeOK
  <2>2. doneClients' = doneClients \cup {n}
    BY <1>2, <1>3, <1>4, <1>6, <2>1 DEF doneClients
  <2>3. CASE n \in doneClients
    BY <1>2, <2>2, <2>3 DEF Barrier!vars
  <2>4. CASE n \notin doneClients
    <3>1. Barrier!Finish(n)
      BY <1>2, <1>4, <1>6, <2>2, <2>4 DEF Barrier!Finish, Registered
    <3> QED
      BY <3>1 DEF Barrier!Next
  <2> QED
    BY <2>3, <2>4
<1> QED
  BY <1>5, <1>6

LEMMA NextRefines ==
  ASSUME UniqueNames, ShortNames, IInv, BarrierInv, [Next]_vars
  PROVE  [Barrier!Next]_(Barrier!vars)
<1>1. ASSUME NEW r \in requests, ServeHandshake(r), UNCHANGED clientVars
      PROVE  Barrier!Next \/ UNCHANGED Barrier!vars
  BY <1>1, HandshakeRefines
<1>2. ASSUME NEW r \in requests, ServeAck(r), UNCHANGED clientVars
      PROVE  UNCHANGED Barrier!vars
  BY <1>2, HandleAckSound, SameNames, Stutter DEF ServeAck, IInv, clientVars
<1>3. CASE StartTicking /\ UNCHANGED clientVars
  BY <1>3, StartRefines DEF Barrier!Next
<1>4. CASE AdvanceTime /\ UNCHANGED clientVars
  BY <1>4, AdvanceRefines DEF Barrier!Next
<1>5. ASSUME ClientNext, UNCHANGED serverVars
      PROVE  Barrier!Next \/ UNCHANGED Barrier!vars
  <2>1. CASE seen' = seen
    BY <1>5, <2>1, Stutter DEF serverVars, RegisteredIds
  <2>2. CASE \E c \in Clients : AckTick(c)
    BY <1>5, <2>2, AckTickRefines
  <2>3. seen' = seen \/ \E c \in Clients : AckTick(c)
    BY <1>5 DEF ClientNext, Connect, Subscribe, SendReady, EndHandshake,
                HandshakeTimeout, ReceiveTick, ReceiveAck, Shutdown, Crash, clientVars
  <2> QED
    BY <2>1, <2>2, <2>3
<1>6. CASE UNCHANGED vars
  BY <1>6, Stutter DEF vars, serverVars, clientVars, RegisteredIds
<1> QED
  BY <1>1, <1>2, <1>3, <1>4, <1>5, <1>6 DEF Next, ServerNext

\* Server and clients, crashes, restarts and timeouts included, are a barrier:
\* as many clients enrol as simulith_server_run expects, each finishes a step at
\* most once, and the time takes its next step when all of them have.
THEOREM RefinesBarrier ==
  ASSUME UniqueNames, ShortNames
  PROVE  Spec => ImplementsBarrier
<1>1. Init => BarrierInv /\ Barrier!Init
  BY InitBarrier, InitRefines
<1>2. IInv /\ BarrierInv /\ [Next]_vars => BarrierInv'
  BY NextBarrier
<1>3. IInv /\ BarrierInv /\ [Next]_vars => [Barrier!Next]_(Barrier!vars)
  BY NextRefines
<1> QED
  BY <1>1, <1>2, <1>3, IInvHolds, PTL DEF Spec, ImplementsBarrier, Barrier!Spec

-----------------------------------------------------------------------------
(* A server that dies and is started again. *)

\* A new server process starts with an empty table; of what is on the wire
\* nothing is new.
LEMMA RestartSound ==
  ASSUME TypeOK, ServerRestart
  PROVE  TypeOK' /\ RegistrationSound'
<1>1. /\ phase' = "handshake" /\ ready_clients' = 0 /\ current_time_ns' = 0
      /\ client_states' = [i \in Slots |-> [id |-> NoId, responded |-> FALSE]]
  BY DEF ServerRestart, ServerStarts
<1>2. WireTypeOK'
  <2>1. /\ requests' \subseteq requests /\ subscribed' = {} /\ sock' = sock
    BY DEF ServerRestart, ServerConnectionsLost
  <2>2. /\ reply' \in [Clients -> Replies \cup {NoReply}]
        /\ ticks' \in [Clients -> Seq(Nat)]
    BY EmptySeq DEF ServerRestart, ServerConnectionsLost, TypeOK, WireTypeOK
  <2> QED
    BY <2>1, <2>2 DEF TypeOK, WireTypeOK
<1>3. ServerTypeOK'
  BY <1>1, EmptySeq, ServerAssumption DEF ServerTypeOK, NoId, Ids, Times
<1>4. ClientTypeOK'
  BY DEF ServerRestart, clientVars, TypeOK, ClientTypeOK
<1>5. RegistrationSound'
  BY <1>1, ServerAssumption DEF RegistrationSound, Slots
<1> QED
  BY <1>2, <1>3, <1>4, <1>5 DEF TypeOK

\* The supervisor's choices are steps that the protocol may take anyway.
LEMMA FaultsStep == FaultsNext => ServerRestart \/ [Next]_vars
<1> SUFFICES ASSUME FaultsNext PROVE ServerRestart \/ [Next]_vars
  OBVIOUS
<1>1. ASSUME NEW r \in requests, ServeRequest(r)
      PROVE  Next
  BY <1>1 DEF ServeRequest, Next, ServerNext
<1>2. CASE StartAll \/ Advance
  BY <1>2 DEF StartAll, Advance, Next, ServerNext
<1>3. ASSUME NEW c \in Clients, ClientStep(c) \/ FinishTick(c) \/ GiveUp(c)
      PROVE  Next
  BY <1>3 DEF ClientStep, RestartOrphan, FinishTick, GiveUp, Next, ClientNext
<1> QED
  BY <1>1, <1>2, <1>3 DEF FaultsNext

\* The table stays dense and its names distinct, and every variable keeps its
\* type, however often the server process dies and is started again.
THEOREM SoundAfterRestarts == FaultsSpec => [](TypeOK /\ RegistrationSound)
<1>1. FaultsInit => TypeOK /\ RegistrationSound
  BY InitType, InitSound DEF FaultsInit
<1>2. TypeOK /\ RegistrationSound /\ [FaultsNext]_allVars => (TypeOK /\ RegistrationSound)'
  <2> SUFFICES ASSUME TypeOK, RegistrationSound, [FaultsNext]_allVars
               PROVE  TypeOK' /\ RegistrationSound'
    OBVIOUS
  <2>1. ServerRestart \/ [Next]_vars
    BY FaultsStep DEF allVars
  <2> QED
    BY <2>1, RestartSound, NextType, NextSound
<1> QED
  BY <1>1, <1>2, PTL DEF FaultsSpec
=============================================================================
