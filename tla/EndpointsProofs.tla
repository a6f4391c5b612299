-------------------------- MODULE EndpointsProofs ---------------------------
(***************************************************************************)
(* Theorems about Endpoints, for any addresses, any limits of ZeroMQ, and  *)
(* any order of inits that succeed or fail, handshakes and shutdowns.      *)
(***************************************************************************)
EXTENDS Endpoints, WellFoundedInduction, TLAPS

ContextType == [id : 1 .. MaxContexts, side : Sides]
SocketType  == [id : 1 .. MaxSockets, context : 1 .. MaxContexts,
                kind : Kinds, address : Addresses \cup {BadAddress}]
HeldType    == [context : 0 .. MaxContexts, first : 0 .. MaxSockets, second : 0 .. MaxSockets]

Ids(S) == {x.id : x \in S}

FirstKind(side)  == IF side = "server" THEN "PUB" ELSE "SUB"
SecondKind(side) == IF side = "server" THEN "REP" ELSE "REQ"

-----------------------------------------------------------------------------
(* The inductive invariant.                                                *)

\* No two objects that exist have one id.
UniqueIds ==
  /\ \A c, d \in contexts : c.id = d.id => c = d
  /\ \A s, t \in sockets : s.id = t.id => s = t

\* A context outlives its sockets.
InContexts == \A s \in sockets : s.context \in Ids(contexts)

\* A side holds a context of its own, while it waits for it to go too.
HoldsOwn ==
  \A side \in Sides :
    held[side].context # Null => [id |-> held[side].context, side |-> side] \in contexts

\* p is NULL, or points to an open socket of this kind.
Points(p, kind) ==
  p # Null => \E s \in sockets : s.id = p /\ s.kind = kind /\ s.id \notin lingering

\* A side that is not shutting down points to sockets of its own two kinds, so
\* the two sides never close each other's.
PointsToOwn ==
  \A side \in Sides \ terminating :
    Points(held[side].first, FirstKind(side)) /\ Points(held[side].second, SecondKind(side))

\* The context that is held has no other sockets than those that are.
AllHeld ==
  \A side \in Sides, s \in sockets :
    s.context = held[side].context =>
      /\ s.id \in {held[side].first, held[side].second}
      /\ side \in terminating => s.id \in lingering

ReadyHolds == \A side \in ready : held[side].first # Null /\ held[side].second # Null

\* Who always shuts down has lost no context.
NoneLost == \A side \in Sides \ careless : Contexts(side) \subseteq {held[side].context}

IInv ==
  /\ TypeOK /\ UniqueIds /\ InContexts /\ HoldsOwn /\ PointsToOwn /\ AllHeld
  /\ ReadyHolds /\ NoneLost

-----------------------------------------------------------------------------
\* NewId returns NULL or an id that is not used.
LEMMA NewIdFresh ==
  ASSUME NEW limit \in Nat, NEW used, Null \notin used
  PROVE  NewId(limit, used) \in 0 .. limit /\ NewId(limit, used) \notin used
<1> DEFINE Free == (1 .. limit) \ used
<1>1. CASE 1 .. limit \subseteq used
  BY <1>1 DEF NewId, Null
<1>2. CASE ~ (1 .. limit \subseteq used)
  <2>1. Free # {} /\ Free \subseteq Nat
    BY <1>2
  <2> HIDE DEF Free
  <2>2. \E x \in Free : \A y \in Free : ~ (<<y, x>> \in OpToRel(<, Nat))
    BY <2>1, NatLessThanWellFounded, WFMin
  <2>3. \E x \in Free : \A y \in Free : x <= y
    <3>1. PICK x \in Free : \A y \in Free : ~ (<<y, x>> \in OpToRel(<, Nat))
      BY <2>2
    <3>2. ASSUME NEW y \in Free PROVE x <= y
      <4>1. x \in Nat /\ y \in Nat
        BY <2>1
      <4>2. ~ (<<y, x>> \in OpToRel(<, Nat))
        BY <3>1
      <4>3. <<y, x>> \in Nat \X Nat
        BY <4>1
      <4>4. ~ (y < x)
        BY <4>2, <4>3 DEF OpToRel
      <4> QED
        BY <4>1, <4>4
    <3> QED
      BY <3>2
  <2>4. Min(Free) \in Free
    BY <2>3 DEF Min
  <2>5. NewId(limit, used) = Min(Free)
    BY <1>2 DEF NewId, Free
  <2>6. Free \subseteq 0 .. limit /\ \A x \in Free : x \notin used
    BY DEF Free
  <2> QED
    BY <2>4, <2>5, <2>6
<1> QED
  BY <1>1, <1>2

\* What an init does, whichever of its calls fails: a pointer it sets is NULL,
\* points to what it has just created, or is what it was.
Creates(side, context, first, second, new) ==
  /\ held' = [held EXCEPT ![side] = [context |-> context, first |-> first, second |-> second]]
  /\ contexts' = contexts \cup {c \in {[id |-> context, side |-> side]} : c.id # Null}
  /\ sockets' = sockets \cup new
  /\ context \in 0 .. MaxContexts /\ context \notin Ids(contexts)
  /\ first \in 0 .. MaxSockets /\ second \in 0 .. MaxSockets
  /\ new \subseteq SocketType
  /\ \A n \in new : n.id \notin Ids(sockets) /\ n.context = context /\ context # Null
                    /\ n.id \in {first, second}
  /\ \A n, m \in new : n.id = m.id => n = m
  /\ \/ first \in {Null, held[side].first}
     \/ \E n \in new : n.id = first /\ n.kind = FirstKind(side)
  /\ \/ second \in {Null, held[side].second}
     \/ \E n \in new : n.id = second /\ n.kind = SecondKind(side)
  /\ ready' \subseteq ready \cup {side} /\ ready \subseteq ready' \cup {side}
  /\ side \in ready' => first # Null /\ second # Null

LEMMA OpenCreates ==
  ASSUME EndpointsAssumption, TypeOK, NEW side \in Sides, NEW kinds,
         kinds = <<FirstKind(side), SecondKind(side)>>,
         NEW a1 \in Addresses \cup {BadAddress}, NEW a2 \in Addresses \cup {BadAddress},
         Open(side, kinds, a1, a2)
  PROVE  \E context, first, second, new : Creates(side, context, first, second, new)
<1> DEFINE old     == held[side]
           context == NewId(MaxContexts, {c.id : c \in contexts})
           used    == {s.id : s \in sockets}
           id1     == NewId(MaxSockets, used)
           id2     == NewId(MaxSockets, used \cup {id1})
           Socket(id, kind, address) ==
             [id |-> id, context |-> context, kind |-> kind, address |-> address]
<1>1. context \in 0 .. MaxContexts /\ context \notin Ids(contexts)
  <2>1. Null \notin {c.id : c \in contexts} /\ MaxContexts \in Nat
    BY DEF TypeOK, Null, EndpointsAssumption
  <2> QED
    BY <2>1, NewIdFresh DEF Ids
<1>2. id1 \in 0 .. MaxSockets /\ id1 \notin used /\ Null \notin used
  <2>1. Null \notin used /\ MaxSockets \in Nat
    BY DEF TypeOK, Null, EndpointsAssumption
  <2> HIDE DEF used
  <2> QED
    BY <2>1, NewIdFresh
<1>3. id1 # Null => id2 \in 0 .. MaxSockets /\ id2 \notin used /\ id2 # id1
  <2>1. MaxSockets \in Nat
    BY DEF EndpointsAssumption
  <2>2. ASSUME id1 # Null PROVE Null \notin used \cup {id1}
    BY <1>2, <2>2
  <2> HIDE DEF used, id1
  <2> QED
    BY <2>1, <2>2, NewIdFresh
<1>4. old.first \in 0 .. MaxSockets /\ old.second \in 0 .. MaxSockets
  BY DEF TypeOK
<1>5. kinds[1] = FirstKind(side) /\ kinds[2] = SecondKind(side)
      /\ FirstKind(side) \in Kinds /\ SecondKind(side) \in Kinds
  BY DEF FirstKind, SecondKind, Kinds
<1>6. used = Ids(sockets)
  BY DEF Ids
<1>7. \/ /\ context = Null
         /\ Holds(side, Null, old.first, old.second, {})
         /\ ready' = ready \ {side}
      \/ /\ context # Null
         /\ \E b1 \in Addresses \cup {BadAddress} :
              Holds(side, context, id1, old.second, {Socket(id1, kinds[1], b1)})
         /\ ready' = ready \ {side}
      \/ /\ context # Null /\ id1 # Null
         /\ \E b1, b2 \in Addresses \cup {BadAddress} :
              Holds(side, context, id1, id2,
                    {Socket(id1, kinds[1], b1), Socket(id2, kinds[2], b2)})
         /\ ready' = ready \ {side} \/ (id2 # Null /\ ready' = ready \cup {side})
  BY Zenon DEF Open
<1> HIDE DEF context, used, id1, id2
<1>8. CASE context = Null /\ Holds(side, Null, old.first, old.second, {})
           /\ ready' = ready \ {side}
  <2>1. Creates(side, Null, old.first, old.second, {})
    BY <1>1, <1>4, <1>8 DEF Creates, Holds
  <2> QED
    BY <2>1
<1>9. ASSUME context # Null, NEW b1 \in Addresses \cup {BadAddress},
             Holds(side, context, id1, old.second, {Socket(id1, kinds[1], b1)}),
             ready' = ready \ {side}
      PROVE  \E c, first, second, new : Creates(side, c, first, second, new)
  <2> DEFINE new == {s \in {Socket(id1, kinds[1], b1)} : s.id # Null}
  <2>1. new \subseteq SocketType
    BY <1>1, <1>2, <1>5, <1>9 DEF SocketType, Null
  <2>2. \A n \in new : n.id = id1 /\ n.context = context /\ n.kind = kinds[1]
    OBVIOUS
  <2>3. id1 = Null \/ \E n \in new : n.id = id1 /\ n.kind = kinds[1]
    <3> DEFINE n == Socket(id1, kinds[1], b1)
    <3>1. n.id = id1 /\ n.kind = kinds[1]
      OBVIOUS
    <3>2. id1 = Null \/ n \in new
      OBVIOUS
    <3> QED
      BY <3>1, <3>2
  <2>4. \A n, m \in new : n.id = m.id => n = m
    OBVIOUS
  <2>5. sockets' = sockets \cup new
    BY <1>9 DEF Holds
  <2> HIDE DEF new, Socket
  <2>6. Creates(side, context, id1, old.second, new)
    BY <1>1, <1>2, <1>4, <1>5, <1>6, <1>9, <2>1, <2>2, <2>3, <2>4, <2>5 DEF Creates, Holds
  <2> QED
    BY <2>6
<1>10. ASSUME context # Null, id1 # Null,
              NEW b1 \in Addresses \cup {BadAddress}, NEW b2 \in Addresses \cup {BadAddress},
              Holds(side, context, id1, id2,
                    {Socket(id1, kinds[1], b1), Socket(id2, kinds[2], b2)}),
              ready' = ready \ {side} \/ (id2 # Null /\ ready' = ready \cup {side})
       PROVE  \E c, first, second, new : Creates(side, c, first, second, new)
  <2> DEFINE new == {s \in {Socket(id1, kinds[1], b1), Socket(id2, kinds[2], b2)} : s.id # Null}
  <2>1. new \subseteq SocketType
    BY <1>1, <1>2, <1>3, <1>5, <1>10 DEF SocketType, Null
  <2>2. \A n \in new : n.id \in {id1, id2} /\ n.context = context
    OBVIOUS
  <2> DEFINE n1 == Socket(id1, kinds[1], b1)
             n2 == Socket(id2, kinds[2], b2)
  <2>3. n1.id = id1 /\ n1.kind = kinds[1] /\ n2.id = id2 /\ n2.kind = kinds[2]
    OBVIOUS
  <2>4. n1 \in new /\ (id2 = Null \/ n2 \in new)
    BY <1>10
  <2>5. \E n \in new : n.id = id1 /\ n.kind = kinds[1]
    BY <2>3, <2>4
  <2>6. id2 = Null \/ \E n \in new : n.id = id2 /\ n.kind = kinds[2]
    BY <2>3, <2>4
  <2>7. \A n, m \in new : n.id = m.id => n = m
    BY <1>3, <1>10
  <2>8. sockets' = sockets \cup new
    BY <1>10 DEF Holds
  <2> HIDE DEF new, Socket
  <2>9. Creates(side, context, id1, id2, new)
    BY <1>1, <1>2, <1>3, <1>5, <1>6, <1>10, <2>1, <2>2, <2>5, <2>6, <2>7, <2>8
    DEF Creates, Holds
  <2> QED
    BY <2>9
<1> QED
  BY <1>7, <1>8, <1>9, <1>10

-----------------------------------------------------------------------------
(* Each action keeps the invariant.                                        *)

LEMMA InitIInv ==
  ASSUME EndpointsAssumption
  PROVE  Init => IInv
<1> SUFFICES ASSUME Init PROVE IInv
  OBVIOUS
<1>1. \A side \in Sides : held[side] = AllNull
  BY DEF Init
<1>2. AllNull \in HeldType /\ AllNull.context = Null /\ AllNull.first = Null
      /\ AllNull.second = Null
  BY DEF AllNull, HeldType, Null, EndpointsAssumption
<1>3. TypeOK
  BY <1>2 DEF Init, TypeOK, HeldType
<1>4. PointsToOwn /\ HoldsOwn
  BY <1>1, <1>2 DEF PointsToOwn, HoldsOwn, Points
<1>5. UniqueIds /\ InContexts /\ AllHeld /\ ReadyHolds
  BY DEF Init, UniqueIds, InContexts, AllHeld, ReadyHolds
<1>6. NoneLost
  BY DEF Init, NoneLost, Contexts
<1> QED
  BY <1>3, <1>4, <1>5, <1>6 DEF IInv

LEMMA TypeOKFolded ==
  TypeOK <=>
    /\ held \in [Sides -> HeldType] /\ contexts \subseteq ContextType
    /\ sockets \subseteq SocketType
    /\ lingering \subseteq unsent /\ unsent \subseteq Ids(sockets)
    /\ ready \subseteq Sides /\ terminating \subseteq Sides /\ careless \subseteq Sides
  BY DEF TypeOK, HeldType, ContextType, SocketType, Ids

LEMMA TypeOKFoldedNext ==
  TypeOK' <=>
    /\ held' \in [Sides -> HeldType] /\ contexts' \subseteq ContextType
    /\ sockets' \subseteq SocketType
    /\ lingering' \subseteq unsent' /\ unsent' \subseteq Ids(sockets')
    /\ ready' \subseteq Sides /\ terminating' \subseteq Sides /\ careless' \subseteq Sides
  BY DEF TypeOK, HeldType, ContextType, SocketType, Ids

\* An init, however far it gets.
LEMMA CreatesKeeps ==
  ASSUME EndpointsAssumption, IInv, NEW side \in Sides, InitCalled(side),
         NEW context, NEW first, NEW second, NEW new,
         Creates(side, context, first, second, new)
  PROVE  IInv'
<1> DEFINE p == [context |-> context, first |-> first, second |-> second]
           created == {c \in {[id |-> context, side |-> side]} : c.id # Null}
<1>1. /\ held \in [Sides -> HeldType] /\ contexts \subseteq ContextType
      /\ sockets \subseteq SocketType
      /\ lingering \subseteq unsent /\ unsent \subseteq Ids(sockets)
      /\ ready \subseteq Sides /\ terminating \subseteq Sides /\ careless \subseteq Sides
  BY TypeOKFolded DEF IInv
<1>2. /\ side \notin terminating /\ unsent' = unsent /\ lingering' = lingering
      /\ terminating' = terminating
      /\ careless' = IF held[side] = AllNull THEN careless ELSE careless \cup {side}
  BY DEF InitCalled
<1>3. /\ held' = [held EXCEPT ![side] = p]
      /\ contexts' = contexts \cup created /\ sockets' = sockets \cup new
      /\ context \in 0 .. MaxContexts /\ context \notin Ids(contexts)
      /\ first \in 0 .. MaxSockets /\ second \in 0 .. MaxSockets
      /\ new \subseteq SocketType
  BY DEF Creates
<1>4. /\ \A n \in new : /\ n.id \notin Ids(sockets) /\ n.context = context /\ context # Null
                        /\ n.id \in {first, second}
      /\ \A n, m \in new : n.id = m.id => n = m
  BY DEF Creates
<1>5. p \in HeldType /\ p.context = context /\ p.first = first /\ p.second = second
  BY <1>3 DEF HeldType
<1>6. created \subseteq ContextType /\ \A c \in created : c.id = context /\ c.side = side
  <2>1. context # Null => context \in 1 .. MaxContexts
    BY <1>3 DEF Null, EndpointsAssumption
  <2> QED
    BY <2>1 DEF ContextType
<1>7. context # Null => [id |-> context, side |-> side] \in created
  OBVIOUS
<1> HIDE DEF p, created
<1>8. held'[side] = p /\ \A t \in Sides \ {side} : held'[t] = held[t]
  BY <1>1, <1>3
<1>9. Ids(sockets) \subseteq Ids(sockets') /\ Ids(contexts) \subseteq Ids(contexts')
  BY <1>3 DEF Ids
<1>10. TypeOK'
  <2>1. held' \in [Sides -> HeldType]
    BY <1>1, <1>3, <1>5
  <2>2. ready' \subseteq Sides
    BY <1>1 DEF Creates
  <2> QED
    BY <1>1, <1>2, <1>3, <1>6, <1>9, <2>1, <2>2, TypeOKFoldedNext
<1>11. UniqueIds'
  <2>1. ASSUME NEW c \in contexts', NEW d \in contexts', c.id = d.id PROVE c = d
    <3>1. \A x \in contexts : x.id # context
      BY <1>3 DEF Ids
    <3>2. \A x, y \in created : x = y
      BY DEF created
    <3> QED
      BY <1>3, <1>6, <2>1, <3>1, <3>2 DEF IInv, UniqueIds
  <2>2. ASSUME NEW s \in sockets', NEW t \in sockets', s.id = t.id PROVE s = t
    BY <1>3, <1>4, <2>2 DEF IInv, UniqueIds, Ids
  <2> QED
    BY <2>1, <2>2 DEF UniqueIds
<1>12. InContexts'
  <2>1. ASSUME NEW s \in new PROVE s.context \in Ids(contexts')
    <3>1. [id |-> context, side |-> side] \in contexts'
      BY <1>3, <1>4, <1>7
    <3> QED
      BY <1>4, <3>1 DEF Ids
  <2> QED
    BY <1>3, <1>9, <2>1 DEF IInv, InContexts
<1>13. HoldsOwn'
  BY <1>3, <1>5, <1>7, <1>8 DEF IInv, HoldsOwn
<1>14. PointsToOwn'
  <2> DEFINE PointsNext(q, kind) ==
               q # Null => \E s \in sockets' : s.id = q /\ s.kind = kind /\ s.id \notin lingering'
  <2>1. ASSUME NEW q, NEW kind, Points(q, kind) PROVE PointsNext(q, kind)
    BY <1>2, <1>3, <2>1 DEF Points
  <2>2. ASSUME NEW q, NEW kind, \E n \in new : n.id = q /\ n.kind = kind
        PROVE  PointsNext(q, kind)
    BY <1>1, <1>2, <1>3, <1>4, <2>2
  <2>3. Points(held[side].first, FirstKind(side)) /\ Points(held[side].second, SecondKind(side))
    BY <1>2 DEF IInv, PointsToOwn
  <2>4. \A kind : PointsNext(Null, kind)
    OBVIOUS
  <2> HIDE DEF PointsNext
  <2>5. PointsNext(first, FirstKind(side))
    BY <2>1, <2>2, <2>3, <2>4 DEF Creates
  <2>6. PointsNext(second, SecondKind(side))
    BY <2>1, <2>2, <2>3, <2>4 DEF Creates
  <2>7. ASSUME NEW t \in Sides \ terminating
        PROVE  PointsNext(held'[t].first, FirstKind(t)) /\ PointsNext(held'[t].second, SecondKind(t))
    <3>1. CASE t = side
      BY <1>5, <1>8, <2>5, <2>6, <3>1
    <3>2. CASE t # side
      BY <1>8, <2>1, <3>2 DEF IInv, PointsToOwn
    <3> QED
      BY <3>1, <3>2
  <2> QED
    BY <1>2, <2>7 DEF PointsToOwn, Points, PointsNext
<1>15. AllHeld'
  <2>1. ASSUME NEW t \in Sides, NEW s \in sockets', s.context = held'[t].context
        PROVE  /\ s.id \in {held'[t].first, held'[t].second}
               /\ t \in terminating => s.id \in lingering
    <3>1. CASE s \in new /\ t = side
      BY <1>2, <1>4, <1>5, <1>8, <3>1
    <3>2. CASE s \in new /\ t # side
      <4>1. held[t].context = context /\ context # Null
        BY <1>4, <1>8, <2>1, <3>2
      <4>2. [id |-> context, side |-> t] \in contexts
        BY <4>1 DEF IInv, HoldsOwn
      <4> QED
        BY <1>3, <4>2 DEF Ids
    <3>3. CASE s \in sockets /\ t = side
      BY <1>3, <1>5, <1>8, <2>1, <3>3 DEF IInv, InContexts
    <3>4. CASE s \in sockets /\ t # side
      BY <1>8, <2>1, <3>4 DEF IInv, AllHeld
    <3> QED
      BY <1>3, <3>1, <3>2, <3>3, <3>4
  <2> QED
    BY <1>2, <2>1 DEF AllHeld
<1>16. ReadyHolds'
  BY <1>1, <1>5, <1>8 DEF Creates, IInv, ReadyHolds
<1>17. NoneLost'
  <2>1. ASSUME NEW t \in Sides \ careless', NEW c \in contexts', c.side = t
        PROVE  c.id = held'[t].context
    <3>1. t \notin careless /\ (t = side => held[side].context = Null)
      BY <1>2, <2>1 DEF AllNull
    <3>2. c \in contexts => c.id = held[t].context
      BY <2>1, <3>1 DEF IInv, NoneLost, Contexts
    <3>3. c \in contexts => c.id # Null
      BY <1>1 DEF ContextType, Null
    <3>4. c \in created => t = side /\ c.id = context
      BY <1>6, <2>1
    <3> QED
      BY <1>3, <1>5, <1>8, <2>1, <3>1, <3>2, <3>3, <3>4
  <2> QED
    BY <2>1 DEF NoneLost, Contexts
<1> QED
  BY <1>10, <1>11, <1>12, <1>13, <1>14, <1>15, <1>16, <1>17 DEF IInv

\* A READY that is queued.
LEMMA HandshakeKeeps ==
  ASSUME IInv, simulith_client_handshake
  PROVE  IInv'
<1>1. UNCHANGED <<held, contexts, sockets, lingering, ready, terminating, careless>>
      /\ unsent' = unsent \cup {held["client"].second} /\ "client" \in ready \ terminating
  BY DEF simulith_client_handshake
<1>2. held["client"].second \in Ids(sockets)
  BY <1>1 DEF IInv, ReadyHolds, PointsToOwn, Points, Ids, Sides
<1>3. TypeOK'
  BY <1>1, <1>2, TypeOKFolded, TypeOKFoldedNext DEF IInv
<1>4. (UniqueIds /\ InContexts /\ HoldsOwn /\ PointsToOwn /\ AllHeld /\ ReadyHolds)'
  BY <1>1 DEF IInv, UniqueIds, InContexts, HoldsOwn, PointsToOwn, Points, AllHeld, ReadyHolds
<1>5. NoneLost'
  BY <1>1 DEF IInv, NoneLost, Contexts
<1> QED
  BY <1>3, <1>4, <1>5 DEF IInv

\* A message leaves, and the socket it was waiting in with it, if that is closed.
LEMMA DeliverKeeps ==
  ASSUME IInv, NEW s \in sockets, Deliver(s)
  PROVE  IInv'
<1>1. /\ UNCHANGED <<held, contexts, ready, terminating, careless>>
      /\ unsent' = unsent \ {s.id} /\ lingering' = lingering \ {s.id}
      /\ sockets' = IF s.id \in lingering THEN sockets \ {s} ELSE sockets
  BY DEF Deliver
<1>2. sockets' \subseteq sockets /\ \A t \in sockets : t.id # s.id => t \in sockets'
  BY <1>1
<1>3. TypeOK'
  <2>1. \A i \in unsent : i # s.id => i \in Ids(sockets')
    BY <1>2, TypeOKFolded DEF IInv, Ids
  <2> QED
    BY <1>1, <1>2, <2>1, TypeOKFolded, TypeOKFoldedNext DEF IInv
<1>4. (UniqueIds /\ InContexts /\ HoldsOwn /\ ReadyHolds)'
  BY <1>1, <1>2 DEF IInv, UniqueIds, InContexts, HoldsOwn, ReadyHolds
<1>5. PointsToOwn'
  BY <1>1, <1>2 DEF IInv, PointsToOwn, Points
<1>6. AllHeld'
  BY <1>1, <1>2 DEF IInv, AllHeld, UniqueIds
<1>7. NoneLost'
  BY <1>1 DEF IInv, NoneLost, Contexts
<1> QED
  BY <1>3, <1>4, <1>5, <1>6, <1>7 DEF IInv

\* The sockets of a side are closed; those of the other side stay as they are.
LEMMA ShutdownKeeps ==
  ASSUME IInv, NEW side \in Sides, Shutdown(side)
  PROVE  IInv'
<1> DEFINE closed == {held[side].first, held[side].second} \ {Null}
<1>1. /\ side \notin terminating /\ UNCHANGED <<held, contexts, unsent, ready, careless>>
      /\ lingering' = lingering \cup (closed \cap unsent)
      /\ sockets' = {s \in sockets : s.id \notin closed \/ s.id \in unsent}
      /\ terminating' = terminating \cup {side}
  BY DEF Shutdown
<1>2. sockets' \subseteq sockets
  BY <1>1
<1>3. TypeOK'
  <2>1. unsent \subseteq Ids(sockets')
    BY <1>1, TypeOKFolded DEF IInv, Ids
  <2> QED
    BY <1>1, <1>2, <2>1, TypeOKFolded, TypeOKFoldedNext DEF IInv
<1>4. (UniqueIds /\ InContexts /\ HoldsOwn /\ ReadyHolds)'
  BY <1>1, <1>2 DEF IInv, UniqueIds, InContexts, HoldsOwn, ReadyHolds
<1>5. ASSUME NEW s \in sockets, s.id \in closed
      PROVE  s.kind \in {FirstKind(side), SecondKind(side)}
  BY <1>1, <1>5 DEF IInv, PointsToOwn, Points, UniqueIds
<1>6. PointsToOwn'
  <2>1. ASSUME NEW t \in Sides, t # side
        PROVE  {FirstKind(side), SecondKind(side)} \cap {FirstKind(t), SecondKind(t)} = {}
    BY <2>1 DEF Sides, FirstKind, SecondKind
  <2> HIDE DEF closed
  <2>2. ASSUME NEW t \in Sides \ terminating', NEW q, NEW kind \in {FirstKind(t), SecondKind(t)},
               q # Null, \E s \in sockets : s.id = q /\ s.kind = kind /\ s.id \notin lingering
        PROVE  \E s \in sockets' : s.id = q /\ s.kind = kind /\ s.id \notin lingering'
    <3>1. PICK s \in sockets : s.id = q /\ s.kind = kind /\ s.id \notin lingering
      BY <2>2
    <3>2. t \in Sides /\ t # side
      BY <1>1
    <3>3. s.id \notin closed
      BY <1>5, <2>1, <3>1, <3>2
    <3> QED
      BY <1>1, <3>1, <3>3
  <2>3. ASSUME NEW t \in Sides \ terminating', NEW q, NEW kind \in {FirstKind(t), SecondKind(t)},
               Points(q, kind)
        PROVE  q # Null => \E s \in sockets' : s.id = q /\ s.kind = kind /\ s.id \notin lingering'
    BY <2>2, <2>3 DEF Points
  <2>4. \A t \in Sides \ terminating' :
          Points(held[t].first, FirstKind(t)) /\ Points(held[t].second, SecondKind(t))
    BY <1>1 DEF IInv, PointsToOwn
  <2>5. \A t \in Sides \ terminating' :
          /\ held'[t].first # Null => \E s \in sockets' :
               s.id = held'[t].first /\ s.kind = FirstKind(t) /\ s.id \notin lingering'
          /\ held'[t].second # Null => \E s \in sockets' :
               s.id = held'[t].second /\ s.kind = SecondKind(t) /\ s.id \notin lingering'
    BY <1>1, <2>3, <2>4
  <2> QED
    BY <2>5 DEF PointsToOwn, Points
<1>7. AllHeld'
  <2>1. ASSUME NEW s \in sockets', s.context = held[side].context
        PROVE  s.id \in lingering'
    <3>1. s.id \in {held[side].first, held[side].second} /\ s.id # Null
      BY <1>2, <2>1 DEF IInv, AllHeld, TypeOK, Null
    <3> QED
      BY <1>1, <3>1
  <2> QED
    BY <1>1, <1>2, <2>1 DEF IInv, AllHeld
<1>8. NoneLost'
  BY <1>1 DEF IInv, NoneLost, Contexts
<1> QED
  BY <1>3, <1>4, <1>6, <1>7, <1>8 DEF IInv

\* The context goes with nothing in it, and nothing else does.
LEMMA TerminateKeeps ==
  ASSUME EndpointsAssumption, IInv, NEW side \in Sides, Terminate(side)
  PROVE  IInv'
<1>1. /\ UNCHANGED <<sockets, unsent, lingering, careless>>
      /\ contexts' = {c \in contexts : c.id # held[side].context}
      /\ held' = [held EXCEPT ![side] = AllNull]
      /\ ready' = ready \ {side} /\ terminating' = terminating \ {side}
      /\ ~ \E s \in sockets : s.context = held[side].context
  BY DEF Terminate
<1>2. AllNull \in HeldType /\ AllNull.context = Null /\ AllNull.first = Null
      /\ AllNull.second = Null
  BY DEF AllNull, HeldType, Null, EndpointsAssumption
<1>3. held \in [Sides -> HeldType]
  BY TypeOKFolded DEF IInv
<1>4. held'[side] = AllNull /\ \A t \in Sides \ {side} : held'[t] = held[t]
  BY <1>1, <1>3
<1>5. TypeOK'
  <2>1. held' \in [Sides -> HeldType]
    BY <1>1, <1>2, <1>3
  <2> QED
    BY <1>1, <2>1, TypeOKFolded, TypeOKFoldedNext DEF IInv
<1>6. (UniqueIds /\ InContexts)'
  BY <1>1 DEF IInv, UniqueIds, InContexts, Ids
<1>7. HoldsOwn'
  <2>1. ASSUME NEW t \in Sides, t # side, held[t].context # Null
        PROVE  [id |-> held[t].context, side |-> t] \in contexts'
    <3>1. [id |-> held[t].context, side |-> t] \in contexts
      BY <2>1 DEF IInv, HoldsOwn
    <3>2. held[t].context # held[side].context
      <4>1. SUFFICES ASSUME held[t].context = held[side].context PROVE FALSE
        OBVIOUS
      <4>2. [id |-> held[side].context, side |-> side] \in contexts
        BY <2>1, <4>1 DEF IInv, HoldsOwn
      <4>3. [id |-> held[t].context, side |-> t] = [id |-> held[side].context, side |-> side]
        BY <3>1, <4>1, <4>2 DEF IInv, UniqueIds
      <4> QED
        BY <2>1, <4>3
    <3> QED
      BY <1>1, <3>1, <3>2
  <2> QED
    BY <1>2, <1>4, <2>1 DEF HoldsOwn
<1>8. PointsToOwn'
  <2>1. ASSUME NEW t \in Sides, t = side
        PROVE  (Points(held[t].first, FirstKind(t)) /\ Points(held[t].second, SecondKind(t)))'
    BY <1>2, <1>4, <2>1 DEF Points
  <2>2. ASSUME NEW t \in Sides \ terminating, t # side
        PROVE  (Points(held[t].first, FirstKind(t)) /\ Points(held[t].second, SecondKind(t)))'
    BY <1>1, <1>4, <2>2 DEF IInv, PointsToOwn, Points
  <2> QED
    BY <1>1, <2>1, <2>2 DEF PointsToOwn
<1>9. AllHeld'
  <2>1. \A s \in sockets : s.context # Null
    BY DEF IInv, TypeOK, Null
  <2> QED
    BY <1>1, <1>2, <1>4, <2>1 DEF IInv, AllHeld
<1>10. ReadyHolds'
  BY <1>1, <1>4, TypeOKFolded DEF IInv, ReadyHolds
<1>11. NoneLost'
  BY <1>1, <1>4 DEF IInv, NoneLost, Contexts
<1> QED
  BY <1>5, <1>6, <1>7, <1>8, <1>9, <1>10, <1>11 DEF IInv

LEMMA NextIInv ==
  ASSUME EndpointsAssumption
  PROVE  IInv /\ [Next]_vars => IInv'
<1> SUFFICES ASSUME IInv, [Next]_vars PROVE IInv'
  OBVIOUS
<1>1. ASSUME NEW a1 \in Addresses \cup {BadAddress}, NEW a2 \in Addresses \cup {BadAddress},
             simulith_server_init(a1, a2)
      PROVE  IInv'
  <2>1. InitCalled("server") /\ Open("server", <<"PUB", "REP">>, a1, a2)
    BY <1>1 DEF simulith_server_init
  <2>2. "server" \in Sides /\ <<"PUB", "REP">> = <<FirstKind("server"), SecondKind("server")>>
    BY DEF Sides, FirstKind, SecondKind
  <2> QED
    BY <2>1, <2>2, OpenCreates, CreatesKeeps DEF IInv
<1>2. ASSUME NEW a1 \in Addresses \cup {BadAddress}, NEW a2 \in Addresses \cup {BadAddress},
             simulith_client_init(a1, a2)
      PROVE  IInv'
  <2>1. InitCalled("client") /\ Open("client", <<"SUB", "REQ">>, a1, a2)
    BY <1>2 DEF simulith_client_init
  <2>2. "client" \in Sides /\ <<"SUB", "REQ">> = <<FirstKind("client"), SecondKind("client")>>
    BY DEF Sides, FirstKind, SecondKind
  <2> QED
    BY <2>1, <2>2, OpenCreates, CreatesKeeps DEF IInv
<1>3. CASE simulith_client_handshake
  BY <1>3, HandshakeKeeps
<1>4. ASSUME NEW s \in sockets, Deliver(s) PROVE IInv'
  BY <1>4, DeliverKeeps
<1>5. ASSUME NEW side \in Sides, Shutdown(side) \/ Terminate(side) PROVE IInv'
  BY <1>5, ShutdownKeeps, TerminateKeeps
<1>6. CASE UNCHANGED vars
  BY <1>6 DEF vars, IInv, TypeOK, UniqueIds, InContexts, HoldsOwn, PointsToOwn, Points, AllHeld,
              ReadyHolds, NoneLost, Contexts, Ids
<1> QED
  BY <1>1, <1>2, <1>3, <1>4, <1>5, <1>6 DEF Next

LEMMA IInvHolds ==
  ASSUME EndpointsAssumption
  PROVE  Spec => []IInv
  BY InitIInv, NextIInv, PTL DEF Spec

-----------------------------------------------------------------------------
\* Ids stay within ZeroMQ's limits, and only sockets that exist linger or have a
\* message that has not left.
THEOREM TypeCorrect ==
  ASSUME EndpointsAssumption
  PROVE  Spec => []TypeOK
<1>1. IInv => TypeOK
  BY DEF IInv
<1> QED
  BY <1>1, IInvHolds, PTL

LEMMA IInvPoints == IInv => PointersLive
<1> SUFFICES ASSUME IInv, NEW side \in Sides \ terminating
             PROVE  /\ held[side].context \in {c.id : c \in contexts} \cup {Null}
                    /\ {held[side].first, held[side].second} \ {Null} \subseteq
                         {s.id : s \in sockets} \ lingering
  BY DEF PointersLive
<1>1. held[side].context # Null => held[side].context \in {c.id : c \in contexts}
  <2>1. ASSUME held[side].context # Null
        PROVE  [id |-> held[side].context, side |-> side] \in contexts
    BY <2>1 DEF IInv, HoldsOwn
  <2> QED
    BY <2>1
<1> QED
  BY <1>1 DEF IInv, PointsToOwn, Points

\* No shutdown and no call of either side uses a socket or a context that is
\* gone, whatever inits failed half way before.
THEOREM PointersStayLive ==
  ASSUME EndpointsAssumption
  PROVE  Spec => []PointersLive
  BY IInvPoints, IInvHolds, PTL

LEMMA IInvWaits == IInv => ShutdownWaitsForMessageOnly
  BY DEF IInv, AllHeld, TypeOK, ShutdownWaitsForMessageOnly

\* zmq_ctx_term can only be kept waiting by a message.
THEOREM ShutdownWaits ==
  ASSUME EndpointsAssumption
  PROVE  Spec => []ShutdownWaitsForMessageOnly
  BY IInvWaits, IInvHolds, PTL

LEMMA IInvReleases == IInv => CarefulReleases
<1> SUFFICES ASSUME IInv, NEW side \in Sides \ careless, held[side] = AllNull
             PROVE  Contexts(side) = {}
  BY DEF CarefulReleases
<1>1. Contexts(side) \subseteq {Null}
  BY DEF IInv, NoneLost, AllNull
<1>2. Null \notin Contexts(side)
  BY DEF IInv, TypeOK, Contexts, Null
<1> QED
  BY <1>1, <1>2

\* Shutting down before every further init, after one that failed too, leaks
\* nothing.
THEOREM CarefulLeaksNothing ==
  ASSUME EndpointsAssumption
  PROVE  Spec => []CarefulReleases
  BY IInvReleases, IInvHolds, PTL
=============================================================================
