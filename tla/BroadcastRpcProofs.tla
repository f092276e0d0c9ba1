------------------------- MODULE BroadcastRpcProofs -------------------------
(***************************************************************************)
(* Theorems about requests, answers and broadcasts, for every set of       *)
(* clients, every number of attempts and of calls, and any number of       *)
(* changes of the served value.                                            *)
(***************************************************************************)
EXTENDS BroadcastRpc, SequenceTheorems, TLAPS

(* The messages for p under way in q are in order, none is older than what *)
(* p has seen already (low), and none is newer than what was sent last     *)
(* (high).                                                                 *)
Ordered(q, p, low, high) ==
  /\ low <= high
  /\ \A i \in 1..Len(q) : q[i].peer = p => low <= q[i].data /\ q[i].data <= high
  /\ \A i, j \in 1..Len(q) :
       i < j /\ q[i].peer = p /\ q[j].peer = p => q[i].data <= q[j].data

(* A request is only ever served for a client, so that no answer looks     *)
(* like a broadcast, and what was sent last is not newer than the present  *)
(* value, so that the next message is not older.                           *)
ServerInv ==
  /\ handler # "idle" => requestPeer \in Clients
  /\ formed <= value
  /\ announced <= value

(* A call returns the answer recorded last, and the answers still under    *)
(* way continue from there; the same for the broadcasts.                   *)
AnswersInOrder ==
  \A c \in Clients :
    returned[c] <= last[c] /\ Ordered(inbox[c], c, last[c], formed)

BroadcastsInOrder ==
  \A c \in Clients : Ordered(inbox[c], Everyone, handled[c], announced)

(* A call that goes on has an attempt left.                                *)
Attempting == \A c \in Clients : pc[c] # "idle" => attempt[c] < RequestMaxAttempts

IInv ==
  /\ TypeOK
  /\ Attempting
  /\ FlagsAgree
  /\ ServerInv
  /\ AnswersInOrder
  /\ BroadcastsInOrder

----------------------------------------------------------------------------
(* Queues of messages *)

\* The data of a message is a number.
LEMMA DataIsNatural ==
  ASSUME NEW q \in Seq(Messages)
  PROVE  /\ Len(q) \in Nat
         /\ \A i \in 1..Len(q) : q[i].data \in Nat
         /\ \A m \in Messages : m.data \in Nat
<1>1. \A m \in Messages : m.data \in Nat
  BY LimitsAssumption DEF Messages, Values
<1>2. Len(q) \in Nat /\ \A i \in 1..Len(q) : q[i] \in Messages
  BY LenProperties, ElementOfSeq, Zenon
<1> QED BY <1>1, <1>2

LEMMA EmptyOrdered ==
  ASSUME NEW p, NEW low \in Nat
  PROVE  Ordered(<<>>, p, low, low)
  BY DEF Ordered

\* Nothing newer than the last message is needed to keep the order.
LEMMA OrderedLater ==
  ASSUME NEW q \in Seq(Messages), NEW p, NEW low \in Nat, NEW high \in Nat,
         NEW later \in Nat, Ordered(q, p, low, high), high <= later
  PROVE  Ordered(q, p, low, later)
<1>1. \A i \in 1..Len(q) : q[i].data \in Nat
  BY DataIsNatural
<1> QED BY <1>1 DEF Ordered

\* A message as new as high may follow, and so may one for someone else.
LEMMA AppendOrdered ==
  ASSUME NEW q \in Seq(Messages), NEW m \in Messages, NEW p,
         NEW low \in Nat, NEW high \in Nat, Ordered(q, p, low, high),
         m.peer = p => m.data = high
  PROVE  Ordered(Append(q, m), p, low, high)
<1> DEFINE r == Append(q, m)
<1>1. /\ Len(q) \in Nat
      /\ Len(r) = Len(q) + 1
      /\ \A i \in 1..Len(q) : r[i] = q[i]
      /\ r[Len(q) + 1] = m
  BY AppendProperties, LenProperties
<1>2. \A i \in 1..Len(q) : q[i].data \in Nat
  BY DataIsNatural
<1>3. m.data \in Nat
  BY DataIsNatural
<1> HIDE DEF r
<1>4. \A i \in 1..Len(r) : r[i].peer = p => low <= r[i].data /\ r[i].data <= high
  BY <1>1, <1>2, <1>3 DEF Ordered
<1>5. ASSUME NEW i \in 1..Len(r), NEW j \in 1..Len(r), i < j, r[i].peer = p, r[j].peer = p
      PROVE  r[i].data <= r[j].data
  <2>1. i \in 1..Len(q) /\ r[i] = q[i]
    BY <1>1, <1>5
  <2>2. CASE j = Len(q) + 1
    BY <1>1, <1>2, <1>5, <2>1, <2>2 DEF Ordered
  <2>3. CASE j \in 1..Len(q)
    BY <1>1, <1>5, <2>1, <2>3 DEF Ordered
  <2> QED BY <1>1, <2>2, <2>3
<1>6. low <= high
  BY DEF Ordered
<1> QED BY <1>4, <1>5, <1>6 DEF Ordered, r

\* Once the first message is taken, the rest is not older than it, nor than
\* anything seen before.
LEMMA TailOrdered ==
  ASSUME NEW q \in Seq(Messages), q # <<>>, NEW p,
         NEW low \in Nat, NEW high \in Nat, Ordered(q, p, low, high)
  PROVE  /\ Ordered(Tail(q), p, low, high)
         /\ Head(q).peer = p =>
              low <= Head(q).data /\ Ordered(Tail(q), p, Head(q).data, high)
<1> DEFINE r == Tail(q)
<1>1. /\ Len(r) = Len(q) - 1
      /\ \A i \in 1..Len(r) : r[i] = q[i + 1]
      /\ Len(q) \in Nat \ {0}
      /\ Head(q) = q[1]
  BY HeadTailProperties, EmptySeq
<1>2. \A i \in 1..Len(q) : q[i].data \in Nat
  BY DataIsNatural
<1> HIDE DEF r
<1>3. \A i \in 1..Len(r) : i + 1 \in 1..Len(q) /\ 1 < i + 1
  BY <1>1
<1>4. \A i \in 1..Len(r) : r[i].peer = p => low <= r[i].data /\ r[i].data <= high
  BY <1>1, <1>3 DEF Ordered
<1>5. ASSUME NEW i \in 1..Len(r), NEW j \in 1..Len(r), i < j, r[i].peer = p, r[j].peer = p
      PROVE  r[i].data <= r[j].data
  <2>1. i + 1 < j + 1
    BY <1>1, <1>5
  <2> QED BY <1>1, <1>3, <1>5, <2>1 DEF Ordered
<1>6. Ordered(r, p, low, high)
  BY <1>4, <1>5 DEF Ordered
<1>7. ASSUME Head(q).peer = p
      PROVE  low <= Head(q).data /\ Ordered(r, p, Head(q).data, high)
  <2>1. low <= q[1].data /\ q[1].data <= high /\ q[1].peer = p
    BY <1>1, <1>7 DEF Ordered
  <2>2. \A i \in 1..Len(r) : r[i].peer = p => q[1].data <= r[i].data
    BY <1>1, <1>3, <2>1 DEF Ordered
  <2> QED BY <1>1, <1>4, <1>5, <2>1, <2>2 DEF Ordered
<1> QED BY <1>6, <1>7 DEF r

----------------------------------------------------------------------------
(* Type correctness *)

LEMMA TypeServerStep ==
  ASSUME TypeServer, TypeBus, [Next]_vars
  PROVE  TypeServer'
<1> USE LimitsAssumption DEF TypeServer
<1>1. CASE Dispatch
  <2>1. Head(requests) \in Clients
    BY <1>1, HeadTailProperties DEF Dispatch, TypeBus
  <2> QED BY <1>1, <2>1 DEF Dispatch
<1>2. CASE Form \/ Refuse \/ Serve \/ ServeFails
  BY <1>2 DEF Form, Refuse, Serve, ServeFails
<1>3. CASE Change \/ Broadcast \/ BroadcastFails
  BY <1>3 DEF Change, Broadcast, BroadcastFails, Values
<1>4. CASE \E c \in Clients : Call(c) \/ Caller(c) \/ Listener(c)
  BY <1>4 DEF Call, Caller, Send, SendFails, Expire, Take, NextAttempt, Listener,
       Receive, PassOn, server
<1>5. CASE UNCHANGED vars
  BY <1>5 DEF vars
<1> QED BY <1>1, <1>2, <1>3, <1>4, <1>5 DEF Next, Server

LEMMA TypeBusStep ==
  ASSUME TypeServer, TypeBus, [Next]_vars
  PROVE  TypeBus'
<1> USE LimitsAssumption DEF TypeBus
<1>1. CASE Dispatch
  <2>1. Tail(requests) \in Seq(Clients)
    BY <1>1, HeadTailProperties DEF Dispatch
  <2> QED BY <1>1, <2>1 DEF Dispatch
<1>2. CASE Serve \/ Broadcast
  <2>1. PICK m \in Messages : SendToAll(m) /\ requests' = requests
    BY <1>2 DEF Serve, Broadcast, Messages, TypeServer
  <2>2. \A c \in Clients : Append(inbox[c], m) \in Seq(Messages)
    BY AppendProperties
  <2> QED BY <2>1, <2>2 DEF SendToAll
<1>3. CASE \E c \in Clients : Send(c)
  <2>1. PICK c \in Clients : Send(c)
    BY <1>3
  <2>2. Append(requests, c) \in Seq(Clients)
    BY AppendProperties
  <2> QED BY <2>1, <2>2 DEF Send
<1>4. CASE \E c \in Clients : Listener(c)
  <2>1. PICK c \in Clients : Listener(c)
    BY <1>4
  <2>2. /\ inbox[c] \in Seq(Messages) /\ inbox[c] # <<>>
        /\ inbox' = [inbox EXCEPT ![c] = Tail(@)]
        /\ requests' = requests
    BY <2>1 DEF Listener, Receive, PassOn
  <2>3. Tail(inbox[c]) \in Seq(Messages)
    BY <2>2, HeadTailProperties
  <2> QED BY <2>2, <2>3
<1>5. CASE \E c \in Clients : Call(c) \/ SendFails(c) \/ Expire(c) \/ Take(c) \/ NextAttempt(c)
  BY <1>5 DEF Call, SendFails, Expire, Take, NextAttempt, bus
<1>6. CASE Form \/ Refuse \/ ServeFails \/ Change \/ BroadcastFails \/ UNCHANGED vars
  BY <1>6 DEF Form, Refuse, ServeFails, Change, BroadcastFails, bus, vars
<1> QED BY <1>1, <1>2, <1>3, <1>4, <1>5, <1>6 DEF Next, Server, Caller

LEMMA TypeFlagsStep ==
  ASSUME TypeFlags, [Next]_vars
  PROVE  TypeFlags'
<1> USE DEF TypeFlags
<1>1. CASE \E c \in Clients : Send(c) \/ SendFails(c) \/ Take(c) \/ NextAttempt(c) \/ Receive(c)
  BY <1>1, Zenon DEF Send, SendFails, Take, NextAttempt, Receive, server
<1>2. CASE \E c \in Clients : Call(c) \/ Expire(c) \/ PassOn(c)
  BY <1>2, Zenon DEF Call, Expire, PassOn, server, flags
<1>3. CASE Server \/ Change \/ Broadcast \/ BroadcastFails \/ UNCHANGED vars
  BY <1>3, Zenon DEF Server, Dispatch, Form, Refuse, Serve, ServeFails, Change, Broadcast,
       BroadcastFails, flags, vars
<1> QED BY <1>1, <1>2, <1>3 DEF Next, Caller, Listener

LEMMA TypeClientStep ==
  ASSUME TypeBus, TypeClient, [Next]_vars
  PROVE  TypeClient'
<1> USE DEF TypeClient
<1>1. CASE \E c \in Clients : Listener(c)
  <2>1. PICK c \in Clients : Listener(c)
    BY <1>1
  <2>2. inbox[c] \in Seq(Messages) /\ inbox[c] # <<>>
    BY <2>1 DEF Listener, Receive, PassOn, TypeBus
  <2>3. First(c).data \in Values
    <3>1. First(c) \in Messages
      BY <2>2, HeadTailProperties DEF First
    <3> QED BY <3>1 DEF Messages
  <2> QED BY <2>1, <2>3 DEF Listener, Receive, PassOn, caller, flags
<1>2. CASE \E c \in Clients : Call(c) \/ Caller(c)
  BY <1>2 DEF Call, Caller, Send, SendFails, Expire, Take, NextAttempt, flags
<1>3. CASE Server \/ Change \/ Broadcast \/ BroadcastFails \/ UNCHANGED vars
  BY <1>3 DEF Server, Dispatch, Form, Refuse, Serve, ServeFails, Change, Broadcast,
       BroadcastFails, caller, flags, vars
<1> QED BY <1>1, <1>2, <1>3 DEF Next

LEMMA CountersStep ==
  ASSUME TypeClient, TypeCounters, Attempting, [Next]_vars
  PROVE  TypeCounters' /\ Attempting'
<1> USE LimitsAssumption DEF TypeCounters, Attempting
<1>1. CASE \E c \in Clients : Call(c)
  BY <1>1 DEF Call, TypeClient
<1>2. CASE \E c \in Clients : NextAttempt(c)
  <2>1. PICK c \in Clients : NextAttempt(c)
    BY <1>2
  <2>2. attempt[c] < RequestMaxAttempts /\ attempt[c] \in Nat
    BY <2>1 DEF NextAttempt, Woken
  <2>3. attempt' = [attempt EXCEPT ![c] = @ + 1] /\ UNCHANGED calls
    BY <2>1 DEF NextAttempt
  <2>4. TypeCounters'
    BY <2>2, <2>3
  <2>5. Attempting'
    BY <2>1, <2>2, <2>3 DEF NextAttempt, TypeClient
  <2> QED BY <2>4, <2>5
<1>3. CASE \E c \in Clients : Send(c) \/ SendFails(c) \/ Expire(c) \/ Take(c)
  BY <1>3 DEF Send, SendFails, Expire, Take, Woken, TypeClient
<1>4. CASE \E c \in Clients : Listener(c)
  BY <1>4 DEF Listener, Receive, PassOn, caller
<1>5. CASE Server \/ Change \/ Broadcast \/ BroadcastFails \/ UNCHANGED vars
  BY <1>5 DEF Server, Dispatch, Form, Refuse, Serve, ServeFails, Change, Broadcast,
       BroadcastFails, caller, vars
<1> QED BY <1>1, <1>2, <1>3, <1>4, <1>5 DEF Next, Caller

----------------------------------------------------------------------------
(* The other parts of the inductive invariant *)

LEMMA FlagsAgreeStep ==
  ASSUME TypeFlags, TypeClient, FlagsAgree, [Next]_vars
  PROVE  FlagsAgree'
<1>1. CASE \E c \in Clients : Call(c) \/ Expire(c) \/ PassOn(c)
  BY <1>1, Zenon DEF Call, Expire, PassOn, FlagsAgree, TypeClient, flags, caller
<1>2. CASE \E c \in Clients : Send(c) \/ SendFails(c)
  BY <1>2, Zenon DEF Send, SendFails, FlagsAgree, TypeClient, TypeFlags
<1>3. CASE \E c \in Clients : Take(c) \/ NextAttempt(c)
  BY <1>3, Zenon DEF Take, NextAttempt, FlagsAgree, TypeClient, TypeFlags
<1>4. CASE \E c \in Clients : Receive(c)
  BY <1>4, Zenon DEF Receive, IsAnswer, FlagsAgree, TypeFlags, caller
<1>5. CASE Server \/ Change \/ Broadcast \/ BroadcastFails \/ UNCHANGED vars
  BY <1>5, Zenon DEF Server, Dispatch, Form, Refuse, Serve, ServeFails, Change, Broadcast,
       BroadcastFails, FlagsAgree, caller, flags, vars
<1> QED BY <1>1, <1>2, <1>3, <1>4, <1>5 DEF Next, Caller, Listener

LEMMA ServerInvStep ==
  ASSUME TypeServer, TypeBus, ServerInv, [Next]_vars
  PROVE  ServerInv'
<1> USE LimitsAssumption DEF ServerInv, TypeServer, Values
<1>1. CASE Dispatch
  <2>1. Head(requests) \in Clients
    BY <1>1, HeadTailProperties DEF Dispatch, TypeBus
  <2> QED BY <1>1, <2>1 DEF Dispatch
<1>2. CASE Form \/ Refuse \/ Serve \/ ServeFails
  BY <1>2 DEF Form, Refuse, Serve, ServeFails
<1>3. CASE Change \/ Broadcast \/ BroadcastFails
  BY <1>3 DEF Change, Broadcast, BroadcastFails
<1>4. CASE \E c \in Clients : Call(c) \/ Caller(c) \/ Listener(c)
  BY <1>4 DEF Call, Caller, Send, SendFails, Expire, Take, NextAttempt, Listener,
       Receive, PassOn, server
<1>5. CASE UNCHANGED vars
  BY <1>5 DEF vars
<1> QED BY <1>1, <1>2, <1>3, <1>4, <1>5 DEF Next, Server

LEMMA AnswersStep ==
  ASSUME TypeOK, ServerInv, AnswersInOrder, [Next]_vars
  PROVE  AnswersInOrder'
<1> USE DEF AnswersInOrder
<1>1. formed \in Nat /\ value \in Nat /\ formed <= value
  BY LimitsAssumption DEF TypeOK, TypeServer, Values, ServerInv
<1>2. \A c \in Clients :
        inbox[c] \in Seq(Messages) /\ last[c] \in Nat /\ returned[c] \in Nat
  BY LimitsAssumption DEF TypeOK, TypeBus, TypeClient, Values
<1>3. CASE Form
  <2>1. formed' = value /\ UNCHANGED <<inbox, last, returned>>
    BY <1>3 DEF Form, bus, flags, caller
  <2>2. \A c \in Clients : Ordered(inbox[c], c, last[c], value)
    BY <1>1, <1>2, OrderedLater
  <2> QED BY <2>1, <2>2
<1>4. CASE Serve \/ Broadcast
  <2>1. PICK m \in Messages :
          /\ SendToAll(m)
          /\ \A c \in Clients : m.peer = c => m.data = formed
          /\ UNCHANGED <<formed, last, returned>>
    BY <1>4, ClientsAssumption DEF Serve, Broadcast, Messages, TypeOK, TypeServer, flags, caller
  <2>2. \A c \in Clients : Ordered(Append(inbox[c], m), c, last[c], formed)
    BY <1>1, <1>2, <2>1, AppendOrdered
  <2> QED BY <2>1, <2>2 DEF SendToAll
<1>5. CASE \E c \in Clients : Listener(c)
  <2>1. PICK c \in Clients : Listener(c)
    BY <1>5
  <2>2. /\ inbox[c] # <<>>
        /\ inbox' = [inbox EXCEPT ![c] = Tail(@)]
        /\ UNCHANGED <<formed, returned>>
    BY <2>1 DEF Listener, Receive, PassOn, server, caller
  <2>3. last' = last \/ (Head(inbox[c]).peer = c /\ last' = [last EXCEPT ![c] = Head(inbox[c]).data])
    BY <2>1 DEF Listener, Receive, PassOn, flags, IsAnswer, First
  <2>4. /\ Ordered(Tail(inbox[c]), c, last[c], formed)
        /\ Head(inbox[c]).peer = c =>
             /\ last[c] <= Head(inbox[c]).data
             /\ Ordered(Tail(inbox[c]), c, Head(inbox[c]).data, formed)
    BY <1>1, <1>2, <2>2, TailOrdered
  <2>5. Head(inbox[c]).data \in Nat
    <3>1. Head(inbox[c]) \in Messages
      BY <1>2, <2>2, HeadTailProperties
    <3> QED BY <1>2, <3>1, DataIsNatural
  <2>6. ASSUME NEW d \in Clients
        PROVE  returned'[d] <= last'[d] /\ Ordered(inbox'[d], d, last'[d], formed')
    <3>1. CASE d = c
      BY <1>2, <2>2, <2>3, <2>4, <2>5, <3>1 DEF TypeOK, TypeBus, TypeClient
    <3>2. CASE d # c
      BY <2>2, <2>3, <3>2 DEF TypeOK, TypeBus, TypeClient
    <3> QED BY <3>1, <3>2
  <2> QED BY <2>6
<1>6. CASE \E c \in Clients : Take(c)
  <2>1. PICK c \in Clients : Take(c)
    BY <1>6
  <2>2. returned' = [returned EXCEPT ![c] = last[c]] /\ UNCHANGED <<formed, inbox, last>>
    BY <2>1 DEF Take, server, bus
  <2> QED BY <1>2, <2>2 DEF TypeOK, TypeClient
<1>7. CASE \E c \in Clients : Call(c) \/ Send(c) \/ SendFails(c) \/ Expire(c) \/ NextAttempt(c)
  BY <1>7 DEF Call, Send, SendFails, Expire, NextAttempt, server, bus, flags
<1>8. CASE Dispatch \/ Refuse \/ ServeFails \/ Change \/ BroadcastFails \/ UNCHANGED vars
  BY <1>8 DEF Dispatch, Refuse, ServeFails, Change, BroadcastFails, bus, flags, caller, vars
<1> QED BY <1>3, <1>4, <1>5, <1>6, <1>7, <1>8 DEF Next, Server, Caller

LEMMA BroadcastsStep ==
  ASSUME TypeOK, ServerInv, BroadcastsInOrder, [Next]_vars
  PROVE  BroadcastsInOrder'
<1> USE DEF BroadcastsInOrder
<1>1. announced \in Nat /\ value \in Nat /\ announced <= value
  BY LimitsAssumption DEF TypeOK, TypeServer, Values, ServerInv
<1>2. \A c \in Clients : inbox[c] \in Seq(Messages) /\ handled[c] \in Nat
  BY LimitsAssumption DEF TypeOK, TypeBus, TypeClient, Values
<1>3. \A c \in Clients : Ordered(inbox[c], Everyone, handled[c], value)
  BY <1>1, <1>2, OrderedLater
<1>4. CASE Serve
  <2>1. PICK m \in Messages :
          m.peer # Everyone /\ SendToAll(m) /\ UNCHANGED <<announced, handled>>
    BY <1>4, ClientsAssumption DEF Serve, Messages, TypeOK, TypeServer, ServerInv
  <2>2. \A c \in Clients : Ordered(Append(inbox[c], m), Everyone, handled[c], announced)
    BY <1>1, <1>2, <2>1, AppendOrdered
  <2> QED BY <2>1, <2>2 DEF SendToAll
<1>5. CASE Broadcast
  <2>1. PICK m \in Messages :
          m.data = value /\ SendToAll(m) /\ announced' = value /\ UNCHANGED handled
    BY <1>5 DEF Broadcast, Messages, TypeOK, TypeServer
  <2>2. \A c \in Clients : Ordered(Append(inbox[c], m), Everyone, handled[c], value)
    BY <1>1, <1>2, <1>3, <2>1, AppendOrdered
  <2> QED BY <2>1, <2>2 DEF SendToAll
<1>6. CASE BroadcastFails
  BY <1>3, <1>6 DEF BroadcastFails, bus
<1>7. CASE \E c \in Clients : Listener(c)
  <2>1. PICK c \in Clients : Listener(c)
    BY <1>7
  <2>2. /\ inbox[c] # <<>>
        /\ inbox' = [inbox EXCEPT ![c] = Tail(@)]
        /\ UNCHANGED announced
    BY <2>1 DEF Listener, Receive, PassOn, server
  <2>3. \/ handled' = handled
        \/ /\ Head(inbox[c]).peer = Everyone
           /\ handled' = [handled EXCEPT ![c] = Head(inbox[c]).data]
    BY <2>1 DEF Listener, Receive, PassOn, First
  <2>4. /\ Ordered(Tail(inbox[c]), Everyone, handled[c], announced)
        /\ Head(inbox[c]).peer = Everyone =>
             Ordered(Tail(inbox[c]), Everyone, Head(inbox[c]).data, announced)
    BY <1>1, <1>2, <2>2, TailOrdered
  <2>5. ASSUME NEW d \in Clients
        PROVE  Ordered(inbox'[d], Everyone, handled'[d], announced')
    <3>1. CASE d = c
      BY <2>2, <2>3, <2>4, <3>1 DEF TypeOK, TypeBus, TypeClient
    <3>2. CASE d # c
      BY <2>2, <2>3, <3>2 DEF TypeOK, TypeBus, TypeClient
    <3> QED BY <3>1, <3>2
  <2> QED BY <2>5
<1>8. CASE \E c \in Clients : Call(c) \/ Caller(c)
  BY <1>8 DEF Call, Caller, Send, SendFails, Expire, Take, NextAttempt, server, bus
<1>9. CASE Dispatch \/ Form \/ Refuse \/ ServeFails \/ Change \/ UNCHANGED vars
  BY <1>9 DEF Dispatch, Form, Refuse, ServeFails, Change, bus, vars
<1> QED BY <1>4, <1>5, <1>6, <1>7, <1>8, <1>9 DEF Next, Server

LEMMA InitEstablishes == Init => IInv
<1> SUFFICES ASSUME Init PROVE IInv
  OBVIOUS
<1> USE LimitsAssumption DEF Init
<1>1. TypeServer /\ TypeBus /\ TypeClient /\ ServerInv
  BY DEF TypeServer, TypeBus, TypeClient, ServerInv, Values
<1>2. TypeFlags /\ FlagsAgree
  BY Zenon DEF TypeFlags, FlagsAgree
<1>3. TypeCounters /\ Attempting
  BY DEF TypeCounters, Attempting
<1>4. \A c \in Clients : Ordered(<<>>, c, 0, 0) /\ Ordered(<<>>, Everyone, 0, 0)
  BY EmptyOrdered
<1>5. AnswersInOrder /\ BroadcastsInOrder
  BY <1>4 DEF AnswersInOrder, BroadcastsInOrder
<1> QED BY <1>1, <1>2, <1>3, <1>5 DEF IInv, TypeOK

LEMMA NextPreserves == IInv /\ [Next]_vars => IInv'
  BY TypeServerStep, TypeBusStep, TypeFlagsStep, TypeClientStep, CountersStep,
     FlagsAgreeStep, ServerInvStep, AnswersStep, BroadcastsStep DEF IInv, TypeOK

----------------------------------------------------------------------------
(* Theorems *)

(* Every reachable state is well typed; in particular no call makes more   *)
(* than RequestMaxAttempts attempts.                                       *)
THEOREM TypeCorrect == Spec => []TypeOK
<1>1. IInv => TypeOK
  BY DEF IInv
<1> QED BY InitEstablishes, NextPreserves, <1>1, PTL DEF Spec

(* wait_for_resp and response_available always tell whether the attempt    *)
(* under way has its answer, though a deadline may pass at any moment and  *)
(* answers come when nobody waits.                                         *)
THEOREM FlagsAlwaysAgree == Spec => []FlagsAgree
<1>1. IInv => FlagsAgree
  BY DEF IInv
<1> QED BY InitEstablishes, NextPreserves, <1>1, PTL DEF Spec

(* Successive calls of a client never return an older value than before,   *)
(* although a response carries no number of its request.                   *)
THEOREM AnswersInTimeOrder == Spec => AnswersNeverGoBack
<1>1. ASSUME IInv, [Next]_vars
      PROVE  [\A c \in Clients : returned'[c] >= returned[c]]_vars
  <2>1. \A c \in Clients : returned[c] \in Nat /\ last[c] \in Nat /\ returned[c] <= last[c]
    BY <1>1, LimitsAssumption DEF IInv, TypeOK, TypeClient, Values, AnswersInOrder
  <2>2. CASE \E c \in Clients : Take(c)
    BY <2>1, <2>2 DEF Take
  <2>3. CASE returned' = returned
    BY <2>1, <2>3
  <2>4. (\E c \in Clients : Take(c)) \/ returned' = returned
    BY <1>1 DEF Next, Call, Caller, Send, SendFails, Expire, NextAttempt, Listener, Receive,
         PassOn, Server, Dispatch, Form, Refuse, Serve, ServeFails, Change, Broadcast,
         BroadcastFails, caller, vars
  <2> QED BY <2>2, <2>3, <2>4
<1> QED BY InitEstablishes, NextPreserves, <1>1, PTL DEF Spec, AnswersNeverGoBack

(* The handler of a client never sees an older broadcast after a newer     *)
(* one, whatever requests are served in between and on whatever thread.    *)
THEOREM BroadcastsInTimeOrder == Spec => BroadcastsNeverGoBack
<1>1. ASSUME IInv, [Next]_vars
      PROVE  [\A c \in Clients : handled'[c] >= handled[c]]_vars
  <2>1. announced \in Nat
        /\ \A c \in Clients : handled[c] \in Nat /\ inbox[c] \in Seq(Messages)
    BY <1>1, LimitsAssumption DEF IInv, TypeOK, TypeServer, TypeBus, TypeClient, Values
  <2>2. CASE \E c \in Clients : PassOn(c) /\ handled' # handled
    <3>1. PICK c \in Clients :
            /\ inbox[c] # <<>> /\ Head(inbox[c]).peer = Everyone
            /\ handled' = [handled EXCEPT ![c] = Head(inbox[c]).data]
      BY <2>2 DEF PassOn, First
    <3>2. Ordered(inbox[c], Everyone, handled[c], announced)
      BY <1>1 DEF IInv, BroadcastsInOrder
    <3>3. handled[c] <= Head(inbox[c]).data
      BY <2>1, <3>1, <3>2, TailOrdered
    <3> QED BY <2>1, <3>1, <3>3
  <2>3. CASE handled' = handled
    BY <2>1, <2>3
  <2>4. (\E c \in Clients : PassOn(c)) \/ handled' = handled
    BY <1>1 DEF Next, Call, Caller, Send, SendFails, Expire, Take, NextAttempt, Listener,
         Receive, Server, Dispatch, Form, Refuse, Serve, ServeFails, Change, Broadcast,
         BroadcastFails, vars
  <2> QED BY <2>2, <2>3, <2>4
<1> QED BY InitEstablishes, NextPreserves, <1>1, PTL DEF Spec, BroadcastsNeverGoBack

=============================================================================
