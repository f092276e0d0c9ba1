------------------------- MODULE ScreenOwnerProofs -------------------------
(***************************************************************************)
(* Theorems about the screen owner, for every set of clients, components   *)
(* and places, every length of a loan and every queue.                     *)
(*                                                                         *)
(* All of it holds however the three threads interleave, also where the    *)
(* server thread works on a place that a turn of the alive timer has in    *)
(* hand.  What such a meeting does break is in ScreenOwnerDisplayProofs.   *)
(***************************************************************************)
EXTENDS ScreenOwner, SequenceTheorems, TLAPS

----------------------------------------------------------------------------
(* Who waits for whom                                                      *)

\* The server thread serves a request everywhere but in accept.
Serving == (req = None) <=> (pc = "accept")

\* A turn starts at the first place and looks at no place beyond the last.
TurnInOrder == IF at = "idle" THEN place = 1 ELSE place <= Len(SlotOrder)

\* An event that somebody waits for was posted by the thread that waits, for
\* the place it works on, and is the only one of that thread.
EventsWaitedFor ==
  \A i \in DOMAIN qt :
    /\ qt[i].by = "uds" =>
         pc = "blocked" /\ req # None /\ qt[i].slot = Place
    /\ qt[i].by = "alive" => at = "blocked" /\ qt[i].slot = Looked
    /\ qt[i].by # "none" =>
         \A j \in DOMAIN qt : qt[j].by = qt[i].by => j = i

\* What is posted by whom: a refresh is the only event nobody waits for.
EventsByOp ==
  \A i \in DOMAIN qt :
    /\ qt[i].by = "none" <=> qt[i].op = "refresh"
    /\ qt[i].by = "alive" => qt[i].op = "clear"

ThreadsInv == TypeOK /\ Serving /\ TurnInOrder /\ EventsWaitedFor /\ EventsByOp

\* The event that a blocked thread waits for is in the queue.
Posted(who) == \E i \in DOMAIN qt : qt[i].by = who

BlockedHasEvent ==
  /\ pc = "blocked" => Posted("uds")
  /\ at = "blocked" => Posted("alive")

----------------------------------------------------------------------------
(* The places, however the server thread and the turns interleave          *)

\* The server thread is past ensure: the request's handler is at its place.
Ensured ==
  /\ pc \in {"handle", "setTaken", "setAcquired", "layout", "setAlive",
             "update", "refresh", "setExpiring", "clear", "reply"} =>
       handler[Place] = req.comp
  /\ \A i \in DOMAIN qt :
       qt[i].by = "uds" /\ qt[i].op # "ensure" => handler[Place] = req.comp

\* The step of the server thread is one of the command it serves.
StepOfCommand ==
  /\ pc \in {"setTaken", "setAcquired", "layout"} => req.cmd = "ACQUIRE"
  /\ pc = "setAlive" => req.cmd = "PING"
  /\ pc \in {"update", "refresh"} => req.cmd = "SET_DATA"
  /\ pc \in {"setExpiring", "clear"} => req.cmd = "RELEASE"
  /\ \A i \in DOMAIN qt :
       qt[i].by = "uds" =>
         /\ qt[i].op \in {"init", "update"} => req.cmd = "ACQUIRE"
         /\ qt[i].op = "clear" => req.cmd = "RELEASE"

\* A place that the server thread is about to lend, or has given up, is not lent.
NotLent ==
  /\ pc \in {"setTaken", "setAcquired", "clear"} => state[Place] # "Acquired"
  /\ \A i \in DOMAIN qt :
       qt[i].by = "uds" /\ qt[i].op \in {"init", "clear"} =>
         state[Place] # "Acquired"

\* A turn that expires a place or clears it has stored zero, and the counter is
\* zero nowhere else.
TurnCounts ==
  /\ at \in {"expire", "clear", "post", "blocked"} => count = 0
  /\ at \in {"store", "result"} => count < MaxAlive
  /\ \A s \in Slots :
       alive[s] = 0 =>
         at \in {"expire", "result", "clear"} /\ Looked = s /\ count = 0

\* A place that is not empty has a handler, and so has the one a turn works on.
HandlerKnown ==
  /\ \A s \in Slots : state[s] # "Empty" => handler[s] # None
  /\ at \in {"load", "store", "expire", "result", "clear", "post", "blocked"} =>
       handler[Looked] # None

\* The handler of a place that a turn has in hand is not replaced.
NotReplaced ==
  \A i \in DOMAIN qt :
    qt[i].by = "uds" /\ qt[i].op = "ensure" /\ InHand(Place) =>
      state[Place] # "Empty"

\* The server thread is between giving a place up and having it cleared.
ReleaseUnderWay ==
  /\ req # None /\ req.cmd = "RELEASE"
  /\ \/ pc = "clear"
     \/ pc = "blocked" /\ \A i \in DOMAIN qt : qt[i].by = "uds" => qt[i].op = "clear"

\* The turn has not found the counter to be zero, or has not marked the place.
Undecided ==
  \/ at \in {"load", "store", "expire"}
  \/ at = "result" /\ count # 0

\* Who clears an Expiring place.  Before a turn has marked the place it works on,
\* only a release can have; after it, only a counter that the server thread has
\* set makes the turn leave it.
Forgotten ==
  /\ \A s \in Slots :
       state[s] = "Expiring" =>
         \/ ReleaseUnderWay /\ Place = s
         \/ at \in {"result", "clear", "post", "blocked"} /\ Looked = s
         \/ s \in renewed
  /\ Undecided /\ state[Looked] = "Expiring" => ReleaseUnderWay /\ Place = Looked
  /\ at \in {"expire", "result"} /\ count = 0 /\ alive[Looked] # 0 =>
       Looked \in renewed

LoansInv ==
  /\ ThreadsInv /\ Ensured /\ StepOfCommand /\ NotLent /\ TurnCounts
  /\ HandlerKnown /\ NotReplaced /\ Forgotten

----------------------------------------------------------------------------
(* The steps *)

LEMMA NextCases ==
  ASSUME Next
  PROVE
    \/ Accept \/ Ensure \/ Refuse \/ Reply \/ AcquireBegin \/ AcquireTaken
    \/ AcquireDone \/ AcquireHeld \/ Layout \/ NotFound \/ PingFound
    \/ SetAlive \/ UpdateFound \/ QueueRefresh \/ ReleaseFound
    \/ ReleaseExpiring \/ ReleaseClear
    \/ TurnBegins \/ CheckState \/ LoadCounter \/ StoreCounter \/ Expire
    \/ Result \/ TimerClear \/ TimerPost
    \/ QtReplace \/ QtKeep \/ QtInit \/ QtUpdate \/ QtRefresh \/ QtClear
    \/ \E c \in Clients :
         \/ \E cmd \in Commands, k \in Components : Call(c, cmd, k)
         \/ Crash(c) \/ CrashConnecting(c)
  BY DEF Next, Uds, UdsStep, Alive, AliveStep, Qt, QtStep, Client, ClientStep

\* The event queue and the backlog: what an append adds.
LEMMA Appended ==
  ASSUME NEW S, NEW q \in Seq(S), NEW e \in S
  PROVE  /\ Append(q, e) \in Seq(S)
         /\ Append(q, e) # <<>>
         /\ \A i \in DOMAIN Append(q, e) :
              \/ i \in DOMAIN q /\ Append(q, e)[i] = q[i]
              \/ i = Len(q) + 1 /\ Append(q, e)[i] = e
         /\ \A i \in DOMAIN q : i # Len(q) + 1
  BY AppendProperties

\* The event queue and the backlog: what taking the head leaves.
LEMMA HeadTaken ==
  ASSUME NEW S, NEW q \in Seq(S), q # <<>>
  PROVE  /\ Tail(q) \in Seq(S)
         /\ 1 \in DOMAIN q /\ Head(q) = q[1] /\ Head(q) \in S
         /\ \A i \in DOMAIN Tail(q) :
              i \in Nat /\ i + 1 \in DOMAIN q /\ i + 1 # 1 /\ Tail(q)[i] = q[i + 1]
  BY HeadTailProperties

\* The request that is served is about a place.
LEMMA PlaceType ==
  ASSUME TypeOK, req # None
  PROVE  /\ req \in Request /\ req.client \in Clients /\ req.cmd \in Commands
         /\ req.comp \in Components /\ Place \in Slots
  BY ScreenAssumption DEF TypeOK, Request, Place

\* The turn looks at a place.
LEMMA LookedType ==
  ASSUME TypeOK, place <= Len(SlotOrder)
  PROVE  place \in DOMAIN SlotOrder /\ Looked \in Slots
<1>1. Len(SlotOrder) \in Nat /\ DOMAIN SlotOrder = 1..Len(SlotOrder)
  BY ScreenAssumption, LenProperties
<1>2. place \in DOMAIN SlotOrder
  BY <1>1 DEF TypeOK
<1> QED
  BY <1>2, ScreenAssumption, ElementOfSeq, <1>1 DEF Looked

\* There is a place to look at.
LEMMA SomePlace == Len(SlotOrder) \in Nat \ {0}
<1>1. Len(SlotOrder) \in Nat /\ DOMAIN SlotOrder = 1..Len(SlotOrder)
  BY ScreenAssumption, LenProperties
<1>2. SlotOf[ZeroComponent] \in ToSet(SlotOrder)
  BY ScreenAssumption
<1>3. PICK i \in DOMAIN SlotOrder : SlotOrder[i] = SlotOf[ZeroComponent]
  BY <1>2 DEF ToSet
<1> QED BY <1>1, <1>3

----------------------------------------------------------------------------
(* Types, and who waits for whom *)

\* The Qt thread's queue holds calls.
LEMMA QueueType ==
  ASSUME ThreadsInv, Next
  PROVE  qt' \in Seq(Calls)
<1> USE DEF slots, server, timer, clients, ThreadsInv
<1>1. CASE Ensure \/ AcquireBegin \/ Layout \/ ReleaseClear
  <2>1. req # None /\ Place \in Slots
    BY <1>1, PlaceType DEF Ensure, AcquireBegin, Layout, ReleaseClear, Serving
  <2>2. UNCHANGED qt \/
        \E op \in {"ensure", "init", "update", "clear"} :
          qt' = Append(qt, [op |-> op, by |-> "uds", slot |-> Place])
    BY <1>1 DEF Ensure, AcquireBegin, Layout, ReleaseClear, UdsBlocks
  <2>3. ASSUME NEW op \in {"ensure", "init", "update", "clear"}
        PROVE  Append(qt, [op |-> op, by |-> "uds", slot |-> Place]) \in Seq(Calls)
    <3>1. [op |-> op, by |-> "uds", slot |-> Place] \in Calls
      BY <2>1 DEF Calls
    <3> QED BY <3>1, Appended DEF TypeOK
  <2> QED BY <2>2, <2>3 DEF TypeOK
<1>2. CASE QueueRefresh
  <2>1. req # None /\ Place \in Slots
    BY <1>2, PlaceType DEF QueueRefresh, Serving
  <2>2. [op |-> "refresh", by |-> "none", slot |-> Place] \in Calls
    BY <2>1 DEF Calls
  <2> QED BY <1>2, <2>2, Appended DEF TypeOK, QueueRefresh
<1>3. CASE TimerPost
  <2>1. [op |-> "clear", by |-> "alive", slot |-> Looked] \in Calls
    BY <1>3, LookedType DEF TimerPost, TurnInOrder, Calls
  <2> QED BY <1>3, <2>1, Appended DEF TypeOK, TimerPost
<1>4. CASE QtReplace \/ QtKeep \/ QtInit \/ QtUpdate \/ QtRefresh \/ QtClear
  <2>1. qt # <<>> /\ qt' = Tail(qt)
    BY <1>4 DEF QtReplace, QtKeep, QtInit, QtUpdate, QtRefresh, QtClear, QtRuns
  <2> QED BY <2>1, HeadTaken DEF TypeOK
<1>5. CASE UNCHANGED <<qt>>
  BY <1>5 DEF TypeOK
<1> QED
  BY ZenonT(30), NextCases, <1>1, <1>2, <1>3, <1>4, <1>5 DEF Accept, Refuse,
     Reply, AcquireTaken, AcquireDone, AcquireHeld, NotFound, PingFound,
     SetAlive, UpdateFound, ReleaseFound, ReleaseExpiring, TurnBegins,
     CheckState, NextPlace, LoadCounter, StoreCounter, Expire, Result, TimerClear,
     Call,
     Crash, Gone, CrashConnecting

\* The backlog holds requests of clients.
LEMMA BacklogType ==
  ASSUME ThreadsInv, Next
  PROVE  backlog' \in Seq(Request)
<1> USE DEF slots, server, timer, clients, ThreadsInv
<1>1. CASE Accept
  BY <1>1, HeadTaken DEF Accept, TypeOK
<1>2. ASSUME NEW c \in Clients, NEW cmd \in Commands, NEW k \in Components,
             Call(c, cmd, k)
      PROVE  backlog' \in Seq(Request)
  <2>1. [client |-> c, cmd |-> cmd, comp |-> k] \in Request
    BY DEF Request
  <2> QED BY <1>2, <2>1, Appended DEF TypeOK, Call
<1>3. ASSUME NEW c \in Clients, CrashConnecting(c)
      PROVE  backlog' \in Seq(Request)
  <2>1. [client |-> c, cmd |-> "ACQUIRE", comp |-> ZeroComponent] \in Request
    BY ScreenAssumption DEF Request, Commands
  <2> QED BY <1>3, <2>1, Appended DEF TypeOK, CrashConnecting
<1>4. CASE UNCHANGED <<backlog>>
  BY <1>4 DEF TypeOK
<1> QED
  BY ZenonT(30), NextCases, <1>1, <1>2, <1>3, <1>4 DEF Ensure, UdsBlocks,
     Refuse, Reply, AcquireBegin, AcquireTaken, AcquireDone, AcquireHeld,
     Layout, NotFound, PingFound, SetAlive, UpdateFound, QueueRefresh,
     ReleaseFound, ReleaseExpiring, ReleaseClear, TurnBegins, CheckState,
     NextPlace, LoadCounter, StoreCounter, Expire, Result, TimerClear, TimerPost,
     QtReplace, QtRuns, QtKeep, QtInit, QtUpdate, QtRefresh, QtClear, Crash,
     Gone

\* TypeOK, in four parts besides the queues.
TypePlaces ==
  /\ handler \in [Slots -> Components \cup {None}]
  /\ state \in [Slots -> States]
  /\ taken \in [Slots -> BOOLEAN]
  /\ alive \in [Slots -> 0..MaxAlive]
  /\ widget \in [Slots -> BOOLEAN]
  /\ labels \in [Slots -> {"null", "live", "dangling"}]
TypeThreads ==
  /\ pc \in {"accept", "ensure", "handle", "setTaken", "setAcquired", "layout",
             "setAlive", "update", "refresh", "setExpiring", "clear", "reply",
             "refuse", "blocked"}
  /\ req \in Request \cup {None}
  /\ answer \in {"ok", "error"}
  /\ at \in {"idle", "check", "load", "store", "expire", "result", "clear", "post",
             "blocked"}
  /\ place \in 1..(Len(SlotOrder) + 1)
  /\ count \in 0..MaxAlive
  /\ turns \in 0..TurnsPerRequest
TypeClients ==
  /\ held \in [Clients -> Components \cup {None}]
  /\ missed \in [Clients -> BOOLEAN]
  /\ waiting \in [Clients -> BOOLEAN]
  /\ dead \in [Clients -> BOOLEAN]
TypeHistory == overtook \in BOOLEAN /\ renewed \subseteq Slots

\* A request is under way at every label but accept.
LEMMA Serves ==
  ASSUME ThreadsInv, pc # "accept"
  PROVE  /\ req # None /\ req \in Request /\ req.client \in Clients
         /\ req.cmd \in Commands /\ req.comp \in Components
         /\ req.comp # None /\ Place \in Slots
  BY PlaceType, ScreenAssumption DEF ThreadsInv, Serving

\* A turn is under way at every label but idle.
LEMMA Looks ==
  ASSUME ThreadsInv, at # "idle"
  PROVE  /\ Looked \in Slots /\ place \in DOMAIN SlotOrder
         /\ place <= Len(SlotOrder)
  BY LookedType DEF ThreadsInv, TurnInOrder

\* An event the server waits for finds the request it was posted for; one
\* the turn waits for finds the turn.
LEMMA QtServes ==
  ASSUME ThreadsInv, qt # <<>>
  PROVE  /\ Head(qt) = qt[1] /\ 1 \in DOMAIN qt /\ QtPlace \in Slots
         /\ Head(qt).by \in {"uds", "alive", "none"}
         /\ Head(qt).by = "none" <=> Head(qt).op = "refresh"
         /\ Head(qt).by = "uds" =>
              pc = "blocked" /\ req # None /\ QtPlace = Place
         /\ Head(qt).by = "alive" =>
              Head(qt).op = "clear" /\ at = "blocked" /\ QtPlace = Looked
<1>1. Head(qt) = qt[1] /\ 1 \in DOMAIN qt /\ Head(qt) \in Calls
  BY HeadTaken DEF ThreadsInv, TypeOK
<1> QED BY <1>1 DEF ThreadsInv, EventsWaitedFor, EventsByOp, QtPlace, Calls

\* The turn goes on to a place that exists, or ends at the first.
LEMMA GoesOn ==
  ASSUME ThreadsInv, at # "idle", NextPlace
  PROVE  /\ at' \in {"idle", "check"} /\ count' = 0
         /\ place' \in 1..(Len(SlotOrder) + 1) /\ TurnInOrder'
<1>1. Len(SlotOrder) \in Nat \ {0} /\ place \in Nat \ {0} /\ place <= Len(SlotOrder)
  BY SomePlace, Looks DEF ThreadsInv, TypeOK
<1> QED BY <1>1 DEF NextPlace, TurnInOrder

\* The handlers' members keep their types.
LEMMA PlacesType ==
  ASSUME ThreadsInv, Next
  PROVE  TypePlaces'
<1> USE DEF slots, server, timer, clients, ThreadsInv, TypeOK
<1>1. CASE AcquireTaken
  BY <1>1, Serves DEF AcquireTaken, TypePlaces
<1>2. CASE AcquireDone \/ ReleaseExpiring
  BY <1>2, Serves DEF AcquireDone, ReleaseExpiring, States, TypePlaces
<1>3. CASE SetAlive
  BY <1>3, Serves, ScreenAssumption DEF SetAlive, Answer, TypePlaces
<1>4. CASE ReleaseClear
  BY <1>4, Serves, ScreenAssumption, SMTT(30) DEF ReleaseClear, UdsBlocks,
     TypePlaces
<1>5. CASE StoreCounter
  BY <1>5, Looks DEF StoreCounter, TypePlaces
<1>6. CASE Expire
  BY <1>6, Looks DEF Expire, States, TypePlaces
<1>7. CASE TimerClear
  BY <1>7, Looks, ScreenAssumption, SMTT(30) DEF TimerClear, TypePlaces
<1>8. CASE QtReplace
  <2>1. QtPlace \in Slots /\ req.comp \in Components
    BY <1>8, QtServes, Serves DEF QtReplace, QtRuns, EventsByOp, Calls
  <2> QED BY <1>8, <2>1, ScreenAssumption DEF QtReplace, States, TypePlaces
<1>9. CASE QtInit \/ QtClear
  <2>1. QtPlace \in Slots
    BY <1>9, QtServes DEF QtInit, QtClear, QtRuns
  <2>2. UNCHANGED <<handler, taken, alive>>
    BY <1>9 DEF QtInit, QtClear
  <2>3. TypePlaces
    BY DEF TypePlaces
  <2>4. CASE QtInit
    BY <2>1, <2>2, <2>3, <2>4 DEF QtInit, States, TypePlaces
  <2>5. CASE QtClear
    <3>1. state' = [state EXCEPT ![QtPlace] = "Empty"]
          /\ widget' = [widget EXCEPT ![QtPlace] = FALSE]
      BY <2>5 DEF QtClear
    <3>2. labels'[QtPlace] \in {"null", "live", "dangling"}
          /\ labels' = [labels EXCEPT ![QtPlace] = labels'[QtPlace]]
      BY <2>5, <2>1, <2>3 DEF QtClear, TypePlaces
    <3> QED BY <3>1, <3>2, <2>1, <2>2, <2>3 DEF States, TypePlaces
  <2> QED BY <1>9, <2>4, <2>5
<1>10. CASE UNCHANGED <<handler, state, taken, alive, widget, labels>>
  BY <1>10 DEF TypePlaces
<1> QED
  BY ZenonT(30), NextCases, <1>1, <1>2, <1>3, <1>4, <1>5, <1>6, <1>7, <1>8,
     <1>9, <1>10 DEF Accept, Ensure, UdsBlocks, Refuse, Reply, AcquireBegin,
     AcquireHeld, Layout, NotFound, PingFound, UpdateFound, QueueRefresh,
     ReleaseFound, TurnBegins, CheckState, NextPlace, LoadCounter, Result, TimerPost,
     QtKeep, QtRuns, QtUpdate, QtRefresh, Call, Crash, Gone, CrashConnecting

\* The threads are at their labels, and their counters within their bounds.
LEMMA ThreadsType ==
  ASSUME ThreadsInv, Next
  PROVE  TypeThreads'
<1> USE DEF slots, server, timer, clients, ThreadsInv, TypeOK
<1>1. CASE Accept
  BY <1>1, HeadTaken, ScreenAssumption DEF Accept, TypeThreads
<1>2. CASE Ensure \/ Refuse \/ Reply \/ AcquireBegin
  <2>1. CASE Ensure \/ AcquireBegin
    BY <2>1, SMTT(30) DEF Ensure, UdsBlocks, AcquireBegin, TypeThreads
  <2>2. CASE Refuse \/ Reply
    BY <2>2, ScreenAssumption, SMTT(30) DEF Refuse, Reply, TypeThreads
  <2> QED BY <1>2, <2>1, <2>2
<1>3. CASE AcquireTaken \/ AcquireDone \/ AcquireHeld \/ Layout
  BY <1>3 DEF AcquireTaken, AcquireDone, AcquireHeld, Held, Layout,
     UdsBlocks, TypeThreads
<1>4. CASE NotFound \/ PingFound \/ SetAlive \/ UpdateFound
  BY <1>4 DEF NotFound, Answer, Held, PingFound, SetAlive, UpdateFound,
     TypeThreads
<1>5. CASE QueueRefresh \/ ReleaseFound \/ ReleaseExpiring \/ ReleaseClear
  BY <1>5 DEF QueueRefresh, Answer, ReleaseFound, Held, ReleaseExpiring,
     ReleaseClear, UdsBlocks, TypeThreads
<1>6. CASE TurnBegins \/ Expire \/ StoreCounter \/ TimerClear \/ TimerPost
  BY <1>6, ScreenAssumption, SMTT(30) DEF TurnBegins, Expire, StoreCounter,
     TimerClear, TimerPost, TypeThreads
<1>7. CASE CheckState \/ Result
  <2>1. at # "idle" /\ UNCHANGED <<pc, req, answer, turns>>
    BY <1>7 DEF CheckState, Result
  <2>2. CASE NextPlace
    BY <2>1, <2>2, GoesOn, ScreenAssumption DEF TypeThreads
  <2>3. CASE at' \in {"load", "clear"} /\ UNCHANGED <<place, count>>
    BY <2>1, <2>3 DEF TypeThreads
  <2> QED BY <1>7, <2>2, <2>3 DEF CheckState, Result
<1>8. CASE LoadCounter
  BY <1>8, Looks, ScreenAssumption DEF LoadCounter, TypeThreads
<1>9. CASE QtReplace \/ QtKeep \/ QtInit \/ QtUpdate
  BY <1>9 DEF QtReplace, QtRuns, QtPlace, QtKeep, QtInit, QtUpdate, TypeThreads
<1>10. CASE QtClear
  <2>1. CASE Head(qt).by = "uds"
    BY <1>10, <2>1 DEF QtClear, TypeThreads
  <2>2. CASE Head(qt).by # "uds"
    <3>1. Head(qt).by = "alive" /\ at # "idle"
      BY <1>10, <2>2, QtServes DEF QtClear, QtRuns
    <3>2. NextPlace /\ UNCHANGED <<pc, req, answer, turns>>
      BY <1>10, <2>2 DEF QtClear
    <3> QED BY <3>1, <3>2, GoesOn, ScreenAssumption DEF TypeThreads
  <2> QED BY <2>1, <2>2
<1>11. CASE UNCHANGED <<pc, req, answer, at, place, count, turns>>
  BY <1>11 DEF TypeThreads
<1> QED
  BY ZenonT(30), NextCases, <1>1, <1>2, <1>3, <1>4, <1>5, <1>6, <1>7, <1>8,
     <1>9, <1>10, <1>11 DEF QtRefresh, QtRuns, Call, Crash, Gone,
     CrashConnecting

\* The clients' knowledge keeps its types.
LEMMA ClientsType ==
  ASSUME ThreadsInv, Next
  PROVE  TypeClients'
<1> USE DEF slots, server, timer, clients, ThreadsInv, TypeOK
<1>1. CASE Reply
  BY <1>1, Serves DEF Reply, TypeClients
<1>2. CASE Expire
  BY <1>2 DEF Expire, TypeClients
<1>3. ASSUME NEW c \in Clients, NEW cmd \in Commands, NEW k \in Components,
             Call(c, cmd, k)
      PROVE  TypeClients'
  BY <1>3 DEF Call, TypeClients
<1>4. ASSUME NEW c \in Clients, Crash(c) \/ CrashConnecting(c)
      PROVE  TypeClients'
  BY <1>4 DEF Crash, Gone, CrashConnecting, TypeClients
<1>5. CASE UNCHANGED <<held, missed, waiting, dead>>
  BY <1>5 DEF TypeClients
<1> QED
  BY ZenonT(30), NextCases, <1>1, <1>2, <1>3, <1>4, <1>5 DEF Accept, Ensure,
     UdsBlocks, Refuse, AcquireBegin, AcquireTaken, AcquireDone, AcquireHeld,
     Layout, NotFound, PingFound, SetAlive, UpdateFound, QueueRefresh,
     ReleaseFound, ReleaseExpiring, ReleaseClear, TurnBegins, CheckState,
     NextPlace, LoadCounter, StoreCounter, Result, TimerClear, TimerPost, QtReplace,
     QtRuns, QtKeep, QtInit, QtUpdate, QtRefresh, QtClear

\* What the history is made of.
LEMMA HistoryType ==
  ASSUME ThreadsInv, Next
  PROVE  TypeHistory'
<1> USE DEF ThreadsInv, TypeOK, TypeHistory
<1>1. CASE Uds
  <2>1. overtook' \in BOOLEAN
    BY <1>1 DEF Uds
  <2>2. at \in {"expire", "result"} => Looked \in Slots
    BY Looks
  <2>3. renewed' \subseteq Slots
    BY <1>1, <2>2 DEF Uds
  <2> QED BY <2>1, <2>3
<1>2. CASE Alive
  BY <1>2 DEF Alive
<1>3. CASE UNCHANGED <<overtook, renewed>>
  BY <1>3
<1> QED BY <1>1, <1>2, <1>3 DEF Next, Qt, Client

\* Every step but Accept, Refuse and Reply keeps the request, and a step to
\* or from accept is one of the three.
LEMMA ServingKept ==
  ASSUME ThreadsInv, Next
  PROVE  Serving'
<1> USE DEF slots, server, timer, clients, ThreadsInv
<1>1. CASE Accept
  <2>1. Head(backlog) \in Request /\ req' = Head(backlog) /\ pc' = "ensure"
    BY <1>1, HeadTaken DEF Accept, TypeOK
  <2>2. None \notin Request
    BY NoRequest
  <2> QED BY <2>1, <2>2 DEF Serving
<1>2. CASE Refuse \/ Reply
  BY <1>2, Serves DEF Refuse, Reply, Serving
<1>3. CASE Ensure \/ AcquireBegin \/ AcquireTaken \/ AcquireDone \/ AcquireHeld
           \/ Layout
  BY <1>3 DEF Ensure, UdsBlocks, AcquireBegin, Held, AcquireTaken,
     AcquireDone, AcquireHeld, Layout, Serving
<1>4. CASE NotFound \/ PingFound \/ SetAlive \/ UpdateFound \/ QueueRefresh
  BY <1>4 DEF NotFound, Answer, Held, PingFound, SetAlive, UpdateFound,
     QueueRefresh, Serving
<1>5. CASE ReleaseFound \/ ReleaseExpiring \/ ReleaseClear
  BY <1>5 DEF ReleaseFound, Held, ReleaseExpiring, ReleaseClear,
     UdsBlocks, Serving
<1>6. CASE QtReplace \/ QtKeep \/ QtInit \/ QtUpdate
  <2>1. Head(qt).by = "uds" /\ pc = "blocked" /\ UNCHANGED req
    BY <1>6, QtServes DEF QtReplace, QtKeep, QtInit, QtUpdate, QtRuns, EventsByOp, Calls
  <2> QED BY <1>6, <2>1 DEF QtReplace, QtKeep, QtInit, QtUpdate, Serving
<1>7. CASE QtClear
  BY <1>7, QtServes DEF QtClear, NextPlace, QtRuns, QtPlace, Serving
<1>8. CASE UNCHANGED <<pc, req>>
  BY <1>8 DEF Serving
<1> QED
  BY ZenonT(30), NextCases, <1>1, <1>2, <1>3, <1>4, <1>5, <1>6, <1>7, <1>8 DEF
     TurnBegins, CheckState, NextPlace, LoadCounter, StoreCounter, Expire,
     Result, TimerClear, TimerPost, QtRefresh, QtRuns, Call, Crash, Gone, CrashConnecting

\* A turn goes through the places in order.
LEMMA TurnKept ==
  ASSUME ThreadsInv, Next
  PROVE  TurnInOrder'
<1> USE DEF slots, server, timer, clients, ThreadsInv
<1>1. CASE TurnBegins
  BY <1>1, SomePlace DEF TurnBegins, TurnInOrder
<1>2. CASE CheckState \/ Result
  <2>1. at # "idle"
    BY <1>2 DEF CheckState, Result
  <2>2. CASE NextPlace
    BY <2>1, <2>2, GoesOn
  <2>3. CASE at' \in {"load", "clear"} /\ UNCHANGED place
    BY <2>1, <2>3 DEF TurnInOrder
  <2> QED BY <1>2, <2>2, <2>3 DEF CheckState, Result
<1>3. CASE LoadCounter \/ StoreCounter \/ Expire \/ TimerClear \/ TimerPost
  BY <1>3 DEF LoadCounter, StoreCounter, Expire, TimerClear, TimerPost, TurnInOrder
<1>4. CASE QtClear
  <2>1. CASE Head(qt).by = "uds"
    BY <1>4, <2>1 DEF QtClear, TurnInOrder
  <2>2. CASE Head(qt).by # "uds"
    <3>1. Head(qt).by = "alive" /\ at # "idle"
      BY <1>4, <2>2, QtServes DEF QtClear, QtRuns
    <3> QED BY <1>4, <2>2, <3>1, GoesOn DEF QtClear
  <2> QED BY <2>1, <2>2
<1>5. CASE UNCHANGED <<at, place>>
  BY <1>5 DEF TurnInOrder
<1> QED
  BY ZenonT(30), NextCases, <1>1, <1>2, <1>3, <1>4, <1>5 DEF Accept, Ensure,
     UdsBlocks, Refuse, Reply, AcquireBegin, AcquireTaken, AcquireDone,
     AcquireHeld, Layout, NotFound, PingFound, SetAlive, UpdateFound,
     QueueRefresh, ReleaseFound, ReleaseExpiring, ReleaseClear, QtReplace,
     QtRuns, QtKeep, QtInit, QtUpdate, QtRefresh, Call, Crash, Gone,
     CrashConnecting

\* How a step changes the queue: it posts one event, for the thread that
\* takes the step, or it takes the head, or it leaves the queue alone.
Posts(op, by, s) == qt' = Append(qt, [op |-> op, by |-> by, slot |-> s])
Takes == qt # <<>> /\ qt' = Tail(qt)

\* The queue after an event was posted.
LEMMA AfterPost ==
  ASSUME ThreadsInv, NEW op, NEW by, NEW s,
         [op |-> op, by |-> by, slot |-> s] \in Calls, Posts(op, by, s)
  PROVE  \A i \in DOMAIN qt' :
           \/ i \in DOMAIN qt /\ qt'[i] = qt[i]
           \/ /\ i = Len(qt) + 1 /\ i \notin DOMAIN qt
              /\ qt'[i].op = op /\ qt'[i].by = by /\ qt'[i].slot = s
<1> DEFINE e == [op |-> op, by |-> by, slot |-> s]
<1>1. qt \in Seq(Calls) /\ e \in Calls /\ qt' = Append(qt, e)
  BY DEF ThreadsInv, TypeOK, Posts
<1>2. e.op = op /\ e.by = by /\ e.slot = s
  OBVIOUS
<1> HIDE DEF e
<1> QED BY <1>1, <1>2, Appended

\* The queue after its head was taken.
LEMMA AfterTake ==
  ASSUME ThreadsInv, Takes
  PROVE  \A i \in DOMAIN qt' :
           i \in Nat /\ i + 1 \in DOMAIN qt /\ i + 1 # 1 /\ qt'[i] = qt[i + 1]
  BY HeadTaken DEF ThreadsInv, TypeOK, Takes

\* What each step of the three threads does to the queue.
LEMMA QueueSteps ==
  ASSUME ThreadsInv, Next
  PROVE  \/ UNCHANGED qt
         \/ /\ pc # "blocked" /\ pc' = "blocked" /\ req # None
            /\ UNCHANGED <<req, at, place>>
            /\ Place \in Slots
            /\ \E op \in {"ensure", "init", "update", "clear"} :
                 Posts(op, "uds", Place)
         \/ /\ pc = "refresh" /\ pc' = "reply" /\ UNCHANGED <<req, at, place>>
            /\ Place \in Slots /\ Posts("refresh", "none", Place)
         \/ /\ at = "post" /\ at' = "blocked" /\ UNCHANGED <<pc, req, place>>
            /\ Looked \in Slots /\ Posts("clear", "alive", Looked)
         \/ QtStep
<1> USE DEF slots, server, timer, clients
<1>1. CASE Ensure \/ AcquireBegin \/ Layout \/ ReleaseClear
  BY <1>1, Serves DEF Ensure, AcquireBegin, Layout, ReleaseClear, UdsBlocks, Posts
<1>2. CASE QueueRefresh
  BY <1>2, Serves DEF QueueRefresh, Answer, Posts
<1>3. CASE TimerPost
  BY <1>3, Looks DEF TimerPost, Posts
<1>4. CASE QtStep
  BY <1>4
<1>5. CASE UNCHANGED qt
  BY <1>5
<1> QED
  BY ZenonT(30), NextCases, <1>1, <1>2, <1>3, <1>4, <1>5 DEF QtStep, Accept,
     Refuse, Reply, AcquireTaken, AcquireDone, AcquireHeld, NotFound,
     PingFound, SetAlive, UpdateFound, ReleaseFound, ReleaseExpiring,
     TurnBegins, CheckState, LoadCounter, StoreCounter, Expire, Result, TimerClear, Call,
     Crash, CrashConnecting

\* What a step that leaves the queue alone does to the threads that wait.
LEMMA QuietSteps ==
  ASSUME ThreadsInv, Next, UNCHANGED qt
  PROVE  /\ pc = "blocked" => UNCHANGED <<pc, req>>
         /\ at = "blocked" => UNCHANGED <<at, place>>
         /\ UNCHANGED <<pc, req>> \/ UNCHANGED <<at, place>>
<1> USE DEF slots, server, timer, clients
<1>1. qt # <<>> => qt # Tail(qt)
  BY HeadTaken, LenProperties, HeadTailProperties DEF ThreadsInv, TypeOK
<1>2. CASE QtStep
  BY <1>1, <1>2 DEF QtStep, QtReplace, QtKeep, QtInit, QtUpdate, QtRefresh,
     QtClear, QtRuns
<1>3. CASE UdsStep
  BY <1>3 DEF UdsStep, Accept, Ensure, UdsBlocks, Refuse, Reply,
     AcquireBegin, AcquireTaken, AcquireDone, AcquireHeld, Layout, NotFound,
     PingFound, SetAlive, UpdateFound, QueueRefresh, ReleaseFound,
     ReleaseExpiring, ReleaseClear
<1>4. CASE AliveStep
  BY <1>4 DEF AliveStep, TurnBegins, CheckState, LoadCounter, StoreCounter,
     Expire, Result, TimerClear, TimerPost
<1>5. ASSUME NEW c \in Clients, ClientStep(c)
      PROVE  UNCHANGED <<pc, req, at, place>>
  BY <1>5 DEF ClientStep, Call, Crash, CrashConnecting
<1> QED BY <1>2, <1>3, <1>4, <1>5 DEF Next, Uds, Alive,
  Qt, Client

\* What the Qt thread does to the thread that waits for it.
LEMMA TakingSteps ==
  ASSUME ThreadsInv, QtStep
  PROVE  /\ Takes /\ UNCHANGED req
         /\ Head(qt).by # "uds" => UNCHANGED pc
         /\ Head(qt).by # "alive" => UNCHANGED <<at, place>>
<1> USE DEF slots, server, timer, clients
<1>1. Takes /\ UNCHANGED req
  BY DEF QtStep, QtReplace, QtKeep, QtInit, QtUpdate, QtRefresh, QtClear, QtRuns,
     Takes
<1>2. CASE QtReplace \/ QtKeep \/ QtInit \/ QtUpdate
  BY <1>1, <1>2, QtServes DEF QtReplace, QtKeep, QtInit, QtUpdate, QtRuns
<1>3. CASE QtRefresh
  BY <1>1, <1>3 DEF QtRefresh
<1>4. CASE QtClear
  BY <1>1, <1>4, QtServes DEF QtClear, QtRuns
<1> QED BY <1>1, <1>2, <1>3, <1>4 DEF QtStep

\* An event is one that its thread may post.
LEMMA EventsByOpKept ==
  ASSUME ThreadsInv, Next
  PROVE  EventsByOp'
<1>1. ASSUME NEW op, NEW by, NEW s, Posts(op, by, s),
             [op |-> op, by |-> by, slot |-> s] \in Calls,
             by = "none" <=> op = "refresh", by = "alive" => op = "clear"
      PROVE  EventsByOp'
  BY <1>1, AfterPost DEF ThreadsInv, EventsByOp
<1>2. CASE QtStep
  BY <1>2, TakingSteps, AfterTake DEF ThreadsInv, EventsByOp
<1>3. CASE UNCHANGED qt
  BY <1>3 DEF ThreadsInv, EventsByOp
<1>4. ASSUME NEW op \in {"ensure", "init", "update", "clear"}, Place \in Slots,
             Posts(op, "uds", Place)
      PROVE  EventsByOp'
  <2>1. [op |-> op, by |-> "uds", slot |-> Place] \in Calls
    BY <1>4 DEF Calls
  <2> QED BY <1>1, <1>4, <2>1
<1>5. ASSUME Place \in Slots, Posts("refresh", "none", Place)
      PROVE  EventsByOp'
  <2>1. [op |-> "refresh", by |-> "none", slot |-> Place] \in Calls
    BY <1>5 DEF Calls
  <2> QED BY <1>1, <1>5, <2>1
<1>6. ASSUME Looked \in Slots, Posts("clear", "alive", Looked)
      PROVE  EventsByOp'
  <2>1. [op |-> "clear", by |-> "alive", slot |-> Looked] \in Calls
    BY <1>6 DEF Calls
  <2> QED BY <1>1, <1>6, <2>1
<1> QED BY QueueSteps, <1>2, <1>3, <1>4, <1>5, <1>6

\* A thread that waits has one event in the queue, and nobody moves it on
\* before the Qt thread has taken that event.
LEMMA EventsWaitedForKept ==
  ASSUME ThreadsInv, Next
  PROVE  EventsWaitedFor'
<1> USE DEF EventsWaitedFor
<1>1. CASE UNCHANGED qt
  <2>1. \A i \in DOMAIN qt : qt[i].by = "uds" => UNCHANGED Place /\ req' # None
    BY <1>1, QuietSteps DEF ThreadsInv, Place
  <2>2. \A i \in DOMAIN qt : qt[i].by = "alive" => UNCHANGED Looked
    BY <1>1, QuietSteps DEF ThreadsInv, Looked
  <2> QED BY <1>1, <2>1, <2>2, QuietSteps DEF ThreadsInv
<1>2. ASSUME NEW op \in {"ensure", "init", "update", "clear"},
             Place \in Slots, Posts(op, "uds", Place),
             pc # "blocked", pc' = "blocked", req # None,
             UNCHANGED <<req, at, place>>
      PROVE  EventsWaitedFor'
  <2>1. [op |-> op, by |-> "uds", slot |-> Place] \in Calls
    BY <1>2 DEF Calls
  <2>2. UNCHANGED <<Place, Looked>> /\ req' # None
    BY <1>2 DEF Place, Looked
  <2> QED BY <1>2, <2>1, <2>2, AfterPost DEF ThreadsInv
<1>3. ASSUME Place \in Slots, Posts("refresh", "none", Place),
             pc = "refresh", UNCHANGED <<req, at, place>>
      PROVE  EventsWaitedFor'
  <2>1. [op |-> "refresh", by |-> "none", slot |-> Place] \in Calls
    BY <1>3 DEF Calls
  <2>2. UNCHANGED <<Place, Looked>>
    BY <1>3 DEF Place, Looked
  <2> QED BY <1>3, <2>1, <2>2, AfterPost DEF ThreadsInv
<1>4. ASSUME Looked \in Slots, Posts("clear", "alive", Looked),
             at = "post", at' = "blocked", UNCHANGED <<pc, req, place>>
      PROVE  EventsWaitedFor'
  <2>1. [op |-> "clear", by |-> "alive", slot |-> Looked] \in Calls
    BY <1>4 DEF Calls
  <2>2. UNCHANGED <<Place, Looked>>
    BY <1>4 DEF Place, Looked
  <2> QED BY <1>4, <2>1, <2>2, AfterPost DEF ThreadsInv
<1>5. CASE QtStep
  <2>1. qt # <<>> /\ UNCHANGED Place
    BY <1>5, TakingSteps DEF Takes, Place
  <2>2. \A i \in DOMAIN qt' : i + 1 \in DOMAIN qt /\ i + 1 # 1 /\ qt'[i] = qt[i + 1]
    BY <1>5, TakingSteps, AfterTake
  <2>3. \A i \in DOMAIN qt' :
          qt'[i].by = "uds" => UNCHANGED pc
    BY <1>5, <2>1, <2>2, TakingSteps, QtServes DEF ThreadsInv
  <2>4. \A i \in DOMAIN qt' :
          qt'[i].by = "alive" => UNCHANGED <<at, Looked>>
    BY <1>5, <2>1, <2>2, TakingSteps, QtServes DEF ThreadsInv, Looked
  <2>5. \A i, j \in DOMAIN qt' : i \in Nat /\ j \in Nat
    BY <1>5, TakingSteps, AfterTake
  <2> QED
    BY <1>5, <2>1, <2>2, <2>3, <2>4, <2>5, TakingSteps DEF ThreadsInv
<1> QED BY QueueSteps, <1>1, <1>2, <1>3, <1>4, <1>5

\* What the threads wait for is inductive.
LEMMA ThreadsInvInductive ==
  /\ Init => ThreadsInv
  /\ ThreadsInv /\ [Next]_vars => ThreadsInv'
<1>1. ASSUME Init
      PROVE  ThreadsInv
  <2>1. TypePlaces
    BY <1>1, ScreenAssumption DEF Init, TypePlaces, States
  <2>2. TypeThreads /\ qt \in Seq(Calls) /\ backlog \in Seq(Request)
    BY <1>1, SomePlace, ScreenAssumption DEF Init, TypeThreads
  <2>3. TypeClients
    BY <1>1 DEF Init, TypeClients
  <2>4. TypeHistory
    BY <1>1 DEF Init, TypeHistory
  <2>5. TypeOK
    BY <2>1, <2>2, <2>3, <2>4 DEF TypePlaces, TypeThreads, TypeClients,
       TypeHistory, TypeOK
  <2> QED
    BY <1>1, <2>5 DEF Init, ThreadsInv, Serving, TurnInOrder,
       EventsWaitedFor, EventsByOp
<1>2. ASSUME ThreadsInv, Next
      PROVE  ThreadsInv'
  <2>1. TypeOK'
    BY <1>2, PlacesType, ThreadsType, ClientsType, HistoryType, QueueType,
       BacklogType DEF TypeOK, TypePlaces, TypeThreads, TypeClients, TypeHistory
  <2> QED
    BY <1>2, <2>1, ServingKept, TurnKept, EventsWaitedForKept, EventsByOpKept
       DEF ThreadsInv
<1>3. ASSUME ThreadsInv, UNCHANGED vars
      PROVE  ThreadsInv'
  <2> USE DEF vars, slots, server, timer, clients
  <2>1. TypeOK'
    BY <1>3 DEF ThreadsInv, TypeOK
  <2>2. UNCHANGED <<Place, Looked>>
    BY <1>3 DEF Place, Looked
  <2>3. Serving' /\ TurnInOrder'
    BY <1>3 DEF ThreadsInv, Serving, TurnInOrder
  <2>4. EventsWaitedFor' /\ EventsByOp'
    BY <1>3, <2>2 DEF ThreadsInv, EventsWaitedFor, EventsByOp
  <2> QED BY <2>1, <2>3, <2>4 DEF ThreadsInv
<1> QED BY <1>1, <1>2, <1>3

\* The handlers, the threads and the queue hold what they are meant to hold,
\* however they interleave: the counter stays between zero and its maximum
\* although it is decremented in two steps, and no turn looks beyond the last
\* place.
THEOREM TypeOKIsInvariant == Spec => []TypeOK
<1>1. ThreadsInv => TypeOK
  BY DEF ThreadsInv
<1> QED BY <1>1, ThreadsInvInductive, PTL DEF Spec

\* Nobody waits for an event that another thread posted, and no thread has two
\* events in the queue: a thread that the Qt thread moves on is the one that
\* waits for the event that was taken.
THEOREM EventsWaitedForIsInvariant == Spec => [](EventsWaitedFor /\ EventsByOp)
<1>1. ThreadsInv => EventsWaitedFor /\ EventsByOp
  BY DEF ThreadsInv
<1> QED BY <1>1, ThreadsInvInductive, PTL DEF Spec

\* What is in the queue stays there when another event is posted.
LEMMA PostedKept ==
  ASSUME TypeOK, NEW e \in Calls, qt' = Append(qt, e), NEW who, Posted(who)
  PROVE  Posted(who)'
<1>1. qt \in Seq(Calls)
  BY DEF TypeOK
<1>2. \A i \in DOMAIN qt : i \in DOMAIN qt' /\ qt'[i] = qt[i]
  BY <1>1, AppendProperties
<1> QED BY <1>2 DEF Posted

\* A thread that posts an event has one in the queue.
LEMMA PostedNow ==
  ASSUME TypeOK, NEW e \in Calls, qt' = Append(qt, e)
  PROVE  Posted(e.by)'
<1>1. qt \in Seq(Calls)
  BY DEF TypeOK
<1>2. Len(qt) + 1 \in DOMAIN qt' /\ qt'[Len(qt) + 1] = e
  BY <1>1, AppendProperties
<1> QED BY <1>2 DEF Posted

\* What is in the queue stays there when an event of somebody else is taken.
LEMMA PostedBehind ==
  ASSUME TypeOK, qt # <<>>, qt' = Tail(qt), NEW who, Posted(who),
         Head(qt).by # who
  PROVE  Posted(who)'
<1>1. qt \in Seq(Calls)
  BY DEF TypeOK
<1>2. PICK i \in DOMAIN qt : qt[i].by = who
  BY DEF Posted
<1>3. i \in 1..Len(qt) /\ i # 1 /\ Len(qt) \in Nat
  BY <1>1, <1>2, HeadTailProperties
<1>4. i - 1 \in 1..Len(Tail(qt)) /\ DOMAIN Tail(qt) = 1..Len(Tail(qt))
  BY <1>1, <1>3, HeadTailProperties
<1>5. Tail(qt)[i - 1] = qt[i]
  BY <1>1, <1>3, <1>4, HeadTailProperties
<1> QED BY <1>2, <1>4, <1>5 DEF Posted

\* A thread that blocks has posted its event, and is moved on by the step of
\* the Qt thread that takes it.
LEMMA BlockedStep ==
  ASSUME ThreadsInv, BlockedHasEvent, Next
  PROVE  BlockedHasEvent'
<1> USE DEF slots, server, timer, clients, ThreadsInv
<1>1. CASE Ensure \/ AcquireBegin \/ Layout \/ ReleaseClear
  <2>1. req # None /\ Place \in Slots
    BY <1>1, PlaceType DEF Ensure, AcquireBegin, Layout, ReleaseClear, Serving
  <2>2. /\ at' = at
        /\ \/ UNCHANGED qt /\ pc' = "handle"
           \/ \E op \in {"ensure", "init", "update", "clear"} :
                qt' = Append(qt, [op |-> op, by |-> "uds", slot |-> Place])
    BY <1>1 DEF Ensure, AcquireBegin, Layout, ReleaseClear, UdsBlocks
  <2>3. CASE UNCHANGED qt /\ pc' = "handle"
    BY <2>2, <2>3 DEF BlockedHasEvent, Posted
  <2>4. ASSUME NEW op \in {"ensure", "init", "update", "clear"},
               qt' = Append(qt, [op |-> op, by |-> "uds", slot |-> Place])
        PROVE  BlockedHasEvent'
    <3>1. [op |-> op, by |-> "uds", slot |-> Place] \in Calls
      BY <2>1 DEF Calls
    <3>2. Posted("uds")'
      BY <2>4, <3>1, PostedNow
    <3>3. Posted("alive") => Posted("alive")'
      BY <2>4, <3>1, PostedKept
    <3> QED BY <2>2, <3>2, <3>3 DEF BlockedHasEvent
  <2> QED BY <2>2, <2>3, <2>4
<1>2. CASE QueueRefresh
  <2>1. req # None /\ Place \in Slots
    BY <1>2, PlaceType DEF QueueRefresh, Serving
  <2>2. [op |-> "refresh", by |-> "none", slot |-> Place] \in Calls
    BY <2>1 DEF Calls
  <2>3. Posted("alive") => Posted("alive")'
    BY <1>2, <2>2, PostedKept DEF QueueRefresh
  <2> QED BY <1>2, <2>3 DEF BlockedHasEvent, QueueRefresh, Answer
<1>3. CASE TimerPost
  <2>1. [op |-> "clear", by |-> "alive", slot |-> Looked] \in Calls
    BY <1>3, LookedType DEF TimerPost, TurnInOrder, Calls
  <2>2. Posted("alive")'
    BY <1>3, <2>1, PostedNow DEF TimerPost
  <2>3. Posted("uds") => Posted("uds")'
    BY <1>3, <2>1, PostedKept DEF TimerPost
  <2> QED BY <1>3, <2>2, <2>3 DEF BlockedHasEvent, TimerPost
<1>4. CASE QtReplace \/ QtKeep \/ QtInit \/ QtUpdate \/ QtRefresh \/ QtClear
  <2>1. qt # <<>> /\ qt' = Tail(qt)
    BY <1>4 DEF QtReplace, QtKeep, QtInit, QtUpdate, QtRefresh, QtClear, QtRuns
  <2>2. 1 \in DOMAIN qt /\ Head(qt) = qt[1] /\ Head(qt) \in Calls
    BY <2>1, HeadTaken DEF TypeOK
  <2>3. /\ Head(qt).by # "uds" => pc' = pc
        /\ Head(qt).by # "alive" => at' = at
        /\ Head(qt).by = "uds" => pc' # "blocked"
        /\ Head(qt).by = "alive" => at' # "blocked"
    BY <1>4, <2>2 DEF EventsByOp, Calls, QtReplace, QtKeep, QtInit, QtUpdate,
       QtRefresh, QtClear, QtRuns, NextPlace
  <2>4. /\ Head(qt).by # "uds" /\ Posted("uds") => Posted("uds")'
        /\ Head(qt).by # "alive" /\ Posted("alive") => Posted("alive")'
    BY <2>1, PostedBehind
  <2> QED BY <2>3, <2>4 DEF BlockedHasEvent
<1>5. CASE /\ qt' = qt
           /\ pc' = pc \/ pc' # "blocked"
           /\ at' = at \/ at' # "blocked"
  BY <1>5 DEF BlockedHasEvent, Posted
<1> QED
  BY ZenonT(30), NextCases, <1>1, <1>2, <1>3, <1>4, <1>5 DEF Accept, Refuse,
     Reply, AcquireTaken, AcquireDone, AcquireHeld, NotFound, PingFound, Answer,
     SetAlive, UpdateFound, ReleaseFound, ReleaseExpiring, TurnBegins,
     CheckState, NextPlace, LoadCounter, StoreCounter, Expire, Result, TimerClear, Call,
     Crash, Gone, CrashConnecting

\* Nobody waits in vain: the event that the server thread or the alive timer
\* waits for is in the queue of the Qt thread, which waits for nobody.
THEOREM NobodyWaitsInVain == Spec => []BlockedHasEvent
<1>1. Init => BlockedHasEvent
  BY DEF Init, BlockedHasEvent
<1>2. (ThreadsInv /\ BlockedHasEvent) /\ [Next]_vars
        => (ThreadsInv /\ BlockedHasEvent)'
  <2>1. ASSUME ThreadsInv, BlockedHasEvent, UNCHANGED vars
        PROVE  BlockedHasEvent'
    BY <2>1 DEF vars, slots, server, timer, clients, BlockedHasEvent, Posted
  <2> QED BY <2>1, BlockedStep, ThreadsInvInductive
<1> QED BY <1>1, <1>2, ThreadsInvInductive, PTL DEF Spec

\* Where the events of the next state come from.  While one that is waited for
\* stays in the queue, the thread that posted it stays where it is.
LEMMA EventsFrom ==
  ASSUME ThreadsInv, Next, NEW i \in DOMAIN qt'
  PROVE
    \/ /\ \E j \in DOMAIN qt : qt'[i] = qt[j]
       /\ qt'[i].by = "uds" => pc = "blocked" /\ UNCHANGED <<pc, req>>
       /\ qt'[i].by = "alive" => at = "blocked" /\ UNCHANGED <<at, place>>
    \/ /\ qt'[i].by = "uds" /\ qt'[i].slot = Place /\ pc' = "blocked"
       /\ \/ qt'[i].op = "ensure" /\ pc = "ensure"
          \/ /\ qt'[i].op = "init" /\ pc = "handle"
             /\ req.cmd = "ACQUIRE" /\ ~Held
          \/ qt'[i].op = "update" /\ pc = "layout"
          \/ qt'[i].op = "clear" /\ pc = "clear"
    \/ /\ qt'[i].by = "none" /\ qt'[i].slot = Place /\ qt'[i].op = "refresh"
       /\ pc = "refresh" /\ pc' = "reply"
    \/ /\ qt'[i].by = "alive" /\ qt'[i].slot = Looked /\ qt'[i].op = "clear"
       /\ at = "post" /\ at' = "blocked"
<1> USE DEF slots, server, timer, clients
<1>1. CASE UNCHANGED qt
  BY <1>1, QuietSteps DEF ThreadsInv, EventsWaitedFor
<1>2. CASE Ensure
  <2>1. CASE handler[Place] = req.comp
    BY <1>1, <1>2, <2>1 DEF Ensure
  <2>2. pc = "ensure" /\ Place \in Slots
    BY <1>2, Serves DEF Ensure
  <2>3. [op |-> "ensure", by |-> "uds", slot |-> Place] \in Calls
    BY <2>2 DEF Calls
  <2>4. CASE handler[Place] # req.comp
    <3>1. Posts("ensure", "uds", Place) /\ pc' = "blocked"
          /\ UNCHANGED <<at, place>>
      BY <1>2, <2>4 DEF Ensure, UdsBlocks, Posts
    <3> QED
      BY <2>2, <2>3, <3>1, AfterPost DEF ThreadsInv, EventsWaitedFor
  <2> QED BY <2>1, <2>4
<1>3. CASE AcquireBegin
  <2>1. Posts("init", "uds", Place) /\ pc' = "blocked"
    BY <1>3 DEF AcquireBegin, UdsBlocks, Posts
  <2>2. pc = "handle" /\ req.cmd = "ACQUIRE" /\ ~Held
    BY <1>3 DEF AcquireBegin
  <2>3. [op |-> "init", by |-> "uds", slot |-> Place] \in Calls
    BY <2>2, Serves DEF Calls
  <2>4. UNCHANGED <<at, place>>
    BY <1>3 DEF AcquireBegin
  <2> QED
    BY <2>1, <2>2, <2>3, <2>4, AfterPost DEF ThreadsInv, EventsWaitedFor
<1>4. CASE Layout
  <2>1. Posts("update", "uds", Place) /\ pc' = "blocked"
    BY <1>4 DEF Layout, UdsBlocks, Posts
  <2>2. pc = "layout"
    BY <1>4 DEF Layout
  <2>3. [op |-> "update", by |-> "uds", slot |-> Place] \in Calls
    BY <2>2, Serves DEF Calls
  <2>4. UNCHANGED <<at, place>>
    BY <1>4 DEF Layout
  <2> QED
    BY <2>1, <2>2, <2>3, <2>4, AfterPost DEF ThreadsInv, EventsWaitedFor
<1>5. CASE ReleaseClear
  <2>1. Posts("clear", "uds", Place) /\ pc' = "blocked"
    BY <1>5 DEF ReleaseClear, UdsBlocks, Posts
  <2>2. pc = "clear"
    BY <1>5 DEF ReleaseClear
  <2>3. [op |-> "clear", by |-> "uds", slot |-> Place] \in Calls
    BY <2>2, Serves DEF Calls
  <2>4. UNCHANGED <<at, place>>
    BY <1>5 DEF ReleaseClear
  <2> QED
    BY <2>1, <2>2, <2>3, <2>4, AfterPost DEF ThreadsInv, EventsWaitedFor
<1>6. CASE QueueRefresh
  <2>1. Posts("refresh", "none", Place) /\ pc = "refresh" /\ pc' = "reply"
    BY <1>6 DEF QueueRefresh, Answer, Posts
  <2>2. [op |-> "refresh", by |-> "none", slot |-> Place] \in Calls
    BY <2>1, Serves DEF Calls
  <2>3. UNCHANGED <<at, place>>
    BY <1>6 DEF QueueRefresh
  <2> QED
    BY <2>1, <2>2, <2>3, AfterPost DEF ThreadsInv, EventsWaitedFor
<1>7. CASE TimerPost
  <2>1. Posts("clear", "alive", Looked) /\ at = "post" /\ at' = "blocked"
    BY <1>7 DEF TimerPost, Posts
  <2>2. [op |-> "clear", by |-> "alive", slot |-> Looked] \in Calls
    BY <2>1, Looks DEF Calls
  <2>3. UNCHANGED <<pc, req>>
    BY <1>7 DEF TimerPost
  <2> QED
    BY <2>1, <2>2, <2>3, AfterPost DEF ThreadsInv, EventsWaitedFor
<1>8. CASE QtStep
  <2>1. qt # <<>> /\ i + 1 \in DOMAIN qt /\ i + 1 # 1 /\ qt'[i] = qt[i + 1]
    BY <1>8, TakingSteps, AfterTake DEF Takes
  <2>2. qt'[i].by \in {"uds", "alive"} => Head(qt).by # qt'[i].by
    BY <2>1, QtServes DEF ThreadsInv, EventsWaitedFor
  <2> QED
    BY <1>8, <2>1, <2>2, TakingSteps DEF ThreadsInv, EventsWaitedFor
<1> QED
  BY ZenonT(30), NextCases, <1>1, <1>2, <1>3, <1>4, <1>5, <1>6, <1>7, <1>8
     DEF QtStep, Accept, Refuse, Reply, AcquireTaken, AcquireDone, AcquireHeld,
     NotFound, PingFound, SetAlive, UpdateFound, ReleaseFound,
     ReleaseExpiring, TurnBegins, CheckState, LoadCounter, StoreCounter,
     Expire, Result, TimerClear, Call, Crash, CrashConnecting

----------------------------------------------------------------------------
(* Requests, loans and who clears a place *)

\* Who moves the server thread: itself, or the Qt thread when it waits.
LEMMA ServerMoves ==
  ASSUME ThreadsInv, Next
  PROVE  \/ UNCHANGED <<pc, req, answer>>
         \/ UdsStep
         \/ QtStep /\ Head(qt).by = "uds" /\ pc = "blocked" /\ UNCHANGED <<req, answer>>
<1> USE DEF slots, server, timer, clients
<1>1. CASE QtStep
  <2>1. UNCHANGED answer /\ qt # <<>>
    BY <1>1 DEF QtStep, QtReplace, QtKeep, QtInit, QtUpdate, QtRefresh, QtClear,
       QtRuns
  <2> QED BY <1>1, <2>1, TakingSteps, QtServes
<1>2. CASE UNCHANGED <<pc, req, answer>>
  BY <1>2
<1>3. CASE UdsStep
  BY <1>3
<1> QED
  BY ZenonT(30), <1>1, <1>2, <1>3 DEF Next, Uds, Alive, Qt, Client, AliveStep, ClientStep,
     TurnBegins, CheckState, LoadCounter, StoreCounter, Expire, Result,
     TimerClear, TimerPost, Call, Crash, CrashConnecting

\* All but the refresh and the turn's clear are done for the server thread.
LEMMA QtForServer ==
  ASSUME ThreadsInv,
         \/ QtReplace \/ QtKeep \/ QtInit \/ QtUpdate
         \/ QtClear /\ Head(qt).by = "uds"
  PROVE  /\ qt # <<>> /\ Head(qt) = qt[1] /\ 1 \in DOMAIN qt
         /\ Head(qt).by = "uds" /\ pc = "blocked" /\ req # None
         /\ QtPlace = Place /\ Place \in Slots /\ QtPlace \in Slots
<1>1. /\ qt # <<>>
      /\ Head(qt).op \in {"ensure", "init", "update"} \/ Head(qt).by = "uds"
  BY DEF QtReplace, QtKeep, QtInit, QtUpdate, QtClear, QtRuns
<1> QED BY <1>1, QtServes

\* The turn's clear.
LEMMA QtForTurn ==
  ASSUME ThreadsInv, QtClear, Head(qt).by # "uds"
  PROVE  /\ qt # <<>> /\ Head(qt) = qt[1] /\ 1 \in DOMAIN qt
         /\ Head(qt).by = "alive" /\ at = "blocked" /\ UNCHANGED <<pc, req>>
         /\ QtPlace = Looked /\ QtPlace \in Slots /\ Looked \in Slots
         /\ at' \in {"idle", "check"} /\ count' = 0
<1> USE DEF server
<1>1. qt # <<>> /\ Head(qt).op = "clear"
  BY DEF QtClear, QtRuns
<1>2. NextPlace /\ UNCHANGED <<pc, req>>
  BY DEF QtClear
<1> QED BY <1>1, <1>2, QtServes, GoesOn

\* The handler of a request that passed ensure stays at its place: only the
\* server thread's own ensure replaces it.
LEMMA EnsuredKept ==
  ASSUME ThreadsInv, Ensured, Next
  PROVE  Ensured'
<1> USE DEF slots, server, timer, clients
<1>1. CASE Accept \/ Refuse \/ Reply \/ Ensure
  BY <1>1, EventsFrom DEF Accept, Refuse, Reply, Ensure, UdsBlocks,
     Ensured, Place
<1>2. CASE AcquireTaken \/ AcquireDone \/ AcquireHeld \/ NotFound \/ PingFound
  BY <1>2, EventsFrom DEF AcquireTaken, AcquireDone, AcquireHeld, Held,
     NotFound, Answer, PingFound, Ensured, Place
<1>3. CASE SetAlive \/ UpdateFound \/ ReleaseFound \/ ReleaseExpiring
  BY <1>3, EventsFrom DEF SetAlive, Answer, UpdateFound, Held,
     ReleaseFound, ReleaseExpiring, Ensured, Place
<1>4. CASE AcquireBegin \/ Layout \/ ReleaseClear \/ QueueRefresh
  BY <1>4, EventsFrom DEF AcquireBegin, UdsBlocks, Held, Layout,
     ReleaseClear, QueueRefresh, Answer, Ensured, Place
<1>5. CASE QtReplace
  <2>1. QtPlace = Place /\ Place \in Slots
    BY <1>5, QtForServer
  <2>2. pc' = "handle" /\ UNCHANGED <<req, Place>> /\ handler'[Place] = req.comp
    BY <1>5, <2>1 DEF QtReplace, ThreadsInv, TypeOK, Place
  <2> QED BY <2>2, EventsFrom DEF Ensured
<1>6. CASE QtKeep \/ QtInit \/ QtUpdate
  BY <1>6, QtForServer, EventsFrom DEF QtKeep, QtRuns, QtPlace, QtInit,
     QtUpdate, Ensured, Place
<1>7. CASE QtRefresh
  BY <1>7, EventsFrom DEF QtRefresh, QtRuns, Ensured, Place
<1>8. CASE QtClear
  BY <1>8, QtForServer, QtForTurn, EventsFrom DEF QtClear, NextPlace, QtRuns,
     QtPlace, Ensured, Place
<1>9. CASE UNCHANGED <<handler, pc, req>>
  BY <1>9, EventsFrom DEF Ensured, Place
<1> QED
  BY ZenonT(30), NextCases, <1>1, <1>2, <1>3, <1>4, <1>5, <1>6, <1>7, <1>8,
     <1>9 DEF TurnBegins, CheckState, NextPlace, LoadCounter, StoreCounter,
     Expire, Result, TimerClear, TimerPost, Call, Crash, Gone, CrashConnecting

\* The server thread is at a step of the command it serves.
LEMMA StepOfCommandKept ==
  ASSUME ThreadsInv, StepOfCommand, Next
  PROVE  StepOfCommand'
<1> USE DEF slots, server, timer, clients
<1>1. CASE Accept \/ Refuse \/ Reply \/ Ensure
  BY <1>1, EventsFrom DEF Accept, Refuse, Reply, Ensure, UdsBlocks,
     StepOfCommand
<1>2. CASE AcquireTaken \/ AcquireDone \/ AcquireHeld \/ NotFound \/ PingFound
  BY <1>2, EventsFrom DEF AcquireTaken, AcquireDone, AcquireHeld, Held,
     NotFound, Answer, PingFound, StepOfCommand
<1>3. CASE SetAlive \/ UpdateFound \/ ReleaseFound \/ ReleaseExpiring
  BY <1>3, EventsFrom DEF SetAlive, Answer, UpdateFound, Held,
     ReleaseFound, ReleaseExpiring, StepOfCommand
<1>4. CASE AcquireBegin \/ Layout \/ ReleaseClear \/ QueueRefresh
  BY <1>4, EventsFrom DEF AcquireBegin, UdsBlocks, Held, Layout,
     ReleaseClear, QueueRefresh, Answer, StepOfCommand
<1>5. CASE QtReplace \/ QtKeep \/ QtInit \/ QtUpdate
  BY <1>5, QtForServer, EventsFrom DEF QtReplace, QtRuns, QtPlace, QtKeep,
     QtInit, QtUpdate, StepOfCommand
<1>6. CASE QtRefresh
  BY <1>6, EventsFrom DEF QtRefresh, QtRuns, StepOfCommand
<1>7. CASE QtClear
  BY <1>7, QtForServer, QtForTurn, EventsFrom DEF QtClear, NextPlace, QtRuns,
     QtPlace, StepOfCommand
<1>8. CASE UNCHANGED <<pc, req>>
  BY <1>8, EventsFrom DEF StepOfCommand
<1> QED
  BY ZenonT(30), NextCases, <1>1, <1>2, <1>3, <1>4, <1>5, <1>6, <1>7, <1>8 DEF
     TurnBegins, CheckState, NextPlace, LoadCounter, StoreCounter, Expire,
     Result, TimerClear, TimerPost, Call, Crash, Gone, CrashConnecting

\* A release stays under way while the server thread does, and no event of its
\* other kinds is posted.
LEMMA ReleaseGoesOn ==
  ASSUME ThreadsInv, Next, UNCHANGED <<pc, req>>, ReleaseUnderWay
  PROVE  ReleaseUnderWay'
<1>1. CASE pc = "clear"
  BY <1>1 DEF ReleaseUnderWay
<1>2. CASE pc = "blocked" /\ \A i \in DOMAIN qt : qt[i].by = "uds" => qt[i].op = "clear"
  <2>1. \A i \in DOMAIN qt' : qt'[i].by = "uds" => qt'[i].op = "clear"
    BY <1>2, EventsFrom
  <2> QED BY <1>2, <2>1 DEF ReleaseUnderWay
<1> QED BY <1>1, <1>2 DEF ReleaseUnderWay

\* A place that an acquire works on, or that a release has given up, is not
\* lent: the server thread alone lends places.
LEMMA NotLentKept ==
  ASSUME ThreadsInv, NotLent, Next
  PROVE  NotLent'
<1> USE DEF slots, server, timer, clients
<1>1. CASE Accept \/ Refuse \/ Reply \/ Ensure
  BY <1>1, EventsFrom DEF Accept, Refuse, Reply, Ensure, UdsBlocks, NotLent,
     Place
<1>2. CASE AcquireTaken \/ AcquireHeld \/ NotFound \/ PingFound
  BY <1>2, EventsFrom DEF AcquireTaken, AcquireHeld, Held, NotFound, Answer,
     PingFound, NotLent, Place
<1>3. CASE AcquireDone \/ ReleaseExpiring
  BY <1>3, Serves, EventsFrom DEF AcquireDone, ReleaseExpiring, ThreadsInv,
     TypeOK, NotLent, Place
<1>4. CASE SetAlive \/ UpdateFound \/ ReleaseFound
  BY <1>4, EventsFrom DEF SetAlive, Answer, UpdateFound, Held, ReleaseFound,
     NotLent, Place
<1>5. CASE AcquireBegin \/ Layout \/ ReleaseClear \/ QueueRefresh
  BY <1>5, EventsFrom DEF AcquireBegin, UdsBlocks, Held, Layout, ReleaseClear,
     QueueRefresh, Answer, NotLent, Place
<1>6. CASE QtReplace \/ QtKeep \/ QtUpdate
  BY <1>6, QtForServer, EventsFrom DEF QtReplace, QtRuns, QtPlace, QtKeep,
     QtUpdate, NotLent, Place
<1>7. CASE QtInit
  <2>1. Head(qt).op = "init" /\ Head(qt) = qt[1] /\ 1 \in DOMAIN qt
        /\ Head(qt).by = "uds" /\ QtPlace = Place /\ Place \in Slots
        /\ pc' = "setTaken" /\ UNCHANGED <<req, Place>>
    BY <1>7, QtForServer DEF QtInit, QtRuns, Place
  <2>2. state'[Place] # "Acquired"
    BY <1>7, <2>1 DEF QtInit, ThreadsInv, TypeOK, NotLent
  <2> QED BY <2>1, <2>2, EventsFrom DEF NotLent
<1>8. CASE QtRefresh \/ TimerPost
  BY <1>8, EventsFrom DEF QtRefresh, TimerPost, NotLent, Place
<1>9. CASE QtClear
  <2>1. UNCHANGED <<req, Place>> /\ QtPlace \in Slots
        /\ \A s \in Slots : state'[s] = "Acquired" => state[s] = "Acquired"
    BY <1>9, QtForServer, QtForTurn DEF QtClear, ThreadsInv, TypeOK, Place
  <2>2. pc' = "reply" \/ UNCHANGED pc
    BY <1>9, QtForTurn DEF QtClear
  <2> QED BY <2>1, <2>2, Serves, EventsFrom DEF NotLent
<1>10. CASE Expire
  <2>1. UNCHANGED <<pc, req, qt, Place>>
        /\ \A s \in Slots : state'[s] = "Acquired" => state[s] = "Acquired"
    BY <1>10, Looks DEF Expire, ThreadsInv, TypeOK, Place
  <2> QED BY <2>1, Serves DEF NotLent, ThreadsInv, EventsWaitedFor
<1>11. CASE UNCHANGED <<state, pc, req, qt>>
  BY <1>11 DEF NotLent, Place
<1> QED
  BY ZenonT(30), NextCases, <1>1, <1>2, <1>3, <1>4, <1>5, <1>6, <1>7, <1>8,
     <1>9, <1>10, <1>11 DEF TurnBegins, CheckState, NextPlace, LoadCounter,
     StoreCounter, Result, TimerClear, Call, Crash, Gone, CrashConnecting

\* A counter is zero only from the turn that stores zero to where that turn fills
\* it, or the server does.
LEMMA TurnCountsKept ==
  ASSUME ThreadsInv, TurnCounts, Next
  PROVE  TurnCounts'
<1> USE DEF slots, server, timer, clients
<1>1. MaxAlive \in Nat \ {0} /\ count \in 0..MaxAlive
      /\ \A s \in Slots : alive[s] \in 0..MaxAlive
  BY ScreenAssumption DEF ThreadsInv, TypeOK
<1>2. CASE TurnBegins
  BY <1>2 DEF TurnBegins, TurnCounts
<1>3. CASE CheckState \/ Result
  <2>1. UNCHANGED alive /\ at \in {"check", "result"}
    BY <1>3 DEF CheckState, Result
  <2>2. CASE NextPlace /\ (at = "check" \/ alive[Looked] # 0)
    <3>1. at' \in {"idle", "check"}
      BY <2>1, <2>2, GoesOn
    <3> QED BY <2>1, <2>2, <3>1 DEF TurnCounts
  <2>3. CASE at = "check" /\ at' = "load" /\ UNCHANGED <<place, count>>
    BY <2>1, <2>3 DEF TurnCounts
  <2>4. CASE at = "result" /\ alive[Looked] = 0 /\ at' = "clear"
             /\ UNCHANGED <<place, count>>
    BY <2>1, <2>4, Looks DEF TurnCounts, Looked
  <2> QED BY <1>3, <2>2, <2>3, <2>4 DEF CheckState, Result
<1>4. CASE LoadCounter
  <2>1. UNCHANGED <<alive, place>> /\ at = "load" /\ at' = "store"
        /\ count' < MaxAlive
    BY <1>1, <1>4, Looks DEF LoadCounter
  <2> QED BY <2>1 DEF TurnCounts
<1>5. CASE StoreCounter
  <2>1. /\ UNCHANGED <<place, count, Looked>> /\ at = "store" /\ Looked \in Slots
        /\ alive'[Looked] = count
        /\ at' = IF count = 0 THEN "expire" ELSE "result"
        /\ \A s \in Slots : s # Looked => alive'[s] = alive[s]
    BY <1>5, Looks DEF StoreCounter, Looked, ThreadsInv, TypeOK
  <2> QED BY <2>1 DEF TurnCounts
<1>6. CASE Expire
  <2>1. UNCHANGED <<alive, place, count, Looked>> /\ at = "expire"
        /\ at' = "result"
    BY <1>6 DEF Expire, Looked
  <2> QED BY <1>1, <2>1 DEF TurnCounts
<1>7. CASE TimerClear
  <2>1. /\ UNCHANGED <<place, count, Looked>> /\ at = "clear" /\ Looked \in Slots
        /\ at' = "post" /\ alive'[Looked] = MaxAlive
        /\ \A s \in Slots : s # Looked => alive'[s] = alive[s]
    BY <1>7, Looks DEF TimerClear, Looked, ThreadsInv, TypeOK
  <2> QED BY <1>1, <2>1 DEF TurnCounts
<1>8. CASE TimerPost
  <2>1. UNCHANGED <<alive, place, count>> /\ at = "post" /\ at' = "blocked"
    BY <1>8 DEF TimerPost
  <2> QED BY <2>1 DEF TurnCounts
<1>9. CASE SetAlive \/ ReleaseClear
  <2>1. /\ UNCHANGED <<at, place, count, Looked>>
        /\ \A s \in Slots : alive'[s] \in {alive[s], MaxAlive}
    BY <1>9, Serves DEF SetAlive, ReleaseClear, Looked, ThreadsInv, TypeOK
  <2> QED BY <1>1, <2>1 DEF TurnCounts
<1>10. CASE QtReplace
  <2>1. /\ UNCHANGED <<at, place, count, Looked>>
        /\ \A s \in Slots : alive'[s] \in {alive[s], MaxAlive}
    BY <1>10, QtForServer DEF QtReplace, Looked, ThreadsInv, TypeOK
  <2> QED BY <1>1, <2>1 DEF TurnCounts
<1>11. CASE QtClear /\ Head(qt).by # "uds"
  <2>1. UNCHANGED alive /\ at = "blocked" /\ at' \in {"idle", "check"}
    BY <1>11, QtForTurn DEF QtClear
  <2> QED BY <2>1 DEF TurnCounts
<1>12. CASE UNCHANGED <<alive, at, place, count>>
  BY <1>12 DEF TurnCounts, Looked
<1> QED
  BY ZenonT(30), NextCases, <1>2, <1>3, <1>4, <1>5, <1>6, <1>7, <1>8, <1>9,
     <1>10, <1>11, <1>12 DEF Accept, Ensure, UdsBlocks, Refuse, Reply,
     AcquireBegin, AcquireTaken, AcquireDone, AcquireHeld, Layout, NotFound,
     PingFound, UpdateFound, QueueRefresh, ReleaseFound, ReleaseExpiring,
     QtKeep, QtRuns, QtInit, QtUpdate, QtRefresh, QtClear, Call, Crash, Gone,
     CrashConnecting

\* A place that shows something has its handler, and so has the place a turn
\* works on.
LEMMA HandlerKnownKept ==
  ASSUME ThreadsInv, Ensured, HandlerKnown, Next
  PROVE  HandlerKnown'
<1> USE DEF slots, server, timer, clients
<1>1. CASE AcquireDone \/ ReleaseExpiring
  BY <1>1, Serves DEF AcquireDone, ReleaseExpiring, ThreadsInv, TypeOK, Ensured,
     HandlerKnown, Looked
<1>2. CASE Expire
  BY <1>2, Looks DEF Expire, ThreadsInv, TypeOK, HandlerKnown, Looked
<1>3. CASE CheckState \/ Result
  <2>1. UNCHANGED <<handler, state>> /\ at \in {"check", "result"}
    BY <1>3 DEF CheckState, Result
  <2>2. CASE NextPlace
    <3>1. at' \in {"idle", "check"}
      BY <2>1, <2>2, GoesOn
    <3> QED BY <2>1, <3>1 DEF HandlerKnown
  <2>3. CASE UNCHANGED place /\ handler[Looked] # None
    BY <2>1, <2>3 DEF HandlerKnown, Looked
  <2> QED BY <1>3, <2>2, <2>3 DEF CheckState, Result, HandlerKnown
<1>4. CASE LoadCounter \/ StoreCounter \/ TimerClear \/ TimerPost
  BY <1>4 DEF LoadCounter, StoreCounter, TimerClear, TimerPost, HandlerKnown,
     Looked
<1>5. CASE TurnBegins
  BY <1>5 DEF TurnBegins, HandlerKnown
<1>6. CASE QtReplace
  <2>1. /\ req.comp # None /\ QtPlace \in Slots /\ UNCHANGED <<at, place, Looked>>
        /\ \A s \in Slots : handler'[s] \in {handler[s], req.comp}
        /\ \A s \in Slots : s # QtPlace => state'[s] = state[s]
        /\ handler'[QtPlace] = req.comp
    BY <1>6, QtForServer, Serves DEF QtReplace, ThreadsInv, TypeOK, Looked
  <2> QED BY <2>1, Looks DEF HandlerKnown
<1>7. CASE QtInit
  <2>1. /\ QtPlace = Place /\ Place \in Slots /\ req.comp # None
        /\ handler[Place] = req.comp /\ UNCHANGED <<handler, at, place, Looked>>
        /\ \A s \in Slots : s # Place => state'[s] = state[s]
    BY <1>7, QtForServer, Serves DEF QtInit, QtRuns, Ensured, Looked, ThreadsInv,
       TypeOK
  <2> QED BY <2>1 DEF HandlerKnown
<1>8. CASE QtClear
  <2>1. /\ QtPlace \in Slots /\ UNCHANGED handler
        /\ at' \in {"idle", "check"} \/ UNCHANGED <<at, place, Looked>>
        /\ \A s \in Slots : state'[s] \in {state[s], "Empty"}
    BY <1>8, QtForServer, QtForTurn DEF QtClear, Looked, ThreadsInv, TypeOK
  <2> QED BY <2>1 DEF HandlerKnown
<1>9. CASE UNCHANGED <<handler, state, at, place>>
  BY <1>9 DEF HandlerKnown, Looked
<1> QED
  BY ZenonT(30), NextCases, <1>1, <1>2, <1>3, <1>4, <1>5, <1>6, <1>7, <1>8, <1>9
     DEF Accept, Ensure, UdsBlocks, Refuse, Reply, AcquireBegin, AcquireTaken,
     AcquireHeld, Layout, NotFound, PingFound, SetAlive, UpdateFound,
     QueueRefresh, ReleaseFound, ReleaseClear, QtKeep, QtRuns, QtUpdate,
     QtRefresh, Call, Crash, Gone, CrashConnecting

\* The Qt thread replaces a handler only where no turn has the place in hand.
LEMMA ReplacesIdle ==
  ASSUME ThreadsInv, HandlerKnown, NotReplaced, QtReplace
  PROVE  ~InHand(QtPlace)
<1>1. /\ Head(qt) = qt[1] /\ 1 \in DOMAIN qt /\ Head(qt).by = "uds"
      /\ QtPlace = Place /\ QtPlace \in Slots
  BY QtForServer
<1>2. Head(qt).op = "ensure" /\ (handler[QtPlace] = None \/ state[QtPlace] = "Empty")
  BY DEF QtReplace, QtRuns
<1>3. InHand(QtPlace) => state[QtPlace] # "Empty"
  BY <1>1, <1>2 DEF NotReplaced
<1> QED BY <1>1, <1>2, <1>3 DEF HandlerKnown

\* While the Qt thread has a handler to decide on, no turn that goes into its place
\* finds it empty, or makes it so before it waits for the Qt thread itself.
LEMMA NotReplacedKept ==
  ASSUME ThreadsInv, HandlerKnown, NotReplaced, Next
  PROVE  NotReplaced'
<1> USE DEF slots, server, timer, clients
<1> SUFFICES ASSUME NEW i \in DOMAIN qt', qt'[i].by = "uds", qt'[i].op = "ensure",
                    InHand(Place)'
             PROVE  state'[Place'] # "Empty"
  BY DEF NotReplaced
<1>1. CASE pc = "ensure" /\ pc' = "blocked"
  <2>1. CASE Ensure
    <3>1. handler[Place] # req.comp
      BY <1>1, <2>1 DEF Ensure
    <3>2. UNCHANGED <<at, place, Place, Looked, state>>
      BY <2>1 DEF Ensure, Place, Looked
    <3>3. InHand(Place)
      BY <3>2 DEF InHand
    <3> QED BY <2>1, <3>1, <3>2, <3>3 DEF Ensure
  <2>2. CASE ~Ensure
    <3>1. CASE UdsStep
      BY <1>1, <2>2, <3>1 DEF UdsStep, Accept, Refuse, Reply, AcquireBegin,
         AcquireTaken, AcquireDone, AcquireHeld, Layout, NotFound, PingFound,
         SetAlive, UpdateFound, QueueRefresh, ReleaseFound, ReleaseExpiring,
         ReleaseClear
    <3> QED BY <1>1, <3>1, ServerMoves
  <2> QED BY <2>1, <2>2
<1>2. CASE \E j \in DOMAIN qt :
             qt[j].by = "uds" /\ qt[j].op = "ensure" /\ pc = "blocked"
             /\ UNCHANGED <<pc, req>>
  <2>1. PICK j \in DOMAIN qt :
          qt[j].by = "uds" /\ qt[j].op = "ensure" /\ pc = "blocked"
          /\ UNCHANGED <<pc, req>>
    BY <1>2
  <2>2. /\ UNCHANGED Place /\ req # None /\ Place \in Slots
        /\ InHand(Place) => state[Place] # "Empty"
    BY <2>1, Serves DEF Place, NotReplaced
  <2>3. CASE AliveStep
    <3>1. CASE CheckState
      <4>1. at = "check" /\ Looked \in Slots /\ UNCHANGED state
        BY <3>1, Looks DEF CheckState
      <4>2. CASE NextPlace
        BY <4>1, <4>2, GoesOn DEF InHand
      <4>3. CASE UNCHANGED place /\ state[Looked] = "Acquired"
        BY <2>2, <4>1, <4>3 DEF InHand, Looked
      <4> QED BY <3>1, <4>2, <4>3 DEF CheckState
    <3>2. CASE TurnBegins \/ TimerPost
      BY <3>2 DEF TurnBegins, TimerPost, InHand
    <3>3. CASE LoadCounter \/ StoreCounter \/ TimerClear
      <4>1. at \in {"load", "store", "clear"} /\ UNCHANGED <<place, state, Looked>>
        BY <3>3 DEF LoadCounter, StoreCounter, TimerClear, Looked
      <4> QED BY <2>2, <4>1 DEF InHand
    <3>4. CASE Expire
      <4>1. at = "expire" /\ UNCHANGED <<place, Looked>>
            /\ \A s \in Slots : state'[s] \in {state[s], "Expiring"}
        BY <3>4, Looks DEF Expire, Looked, ThreadsInv, TypeOK
      <4> QED BY <2>2, <4>1 DEF InHand
    <3>5. CASE Result
      <4>1. at = "result" /\ UNCHANGED state
        BY <3>5 DEF Result
      <4>2. CASE NextPlace
        BY <4>1, <4>2, GoesOn DEF InHand
      <4>3. CASE UNCHANGED place
        BY <2>2, <4>1, <4>3 DEF InHand, Looked
      <4> QED BY <3>5, <4>2, <4>3 DEF Result
    <3> QED BY <2>3, <3>1, <3>2, <3>3, <3>4, <3>5 DEF AliveStep
  <2>4. CASE QtStep
    <3>1. CASE Head(qt).by = "uds"
      <4>1. i + 1 \in DOMAIN qt /\ i + 1 # 1 /\ qt'[i] = qt[i + 1]
        BY <2>4, TakingSteps, AfterTake
      <4>2. qt # <<>> /\ Head(qt) = qt[1] /\ 1 \in DOMAIN qt
        BY <2>4, TakingSteps, QtServes DEF Takes
      <4> QED BY <3>1, <4>1, <4>2 DEF ThreadsInv, EventsWaitedFor
    <3>2. CASE Head(qt).by # "uds"
      <4>1. CASE QtClear
        BY <4>1, <3>2, QtForTurn DEF InHand
      <4>2. CASE QtRefresh
        <5>1. UNCHANGED <<at, place, state, Looked>>
          BY <4>2 DEF QtRefresh, Looked
        <5> QED BY <2>2, <5>1 DEF InHand
      <4> QED BY <2>4, <3>2, <4>1, <4>2, QtForServer DEF QtStep
    <3> QED BY <3>1, <3>2
  <2>5. CASE UNCHANGED <<at, place, state>>
    BY <2>2, <2>5 DEF InHand, Looked
  <2>6. CASE UdsStep
    BY <2>1, <2>6 DEF UdsStep, Accept, Ensure, UdsBlocks, Refuse, Reply,
       AcquireBegin, AcquireTaken, AcquireDone, AcquireHeld, Layout, NotFound,
       PingFound, SetAlive, UpdateFound, QueueRefresh, ReleaseFound,
       ReleaseExpiring, ReleaseClear
  <2> QED
    BY <2>3, <2>4, <2>5, <2>6 DEF Next, Uds, Alive, Qt, Client, ClientStep, Call,
       Crash, CrashConnecting
<1> QED BY <1>1, <1>2, EventsFrom

\* A release that has given its place up goes on to have it cleared.
LEMMA ReleaseStays ==
  ASSUME ThreadsInv, Next, ReleaseUnderWay
  PROVE  \/ ReleaseUnderWay' /\ UNCHANGED <<req, Place>>
         \/ QtClear /\ Head(qt).by = "uds"
<1> USE DEF slots, server, timer, clients
<1>1. pc \in {"clear", "blocked"} /\ req # None /\ req.cmd = "RELEASE"
  BY DEF ReleaseUnderWay
<1>2. CASE UNCHANGED <<pc, req>>
  BY <1>2, ReleaseGoesOn DEF Place
<1>3. CASE UdsStep
  <2>1. pc = "clear" /\ pc' = "blocked" /\ UNCHANGED <<req, Place>>
    BY <1>1, <1>3 DEF UdsStep, Accept, Ensure, UdsBlocks, Refuse, Reply,
       AcquireBegin, AcquireTaken, AcquireDone, AcquireHeld, Layout, NotFound,
       PingFound, SetAlive, UpdateFound, QueueRefresh, ReleaseFound,
       ReleaseExpiring, ReleaseClear, Place
  <2>2. \A i \in DOMAIN qt' : qt'[i].by = "uds" => qt'[i].op = "clear"
    BY <2>1, EventsFrom
  <2> QED BY <1>1, <2>1, <2>2 DEF ReleaseUnderWay
<1>4. CASE QtStep /\ Head(qt).by = "uds" /\ pc = "blocked"
  <2>1. Head(qt).op = "clear"
    BY <1>4, QtServes, TakingSteps DEF ReleaseUnderWay, Takes
  <2> QED
    BY <1>4, <2>1 DEF QtStep, QtReplace, QtKeep, QtInit, QtUpdate, QtRefresh, QtRuns
<1> QED BY <1>2, <1>3, <1>4, ServerMoves

\* An expiring place stays on the way to its clear, unless the server thread sets
\* its counter after the turn has found it to be zero.
LEMMA ForgottenKept ==
  ASSUME LoansInv, Next
  PROVE  Forgotten'
<1> USE DEF slots, server, timer, clients, LoansInv
<1>1. CASE Uds
  <2>1. UNCHANGED <<at, place, count, Looked>> /\ UdsStep
    BY <1>1 DEF Uds, UdsStep, Accept, Ensure, Refuse, Reply, AcquireBegin,
       AcquireTaken, AcquireDone, AcquireHeld, Layout, NotFound, PingFound,
       SetAlive, UpdateFound, QueueRefresh, ReleaseFound, ReleaseExpiring,
       ReleaseClear, Looked
  <2>2. /\ renewed \subseteq renewed'
        /\ at \in {"expire", "result"} /\ count = 0 /\ alive'[Looked] > 0 =>
             Looked \in renewed'
    BY <1>1 DEF Uds
  <2>3. ASSUME NEW s \in Slots, state'[s] = "Expiring"
        PROVE  state[s] = "Expiring" \/ (ReleaseUnderWay' /\ Place' = s)
    <3>1. CASE AcquireDone
      BY <2>3, <3>1, Serves DEF AcquireDone, ThreadsInv, TypeOK
    <3>2. CASE ReleaseExpiring
      <4>1. /\ pc = "setExpiring" /\ pc' = "clear" /\ UNCHANGED <<req, Place>>
            /\ req # None /\ s # Place => state'[s] = state[s]
        BY <3>2, Serves DEF ReleaseExpiring, Place, ThreadsInv, TypeOK
      <4> QED BY <2>3, <3>2, <4>1, Serves DEF StepOfCommand, ReleaseUnderWay
    <3>3. CASE UNCHANGED state
      BY <2>3, <3>3
    <3> QED
      BY <2>1, <3>1, <3>2, <3>3 DEF UdsStep, Accept, Ensure, Refuse, Reply,
         AcquireBegin, AcquireTaken, AcquireHeld, Layout, NotFound, PingFound,
         SetAlive, UpdateFound, QueueRefresh, ReleaseFound, ReleaseClear
  <2>4. ReleaseUnderWay => ReleaseUnderWay' /\ UNCHANGED Place
    <3>1. ~(QtClear /\ Head(qt).by = "uds") \/ pc = "blocked"
      BY QtForServer
    <3>2. ReleaseUnderWay => pc # "blocked" \/ UNCHANGED <<pc, req>>
      BY <2>1 DEF UdsStep, Accept, Ensure, UdsBlocks, Refuse, Reply, AcquireBegin,
         AcquireTaken, AcquireDone, AcquireHeld, Layout, NotFound, PingFound,
         SetAlive, UpdateFound, QueueRefresh, ReleaseFound, ReleaseExpiring,
         ReleaseClear
    <3> QED BY <3>1, <3>2, ReleaseStays, ReleaseGoesOn DEF Place
  <2>5. at \in {"expire", "result"} => Looked \in Slots /\ alive'[Looked] \in 0..MaxAlive
    BY Looks, PlacesType DEF TypePlaces
  <2>6. at # "idle" => Looked \in Slots
    BY Looks
  <2>7. \A s \in Slots :
          state'[s] = "Expiring" =>
            \/ ReleaseUnderWay' /\ Place' = s
            \/ at' \in {"result", "clear", "post", "blocked"} /\ Looked' = s
            \/ s \in renewed'
    BY <2>1, <2>2, <2>3, <2>4 DEF Forgotten
  <2>8. Undecided' /\ state'[Looked'] = "Expiring" =>
          ReleaseUnderWay' /\ Place' = Looked'
    BY <2>1, <2>3, <2>4, <2>6 DEF Forgotten, Undecided
  <2>9. at' \in {"expire", "result"} /\ count' = 0 /\ alive'[Looked'] # 0 =>
          Looked' \in renewed'
    BY <2>1, <2>2, <2>5, ScreenAssumption
  <2> QED BY <2>7, <2>8, <2>9 DEF Forgotten
<1>2. CASE Alive
  <2>1. /\ UNCHANGED <<pc, req, Place>>
        /\ ReleaseUnderWay => ReleaseUnderWay'
    BY <1>2, ReleaseGoesOn DEF Alive, AliveStep, TurnBegins, CheckState, LoadCounter,
       StoreCounter, Expire, Result, TimerClear, TimerPost, Place
  <2>2. renewed' = IF at = "store" THEN renewed \ {Looked} ELSE renewed
    BY <1>2 DEF Alive
  <2>3. CASE TurnBegins
    <3>1. UNCHANGED state /\ at = "idle" /\ at' = "check"
      BY <2>3 DEF TurnBegins
    <3> QED BY <2>1, <2>2, <3>1 DEF Forgotten, Undecided
  <2>4. CASE CheckState
    <3>1. UNCHANGED state /\ at = "check" /\ Looked \in Slots
      BY <2>4, Looks DEF CheckState
    <3>2. CASE NextPlace
      <4>1. at' \in {"idle", "check"}
        BY <3>1, <3>2, GoesOn
      <4> QED BY <2>1, <2>2, <3>1, <4>1 DEF Forgotten, Undecided
    <3>3. CASE state[Looked] = "Acquired" /\ at' = "load" /\ UNCHANGED <<place, Looked>>
      BY <2>1, <2>2, <3>1, <3>3 DEF Forgotten, Undecided
    <3> QED BY <2>4, <3>2, <3>3 DEF CheckState, Looked
  <2>5. CASE LoadCounter
    <3>1. UNCHANGED <<state, place, Looked>> /\ at = "load" /\ at' = "store"
      BY <2>5 DEF LoadCounter, Looked
    <3> QED BY <2>1, <2>2, <3>1 DEF Forgotten, Undecided
  <2>6. CASE StoreCounter
    <3>1. /\ UNCHANGED <<state, place, count, Looked>> /\ at = "store"
          /\ at' = IF count = 0 THEN "expire" ELSE "result"
          /\ alive'[Looked] = count /\ Looked \in Slots
      BY <2>6, Looks DEF StoreCounter, Looked, ThreadsInv, TypeOK
    <3>2. state[Looked] = "Expiring" => ReleaseUnderWay /\ Place = Looked
      BY <3>1 DEF Forgotten, Undecided
    <3>3. \A s \in Slots :
            state[s] = "Expiring" =>
              (ReleaseUnderWay' /\ Place' = s) \/ s \in renewed'
      BY <2>1, <2>2, <3>1, <3>2 DEF Forgotten
    <3> QED BY <2>1, <3>1, <3>2, <3>3 DEF Forgotten, Undecided
  <2>7. CASE Expire
    <3>1. /\ UNCHANGED <<alive, place, count, Looked>> /\ at = "expire"
          /\ at' = "result" /\ Looked \in Slots /\ count = 0
          /\ \A s \in Slots : s # Looked => state'[s] = state[s]
      BY <2>7, Looks DEF Expire, Looked, TurnCounts, ThreadsInv, TypeOK
    <3> QED BY <2>1, <2>2, <3>1 DEF Forgotten, Undecided
  <2>8. CASE Result
    <3>1. UNCHANGED <<state, alive>> /\ at = "result"
      BY <2>8 DEF Result
    <3>2. CASE at' = "clear" /\ UNCHANGED <<place, Looked>>
      BY <2>1, <2>2, <3>1, <3>2 DEF Forgotten, Undecided
    <3>3. CASE alive[Looked] # 0 /\ NextPlace
      <4>1. at' \in {"idle", "check"}
        BY <3>1, <3>3, GoesOn
      <4>2. state[Looked] = "Expiring" =>
              (ReleaseUnderWay /\ Place = Looked) \/ Looked \in renewed
        BY <3>1, <3>3 DEF Forgotten, Undecided
      <4> QED BY <2>1, <2>2, <3>1, <4>1, <4>2 DEF Forgotten, Undecided
    <3> QED BY <2>8, <3>2, <3>3 DEF Result, Looked
  <2>9. CASE TimerClear \/ TimerPost
    <3>1. UNCHANGED <<state, place, Looked>> /\ at \in {"clear", "post"}
          /\ at' \in {"post", "blocked"}
      BY <2>9 DEF TimerClear, TimerPost, Looked
    <3> QED BY <2>1, <2>2, <3>1 DEF Forgotten, Undecided
  <2> QED
    BY <1>2, <2>3, <2>4, <2>5, <2>6, <2>7, <2>8, <2>9 DEF Alive, AliveStep
<1>3. CASE Qt
  <2>1. UNCHANGED renewed /\ QtStep
    BY <1>3 DEF Qt
  <2>2. CASE QtReplace
    <3>1. /\ UNCHANGED <<at, place, count, Looked>> /\ QtPlace \in Slots
          /\ \A s \in Slots : state'[s] = "Expiring" => state[s] = "Expiring"
          /\ \A s \in Slots : s # QtPlace => alive'[s] = alive[s]
      BY <2>2, QtForServer DEF QtReplace, Looked, ThreadsInv, TypeOK
    <3>2. ~ReleaseUnderWay
      BY <2>2, QtForServer DEF QtReplace, QtRuns, ReleaseUnderWay
    <3>3. at \in {"expire", "result"} => Looked # QtPlace
      BY <2>2, ReplacesIdle DEF InHand
    <3> QED BY <2>1, <3>1, <3>2, <3>3, Looks DEF Forgotten, Undecided
  <2>3. CASE QtKeep \/ QtInit \/ QtUpdate
    <3>1. /\ UNCHANGED <<alive, at, place, count, Looked>>
          /\ \A s \in Slots : state'[s] = "Expiring" => state[s] = "Expiring"
      BY <2>3, QtForServer DEF QtKeep, QtInit, QtUpdate, Looked, ThreadsInv, TypeOK
    <3>2. ~ReleaseUnderWay
      BY <2>3, QtForServer DEF QtKeep, QtInit, QtUpdate, QtRuns, ReleaseUnderWay
    <3> QED BY <2>1, <3>1, <3>2, Looks DEF Forgotten, Undecided
  <2>4. CASE QtRefresh
    <3>1. UNCHANGED <<state, alive, at, place, count, Looked, pc, req, Place>>
      BY <2>4 DEF QtRefresh, Looked, Place
    <3> QED BY <2>1, <3>1, ReleaseGoesOn DEF Forgotten, Undecided
  <2>5. CASE QtClear /\ Head(qt).by = "uds"
    <3>1. /\ UNCHANGED <<alive, at, place, count, Looked>> /\ QtPlace = Place
          /\ Place \in Slots /\ state'[Place] # "Expiring"
          /\ \A s \in Slots : s # Place => state'[s] = state[s]
      BY <2>5, QtForServer DEF QtClear, Looked, ThreadsInv, TypeOK
    <3> QED BY <2>1, <3>1, Looks DEF Forgotten, Undecided
  <2>6. CASE QtClear /\ Head(qt).by # "uds"
    <3>1. /\ UNCHANGED <<pc, req, Place>> /\ at' \in {"idle", "check"}
          /\ at = "blocked" /\ QtPlace = Looked /\ Looked \in Slots
          /\ state'[Looked] # "Expiring"
          /\ \A s \in Slots : s # Looked => state'[s] = state[s]
      BY <2>6, QtForTurn DEF QtClear, ThreadsInv, TypeOK, Place
    <3> QED BY <2>1, <3>1, ReleaseGoesOn DEF Forgotten, Undecided
  <2> QED BY <2>1, <2>2, <2>3, <2>4, <2>5, <2>6 DEF QtStep
<1>4. ASSUME NEW c \in Clients, Client(c)
      PROVE  Forgotten'
  <2>1. UNCHANGED <<state, alive, renewed, qt, pc, req, at, place, count>>
    BY <1>4 DEF Client, ClientStep, Call, Crash, CrashConnecting
  <2> QED BY <2>1 DEF Forgotten, Undecided, ReleaseUnderWay, Looked, Place
<1> QED BY <1>1, <1>2, <1>3, <1>4 DEF Next

\* What the threads leave of a loan, and who takes it back, is inductive, however
\* the threads interleave.
LEMMA LoansInvInductive ==
  /\ Init => LoansInv
  /\ LoansInv /\ [Next]_vars => LoansInv'
<1>1. ASSUME Init
      PROVE  LoansInv
  <2>1. ThreadsInv
    BY <1>1, ThreadsInvInductive
  <2>2. /\ Ensured /\ StepOfCommand /\ NotLent /\ HandlerKnown /\ NotReplaced
        /\ Forgotten
    BY <1>1 DEF Init, Ensured, StepOfCommand, NotLent, HandlerKnown, NotReplaced,
       Forgotten, Undecided
  <2>3. TurnCounts
    BY <1>1, ScreenAssumption DEF Init, TurnCounts
  <2> QED BY <2>1, <2>2, <2>3 DEF LoansInv
<1>2. ASSUME LoansInv, Next
      PROVE  LoansInv'
  BY <1>2, ThreadsInvInductive, EnsuredKept, StepOfCommandKept, NotLentKept,
     TurnCountsKept, HandlerKnownKept, NotReplacedKept, ForgottenKept DEF LoansInv
<1>3. ASSUME LoansInv, UNCHANGED vars
      PROVE  LoansInv'
  <2> USE DEF vars, slots, server, timer, clients
  <2>1. ThreadsInv'
    BY <1>3, ThreadsInvInductive DEF LoansInv
  <2>2. UNCHANGED <<Place, Looked>>
    BY <1>3 DEF Place, Looked
  <2>3. Ensured' /\ StepOfCommand' /\ NotLent'
    BY <1>3, <2>2 DEF LoansInv, Ensured, StepOfCommand, NotLent
  <2>4. TurnCounts' /\ HandlerKnown' /\ NotReplaced'
    BY <1>3, <2>2 DEF LoansInv, TurnCounts, HandlerKnown, NotReplaced, InHand
  <2>5. Forgotten'
    BY <1>3, <2>2 DEF LoansInv, Forgotten, Undecided, ReleaseUnderWay
  <2> QED BY <2>1, <2>3, <2>4, <2>5 DEF LoansInv
<1> QED BY <1>1, <1>2, <1>3

\* However the server thread and the turns of the alive timer interleave: what is
\* Expiring has a thread on the way to clear it, unless the server thread set its
\* counter, with a ping or an update, after the turn had found it to be zero.
\* Then the turn leaves the place, and no other way to forget one exists.
THEOREM OnlyRenewedIsForgottenIsInvariant == Spec => []OnlyRenewedIsForgotten
<1>1. LoansInv => OnlyRenewedIsForgotten
  BY DEF LoansInv, Forgotten, ReleaseUnderWay, OnlyRenewedIsForgotten, Cleaning
<1> QED BY <1>1, LoansInvInductive, PTL DEF Spec

----------------------------------------------------------------------------
(* The screen owner lends its places as Lease says *)

\* The abstract state: what Loans is given for lease, tick and asked.
Lent == [s \in Slots |-> IF state[s] = "Acquired" THEN handler[s] ELSE None]
Tick == [s \in Slots |-> IF Counted(s) THEN count ELSE MaxAlive]
Asked == IF req # None /\ req.cmd = "RELEASE" THEN {Place} ELSE {}

\* A place that was free is lent, for the abstract state.
LEMMA Grants ==
  ASSUME NEW s \in Slots, NEW k \in Components, Lent[s] = None,
         Lent' = [Lent EXCEPT ![s] = k], UNCHANGED <<alive, Tick, Asked>>
  PROVE  Loans!Next
<1>1. \E c \in Components : Lent' = [Lent EXCEPT ![s] = c]
  OBVIOUS
<1>2. Loans!Grant(s)
  BY Zenon, <1>1 DEF Loans!Grant, Lent, Tick, Asked
<1> QED BY <1>2 DEF Loans!Next

\* A loan is returned.
LEMMA Returns ==
  ASSUME NEW s \in Slots, s \in Asked, Lent' = [Lent EXCEPT ![s] = None],
         UNCHANGED <<alive, Tick, Asked>>
  PROVE  Loans!Next
<1>1. Loans!Return(s)
  BY Zenon DEF Loans!Return, Lent, Tick, Asked
<1> QED BY <1>1 DEF Loans!Next

\* A loan expires.
LEMMA Expires ==
  ASSUME NEW s \in Slots, Tick[s] = 0, Lent' = [Lent EXCEPT ![s] = None],
         Tick' \in {Tick, [Tick EXCEPT ![s] = MaxAlive]}, UNCHANGED <<alive, Asked>>
  PROVE  Loans!Next
<1>1. Loans!Expire(s)
  BY Zenon DEF Loans!Expire, Loans!NoTick, Lent, Tick, Asked
<1> QED BY <1>1 DEF Loans!Next

\* A step that neither lends a place nor takes one back leaves the loans alone.
LEMMA SameLent ==
  ASSUME \A s \in Slots :
           \/ state[s] # "Acquired" /\ state'[s] # "Acquired"
           \/ state'[s] = state[s] /\ handler'[s] = handler[s]
  PROVE  UNCHANGED Lent
  BY DEF Lent

\* A step that changes one place changes one loan.
LEMMA OneLent ==
  ASSUME NEW s \in Slots, UNCHANGED handler,
         \A t \in Slots : t # s => state'[t] = state[t]
  PROVE  Lent' = [Lent EXCEPT ![s] = IF state'[s] = "Acquired" THEN handler[s] ELSE None]
  BY DEF Lent

\* A step that leaves the turn where it is, or moves it on before it has counted,
\* leaves what it is about to store alone.
LEMMA SameTick ==
  ASSUME \/ UNCHANGED <<at, place, count>>
         \/ /\ at \notin {"store", "expire", "result", "clear", "post", "blocked"}
            /\ at' \notin {"store", "expire", "result", "clear", "post", "blocked"}
         \/ /\ at \in {"store", "expire", "result", "clear", "post", "blocked"}
            /\ at' \in {"store", "expire", "result", "clear", "post", "blocked"}
            /\ UNCHANGED <<place, count>>
  PROVE  UNCHANGED Tick
  BY DEF Tick, Counted, Looked

\* What a turn of the alive timer has counted it leaves at one place.
LEMMA OneTick ==
  ASSUME ThreadsInv, Looked \in Slots
  PROVE  /\ at \notin {"store", "expire", "result", "clear", "post", "blocked"} =>
              Tick[Looked] = MaxAlive
         /\ at \in {"store", "expire", "result", "clear", "post", "blocked"} =>
              Tick[Looked] = count
         /\ at' \notin {"store", "expire", "result", "clear", "post", "blocked"} =>
              Tick' = [s \in Slots |-> MaxAlive]
         /\ at' = "store" /\ UNCHANGED place =>
              Tick' = [s \in Slots |-> IF s = Looked THEN count' ELSE MaxAlive]
  BY DEF Tick, Counted, Looked

\* The server thread's steps keep the loans, or lend, renew or return one.
LEMMA UdsLends ==
  ASSUME LoansInv, UdsStep
  PROVE  Loans!Next \/ UNCHANGED <<Lent, alive, Tick, Asked>>
<1> USE DEF slots, server, timer, clients, LoansInv
<1>1. UNCHANGED <<at, place, count, Tick>>
  BY SameTick DEF UdsStep, Accept, Ensure, Refuse, Reply, AcquireBegin,
     AcquireTaken, AcquireDone, AcquireHeld, Layout, NotFound, PingFound, SetAlive,
     UpdateFound, QueueRefresh, ReleaseFound, ReleaseExpiring, ReleaseClear
<1>2. CASE Accept \/ Refuse \/ Reply
  <2>1. UNCHANGED <<Lent, alive>>
    BY <1>2, SameLent DEF Accept, Refuse, Reply
  <2>2. Asked' \in SUBSET Slots
    <3>1. CASE Accept
      <4>1. req' \in Request
        BY <3>1, HeadTaken DEF Accept, ThreadsInv, TypeOK
      <4>2. Place' \in Slots
        BY <4>1, ScreenAssumption DEF Place, Request
      <4> QED BY <4>2 DEF Asked
    <3>2. CASE Refuse \/ Reply
      BY <3>2 DEF Refuse, Reply, Asked
    <3> QED BY <1>2, <3>1, <3>2
  <2>3. Loans!Ask
    BY <1>1, <2>1, <2>2 DEF Loans!Ask, Lent, Tick, Asked
  <2> QED BY <2>3 DEF Loans!Next
<1>3. CASE AcquireDone
  <2>1. /\ Place \in Slots /\ UNCHANGED <<alive, handler, req, Place, Asked>>
        /\ state[Place] # "Acquired" /\ state'[Place] = "Acquired"
        /\ handler[Place] \in Components
        /\ \A s \in Slots : s # Place => state'[s] = state[s]
    BY <1>3, Serves DEF AcquireDone, NotLent, Ensured, Place, Asked, ThreadsInv,
       TypeOK
  <2>2. Lent[Place] = None /\ Lent' = [Lent EXCEPT ![Place] = handler[Place]]
    BY <2>1, OneLent DEF Lent
  <2>3. UNCHANGED <<alive, Tick, Asked>> /\ handler[Place] \in Components
    BY <1>1, <2>1
  <2> QED BY <2>1, <2>2, <2>3, Grants
<1>4. CASE SetAlive \/ ReleaseClear
  <2>1. /\ Place \in Slots /\ UNCHANGED <<state, handler, req, Place, Asked>>
        /\ alive' = [alive EXCEPT ![Place] = MaxAlive]
    BY <1>4, Serves DEF SetAlive, ReleaseClear, Place, Asked
  <2>2. UNCHANGED Lent
    BY <2>1, SameLent
  <2>3. Loans!Renew(Place)
    BY <1>1, <2>1, <2>2 DEF Loans!Renew, Lent, Tick, Asked
  <2> QED BY <2>1, <2>3 DEF Loans!Next
<1>5. CASE ReleaseExpiring
  <2>1. /\ Place \in Slots /\ UNCHANGED <<alive, handler, req, Place, Asked>>
        /\ state'[Place] # "Acquired" /\ Place \in Asked
        /\ \A s \in Slots : s # Place => state'[s] = state[s]
    BY <1>5, Serves DEF ReleaseExpiring, StepOfCommand, Place, Asked, ThreadsInv,
       TypeOK
  <2>2. Lent' = [Lent EXCEPT ![Place] = None]
    BY <2>1, OneLent
  <2>3. UNCHANGED <<alive, Tick, Asked>> /\ Place \in Asked
    BY <1>1, <2>1
  <2> QED BY <2>1, <2>2, <2>3, Returns
<1>6. CASE UNCHANGED <<handler, state, alive, req>>
  <2>1. UNCHANGED <<Lent, Asked>>
    BY <1>6, SameLent DEF Asked, Place
  <2> QED BY <1>1, <1>6, <2>1
<1> QED
  BY <1>2, <1>3, <1>4, <1>5, <1>6 DEF UdsStep, Ensure, AcquireBegin, AcquireTaken,
     AcquireHeld, Layout, NotFound, PingFound, UpdateFound, QueueRefresh,
     ReleaseFound

\* A turn looks, counts, and expires or passes one place.
LEMMA AliveTicks ==
  ASSUME LoansInv, AliveStep
  PROVE  Loans!Next \/ UNCHANGED <<Lent, alive, Tick, Asked>>
<1> USE DEF slots, server, timer, clients, LoansInv
<1>1. UNCHANGED <<handler, req, Asked>>
  BY DEF AliveStep, TurnBegins, CheckState, LoadCounter, StoreCounter, Expire,
     Result, TimerClear, TimerPost, Asked, Place
<1>2. at # "idle" => Looked \in Slots
  BY Looks
<1>3. UNCHANGED state => UNCHANGED Lent
  BY <1>1, SameLent
<1>4. CASE TurnBegins \/ TimerPost
  <2>1. UNCHANGED <<Lent, alive, Tick>>
    BY <1>3, <1>4, SameTick DEF TurnBegins, TimerPost
  <2> QED BY <1>1, <2>1
<1>5. CASE CheckState
  <2>1. at = "check" /\ at' \in {"idle", "check", "load"} /\ UNCHANGED <<state, alive>>
    BY <1>5, GoesOn DEF CheckState
  <2> QED BY <1>1, <1>3, <2>1, SameTick
<1>6. CASE LoadCounter
  <2>1. /\ at = "load" /\ at' = "store" /\ UNCHANGED <<state, alive, place>>
        /\ count' = IF alive[Looked] > 0 THEN alive[Looked] - 1 ELSE 0
    BY <1>6 DEF LoadCounter
  <2>2. /\ Tick[Looked] = MaxAlive /\ Tick = [s \in Slots |-> MaxAlive]
        /\ Tick' = [s \in Slots |-> IF s = Looked THEN count' ELSE MaxAlive]
    BY <1>2, <2>1, OneTick DEF Tick, Counted
  <2>3. Tick' = [Tick EXCEPT ![Looked] =
                   IF alive[Looked] > 0 THEN alive[Looked] - 1 ELSE 0]
    BY <1>2, <2>1, <2>2
  <2>4. Loans!Look(Looked)
    BY <1>1, <1>3, <2>1, <2>2, <2>3 DEF Loans!Look, Loans!NoTick, Lent, Tick, Asked
  <2> QED BY <1>2, <2>1, <2>4 DEF Loans!Next
<1>7. CASE StoreCounter
  <2>1. /\ at = "store" /\ at' \in {"expire", "result"}
        /\ UNCHANGED <<state, place, count>>
        /\ alive' = [alive EXCEPT ![Looked] = count]
    BY <1>7 DEF StoreCounter
  <2>2. UNCHANGED Tick /\ Tick[Looked] = count /\ count # MaxAlive
    BY <1>2, <2>1, SameTick, OneTick, ScreenAssumption DEF TurnCounts, ThreadsInv,
       TypeOK
  <2>3. Loans!Count(Looked)
    BY <1>1, <1>3, <2>1, <2>2 DEF Loans!Count, Loans!NoTick, Lent, Tick, Asked
  <2> QED BY <1>2, <2>1, <2>3 DEF Loans!Next
<1>8. CASE Expire
  <2>1. /\ at = "expire" /\ at' = "result" /\ UNCHANGED <<alive, place, count>>
        /\ count = 0 /\ state'[Looked] # "Acquired"
        /\ \A s \in Slots : s # Looked => state'[s] = state[s]
    BY <1>2, <1>8 DEF Expire, TurnCounts, ThreadsInv, TypeOK
  <2>2. UNCHANGED Tick /\ Tick[Looked] = 0
    BY <1>2, <2>1, SameTick, OneTick
  <2>3. Lent' = [Lent EXCEPT ![Looked] = None]
    BY <1>1, <1>2, <2>1, OneLent
  <2>4. UNCHANGED <<alive, Tick, Asked>> /\ Tick[Looked] = 0
    BY <1>1, <2>1, <2>2
  <2> QED BY <1>2, <2>1, <2>2, <2>3, <2>4, Expires
<1>9. CASE Result
  <2>1. at = "result" /\ UNCHANGED <<state, alive>>
    BY <1>9 DEF Result
  <2>2. CASE at' = "clear" /\ UNCHANGED <<place, count>>
    <3>1. UNCHANGED Tick
      BY <2>1, <2>2, SameTick
    <3> QED BY <1>1, <1>3, <2>1, <3>1
  <2>3. CASE NextPlace
    <3>1. at' \in {"idle", "check"}
      BY <2>1, <2>3, GoesOn
    <3>2. Tick' = [Tick EXCEPT ![Looked] = MaxAlive]
      BY <1>2, <2>1, <3>1, OneTick DEF Tick, Counted
    <3>3. Loans!Pass(Looked)
      BY <1>1, <1>3, <2>1, <3>2 DEF Loans!Pass, Loans!NoTick, Lent, Tick, Asked
    <3> QED BY <1>2, <2>1, <3>3 DEF Loans!Next
  <2> QED BY <1>9, <2>2, <2>3 DEF Result
<1>10. CASE TimerClear
  <2>1. /\ at = "clear" /\ at' = "post" /\ UNCHANGED <<state, place, count>>
        /\ alive' = [alive EXCEPT ![Looked] = MaxAlive]
    BY <1>10 DEF TimerClear
  <2>2. UNCHANGED Tick
    BY <2>1, SameTick
  <2>3. Loans!Renew(Looked)
    BY <1>1, <1>3, <2>1, <2>2 DEF Loans!Renew, Lent, Tick, Asked
  <2> QED BY <1>2, <2>1, <2>3 DEF Loans!Next
<1> QED
  BY <1>4, <1>5, <1>6, <1>7, <1>8, <1>9, <1>10 DEF AliveStep

\* The Qt thread ends a loan only for the turn that it clears a place for.
LEMMA QtEndsLoan ==
  ASSUME LoansInv, QtStep
  PROVE  Loans!Next \/ UNCHANGED <<Lent, alive, Tick, Asked>>
<1> USE DEF slots, server, timer, clients, LoansInv
<1>1. UNCHANGED <<req, Asked>>
  BY TakingSteps DEF Asked, Place
<1>2. CASE QtReplace
  <2>1. /\ QtPlace \in Slots /\ state[QtPlace] # "Acquired"
        /\ state'[QtPlace] # "Acquired" /\ UNCHANGED <<at, place, count>>
        /\ alive' = [alive EXCEPT ![QtPlace] = MaxAlive]
        /\ \A s \in Slots : s # QtPlace =>
             state'[s] = state[s] /\ handler'[s] = handler[s]
    BY <1>2, QtForServer DEF QtReplace, HandlerKnown, ThreadsInv, TypeOK
  <2>2. UNCHANGED <<Lent, Tick>>
    BY <2>1, SameLent, SameTick
  <2>3. Loans!Renew(QtPlace)
    BY <1>1, <2>1, <2>2 DEF Loans!Renew, Lent, Tick, Asked
  <2> QED BY <2>1, <2>3 DEF Loans!Next
<1>3. CASE QtInit \/ (QtClear /\ Head(qt).by = "uds")
  <2>1. /\ QtPlace = Place /\ Place \in Slots
        /\ UNCHANGED <<handler, alive, at, place, count>>
        /\ \A s \in Slots : s # Place => state'[s] = state[s]
    BY <1>3, QtForServer DEF QtInit, QtClear, ThreadsInv, TypeOK
  <2>2. state[Place] # "Acquired"
    BY <1>3, QtForServer DEF QtInit, QtClear, QtRuns, NotLent
  <2>3. state'[Place] # "Acquired"
    BY <1>3, <2>1, <2>2 DEF QtInit, QtClear, ThreadsInv, TypeOK
  <2>4. UNCHANGED <<Lent, Tick>>
    BY <2>1, <2>2, <2>3, SameLent, SameTick
  <2> QED BY <1>1, <2>1, <2>4
<1>4. CASE QtKeep \/ QtUpdate \/ QtRefresh
  <2>1. UNCHANGED <<handler, state, alive, at, place, count>>
    BY <1>4 DEF QtKeep, QtUpdate, QtRefresh
  <2>2. UNCHANGED <<Lent, Tick>>
    BY <2>1, SameLent, SameTick
  <2> QED BY <1>1, <2>1, <2>2
<1>5. CASE QtClear /\ Head(qt).by # "uds"
  <2>1. /\ QtPlace = Looked /\ Looked \in Slots /\ at = "blocked"
        /\ at' \in {"idle", "check"} /\ UNCHANGED <<handler, alive>>
        /\ count = 0 /\ state'[Looked] # "Acquired"
        /\ \A s \in Slots : s # Looked => state'[s] = state[s]
    BY <1>5, QtForTurn DEF QtClear, TurnCounts, ThreadsInv, TypeOK
  <2>2. Tick[Looked] = 0 /\ Tick' = [Tick EXCEPT ![Looked] = MaxAlive]
    BY <2>1, OneTick DEF Tick, Counted
  <2>3. Lent' = [Lent EXCEPT ![Looked] = None]
    BY <2>1, OneLent
  <2>4. UNCHANGED <<alive, Asked>>
    BY <1>1, <2>1
  <2> QED BY <2>1, <2>2, <2>3, <2>4, Expires
<1> QED BY <1>2, <1>3, <1>4, <1>5 DEF QtStep

\* The screen owner implements Lease, with no assumption on how its threads
\* interleave: a place is lent to one component at a time, and a loan ends only in
\* the service of a release, or by a turn that found at most one unit left of its
\* counter.  What a ping or an update gives between that turn's load and its store
\* is lost, and nothing else is.
THEOREM ImplementsLease == Spec => LeaseKept
<1>1. Init => Loans!Init
  BY DEF Init, Loans!Init, Loans!NoTick, Counted
<1>2. LoansInv /\ [Next]_vars => [Loans!Next]_<<Lent, alive, Tick, Asked>>
  <2>1. UNCHANGED vars => UNCHANGED <<Lent, alive, Tick, Asked>>
    BY DEF vars, slots, server, timer, Lent, Tick, Counted, Looked, Asked, Place
  <2>2. ASSUME NEW c \in Clients, Client(c)
        PROVE  UNCHANGED <<Lent, alive, Tick, Asked>>
    BY <2>2 DEF slots, server, timer, Client, ClientStep, Call, Crash,
       CrashConnecting, Lent, Tick, Counted, Looked, Asked, Place
  <2> QED
    BY <2>1, <2>2, UdsLends, AliveTicks, QtEndsLoan DEF Next, Uds, Alive, Qt
<1>3. LoansInv /\ [Next]_vars =>
        [Loans!Next]_<<
          [s \in Slots |-> IF state[s] = "Acquired" THEN handler[s] ELSE None],
          alive,
          [s \in Slots |-> IF Counted(s) THEN count ELSE MaxAlive],
          IF req # None /\ req.cmd = "RELEASE" THEN {Place} ELSE {}>>
  BY <1>2 DEF Lent, Tick, Asked
<1> QED BY <1>1, <1>3, LoansInvInductive, PTL DEF Spec, LeaseKept, Loans!Spec
=============================================================================
