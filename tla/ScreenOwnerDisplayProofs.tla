---------------------- MODULE ScreenOwnerDisplayProofs ----------------------
(***************************************************************************)
(* What the display shows and what its clients believe, for every set of   *)
(* clients, components and places, every length of a loan and every queue. *)
(*                                                                         *)
(* No lock keeps the server thread from a place that a turn of the alive   *)
(* timer has in hand, and what it does there breaks these properties (the  *)
(* run overtakes).  They are proved of every behaviour up to the first     *)
(* time it does so: of turns and requests that interleave in every way at  *)
(* different places, and of a request for a place that a turn has already  *)
(* asked the Qt thread to clear, or will look at next.                     *)
(***************************************************************************)
EXTENDS ScreenOwnerProofs

----------------------------------------------------------------------------
(* The places, as long as the server thread goes to no place in hand       *)

\* No turn has been made to leave a place by a counter set under it.
NoneRenewed == renewed = {}

\* An acquire finds its place free, or about to be cleared by a turn whose clear
\* comes before it, and what it has made ready stays so.
AcquireUnderWay ==
  /\ pc = "setTaken" => state[Place] = "Ready"
  /\ pc = "setAcquired" => state[Place] = "Ready" /\ taken[Place]
  /\ \A i \in DOMAIN qt :
       qt[i].by = "uds" /\ qt[i].op = "init" =>
         \/ state[Place] \in {"Empty", "Ready"}
         \/ at = "blocked" /\ Looked = Place

\* A place that is being cleared has been given up and stays given up.
ClearUnderWay ==
  /\ pc = "clear" => state[Place] \in {"Empty", "Expiring"}
  /\ at = "post" => ~taken[Looked] /\ alive[Looked] = MaxAlive
  /\ \A i \in DOMAIN qt :
       qt[i].op = "clear" =>
         /\ state[qt[i].slot] \in {"Empty", "Expiring"}
         /\ ~taken[qt[i].slot]
         /\ alive[qt[i].slot] = MaxAlive

\* What a turn has read of its place is still so.
TurnUnderWay ==
  /\ at \in {"load", "store", "expire"} => state[Looked] = "Acquired"
  /\ at = "store" => alive[Looked] > 0 /\ count = alive[Looked] - 1
  /\ at = "expire" => alive[Looked] = 0
  /\ at = "result" =>
       state[Looked] = IF alive[Looked] = 0 THEN "Expiring" ELSE "Acquired"
  /\ at \in {"clear", "post", "blocked"} => state[Looked] = "Expiring"

\* A turn finds no place acquired that an acquire or a clear is at work on, and
\* its own clear comes before theirs.
TurnAlone ==
  /\ req # None /\ (InHand(Place) \/ (at = "blocked" /\ Place = Looked)) =>
       pc \notin {"setTaken", "setAcquired"}
  /\ req # None /\ InHand(Place) =>
       /\ pc # "clear"
       /\ \A i \in DOMAIN qt :
            ~(qt[i].by = "uds" /\ qt[i].op \in {"init", "clear"})
  /\ at = "blocked" /\ req # None /\ Place = Looked =>
       \A i, j \in DOMAIN qt :
         qt[i].by = "alive" /\ qt[j].by = "uds" /\ qt[j].op \in {"init", "clear"}
           => i < j

\* A widget that is there has its children.
Widgets == \A s \in Slots : widget[s] => labels[s] = "live"

\* The comments on ComponentState_t.
StatesTell ==
  \A s \in Slots :
    /\ state[s] = "Empty" => ~taken[s] /\ ~widget[s]
    /\ state[s] = "Ready" =>
         widget[s] /\ (taken[s] => pc = "setAcquired" /\ Place = s)
    /\ state[s] = "Acquired" => taken[s] /\ widget[s]
    /\ state[s] \in {"Empty", "Ready"} => alive[s] = MaxAlive

CalmPlaces ==
  /\ NoneRenewed /\ AcquireUnderWay /\ ClearUnderWay /\ TurnUnderWay
  /\ TurnAlone /\ Widgets /\ StatesTell

\* All of it, where ~overtook.
PlacesInv == LoansInv /\ BlockedHasEvent /\ CalmPlaces

----------------------------------------------------------------------------
(* What a request has set lasts until its answer                           *)

\* The turn that is under way has not counted the place s yet.
Ahead(s) ==
  \/ at \in {"check", "load", "store"}
       /\ \E i \in place..Len(SlotOrder) : SlotOrder[i] = s
  \/ at \in {"expire", "result", "clear", "post", "blocked"}
       /\ \E i \in (place + 1)..Len(SlotOrder) : SlotOrder[i] = s

\* No more turns have counted the place since its counter was set than have
\* begun during the request.
CountedDown(s) == alive[s] + turns >= MaxAlive + IF Ahead(s) THEN 1 ELSE 0

\* The acquire that is being answered has taken its place.
Taking ==
  /\ req # None /\ req.cmd = "ACQUIRE" /\ answer = "ok"
  /\ \/ pc \in {"layout", "reply"}
     \/ /\ pc = "blocked"
        /\ \E i \in DOMAIN qt : qt[i].by = "uds" /\ qt[i].op = "update"

CounterLasts ==
  /\ pc \in {"update", "refresh"} => CountedDown(Place)
  /\ pc = "refresh" => state[Place] = "Acquired"
  /\ Taking => CountedDown(Place) /\ state[Place] = "Acquired"

\* Between a refresh and the widget it writes to there is no clear.
RefreshBeforeClear ==
  \A i \in DOMAIN qt :
    qt[i].op = "refresh" =>
      /\ labels[qt[i].slot] = "live"
      /\ \A j \in DOMAIN qt :
           j < i => ~(qt[j].op = "clear" /\ qt[j].slot = qt[i].slot)

----------------------------------------------------------------------------
(* What the clients know                                                   *)

\* No component is used by two clients.
OwnComponents ==
  \A c, d \in Clients : c # d => Uses[c] \cap Uses[d] = {}

\* A request is one its client could make, and what a client that lives
\* knows has not changed since it made it.
Sound(r) ==
  /\ waiting[r.client]
  /\ r.cmd # "ACQUIRE" => r.comp \in Uses[r.client]
  /\ ~dead[r.client] =>
       /\ r.comp \in Uses[r.client]
       /\ held[r.client] = IF r.cmd = "ACQUIRE" THEN None ELSE r.comp

\* A client has one request at a time: in the backlog or being served.
OneRequest ==
  /\ \A i \in DOMAIN backlog :
       /\ Sound(backlog[i])
       /\ req # None => backlog[i].client # req.client
       /\ \A j \in DOMAIN backlog : backlog[i].client = backlog[j].client => i = j
  /\ req # None => Sound(req)

HeldIsUsed ==
  \A c \in Clients :
    /\ held[c] # None => held[c] \in Uses[c]
    /\ dead[c] => held[c] = None

\* What HolderKeeps leaves open while a release is served: the holder keeps
\* its place until the server gives it up.
HolderKeepsUntil ==
  \A c \in Clients :
    held[c] # None /\ ~missed[c] =>
      \/ handler[SlotOf[held[c]]] = held[c] /\ state[SlotOf[held[c]]] = "Acquired"
      \/ Releasing(c) /\ (ReleaseUnderWay \/ pc = "reply")

AnswersInv == CounterLasts /\ RefreshBeforeClear

ClientsInv == OneRequest /\ HeldIsUsed /\ (~overtook => HolderKeepsUntil)

\* The server thread has counted the turn that is under way.
TurnsCounted == pc # "accept" /\ at # "idle" => turns >= 1

DisplayInv ==
  /\ LoansInv /\ BlockedHasEvent /\ TurnsCounted
  /\ ~overtook => CalmPlaces /\ AnswersInv

----------------------------------------------------------------------------
(* Who is at a place                                                       *)

\* A step of the server thread is no step of another, and where it goes to no
\* place in hand, the turn and it are at different places.
LEMMA ServerAlone ==
  ASSUME ThreadsInv, Next, ~overtook', UdsStep
  PROVE  /\ Uds /\ ~overtook /\ pc # "blocked"
         /\ UNCHANGED <<at, place, count, Looked>>
         /\ req # None => ~InHand(Place)
<1> USE DEF slots, server, timer, clients
<1>1. pc # "blocked" /\ pc' # pc /\ UNCHANGED <<at, place, count, Looked>>
  BY DEF UdsStep, Accept, Ensure, UdsBlocks, Refuse, Reply, AcquireBegin,
     AcquireTaken, AcquireDone, AcquireHeld, Layout, NotFound, Answer, PingFound,
     SetAlive, UpdateFound, QueueRefresh, ReleaseFound, ReleaseExpiring,
     ReleaseClear, Looked
<1>2. CASE Uds
  BY <1>1, <1>2 DEF Uds
<1>3. CASE Alive
  BY <1>1, <1>3 DEF Alive, AliveStep, TurnBegins, CheckState, LoadCounter,
     StoreCounter, Expire, Result, TimerClear, TimerPost
<1>4. CASE Qt
  <2>1. QtStep /\ qt # <<>>
    BY <1>4, TakingSteps DEF Qt, Takes
  <2> QED BY <1>1, <2>1, TakingSteps, QtServes
<1>5. CASE \E c \in Clients : Client(c)
  BY <1>1, <1>5 DEF Client, ClientStep, Call, Crash, CrashConnecting
<1> QED BY <1>2, <1>3, <1>4, <1>5 DEF Next

\* What has not happened had not happened before.
LEMMA NotYet ==
  ASSUME Next, ~overtook'
  PROVE  ~overtook
  BY DEF Next, Uds, Alive, Qt, Client

\* Where a turn waits for its clear, the Qt thread does not get to an acquire or
\* a clear of the same place before.
LEMMA TurnFirst ==
  ASSUME ThreadsInv, BlockedHasEvent, TurnAlone,
         QtInit \/ (QtClear /\ Head(qt).by = "uds")
  PROVE  /\ InHand(Place) => FALSE
         /\ at = "blocked" => Place # Looked
<1>1. /\ Head(qt) = qt[1] /\ 1 \in DOMAIN qt /\ Head(qt).by = "uds" /\ req # None
      /\ Head(qt).op \in {"init", "clear"}
  BY QtForServer DEF QtInit, QtClear, QtRuns
<1>2. ~InHand(Place)
  BY <1>1 DEF TurnAlone
<1>3. ASSUME at = "blocked", Place = Looked
      PROVE  FALSE
  <2>1. PICK i \in DOMAIN qt : qt[i].by = "alive"
    BY <1>3 DEF BlockedHasEvent, Posted
  <2>2. i < 1
    BY <1>1, <1>3, <2>1 DEF TurnAlone
  <2>3. i \in Nat /\ i >= 1
    BY <2>1, LenProperties DEF ThreadsInv, TypeOK
  <2> QED BY <2>2, <2>3
<1> QED BY <1>2, <1>3

\* An acquire finds its place empty or ready when the Qt thread gets to it.
LEMMA InitFinds ==
  ASSUME PlacesInv, QtInit
  PROVE  /\ state[Place] \in {"Empty", "Ready"} /\ QtPlace = Place /\ Place \in Slots
         /\ ~taken[Place] /\ alive[Place] = MaxAlive
         /\ ~InHand(Place) /\ (at = "blocked" => Place # Looked)
<1> USE DEF PlacesInv, CalmPlaces
<1>1. /\ Head(qt) = qt[1] /\ 1 \in DOMAIN qt /\ Head(qt).by = "uds" /\ QtPlace = Place
      /\ Head(qt).op = "init" /\ Place \in Slots /\ pc = "blocked"
  BY QtForServer DEF QtInit, QtRuns, LoansInv
<1>2. ~InHand(Place) /\ (at = "blocked" => Place # Looked)
  BY TurnFirst DEF LoansInv
<1>3. state[Place] \in {"Empty", "Ready"}
  BY <1>1, <1>2 DEF AcquireUnderWay
<1> QED BY <1>1, <1>2, <1>3 DEF StatesTell

\* A clear finds its place given up when the Qt thread gets to it.
LEMMA ClearFinds ==
  ASSUME PlacesInv, QtClear
  PROVE  /\ state[QtPlace] \in {"Empty", "Expiring"} /\ ~taken[QtPlace]
         /\ alive[QtPlace] = MaxAlive /\ QtPlace \in Slots
         /\ Head(qt).by = "uds" =>
              ~InHand(Place) /\ (at = "blocked" => Place # Looked)
<1> USE DEF PlacesInv, CalmPlaces, LoansInv
<1>1. qt # <<>> /\ Head(qt).op = "clear"
  BY DEF QtClear, QtRuns
<1>2. Head(qt) = qt[1] /\ 1 \in DOMAIN qt /\ QtPlace \in Slots
  BY <1>1, QtServes
<1> QED BY <1>1, <1>2, TurnFirst DEF ClearUnderWay, QtPlace

\* A handler is replaced at a place that no turn works on or waits for.
LEMMA ReplaceFinds ==
  ASSUME PlacesInv, QtReplace
  PROVE  /\ QtPlace = Place /\ Place \in Slots /\ ~InHand(Place)
         /\ at = "blocked" => Place # Looked
<1> USE DEF PlacesInv, CalmPlaces, LoansInv
<1>1. QtPlace = Place /\ Place \in Slots
  BY QtForServer
<1>2. handler[Place] = None \/ state[Place] = "Empty"
  BY <1>1 DEF QtReplace
<1> QED BY <1>1, <1>2, ReplacesIdle DEF HandlerKnown, TurnUnderWay

----------------------------------------------------------------------------
(* The steps                                                               *)

\* The server thread does not set the counter of a turn that has found zero.
LEMMA NoneRenewedKept ==
  ASSUME PlacesInv, ~overtook', Next
  PROVE  NoneRenewed'
<1> USE DEF PlacesInv, CalmPlaces, LoansInv, NoneRenewed
<1>1. CASE Uds
  <2>1. UdsStep
    BY <1>1 DEF Uds
  <2>2. ASSUME at \in {"expire", "result"}, count = 0, alive'[Looked] > 0
        PROVE  FALSE
    <3>1. alive[Looked] = 0 /\ Looked \in Slots
      BY <2>2, Looks DEF Forgotten
    <3>2. pc # "accept" => Place # Looked
      BY <2>1, <2>2, ServerAlone, Serves DEF InHand
    <3>3. \A s \in Slots : alive'[s] = alive[s] \/ (s = Place /\ pc # "accept")
      BY <2>1 DEF UdsStep, Accept, Ensure, Refuse, Reply, AcquireBegin,
         AcquireTaken, AcquireDone, AcquireHeld, Layout, NotFound, PingFound,
         SetAlive, UpdateFound, QueueRefresh, ReleaseFound, ReleaseExpiring,
         ReleaseClear, slots, ThreadsInv, TypeOK
    <3> QED BY <2>2, <3>1, <3>2, <3>3
  <2> QED BY <1>1, <2>2 DEF Uds
<1>2. CASE Alive
  BY <1>2 DEF Alive
<1>3. CASE Qt \/ \E c \in Clients : Client(c)
  BY <1>3 DEF Qt, Client
<1> QED BY <1>1, <1>2, <1>3 DEF Next

\* A place that an acquire has made ready is left alone until it is taken.
LEMMA AcquireUnderWayKept ==
  ASSUME PlacesInv, ~overtook', Next
  PROVE  AcquireUnderWay'
<1> USE DEF slots, server, timer, clients, PlacesInv, CalmPlaces, LoansInv
<1>1. CASE Accept \/ Refuse \/ Reply \/ Ensure
  BY <1>1, EventsFrom DEF Accept, Refuse, Reply, Ensure, UdsBlocks,
     AcquireUnderWay, Place
<1>2. CASE AcquireTaken
  BY <1>2, Serves, EventsFrom DEF AcquireTaken, ThreadsInv, TypeOK,
     AcquireUnderWay, Place
<1>3. CASE AcquireDone \/ AcquireHeld \/ NotFound \/ PingFound
  BY <1>3, EventsFrom DEF AcquireDone, AcquireHeld, Held, NotFound,
     Answer, PingFound, AcquireUnderWay, Place
<1>4. CASE SetAlive \/ UpdateFound \/ ReleaseFound \/ ReleaseExpiring
  BY <1>4, EventsFrom DEF SetAlive, Answer, UpdateFound, Held,
     ReleaseFound, ReleaseExpiring, AcquireUnderWay, Place
<1>5. CASE AcquireBegin
  <2>1. pc = "handle" /\ Place \in Slots /\ ~Held /\ req # None
        /\ pc' = "blocked" /\ UNCHANGED <<state, taken, at, place, Place, Looked>>
    BY <1>5, Serves DEF AcquireBegin, UdsBlocks, Place, Looked
  <2>2. ~InHand(Place)
    BY <1>5, <2>1, ServerAlone DEF UdsStep
  <2>3. ASSUME state[Place] = "Expiring"
        PROVE  at = "blocked" /\ Looked = Place
    <3>1. at \in {"result", "clear", "post", "blocked"} /\ Looked = Place
      BY <2>1, <2>3 DEF Forgotten, ReleaseUnderWay, NoneRenewed
    <3> QED BY <2>2, <3>1 DEF InHand
  <2>4. state[Place] \in {"Empty", "Ready"} \/ (at = "blocked" /\ Looked = Place)
    BY <2>1, <2>3 DEF ThreadsInv, TypeOK, States, Held
  <2> QED BY <2>1, <2>4, EventsFrom DEF AcquireUnderWay
<1>6. CASE Layout \/ ReleaseClear \/ QueueRefresh
  BY <1>6, EventsFrom DEF Layout, UdsBlocks, ReleaseClear, QueueRefresh,
     Answer, AcquireUnderWay, Place
<1>7. CASE QtReplace \/ QtKeep \/ QtUpdate
  BY <1>7, QtForServer, EventsFrom DEF QtReplace, QtRuns, QtPlace, QtKeep,
     QtUpdate, AcquireUnderWay, Place
<1>8. CASE QtInit
  <2>1. pc' = "setTaken" /\ UNCHANGED <<req, Place>> /\ QtPlace = Place
        /\ Place \in Slots /\ state[Place] \in {"Empty", "Ready"}
    BY <1>8, InitFinds DEF QtInit, Place
  <2>2. state'[Place] = "Ready"
    BY <1>8, <2>1 DEF QtInit, StatesTell, ThreadsInv, TypeOK
  <2> QED BY <2>1, <2>2, EventsFrom DEF AcquireUnderWay
<1>9. CASE QtRefresh
  BY <1>9, EventsFrom DEF QtRefresh, QtRuns, AcquireUnderWay, Place, Looked
<1>10. CASE QtClear
  <2>1. CASE Head(qt).by = "uds"
    <3>1. pc' = "reply"
      BY <1>10, <2>1 DEF QtClear
    <3> QED BY <3>1, EventsFrom, <1>10, <2>1, QtForServer DEF AcquireUnderWay
  <2>2. CASE Head(qt).by # "uds"
    <3>1. /\ at = "blocked" /\ UNCHANGED <<pc, req, taken, Place>>
          /\ QtPlace = Looked /\ Looked \in Slots
          /\ state'[Looked] = "Empty"
          /\ \A s \in Slots : s # Looked => state'[s] = state[s]
      BY <1>10, <2>2, QtForTurn DEF QtClear, ThreadsInv, TypeOK, Place
    <3>2. pc \in {"setTaken", "setAcquired"} => Place # Looked /\ Place \in Slots
      BY <3>1, Serves DEF TurnAlone
    <3>3. ASSUME NEW i \in DOMAIN qt', qt'[i].by = "uds", qt'[i].op = "init"
          PROVE  state'[Place] \in {"Empty", "Ready"}
      <4>1. pc = "blocked" /\ \E j \in DOMAIN qt : qt[j] = qt'[i]
        BY <3>1, <3>3, EventsFrom
      <4>2. Place \in Slots /\
            (state[Place] \in {"Empty", "Ready"} \/ Looked = Place)
        BY <3>3, <4>1, Serves DEF AcquireUnderWay
      <4> QED BY <3>1, <4>2
    <3> QED BY <3>1, <3>2, <3>3 DEF AcquireUnderWay
  <2> QED BY <2>1, <2>2
<1>11. CASE Expire
  <2>1. /\ at = "expire" /\ UNCHANGED <<taken, qt, pc, req, Place>>
        /\ Looked \in Slots
        /\ \A s \in Slots : s # Looked => state'[s] = state[s]
    BY <1>11, Looks DEF Expire, ThreadsInv, TypeOK, Place
  <2>2. pc \in {"setTaken", "setAcquired"} => Place # Looked /\ Place \in Slots
    BY <2>1, Serves DEF TurnAlone, InHand
  <2>3. \A i \in DOMAIN qt :
          qt[i].by = "uds" /\ qt[i].op = "init" => Place # Looked /\ Place \in Slots
    BY <2>1, Serves DEF TurnAlone, InHand, ThreadsInv, EventsWaitedFor
  <2> QED BY <2>1, <2>2, <2>3 DEF AcquireUnderWay
<1>12. CASE TimerClear
  <2>1. /\ at = "clear" /\ UNCHANGED <<state, qt, pc, req, Place>>
        /\ Looked \in Slots
        /\ \A s \in Slots : s # Looked => taken'[s] = taken[s]
    BY <1>12, Looks DEF TimerClear, ThreadsInv, TypeOK, Place
  <2>2. pc = "setAcquired" => Place # Looked /\ Place \in Slots
    BY <2>1, Serves DEF TurnAlone, InHand
  <2> QED BY <2>1, <2>2 DEF AcquireUnderWay
<1>13. CASE TimerPost
  BY <1>13, EventsFrom DEF TimerPost, AcquireUnderWay, Place
<1>14. CASE TurnBegins \/ CheckState \/ LoadCounter \/ StoreCounter \/ Result
  <2>1. at # "blocked" /\ UNCHANGED <<state, taken, qt, pc, req, Place>>
    BY <1>14 DEF TurnBegins, CheckState, LoadCounter, StoreCounter, Result, Place
  <2> QED BY <2>1 DEF AcquireUnderWay
<1>15. CASE UNCHANGED <<state, taken, pc, req, qt, at, place>>
  BY <1>15 DEF AcquireUnderWay, Place, Looked
<1> QED
  BY ZenonT(30), NextCases, <1>1, <1>2, <1>3, <1>4, <1>5, <1>6, <1>7, <1>8,
     <1>9, <1>10, <1>11, <1>12, <1>13, <1>14, <1>15 DEF Call, Crash, Gone,
     CrashConnecting

\* Every event is the server thread's, the turn's or a refresh.
LEMMA EventKinds ==
  ASSUME ThreadsInv, Next, NEW i \in DOMAIN qt'
  PROVE  /\ qt'[i].by \in {"uds", "alive", "none"}
         /\ qt'[i].by = "none" <=> qt'[i].op = "refresh"
         /\ qt'[i].by = "alive" => qt'[i].op = "clear"
         /\ qt'[i].slot \in Slots
<1>1. qt'[i] \in Calls
  BY QueueType, LenProperties, ElementOfSeq
<1> QED BY <1>1, EventsByOpKept DEF EventsByOp, Calls

\* Where a clear that was asked for can have come from.
LEMMA ClearsFrom ==
  ASSUME ThreadsInv, Next, NEW i \in DOMAIN qt', qt'[i].op = "clear"
  PROVE  /\ qt'[i].slot \in Slots
         /\ \/ /\ \E j \in DOMAIN qt : qt[j] = qt'[i]
               /\ \/ /\ qt'[i].by = "uds" /\ qt'[i].slot = Place /\ pc = "blocked"
                     /\ UNCHANGED <<pc, req>> /\ req # None
                  \/ /\ qt'[i].by = "alive" /\ qt'[i].slot = Looked /\ at = "blocked"
                     /\ UNCHANGED <<at, place>>
            \/ qt'[i].slot = Place /\ pc = "clear" /\ pc' = "blocked"
            \/ qt'[i].slot = Looked /\ at = "post" /\ at' = "blocked"
  BY EventsFrom, EventKinds DEF ThreadsInv, EventsWaitedFor

\* A place that is being cleared stays given up until the Qt thread clears it.
LEMMA ClearUnderWayKept ==
  ASSUME PlacesInv, ~overtook', Next
  PROVE  ClearUnderWay'
<1> USE DEF slots, server, timer, clients, PlacesInv, CalmPlaces, LoansInv
<1>1. CASE Accept \/ Ensure \/ Refuse \/ Reply \/ AcquireBegin \/ AcquireHeld
           \/ Layout \/ NotFound \/ PingFound \/ UpdateFound \/ QueueRefresh
           \/ ReleaseFound
  <2>1. /\ UNCHANGED <<state, taken, alive, at, place, Looked>>
        /\ pc' # "clear" /\ pc # "clear"
    BY <1>1 DEF Accept, Ensure, UdsBlocks, Refuse, Reply, AcquireBegin, AcquireHeld,
       Layout, NotFound, Answer, PingFound, UpdateFound, QueueRefresh, ReleaseFound,
       Looked
  <2> QED BY <2>1, ClearsFrom DEF ClearUnderWay
<1>2. CASE AcquireTaken \/ AcquireDone \/ ReleaseExpiring \/ SetAlive \/ ReleaseClear
  <2>1. /\ pc \notin {"accept", "blocked"} /\ Place \in Slots /\ req # None
        /\ UNCHANGED <<at, place, Looked>>
    BY <1>2, Serves DEF AcquireTaken, AcquireDone, ReleaseExpiring, SetAlive,
       ReleaseClear, Looked
  <2>2. ~InHand(Place)
    BY <1>2, <2>1, ServerAlone DEF UdsStep
  <2>3. /\ \A s \in Slots : s # Place =>
             state'[s] = state[s] /\ taken'[s] = taken[s] /\ alive'[s] = alive[s]
        /\ UNCHANGED <<req, Place>>
    BY <1>2 DEF AcquireTaken, AcquireDone, ReleaseExpiring, SetAlive,
       ReleaseClear, ThreadsInv, TypeOK, Place
  <2>4. at = "post" => Looked # Place /\ Looked \in Slots
    BY <2>2, Looks DEF InHand
  <2>5. CASE AcquireTaken \/ AcquireDone
    <3>1. pc' # "clear" /\ pc \in {"setTaken", "setAcquired"}
      BY <2>5 DEF AcquireTaken, AcquireDone
    <3>2. at = "blocked" => Place # Looked
      BY <2>1, <3>1 DEF TurnAlone
    <3> QED BY <2>1, <2>3, <2>4, <3>1, <3>2, ClearsFrom DEF ClearUnderWay
  <2>6. CASE ReleaseExpiring
    <3>1. pc' = "clear" /\ state'[Place] = "Expiring" /\ UNCHANGED <<taken, alive>>
          /\ pc = "setExpiring"
      BY <2>1, <2>6 DEF ReleaseExpiring, ThreadsInv, TypeOK
    <3> QED BY <2>1, <2>3, <2>4, <3>1, ClearsFrom DEF ClearUnderWay
  <2>7. CASE SetAlive
    <3>1. pc' # "clear" /\ alive'[Place] = MaxAlive /\ UNCHANGED <<state, taken>>
          /\ pc # "clear"
      BY <2>1, <2>7 DEF SetAlive, Answer, ThreadsInv, TypeOK
    <3> QED BY <2>1, <2>3, <2>4, <3>1, ClearsFrom DEF ClearUnderWay
  <2>8. CASE ReleaseClear
    <3>1. pc' = "blocked" /\ pc = "clear" /\ alive'[Place] = MaxAlive
          /\ ~taken'[Place] /\ UNCHANGED state
      BY <2>1, <2>8 DEF ReleaseClear, UdsBlocks, ThreadsInv, TypeOK
    <3> QED BY <2>1, <2>3, <2>4, <3>1, ClearsFrom DEF ClearUnderWay
  <2> QED BY <1>2, <2>5, <2>6, <2>7, <2>8
<1>3. CASE TurnBegins \/ CheckState \/ LoadCounter \/ Result
  <2>1. /\ UNCHANGED <<state, taken, alive, qt, pc, req, Place>>
        /\ at' # "post"
    BY <1>3, GoesOn DEF TurnBegins, CheckState, LoadCounter, Result, Place
  <2> QED BY <2>1 DEF ClearUnderWay
<1>4. CASE StoreCounter \/ Expire
  <2>1. /\ at \in {"store", "expire"} /\ at' \in {"expire", "result"}
        /\ Looked \in Slots /\ UNCHANGED <<taken, qt, pc, req, Place>>
        /\ state'[Looked] \in {state[Looked], "Expiring"}
        /\ \A s \in Slots : s # Looked => state'[s] = state[s] /\ alive'[s] = alive[s]
    BY <1>4, Looks DEF StoreCounter, Expire, ThreadsInv, TypeOK, Place
  <2>2. pc = "clear" => Place # Looked /\ Place \in Slots
    BY <2>1, Serves DEF TurnAlone, InHand
  <2>3. \A i \in DOMAIN qt : qt[i].op = "clear" => qt[i].slot # Looked
    BY <2>1 DEF TurnAlone, InHand, ThreadsInv, EventsWaitedFor, EventsByOp,
       ClearUnderWay, TurnUnderWay
  <2>4. \A i \in DOMAIN qt : qt[i].slot \in Slots
    BY <2>1, EventKinds
  <2> QED BY <2>1, <2>2, <2>3, <2>4 DEF ClearUnderWay
<1>5. CASE TimerClear
  <2>1. /\ at = "clear" /\ at' = "post" /\ Looked \in Slots
        /\ UNCHANGED <<state, qt, pc, req, Place, Looked>>
        /\ ~taken'[Looked] /\ alive'[Looked] = MaxAlive
        /\ \A s \in Slots : s # Looked => taken'[s] = taken[s] /\ alive'[s] = alive[s]
    BY <1>5, Looks DEF TimerClear, ThreadsInv, TypeOK, Place, Looked
  <2>2. \A i \in DOMAIN qt : qt[i].slot \in Slots
    BY <2>1, EventKinds
  <2> QED BY <2>1, <2>2 DEF ClearUnderWay
<1>6. CASE TimerPost
  <2>1. /\ at = "post" /\ at' = "blocked" /\ Looked \in Slots
        /\ UNCHANGED <<state, taken, alive, pc, req, Place, Looked>>
    BY <1>6, Looks DEF TimerPost, Place, Looked
  <2>2. state[Looked] = "Expiring"
    BY <2>1 DEF TurnUnderWay
  <2> QED BY <2>1, <2>2, ClearsFrom DEF ClearUnderWay
<1>7. CASE QtReplace
  <2>1. /\ QtPlace = Place /\ Place \in Slots /\ ~InHand(Place)
        /\ at = "blocked" => Place # Looked
    BY <1>7, ReplaceFinds
  <2>2. /\ pc' = "handle" /\ pc = "blocked" /\ UNCHANGED <<at, place, Looked>>
        /\ \A s \in Slots : s # Place =>
             state'[s] = state[s] /\ taken'[s] = taken[s] /\ alive'[s] = alive[s]
    BY <1>7, <2>1, QtForServer DEF QtReplace, ThreadsInv, TypeOK, Looked
  <2>3. at = "post" => Looked # Place /\ Looked \in Slots
    BY <2>1, Looks DEF InHand
  <2> QED BY <2>1, <2>2, <2>3, ClearsFrom DEF ClearUnderWay
<1>8. CASE QtKeep \/ QtUpdate \/ QtRefresh
  <2>1. /\ UNCHANGED <<state, taken, alive, at, place, Looked>>
        /\ pc' \in {"refuse", "reply"} \/ UNCHANGED <<pc, req, Place>>
    BY <1>8 DEF QtKeep, QtUpdate, QtRefresh, Looked, Place
  <2> QED BY <2>1, ClearsFrom DEF ClearUnderWay
<1>9. CASE QtInit
  <2>1. /\ QtPlace = Place /\ Place \in Slots
        /\ at = "blocked" => Place # Looked
    BY <1>9, InitFinds
  <2>2. /\ pc' = "setTaken" /\ pc = "blocked"
        /\ UNCHANGED <<taken, alive, at, place, Looked>>
        /\ \A s \in Slots : s # Place => state'[s] = state[s]
    BY <1>9, <2>1, QtForServer DEF QtInit, ThreadsInv, TypeOK, Looked
  <2> QED BY <2>1, <2>2, ClearsFrom DEF ClearUnderWay
<1>10. CASE QtClear
  <2>1. /\ QtPlace \in Slots /\ state'[QtPlace] = "Empty"
        /\ UNCHANGED <<taken, alive, req, Place>>
        /\ \A s \in Slots : s # QtPlace => state'[s] = state[s]
    BY <1>10, ClearFinds DEF QtClear, ThreadsInv, TypeOK, Place
  <2>2. pc' = "clear" => UNCHANGED pc /\ Place \in Slots
    BY <1>10, <2>1, QtForTurn, Serves DEF QtClear
  <2>3. at' # "post" \/ UNCHANGED <<at, Looked>>
    BY <1>10, QtForTurn DEF QtClear, Looked
  <2>4. \A i \in DOMAIN qt' :
          qt'[i].op = "clear" => \E j \in DOMAIN qt : qt[j] = qt'[i]
    BY <1>10, TakingSteps, AfterTake DEF QtStep
  <2>5. \A i \in DOMAIN qt' : qt'[i].slot \in Slots
    BY EventKinds
  <2>6. pc' = "clear" => state'[Place] \in {"Empty", "Expiring"}
    BY <2>1, <2>2 DEF ClearUnderWay
  <2>7. \A i \in DOMAIN qt' :
          qt'[i].op = "clear" =>
            /\ state[qt'[i].slot] \in {"Empty", "Expiring"} /\ ~taken[qt'[i].slot]
            /\ alive[qt'[i].slot] = MaxAlive
    BY <2>4 DEF ClearUnderWay
  <2>8. \A i \in DOMAIN qt' :
          qt'[i].op = "clear" => state'[qt'[i].slot] \in {"Empty", "Expiring"}
    BY <2>1, <2>5, <2>7
  <2>9. at' = "post" => ~taken[Looked'] /\ alive[Looked'] = MaxAlive
    BY <2>3 DEF ClearUnderWay
  <2> QED BY <2>1, <2>6, <2>7, <2>8, <2>9 DEF ClearUnderWay
<1>11. CASE UNCHANGED <<state, taken, alive, pc, req, qt, at, place>>
  BY <1>11 DEF ClearUnderWay, Place, Looked
<1> QED
  BY ZenonT(30), NextCases, <1>1, <1>2, <1>3, <1>4, <1>5, <1>6, <1>7, <1>8,
     <1>9, <1>10, <1>11 DEF Call, Crash, Gone, CrashConnecting

\* What the turn has seen of its place stays so: the server thread is not there,
\* and what the Qt thread has to do concerns other places.
LEMMA TurnUnderWayKept ==
  ASSUME PlacesInv, ~overtook', Next
  PROVE  TurnUnderWay'
<1> USE DEF slots, server, timer, clients, PlacesInv, CalmPlaces, LoansInv
<1>1. CASE CheckState
  <2>1. at = "check" /\ at' \in {"idle", "check", "load"}
        /\ (at' = "load" => state'[Looked'] = "Acquired")
    BY <1>1, GoesOn DEF CheckState, Looked
  <2> QED BY <2>1 DEF TurnUnderWay
<1>2. CASE LoadCounter
  BY <1>2, Looks DEF LoadCounter, ThreadsInv, TypeOK, TurnCounts, TurnUnderWay, Looked
<1>3. CASE StoreCounter
  BY <1>3, Looks DEF StoreCounter, ThreadsInv, TypeOK, TurnUnderWay, Looked
<1>4. CASE Expire
  BY <1>4, Looks DEF Expire, ThreadsInv, TypeOK, TurnUnderWay, Looked
<1>5. CASE Result
  <2>1. at = "result" /\ UNCHANGED <<state, alive>>
    BY <1>5 DEF Result
  <2>2. CASE alive[Looked] = 0
    BY <1>5, <2>1, <2>2 DEF Result, TurnUnderWay, Looked
  <2>3. CASE alive[Looked] # 0
    <3>1. at' \in {"idle", "check"}
      BY <1>5, <2>1, <2>3, GoesOn DEF Result
    <3> QED BY <3>1 DEF TurnUnderWay
  <2> QED BY <2>2, <2>3
<1>6. CASE TurnBegins
  BY <1>6 DEF TurnBegins, TurnUnderWay, Looked
<1>7. CASE TimerClear \/ TimerPost
  BY <1>7, Looks DEF TimerClear, TimerPost, TurnUnderWay, Looked
<1>8. CASE Accept \/ Ensure \/ Refuse \/ Reply \/ AcquireBegin \/ AcquireTaken
           \/ AcquireHeld \/ Layout \/ NotFound \/ PingFound \/ UpdateFound
           \/ QueueRefresh \/ ReleaseFound
  <2>1. UNCHANGED <<state, alive, at, place, count, Looked>>
    BY <1>8 DEF Accept, Ensure, Refuse, Reply, AcquireBegin, AcquireTaken,
       AcquireHeld, Layout, NotFound, PingFound, UpdateFound, QueueRefresh,
       ReleaseFound, Looked
  <2> QED BY <2>1 DEF TurnUnderWay
<1>9. CASE AcquireDone \/ ReleaseExpiring \/ SetAlive \/ ReleaseClear
  <2>1. /\ pc \notin {"accept", "blocked"} /\ Place \in Slots /\ req # None
        /\ UNCHANGED <<at, place, count, Looked>>
    BY <1>9, Serves DEF AcquireDone, ReleaseExpiring, SetAlive, ReleaseClear, Looked
  <2>2. ~InHand(Place)
    BY <1>9, <2>1, ServerAlone DEF UdsStep
  <2>3. \A s \in Slots : s # Place => state'[s] = state[s] /\ alive'[s] = alive[s]
    BY <1>9 DEF AcquireDone, ReleaseExpiring, SetAlive, ReleaseClear, ThreadsInv,
       TypeOK
  <2>4. at \in {"load", "store", "expire", "result", "clear", "post"} =>
          Looked # Place /\ Looked \in Slots
    BY <2>2, Looks DEF InHand
  <2>5. at = "blocked" /\ Looked = Place => state'[Place] \in {state[Place], "Expiring"}
    <3>1. CASE AcquireDone
      BY <2>1, <3>1 DEF AcquireDone, TurnAlone
    <3>2. CASE ReleaseExpiring \/ SetAlive \/ ReleaseClear
      BY <2>1, <3>2 DEF ReleaseExpiring, SetAlive, ReleaseClear, ThreadsInv, TypeOK
    <3> QED BY <1>9, <3>1, <3>2
  <2>6. at = "blocked" => Looked \in Slots
    BY Looks
  <2> QED BY <2>1, <2>3, <2>4, <2>5, <2>6 DEF TurnUnderWay
<1>10. CASE QtReplace \/ QtInit \/ (QtClear /\ Head(qt).by = "uds")
  <2>1. /\ QtPlace = Place /\ Place \in Slots /\ ~InHand(Place)
        /\ at = "blocked" => Place # Looked
    BY <1>10, ReplaceFinds, InitFinds, ClearFinds, QtForServer
  <2>2. /\ UNCHANGED <<at, place, count, Looked>>
        /\ \A s \in Slots : s # Place => state'[s] = state[s] /\ alive'[s] = alive[s]
    BY <1>10, <2>1 DEF QtReplace, QtInit, QtClear, ThreadsInv, TypeOK, Looked
  <2>3. at \in {"load", "store", "expire", "result", "clear", "post", "blocked"} =>
          Looked # Place /\ Looked \in Slots
    BY <2>1, Looks DEF InHand
  <2> QED BY <2>2, <2>3 DEF TurnUnderWay
<1>11. CASE QtKeep \/ QtUpdate \/ QtRefresh
  BY <1>11 DEF QtKeep, QtUpdate, QtRefresh, TurnUnderWay, Looked
<1>12. CASE QtClear /\ Head(qt).by # "uds"
  BY <1>12, QtForTurn DEF TurnUnderWay
<1>13. CASE UNCHANGED <<state, alive, at, place, count>>
  BY <1>13 DEF TurnUnderWay, Looked
<1> QED
  BY ZenonT(30), NextCases, <1>1, <1>2, <1>3, <1>4, <1>5, <1>6, <1>7, <1>8,
     <1>9, <1>10, <1>11, <1>12, <1>13 DEF Call, Crash, Gone, CrashConnecting

\* The order of two events of the queue lasts as long as they do.
LEMMA InOrder ==
  ASSUME ThreadsInv, qt # <<>>, qt' = Tail(qt), at = "blocked", req # None,
         Place = Looked, TurnAlone
  PROVE  \A i, j \in DOMAIN qt' :
           /\ qt'[i].by = "alive" /\ qt'[j].by = "uds" /\ qt'[j].op \in {"init", "clear"}
           => i < j
<1>1. \A i \in DOMAIN qt' : i \in Nat /\ i + 1 \in DOMAIN qt /\ qt'[i] = qt[i + 1]
  BY AfterTake DEF Takes
<1> QED BY <1>1 DEF TurnAlone

\* A turn finds no place acquired that an acquire or a clear is at work on, and
\* posts its own clear before theirs.
LEMMA TurnAloneKept ==
  ASSUME PlacesInv, ~overtook', Next
  PROVE  TurnAlone'
<1> USE DEF slots, server, timer, clients, PlacesInv, CalmPlaces, LoansInv
<1>1. CASE UdsStep
  <2>1. UNCHANGED <<at, place, Looked>> /\ pc # "blocked"
    BY <1>1, ServerAlone
  <2>2. CASE Accept
    <3>1. pc' = "ensure" /\ UNCHANGED qt
      BY <2>2 DEF Accept
    <3> QED BY <2>1, <3>1 DEF TurnAlone, ThreadsInv, EventsWaitedFor
  <2>3. CASE Refuse \/ Reply
    BY <2>3 DEF Refuse, Reply, TurnAlone
  <2>4. CASE ~(Accept \/ Refuse \/ Reply)
    <3>1. /\ pc # "accept" /\ UNCHANGED <<req, Place>> /\ pc' # "setTaken"
          /\ pc' = "setAcquired" => pc = "setTaken"
      BY <1>1, <2>4 DEF UdsStep, Ensure, UdsBlocks, AcquireBegin, AcquireTaken,
         AcquireDone, AcquireHeld, Layout, NotFound, Answer, PingFound, SetAlive,
         UpdateFound, QueueRefresh, ReleaseFound, ReleaseExpiring, ReleaseClear,
         Place
    <3>2. req # None /\ ~InHand(Place)
      BY <1>1, <3>1, Serves, ServerAlone
    <3>3. ~InHand(Place)'
      BY <2>1, <3>1, <3>2 DEF InHand
    <3>4. ASSUME NEW i \in DOMAIN qt', NEW j \in DOMAIN qt', qt'[i].by = "alive",
                 qt'[j].by = "uds", at = "blocked"
          PROVE  i < j
      <4>1. UNCHANGED qt \/ \E op \in {"ensure", "init", "update", "clear"} :
                              Posts(op, "uds", Place)
        BY <2>1, <3>4, EventsFrom, QueueSteps, <1>1, TakingSteps, QtServes, <3>1,
           ServerAlone DEF Takes
      <4>2. ~(j \in DOMAIN qt /\ qt'[j] = qt[j])
        BY <2>1, <3>4 DEF ThreadsInv, EventsWaitedFor
      <4>3. CASE UNCHANGED qt
        BY <3>4, <4>2, <4>3
      <4>4. ASSUME NEW op \in {"ensure", "init", "update", "clear"},
                   Posts(op, "uds", Place)
            PROVE  i < j
        <5>1. [op |-> op, by |-> "uds", slot |-> Place] \in Calls
          BY <3>1, Serves DEF Calls
        <5>2. /\ j = Len(qt) + 1
              /\ i \in DOMAIN qt
          BY <3>4, <4>2, <4>4, <5>1, AfterPost
        <5> QED BY <5>2, LenProperties DEF ThreadsInv, TypeOK
      <4> QED BY <4>1, <4>3, <4>4
    <3> QED BY <2>1, <3>1, <3>2, <3>3, <3>4 DEF TurnAlone
  <2> QED BY <2>2, <2>3, <2>4
<1>2. CASE TurnBegins
  BY <1>2 DEF TurnBegins, TurnAlone, InHand
<1>3. CASE CheckState
  <2>1. at = "check" /\ UNCHANGED <<state, qt, pc, req, Place>>
    BY <1>3 DEF CheckState, Place
  <2>2. CASE state[Looked] = "Acquired" /\ at' = "load" /\ UNCHANGED <<place, Looked>>
    <3>1. ASSUME Place = Looked
          PROVE  /\ pc \notin {"setTaken", "setAcquired", "clear"}
                 /\ \A i \in DOMAIN qt :
                      ~(qt[i].by = "uds" /\ qt[i].op \in {"init", "clear"})
      BY <2>2, <3>1 DEF NotLent
    <3> QED BY <2>1, <2>2, <3>1 DEF TurnAlone, InHand
  <2>3. CASE NextPlace
    <3>1. at' \in {"idle", "check"}
      BY <2>1, <2>3, GoesOn
    <3> QED BY <3>1 DEF TurnAlone, InHand
  <2> QED BY <1>3, <2>2, <2>3 DEF CheckState, Looked
<1>4. CASE LoadCounter \/ StoreCounter \/ Expire \/ TimerClear
  <2>1. /\ UNCHANGED <<qt, pc, req, Place, place, Looked>>
        /\ at \in {"load", "store", "expire", "clear"} /\ at' # "blocked"
    BY <1>4 DEF LoadCounter, StoreCounter, Expire, TimerClear, Place, Looked
  <2> QED BY <2>1 DEF TurnAlone, InHand
<1>5. CASE Result
  <2>1. at = "result" /\ UNCHANGED <<qt, pc, req, Place>>
    BY <1>5 DEF Result, Place
  <2>2. CASE at' = "clear" /\ UNCHANGED <<place, Looked>>
    BY <2>1, <2>2 DEF TurnAlone, InHand
  <2>3. CASE NextPlace
    <3>1. at' \in {"idle", "check"}
      BY <2>1, <2>3, GoesOn
    <3> QED BY <3>1 DEF TurnAlone, InHand
  <2> QED BY <1>5, <2>2, <2>3 DEF Result, Looked
<1>6. CASE TimerPost
  <2>1. /\ UNCHANGED <<pc, req, Place, place, Looked>> /\ at = "post"
        /\ at' = "blocked"
    BY <1>6 DEF TimerPost, Place, Looked
  <2>2. ASSUME req # None, Place = Looked
        PROVE  /\ pc \notin {"setTaken", "setAcquired"}
               /\ \A j \in DOMAIN qt' :
                    ~(qt'[j].by = "uds" /\ qt'[j].op \in {"init", "clear"})
    <3>1. InHand(Place)
      BY <2>1, <2>2 DEF InHand
    <3>2. \A j \in DOMAIN qt' :
            qt'[j].by = "uds" => \E k \in DOMAIN qt : qt[k] = qt'[j]
      BY <2>1, EventsFrom, Serves
    <3> QED BY <2>2, <3>1, <3>2 DEF TurnAlone
  <2> QED BY <2>1, <2>2 DEF TurnAlone, InHand
<1>7. CASE QtReplace \/ QtKeep \/ QtUpdate \/ (QtClear /\ Head(qt).by = "uds")
  <2>1. pc' \notin {"setTaken", "setAcquired", "clear", "blocked"}
    BY <1>7 DEF QtReplace, QtKeep, QtUpdate, QtClear
  <2>2. \A i \in DOMAIN qt' : qt'[i].by # "uds"
    BY <2>1, EventsFrom, <1>7, QtForServer
  <2> QED BY <2>1, <2>2 DEF TurnAlone
<1>8. CASE QtInit
  <2>1. /\ pc' = "setTaken" /\ UNCHANGED <<req, Place, at, place, Looked>>
        /\ pc = "blocked"
    BY <1>8, QtForServer DEF QtInit, Place, Looked
  <2>2. ~InHand(Place) /\ (at = "blocked" => Place # Looked)
    BY <1>8, InitFinds
  <2> QED BY <2>1, <2>2 DEF TurnAlone, InHand
<1>9. CASE QtRefresh
  <2>1. /\ UNCHANGED <<pc, req, Place, at, place, Looked>>
        /\ qt # <<>> /\ qt' = Tail(qt)
    BY <1>9 DEF QtRefresh, QtRuns, Place, Looked
  <2>2. \A i \in DOMAIN qt' : \E j \in DOMAIN qt : qt[j] = qt'[i]
    BY <2>1, AfterTake DEF Takes
  <2> QED BY <2>1, <2>2, InOrder DEF TurnAlone, InHand
<1>10. CASE QtClear /\ Head(qt).by # "uds"
  BY <1>10, QtForTurn DEF TurnAlone, InHand
<1>11. CASE UNCHANGED <<qt, pc, req, at, place>>
  BY <1>11 DEF TurnAlone, InHand, Place, Looked
<1> QED
  BY ZenonT(30), NextCases, <1>1, <1>2, <1>3, <1>4, <1>5, <1>6, <1>7, <1>8,
     <1>9, <1>10, <1>11 DEF UdsStep, Call, Crash, Gone, CrashConnecting

\* A widget has its children, whoever makes it or deletes it.
LEMMA WidgetsKept ==
  ASSUME PlacesInv, ~overtook', Next
  PROVE  Widgets'
<1> USE DEF slots, server, timer, clients, PlacesInv, CalmPlaces, LoansInv
<1>1. CASE QtReplace
  BY <1>1 DEF QtReplace, ThreadsInv, TypeOK, Widgets
<1>2. CASE QtInit
  <2>1. \/ UNCHANGED <<widget, labels>>
        \/ /\ widget' = [widget EXCEPT ![QtPlace] = TRUE]
           /\ labels' = [labels EXCEPT ![QtPlace] = "live"]
    BY <1>2 DEF QtInit
  <2>2. widget \in [Slots -> BOOLEAN] /\ DOMAIN labels = Slots
    BY DEF ThreadsInv, TypeOK
  <2> QED BY <2>1, <2>2, SMTT(30) DEF Widgets
<1>3. CASE QtClear
  BY <1>3 DEF QtClear, ThreadsInv, TypeOK, Widgets
<1>4. CASE UNCHANGED <<widget, labels>>
  BY <1>4 DEF Widgets
<1> QED
  BY ZenonT(30), NextCases, <1>1, <1>2, <1>3, <1>4 DEF Accept,
     Ensure, UdsBlocks, Refuse, Reply, AcquireBegin, AcquireTaken, AcquireDone,
     AcquireHeld, Layout, NotFound, PingFound, SetAlive, UpdateFound, QueueRefresh,
     ReleaseFound, ReleaseExpiring, ReleaseClear, TurnBegins, CheckState, NextPlace,
     LoadCounter, StoreCounter, Expire, Result, TimerClear, TimerPost, QtKeep,
     QtRuns, QtUpdate, QtRefresh, Call, Crash, Gone, CrashConnecting

\* Whoever assigns state, taken, widget and the counter, in whatever order, the
\* four tell one story.
LEMMA StatesTellKept ==
  ASSUME PlacesInv, ~overtook', Next
  PROVE  StatesTell'
<1> USE DEF slots, server, timer, clients, PlacesInv, CalmPlaces, LoansInv
<1>1. CASE AcquireTaken
  <2>1. Place \in Slots /\ pc = "setTaken" /\ pc' = "setAcquired"
        /\ UNCHANGED <<state, widget, alive, Place>> /\ state[Place] = "Ready"
        /\ \A s \in Slots : s # Place => taken'[s] = taken[s]
    BY <1>1, Serves DEF AcquireTaken, Place, AcquireUnderWay, ThreadsInv,
       TypeOK
  <2> QED BY <2>1 DEF StatesTell
<1>2. CASE AcquireDone
  <2>1. Place \in Slots /\ pc = "setAcquired" /\ UNCHANGED <<taken, widget, alive>>
        /\ state[Place] = "Ready" /\ taken[Place] /\ state'[Place] = "Acquired"
        /\ \A s \in Slots : s # Place => state'[s] = state[s]
    BY <1>2, Serves DEF AcquireDone, AcquireUnderWay, ThreadsInv, TypeOK
  <2> QED BY <2>1 DEF StatesTell
<1>3. CASE ReleaseExpiring
  <2>1. Place \in Slots /\ pc = "setExpiring" /\ UNCHANGED <<taken, widget, alive>>
        /\ state'[Place] = "Expiring"
        /\ \A s \in Slots : s # Place => state'[s] = state[s]
    BY <1>3, Serves DEF ReleaseExpiring, ThreadsInv, TypeOK
  <2> QED BY <2>1 DEF StatesTell
<1>4. CASE ReleaseClear
  <2>1. Place \in Slots /\ pc = "clear" /\ UNCHANGED <<state, widget>>
        /\ state[Place] \in {"Empty", "Expiring"} /\ ~taken'[Place]
        /\ alive'[Place] = MaxAlive
        /\ \A s \in Slots : s # Place => taken'[s] = taken[s] /\ alive'[s] = alive[s]
    BY <1>4, Serves DEF ReleaseClear, ClearUnderWay, ThreadsInv, TypeOK
  <2> QED BY <2>1 DEF StatesTell
<1>5. CASE SetAlive
  <2>1. Place \in Slots /\ pc # "setAcquired" /\ UNCHANGED <<state, taken, widget>>
        /\ alive'[Place] = MaxAlive
        /\ \A s \in Slots : s # Place => alive'[s] = alive[s]
    BY <1>5, Serves DEF SetAlive, ThreadsInv, TypeOK
  <2> QED BY <2>1 DEF StatesTell
<1>6. CASE StoreCounter
  <2>1. Looked \in Slots /\ UNCHANGED <<state, taken, widget, pc, req, Place>>
        /\ state[Looked] = "Acquired"
        /\ \A s \in Slots : s # Looked => alive'[s] = alive[s]
    BY <1>6, Looks DEF StoreCounter, TurnUnderWay, ThreadsInv, TypeOK, Place
  <2> QED BY <2>1 DEF StatesTell
<1>7. CASE Expire
  <2>1. Looked \in Slots /\ UNCHANGED <<taken, widget, alive, pc, req, Place>>
        /\ state'[Looked] = "Expiring"
        /\ \A s \in Slots : s # Looked => state'[s] = state[s]
    BY <1>7, Looks DEF Expire, ThreadsInv, TypeOK, Place
  <2> QED BY <2>1 DEF StatesTell
<1>8. CASE TimerClear
  <2>1. Looked \in Slots /\ UNCHANGED <<state, widget, pc, req, Place>>
        /\ state[Looked] = "Expiring"
        /\ \A s \in Slots : s # Looked => taken'[s] = taken[s] /\ alive'[s] = alive[s]
    BY <1>8, Looks DEF TimerClear, TurnUnderWay, ThreadsInv, TypeOK, Place
  <2> QED BY <2>1 DEF StatesTell
<1>9. CASE QtReplace
  <2>1. QtPlace \in Slots /\ pc = "blocked"
        /\ state'[QtPlace] = "Ready" /\ ~taken'[QtPlace] /\ widget'[QtPlace]
        /\ alive'[QtPlace] = MaxAlive
        /\ \A s \in Slots : s # QtPlace =>
             /\ state'[s] = state[s] /\ taken'[s] = taken[s]
             /\ widget'[s] = widget[s] /\ alive'[s] = alive[s]
    BY <1>9, QtForServer DEF QtReplace, ThreadsInv, TypeOK
  <2> QED BY <2>1 DEF StatesTell
<1>10. CASE QtInit
  <2>1. QtPlace = Place /\ Place \in Slots /\ state[Place] \in {"Empty", "Ready"}
        /\ ~taken[Place] /\ alive[Place] = MaxAlive /\ pc = "blocked"
    BY <1>10, InitFinds, QtForServer
  <2>2. UNCHANGED <<taken, alive>> /\ \A s \in Slots : s # Place =>
             state'[s] = state[s] /\ widget'[s] = widget[s]
    BY <1>10, <2>1 DEF QtInit, ThreadsInv, TypeOK
  <2>3. \/ widget[Place] /\ UNCHANGED <<state, widget>>
        \/ state'[Place] = "Ready" /\ widget'[Place]
    BY <1>10, <2>1 DEF QtInit, ThreadsInv, TypeOK
  <2> QED BY <2>1, <2>2, <2>3 DEF StatesTell
<1>11. CASE QtClear
  <2>1. QtPlace \in Slots /\ UNCHANGED <<taken, alive, req, Place>> /\ ~taken[QtPlace]
        /\ alive[QtPlace] = MaxAlive
    BY <1>11, ClearFinds DEF QtClear, Place
  <2>2. /\ state'[QtPlace] = "Empty" /\ ~widget'[QtPlace]
        /\ \A s \in Slots : s # QtPlace =>
             state'[s] = state[s] /\ widget'[s] = widget[s]
    BY <1>11, <2>1 DEF QtClear, ThreadsInv, TypeOK
  <2>3. pc = "blocked" \/ UNCHANGED pc
    BY <1>11, QtForServer, QtForTurn
  <2> QED BY <2>1, <2>2, <2>3 DEF StatesTell
<1>12. CASE UNCHANGED <<state, taken, alive, widget>>
  <2>1. pc = "setAcquired" =>
          UNCHANGED <<pc, req, Place>> \/ AcquireDone
    BY ServerMoves DEF UdsStep, Accept, Ensure, Refuse, Reply,
       AcquireBegin, AcquireTaken, AcquireHeld, Layout, NotFound, PingFound,
       SetAlive, UpdateFound, QueueRefresh, ReleaseFound, ReleaseExpiring,
       ReleaseClear, Place
  <2> QED BY <1>2, <1>12, <2>1 DEF StatesTell
<1> QED
  BY ZenonT(30), NextCases, <1>1, <1>2, <1>3, <1>4, <1>5, <1>6, <1>7, <1>8,
     <1>9, <1>10, <1>11, <1>12 DEF Accept, Ensure, UdsBlocks, Refuse, Reply,
     AcquireBegin, AcquireHeld, Layout, NotFound, PingFound, UpdateFound,
     QueueRefresh, ReleaseFound, TurnBegins, CheckState, NextPlace,
     LoadCounter, Result, TimerPost, QtKeep, QtRuns, QtUpdate, QtRefresh,
     Call, Crash, Gone, CrashConnecting

\* What the places and the threads know of each other is inductive.
LEMMA CalmPlacesKept ==
  ASSUME PlacesInv, ~overtook', Next
  PROVE  CalmPlaces'
  BY NoneRenewedKept, AcquireUnderWayKept, ClearUnderWayKept, TurnUnderWayKept,
     TurnAloneKept, WidgetsKept, StatesTellKept DEF CalmPlaces

----------------------------------------------------------------------------
(* What a request has set lasts until it is answered *)

\* A turn that goes on to the next place has not counted more places.
LEMMA GoesOnAhead ==
  ASSUME ThreadsInv, at # "idle", NextPlace, NEW s \in Slots,
         at \notin {"load", "store"}, Ahead(s)'
  PROVE  Ahead(s)
<1>1. Len(SlotOrder) \in Nat \ {0} /\ place \in Nat \ {0} /\ place <= Len(SlotOrder)
  BY SomePlace, Looks DEF ThreadsInv, TypeOK
<1>2. at' = "check" /\ place' = place + 1
  BY DEF NextPlace, Ahead
<1>3. PICK i \in (place + 1)..Len(SlotOrder) : SlotOrder[i] = s
  BY <1>2 DEF Ahead
<1>4. i \in place..Len(SlotOrder)
  BY <1>1, <1>3
<1>5. at \in {"check", "expire", "result", "clear", "post", "blocked"}
  BY DEF ThreadsInv, TypeOK
<1> QED BY <1>3, <1>4, <1>5 DEF Ahead

\* One turn counts a place down once: a request that has set the counter finds
\* it above zero for as many turns as can begin before the answer.
LEMMA TurnCountsOnce ==
  ASSUME PlacesInv, pc # "accept", NEW s \in Slots, CountedDown(s),
         AliveStep \/ (QtClear /\ Head(qt).by # "uds")
  PROVE  CountedDown(s)' /\ (state[s] = "Acquired" => state'[s] = "Acquired")
<1> USE DEF slots, server, timer, clients, PlacesInv, CalmPlaces, LoansInv
<1>1. /\ alive[s] \in Nat /\ turns \in Nat /\ MaxAlive \in Nat /\ turns < MaxAlive
      /\ place \in Nat /\ Len(SlotOrder) \in Nat
  BY ScreenAssumption, RequestsAreShort, SomePlace DEF ThreadsInv, TypeOK
<1>2. ASSUME UNCHANGED <<alive, turns>>, Ahead(s)' => Ahead(s)
      PROVE  CountedDown(s)'
  BY <1>1, <1>2 DEF CountedDown
<1>3. CASE TurnBegins
  <2>1. ~Ahead(s) /\ turns' = turns + 1 /\ UNCHANGED <<alive, state>>
    BY <1>3 DEF TurnBegins, Ahead
  <2> QED BY <1>1, <2>1 DEF CountedDown
<1>4. CASE CheckState
  <2>1. UNCHANGED <<alive, turns, state>> /\ at = "check"
    BY <1>4 DEF CheckState
  <2>2. CASE at' = "load" /\ UNCHANGED place
    BY <1>2, <2>1, <2>2 DEF Ahead
  <2>3. CASE NextPlace
    BY <1>2, <2>1, <2>3, GoesOnAhead
  <2> QED BY <1>4, <2>1, <2>2, <2>3 DEF CheckState
<1>5. CASE LoadCounter
  BY <1>2, <1>5 DEF LoadCounter, Ahead
<1>6. CASE StoreCounter
  <2>1. /\ UNCHANGED <<turns, place, state>> /\ at = "store"
        /\ at' \in {"expire", "result"} /\ Looked \in Slots
        /\ place \in DOMAIN SlotOrder /\ place <= Len(SlotOrder)
        /\ alive'[Looked] = alive[Looked] - 1
        /\ \A t \in Slots : t # Looked => alive'[t] = alive[t]
    BY <1>6, Looks DEF StoreCounter, TurnUnderWay, ThreadsInv, TypeOK
  <2>2. Ahead(s)' => Ahead(s)
    BY <1>1, <2>1 DEF Ahead
  <2>3. CASE s # Looked
    BY <1>1, <2>1, <2>2, <2>3 DEF CountedDown
  <2>4. CASE s = Looked
    <3>1. Ahead(s)
      BY <1>1, <2>1, <2>4 DEF Ahead, Looked
    <3>2. ASSUME NEW i \in (place + 1)..Len(SlotOrder), SlotOrder[i] = s
          PROVE  FALSE
      <4>1. i \in DOMAIN SlotOrder /\ i # place
        BY <1>1, <3>2, ScreenAssumption, LenProperties
      <4> QED BY <2>1, <2>4, <3>2, <4>1, EachPlaceOnce DEF Looked
    <3>3. ~Ahead(s)'
      BY <2>1, <3>2 DEF Ahead
    <3> QED BY <1>1, <2>1, <2>4, <3>1, <3>3 DEF CountedDown
  <2> QED BY <2>1, <2>3, <2>4
<1>7. CASE Expire
  <2>1. /\ UNCHANGED <<alive, turns, place>> /\ at = "expire" /\ at' = "result"
        /\ alive[Looked] = 0
        /\ \A t \in Slots : t # Looked => state'[t] = state[t]
    BY <1>7 DEF Expire, TurnUnderWay, ThreadsInv, TypeOK
  <2>2. Ahead(s)' => Ahead(s)
    BY <2>1 DEF Ahead
  <2>3. s # Looked
    BY <1>1, <2>1 DEF CountedDown
  <2> QED BY <1>2, <2>1, <2>2, <2>3
<1>8. CASE Result
  <2>1. UNCHANGED <<alive, turns, state>> /\ at = "result"
    BY <1>8 DEF Result
  <2>2. CASE at' = "clear" /\ UNCHANGED place
    BY <1>2, <2>1, <2>2 DEF Ahead
  <2>3. CASE NextPlace
    BY <1>2, <2>1, <2>3, GoesOnAhead
  <2> QED BY <1>8, <2>1, <2>2, <2>3 DEF Result
<1>9. CASE TimerClear
  <2>1. /\ UNCHANGED <<turns, place, state>> /\ at = "clear" /\ at' = "post"
        /\ alive'[s] >= alive[s] /\ alive'[s] \in Nat
    BY <1>9, ScreenAssumption DEF TimerClear, ThreadsInv, TypeOK
  <2>2. Ahead(s)' <=> Ahead(s)
    BY <2>1 DEF Ahead
  <2> QED BY <1>1, <2>1, <2>2 DEF CountedDown
<1>10. CASE TimerPost
  <2>1. UNCHANGED <<alive, turns, place, state>> /\ at = "post" /\ at' = "blocked"
    BY <1>10 DEF TimerPost
  <2> QED BY <1>2, <2>1 DEF Ahead
<1>11. CASE QtClear /\ Head(qt).by # "uds"
  <2>1. UNCHANGED <<alive, turns>> /\ at = "blocked" /\ NextPlace
    BY <1>11, QtForTurn DEF QtClear
  <2>2. state[QtPlace] # "Acquired" /\ QtPlace \in Slots
    BY <1>11, ClearFinds
  <2>3. \A t \in Slots : t # QtPlace => state'[t] = state[t]
    BY <1>11, <2>2 DEF QtClear, ThreadsInv, TypeOK
  <2> QED BY <1>2, <2>1, <2>2, <2>3, GoesOnAhead
<1> QED
  BY <1>3, <1>4, <1>5, <1>6, <1>7, <1>8, <1>9, <1>10, <1>11 DEF AliveStep

\* The server thread's request is not touched by the turn, and its counter
\* outlasts the turns that can begin before its answer.
LEMMA CounterLastsKept ==
  ASSUME PlacesInv, TurnsCounted, AnswersInv, ~overtook', Next
  PROVE  CounterLasts'
<1> USE DEF slots, server, timer, clients, PlacesInv, CalmPlaces, LoansInv, AnswersInv
<1>1. CASE Accept \/ Refuse \/ Reply \/ AcquireTaken
  <2>1. pc' \notin {"layout", "reply", "update", "refresh", "blocked"}
    BY <1>1 DEF Accept, Refuse, Reply, AcquireTaken
  <2> QED BY <2>1 DEF CounterLasts, Taking
<1>2. CASE PingFound \/ ReleaseFound \/ ReleaseExpiring
  <2>1. pc' \notin {"layout", "reply", "update", "refresh", "blocked"}
    BY <1>2 DEF PingFound, ReleaseFound, ReleaseExpiring
  <2> QED BY <2>1 DEF CounterLasts, Taking
<1>3. CASE Ensure \/ AcquireBegin \/ ReleaseClear
  <2>1. pc' \in {"handle", "blocked"} /\ pc \in {"ensure", "handle", "clear"}
    BY <1>3 DEF Ensure, AcquireBegin, ReleaseClear, UdsBlocks
  <2>2. ~Taking'
    BY <2>1, EventsFrom DEF Taking
  <2> QED BY <2>1, <2>2 DEF CounterLasts
<1>4. CASE AcquireDone
  <2>1. pc = "setAcquired" /\ pc' = "layout" /\ UNCHANGED <<at, place>>
        /\ UNCHANGED <<alive, turns, req, Place>> /\ Place \in Slots
        /\ state'[Place] = "Acquired"
    BY <1>4, Serves DEF AcquireDone, ThreadsInv, TypeOK, Place
  <2>2. alive[Place] = MaxAlive
    BY <2>1 DEF AcquireUnderWay, StatesTell
  <2>3. CountedDown(Place)'
    BY <2>1, <2>2, ScreenAssumption DEF CountedDown, Ahead, TurnsCounted, ThreadsInv,
       TypeOK
  <2> QED BY <2>1, <2>3 DEF CounterLasts
<1>5. CASE AcquireHeld
  <2>1. pc' = "layout" /\ answer' = "error"
    BY <1>5 DEF AcquireHeld
  <2> QED BY <2>1 DEF CounterLasts, Taking
<1>6. CASE NotFound \/ QueueRefresh
  <2>1. pc' = "reply" /\ UNCHANGED req
        /\ req.cmd \in {"PING", "RELEASE", "SET_DATA"}
    BY <1>6 DEF NotFound, QueueRefresh, Answer, StepOfCommand
  <2> QED BY <2>1 DEF CounterLasts, Taking
<1>7. CASE SetAlive
  <2>1. /\ UNCHANGED <<at, place, turns, req, Place>> /\ pc # "accept"
        /\ Place \in Slots /\ alive'[Place] = MaxAlive
        /\ pc' \in {"update", "reply"} /\ req.cmd # "ACQUIRE"
    BY <1>7, Serves DEF SetAlive, Answer, ThreadsInv, TypeOK, Place,
       StepOfCommand
  <2>2. CountedDown(Place)'
    BY <2>1, ScreenAssumption DEF CountedDown, Ahead, TurnsCounted, ThreadsInv, TypeOK
  <2> QED BY <2>1, <2>2 DEF CounterLasts, Taking
<1>8. CASE UpdateFound
  <2>1. pc = "update" /\ pc' = "refresh" /\ state[Place] = "Acquired"
        /\ UNCHANGED <<alive, turns, at, place, state, req, Place>>
    BY <1>8 DEF UpdateFound, Held, Place
  <2>2. CountedDown(Place)'
    BY <2>1 DEF CounterLasts, CountedDown, Ahead
  <2> QED BY <2>1, <2>2 DEF CounterLasts, Taking
<1>9. CASE Layout
  <2>1. pc = "layout" /\ pc' = "blocked"
        /\ UNCHANGED <<alive, turns, at, place, state, req, answer, Place>>
    BY <1>9 DEF Layout, UdsBlocks, Place
  <2>2. Taking' => Taking
    BY <2>1 DEF Taking
  <2> QED BY <2>1, <2>2 DEF CounterLasts, CountedDown, Ahead
<1>10. CASE TurnBegins \/ CheckState \/ LoadCounter \/ StoreCounter \/ Expire
           \/ Result \/ TimerClear \/ TimerPost
  <2>1. UNCHANGED <<pc, req, answer, Place>>
    BY <1>10 DEF TurnBegins, CheckState, LoadCounter, StoreCounter, Expire, Result,
       TimerClear, TimerPost, Place
  <2>2. Taking' => Taking
    BY <2>1, EventsFrom DEF Taking
  <2>3. pc # "accept" /\ Place \in Slots /\ CountedDown(Place) =>
          CountedDown(Place)' /\ (state[Place] = "Acquired" => state'[Place] = "Acquired")
    <3> SUFFICES ASSUME NEW s \in Slots, s = Place, pc # "accept", CountedDown(s)
                 PROVE  CountedDown(s)' /\ (state[s] = "Acquired" => state'[s] = "Acquired")
      BY <2>1 DEF CountedDown, Ahead
    <3>1. AliveStep \/ (QtClear /\ Head(qt).by # "uds")
      BY <1>10 DEF AliveStep
    <3> QED BY <3>1, TurnCountsOnce
  <2> QED BY <2>1, <2>2, <2>3, Serves DEF CounterLasts, Taking
<1>11. CASE QtReplace \/ QtKeep \/ QtInit
  <2>1. pc' \notin {"layout", "reply", "update", "refresh", "blocked"}
    BY <1>11 DEF QtReplace, QtKeep, QtInit
  <2> QED BY <2>1 DEF CounterLasts, Taking
<1>12. CASE QtUpdate
  <2>1. pc = "blocked" /\ pc' = "reply" /\ UNCHANGED <<req, answer, Place>>
        /\ UNCHANGED <<alive, turns, at, place, state>>
    BY <1>12, QtForServer DEF QtUpdate, Place
  <2>2. Taking' => Taking
    BY <1>12, <2>1, QtForServer DEF Taking, QtUpdate, QtRuns
  <2> QED BY <2>1, <2>2 DEF CounterLasts, CountedDown, Ahead
<1>13. CASE QtRefresh
  <2>1. UNCHANGED <<alive, turns, at, place, state, pc, req, answer, Place>>
    BY <1>13 DEF QtRefresh, Place
  <2>2. Taking' => Taking
    BY <2>1, EventsFrom DEF Taking
  <2> QED BY <2>1, <2>2 DEF CounterLasts, CountedDown, Ahead
<1>14. CASE QtClear
  <2>1. CASE Head(qt).by = "uds"
    <3>1. pc' = "reply" /\ UNCHANGED req /\ req.cmd = "RELEASE"
      BY <1>14, <2>1, QtForServer DEF QtClear, QtRuns, StepOfCommand
    <3> QED BY <3>1 DEF CounterLasts, Taking
  <2>2. CASE Head(qt).by # "uds"
    <3>1. UNCHANGED <<pc, req, answer, Place>>
      BY <1>14, <2>2, QtForTurn DEF QtClear, Place
    <3>2. Taking' => Taking
      BY <3>1, EventsFrom DEF Taking
    <3>3. pc # "accept" /\ Place \in Slots /\ CountedDown(Place) =>
            CountedDown(Place)' /\ (state[Place] = "Acquired" => state'[Place] = "Acquired")
      BY <1>14, <2>2, <3>1, TurnCountsOnce DEF CountedDown, Ahead
    <3> QED BY <3>1, <3>2, <3>3, Serves DEF CounterLasts, Taking
  <2> QED BY <2>1, <2>2
<1>15. CASE UNCHANGED <<pc, req, answer, qt, alive, turns, at, place, state>>
  BY <1>15 DEF CounterLasts, CountedDown, Ahead, Taking, Place
<1> QED
  BY ZenonT(30), NextCases, <1>1, <1>2, <1>3, <1>4, <1>5, <1>6, <1>7, <1>8,
     <1>9, <1>10, <1>11, <1>12, <1>13, <1>14, <1>15 DEF Call, Crash, Gone,
     CrashConnecting

\* What an event other than a refresh, posted last, means for the refreshes.
LEMMA RefreshBeforePost ==
  ASSUME ThreadsInv, RefreshBeforeClear, UNCHANGED labels,
         NEW op \in {"ensure", "init", "update", "clear"},
         NEW by \in {"uds", "alive"}, NEW s \in Slots, Posts(op, by, s)
  PROVE  RefreshBeforeClear'
<1>1. [op |-> op, by |-> by, slot |-> s] \in Calls
  BY DEF Calls
<1>2. \A i \in DOMAIN qt' :
        \/ i \in DOMAIN qt /\ qt'[i] = qt[i]
        \/ /\ i = Len(qt) + 1 /\ i \notin DOMAIN qt
           /\ qt'[i].op = op /\ qt'[i].by = by /\ qt'[i].slot = s
  BY <1>1, AfterPost
<1>3. Len(qt) \in Nat /\ DOMAIN qt = 1..Len(qt)
  BY LenProperties DEF ThreadsInv, TypeOK
<1> SUFFICES ASSUME NEW i \in DOMAIN qt', qt'[i].op = "refresh"
             PROVE  /\ labels'[qt'[i].slot] = "live"
                    /\ \A j \in DOMAIN qt' :
                         j < i => ~(qt'[j].op = "clear" /\ qt'[j].slot = qt'[i].slot)
  BY DEF RefreshBeforeClear
<1>4. i \in DOMAIN qt /\ qt'[i] = qt[i]
  BY <1>2
<1>5. \A j \in DOMAIN qt' : j < i => j \in DOMAIN qt /\ qt'[j] = qt[j]
  BY <1>2, <1>3, <1>4
<1> QED
  BY <1>4, <1>5 DEF RefreshBeforeClear

\* What taking an event means for the refreshes behind it.
LEMMA RefreshBeforeTake ==
  ASSUME ThreadsInv, RefreshBeforeClear, Takes,
         \A i \in DOMAIN qt :
           i # 1 /\ qt[i].op = "refresh" => labels'[qt[i].slot] = "live"
  PROVE  RefreshBeforeClear'
<1>1. \A i \in DOMAIN qt' :
        i \in Nat /\ i + 1 \in DOMAIN qt /\ i + 1 # 1 /\ qt'[i] = qt[i + 1]
  BY AfterTake
<1> SUFFICES ASSUME NEW i \in DOMAIN qt', qt'[i].op = "refresh"
             PROVE  /\ labels'[qt'[i].slot] = "live"
                    /\ \A j \in DOMAIN qt' :
                         j < i => ~(qt'[j].op = "clear" /\ qt'[j].slot = qt'[i].slot)
  BY DEF RefreshBeforeClear
<1>2. i + 1 \in DOMAIN qt /\ i + 1 # 1 /\ qt'[i] = qt[i + 1]
  BY <1>1
<1>3. labels'[qt'[i].slot] = "live"
  BY <1>2
<1>4. \A j \in DOMAIN qt' :
        j < i => j + 1 \in DOMAIN qt /\ j + 1 < i + 1 /\ qt'[j] = qt[j + 1]
  BY <1>1
<1> QED
  BY <1>2, <1>3, <1>4 DEF RefreshBeforeClear

\* A refresh is queued for a component that is there, and a clear behind it.
LEMMA RefreshBeforeClearKept ==
  ASSUME PlacesInv, TurnsCounted, AnswersInv, ~overtook', Next
  PROVE  RefreshBeforeClear'
<1> USE DEF slots, server, timer, clients, PlacesInv, CalmPlaces, LoansInv, AnswersInv
<1>1. CASE Ensure \/ AcquireBegin \/ Layout \/ ReleaseClear
  <2>1. UNCHANGED labels /\ Place \in Slots
    BY <1>1, Serves DEF Ensure, AcquireBegin, Layout, ReleaseClear
  <2>2. UNCHANGED qt \/
        \E op \in {"ensure", "init", "update", "clear"} : Posts(op, "uds", Place)
    BY <1>1 DEF Ensure, AcquireBegin, Layout, ReleaseClear, UdsBlocks, Posts
  <2>3. CASE UNCHANGED qt
    BY <2>1, <2>3 DEF RefreshBeforeClear
  <2>4. ASSUME NEW op \in {"ensure", "init", "update", "clear"},
               Posts(op, "uds", Place)
        PROVE  RefreshBeforeClear'
    BY <2>1, <2>4, RefreshBeforePost
  <2> QED BY <2>2, <2>3, <2>4
<1>2. CASE TimerPost
  <2>1. UNCHANGED labels /\ Looked \in Slots /\ Posts("clear", "alive", Looked)
    BY <1>2, Looks DEF TimerPost, Posts
  <2> QED BY <2>1, RefreshBeforePost
<1>3. CASE QueueRefresh
  <2>1. UNCHANGED labels /\ Posts("refresh", "none", Place) /\ Place \in Slots
        /\ pc = "refresh"
    BY <1>3, Serves DEF QueueRefresh, Posts
  <2>2. state[Place] = "Acquired" /\ labels[Place] = "live"
    BY <2>1 DEF CounterLasts, StatesTell, Widgets
  <2>3. \A j \in DOMAIN qt : ~(qt[j].op = "clear" /\ qt[j].slot = Place)
    BY <2>2 DEF ClearUnderWay
  <2>4. \A i \in DOMAIN qt' :
          \/ i \in DOMAIN qt /\ qt'[i] = qt[i]
          \/ /\ i = Len(qt) + 1 /\ i \notin DOMAIN qt
             /\ qt'[i].op = "refresh" /\ qt'[i].slot = Place
    <3>1. [op |-> "refresh", by |-> "none", slot |-> Place] \in Calls
      BY <2>1 DEF Calls
    <3> QED BY <2>1, <3>1, AfterPost
  <2>5. Len(qt) \in Nat /\ DOMAIN qt = 1..Len(qt)
    BY LenProperties DEF ThreadsInv, TypeOK
  <2> SUFFICES ASSUME NEW i \in DOMAIN qt', qt'[i].op = "refresh"
               PROVE  /\ labels'[qt'[i].slot] = "live"
                      /\ \A j \in DOMAIN qt' :
                           j < i => ~(qt'[j].op = "clear" /\ qt'[j].slot = qt'[i].slot)
    BY DEF RefreshBeforeClear
  <2>6. \A j \in DOMAIN qt' : j < i => j \in DOMAIN qt /\ qt'[j] = qt[j]
    BY <2>4, <2>5
  <2>7. CASE i \in DOMAIN qt /\ qt'[i] = qt[i]
    BY <2>1, <2>6, <2>7 DEF RefreshBeforeClear
  <2>8. CASE qt'[i].slot = Place
    BY <2>1, <2>2, <2>3, <2>6, <2>8
  <2> QED BY <2>4, <2>7, <2>8
<1>4. CASE QtReplace \/ QtKeep \/ QtInit \/ QtUpdate \/ QtRefresh
  <2>1. Takes
    BY <1>4 DEF QtReplace, QtKeep, QtInit, QtUpdate, QtRefresh, QtRuns, Takes
  <2>2. UNCHANGED labels \/ labels' = [labels EXCEPT ![QtPlace] = "live"]
    BY <1>4 DEF QtReplace, QtKeep, QtInit, QtUpdate, QtRefresh
  <2>3. \A s \in Slots : labels[s] = "live" => labels'[s] = "live"
    BY <2>2 DEF ThreadsInv, TypeOK
  <2>4. \A i \in DOMAIN qt : qt[i] \in Calls
    BY ElementOfSeq DEF ThreadsInv, TypeOK
  <2>5. \A i \in DOMAIN qt : qt[i].slot \in Slots
    BY <2>4 DEF Calls
  <2>6. \A i \in DOMAIN qt :
          qt[i].op = "refresh" => labels'[qt[i].slot] = "live"
    BY <2>3, <2>5 DEF RefreshBeforeClear
  <2> QED BY <2>1, <2>6, RefreshBeforeTake
<1>5. CASE QtClear
  <2>1. Takes /\ qt[1].op = "clear" /\ 1 \in DOMAIN qt /\ qt[1].slot = QtPlace
    BY <1>5, QtServes DEF QtClear, QtRuns, Takes, QtPlace
  <2>2. \A s \in Slots : s # QtPlace => labels'[s] = labels[s]
    BY <1>5 DEF QtClear, ThreadsInv, TypeOK
  <2>3. \A i \in DOMAIN qt : qt[i] \in Calls
    BY ElementOfSeq DEF ThreadsInv, TypeOK
  <2>4. \A i \in DOMAIN qt : qt[i].slot \in Slots
    BY <2>3 DEF Calls
  <2>5. \A i \in DOMAIN qt : i \in Nat /\ (i # 1 => 1 < i)
    BY LenProperties DEF ThreadsInv, TypeOK
  <2>6. \A i \in DOMAIN qt :
          i # 1 /\ qt[i].op = "refresh" => labels'[qt[i].slot] = "live"
    BY <2>1, <2>2, <2>4, <2>5 DEF RefreshBeforeClear
  <2> QED BY <2>1, <2>6, RefreshBeforeTake
<1>6. CASE UNCHANGED <<qt, labels>>
  BY <1>6 DEF RefreshBeforeClear
<1> QED
  BY ZenonT(30), NextCases, <1>1, <1>2, <1>3, <1>4, <1>5, <1>6 DEF Accept,
     Refuse, Reply, AcquireTaken, AcquireDone, AcquireHeld, NotFound,
     PingFound, SetAlive, UpdateFound, ReleaseFound, ReleaseExpiring,
     TurnBegins, CheckState, NextPlace, LoadCounter, StoreCounter, Expire,
     Result, TimerClear, Call, Crash, Gone, CrashConnecting

\* What has begun is counted: a turn that is under way during a request is one.
LEMMA TurnsCountedKept ==
  ASSUME ThreadsInv, TurnsCounted, Next
  PROVE  TurnsCounted'
<1> USE DEF slots, server, timer, clients
<1>1. turns \in Nat
  BY DEF ThreadsInv, TypeOK
<1>2. CASE Accept \/ Refuse \/ Reply
  BY <1>2 DEF Accept, Refuse, Reply, TurnsCounted
<1>3. CASE TurnBegins
  BY <1>1, <1>3 DEF TurnBegins, TurnsCounted
<1>4. CASE UNCHANGED turns /\ pc # "accept" /\ (at' # "idle" => at # "idle")
  BY <1>4 DEF TurnsCounted
<1>5. CASE UNCHANGED <<turns, pc>> /\ (at' # "idle" => at # "idle")
  BY <1>5 DEF TurnsCounted
<1>6. CASE QtStep
  <2>1. UNCHANGED turns /\ (UNCHANGED pc \/ pc = "blocked")
    BY <1>6, TakingSteps, QtServes DEF Takes, QtStep, QtReplace, QtKeep, QtInit,
       QtUpdate, QtRefresh, QtClear
  <2>2. at' # "idle" => at # "idle"
    BY <1>6, TakingSteps, QtServes DEF Takes
  <2> QED BY <1>4, <1>5, <2>1, <2>2
<1> QED
  BY ZenonT(30), NextCases, <1>2, <1>3, <1>4, <1>5, <1>6 DEF QtStep, Ensure,
     AcquireBegin, AcquireTaken, AcquireDone, AcquireHeld, Layout, NotFound,
     PingFound, SetAlive, UpdateFound, QueueRefresh, ReleaseFound, ReleaseExpiring,
     ReleaseClear, CheckState, LoadCounter, StoreCounter, Expire, Result,
     TimerClear, TimerPost, Call, Crash, CrashConnecting

\* What the threads know is inductive, with what they know as long as the server
\* thread has gone to no place in hand.
LEMMA DisplayInvInductive ==
  /\ Init => DisplayInv
  /\ DisplayInv /\ [Next]_vars => DisplayInv'
<1>1. ASSUME Init
      PROVE  DisplayInv
  <2>1. LoansInv /\ ThreadsInv
    BY <1>1, LoansInvInductive DEF LoansInv
  <2>2. BlockedHasEvent /\ TurnsCounted
    BY <1>1 DEF Init, BlockedHasEvent, TurnsCounted
  <2>3. /\ NoneRenewed /\ AcquireUnderWay /\ ClearUnderWay /\ TurnUnderWay
        /\ TurnAlone
    BY <1>1 DEF Init, NoneRenewed, AcquireUnderWay, ClearUnderWay, TurnUnderWay,
       TurnAlone
  <2>4. Widgets /\ StatesTell
    BY <1>1 DEF Init, Widgets, StatesTell
  <2>5. AnswersInv
    BY <1>1 DEF Init, AnswersInv, CounterLasts, RefreshBeforeClear, Taking
  <2> QED BY <2>1, <2>2, <2>3, <2>4, <2>5 DEF DisplayInv, CalmPlaces
<1>2. ASSUME DisplayInv, Next
      PROVE  DisplayInv'
  <2>1. LoansInv' /\ BlockedHasEvent' /\ TurnsCounted'
    BY <1>2, LoansInvInductive, BlockedStep, TurnsCountedKept DEF DisplayInv, LoansInv
  <2>2. ASSUME ~overtook'
        PROVE  CalmPlaces' /\ AnswersInv'
    <3>1. PlacesInv /\ AnswersInv /\ TurnsCounted
      BY <1>2, <2>2, NotYet DEF DisplayInv, PlacesInv
    <3> QED
      BY <1>2, <2>2, <3>1, CalmPlacesKept, CounterLastsKept, RefreshBeforeClearKept
         DEF AnswersInv
  <2> QED BY <2>1, <2>2 DEF DisplayInv
<1>3. ASSUME DisplayInv, UNCHANGED vars
      PROVE  DisplayInv'
  <2> USE DEF vars, slots, server, timer, clients
  <2>1. LoansInv'
    BY <1>3, LoansInvInductive DEF DisplayInv
  <2>2. UNCHANGED <<Place, Looked>>
    BY <1>3 DEF Place, Looked
  <2>3. BlockedHasEvent' /\ TurnsCounted' /\ UNCHANGED overtook
    BY <1>3 DEF DisplayInv, BlockedHasEvent, Posted, TurnsCounted
  <2>4. ASSUME ~overtook
        PROVE  NoneRenewed' /\ AcquireUnderWay' /\ ClearUnderWay'
    BY <1>3, <2>2, <2>4 DEF DisplayInv, CalmPlaces, NoneRenewed, AcquireUnderWay,
       ClearUnderWay
  <2>5. ASSUME ~overtook
        PROVE  TurnUnderWay' /\ TurnAlone'
    BY <1>3, <2>2, <2>5 DEF DisplayInv, CalmPlaces, TurnUnderWay, TurnAlone, InHand
  <2>6. ASSUME ~overtook
        PROVE  Widgets' /\ StatesTell'
    BY <1>3, <2>2, <2>6 DEF DisplayInv, CalmPlaces, Widgets, StatesTell
  <2>7. ASSUME ~overtook
        PROVE  AnswersInv'
    BY <1>3, <2>2, <2>7 DEF DisplayInv, AnswersInv, CounterLasts, RefreshBeforeClear,
       Taking, CountedDown, Ahead
  <2> QED BY <2>1, <2>3, <2>4, <2>5, <2>6, <2>7 DEF DisplayInv, CalmPlaces
<1> QED BY <1>1, <1>2, <1>3

\* Up to the first time the server thread goes to a place that a turn has in hand:
\* state, taken, widget and counter of a place tell one story in every step of the
\* three threads, as the comments on ComponentState_t say.
THEOREM StateCommentsIsInvariant == Spec => []StateComments
<1>1. DisplayInv => StateComments
  BY DEF DisplayInv, CalmPlaces, StatesTell, StateComments
<1> QED BY <1>1, DisplayInvInductive, PTL DEF Spec

\* When the Qt thread runs a refresh that was queued and not waited for, the
\* component it was queued for still has its widget: a request is answered
\* long before the turns that could take the component away, and the clear
\* that does comes behind the refresh in the queue.  With the same exception.
THEOREM RefreshSafeIsInvariant == Spec => []RefreshSafe
<1>1. DisplayInv => RefreshSafe
  BY QtServes DEF DisplayInv, LoansInv, AnswersInv, RefreshBeforeClear, RefreshSafe
<1> QED BY <1>1, DisplayInvInductive, PTL DEF Spec

----------------------------------------------------------------------------
(* A client and its requests *)

\* A request stays sound while what its client knows stays the same.
LEMMA SoundKept ==
  ASSUME NEW r, Sound(r), waiting'[r.client] = waiting[r.client],
         dead'[r.client] = dead[r.client], held'[r.client] = held[r.client]
  PROVE  Sound(r)'
BY DEF Sound

\* The requests are requests of clients.
LEMMA RequestsOfClients ==
  ASSUME ThreadsInv
  PROVE  /\ \A i \in DOMAIN backlog :
              backlog[i] \in Request /\ backlog[i].client \in Clients
         /\ req # None => req \in Request /\ req.client \in Clients
<1>1. \A i \in DOMAIN backlog : backlog[i] \in Request
  BY ElementOfSeq DEF ThreadsInv, TypeOK
<1> QED
  BY <1>1 DEF ThreadsInv, TypeOK, Request

\* A call of c is the only request of c.
LEMMA OneMoreRequest ==
  ASSUME ThreadsInv, OneRequest, NEW c \in Clients, ~waiting[c], UNCHANGED req,
         NEW r \in Request, r.client = c, backlog' = Append(backlog, r), Sound(r)',
         \A d \in Clients : d # c =>
           /\ waiting'[d] = waiting[d] /\ dead'[d] = dead[d]
           /\ held'[d] = held[d]
  PROVE  OneRequest'
<1>1. /\ \A i \in DOMAIN backlog' :
           \/ i \in DOMAIN backlog /\ backlog'[i] = backlog[i]
           \/ i = Len(backlog) + 1 /\ backlog'[i] = r
      /\ \A i \in DOMAIN backlog : i # Len(backlog) + 1
  BY Appended DEF ThreadsInv, TypeOK
<1>2. \A x \in Request :
        Sound(x) /\ x.client \in Clients => x.client # c /\ Sound(x)'
  BY SoundKept DEF Sound
<1>3. \A i \in DOMAIN backlog : backlog[i].client # c
  BY <1>2, RequestsOfClients DEF OneRequest
<1>4. req # None => req.client # c
  BY <1>2, RequestsOfClients DEF OneRequest
<1>5. ASSUME NEW i \in DOMAIN backlog', NEW x, x = backlog'[i]
      PROVE  Sound(x)' /\ (req # None => x.client # req.client)
  <2>1. CASE i \in DOMAIN backlog /\ x = backlog[i]
    BY <1>2, <2>1, RequestsOfClients DEF OneRequest
  <2>2. CASE x = r
    BY <1>4, <2>2
  <2> QED BY <1>1, <1>5, <2>1, <2>2
<1>6. \A i, j \in DOMAIN backlog' : backlog'[i].client = backlog'[j].client => i = j
  BY <1>1, <1>3 DEF OneRequest
<1>7. ASSUME NEW x, x = req, req # None
      PROVE  Sound(x)'
  BY <1>2, <1>7, RequestsOfClients DEF OneRequest
<1> QED
  BY <1>5, <1>6, <1>7 DEF OneRequest, Sound

\* A client that waits has one request, and the request is one that it made.
LEMMA OneRequestKept ==
  ASSUME ThreadsInv, OneRequest, Next
  PROVE  OneRequest'
<1> USE DEF slots, server, timer, clients
<1>1. CASE Accept
  <2>1. /\ UNCHANGED <<waiting, held, dead>> /\ backlog # <<>>
        /\ req' = Head(backlog) /\ backlog' = Tail(backlog)
    BY <1>1 DEF Accept
  <2>2. /\ 1 \in DOMAIN backlog /\ req' = backlog[1]
        /\ \A i \in DOMAIN backlog' :
             /\ i \in Nat /\ i + 1 \in DOMAIN backlog /\ i + 1 # 1
             /\ backlog'[i] = backlog[i + 1]
    BY <2>1, HeadTaken DEF ThreadsInv, TypeOK
  <2>3. \A x : Sound(x) => Sound(x)'
    BY <2>1, SoundKept
  <2>4. \A i, j \in DOMAIN backlog' : backlog'[i].client = backlog'[j].client => i = j
    <3> TAKE i, j \in DOMAIN backlog'
    <3>1. i \in Nat /\ j \in Nat
          /\ (backlog'[i].client = backlog'[j].client => i + 1 = j + 1)
      BY <2>2 DEF OneRequest
    <3> QED BY <3>1
  <2>5. \A i \in DOMAIN backlog' : backlog'[i].client # req'.client
    BY <2>2 DEF OneRequest
  <2>6. \A x, i : i \in DOMAIN backlog' /\ x = backlog'[i] => Sound(x)'
    BY <2>2, <2>3 DEF OneRequest
  <2>7. \A x : x = req' => Sound(x)'
    BY <2>2, <2>3 DEF OneRequest
  <2> QED BY <2>4, <2>5, <2>6, <2>7 DEF OneRequest, Sound
<1>2. CASE Refuse \/ Reply
  <2>1. req' = None /\ UNCHANGED backlog /\ pc # "accept"
    BY <1>2 DEF Refuse, Reply
  <2>2. \A d \in Clients : d # req.client =>
          waiting'[d] = waiting[d] /\ dead'[d] = dead[d] /\ held'[d] = held[d]
    BY <1>2 DEF Refuse, Reply, ThreadsInv, TypeOK
  <2>3. \A i \in DOMAIN backlog :
          backlog[i].client \in Clients /\ backlog[i].client # req.client
    BY <2>1, Serves, RequestsOfClients DEF OneRequest
  <2>4. \A x, i : i \in DOMAIN backlog /\ x = backlog[i] => Sound(x)'
    BY <2>2, <2>3, SoundKept DEF OneRequest
  <2> QED BY <2>1, <2>4 DEF OneRequest, Sound
<1>3. ASSUME NEW c \in Clients, NEW cmd \in Commands, NEW k \in Components,
             Call(c, cmd, k)
      PROVE  OneRequest'
  <2> DEFINE r == [client |-> c, cmd |-> cmd, comp |-> k]
  <2>1. /\ UNCHANGED <<req, held, dead>> /\ ~waiting[c] /\ ~dead[c]
        /\ k \in Uses[c] /\ held[c] = IF cmd = "ACQUIRE" THEN None ELSE k
        /\ backlog' = Append(backlog, r)
        /\ waiting'[c] /\ \A d \in Clients : d # c => waiting'[d] = waiting[d]
    BY <1>3 DEF Call, ThreadsInv, TypeOK
  <2>2. r \in Request /\ r.client = c /\ Sound(r)'
    BY <2>1 DEF Request, Sound
  <2> HIDE DEF r
  <2> QED BY <2>1, <2>2, OneMoreRequest
<1>4. ASSUME NEW c \in Clients, CrashConnecting(c)
      PROVE  OneRequest'
  <2> DEFINE r == [client |-> c, cmd |-> "ACQUIRE", comp |-> ZeroComponent]
  <2>1. UNCHANGED req /\ ~waiting[c] /\ backlog' = Append(backlog, r)
    BY <1>4 DEF CrashConnecting
  <2>2. /\ waiting'[c] /\ dead'[c]
        /\ \A d \in Clients : d # c =>
             waiting'[d] = waiting[d] /\ dead'[d] = dead[d] /\ held'[d] = held[d]
    BY <1>4 DEF CrashConnecting, Gone, ThreadsInv, TypeOK
  <2>3. r \in Request /\ r.client = c /\ Sound(r)'
    BY <2>2, ScreenAssumption DEF Request, Commands, Sound
  <2> HIDE DEF r
  <2> QED BY <2>1, <2>2, <2>3, OneMoreRequest
<1>5. ASSUME NEW c \in Clients, Crash(c)
      PROVE  OneRequest'
  <2>1. UNCHANGED <<req, backlog, waiting>>
    BY <1>5 DEF Crash
  <2>2. dead'[c] /\ \A d \in Clients : d # c =>
                      dead'[d] = dead[d] /\ held'[d] = held[d]
    BY <1>5 DEF Crash, Gone, ThreadsInv, TypeOK
  <2>3. ASSUME NEW r, r.client \in Clients, Sound(r)
        PROVE  Sound(r)'
    BY <2>1, <2>2, <2>3 DEF Sound
  <2>4. \A x, i : i \in DOMAIN backlog /\ x = backlog[i] => Sound(x)'
    BY <2>3, RequestsOfClients DEF OneRequest
  <2>5. \A x : req # None /\ x = req => Sound(x)'
    BY <2>3, RequestsOfClients DEF OneRequest
  <2> QED BY <2>1, <2>4, <2>5 DEF OneRequest, Sound
<1>6. CASE UNCHANGED <<backlog, req, waiting, held, dead>>
  BY <1>6 DEF OneRequest, Sound
<1> QED
  BY ZenonT(30), NextCases, <1>1, <1>2, <1>3, <1>4, <1>5, <1>6 DEF Ensure,
     AcquireBegin, AcquireTaken, AcquireDone, AcquireHeld, Layout, NotFound,
     PingFound, SetAlive, UpdateFound, QueueRefresh, ReleaseFound,
     ReleaseExpiring, ReleaseClear, UdsBlocks, TurnBegins, CheckState,
     LoadCounter, StoreCounter, Expire, Result, TimerClear, TimerPost, QtReplace,
     QtKeep, QtInit, QtUpdate, QtRefresh, QtClear

\* A client that lives holds a component it uses, and a dead one none.
LEMMA HeldIsUsedKept ==
  ASSUME ThreadsInv, OneRequest, HeldIsUsed, Next
  PROVE  HeldIsUsed'
<1> USE DEF slots, server, timer, clients
<1>1. CASE Reply
  <2>1. UNCHANGED dead /\ req # None /\ req.client \in Clients /\ pc # "accept"
    BY <1>1, Serves DEF Reply
  <2>2. \A d \in Clients : d # req.client \/ dead[d] => held'[d] = held[d]
    BY <1>1 DEF Reply, ThreadsInv, TypeOK
  <2>3. ~dead[req.client] => held'[req.client] \in {req.comp, None}
    BY <1>1, <2>1 DEF Reply, ThreadsInv, TypeOK
  <2>4. ~dead[req.client] => req.comp \in Uses[req.client]
    BY <2>1 DEF OneRequest, Sound
  <2> QED BY <2>1, <2>2, <2>3, <2>4 DEF HeldIsUsed
<1>2. ASSUME NEW c \in Clients, Crash(c) \/ CrashConnecting(c)
      PROVE  HeldIsUsed'
  <2>1. /\ held'[c] = None
        /\ \A d \in Clients : d # c => dead'[d] = dead[d] /\ held'[d] = held[d]
    BY <1>2 DEF Crash, CrashConnecting, Gone, ThreadsInv, TypeOK
  <2> QED BY <2>1 DEF HeldIsUsed
<1>3. CASE UNCHANGED <<held, dead>>
  BY <1>3 DEF HeldIsUsed
<1> QED
  BY ZenonT(30), NextCases, <1>1, <1>2, <1>3 DEF Accept, Refuse, Ensure,
     AcquireBegin, AcquireTaken, AcquireDone, AcquireHeld, Layout, NotFound,
     PingFound, SetAlive, UpdateFound, QueueRefresh, ReleaseFound,
     ReleaseExpiring, ReleaseClear, UdsBlocks, TurnBegins, CheckState,
     LoadCounter, StoreCounter, Expire, Result, TimerClear, TimerPost, QtReplace,
     QtKeep, QtInit, QtUpdate, QtRefresh, QtClear, Call

\* The server thread is past the release of a client at three labels only.
LEMMA PastRelease ==
  ASSUME NEW c \in Clients, Releasing(c) /\ (ReleaseUnderWay \/ pc = "reply")
  PROVE  /\ pc \in {"clear", "blocked", "reply"} /\ req # None /\ req.client = c
         /\ req.cmd = "RELEASE"
  BY DEF Releasing, ReleaseUnderWay

\* What a client holds has a place.
LEMMA HeldPlace ==
  ASSUME ThreadsInv, NEW c \in Clients, held[c] # None
  PROVE  held[c] \in Components /\ SlotOf[held[c]] \in Slots
  BY ScreenAssumption DEF ThreadsInv, TypeOK

\* Steps that give no place up and leave the client's belief alone.
LEMMA HolderStays ==
  ASSUME ThreadsInv, HolderKeepsUntil, NEW c \in Clients,
         held'[c] = held[c], missed'[c] = missed[c],
         held[c] # None /\ Releasing(c) /\ (ReleaseUnderWay \/ pc = "reply") =>
           Releasing(c)' /\ (ReleaseUnderWay' \/ pc' = "reply"),
         \A s \in Slots :
           state[s] = "Acquired" /\ handler[s] # None =>
             state'[s] = "Acquired" /\ handler'[s] = handler[s]
  PROVE  held'[c] # None /\ ~missed'[c] =>
           \/ handler'[SlotOf[held'[c]]] = held'[c] /\ state'[SlotOf[held'[c]]] = "Acquired"
           \/ Releasing(c)' /\ (ReleaseUnderWay' \/ pc' = "reply")
<1> SUFFICES ASSUME held[c] # None, ~missed[c]
             PROVE  \/ handler'[SlotOf[held[c]]] = held[c] /\ state'[SlotOf[held[c]]] = "Acquired"
                    \/ Releasing(c)' /\ (ReleaseUnderWay' \/ pc' = "reply")
  OBVIOUS
<1>1. SlotOf[held[c]] \in Slots
  BY HeldPlace
<1>2. CASE handler[SlotOf[held[c]]] = held[c] /\ state[SlotOf[held[c]]] = "Acquired"
  BY <1>1, <1>2
<1>3. CASE Releasing(c) /\ (ReleaseUnderWay \/ pc = "reply")
  BY <1>3
<1> QED BY <1>2, <1>3 DEF HolderKeepsUntil

\* What a client that lives believes is so, until its release is served.
LEMMA HolderKeepsUntilKept ==
  ASSUME PlacesInv, AnswersInv, OneRequest, HeldIsUsed, HolderKeepsUntil,
         ~overtook', OwnComponents, Next
  PROVE  HolderKeepsUntil'
<1> USE DEF slots, server, timer, clients, PlacesInv, CalmPlaces, LoansInv, AnswersInv
<1>1. CASE Ensure \/ AcquireBegin \/ AcquireTaken \/ AcquireHeld \/ Layout
           \/ NotFound \/ PingFound \/ SetAlive \/ UpdateFound \/ QueueRefresh
           \/ ReleaseFound \/ Accept \/ Refuse \/ AcquireDone
  <2>1. pc \notin {"clear", "blocked", "reply"} /\ UNCHANGED <<handler, held, missed>>
    BY <1>1 DEF Ensure, AcquireBegin, AcquireTaken, AcquireHeld, Layout, NotFound,
       PingFound, SetAlive, UpdateFound, QueueRefresh, ReleaseFound, Accept,
       Refuse, AcquireDone
  <2>2. \A s \in Slots : state[s] = "Acquired" => state'[s] = "Acquired"
    BY <1>1 DEF Ensure, AcquireBegin, AcquireTaken, AcquireHeld, Layout, NotFound,
       PingFound, SetAlive, UpdateFound, QueueRefresh, ReleaseFound, Accept,
       Refuse, AcquireDone, ThreadsInv, TypeOK
  <2> QED BY <2>1, <2>2, PastRelease, HolderStays DEF HolderKeepsUntil
<1>2. CASE ReleaseExpiring
  <2>1. /\ pc = "setExpiring" /\ pc' = "clear" /\ req.cmd = "RELEASE"
        /\ UNCHANGED <<handler, held, missed, req>> /\ Place \in Slots
        /\ \A s \in Slots : s # Place => state'[s] = state[s]
        /\ handler[Place] = req.comp /\ req # None /\ req.client \in Clients
    BY <1>2, Serves DEF ReleaseExpiring, StepOfCommand, Ensured,
       ThreadsInv, TypeOK
  <2> SUFFICES ASSUME NEW c \in Clients, held[c] # None, ~missed[c]
               PROVE  \/ handler[SlotOf[held[c]]] = held[c] /\ state'[SlotOf[held[c]]] = "Acquired"
                      \/ Releasing(c)' /\ ReleaseUnderWay'
    BY <2>1 DEF HolderKeepsUntil
  <2>2. /\ handler[SlotOf[held[c]]] = held[c]
        /\ state[SlotOf[held[c]]] = "Acquired" /\ SlotOf[held[c]] \in Slots
    BY <2>1, HeldPlace, PastRelease DEF HolderKeepsUntil
  <2>3. CASE SlotOf[held[c]] # Place
    BY <2>1, <2>2, <2>3
  <2>4. CASE SlotOf[held[c]] = Place
    <3>1. held[c] \in Uses[c] /\ held[c] \in Uses[req.client]
      BY <2>1, <2>2, <2>4 DEF HeldIsUsed, OneRequest, Sound
    <3>2. c = req.client
      BY <2>1, <3>1 DEF OwnComponents
    <3> QED BY <2>1, <3>2 DEF Releasing, ReleaseUnderWay
  <2> QED BY <2>3, <2>4
<1>3. CASE ReleaseClear
  <2>1. pc' = "blocked" /\ pc = "clear" /\ req.cmd = "RELEASE" /\ req # None
        /\ UNCHANGED <<handler, state, held, missed, req>>
    BY <1>3, Serves DEF ReleaseClear, UdsBlocks, StepOfCommand
  <2>2. \A i \in DOMAIN qt' : qt'[i].by = "uds" => qt'[i].op = "clear"
    BY <2>1, EventsFrom
  <2>3. ReleaseUnderWay'
    BY <2>1, <2>2 DEF ReleaseUnderWay
  <2>4. \A c \in Clients : Releasing(c) => Releasing(c)'
    BY <2>1 DEF Releasing
  <2> QED BY <2>1, <2>3, <2>4 DEF HolderKeepsUntil
<1>4. CASE Reply
  <2>1. /\ pc = "reply" /\ req # None /\ UNCHANGED <<handler, state>>
        /\ req.client \in Clients /\ req.comp \in Components
        /\ handler[Place] = req.comp /\ req.cmd \in Commands
    BY <1>4, Serves DEF Reply, Ensured
  <2>2. \A d \in Clients : d # req.client \/ dead[d] =>
          held'[d] = held[d] /\ missed'[d] = missed[d]
    BY <1>4 DEF Reply, ThreadsInv, TypeOK
  <2>3. ASSUME NEW c \in Clients, held'[c] # None, ~missed'[c]
        PROVE  handler[SlotOf[held'[c]]] = held'[c] /\ state[SlotOf[held'[c]]] = "Acquired"
    <3>1. CASE c # req.client \/ dead[c]
      <4>1. held'[c] = held[c] /\ missed'[c] = missed[c] /\ ~dead[c]
        BY <2>2, <2>3, <3>1 DEF HeldIsUsed
      <4> QED BY <2>3, <3>1, <4>1 DEF HolderKeepsUntil, Releasing
    <3>2. CASE c = req.client /\ ~dead[c]
      <4>1. /\ held'[c] = req.comp /\ answer = "ok" /\ req.cmd # "RELEASE"
            /\ req.cmd # "ACQUIRE" => ~missed[c]
        BY <1>4, <2>1, <2>3, <3>2 DEF Reply, ThreadsInv, TypeOK
      <4>2. CASE req.cmd = "ACQUIRE"
        BY <2>1, <4>1, <4>2 DEF Taking, CounterLasts, Place
      <4>3. CASE req.cmd # "ACQUIRE"
        <5>1. held[c] = req.comp /\ held[c] # None
          BY <2>1, <3>2, <4>3, ScreenAssumption DEF OneRequest, Sound
        <5> QED BY <2>1, <4>1, <4>3, <5>1 DEF HolderKeepsUntil, Releasing
      <4> QED BY <4>2, <4>3
    <3> QED BY <3>1, <3>2
  <2> QED BY <2>1, <2>3 DEF HolderKeepsUntil
<1>5. CASE Expire
  <2>1. /\ UNCHANGED <<handler, held, pc, req>> /\ Looked \in Slots
        /\ \A s \in Slots : s # Looked => state'[s] = state[s]
        /\ \A c \in Clients : ~missed'[c] => ~missed[c] /\ held[c] # handler[Looked]
    BY <1>5, Looks DEF Expire, ThreadsInv, TypeOK
  <2>2. \A c \in Clients :
          Releasing(c) /\ (ReleaseUnderWay \/ pc = "reply") =>
            Releasing(c)' /\ (ReleaseUnderWay' \/ pc' = "reply")
    BY <2>1, ReleaseGoesOn DEF Releasing
  <2> SUFFICES ASSUME NEW c \in Clients, held[c] # None, ~missed'[c]
               PROVE  \/ handler[SlotOf[held[c]]] = held[c] /\ state'[SlotOf[held[c]]] = "Acquired"
                      \/ Releasing(c)' /\ (ReleaseUnderWay' \/ pc' = "reply")
    BY <2>1 DEF HolderKeepsUntil
  <2>3. SlotOf[held[c]] \in Slots /\ ~missed[c] /\ held[c] # handler[Looked]
    BY <2>1, HeldPlace
  <2>4. CASE handler[SlotOf[held[c]]] = held[c] /\ state[SlotOf[held[c]]] = "Acquired"
    BY <2>1, <2>3, <2>4
  <2>5. CASE Releasing(c) /\ (ReleaseUnderWay \/ pc = "reply")
    BY <2>2, <2>5
  <2> QED BY <2>3, <2>4, <2>5 DEF HolderKeepsUntil
<1>6. CASE TurnBegins \/ CheckState \/ LoadCounter \/ StoreCounter \/ Result
           \/ TimerClear \/ TimerPost \/ QtRefresh
  <2>1. UNCHANGED <<handler, state, held, missed, pc, req>>
    BY <1>6 DEF TurnBegins, CheckState, LoadCounter, StoreCounter, Result,
       TimerClear, TimerPost, QtRefresh
  <2>2. \A c \in Clients :
          Releasing(c) /\ (ReleaseUnderWay \/ pc = "reply") =>
            Releasing(c)' /\ (ReleaseUnderWay' \/ pc' = "reply")
    BY <2>1, ReleaseGoesOn DEF Releasing
  <2> QED BY <2>1, <2>2, HolderStays DEF HolderKeepsUntil
<1>7. CASE QtReplace \/ QtKeep \/ QtInit \/ QtUpdate
  <2>1. /\ Head(qt) = qt[1] /\ 1 \in DOMAIN qt /\ Head(qt).by = "uds"
        /\ pc = "blocked" /\ QtPlace = Place /\ Place \in Slots
    BY <1>7, QtForServer
  <2>2. Head(qt).op \in {"ensure", "init", "update"} /\ UNCHANGED <<held, missed>>
    BY <1>7 DEF QtReplace, QtKeep, QtInit, QtUpdate, QtRuns
  <2>3. \A c \in Clients : ~(Releasing(c) /\ (ReleaseUnderWay \/ pc = "reply"))
    BY <2>1, <2>2 DEF ReleaseUnderWay
  <2>4. \A s \in Slots : s # Place => state'[s] = state[s] /\ handler'[s] = handler[s]
    BY <1>7, <2>1 DEF QtReplace, QtKeep, QtInit, QtUpdate, ThreadsInv, TypeOK
  <2>5. state[Place] = "Acquired" /\ handler[Place] # None =>
          UNCHANGED <<state, handler>>
    <3>1. CASE QtReplace \/ QtKeep \/ QtUpdate
      BY <3>1, <2>1 DEF QtReplace, QtKeep, QtUpdate
    <3>2. CASE QtInit
      BY <3>2, InitFinds
    <3> QED BY <1>7, <3>1, <3>2
  <2>6. \A s \in Slots :
          state[s] = "Acquired" /\ handler[s] # None =>
            state'[s] = "Acquired" /\ handler'[s] = handler[s]
    BY <2>4, <2>5
  <2> QED BY <2>2, <2>3, <2>6, HolderStays DEF HolderKeepsUntil
<1>8. CASE QtClear
  <2>1. /\ UNCHANGED <<handler, held, missed, req>> /\ QtPlace \in Slots
        /\ state[QtPlace] # "Acquired"
        /\ \A s \in Slots : s # QtPlace => state'[s] = state[s]
    BY <1>8, ClearFinds DEF QtClear, ThreadsInv, TypeOK
  <2>2. ASSUME NEW c \in Clients, Releasing(c), ReleaseUnderWay \/ pc = "reply"
        PROVE  Releasing(c)' /\ (ReleaseUnderWay' \/ pc' = "reply")
    <3>1. Releasing(c)'
      BY <2>1, <2>2 DEF Releasing
    <3>2. CASE Head(qt).by = "uds"
      BY <1>8, <3>1, <3>2 DEF QtClear
    <3>3. CASE Head(qt).by # "uds"
      BY <1>8, <2>1, <2>2, <3>1, <3>3, QtForTurn, ReleaseGoesOn
    <3> QED BY <3>2, <3>3
  <2> QED BY <2>1, <2>2, HolderStays DEF HolderKeepsUntil
<1>9. ASSUME NEW c \in Clients, Crash(c) \/ CrashConnecting(c)
      PROVE  HolderKeepsUntil'
  <2>1. /\ UNCHANGED <<handler, state, pc, req, qt>> /\ held'[c] = None
        /\ \A d \in Clients : d # c => held'[d] = held[d] /\ missed'[d] = missed[d]
    BY <1>9 DEF Crash, CrashConnecting, Gone, ThreadsInv, TypeOK
  <2>2. ReleaseUnderWay' <=> ReleaseUnderWay
    BY <2>1 DEF ReleaseUnderWay
  <2> QED BY <2>1, <2>2 DEF HolderKeepsUntil, Releasing
<1>10. CASE UNCHANGED <<handler, state, pc, req, qt, held, missed>>
  BY <1>10 DEF HolderKeepsUntil, Releasing, ReleaseUnderWay
<1> QED
  BY ZenonT(30), NextCases, <1>1, <1>2, <1>3, <1>4, <1>5, <1>6, <1>7, <1>8,
     <1>9, <1>10 DEF Call

\* What the clients know is inductive.
LEMMA ClientsInvInductive ==
  ASSUME OwnComponents
  PROVE  /\ Init => ClientsInv
         /\ DisplayInv /\ ClientsInv /\ [Next]_vars => ClientsInv'
<1>1. ASSUME Init
      PROVE  ClientsInv
  BY <1>1 DEF Init, ClientsInv, OneRequest, HeldIsUsed, HolderKeepsUntil
<1>2. ASSUME DisplayInv, ClientsInv, Next
      PROVE  ClientsInv'
  <2>1. OneRequest' /\ HeldIsUsed'
    BY <1>2, OneRequestKept, HeldIsUsedKept DEF DisplayInv, LoansInv, ClientsInv
  <2>2. ASSUME ~overtook'
        PROVE  HolderKeepsUntil'
    BY <1>2, <2>2, NotYet, HolderKeepsUntilKept DEF DisplayInv, PlacesInv, ClientsInv
  <2> QED BY <2>1, <2>2 DEF ClientsInv
<1>3. ASSUME ClientsInv, UNCHANGED vars
      PROVE  ClientsInv'
  BY <1>3 DEF vars, slots, server, timer, clients, ClientsInv, OneRequest, Sound,
     HeldIsUsed, HolderKeepsUntil, Releasing, ReleaseUnderWay
<1> QED
  BY <1>1, <1>2, <1>3

\* A component that its client acquired and did not release is on the display,
\* whatever the other clients ask for and whatever they do when they end,
\* unless the alive timer took it away, and with the same exception.
THEOREM HolderKeepsIsInvariant ==
  ASSUME OwnComponents
  PROVE  Spec => []HolderKeeps
<1>1. Init => DisplayInv /\ ClientsInv
  BY DisplayInvInductive, ClientsInvInductive
<1>2. (DisplayInv /\ ClientsInv) /\ [Next]_vars => (DisplayInv /\ ClientsInv)'
  BY DisplayInvInductive, ClientsInvInductive
<1>3. DisplayInv /\ ClientsInv => HolderKeeps
  BY DEF ClientsInv, HolderKeepsUntil, HolderKeeps
<1> QED
  BY <1>1, <1>2, <1>3, PTL DEF Spec
=============================================================================
