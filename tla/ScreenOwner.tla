---------------------------- MODULE ScreenOwner ----------------------------
(***************************************************************************)
(* The screen owner: it lends the places of the display to client          *)
(* processes and takes them back when a client falls silent.               *)
(*                                                                         *)
(*   screen.cpp                   dispatch_client_request, ensure_*,       *)
(*                                updateWidgets, alive_check               *)
(*   component_req_handler.cpp    acquire, ping, release, the alive        *)
(*                                counter, the Qt thread's clear           *)
(*   *_req_handler.cpp            init_ui, refresh_ui, update_component    *)
(*   bkk_ipc_uds.c                one server thread, one request at a time *)
(*   bkk_screen_client.cpp        the blocking calls of the clients        *)
(*                                                                         *)
(* Three threads share the handlers without a lock: the server thread      *)
(* ("uds"), the one-second alive timer ("alive") and the Qt thread, which  *)
(* alone touches widgets.  The first two hand work to the Qt thread        *)
(* through its event queue and block until it is done, except for a        *)
(* refresh, which is only queued.                                          *)
(***************************************************************************)
EXTENDS Naturals, FiniteSets, Sequences, SequencesExt

CONSTANTS
  Clients,         \* client threads
  Components,      \* bkk_screen_component_id_t
  Slots,           \* the places: main_content_handler, info_bar_handler
  SlotOf,          \* the place a component is shown at
  SlotOrder,       \* the order alive_check goes through the places
  Uses,            \* the components a client works with
  KeepsWidget,     \* components whose init_ui leaves an existing widget alone
  ResetsLabels,    \* components that forget their child widgets with the widget
  ZeroComponent,   \* the component a zeroed message names
  None,            \* null pointer
  MaxAlive,        \* MAX_ALIVE_COUNTER
  MaxEvents,       \* bound: events in the Qt thread's queue
  Mortal,          \* bound: the clients whose process may end
  TurnsPerRequest  \* alive_check turns that can be under way during one request

States == {"Empty", "Ready", "Acquired", "Expiring"}
Commands == {"ACQUIRE", "PING", "RELEASE", "SET_DATA"}

ASSUME ScreenAssumption ==
  /\ None \notin Components
  /\ SlotOf \in [Components -> Slots]
  /\ SlotOrder \in Seq(Slots) /\ ToSet(SlotOrder) = Slots
  /\ Uses \in [Clients -> SUBSET Components]
  /\ KeepsWidget \subseteq Components /\ ResetsLabels \subseteq Components
  /\ ZeroComponent \in Components
  /\ MaxAlive \in Nat \ {0}
  /\ MaxEvents \in Nat \ {0} /\ Mortal \subseteq Clients
  /\ TurnsPerRequest \in Nat \ {0}

\* alive_check names each handler once.
ASSUME EachPlaceOnce ==
  \A i, j \in DOMAIN SlotOrder : SlotOrder[i] = SlotOrder[j] => i = j

\* A request takes milliseconds and a turn comes once a second.
ASSUME RequestsAreShort == TurnsPerRequest < MaxAlive

VARIABLES
  handler, \* the component of a place's handler object, None if there is none
  state, taken, alive, \* its members: state, taken, alive_counter
  widget,  \* widget # nullptr
  labels,  \* where the pointers to the child widgets lead
  qt,      \* the Qt thread's event queue
  backlog, \* requests the server has not accepted yet
  pc,      \* where the server thread is
  req,     \* the request it serves
  answer,  \* error_code of the response
  at,      \* where the alive timer's thread is
  place,   \* index in SlotOrder of the place it looks at
  count,   \* its register copy of alive_counter
  turns,   \* turns that were under way during the current request
  held,    \* the component a client holds, as far as it knows
  missed,  \* did that component expire under it?
  waiting, \* the client is in recv
  dead,    \* the client's process is gone
  overtook, \* history: the server worked on a place that a turn had in hand
  renewed  \* history: places whose counter it set after a turn found zero

slots == <<handler, state, taken, alive, widget, labels>>
server == <<backlog, pc, req>>
timer == <<at, place, count>>
clients == <<held, missed, waiting, dead>>
vars == <<slots, qt, server, answer, timer, turns, clients, overtook, renewed>>

Request == [client : Clients, cmd : Commands, comp : Components]
\* The null pointer is no request.
ASSUME NoRequest == None \notin Request

Calls == [op : {"ensure", "init", "update", "refresh", "clear"},
          by : {"uds", "alive", "none"}, slot : Slots]

TypeOK ==
  /\ handler \in [Slots -> Components \cup {None}]
  /\ state \in [Slots -> States]
  /\ taken \in [Slots -> BOOLEAN]
  /\ alive \in [Slots -> 0..MaxAlive]
  /\ widget \in [Slots -> BOOLEAN]
  /\ labels \in [Slots -> {"null", "live", "dangling"}]
  /\ qt \in Seq(Calls)
  /\ backlog \in Seq(Request)
  /\ pc \in {"accept", "ensure", "handle", "setTaken", "setAcquired", "layout",
             "setAlive", "update", "refresh", "setExpiring", "clear", "reply",
             "refuse", "blocked"}
  /\ req \in Request \cup {None}
  /\ answer \in {"ok", "error"}
  /\ at \in {"idle", "check", "load", "store", "expire", "result", "clear", "post",
             "blocked"}
  /\ place \in 1..(Len(SlotOrder) + 1)
  /\ count \in 0..MaxAlive
  /\ turns \in 0..TurnsPerRequest
  /\ held \in [Clients -> Components \cup {None}]
  /\ missed \in [Clients -> BOOLEAN]
  /\ waiting \in [Clients -> BOOLEAN]
  /\ dead \in [Clients -> BOOLEAN]
  /\ overtook \in BOOLEAN
  /\ renewed \subseteq Slots

----------------------------------------------------------------------------
(* The clients *)

\* bkk_screen_client_*: connect, send, then block in recv without a timeout.
Call(c, cmd, k) ==
  /\ ~dead[c] /\ ~waiting[c]
  /\ k \in Uses[c]
  /\ IF cmd = "ACQUIRE" THEN held[c] = None ELSE held[c] = k
  /\ backlog' = Append(backlog, [client |-> c, cmd |-> cmd, comp |-> k])
  /\ waiting' = [waiting EXCEPT ![c] = TRUE]
  /\ UNCHANGED <<slots, qt, pc, req, answer, timer, turns, held, missed, dead>>

Gone(c) ==
  /\ c \in Mortal
  /\ dead' = [dead EXCEPT ![c] = TRUE]
  /\ held' = [held EXCEPT ![c] = None]
  /\ missed' = [missed EXCEPT ![c] = FALSE]

Crash(c) ==
  /\ ~dead[c]
  /\ Gone(c)
  /\ UNCHANGED <<slots, qt, server, answer, timer, turns, waiting>>

\* The process ends between connect and send.  The server's recv returns 0,
\* which it takes for success, and the zeroed message is a command.
CrashConnecting(c) ==
  /\ ~dead[c] /\ ~waiting[c]
  /\ Gone(c)
  /\ waiting' = [waiting EXCEPT ![c] = TRUE]
  /\ backlog' = Append(backlog,
                  [client |-> c, cmd |-> "ACQUIRE", comp |-> ZeroComponent])
  /\ UNCHANGED <<slots, qt, pc, req, answer, timer, turns>>

----------------------------------------------------------------------------
(* The server thread *)

Place == SlotOf[req.comp]

\* invokeMethod with a BlockingQueuedConnection; the Qt thread sets pc.
UdsBlocks(op) ==
  /\ qt' = Append(qt, [op |-> op, by |-> "uds", slot |-> Place])
  /\ pc' = "blocked"

Accept ==
  /\ pc = "accept"
  /\ backlog # <<>>
  /\ req' = Head(backlog)
  /\ backlog' = Tail(backlog)
  /\ pc' = "ensure"
  /\ turns' = IF at = "idle" THEN 0 ELSE 1
  /\ UNCHANGED <<slots, qt, answer, timer, clients>>

\* What the alive timer looks at, and whether it has it in hand: from where it
\* finds it acquired to where it asks the Qt thread to clear it.
Looked == SlotOrder[place]
InHand(s) ==
  at \in {"load", "store", "expire", "result", "clear", "post"} /\ Looked = s

\* ensure_*_handler: the right handler exists, or the Qt thread decides.  What
\* is left out: a handler that the Qt thread deletes while a turn is inside it
\* is freed memory to that turn, and the model has no outcome for that.
Ensure ==
  /\ pc = "ensure"
  /\ handler[Place] # req.comp /\ InHand(Place) => state[Place] # "Empty"
  /\ IF handler[Place] = req.comp
       THEN pc' = "handle" /\ UNCHANGED qt
       ELSE UdsBlocks("ensure")
  /\ UNCHANGED <<slots, backlog, req, answer, timer, turns, clients>>

\* ensure_main_content_handler returned null: no reply, the socket stays open.
Refuse ==
  /\ pc = "refuse"
  /\ pc' = "accept"
  /\ req' = None
  /\ turns' = 0
  /\ UNCHANGED <<slots, qt, backlog, answer, timer, clients>>

Held == state[Place] = "Acquired"

Answer(a) == pc' = "reply" /\ answer' = a

\* Mutant: a component that is taken is initialised again.
MutantAcquireAgain ==
  /\ pc = "handle" /\ req.cmd = "ACQUIRE"
  /\ UdsBlocks("init")
  /\ UNCHANGED <<slots, backlog, req, answer, timer, turns, clients>>

\* acquire_component: first the UI, on the Qt thread
AcquireBegin ==
  /\ pc = "handle" /\ req.cmd = "ACQUIRE" /\ ~Held
  /\ UdsBlocks("init")
  /\ UNCHANGED <<slots, backlog, req, answer, timer, turns, clients>>

\* then key and taken
AcquireTaken ==
  /\ pc = "setTaken"
  /\ taken' = [taken EXCEPT ![Place] = TRUE]
  /\ pc' = "setAcquired"
  /\ UNCHANGED <<handler, state, alive, widget, labels, qt, backlog, req,
                 answer, timer, turns, clients>>

\* then the state
AcquireDone ==
  /\ pc = "setAcquired"
  /\ state' = [state EXCEPT ![Place] = "Acquired"]
  /\ answer' = "ok"
  /\ pc' = "layout"
  /\ UNCHANGED <<handler, taken, alive, widget, labels, qt, backlog, req,
                 timer, turns, clients>>

\* BKK_SCREEN_ERROR_COMPONENT_ALREADY_ACQUIRED
AcquireHeld ==
  /\ pc = "handle" /\ req.cmd = "ACQUIRE" /\ Held
  /\ answer' = "error"
  /\ pc' = "layout"
  /\ UNCHANGED <<slots, qt, backlog, req, timer, turns, clients>>

\* dispatch_client_request lays the widgets out after every acquire.
Layout ==
  /\ pc = "layout"
  /\ UdsBlocks("update")
  /\ UNCHANGED <<slots, backlog, req, answer, timer, turns, clients>>

\* handle_ping_request, update_component, handle_release_request: not taken
NotFound ==
  /\ \/ pc = "handle" /\ req.cmd \in {"PING", "RELEASE"}
     \/ pc = "update"
  /\ ~Held
  /\ Answer("error")
  /\ UNCHANGED <<slots, qt, backlog, req, timer, turns, clients>>

PingFound ==
  /\ pc = "handle" /\ req.cmd = "PING" /\ Held
  /\ pc' = "setAlive"
  /\ UNCHANGED <<slots, qt, backlog, req, answer, timer, turns, clients>>

\* Set the counter: a ping last, a SET_DATA before it looks at the state.
SetAlive ==
  /\ \/ pc = "setAlive" /\ Answer("ok")
     \/ /\ pc = "handle" /\ req.cmd = "SET_DATA"
        /\ pc' = "update" /\ UNCHANGED answer
  /\ alive' = [alive EXCEPT ![Place] = MaxAlive]
  /\ UNCHANGED <<handler, state, taken, widget, labels, qt, backlog, req,
                 timer, turns, clients>>

\* Mutant: an update that does not look at the state.
MutantUpdateAny ==
  /\ pc = "update"
  /\ pc' = "refresh"
  /\ UNCHANGED <<slots, qt, backlog, req, answer, timer, turns, clients>>

UpdateFound ==
  /\ pc = "update" /\ Held
  /\ pc' = "refresh"
  /\ UNCHANGED <<slots, qt, backlog, req, answer, timer, turns, clients>>

\* qt_thread_refresh_ui: queued, nobody waits for it.  Clients send data
\* every few seconds; the bound keeps them from outrunning the Qt thread.
QueueRefresh ==
  /\ pc = "refresh"
  /\ Len(qt) < MaxEvents
  /\ qt' = Append(qt, [op |-> "refresh", by |-> "none", slot |-> Place])
  /\ Answer("ok")
  /\ UNCHANGED <<slots, backlog, req, timer, turns, clients>>

ReleaseFound ==
  /\ pc = "handle" /\ req.cmd = "RELEASE" /\ Held
  /\ pc' = "setExpiring"
  /\ UNCHANGED <<slots, qt, backlog, req, answer, timer, turns, clients>>

ReleaseExpiring ==
  /\ pc = "setExpiring"
  /\ state' = [state EXCEPT ![Place] = "Expiring"]
  /\ pc' = "clear"
  /\ UNCHANGED <<handler, taken, alive, widget, labels, qt, backlog, req,
                 answer, timer, turns, clients>>

\* Mutant: a release that only marks the component.
MutantReleaseMarks ==
  /\ pc = "clear"
  /\ Answer("ok")
  /\ UNCHANGED <<slots, qt, backlog, req, timer, turns, clients>>

\* qt_thread_clear_component, up to the call it waits for
ReleaseClear ==
  /\ pc = "clear"
  /\ taken' = [taken EXCEPT ![Place] = FALSE]
  /\ alive' = [alive EXCEPT ![Place] = MaxAlive]
  /\ answer' = "ok"
  /\ UdsBlocks("clear")
  /\ UNCHANGED <<handler, state, widget, labels, backlog, req, timer, turns, clients>>

\* Send the response and close.  To the client an error, and the answer to
\* a release, mean that it holds nothing.
Reply ==
  /\ pc = "reply"
  /\ LET c == req.client
         holds == answer = "ok" /\ req.cmd # "RELEASE"
     IN  /\ waiting' = [waiting EXCEPT ![c] = FALSE]
         /\ IF dead[c]
              THEN UNCHANGED <<held, missed>>
              ELSE /\ held' = [held EXCEPT ![c] = IF holds THEN req.comp ELSE None]
                   /\ missed' = [missed EXCEPT ![c] = @ /\ holds /\ req.cmd # "ACQUIRE"]
  /\ pc' = "accept"
  /\ req' = None /\ answer' = "ok" /\ turns' = 0
  /\ UNCHANGED <<slots, qt, backlog, timer, dead>>

UdsStep ==
  \/ Accept \/ Ensure \/ Refuse \/ Reply
  \/ AcquireBegin \/ AcquireTaken \/ AcquireDone \/ AcquireHeld \/ Layout
  \/ NotFound \/ PingFound \/ SetAlive \/ UpdateFound \/ QueueRefresh
  \/ ReleaseFound \/ ReleaseExpiring \/ ReleaseClear

\* No lock keeps the server thread from a place that a turn has in hand.  What
\* the history notes: that it went there at all, and that it set the counter
\* after the turn had found it to be zero.
Uds ==
  /\ UdsStep
  /\ overtook' = (overtook \/ (req # None /\ InHand(Place)))
  /\ renewed' = IF at \in {"expire", "result"} /\ count = 0 /\ alive'[Looked] > 0
                  THEN renewed \cup {Looked} ELSE renewed

----------------------------------------------------------------------------
(* The alive timer: alive_check calls cyclic_alive_check for each place *)

NextPlace ==
  /\ place' = IF place = Len(SlotOrder) THEN 1 ELSE place + 1
  /\ at' = IF place = Len(SlotOrder) THEN "idle" ELSE "check"
  /\ count' = 0

TurnBegins ==
  /\ at = "idle"
  /\ pc # "accept" => turns < TurnsPerRequest
  /\ turns' = IF pc = "accept" THEN 0 ELSE turns + 1
  /\ at' = "check"
  /\ UNCHANGED <<slots, qt, server, answer, place, count, clients>>

CheckState ==
  /\ at = "check"
  /\ IF handler[Looked] # None /\ state[Looked] = "Acquired"
       THEN at' = "load" /\ UNCHANGED <<place, count>>
       ELSE NextPlace
  /\ UNCHANGED <<slots, qt, server, answer, turns, clients>>

\* --alive_counter is a load and a store.
LoadCounter ==
  /\ at = "load"
  /\ count' = IF alive[Looked] > 0 THEN alive[Looked] - 1 ELSE 0
  /\ at' = "store"
  /\ UNCHANGED <<slots, qt, server, answer, place, turns, clients>>

\* Mutant: a counter that wraps instead of stopping the component at zero.
MutantStoreWraps ==
  /\ at = "store"
  /\ alive' = [alive EXCEPT ![Looked] = IF count = 0 THEN MaxAlive ELSE count]
  /\ at' = IF count = 0 THEN "expire" ELSE "result"
  /\ UNCHANGED <<handler, state, taken, widget, labels, qt, server, answer,
                 place, count, turns, clients>>

\* Mutant: a loan that ends one turn early.
MutantStoreEarly ==
  /\ at = "store"
  /\ alive' = [alive EXCEPT ![Looked] = count]
  /\ at' = IF count <= 1 THEN "expire" ELSE "result"
  /\ UNCHANGED <<handler, state, taken, widget, labels, qt, server, answer,
                 place, count, turns, clients>>

StoreCounter ==
  /\ at = "store"
  /\ alive' = [alive EXCEPT ![Looked] = count]
  /\ at' = IF count = 0 THEN "expire" ELSE "result"
  /\ UNCHANGED <<handler, state, taken, widget, labels, qt, server, answer,
                 place, count, turns, clients>>

\* Mutant: an expired component is marked with the state nobody handles.
MutantExpireDead ==
  /\ at = "expire"
  /\ state' = [state EXCEPT ![Looked] = "Dead"]
  /\ at' = "result"
  /\ UNCHANGED <<handler, taken, alive, widget, labels, qt, server, answer,
                 place, count, turns, clients>>

Expire ==
  /\ at = "expire"
  /\ state' = [state EXCEPT ![Looked] = "Expiring"]
  /\ missed' = [c \in Clients |-> missed[c] \/ held[c] = handler[Looked]]
  /\ at' = "result"
  /\ UNCHANGED <<handler, taken, alive, widget, labels, qt, server, answer,
                 place, count, turns, held, waiting, dead>>

\* cyclic_alive_check returns the counter, which it reads again.
Result ==
  /\ at = "result"
  /\ IF alive[Looked] = 0 THEN at' = "clear" /\ UNCHANGED <<place, count>>
                          ELSE NextPlace
  /\ UNCHANGED <<slots, qt, server, answer, turns, clients>>

\* qt_thread_clear_component on this thread: the members first ...
TimerClear ==
  /\ at = "clear"
  /\ taken' = [taken EXCEPT ![Looked] = FALSE]
  /\ alive' = [alive EXCEPT ![Looked] = MaxAlive]
  /\ at' = "post"
  /\ UNCHANGED <<handler, state, widget, labels, qt, server, answer, place, count,
                 turns, clients>>

\* ... then, after the table's blink timer is joined, the call it waits for
TimerPost ==
  /\ at = "post"
  /\ qt' = Append(qt, [op |-> "clear", by |-> "alive", slot |-> Looked])
  /\ at' = "blocked"
  /\ UNCHANGED <<slots, server, answer, place, count, turns, clients>>

AliveStep ==
  \/ TurnBegins \/ CheckState \/ LoadCounter \/ StoreCounter \/ Expire
  \/ Result \/ TimerClear \/ TimerPost

Alive ==
  /\ AliveStep
  /\ renewed' = IF at = "store" THEN renewed \ {Looked} ELSE renewed
  /\ UNCHANGED overtook

----------------------------------------------------------------------------
(* The Qt thread: one event at a time *)

QtRuns(op) == qt # <<>> /\ Head(qt).op = op /\ qt' = Tail(qt)
QtPlace == Head(qt).slot

\* Mutant: a handler of another component is replaced whatever its state.
MutantReplaceAny ==
  /\ QtRuns("ensure")
  /\ handler' = [handler EXCEPT ![QtPlace] = req.comp]
  /\ state' = [state EXCEPT ![QtPlace] = "Ready"]
  /\ taken' = [taken EXCEPT ![QtPlace] = FALSE]
  /\ alive' = [alive EXCEPT ![QtPlace] = MaxAlive]
  /\ widget' = [widget EXCEPT ![QtPlace] = TRUE]
  /\ labels' = [labels EXCEPT ![QtPlace] = "live"]
  /\ pc' = "handle"
  /\ UNCHANGED <<backlog, req, answer, timer, turns, clients>>

\* Mutant: the constructor leaves the UI for later, so that the loop that
\* waits for Ready never ends.
MutantReplaceSpins ==
  /\ qt # <<>> /\ Head(qt).op = "ensure"
  /\ handler[QtPlace] = None \/ state[QtPlace] = "Empty"
  /\ handler' = [handler EXCEPT ![QtPlace] = req.comp]
  /\ UNCHANGED <<state, taken, alive, widget, labels, qt, server, answer,
                 timer, turns, clients>>

\* ensure_*_handler on the Qt thread.  The new handler's constructor sets up
\* its UI, so that the loop that waits for Ready ends at once.
QtReplace ==
  /\ QtRuns("ensure")
  /\ handler[QtPlace] = None \/ state[QtPlace] = "Empty"
  /\ handler' = [handler EXCEPT ![QtPlace] = req.comp]
  /\ state' = [state EXCEPT ![QtPlace] = "Ready"]
  /\ taken' = [taken EXCEPT ![QtPlace] = FALSE]
  /\ alive' = [alive EXCEPT ![QtPlace] = MaxAlive]
  /\ widget' = [widget EXCEPT ![QtPlace] = TRUE]
  /\ labels' = [labels EXCEPT ![QtPlace] = "live"]
  /\ pc' = "handle"
  /\ UNCHANGED <<backlog, req, answer, timer, turns, clients>>

QtKeep ==
  /\ QtRuns("ensure")
  /\ handler[QtPlace] # None /\ state[QtPlace] # "Empty"
  /\ pc' = "refuse"
  /\ UNCHANGED <<slots, backlog, req, answer, timer, turns, clients>>

\* init_ui
QtInit ==
  /\ QtRuns("init")
  /\ IF widget[QtPlace] /\ handler[QtPlace] \in KeepsWidget
       THEN UNCHANGED <<state, widget, labels>>
       ELSE /\ widget' = [widget EXCEPT ![QtPlace] = TRUE]
            /\ labels' = [labels EXCEPT ![QtPlace] = "live"]
            /\ state' = [state EXCEPT ![QtPlace] = "Ready"]
  /\ pc' = "setTaken"
  /\ UNCHANGED <<handler, taken, alive, backlog, req, answer, timer, turns, clients>>

\* updateWidgets
QtUpdate ==
  /\ QtRuns("update")
  /\ pc' = "reply"
  /\ UNCHANGED <<slots, backlog, req, answer, timer, turns, clients>>

\* refresh_ui writes to the child widgets.
QtRefresh ==
  /\ QtRuns("refresh")
  /\ UNCHANGED <<slots, server, answer, timer, turns, clients>>

\* Mutant: a clear that keeps the widget.
MutantClearKeepsWidget ==
  /\ QtRuns("clear")
  /\ state' = [state EXCEPT ![QtPlace] = "Empty"]
  /\ IF Head(qt).by = "uds"
       THEN pc' = "reply" /\ UNCHANGED timer
       ELSE NextPlace /\ UNCHANGED pc
  /\ UNCHANGED <<handler, taken, alive, widget, labels, backlog, req, answer,
                 turns, clients>>

\* The lambda of qt_thread_clear_component.  Deleting the widget deletes its
\* children; only the table resets its pointer to them.
QtClear ==
  /\ QtRuns("clear")
  /\ widget' = [widget EXCEPT ![QtPlace] = FALSE]
  /\ labels' = [labels EXCEPT ![QtPlace] =
                  IF handler[QtPlace] \in ResetsLabels THEN "null"
                  ELSE IF widget[QtPlace] THEN "dangling" ELSE @]
  /\ state' = [state EXCEPT ![QtPlace] = "Empty"]
  /\ IF Head(qt).by = "uds"
       THEN pc' = "reply" /\ UNCHANGED timer
       ELSE NextPlace /\ UNCHANGED pc
  /\ UNCHANGED <<handler, taken, alive, backlog, req, answer, turns, clients>>

QtStep == QtReplace \/ QtKeep \/ QtInit \/ QtUpdate \/ QtRefresh \/ QtClear

Qt == QtStep /\ UNCHANGED <<overtook, renewed>>

----------------------------------------------------------------------------
Init ==
  /\ handler = [s \in Slots |-> None]
  /\ state = [s \in Slots |-> "Empty"]
  /\ taken = [s \in Slots |-> FALSE]
  /\ alive = [s \in Slots |-> MaxAlive]
  /\ widget = [s \in Slots |-> FALSE]
  /\ labels = [s \in Slots |-> "null"]
  /\ qt = <<>>
  /\ backlog = <<>> /\ pc = "accept" /\ req = None /\ answer = "ok"
  /\ at = "idle" /\ place = 1 /\ count = 0 /\ turns = 0
  /\ held = [c \in Clients |-> None]
  /\ missed = [c \in Clients |-> FALSE]
  /\ waiting = [c \in Clients |-> FALSE]
  /\ dead = [c \in Clients |-> FALSE]
  /\ overtook = FALSE /\ renewed = {}

ClientStep(c) ==
  \/ \E cmd \in Commands, k \in Components : Call(c, cmd, k)
  \/ Crash(c)
  \/ CrashConnecting(c)

Client(c) == ClientStep(c) /\ UNCHANGED <<overtook, renewed>>

Next == Uds \/ Alive \/ Qt \/ \E c \in Clients : Client(c)

Spec == Init /\ [][Next]_vars

\* The three threads are scheduled; no client has to do anything.
FairSpec == Spec /\ WF_vars(Uds) /\ WF_vars(Alive) /\ WF_vars(Qt)

----------------------------------------------------------------------------
(* Properties *)

\* Unless the server thread went to a place that a turn had in hand: the
\* comments on ComponentState_t, component_req_handler.hpp:13-15, hold in every
\* step of the three threads.  state, taken, widget and alive_counter, which are
\* assigned one after the other and by different threads, tell one story: only
\* an acquire that is between its two assignments is Ready and taken, and the
\* next loan of a place starts with all of its counter.
StateComments ==
  ~overtook =>
    \A s \in Slots :
      /\ state[s] = "Empty" => ~taken[s] /\ ~widget[s]
      /\ state[s] = "Ready" =>
           widget[s] /\ (taken[s] => pc = "setAcquired" /\ Place = s)
      /\ state[s] = "Acquired" => taken[s] /\ widget[s]
      /\ state[s] \in {"Empty", "Ready"} => alive[s] = MaxAlive

\* Somebody is on the way to clear the place: the server thread that serves a
\* release, or the turn of the alive timer that marked it.
Cleaning(s) ==
  \/ req # None /\ Place = s /\ req.cmd = "RELEASE" /\ pc \in {"clear", "blocked"}
  \/ at \in {"result", "clear", "post", "blocked"} /\ Looked = s

\* component_req_handler.hpp:16: an Expiring component is being cleaned up.
ExpiringIsCleanedUp ==
  \A s \in Slots : state[s] = "Expiring" => Cleaning(s)

\* However the server thread and the timer interleave: a place that is Expiring
\* and that nobody will clear is one whose counter the server set between the
\* turn that found zero and its second look at the counter, and no other.
OnlyRenewedIsForgotten ==
  \A s \in Slots : state[s] = "Expiring" => Cleaning(s) \/ s \in renewed

\* A refresh is queued and not waited for.  When the Qt thread gets to it, the
\* labels refresh_ui writes to are not those of a widget that was deleted, with
\* the same exception.
RefreshSafe ==
  ~overtook /\ qt # <<>> /\ Head(qt).op = "refresh" =>
    labels[Head(qt).slot] # "dangling"

\* The release of c is being served, or its answer is on its way.
Releasing(c) == req # None /\ req.client = c /\ req.cmd = "RELEASE"

\* What a client believes is so: a component it acquired and did not release
\* stays on the display, whatever the other clients ask for, unless the alive
\* timer took it away, and with the same exception.
HolderKeeps ==
  ~overtook =>
    \A c \in Clients :
      held[c] # None /\ ~missed[c] /\ ~Releasing(c) =>
        handler[SlotOf[held[c]]] = held[c] /\ state[SlotOf[held[c]]] = "Acquired"

\* The owner implements Lease, however its threads interleave: a place is lent
\* to a component that is Acquired, the alive counter is what the loan has left,
\* and count what a turn is about to leave of it.
Counted(s) ==
  at \in {"store", "expire", "result", "clear", "post", "blocked"} /\ Looked = s

Loans == INSTANCE Lease WITH
  Slot <- Slots, Component <- Components, Nobody <- None,
  lease <- [s \in Slots |-> IF state[s] = "Acquired" THEN handler[s] ELSE None],
  credit <- alive,
  tick <- [s \in Slots |-> IF Counted(s) THEN count ELSE MaxAlive],
  asked <- IF req # None /\ req.cmd = "RELEASE" THEN {Place} ELSE {}

LeaseKept == Loans!Spec

\* The server thread, which blocks on the Qt thread in every request, always
\* gets back to where it accepts the next one.
RequestsServed == pc # "accept" ~> pc = "accept"

\* The users of the component that a place shows are gone.
Abandoned(s) ==
  /\ state[s] \in {"Acquired", "Expiring"}
  /\ \A c \in Clients : handler[s] \in Uses[c] => dead[c]

\* A component whose clients are all gone is taken off the display, unless the
\* last request of one of them met the turn that was to do it.
AbandonedCleared ==
  (\E s \in Slots : Abandoned(s))
    ~> \A s \in Slots : Abandoned(s) => s \in renewed

\* screen.cpp:332 answers a request for a component that cannot be shown now
\* with COMPONENT_NOT_FOUND: a client that lives gets an answer to its call.
EveryCallReturns ==
  \A c \in Clients : waiting[c] ~> ~waiting[c] \/ dead[c]
============================================================================
