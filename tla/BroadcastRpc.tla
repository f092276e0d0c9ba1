---------------------------- MODULE BroadcastRpc ----------------------------
(***************************************************************************)
(* Requests, answers and broadcasts over D-Bus signals: how the network    *)
(* manager and the config server (servers) talk to the programs that       *)
(* depend on them (clients).                                               *)
(*                                                                         *)
(*   bkk_dbus_broadcast_client.c  send_client_request,                     *)
(*                                server_response_handler                  *)
(*   bkk_dbus_broadcast_server.c  client_request_dispather, serve_data     *)
(*   bkk_dbus.c                   one listener thread for each connection, *)
(*                                one sending connection for each process  *)
(*                                                                         *)
(* A signal reaches every listener of the bus name; who it is for is told  *)
(* by the peer id inside.  The signals of one sender arrive in the order   *)
(* they were sent.  A message carries no number: the answer to an attempt  *)
(* that timed out looks like the answer to the next one.                   *)
(*                                                                         *)
(* The data a server serves is its present value, here a counter of how    *)
(* often it changed.                                                       *)
(***************************************************************************)
EXTENDS Naturals, Sequences

CONSTANTS
  Clients,            \* client names, one process each
  Everyone,           \* the empty peer id
  RequestMaxAttempts, \* REQUEST_MAX_ATTEMPTS
  MaxCalls,           \* bound: each client's calls of send_client_request
  MaxChanges          \* bound: how often the served value changes

ASSUME ClientsAssumption == Everyone \notin Clients

ASSUME LimitsAssumption ==
  /\ RequestMaxAttempts \in Nat \ {0}
  /\ MaxCalls \in [Clients -> Nat]
  /\ MaxChanges \in Nat

VARIABLES
  value,     \* server: the present value
  announced, \* server: the value it broadcast last
  lost,      \* the bus refused that broadcast
  requestPeer,  \* server: request_peer_id
  handler,   \* server's listener: "idle", or "called", "formed" in a request
  formed,    \* server's listener: the answer the handler is about to send
  requests,  \* signals under way to the server: the sender of each request
  inbox,     \* signals under way to each client: [peer, data]
  pc,        \* client's caller: "idle", "send", "wait", "expired"
  attempt,   \* client's caller: attempt
  waiting,   \* client: wait_for_resp
  available, \* client: response_available
  last,      \* client: last_response
  returned,  \* what the last successful call returned
  handled,   \* the broadcast the client's own handler saw last
  calls      \* calls begun so far

server == <<value, announced, lost, requestPeer, handler, formed>>
bus == <<requests, inbox>>
flags == <<waiting, available, last>>
caller == <<pc, attempt, returned, calls>>
vars == <<value, announced, lost, requestPeer, handler, formed, requests, inbox,
          pc, attempt, waiting, available, last, returned, handled, calls>>

Values == 0..MaxChanges
Messages == [peer : Clients \cup {Everyone}, data : Values]

TypeServer ==
  /\ value \in Values /\ announced \in Values /\ formed \in Values
  /\ requestPeer \in Clients \cup {Everyone}
  /\ handler \in {"idle", "called", "formed"}

TypeBus ==
  /\ requests \in Seq(Clients)
  /\ inbox \in [Clients -> Seq(Messages)]

TypeFlags ==
  /\ lost \in BOOLEAN
  /\ waiting \in [Clients -> BOOLEAN]
  /\ available \in [Clients -> BOOLEAN]

TypeClient ==
  /\ pc \in [Clients -> {"idle", "send", "wait", "expired"}]
  /\ last \in [Clients -> Values]
  /\ returned \in [Clients -> Values]
  /\ handled \in [Clients -> Values]

TypeCounters ==
  /\ attempt \in [Clients -> 0..RequestMaxAttempts]
  /\ calls \in [Clients -> Nat]
  /\ \A c \in Clients : calls[c] <= MaxCalls[c]

TypeOK == TypeServer /\ TypeBus /\ TypeFlags /\ TypeClient /\ TypeCounters

----------------------------------------------------------------------------
(* The client's caller: send_client_request *)

Call(c) ==
  /\ pc[c] = "idle"
  /\ calls[c] < MaxCalls[c]
  /\ calls' = [calls EXCEPT ![c] = @ + 1]
  /\ attempt' = [attempt EXCEPT ![c] = 0]
  /\ pc' = [pc EXCEPT ![c] = "send"]
  /\ UNCHANGED <<server, bus, flags, returned, handled>>

\* Mutant: the signal is sent before the flags are set, so an answer can be
\* there before anybody waits for it.
MutantSendFirst(c) ==
  /\ pc[c] = "send"
  /\ requests' = Append(requests, c)
  /\ pc' = [pc EXCEPT ![c] = "wait"]
  /\ UNCHANGED <<server, inbox, attempt, flags, returned, handled, calls>>

\* Under the mutex until the wait begins: the flags, then the signal.
Send(c) ==
  /\ pc[c] = "send"
  /\ waiting' = [waiting EXCEPT ![c] = TRUE]
  /\ available' = [available EXCEPT ![c] = FALSE]
  /\ requests' = Append(requests, c)
  /\ pc' = [pc EXCEPT ![c] = "wait"]
  /\ UNCHANGED <<server, inbox, attempt, last, returned, handled, calls>>

\* The bus refuses the signal: the call returns at once.
SendFails(c) ==
  /\ pc[c] = "send"
  /\ waiting' = [waiting EXCEPT ![c] = FALSE]
  /\ available' = [available EXCEPT ![c] = FALSE]
  /\ pc' = [pc EXCEPT ![c] = "idle"]
  /\ UNCHANGED <<server, bus, attempt, last, returned, handled, calls>>

\* The deadline passes.  The mutex has still to be taken again.
Expire(c) ==
  /\ pc[c] = "wait"
  /\ waiting[c]
  /\ pc' = [pc EXCEPT ![c] = "expired"]
  /\ UNCHANGED <<server, bus, flags, attempt, returned, handled, calls>>

\* pthread_cond_timedwait has returned: signalled, or timed out.
Woken(c) == pc[c] = "expired" \/ (pc[c] = "wait" /\ ~waiting[c])

Take(c) ==
  /\ Woken(c)
  /\ available[c]
  /\ returned' = [returned EXCEPT ![c] = last[c]]
  /\ pc' = [pc EXCEPT ![c] = "idle"]
  /\ waiting' = [waiting EXCEPT ![c] = FALSE]
  /\ UNCHANGED <<server, bus, attempt, available, last, handled, calls>>

\* Mutants: a timeout that nothing counts; one attempt too many.
MutantRetryForever(c) ==
  /\ Woken(c)
  /\ ~available[c]
  /\ waiting' = [waiting EXCEPT ![c] = FALSE]
  /\ pc' = [pc EXCEPT ![c] = "send"]
  /\ UNCHANGED <<server, bus, available, last, attempt, returned, handled, calls>>
MutantOneMore(c) ==
  /\ Woken(c)
  /\ ~available[c]
  /\ waiting' = [waiting EXCEPT ![c] = FALSE]
  /\ attempt' = [attempt EXCEPT ![c] = @ + 1]
  /\ pc' = [pc EXCEPT ![c] = IF attempt[c] <= RequestMaxAttempts THEN "send" ELSE "idle"]
  /\ UNCHANGED <<server, bus, available, last, returned, handled, calls>>

\* No answer within this attempt: the next one, or -1 after the last.
NextAttempt(c) ==
  /\ Woken(c)
  /\ ~available[c]
  /\ waiting' = [waiting EXCEPT ![c] = FALSE]
  /\ attempt' = [attempt EXCEPT ![c] = @ + 1]
  /\ pc' = [pc EXCEPT ![c] = IF attempt'[c] < RequestMaxAttempts THEN "send" ELSE "idle"]
  /\ UNCHANGED <<server, bus, available, last, returned, handled, calls>>

Caller(c) == Send(c) \/ SendFails(c) \/ Expire(c) \/ Take(c) \/ NextAttempt(c)

----------------------------------------------------------------------------
(* The client's listener: server_response_handler, under the same mutex *)

First(c) == Head(inbox[c])

\* Mutant: the peer id is not compared.
MutantIsAnswer(c) == waiting[c]

\* is_response_for_client, while the caller waits for one.
IsAnswer(c) == First(c).peer = c /\ waiting[c]

Receive(c) ==
  /\ inbox[c] # <<>>
  /\ IsAnswer(c)
  /\ last' = [last EXCEPT ![c] = First(c).data]
  /\ available' = [available EXCEPT ![c] = TRUE]
  /\ waiting' = [waiting EXCEPT ![c] = FALSE]
  /\ inbox' = [inbox EXCEPT ![c] = Tail(@)]
  /\ UNCHANGED <<server, requests, caller, handled>>

\* Mutant: a late answer goes to the program's handler like a broadcast.
MutantPassOn(c) ==
  /\ inbox[c] # <<>>
  /\ ~IsAnswer(c)
  /\ handled' = [handled EXCEPT ![c] = First(c).data]
  /\ inbox' = [inbox EXCEPT ![c] = Tail(@)]
  /\ UNCHANGED <<server, requests, flags, caller>>

\* A broadcast goes to the handler of the program; an answer for another
\* client, or one that nobody waits for any more, is dropped.
PassOn(c) ==
  /\ inbox[c] # <<>>
  /\ ~IsAnswer(c)
  /\ handled' = IF First(c).peer = Everyone
                  THEN [handled EXCEPT ![c] = First(c).data]
                  ELSE handled
  /\ inbox' = [inbox EXCEPT ![c] = Tail(@)]
  /\ UNCHANGED <<server, requests, flags, caller>>

Listener(c) == Receive(c) \/ PassOn(c)

----------------------------------------------------------------------------
(* The server *)

SendToAll(message) == inbox' = [c \in Clients |-> Append(inbox[c], message)]

\* client_request_dispather takes the next request and calls the handler.
Dispatch ==
  /\ handler = "idle"
  /\ requests # <<>>
  /\ requestPeer' = Head(requests)
  /\ requests' = Tail(requests)
  /\ handler' = "called"
  /\ UNCHANGED <<value, announced, lost, formed, inbox, flags, caller, handled>>

\* The handler reads what it is going to serve ...
Form ==
  /\ handler = "called"
  /\ formed' = value
  /\ handler' = "formed"
  /\ UNCHANGED <<value, announced, lost, requestPeer, bus, flags, caller, handled>>

\* ... or refuses to serve anything.
Refuse ==
  /\ handler = "called"
  /\ handler' = "idle"
  /\ requestPeer' = Everyone
  /\ UNCHANGED <<value, announced, lost, formed, bus, flags, caller, handled>>

\* serve_data on the listener thread, then the end of the dispatcher.
Serve ==
  /\ handler = "formed"
  /\ SendToAll([peer |-> requestPeer, data |-> formed])
  /\ handler' = "idle"
  /\ requestPeer' = Everyone
  /\ UNCHANGED <<value, announced, lost, formed, requests, flags, caller, handled>>

\* The bus refuses the answer; nobody looks at the result.
ServeFails ==
  /\ handler = "formed"
  /\ handler' = "idle"
  /\ requestPeer' = Everyone
  /\ UNCHANGED <<value, announced, lost, formed, bus, flags, caller, handled>>

Change ==
  /\ value < MaxChanges
  /\ value' = value + 1
  /\ UNCHANGED <<announced, lost, requestPeer, handler, formed, bus, flags, caller, handled>>

\* Mutant: serve_data uses request_peer_id on whatever thread it runs.
MutantBroadcast ==
  /\ announced # value
  /\ announced' = value
  /\ lost' = FALSE
  /\ SendToAll([peer |-> requestPeer, data |-> value])
  /\ UNCHANGED <<value, requestPeer, handler, formed, requests, flags, caller, handled>>

\* serve_data on the main thread: the thread-specific key is not set there,
\* so the peer id stays empty.
Broadcast ==
  /\ announced # value
  /\ announced' = value
  /\ lost' = FALSE
  /\ SendToAll([peer |-> Everyone, data |-> value])
  /\ UNCHANGED <<value, requestPeer, handler, formed, requests, flags, caller, handled>>

\* The bus refuses the broadcast, and it is not sent again.
BroadcastFails ==
  /\ announced # value
  /\ announced' = value
  /\ lost' = TRUE
  /\ UNCHANGED <<value, requestPeer, handler, formed, bus, flags, caller, handled>>

Server == Dispatch \/ Form \/ Refuse \/ Serve \/ ServeFails

----------------------------------------------------------------------------
Init ==
  /\ value = 0 /\ announced = 0 /\ formed = 0
  /\ lost = FALSE
  /\ requestPeer = Everyone
  /\ handler = "idle"
  /\ requests = <<>>
  /\ inbox = [c \in Clients |-> <<>>]
  /\ pc = [c \in Clients |-> "idle"]
  /\ attempt = [c \in Clients |-> 0]
  /\ waiting = [c \in Clients |-> FALSE]
  /\ available = [c \in Clients |-> FALSE]
  /\ last = [c \in Clients |-> 0]
  /\ returned = [c \in Clients |-> 0]
  /\ handled = [c \in Clients |-> 0]
  /\ calls = [c \in Clients |-> 0]

Next ==
  \/ \E c \in Clients : Call(c) \/ Caller(c) \/ Listener(c)
  \/ Server
  \/ Change
  \/ Broadcast
  \/ BroadcastFails

Spec == Init /\ [][Next]_vars

\* Threads are scheduled and deadlines pass.  No program has to call, and
\* no value has to change.
FairSpec ==
  /\ Spec
  /\ \A c \in Clients : WF_vars(Caller(c)) /\ WF_vars(Listener(c))
  /\ WF_vars(Server) /\ WF_vars(Broadcast \/ BroadcastFails)

----------------------------------------------------------------------------
(* Properties *)

(* Only the listener ends the wait of an attempt, and only by recording an *)
(* answer: when the caller is woken or its deadline passes, either an      *)
(* answer is there or the attempt still waits.  So an answer that comes    *)
(* together with the deadline is returned, and none is recorded when no    *)
(* call is under way.                                                      *)
FlagsAgree ==
  \A c \in Clients :
    /\ pc[c] \in {"wait", "expired"} => (waiting[c] <=> ~available[c])
    /\ waiting[c] => pc[c] \in {"wait", "expired"}

(* A client never receives the answer another one asked for: a call only   *)
(* ever returns what the server sent to this client.  As the server serves *)
(* requests one by one and signals keep their order, the values successive *)
(* calls return never go back in time, even if an answer is that of an     *)
(* earlier attempt or of an earlier call that gave up.                     *)
AnswersNeverGoBack == [][\A c \in Clients : returned'[c] >= returned[c]]_vars

(* A client's handler sees the broadcasts in their order, whatever         *)
(* requests are answered in between.                                       *)
BroadcastsNeverGoBack == [][\A c \in Clients : handled'[c] >= handled[c]]_vars

(* Every call returns, whether or not the server answers.                  *)
CallReturns == \A c \in Clients : pc[c] # "idle" ~> pc[c] = "idle"

(* A broadcast the bus took is not swallowed by a call that waits: the     *)
(* last one ends up in every client's handler.                             *)
BroadcastArrives == \A c \in Clients : <>[](handled[c] = value \/ lost)
=============================================================================
