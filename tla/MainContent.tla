----------------------------- MODULE MainContent -----------------------------
(***************************************************************************)
(* The main content program: it decides what the large place of the        *)
(* display is for and keeps that component.                                *)
(*                                                                         *)
(*   content_main.cpp           main, the update request, termination      *)
(*   content_state_machine.cpp  init, reinit, switch_state, the broadcast  *)
(*                              handler, exec_normal_display_mode, pings   *)
(*   screen_context.cpp         switch_context, put_*, send_*              *)
(*   api_context.cpp, bkk_api_client.cpp   loading, fetching               *)
(*                                                                         *)
(* Four threads: "main", the listener "net" of the network manager's       *)
(* broadcasts, the config server's listener, and the ping timer.  main and *)
(* net both run switch_state and switch_context, without a lock around     *)
(* them.  The screen owner is here what ScreenOwner shows of it to one     *)
(* client: it serves one call at a time, and it does not answer a call     *)
(* about a component that it cannot show now.  Neither program is started  *)
(* again when it ends: the application manager launches everything once.   *)
(***************************************************************************)
EXTENDS Naturals, Sequences

CONSTANTS
  MaxRetries, \* max_retries
  MaxChanges, \* bound: how often the network manager changes its mode
  MaxSubmits, \* bound: how often the user submits a form
  MaxFaults   \* bound: calls that fail, ends of the two programs

ASSUME BoundsAssumption ==
  /\ MaxRetries \in Nat /\ MaxChanges \in Nat
  /\ MaxSubmits \in Nat /\ MaxFaults \in Nat

Threads == {"main", "net"}
None == "none" \* BKK_SCREEN_COMPONENT_MAX
Components == {"STATUS", "HELPER", "TABLE"}

VARIABLES
  place, stage,  \* owner: component of main_content_handler, and its state
  netMode,       \* network manager: current_network_mode
  signals,       \* broadcasts under way to the listener
  config,        \* how often the API configuration was written
  serving,       \* config server: it writes the stations, it notifies
  notices,       \* its notifications under way
  state,         \* current_state
  shown,         \* main_context_state
  ctx,           \* screen_content_ctx.component_id
  loaded,        \* the configuration in api_fetch_ctx
  flag, event,   \* g_update_requested; g_update_event_fd is readable
  writing,       \* request_content_update is between its two statements
  pc,            \* where a thread is
  job,           \* why it switches the context
  goal,          \* new_state of switch_state
  want,          \* new_state of switch_context
  had,           \* its copy of ctx
  tries,         \* retry_counter
  pinger,        \* where the ping timer's thread is
  pinged,        \* the component it is about to ping
  refused,       \* threads whose call the owner dropped: they wait for ever
  crossed,       \* history: two threads were on the screen at once
  kept,          \* history: a release failed
  lapsed,        \* history: the last acquire failed, or its loan was lost
  stray,         \* history: the screen went its way without current_state
  missed,        \* history: what was written will not be looked at
  changes, submits, faults

owner == <<place, stage>>
network == <<netMode, signals, changes>>
server == <<config, serving, notices, submits>>
update == <<flag, event, writing>>
local == <<job, goal, want, had>>
asking == <<tries, loaded, missed>>
ping == <<pinger, pinged>>
losses == <<kept, lapsed, stray>>
marks == <<refused, crossed, losses>>
vars == <<place, stage, netMode, signals, config, serving, notices, state, shown,
          ctx, loaded, flag, event, writing, pc, job, goal, want, had, tries,
          pinger, pinged, refused, crossed, kept, lapsed, stray, missed, changes,
          submits, faults>>

ContentStates == {"INIT", "AP", "CONFIG_API", "NORMAL", "ERROR"}
\* The steps of switch_context and of the put_* call after it ...
ScreenSteps == {"check", "copy", "release", "acquire", "record", "settle", "put"}
\* ... and those of the callers.
Steps == ScreenSteps \cup
  {"connect", "listen", "begin", "giveup", "get", "ask", "load", "switch", "address", "assign",
   "wait", "exchange", "exec", "fetch", "leave", "stuck", "exited", "stopped",
   "off", "idle"}
Jobs == {"init", "mode", "report", "exit"}

TypeWorld ==
  /\ place \in Components \cup {None} /\ stage \in {"Empty", "Ready", "Acquired", "Down"}
  /\ netMode \in {"UNKNOWN", "AP", "WIFI"} /\ signals \in Seq({"AP", "WIFI"})

TypeCounts ==
  /\ config \in 0..submits /\ notices \in 0..submits /\ submits \in 0..MaxSubmits
  /\ changes \in 0..MaxChanges /\ faults \in 0..MaxFaults
  /\ tries \in 0..(MaxRetries + 1)

TypeShared ==
  /\ state \in ContentStates
  /\ shown \in Components \cup {"UNINITIALIZED", "RELEASE"}
  /\ ctx \in Components \cup {None}
  /\ loaded \in 0..MaxSubmits
  /\ serving \in {"idle", "write", "notify"}
  /\ pinger \in {"off", "wait", "send"}
  /\ pinged \in Components \cup {None}
  /\ refused \subseteq Threads \cup {"ping"}

TypeThreads ==
  /\ pc \in [Threads -> Steps]
  /\ job \in [Threads -> Jobs]
  /\ goal \in [Threads -> ContentStates]
  /\ want \in [Threads -> Components \cup {"RELEASE"}]
  /\ had \in [Threads -> Components \cup {None}]

TypeFlags ==
  /\ flag \in BOOLEAN /\ event \in BOOLEAN /\ writing \in BOOLEAN
  /\ crossed \in BOOLEAN /\ kept \in BOOLEAN /\ lapsed \in BOOLEAN
  /\ stray \in BOOLEAN /\ missed \in BOOLEAN

TypeOK == TypeWorld /\ TypeCounts /\ TypeShared /\ TypeThreads /\ TypeFlags

----------------------------------------------------------------------------
(* The screen owner, as one client meets it *)

\* ensure_main_content_handler: the handler of another component is only
\* replaced when it is Empty.  Otherwise there is no reply.
Accepts(k) == k = place \/ stage = "Empty"

\* The owner listens.  When it has ended every call fails.
Up == stage # "Down"

\* A call that finds no loan of k: the handler may be new, and is Ready.
NotFound(k) ==
  /\ place' = k
  /\ stage' = IF k = place THEN stage ELSE "Ready"

Lent(k) == k = place /\ stage = "Acquired"

\* A thread is between the first and the last of its steps on the screen.
Using(u) ==
  IF u = "ping" THEN pinger = "send"
  ELSE pc[u] \in ScreenSteps \cup {"address", "assign"}

\* Thread t takes a step on the screen.  Did another one start meanwhile?
Crosses(t) == crossed' = (crossed \/ \E u \in (Threads \cup {"ping"}) \ {t} : Using(u))

\* The owner drops the call: t stays where it is.
Refused(t) ==
  /\ refused' = refused \cup {t}
  /\ UNCHANGED owner

Live(t) == t \notin refused

\* connect fails: now and then, or because the owner is not there any more.
Unreached ==
  IF Up THEN faults < MaxFaults /\ faults' = faults + 1 ELSE UNCHANGED faults

----------------------------------------------------------------------------
(* switch_context *)

Goto(t, l) == pc' = [pc EXCEPT ![t] = l]

\* Where a thread goes when switch_context returns, by its caller.
AfterSwitch(t, ok) ==
  CASE job[t] = "init"   -> IF tries > MaxRetries THEN "giveup"
                            ELSE IF ok THEN "put" ELSE "begin"
    [] job[t] = "mode"   -> IF goal[t] = "NORMAL" THEN "assign"
                            ELSE IF goal[t] = "AP" THEN "put" ELSE "address"
    [] job[t] = "report" -> "put"
    [] job[t] = "exit"   -> IF want[t] = "RELEASE" THEN "leave" ELSE "put"

Rest == <<network, server, update, state, ping, asking, faults>>

Check(t) ==
  /\ pc[t] = "check" /\ Live(t)
  /\ Goto(t, IF shown = want[t] THEN AfterSwitch(t, TRUE) ELSE "copy")
  /\ Crosses(t)
  /\ UNCHANGED <<owner, shown, ctx, local, refused, losses, Rest>>

Copy(t) ==
  /\ pc[t] = "copy" /\ Live(t)
  /\ had' = [had EXCEPT ![t] = ctx]
  /\ Goto(t, IF ctx # None THEN "release" ELSE
             IF want[t] = "RELEASE" THEN "record" ELSE "acquire")
  /\ Crosses(t)
  /\ UNCHANGED <<owner, shown, ctx, job, goal, want, refused, losses, Rest>>

\* What follows the release, whatever its result.
Released(t) ==
  /\ had' = [had EXCEPT ![t] = None]
  /\ Goto(t, IF want[t] = "RELEASE" THEN "record" ELSE "acquire")

\* Mutant: the old component is not given back first.
MutantRelease(t) ==
  /\ pc[t] = "release" /\ Live(t)
  /\ Crosses(t)
  /\ Released(t)
  /\ UNCHANGED <<owner, refused, shown, ctx, job, goal, want, losses, Rest>>

Release(t) ==
  /\ pc[t] = "release" /\ Live(t) /\ Up
  /\ Crosses(t)
  /\ IF ~Accepts(had[t])
       THEN Refused(t) /\ UNCHANGED <<pc, had>>
       ELSE /\ IF Lent(had[t]) THEN stage' = "Empty" /\ UNCHANGED place
                               ELSE NotFound(had[t])
            /\ Released(t)
            /\ UNCHANGED refused
  /\ UNCHANGED <<shown, ctx, job, goal, want, losses, Rest>>

\* Acquiring what is lent is an error, after which switch_context returns
\* with ctx and main_context_state as they were.
Acquire(t) ==
  /\ pc[t] = "acquire" /\ Live(t) /\ Up
  /\ Crosses(t)
  /\ IF ~Accepts(want[t])
       THEN Refused(t) /\ UNCHANGED pc
       ELSE /\ place' = want[t] /\ stage' = "Acquired"
            /\ Goto(t, IF Lent(want[t]) THEN AfterSwitch(t, FALSE) ELSE "record")
            /\ UNCHANGED refused
  /\ lapsed' = (lapsed \/ Lent(want[t]))
  /\ UNCHANGED <<shown, ctx, local, kept, stray, Rest>>

\* Mutant: the new component is not recorded.
MutantRecord(t) ==
  /\ pc[t] = "record" /\ Live(t)
  /\ Goto(t, "settle")
  /\ Crosses(t)
  /\ UNCHANGED <<owner, ctx, shown, local, refused, losses, Rest>>

\* What was lost before is made good by what was acquired now.
Record(t) ==
  /\ pc[t] = "record" /\ Live(t)
  /\ ctx' = IF want[t] = "RELEASE" THEN None ELSE want[t]
  /\ lapsed' = FALSE
  /\ Goto(t, "settle")
  /\ Crosses(t)
  /\ UNCHANGED <<owner, shown, local, refused, kept, stray, Rest>>

Settle(t) ==
  /\ pc[t] = "settle" /\ Live(t)
  /\ shown' = want[t]
  /\ Goto(t, AfterSwitch(t, TRUE))
  /\ Crosses(t)
  /\ UNCHANGED <<owner, ctx, local, refused, losses, Rest>>

----------------------------------------------------------------------------
(* put_screen_text, put_helper_info, send_arrival_info *)

\* The component whose data the caller sets.
PutFor(t) ==
  CASE job[t] = "mode" -> "HELPER"
    [] job[t] = "report" -> want[t]
    [] OTHER -> "STATUS"

AfterPut(t) ==
  CASE job[t] = "init" -> "get"
    [] job[t] = "mode" -> "assign"
    [] job[t] = "report" -> "wait"
    [] job[t] = "exit" -> "check"

\* exit releases the component after its last words.
WantAfterPut(t) ==
  CASE job[t] = "exit" -> "RELEASE"
    [] job[t] = "report" -> "STATUS"
    [] OTHER -> want[t]

\* The put_* calls check main_context_state, and their results are ignored.
Put(t) ==
  /\ pc[t] = "put" /\ Live(t) /\ Up
  /\ Crosses(t)
  /\ IF shown # PutFor(t)
       THEN UNCHANGED <<owner, refused>> /\ Goto(t, AfterPut(t))
       ELSE IF ~Accepts(PutFor(t))
              THEN Refused(t) /\ UNCHANGED pc
              ELSE /\ IF Lent(PutFor(t)) THEN UNCHANGED owner ELSE NotFound(PutFor(t))
                   /\ Goto(t, AfterPut(t))
                   /\ UNCHANGED refused
  /\ want' = [want EXCEPT ![t] = IF t \in refused' THEN @ ELSE WantAfterPut(t)]
  /\ UNCHANGED <<shown, ctx, job, goal, had, losses, Rest>>

\* A failed acquire ends the switch, the other results are ignored.
CallFails(t) ==
  /\ pc[t] \in {"release", "acquire", "put"} /\ Live(t)
  /\ Unreached
  /\ kept' = (kept \/ pc[t] = "release")
  /\ lapsed' = (lapsed \/ pc[t] = "acquire")
  /\ CASE pc[t] = "release" -> Released(t)
       [] pc[t] = "acquire" -> Goto(t, AfterSwitch(t, FALSE)) /\ UNCHANGED had
       [] pc[t] = "put" -> Goto(t, AfterPut(t)) /\ UNCHANGED had
  /\ want' = [want EXCEPT ![t] = IF pc[t] = "put" THEN WantAfterPut(t) ELSE @]
  /\ Crosses(t)
  /\ UNCHANGED <<owner, shown, ctx, job, goal, refused, stray, network, server, update, state, ping, asking>>

SwitchContext(t) ==
  \/ Check(t) \/ Copy(t) \/ Release(t) \/ Acquire(t) \/ Record(t) \/ Settle(t)
  \/ Put(t)
  \/ ~Up /\ CallFails(t)

----------------------------------------------------------------------------
(* switch_state *)

Screen == <<owner, shown, ctx, marks>>

\* Call switch_context(k).
Call(t, why, k) ==
  /\ job' = [job EXCEPT ![t] = why]
  /\ want' = [want EXCEPT ![t] = k]
  /\ Goto(t, "check")

\* Where a thread goes when switch_state returns: the listener to its next
\* broadcast, init starts the ping timer, reinit is followed by exec_fun.
Done(t) ==
  /\ goal' = [goal EXCEPT ![t] = "INIT"]
  /\ job' = [job EXCEPT ![t] = "mode"]
  /\ want' = [want EXCEPT ![t] = "STATUS"]
  /\ IF t = "net" THEN Goto(t, "idle") /\ UNCHANGED ping
     ELSE IF pinger = "off"
       THEN Goto(t, "wait") /\ pinger' = "wait" /\ UNCHANGED pinged
       ELSE Goto(t, "exec") /\ UNCHANGED ping

\* The same state, or one that switch_state does not know: ERROR_MODE.
SwitchNothing(t) ==
  /\ pc[t] = "switch"
  /\ goal[t] \in {state, "ERROR"}
  /\ Done(t)
  /\ UNCHANGED <<Screen, had, state, network, server, update, asking, faults>>

SwitchState(t) ==
  /\ pc[t] = "switch"
  /\ goal[t] \notin {state, "ERROR"}
  /\ Call(t, "mode", IF goal[t] = "NORMAL" THEN "TABLE" ELSE "HELPER")
  /\ UNCHANGED <<Screen, goal, had, state, network, server, update,
                 ping, asking, faults>>

\* fetch_ip_addr for the address in the QR code
Address(t) ==
  /\ pc[t] = "address"
  /\ Goto(t, "put")
  /\ UNCHANGED <<Screen, local, state, network, server, update, ping, asking, faults>>

\* No address: switch_state returns and current_state stays as it was.
NoAddress(t) ==
  /\ pc[t] = "address"
  /\ faults < MaxFaults
  /\ faults' = faults + 1
  /\ stray' = TRUE
  /\ Done(t)
  /\ UNCHANGED <<owner, shown, ctx, refused, crossed, kept, lapsed, had, state,
                 network, server, update, asking>>

\* Mutant: the context state is assigned.
MutantAssign(t) ==
  /\ pc[t] = "assign"
  /\ state' = want[t]
  /\ Done(t)
  /\ UNCHANGED <<Screen, had, network, server, update, asking, faults>>

Assign(t) ==
  /\ pc[t] = "assign"
  /\ state' = goal[t]
  /\ stray' = FALSE
  /\ Done(t)
  /\ UNCHANGED <<owner, shown, ctx, refused, crossed, kept, lapsed, had, network,
                 server, update, asking, faults>>

Switching(t) ==
  SwitchContext(t) \/ SwitchNothing(t) \/ SwitchState(t) \/ Address(t) \/ Assign(t)

----------------------------------------------------------------------------
(* main: init *)

Main(l) == pc["main"] = l /\ Live("main")

\* setup_config_server_client and the test request
Connect ==
  /\ Main("connect")
  /\ Goto("main", "listen")
  /\ UNCHANGED <<Screen, local, state, network, server, update, ping, asking, faults>>

\* A step before the loop fails: main returns 1.
ConnectFails ==
  /\ Main("connect")
  /\ faults < MaxFaults
  /\ faults' = faults + 1
  /\ Goto("main", "giveup")
  /\ UNCHANGED <<Screen, local, state, network, server, update, ping, asking>>

\* The loops of init count a try and give up after max_retries, even if the
\* last one succeeded.
TooLate == tries >= MaxRetries

\* init_broadcast_client: from here the listener runs beside init.
Listen ==
  /\ Main("listen")
  /\ pc' = [pc EXCEPT !["main"] = IF TooLate THEN "giveup" ELSE "begin",
                      !["net"] = "idle"]
  /\ tries' = 0
  /\ UNCHANGED <<Screen, local, state, network, server, update, ping, loaded, missed, faults>>

ListenFails ==
  /\ Main("listen")
  /\ faults < MaxFaults
  /\ faults' = faults + 1
  /\ tries' = tries + 1
  /\ Goto("main", IF TooLate THEN "giveup" ELSE "listen")
  /\ UNCHANGED <<Screen, local, state, network, server, update, ping, loaded, missed>>

\* init_screen_context, which is called again when the switch failed.  It
\* takes the display even if the listener has entered a mode by now.
Begin ==
  /\ Main("begin")
  /\ tries' = tries + 1
  /\ Call("main", "init", "STATUS")
  /\ stray' = (stray \/ state # "INIT")
  /\ crossed' = (crossed \/ Using("net"))
  /\ UNCHANGED <<owner, shown, ctx, refused, kept, lapsed, goal, had, state, network, server, update,
                 ping, loaded, missed, faults>>

\* The process is gone, with its memory and its sockets.
Gone(l) ==
  /\ pc' = [pc EXCEPT !["main"] = l, !["net"] = "off"]
  /\ state' = "INIT" /\ shown' = "UNINITIALIZED" /\ ctx' = None
  /\ flag' = FALSE /\ event' = FALSE /\ writing' = FALSE
  /\ job' = [t \in Threads |-> "mode"]
  /\ goal' = [t \in Threads |-> "INIT"]
  /\ want' = [t \in Threads |-> "STATUS"]
  /\ had' = [t \in Threads |-> None]
  /\ tries' = 0 /\ loaded' = 0
  /\ pinger' = "off" /\ pinged' = None
  /\ refused' = {} /\ missed' = FALSE
  /\ signals' = <<>> /\ notices' = 0
  /\ UNCHANGED <<crossed, losses, netMode, changes, config, serving, submits>>

GiveUp ==
  /\ Main("giveup")
  /\ Gone("exited")
  /\ UNCHANGED <<owner, faults>>

----------------------------------------------------------------------------
(* main: get_current_state *)

GetCurrentState ==
  /\ Main("get")
  /\ tries' = 0
  /\ Goto("main", "ask")
  /\ UNCHANGED <<Screen, local, state, network, server, update, ping, loaded, missed, faults>>

\* The network manager: all that is not AP is WIFI, which will mean NORMAL
\* if the API is configured.
Ask ==
  /\ Main("ask")
  /\ goal' = [goal EXCEPT !["main"] = IF netMode = "AP" THEN "AP" ELSE "NORMAL"]
  /\ tries' = 0
  /\ Goto("main", "load")
  /\ UNCHANGED <<Screen, job, want, had, state, network, server, update, ping, loaded, missed, faults>>

\* What was written since the last load is not on its way any more.
Misses == missed' = (missed \/ loaded # config)

\* No answer: again, and after max_retries ERROR_MODE, without a load.
AskFails ==
  /\ Main("ask")
  /\ faults < MaxFaults
  /\ faults' = faults + 1
  /\ IF tries < MaxRetries
       THEN tries' = tries + 1 /\ UNCHANGED <<pc, goal, missed>>
       ELSE /\ tries' = 0
            /\ goal' = [goal EXCEPT !["main"] = "ERROR"]
            /\ Misses
            /\ Goto("main", "switch")
  /\ UNCHANGED <<Screen, job, want, had, state, network, server, update, ping, loaded>>

\* load_station_ids finds a file with stations, whole.
HasStations == config > 0 /\ serving # "write"

\* load_api_context.  A key that cannot be read is no failure, so the
\* configuration is there when the file with the stations is.
Load ==
  /\ Main("load")
  /\ loaded' = IF HasStations THEN config ELSE 0
  /\ missed' = FALSE
  /\ goal' = [goal EXCEPT !["main"] = IF @ = "NORMAL" /\ ~HasStations THEN "CONFIG_API" ELSE @]
  /\ Goto("main", "switch")
  /\ UNCHANGED <<Screen, job, want, had, state, network, server, update,
                 ping, tries, faults>>

----------------------------------------------------------------------------
(* main: the loop *)

\* select returns for the 5 s timer or the event, which is read.
Wake ==
  /\ Main("wait")
  /\ event' = FALSE
  /\ Goto("main", "exchange")
  /\ UNCHANGED <<Screen, local, state, network, server, flag, writing, ping,
                 asking, faults>>

\* Mutant: an update is only looked into in normal mode.
MutantExchange ==
  /\ Main("exchange")
  /\ flag' = FALSE
  /\ Goto("main", IF flag /\ state = "NORMAL" THEN "get" ELSE "exec")
  /\ UNCHANGED <<Screen, local, state, network, server, event, writing, ping,
                 asking, faults>>

\* g_update_requested.exchange(false)
Exchange ==
  /\ Main("exchange")
  /\ flag' = FALSE
  /\ Goto("main", IF flag THEN "get" ELSE "exec")
  /\ UNCHANGED <<Screen, local, state, network, server, event, writing, ping,
                 asking, faults>>

\* exec_fun
Exec ==
  /\ Main("exec")
  /\ Goto("main", IF state = "NORMAL" THEN "fetch" ELSE "wait")
  /\ UNCHANGED <<Screen, local, state, network, server, update, ping, asking, faults>>

\* What a fetch ends with: arrivals for the table, none, or an error at the
\* first station for which there is one.
Fetched == {"TABLE", "STATUS"}

\* exec_normal_display_mode: the fetch takes seconds, and its result is shown
\* whatever current_state has become.
Fetch ==
  /\ Main("fetch")
  /\ \E k \in Fetched : Call("main", "report", k)
  /\ stray' = (state # "NORMAL")
  /\ crossed' = (crossed \/ Using("net"))
  /\ UNCHANGED <<owner, shown, ctx, refused, kept, lapsed, goal, had, state, network, server, update, ping, asking, faults>>

----------------------------------------------------------------------------
(* main: termination *)

\* SIGTERM.  The handler runs content_sm::exit on top of what the main
\* thread was doing, and never returns to it.
Terminate ==
  /\ pc["main"] \notin {"stuck", "leave", "giveup", "exited", "stopped"}
  /\ job["main"] # "exit"
  /\ Call("main", "exit", "STATUS")
  /\ crossed' = (crossed \/ Using("main"))
  /\ refused' = refused \ {"main"}
  /\ UNCHANGED <<owner, shown, ctx, losses, goal, had, state,
                 network, server, update, ping, asking, faults>>

\* The same, while the main thread holds the mutex of the context.
TerminateLocked ==
  /\ Main("copy") \/ Main("record") \/ Main("put")
  /\ job["main"] # "exit"
  /\ crossed' = TRUE
  /\ job' = [job EXCEPT !["main"] = "exit"]
  /\ Goto("main", "stuck")
  /\ UNCHANGED <<owner, shown, ctx, refused, losses, goal, want, had,
                 state, network, server, update, ping, asking, faults>>

\* exit(0), once the ping timer's thread has ended
Leave ==
  /\ pc["main"] = "leave"
  /\ pinger # "send"
  /\ Gone("stopped")
  /\ UNCHANGED <<owner, faults>>

Crash ==
  /\ pc["main"] \notin {"exited", "stopped"}
  /\ faults < MaxFaults
  /\ faults' = faults + 1
  /\ Gone("exited")
  /\ UNCHANGED owner

MainThread ==
  \/ Switching("main")
  \/ Connect \/ Listen \/ Begin \/ GiveUp \/ GetCurrentState \/ Ask \/ Load
  \/ Wake \/ Exchange \/ Exec \/ Fetch \/ Leave

----------------------------------------------------------------------------
(* The listeners and the ping timer *)

\* broadcast_signal_handler.  The file's api_ready is never assigned: it is
\* false, also when the API is configured.
Signal ==
  /\ pc["net"] = "idle"
  /\ signals # <<>>
  /\ signals' = Tail(signals)
  /\ goal' = [goal EXCEPT !["net"] = IF Head(signals) = "AP" THEN "AP" ELSE "CONFIG_API"]
  /\ Goto("net", "switch")
  /\ UNCHANGED <<Screen, job, want, had, state, netMode, changes,
                 server, update, ping, asking, faults>>

NetThread == Switching("net") \/ Signal

\* request_content_update: first the flag ...
Request ==
  /\ notices > 0 /\ ~writing
  /\ flag' = TRUE
  /\ writing' = TRUE
  /\ UNCHANGED <<Screen, local, pc, state, network, server, event, ping, asking, faults>>

\* Mutant: the request does not write the event.
MutantWriteEvent ==
  /\ writing
  /\ writing' = FALSE
  /\ notices' = notices - 1
  /\ UNCHANGED <<Screen, local, pc, state, network, config, serving, submits, flag, event, ping,
                 asking, faults>>

\* ... then the event.
WriteEvent ==
  /\ writing
  /\ event' = TRUE
  /\ writing' = FALSE
  /\ notices' = notices - 1
  /\ UNCHANGED <<Screen, local, pc, state, network, config, serving, submits, flag, ping, asking, faults>>

\* ping_timer_callback, up to its copy of the context
PingStarts ==
  /\ pinger = "wait"
  /\ state # "INIT"
  /\ pinger' = "send"
  /\ pinged' = ctx
  /\ crossed' = (crossed \/ \E t \in Threads : Using(t))
  /\ UNCHANGED <<owner, shown, ctx, refused, losses, local, pc, state, network,
                 server, update, asking, faults>>

\* A ping for BKK_SCREEN_COMPONENT_MAX is answered with an error.
PingSends ==
  /\ pinger = "send" /\ Live("ping") /\ Up
  /\ Crosses("ping")
  /\ IF pinged # None /\ ~Accepts(pinged)
       THEN Refused("ping") /\ UNCHANGED ping
       ELSE /\ IF pinged = None \/ Lent(pinged) THEN UNCHANGED owner
                                                ELSE NotFound(pinged)
            /\ pinger' = "wait" /\ pinged' = None
            /\ UNCHANGED refused
  /\ UNCHANGED <<shown, ctx, losses, local, pc, state, network, server, update,
                 asking, faults>>

\* A ping that fails is logged.
PingFails ==
  /\ pinger = "send" /\ Live("ping")
  /\ Unreached
  /\ pinger' = "wait" /\ pinged' = None
  /\ Crosses("ping")
  /\ UNCHANGED <<owner, shown, ctx, refused, losses, local, pc, state, network,
                 server, update, asking>>

PingTimer == PingStarts \/ PingSends \/ (~Up /\ PingFails)

----------------------------------------------------------------------------
(* The world: network manager, config server, owner *)

\* The first mode is not broadcast, and the broadcasts before the listener
\* runs are not heard.
NetworkChanges ==
  /\ changes < MaxChanges
  /\ changes' = changes + 1
  /\ netMode' \in {"AP", "WIFI"} \ {netMode}
  /\ signals' = IF netMode = "UNKNOWN" \/ pc["net"] = "off"
                  THEN signals ELSE Append(signals, netMode')
  /\ UNCHANGED <<Screen, local, pc, state, server, update, ping, asking, faults>>

\* usr_act_api_apply of the config server: fopen truncates the file with the
\* stations ...
Configure ==
  /\ serving = "idle"
  /\ submits < MaxSubmits
  /\ submits' = submits + 1
  /\ serving' = "write"
  /\ UNCHANGED <<Screen, local, pc, state, network, config, notices, update, ping,
                 asking, faults>>

\* ... and fprintf and fclose fill it.
Configured ==
  /\ serving = "write"
  /\ config' = config + 1
  /\ serving' = "notify"
  /\ UNCHANGED <<Screen, local, pc, state, network, notices, submits, update, ping,
                 asking, faults>>

\* usr_act_wifi_apply, which notifies the same applications.
ConfigureWifi ==
  /\ serving = "idle"
  /\ submits < MaxSubmits
  /\ submits' = submits + 1
  /\ serving' = "notify"
  /\ UNCHANGED <<Screen, local, pc, state, network, config, notices, update, ping,
                 asking, faults>>

\* The listener of the notifications is there from the first step of main on;
\* what comes during that step is not counted, as init has still to load.
Listening == pc["main"] \notin {"connect", "exited", "stopped"}

\* notify_peer_applications
Notify ==
  /\ serving = "notify"
  /\ serving' = "idle"
  /\ notices' = IF Listening THEN notices + 1 ELSE notices
  /\ UNCHANGED <<Screen, local, pc, state, network, config, submits, update, ping,
                 asking, faults>>

\* serve_data fails, which is logged and not told to the user.
NotifyFails ==
  /\ serving = "notify"
  /\ faults < MaxFaults
  /\ faults' = faults + 1
  /\ serving' = "idle"
  /\ Misses
  /\ UNCHANGED <<Screen, local, pc, state, network, config, notices, submits, update,
                 ping, tries, loaded>>

ConfigServer == Configured \/ Notify

\* Nobody pings what is shown, and the calls that take milliseconds are over.
Silent ==
  /\ \A t \in Threads : Using(t) => t \in refused
  /\ \/ pinger = "off" \/ state = "INIT" \/ ctx # place \/ "ping" \in refused

\* The alive counter of the component has come to zero.
Expire ==
  /\ stage = "Acquired"
  /\ Silent
  /\ stage' = "Empty"
  /\ lapsed' = TRUE
  /\ UNCHANGED <<place, shown, ctx, refused, crossed, kept, stray, local, pc, state, network,
                 server, update, ping, asking, faults>>

\* Where a dropped call goes on when its socket closes: a receive of nothing
\* counts as success, and the zeroed response as an answer without error.
Resume(t) ==
  CASE pc[t] = "release" -> IF want[t] = "RELEASE" THEN "record" ELSE "acquire"
    [] pc[t] = "acquire" -> "record"
    [] OTHER -> AfterPut(t)

\* The owner ends.
OwnerEnds ==
  /\ Up
  /\ faults < MaxFaults
  /\ faults' = faults + 1
  /\ place' = None /\ stage' = "Down"
  /\ pc' = [t \in Threads |-> IF t \in refused THEN Resume(t) ELSE pc[t]]
  /\ want' = [t \in Threads |->
       IF t \in refused /\ pc[t] = "put" THEN WantAfterPut(t) ELSE want[t]]
  /\ pinger' = IF "ping" \in refused THEN "wait" ELSE pinger
  /\ refused' = {}
  /\ UNCHANGED <<shown, ctx, crossed, losses, job, goal, had, state, network,
                 server, update, pinged, asking>>

----------------------------------------------------------------------------
Init ==
  /\ place = None /\ stage = "Empty"
  /\ netMode \in {"UNKNOWN", "AP", "WIFI"} /\ signals = <<>> /\ changes = 0
  /\ config = 0 /\ serving = "idle" /\ notices = 0
  /\ state = "INIT" /\ shown = "UNINITIALIZED" /\ ctx = None /\ loaded = 0
  /\ flag = FALSE /\ event = FALSE /\ writing = FALSE
  /\ pc = [t \in Threads |-> IF t = "main" THEN "connect" ELSE "off"]
  /\ job = [t \in Threads |-> "mode"]
  /\ goal = [t \in Threads |-> "INIT"]
  /\ want = [t \in Threads |-> "STATUS"]
  /\ had = [t \in Threads |-> None]
  /\ tries = 0
  /\ pinger = "off" /\ pinged = None
  /\ refused = {} /\ crossed = FALSE
  /\ kept = FALSE /\ lapsed = FALSE /\ stray = FALSE /\ missed = FALSE
  /\ submits = 0 /\ faults = 0

Faults ==
  \/ ConnectFails \/ ListenFails \/ AskFails \/ Crash \/ OwnerEnds
  \/ PingFails \/ NotifyFails
  \/ \E t \in Threads : CallFails(t) \/ NoAddress(t)

World ==
  \/ NetworkChanges \/ Configure \/ ConfigureWifi \/ ConfigServer
  \/ Expire \/ Terminate \/ TerminateLocked

Next ==
  \/ MainThread \/ NetThread
  \/ Request \/ WriteEvent
  \/ PingTimer
  \/ World
  \/ Faults

Spec == Init /\ [][Next]_vars

\* The threads are scheduled, and the calls that are answered return.
FairSpec ==
  /\ Spec
  /\ WF_vars(MainThread) /\ WF_vars(NetThread)
  /\ WF_vars(Request \/ WriteEvent)
  /\ WF_vars(PingTimer)
  /\ WF_vars(ConfigServer)

----------------------------------------------------------------------------
(* Properties *)

\* The thread is not inside switch_state or a report.
Resting(t) ==
  pc[t] \in {"idle", "off", "wait", "exchange", "exec", "fetch", "get", "ask",
            "load", "switch"}

\* Unless two threads were on the screen at once, what the program knows of it
\* is right whenever no thread is inside a switch.  The two variables that are
\* assigned one after the other agree, whatever failed.  The component that is
\* recorded is held, unless the last acquire failed, the owner dropped what it
\* got, or has ended; a later switch makes good for it.  It is one for
\* current_state, unless a fetch or init took the screen for a state that had
\* been left, or switch_state gave up half-way.
RecordIsTrue ==
  ~crossed /\ (\A t \in Threads : Resting(t)) =>
    /\ shown \in Components => shown = ctx
    /\ ~lapsed /\ ~kept /\ Up => IF ctx = None THEN stage # "Acquired" ELSE Lent(ctx)
    /\ ~lapsed /\ ~stray =>
         /\ state \in {"AP", "CONFIG_API"} => ctx = "HELPER"
         /\ state = "NORMAL" => ctx \in {"TABLE", "STATUS"}

\* A call that the owner drops blocks its thread for ever.  The one cause of
\* it other than two threads on the screen at once is a release that failed:
\* neither a late fetch that takes the screen back, nor a component that was
\* lost, nor any other call that failed is one.
RefusalHasCause == refused # {} => crossed \/ kept

\* An update request is not slept on: when it is complete, the event wakes
\* the main thread, or the main thread has still to look at the flag.
UpdateWakes ==
  flag /\ ~writing =>
    event \/ pc["main"] = "exchange" \/ job["main"] = "exit"

\* The main thread will load the configuration that is written now: it has
\* not come to its load in init, or in the reinit for a request.
WillLoad ==
  \/ pc["main"] \in {"connect", "listen", "begin", "get", "ask", "load"}
  \/ job["main"] = "init" /\ pc["main"] \in ScreenSteps

\* The program ends, or has ended.
Ending == pc["main"] \in {"giveup", "exited", "stopped"} \/ job["main"] = "exit"

\* While the program runs, a configuration that is written and not loaded is
\* announced, requested or about to be loaded, at whatever point of its round
\* the main thread was when it was written.  Two things break this, and no
\* other: a notification that was refused, and a reinit that consumed the
\* request and had no answer from the network manager.  What the next load
\* reads makes good for both.
UpdateOnItsWay ==
  loaded # config /\ ~Ending =>
    serving # "idle" \/ notices > 0 \/ flag \/ WillLoad \/ missed

\* README.md:171: "During normal operation, the display shows real-time
\* arrival information for the configured stations and indicates any
\* errors".  With the network joined and the stations configured, it does.
ShowsArrivals ==
  <>[](netMode = "WIFI" /\ config > 0) /\ [](~crossed /\ ~lapsed /\ ~stray)
    => <>[](place \in {"TABLE", "STATUS"}) \/ <>(job["main"] = "exit")
=============================================================================
