# BKK Display: specifications

TLA+ specifications of the programs in this repository: models of the code that
TLC checks on small instances, and theorems about them that TLAPS proves for
every value of the constants. `PROJECT.json` names, for each definition, the
lines it stands for, and for each run what it checks.

## The system

A Raspberry Pi with a touch screen shows the next departures at chosen stops.
It is a handful of processes:

| Part | State it keeps | Operations | Talks to |
|---|---|---|---|
| application-manager | `app_info`: status, exit code, process id of each application | launch, reap; boot mode from flag files; status page | starts every other process (fork, SIGCHLD) |
| bkk-screen-owner | one handler for each place of the display (main content, info bar): state, taken, key, alive counter, widget | acquire, ping, release, set data; alive check; power off and on | requests over a Unix socket, Qt thread, timer threads, touch interrupts |
| bkk-screen-client | none | one blocking request per call | screen owner |
| bkk-screen-main-content | content state, network mode, API key and stations, the component it holds | start, re-initialise, fetch and show, react to broadcasts, ping | screen owner, network manager, config server, bkk-api |
| bkk-screen-info-bar | last data sent | clock, online check, ping | screen owner |
| network-manager | current mode, WPA and networkd files, wpa_supplicant | poll the credentials, switch mode, answer queries, broadcast | D-Bus, systemd-networkd |
| config-server | credentials and flags as files | web pages, apply Wi-Fi, apply API data, broadcast | D-Bus, files, bkk-tee |
| bkk-common-utils | timers with a thread, D-Bus listeners, socket server | set up, stop, join, clean up; request and broadcast | used by all of them |
| ads7846-controller | interrupt thread, callback | start, stop, sample | screen owner |
| bkk-tee | secrets in secure storage | store, get | config server, main content |

How they interact: the application manager starts everything in dependency
order and never starts anything twice. The config server writes the Wi-Fi
credentials to a file that the network manager polls; the network manager
switches the radio and broadcasts the new mode; the main content follows with
the screen it shows, and asks the screen owner for the component it needs. The
owner takes a component back when its client has not pinged for a minute.

What is hard here, by part (PROJECT.json lists each at its line):

- **application-manager** - SIGCHLD does not queue; a configuration may list
  dependents first; a child may end before its dependents were looked at; the
  status page reads the table without a lock. *Correct when* no end of a child is
  lost, what can be launched is launched, nothing is launched too early or
  twice, and the table says what the kernel knows.
- **bkk-screen-owner** - three threads and no lock; a request that is refused is
  not answered; a clear deletes widgets that a queued refresh writes to.
  *Correct when* a place has one holder at a time, a holder keeps it until it
  returns it or falls silent, an abandoned place is freed, and the server thread
  never stops serving.
- **D-Bus requests and broadcasts** - time-outs with repeated attempts and no
  number that ties an answer to its request. *Correct when* a caller gets the
  answer to its own question, and no older one.
- **network-manager and config-server** - a failed switch counts as done; files
  are written in place while they are polled. *Correct when* the mode settles to
  what the files say, and clients learn of it.
- **bkk-screen-main-content** - the main, listener and ping threads share the
  state and the screen context without a lock. *Correct when* the screen shown
  is the one that the last known mode calls for.
- **timers and touch** - stop and join from inside the callback; restart from
  another thread. *Correct when* every stop ends and no thread runs on a context
  that was torn down.
- **bkk-tee** - the object is created over the old one, written, and deleted when
  the write fails. *Correct when* what is read is a secret that was stored whole,
  or none. A store that fails half-way leaves none: the old secret is gone too
  (`bkk_tee_ta.c:116`), which the model does and no property calls wrong.

## Plan

1. `AppSupervisor`, `LaunchOrder`, `AppSupervisorProofs` - done, proved.
2. `ScreenOwner`, `Lease`, `ScreenOwnerProofs`, `ScreenOwnerDisplayProofs` -
   done, proved. To do: the blink timer of the table.
3. `BroadcastRpc`, `BroadcastRpcProofs` - done, proved. To do: a `Register`
   (a value that is read and announced, and never goes back) that it implements.
4. `NetworkManager`, `NetworkManagerProofs` - done, every invariant proved.
5. `MainContent`, `MainContentProofs` - done, every invariant proved.
6. `ScreenPower`, `ScreenPowerProofs` (touch, power-off timer, controller) -
   done; the liveness is model-checked.
7. `DeviceSetup`, `DeviceSetupProofs` (config server, secure storage, boot mode,
   wpa_helper, and what the main content reads of it) - done, proved.
8. To do: `Display`, which composes `MainContent` with `ScreenOwner` in place of
   the owner as one client meets it; `Setup`, which composes `DeviceSetup` with
   `NetworkManager`; the status page; the pure algorithms (summer time, order and
   cut of the departures), each against a reference definition.

## Modules

| Module | Models | Kind |
|---|---|---|
| `LaunchOrder` | what the application manager promises: launch when the prerequisites hold, never twice, eventually | abstract specification |
| `AppSupervisor` | `am_supervisor.c`, `am_launcher.c`, the table of `am_types.h` | component |
| `AppSupervisorProofs` | theorems about `AppSupervisor` | proofs |
| `MCAppSupervisor` | its instances | TLC |
| `Lease` | what the screen owner promises about a place: one holder, renewed, returned or expired | abstract specification |
| `ScreenOwner` | `screen.cpp`, `component_req_handler.cpp`, the four handlers, the socket server, the client's calls | component |
| `ScreenOwnerProofs` | theorems about `ScreenOwner`: types, who waits for whom, what is forgotten, `Lease` | proofs |
| `ScreenOwnerDisplayProofs` | theorems about `ScreenOwner`: what is on the display, refreshes, holders | proofs |
| `MCScreenOwner` | its instances | TLC |
| `BroadcastRpc` | `bkk_dbus_broadcast_client.c`, `bkk_dbus_broadcast_server.c`, the listener threads and `bkk_dbus_send_signal` of `bkk_dbus.c` | component |
| `BroadcastRpcProofs` | theorems about `BroadcastRpc` | proofs |
| `MCBroadcastRpc` | its instances | TLC |
| `NetworkManager` | `nm_main.c`, `wpa_file_handler.c`, `networkd_status.c`, `supplicant_handler.c`, and `usr_act_wifi_apply` of the config server | component |
| `NetworkManagerProofs` | theorems about `NetworkManager` | proofs |
| `MCNetworkManager` | its instances | TLC |
| `MainContent` | `content_main.cpp`, `content_state_machine.cpp`, `screen_context.cpp`, `api_context.cpp`, and the calls of `bkk_api_client.cpp` | component |
| `MainContentProofs` | theorems about `MainContent` | proofs |
| `MCMainContent` | its instances | TLC |
| `ScreenPower` | the power callbacks of `screen.cpp`, `user_touch_handler.cpp`, `ads7846_controller.c`, `bkk_utils_timing.c` | component |
| `ScreenPowerProofs` | theorems about `ScreenPower` | proofs |
| `MCScreenPower` | its instance | TLC |
| `DeviceSetup` | the submissions of the config server, `bkk_tee_client.c`, `bkk_tee_ta.c`, `am_boot_mode.c`, `wpa_helper_main.c`, `load_api_context` | composition over files |
| `DeviceSetupProofs` | theorems about `DeviceSetup` | proofs |
| `MCDeviceSetup` | its instance | TLC |

### AppSupervisor

One action for each outcome of `launch_app(i)` (not now, folder error, internal
error, forked), `EndPass` for the result of `trigger_app_start` and the `while`
loop around it, `TakeSignal` for `sigwaitinfo`, `ReapOne` for a round of the
`waitpid` loop, `ReapDone` for its end. The kernel is external: processes end at
any moment (`End`), a child that ended is a zombie until it is reaped, and one
pending SIGCHLD stands for any number of ends. `status`, `exitCode`, `pid` and
`named` are the fields of `app_info`. Arguments, environment, working directory
and logging are left out. `PidReuse` says whether the kernel may hand out the id
of a reaped child again.

### ScreenOwner

Three threads. The server thread's `pc` walks through `dispatch_client_request`
and the handlers, one action for each assignment to shared data; `at`, `place`
and `count` walk the alive timer's thread through `alive_check`; the Qt thread
takes one event from `qt` at a time. A call with a `BlockingQueuedConnection`
puts its thread in `blocked` and the Qt thread's action lets it go on; a refresh
is queued and not waited for. `handler`, `state`, `taken`, `alive` and `widget`
are the members of the handler of a place, and `labels` says where the pointers
to the child widgets lead. Clients call, wait, and die at any moment, also
between `connect` and `send`, which the owner serves as a zeroed request.

`held`, `missed` and `dead` record what the clients know and are not state of
the owner. Drawing, texts and keys are left out: no request looks at the key.

No lock keeps the server thread from a place while a turn of the alive timer is
at work on it, and nothing in the model does either: the three threads take
their steps in any order. A turn that clears a component also waits for the Qt
thread, so that it may last as long as a request. Two history variables say what
happened. `overtook` is set when the server thread takes a step of a request for
a place that a turn has in hand (`InHand`: from where it found it acquired to
where it asks the Qt thread to clear it). `renewed` collects the places whose
counter the server set after a turn had counted it down to zero and before the
turn looked at it again (`component_req_handler.cpp:244` and `:248`). The
properties about what is on the display (`StateComments`, `RefreshSafe`,
`HolderKeeps`) speak of the time until something was overtaken; the others hold
always, or name the places in `renewed` as their only exception.

One outcome is left out: a request that would make the Qt thread replace a
handler while a turn is inside it waits in `Ensure` until the turn has left. In
the code the turn would go on with freed memory (PROJECT.json, `screen.cpp:33`),
for which no next state can be given.

`Lease` says what an owner promises whose ticks look and count in two steps: what
a renewal gives in between may be lost to that tick, and it may end a loan that
was granted in between, but a loan ends in no other way than by its return or by
a tick that found at most one unit left.

### BroadcastRpc

A client has two threads under one mutex. Its caller runs `send_client_request`:
`Send` is everything from taking the mutex to the wait, `Expire` the deadline,
`Take` and `NextAttempt` what follows a wait with and without an answer. Its
listener runs `server_response_handler`: `Receive` an answer the caller waits
for, `PassOn` everything else. The server's listener runs
`client_request_dispather` (`Dispatch`), the handler (`Form`, `Refuse`) and
`serve_data` (`Serve`); the main thread broadcasts with `serve_data` too, where
the thread-specific key is not set (`Broadcast`). `waiting`, `available`, `last`
are the flags and the response of `bc_client_t`.

The bus is external: it delivers the signals of one sender in order to every
listener and loses none it took; it may refuse one (`SendFails`, `ServeFails`,
`BroadcastFails`). The data served is the number of changes so far, so that an
older answer is a smaller one. Requests reach the listeners of clients as well
and are ignored there; malformed payloads, set-up and clean-up are left out. A
server that restarts is not modelled.

### NetworkManager

One action for each call of the main thread that can fail, with the failure as
an action beside it: `Load` is an iteration up to the comparison of the modes,
`NetworkdActive` to `Start` are `switch_network_mode`, and `Record` the
assignment and the broadcast after it. `todo` is what the loop of
`clear_wpa_config` or `write_wpa_config` has still to do, one file to a step,
and a file is `Partial` between `fopen` and the end of the write. Failures the
code notices go where its return codes lead; those it does not notice
(`FillUnnoticed`, `KillFails`, `StartUnnoticed`) go on. `Query` and `Answer` are
the listener thread between reading the mode and sending it; `Submit` and
`Submitted` are the config server's thread. `Reboot` is a power loss: what is
under `/run` is lost, `/etc` stays.

`flawed` records that a call of the last switch failed. `misled` records why the
clients may have a wrong mode: the answer they had last was formed before the
first switch (`early`) or before the last broadcast and sent after it
(`crossed`), or the last broadcast was refused by the bus, which
`broadcast_network_mode_change` does not look at (`RecordUnheard`, `refused`).
The code has neither. `ClientsKnow` says that there is no fourth way; a switch
that failed is recorded and broadcast like one that did not. Abstracted: the
texts of the files; wpa_supplicant takes its configuration when it is started;
the broadcast of the config server, which the network manager does not listen
to, is in `DeviceSetup`. The program closes its logger in
`networkd_check_status` and goes on logging, which is left out, as is the
uninitialised line that `kill_all_supplicant_processes` reads when no
wpa_supplicant runs.

### MainContent

`pc` says where each of two threads is: `main`, with the steps of `init`, of the
loop and of `exit`, and `net`, the listener of the network manager's broadcasts.
Both run `switch_state` and `switch_context` without a lock, so these are written
once for a thread `t`: `Check`, `Copy`, `Release`, `Acquire`, `Record` and
`Settle` are `switch_context`, one action for each access to what is shared and
one for each call to the owner; `job` says for which caller, and `AfterSwitch`
where it returns to. `Put` stands for `put_screen_text`, `put_helper_info` and
`send_arrival_info`. The ping timer's thread has two steps, the copy of the
component and the call, and `request_content_update` of the config server's
listener two, the flag and the event.

The config server is here what the main content meets of it: `Configure` is
`usr_act_api_apply` up to the `fopen` that truncates the stations, `Configured`
the end of the write, `Notify` and `NotifyFails` the notification, a step of its
own that may fail and is then only logged. `ConfigureWifi` is the submission of
the Wi-Fi form, whose notification reaches the same listener.

The owner is the part of `ScreenOwner` that one client meets: it serves one call
at a time, replaces the handler of the place only when that is Empty, and leaves
a call about another component without an answer (`Accepts`, `Refused`); the
thread then stays where it is until the owner ends, whose closed socket counts
as an answer without error (`Resume`). An owner's `Expire` needs that nobody
pings what is shown.

`Terminate` is SIGTERM: the handler runs `content_sm::exit` on top of whatever
the main thread was doing; if that thread holds the mutex of the context, the
program hangs in its own handler (`TerminateLocked`). `Crash`, `GiveUp` and
`Leave` end the program, `OwnerEnds` the owner, after which every call fails
(`Up`). Neither comes back: `launch_app` starts nothing twice
(`am_launcher.c:174`).

Five variables are history and not state of the code, each for one way in which
the program's variables and the screen come apart: `crossed`, two threads used
the screen at once, or a signal came into a switch; `kept`, a release failed;
`lapsed`, the last acquire failed or its loan was lost, until a later acquire
makes good for it; `stray`, a fetch or `init` took the screen for a state that
had been left, or `switch_state` gave up half-way; `missed`, a notification was
refused, or a `reinit` had no answer from the network manager, until the next
load. Each property names the ones it needs and no other. `RefusalHasCause` says
that of all of them only a crossing or a failed release can block a thread, and
`UpdateOnItsWay` that of all of them only `missed` loses an update.

What modelling showed besides:

- A broadcast served before `init_screen_context` is overwritten by it: the
  display shows the status screen while `current_state` is already a mode.
- `switch_state` knows no `ERROR_MODE`, so that after `max_retries` without an
  answer of the network manager nothing is shown about it.
- `load_api_key` returns 0 when the key cannot be read; a configuration counts
  as loaded when the stations are.
- An expired component is not acquired again while `main_context_state` names
  it: the pings are answered with an error and nobody looks at the result.
- After `max_retries` without an answer of the network manager in a `reinit`, the
  configuration that was announced is not loaded: the request is consumed.
- The result of a fetch is shown even if the listener has left normal mode during
  it.

### ScreenPower

The three threads of the header of the module. The timer's context is a set of
flags and descriptors without a lock; `Stop`, `Joinable`, `Close` and `Forget`
are the parts of `bkk_stop_timer_with_callback`, `bkk_join...`, `bkk_cleanup...`
and `bkk_setup...`, and the actions of the two threads call them in the order of
the code. The join of the timer's thread with itself fails (EDEADLK), after which
cleanup returns before it closes anything: the thread goes on, its `select` finds
the stop event and it ends, and the next release of a finger joins it. `lost`
records a thread or descriptor that the context has forgotten.

`ctor` walks the constructor through every step of `ads7846_controller_init`;
`Closes` is what the error path of each step closes. An error inside
`gpio_prepare_irq_line` leaves the GPIO exported, which `NothingLost` allows: the
next start finds EBUSY and uses it. Left out: failures of the backlight itself,
the repeated `lseek` and `read` of the value file, and what the display does not
use (stopping a running listener, coordinates). A timer that elapses while a
release is served may turn the screen off right after it was turned on; nothing
in the code or its documents says otherwise, and no property does.

### DeviceSetup

Three programs that share files. The config server's `server` walks through
`usr_act_wifi_apply` and `usr_act_api_apply`, with the window between `fopen` and
the end of the write as a step; `CreateObject` and `WriteObject` are the secure
storage, whose failed write deletes the object, the old one with it; the
submission then counts as `keyless`. The main
content (`reader`) asks, reads the key, then the stations. `wpa_helper` runs once
in a boot, by boot mode: the network file, the credentials, the configuration
of wpa_supplicant. A power loss (`PowerLoss`) is possible in any state; what is
under `/run` goes with it. That writes reach the disk in the order in which they
are made is assumed. What modelling showed besides:

- No program creates the flag `api-configured`, although
  `config-server/readme.md:34` says that it is, so that the normal boot mode is
  not reached by the set-up.
- `configuration.json` does not list `wpa_helper`; it is modelled as a program of
  each boot.
- The page answers "ok" also when applying failed. If the file of the stations
  cannot be opened after the key was stored, nobody is told of the new key.
- A key of 126 or 127 characters is stored, but never read again: the reader's
  buffer holds 125.
- The comment of `wpa_helper_main.c:390` says that a missing file of credentials
  is not fatal; the code below it ends the program. `SetupSurvives` shows that
  the case does not arise.

## Runs

| Run | Result | What it shows |
|---|---|---|
| `boot` | passes | No exit is lost, chains are resolved before the thread sleeps, prerequisites are honoured, the table agrees with the kernel, and `AppSupervisor` implements `LaunchOrder` with its fairness |
| `started` | violated | `app_cfg/README.md:33` says that the prerequisite of `after_started` is running; the code tests the table, where a child that ended and is not reaped still counts |
| `owner` | passes | In any interleaving: places are lent as `Lease` says, an expiring component is only forgotten when its counter was set under a turn, no request waits for ever to be served, what is abandoned is cleared. Until the server overtakes a turn: the comments on the states hold step by step, a refresh never writes to deleted widgets, a holder keeps its component |
| `overtakes` | violated | `component_req_handler.hpp:16` says that an Expiring component is being cleaned up; a SET_DATA or a ping between the transition to Expiring and the second read of the counter leaves it Expiring with nobody to clear it |
| `hang` | violated | A request for a component whose place is taken gets no answer, and the client has no time-out |
| `modes` | passes | Never configuration files of both modes; the recorded mode is the applied one unless a call failed; a client is wrong about it in three ways and no other; valid credentials end in client mode |
| `latest` | violated | `src/README.md:75` says that the device switches to the configured network; credentials corrected in client mode are never used |
| `content` | passes | What the main content records agrees with what it holds and with its state, with the exceptions that `RecordIsTrue` names one by one; only a crossing or a failed release blocks a thread; no update request is slept on, and none is lost but by a refused notification or an unanswered query |
| `arrivals` | violated | `README.md:171` says that the display shows the arrivals in normal operation; after a return to Wi-Fi it need not, because the listener decides by a variable that is never assigned |
| `power` | passes | No thread, descriptor or timer is lost whatever fails; a release of the finger turns the screen on; an untouched screen goes off |
| `setup` | passes | At every power loss there are credentials where the flag says so, whole ones unless a call failed or a later form came, and no stations with the key of an earlier form; what the main content has loaded is what can be read of what is stored |
| `broadcasts` | passes | Answers and broadcasts never go back in time, the two flags agree with the wait, every call returns, the last broadcast arrives |

### Bounds

- `boot`: four applications in reverse order, with both kinds of dependency, a
  name nobody has and a folder that may fail; three process ids, so that one
  launch finds none; two exit codes. Every outcome of a launch and every kind of
  end occurs, and several children can end before one signal is taken.
- `owner`: two clients that want different components of one place, and another
  place, acquired by a client that dies while it connects. One of the two may
  die (`Mortal`), at any moment: the one whose component keeps its pointers to
  deleted labels. `MaxAlive` is 2 instead of 60: a renewal, a tick without one,
  the end. One turn of the timer begins during a request (`TurnsPerRequest`; it
  must stay below `MaxAlive`, as a request takes milliseconds and the counter a
  minute); it may stop at any of its steps and let the request pass, or the
  other way round. The Qt queue holds a refresh, which nobody waits for, and
  behind it the event of each thread that waits (`MaxEvents` is 1: a refresh is
  posted when nothing waits in front of it; one posted behind a clear finds what
  one posted after it finds). `overtakes` and `hang` use the same instance.
- `modes`: two submissions (two valid credentials, or one with an empty field),
  two failing calls, the refused broadcast and answer among them, and two power
  losses at any moment; a switch to the access
  point and back, each cut short, occurs. `latest`: two submissions and no
  failure.
- `broadcasts`: a client with two calls of two attempts, so that an answer can be
  an attempt or a whole call late, one that only listens, and a value that
  changes twice. Attempts beyond two repeat the second; the proofs have no bound.
- `content`: one retry, one change of the network mode (so that the listener and
  the main thread both switch), one submission at any point, one fault of any
  kind. A second round repeats the first from a state that the first one left.
  TLC takes no step from a state in which two threads have crossed and an
  acquire or a release failed, a component was lost or the owner ended as well
  (`OneDisturbance`): there the record may be anything, and what the properties
  without these exceptions (`UpdateWakes`, `UpdateOnItsWay`) say of it is proved
  without the bound. The proofs have neither bound. `arrivals`: the same without
  a fault and without `OneDisturbance`.
- `power`: two failing calls, in the constructor, the restart of the timer or one
  in each; touches and elapsed timers are unbounded.
- `setup`: two submissions, well formed or not, two failing calls and two power
  losses: an old key meets new stations, and a boot finds what two earlier ones
  left.
- `started` uses the instance of `boot`.

### Fairness

`AppSupervisor` assumes weak fairness of the supervisor thread and nothing of
the applications. `ScreenOwner` assumes weak fairness of the server, the alive
timer and the Qt thread, which no lock and no guard keeps from running between
any two steps of another. No client is assumed to do anything. `NetworkManager`
assumes weak fairness of its main thread, whose failures are separate actions
and are never forced, and of a write the config server has begun. `BroadcastRpc`
assumes weak fairness of each thread and of the deadlines; that a broadcast is
made, not that the bus takes it. `MainContent` assumes weak fairness of its four
threads and of the config server's notification of a form that was submitted,
never of a failure, a signal or the user. `ScreenPower` assumes that the timer
elapses and weak fairness of the constructor and of the two threads; nothing
makes the user touch the screen.

## Proofs

`AppSupervisorProofs` proves, for every number of applications, configuration,
set of process ids and exit codes:

| Theorem | States | Assumes |
|---|---|---|
| `TypeCorrect` | `[]TypeOK` | |
| `NoExitLost` | `[]NoLostExit` | |
| `TableIsRight` | `[]TableMatchesKernel` | process ids are not reused |
| `EndsRecorded` | `ExitRecorded` | process ids are not reused |
| `PrerequisitesHonoured` | `[]PrereqHonoured` | process ids are not reused |
| `ChainsAreResolved` | `[]ChainsResolved` | names are unique |
| `ShortLivedIsSeen` | `[]ShortLivedSeen` | names are unique |
| `ImplementsLaunchOrder` | `KeepsOrder`, the safety part of the refinement | both |

The table's agreement with the kernel is not inductive alone: the inductive
invariant `KernelInv` adds that no two entries hold the same process id, so that
`reap_children`, which stops at the first match, finds the entry of the child.
`PrereqHonoured` needs in addition that an application that exited with code 0
keeps that record. `ChainsAreResolved` rests on `PassInv`, an invariant of the
pass: if nothing was launched in it so far, no entry before `idx` can be
launched. It needs unique names because a folder that cannot be created erases
an entry's name, and a second entry of that name would then become visible to
the entries behind it. `ShortLivedIsSeen` adds `SeenOrDue`: as long as an
application that waits for a start is not launched, the passes go on and its
prerequisite is not reaped, so that the pass that launches nothing would have
found it running.

Without the assumption about process ids `ExitRecorded` does not hold: `app_info`
keeps the ids of reaped children and `reap_children` stops at the first match.

`NetworkManagerProofs` proves `TypeCorrect` (`[]TypeOK`),
`NeverTwoConfigurations` (`[]OneConfiguration`), `ModeIsAppliedIsInvariant`
(`[]ModeIsApplied`) and `ClientsKnowIsInvariant` (`[]ClientsKnow`) for every set
of credentials and any number of submissions, failures and power losses.
`OneConfiguration` is not inductive: that a file may be opened follows from what
was removed before. The invariant adds that while files are removed, the list of
those still to remove covers what is left (`Covered`), that nothing is left when
the credentials are read (`Cleared`), and that only files of the target are
written (`OnlyTarget`); `Filling` and `HasCreds` make the writes well typed.
`ModeIsApplied` needs what a switch has done so far while no call of it has
failed (`Switching`, and `Written` for the files): what was cleared is gone,
what was written is whole, networkd has loaded that and nothing else, one
wpa_supplicant at most runs. `ClientsKnow` needs that what the clients have and
what an answer under way says is right or marked with the reason why it is not
(`Told`), except between the assignment of the mode and the end of its broadcast
(`Unrecorded`), when the clients are behind, and that only the first switch
leaves the mode unknown (`FirstSwitch`). A refused broadcast is such a reason,
and an answer that was formed blind; that failures of the switch itself are none
is what is proved.

`BroadcastRpcProofs` proves, for every set of clients, number of attempts, calls
and changes, `TypeCorrect` (`[]TypeOK`), `FlagsAlwaysAgree` (`[]FlagsAgree`),
`AnswersInTimeOrder` (`AnswersNeverGoBack`) and `BroadcastsInTimeOrder`
(`BroadcastsNeverGoBack`). The last two rest on an invariant of the queues: the
answers for a client under way are in order, none older than the one it recorded
last and none newer than the one sent last (`AnswersInOrder`), and the same of
the broadcasts (`BroadcastsInOrder`). It needs that a request is only served for
a client (`ServerInv`), or an answer could pass for a broadcast, and that the
value sent last is not newer than the present one.

`MainContentProofs` proves all of that module's invariants, for every number of
retries, mode changes, submissions and faults: `TypeCorrect` (`[]TypeOK`),
`UpdateAlwaysWakes` (`[]UpdateWakes`), `NoUpdateIsOverlooked`
(`[]UpdateOnItsWay`), `RefusalAlwaysHasCause` (`[]RefusalHasCause`) and
`RecordIsAlwaysTrue` (`[]RecordIsTrue`). There are two invariants. `IInv` holds in
every state: next to the types, that each form is written and announced at most
once (`FormsAreOnce`), that the calls are about components (`CallsAreTyped`),
that only a call to the owner is refused (`RefusedCalls`), that there is no
listener before `init` makes it (`NetOff`), and that the main thread does nothing
else once it terminates (`ExitPath`). `UpdateOnItsWay` is not inductive, because
the notification whose request has just set the flag must not count a second time
when the flag is taken; `OnItsWay` leaves it out.

`RecordInv` is about the screen and has two parts, which hold until something
has crossed. `RecordHolds` is about the program alone, whatever fails: one
thread at most is past its check (`Alone`), the ping is for what is recorded
(`Pinging`), what each step of a switch finds (`AtStep`, `InMode`, `InReport`,
`InInit`), and between which steps the recorded component, `main_context_state`
and `current_state` may differ (`Named`, `StateFits`). `LoanHolds` is about the
owner and needs that no release has failed: no call is refused, and the owner
shows what is recorded or has lost it (`Owned`). `Moves`, `Resumes` and
`LoanTurn` say once, for all the steps of a switch, what they do to the program
and to the owner; that a step preserves `RecordHolds` uses that the thread
taking it is alone (`NobodyElse`).

Two modules prove, for every set of clients, components and places, length of a
loan and queue, and with the threads interleaved in every way:

| Theorem | States | Assumes |
|---|---|---|
| `TypeOKIsInvariant` | `[]TypeOK` | |
| `EventsWaitedForIsInvariant` | an event that somebody waits for is the only one of the thread that is blocked, for the place it works on | |
| `NobodyWaitsInVain` | a blocked thread has its event in the queue of the Qt thread, which waits for nobody | |
| `OnlyRenewedIsForgottenIsInvariant` | `[]OnlyRenewedIsForgotten` | |
| `ImplementsLease` | `LeaseKept`, the refinement | |
| `StateCommentsIsInvariant` | `[]StateComments` | |
| `RefreshSafeIsInvariant` | `[]RefreshSafe` | |
| `HolderKeepsIsInvariant` | `[]HolderKeeps` | no component is used by two clients |

`ScreenOwnerProofs` holds the first five. `ThreadsInv` is about who waits for
whom. `LoansInv` adds what holds of the places however a request and a turn
interleave: the server has its handler (`Ensured`) and its step (`StepOfCommand`),
a place it is about to lend or has given up is lent to nobody (`NotLent`), a
counter is zero only under the turn that stored it (`TurnCounts`), the handler a
turn works with is there (`HandlerKnown`) and is not replaced (`NotReplaced`), and
an Expiring place is being cleared or its counter was set under a turn
(`Forgotten`). The last says which of the interleavings loses a clear.

`ScreenOwnerDisplayProofs` holds the rest. What is on the display goes wrong
where the server works on a place that a turn has in hand, which nothing in the
code excludes and the run `overtakes` shows; `overtook` records it, and the
invariant `DisplayInv` says what holds until then. `CalmPlaces`: no turn was
made to leave a place (`NoneRenewed`), an acquire finds its place free or about
to be cleared before it (`AcquireUnderWay`), a clear one that was given up
(`ClearUnderWay`), a turn what it has read (`TurnUnderWay`), and of two clears
of one place the turn's comes first (`TurnAlone`). `AnswersInv` is for what a
request leaves behind: a counter that was set cannot run out before the answer
(`CounterLasts`), which is where the assumption comes in that a request meets
fewer turns than the counter has (`RequestsAreShort`), and no clear of the same
place is in front of a refresh (`RefreshBeforeClear`). `ClientsInv` is about
what clients know: one request to a client, in the backlog or served, that fits
what it holds (`OneRequest`), and a holder that keeps its place until its own
release has given it up (`HolderKeepsUntil`). `ServerAlone` is the lemma that
uses `~overtook`: where the server takes a step, the turn is at another place;
`TurnFirst` covers the turn that waits for its clear, after which the server may
go on at its place.

The hypothesis of `HolderKeepsIsInvariant` is needed. If two clients
used one component, TLC finds a state in which `HolderKeeps` is false: the
component of the first expires while its release waits in the backlog behind the
acquire of the second, which then loses what it has just acquired. The programs
of the image use different components, as the instance of the run does. Besides,
a place occurs once in the order of the turns (`EachPlaceOnce`) and `None` is no
request (`NoRequest`), which hold by how the code is built.

`ScreenPowerProofs` proves `TypeCorrect` (`[]TypeOK`) and `NothingIsEverLost`
(`[]NothingLost`) for any number of failing calls. The invariant says who may use
the timer's context: `is_running` tells of a thread that was not joined and has
its descriptors (`TimerOwned`), between the join and the new timer there is
none (`TimerGone`), the interrupt thread starts when the constructor is done
(`ListensLast`), and what the constructor has opened before each step
(`OpenedBefore`).

`DeviceSetupProofs` proves `TypeCorrect` (`[]TypeOK`), `SetupAlwaysSurvives`
(`[]SetupSurvives`) and `LoadedIsAlwaysStored` (`[]LoadedIsStored`) for any
number of submissions, faults and boots. The invariant adds that the credentials
are there before the flag (`CredsFirst`), that until a second form comes they
are whole unless a call failed or the server is still at them (`FirstForm`), and
that a boot which looks for them was selected by it (`BootByFlag`,
`HelperInBoot`), that stations are written when the key of an earlier form has
gone (`KeyFirst`, `KeyKept`, `StationsInOrder`), and what the main content has
read between its two reads (`ReadIsStored`).

Only model-checked: everything under fairness (`EveryExitReaped`,
`KeepsOrderFairly`, `RequestsServed`, `AbandonedCleared`, `FollowsFile`,
`CallReturns`, `BroadcastArrives`, `TouchLights`, `GoesDark`), which is out of the
prover's reach. Every invariant and every action property of the passing runs is
stated by a theorem.

## Not modelled

`PROJECT.json` lists the components without a module, with the reason. The status
page reads the supervisor's table without a lock and only shows it; the info bar
is a sequential loop (clock, online check); `logger_check` and `networkd_check`
are to the supervisor a child with an exit code; the calls to libcurl, ioctl and
sysfs keep no state. Of the modelled components, texts, pictures, keys and
arrivals are data, and set-up and clean-up of the D-Bus and socket libraries are
left out. Left out for good: rendering, the HTTP pages, demos and test programs,
image configuration, developer tools, and the submodules, whose sources are not
in this repository.
