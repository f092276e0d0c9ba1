----------------------------- MODULE ScreenPower -----------------------------
(***************************************************************************)
(* The screen owner turns the backlight off after ten minutes, and on      *)
(* again when the user takes a finger off the screen.                      *)
(*                                                                         *)
(*   screen.cpp              screen_pwr_off_callback, screen_pwr_on_       *)
(*                           callback, the constructor                     *)
(*   user_touch_handler.cpp  the constructor, irq_callback                 *)
(*   ads7846_controller.c    init, deinit, start, the interrupt thread     *)
(*   bkk_utils_timing.c      setup, stop, join and cleanup of a timer with *)
(*                           a thread of its own                           *)
(*                                                                         *)
(* Three threads: the constructor, which is the Qt thread and serves it    *)
(* afterwards; the timer's thread, which in its callback stops the timer   *)
(* and so would join itself; and the interrupt thread, which stops that    *)
(* timer, waits for its thread and sets the timer up again.  They share    *)
(* the timer's context without a lock.                                     *)
(***************************************************************************)
EXTENDS Naturals, Sequences

CONSTANT MaxFaults \* bound: how many calls fail

ASSUME BoundsAssumption == MaxFaults \in Nat

VARIABLES
  lit,     \* the backlight is on
  finger,  \* on the screen?
  edge,    \* the interrupt line has changed: POLLPRI
  seen,    \* the level the interrupt thread read
  irq,     \* where the interrupt thread is
  ctor,    \* steps of the constructor that are done, "failed" and "done"
  have,    \* what the controller has opened
  owned,   \* irq_gpio_exported_by_us
  timer,   \* where the timer's thread is
  ready,   \* the timer has elapsed and was not read
  signal,  \* the eventfd stop_fd has a count
  fds,     \* timer_fd and stop_fd, when they are not -1
  running, created, joined, \* is_running, thread_created, thread_joined
  lost,    \* a thread or descriptor that nothing names any more
  faults

touch == <<finger, edge>>
controller == <<ctor, have, owned>>
context == <<signal, fds, running, created, joined, lost>>
vars == <<lit, finger, edge, seen, irq, ctor, have, owned, timer, ready, signal,
          fds, running, created, joined, lost, faults>>

\* The constructor, step by step.
InitOrder == <<"timer", "spi", "config", "export", "direction", "edge", "value",
               "eventfd", "mutex", "start">>
Resources == {"spi", "gpio", "value", "eventfd", "mutex"}

TypeThreads ==
  /\ irq \in {"none", "poll", "read", "call", "widgets", "check", "stop",
              "cleanup", "join", "close", "reset", "setup"}
  /\ timer \in {"none", "wait", "off", "stop", "cleanup", "join", "ended"}
  /\ ctor \in {InitOrder[i] : i \in DOMAIN InitOrder} \cup {"done", "failed"}
  /\ have \subseteq Resources
  /\ fds \subseteq {"timer", "stop"}
  /\ faults \in 0..MaxFaults

TypeFlags ==
  /\ lit \in BOOLEAN /\ edge \in BOOLEAN /\ owned \in BOOLEAN
  /\ ready \in BOOLEAN /\ signal \in BOOLEAN /\ running \in BOOLEAN
  /\ created \in BOOLEAN /\ joined \in BOOLEAN /\ lost \in BOOLEAN
  /\ finger \in {"up", "down"} /\ seen \in {"up", "down"}

TypeOK == TypeThreads /\ TypeFlags

Fails == faults < MaxFaults /\ faults' = faults + 1

----------------------------------------------------------------------------
(* bkk_utils_timing: setup, stop, join, cleanup *)

\* The head of bkk_setup_timer_with_callback forgets what the context names.
Forget ==
  /\ running' = FALSE /\ created' = FALSE /\ joined' = FALSE
  /\ lost' = (lost \/ fds # {} \/ timer # "none")
  /\ fds' = {} /\ signal' = FALSE
  /\ timer' = "none" /\ ready' = FALSE

\* timerfd_create, eventfd and pthread_create succeeded.
SetUp ==
  /\ fds' = {"timer", "stop"}
  /\ timer' = "wait"
  /\ running' = TRUE /\ created' = TRUE
  /\ UNCHANGED <<signal, joined, lost, ready>>

\* bkk_stop_timer_with_callback
Stop == signal' = (signal \/ (created /\ ~joined /\ "stop" \in fds))

\* There is a thread to be joined.
Joinable == created /\ ~joined

\* The end of bkk_cleanup_timer_with_callback
Close == fds' = {} /\ signal' = FALSE

----------------------------------------------------------------------------
(* The timer's thread *)

Elsewhere == <<touch, controller, irq, seen, faults>>

\* Ten minutes: the timer is cyclic.
Elapse ==
  /\ timer # "none" /\ timer # "ended" /\ "timer" \in fds
  /\ ready' = TRUE
  /\ UNCHANGED <<lit, timer, context, Elsewhere>>

\* select: a stop comes before an elapsed timer.
Select ==
  /\ timer = "wait"
  /\ IF signal
       THEN signal' = FALSE /\ timer' = "ended" /\ UNCHANGED ready
       ELSE ready /\ ready' = FALSE /\ timer' = "off" /\ UNCHANGED signal
  /\ UNCHANGED <<lit, fds, running, created, joined, lost, Elsewhere>>

\* screen_pwr_off_callback
PowerOff ==
  /\ timer = "off"
  /\ lit' = FALSE
  /\ timer' = "stop"
  /\ UNCHANGED <<ready, context, Elsewhere>>

\* It stops the timer, and cleanup does so once more.
StopSelf ==
  /\ timer \in {"stop", "cleanup"}
  /\ Stop
  /\ timer' = IF timer = "stop" THEN "cleanup" ELSE "join"
  /\ UNCHANGED <<lit, ready, fds, running, created, joined, lost, Elsewhere>>

\* Mutant: the result of the join is not looked at.
MutantJoinSelf ==
  /\ timer = "join"
  /\ Close
  /\ timer' = "wait"
  /\ UNCHANGED <<lit, ready, running, created, joined, lost, Elsewhere>>

\* pthread_join of the own thread fails with EDEADLK, and cleanup returns
\* before it closes anything.
JoinSelf ==
  /\ timer = "join"
  /\ IF Joinable THEN UNCHANGED <<fds, signal>> ELSE Close
  /\ timer' = "wait"
  /\ UNCHANGED <<lit, ready, running, created, joined, lost, Elsewhere>>

TimerThread == Select \/ PowerOff \/ StopSelf \/ JoinSelf

----------------------------------------------------------------------------
(* The interrupt thread and its callback *)

Rest == <<touch, controller, seen, faults>>

\* poll returns for an edge; the pending edge is gone when the value is read.
Poll ==
  /\ irq = "poll" /\ edge
  /\ irq' = "read"
  /\ UNCHANGED <<lit, timer, ready, context, Rest>>

\* Mutant: each event is taken for the opposite of the one before.
MutantRead ==
  /\ irq = "read"
  /\ seen' = IF seen = "up" THEN "down" ELSE "up"
  /\ edge' = FALSE
  /\ irq' = "call"
  /\ UNCHANGED <<lit, timer, ready, context, finger, controller, faults>>

\* The level is read, not the edge: two edges may be one event.
Read ==
  /\ irq = "read"
  /\ seen' = finger
  /\ edge' = FALSE
  /\ irq' = "call"
  /\ UNCHANGED <<lit, timer, ready, context, finger, controller, faults>>

\* irq_callback and screen_pwr_on_callback: a touch is no event.
Released ==
  /\ irq = "call"
  /\ IF seen = "down"
       THEN irq' = "poll" /\ UNCHANGED lit
       ELSE irq' = "widgets" /\ lit' = TRUE
  /\ UNCHANGED <<timer, ready, context, Rest>>

\* updateWidgets waits for the Qt thread, which is busy until its constructor
\* is done.
Widgets ==
  /\ irq = "widgets"
  /\ ctor \in {"done", "failed"}
  /\ irq' = "check"
  /\ UNCHANGED <<lit, timer, ready, context, Rest>>

\* Mutant: a timer is always taken to be gone.
MutantCheckRunning ==
  /\ irq = "check"
  /\ irq' = "reset"
  /\ UNCHANGED <<lit, timer, ready, context, Rest>>

CheckRunning ==
  /\ irq = "check"
  /\ irq' = IF running THEN "stop" ELSE "reset"
  /\ UNCHANGED <<lit, timer, ready, context, Rest>>

StopTimer ==
  /\ irq \in {"stop", "cleanup"}
  /\ Stop
  /\ irq' = IF irq = "stop" THEN "cleanup" ELSE "join"
  /\ UNCHANGED <<lit, timer, ready, fds, running, created, joined, lost, Rest>>

\* pthread_join waits for the end of the timer's thread.
Join ==
  /\ irq = "join"
  /\ Joinable => timer = "ended"
  /\ IF Joinable
       THEN timer' = "none" /\ running' = FALSE /\ joined' = TRUE
       ELSE UNCHANGED <<timer, running, joined>>
  /\ irq' = "close"
  /\ UNCHANGED <<lit, ready, signal, fds, created, lost, Rest>>

CloseTimer ==
  /\ irq = "close"
  /\ Close
  /\ irq' = "reset"
  /\ UNCHANGED <<lit, timer, ready, running, created, joined, lost, Rest>>

Reset ==
  /\ irq = "reset"
  /\ Forget
  /\ irq' = "setup"
  /\ UNCHANGED <<lit, Rest>>

SetUpAgain ==
  /\ irq = "setup"
  /\ SetUp
  /\ irq' = "poll"
  /\ UNCHANGED <<lit, Rest>>

\* What was opened is closed again, and the screen stays on.
SetUpFails ==
  /\ irq = "setup"
  /\ Fails
  /\ irq' = "poll"
  /\ UNCHANGED <<lit, timer, ready, context, touch, controller, seen>>

IrqThread ==
  \/ Poll \/ Read \/ Released \/ Widgets \/ CheckRunning \/ StopTimer \/ Join
  \/ CloseTimer \/ Reset \/ SetUpAgain

----------------------------------------------------------------------------
(* The constructor *)

World == <<lit, touch, seen>>
\* Mutant: the constructor goes on past its last step.
MutantNextStep(s) == LET i == CHOOSE j \in DOMAIN InitOrder : InitOrder[j] = s
                     IN  (InitOrder \o <<"started", "done">>)[i + 1]

NextStep(s) == LET i == CHOOSE j \in DOMAIN InitOrder : InitOrder[j] = s
               IN  IF i = Len(InitOrder) THEN "done" ELSE InitOrder[i + 1]

TimerSetUp ==
  /\ ctor = "timer"
  /\ SetUp
  /\ ctor' = NextStep(ctor)
  /\ UNCHANGED <<World, irq, have, owned, faults>>

\* A failure is logged, and the constructor goes on.
TimerSetUpFails ==
  /\ ctor = "timer"
  /\ Fails
  /\ ctor' = NextStep(ctor)
  /\ UNCHANGED <<World, irq, have, owned, timer, ready, context>>

\* What a step of ads7846_controller_init opens.
Opens(s) ==
  CASE s = "spi" -> {"spi"}
    [] s = "export" -> {"gpio"}
    [] s = "value" -> {"value"}
    [] s = "eventfd" -> {"eventfd"}
    [] s = "mutex" -> {"mutex"}
    [] OTHER -> {}

\* A GPIO that is exported already (EBUSY) is used and not owned.  The value
\* file is read once, so that an earlier edge is no event.
Controller ==
  /\ ctor \notin {"timer", "start", "done", "failed"}
  /\ have' = have \cup Opens(ctor)
  /\ owned' = IF ctor = "export" THEN "gpio" \notin have ELSE owned
  /\ edge' = IF ctor = "value" THEN FALSE ELSE edge
  /\ ctor' = NextStep(ctor)
  /\ UNCHANGED <<lit, finger, seen, irq, timer, ready, context, faults>>

Unexport == IF owned THEN {"gpio"} ELSE {}

\* What each error path closes.  One in gpio_prepare_irq_line leaves the GPIO
\* exported.
Closes(s) ==
  CASE s \in {"config", "export", "direction", "edge", "value"} -> {"spi"}
    [] s = "eventfd" -> {"spi", "value"} \cup Unexport
    [] s = "mutex" -> {"spi", "value", "eventfd"} \cup Unexport
    [] s = "start" -> {"spi", "value", "eventfd", "mutex"} \cup Unexport
    [] OTHER -> {}

\* Mutant: the error paths of init leave the SPI device open.
MutantControllerFails ==
  /\ ctor \notin {"timer", "done", "failed"}
  /\ Fails
  /\ have' = have \ (Closes(ctor) \ {"spi"})
  /\ ctor' = "failed"
  /\ UNCHANGED <<World, irq, owned, timer, ready, context>>

\* The handler is left without a controller.
ControllerFails ==
  /\ ctor \notin {"timer", "done", "failed"}
  /\ Fails
  /\ have' = have \ Closes(ctor)
  /\ ctor' = "failed"
  /\ UNCHANGED <<World, irq, owned, timer, ready, context>>

\* set_irq_callback, start_irq_listener: nothing else runs by now.
Listen ==
  /\ ctor = "start"
  /\ irq' = "poll"
  /\ ctor' = NextStep(ctor)
  /\ UNCHANGED <<World, have, owned, timer, ready, context, faults>>

Constructor == TimerSetUp \/ Controller \/ Listen

----------------------------------------------------------------------------
Down ==
  /\ finger = "up"
  /\ finger' = "down" /\ edge' = TRUE
  /\ UNCHANGED <<lit, seen, irq, controller, timer, ready, context, faults>>

Up ==
  /\ finger = "down"
  /\ finger' = "up" /\ edge' = TRUE
  /\ UNCHANGED <<lit, seen, irq, controller, timer, ready, context, faults>>

\* The GPIO may be exported since an earlier run of the program.
Init ==
  /\ lit = TRUE /\ finger = "up" /\ edge = FALSE /\ seen = "up"
  /\ irq = "none" /\ ctor = InitOrder[1]
  /\ have \in {{}, {"gpio"}} /\ owned = FALSE
  /\ timer = "none" /\ ready = FALSE /\ signal = FALSE /\ fds = {}
  /\ running = FALSE /\ created = FALSE /\ joined = FALSE /\ lost = FALSE
  /\ faults = 0

Next ==
  \/ Elapse \/ TimerThread
  \/ IrqThread \/ SetUpFails
  \/ Constructor \/ TimerSetUpFails \/ ControllerFails
  \/ Down \/ Up

Spec == Init /\ [][Next]_vars

\* The threads are scheduled, and time passes.  Nothing makes the user do
\* anything.
FairSpec ==
  /\ Spec
  /\ WF_vars(Elapse) /\ WF_vars(TimerThread) /\ WF_vars(IrqThread)
  /\ WF_vars(Constructor)

----------------------------------------------------------------------------
(* Properties *)

\* Thread and descriptors have an owner: the context is not set up again over
\* a timer that is still there, though each of two threads may have stopped
\* it, and a controller that could not be made has everything closed but a
\* GPIO that was exported.
NothingLost ==
  /\ ~lost
  /\ timer # "none" => fds = {"timer", "stop"} /\ Joinable
  /\ ctor = "failed" => have \subseteq {"gpio"}

\* The release of a finger turns the screen on, whatever the two threads were
\* doing to the timer, if there is an interrupt thread.
TouchLights ==
  ~lit /\ finger = "up" /\ edge /\ ctor = "done" ~> lit \/ finger = "down"

\* A screen that is on goes off if nobody touches it, whatever was done to
\* the timer in between, unless a call failed.
GoesDark == lit /\ finger = "up" ~> ~lit \/ finger = "down" \/ faults > 0
=============================================================================
