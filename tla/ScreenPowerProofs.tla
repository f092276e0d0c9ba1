------------------------- MODULE ScreenPowerProofs -------------------------
(***************************************************************************)
(* Theorems about the power of the screen, for every number of failing     *)
(* calls and every way the three threads take turns.                       *)
(***************************************************************************)
EXTENDS ScreenPower, TLAPS

USE BoundsAssumption

\* The interrupt thread runs only when the constructor is done.
ListensLast == irq # "none" => ctor = "done"

(* Who may use the context: is_running tells of a timer's thread that was  *)
(* not joined, and its descriptors are there.  Between the join and the    *)
(* new timer nothing but the interrupt thread comes to the context.        *)
TimerOwned ==
  IF timer = "none" THEN ~running /\ (irq # "close" => fds = {})
                    ELSE running /\ created /\ ~joined /\ fds = {"timer", "stop"}
TimerGone ==
  /\ irq \in {"close", "reset", "setup"} => timer = "none"
  /\ irq = "setup" \/ ctor = "timer" => ~joined /\ timer = "none"

(* What the controller can have opened before a step.                      *)
OpenedBefore ==
  /\ ctor \in {"timer", "spi", "failed"} => have \subseteq {"gpio"}
  /\ ctor \in {"config", "export", "direction", "edge", "value"} =>
       have \subseteq {"gpio", "spi"}
  /\ ctor = "eventfd" => have \subseteq {"gpio", "spi", "value"}
  /\ ctor = "mutex" => have \subseteq {"gpio", "spi", "value", "eventfd"}

IInv ==
  /\ TypeOK
  /\ ListensLast /\ TimerOwned /\ TimerGone /\ ~lost
  /\ OpenedBefore

----------------------------------------------------------------------------
(* The order of the steps *)

\* The constructor takes its steps in the order of the code.
LEMMA StepAfter ==
  ASSUME NEW i \in 1..10
  PROVE  NextStep(InitOrder[i]) = IF i = 10 THEN "done" ELSE InitOrder[i + 1]
<1>1. DOMAIN InitOrder = 1..10 /\ Len(InitOrder) = 10
  BY DEF InitOrder
<1>2. \A j \in 1..10 : InitOrder[j] = InitOrder[i] <=> j = i
  BY DEF InitOrder
<1>3. (CHOOSE j \in DOMAIN InitOrder : InitOrder[j] = InitOrder[i]) = i
  BY <1>1, <1>2
<1> QED BY <1>1, <1>3 DEF NextStep

\* Where the constructor is after a step: at a later one, or done.
LEMMA StepsToSteps ==
  ASSUME TypeThreads, ctor \notin {"done", "failed"}
  PROVE  /\ NextStep(ctor) \in {InitOrder[i] : i \in DOMAIN InitOrder} \cup {"done"}
         /\ NextStep(ctor) \notin {"timer", "failed"}
         /\ ctor = "timer" => NextStep(ctor) = "spi"
         /\ ctor = "spi" => NextStep(ctor) = "config"
         /\ ctor = "config" => NextStep(ctor) = "export"
         /\ ctor = "export" => NextStep(ctor) = "direction"
         /\ ctor = "direction" => NextStep(ctor) = "edge"
         /\ ctor = "edge" => NextStep(ctor) = "value"
         /\ ctor = "value" => NextStep(ctor) = "eventfd"
         /\ ctor = "eventfd" => NextStep(ctor) = "mutex"
         /\ ctor = "mutex" => NextStep(ctor) = "start"
         /\ ctor = "start" => NextStep(ctor) = "done"
<1>1. DOMAIN InitOrder = 1..10
  BY DEF InitOrder
<1>2. PICK i \in 1..10 : ctor = InitOrder[i]
  BY <1>1 DEF TypeThreads
<1>3. NextStep(ctor) = IF i = 10 THEN "done" ELSE InitOrder[i + 1]
  BY <1>2, StepAfter
<1> QED BY <1>1, <1>2, <1>3 DEF InitOrder

----------------------------------------------------------------------------
(* Types *)

\* Every thread is at one of its steps.
LEMMA ThreadType ==
  ASSUME TypeOK, Next
  PROVE  TypeThreads'
<1> USE DEF IInv, TypeOK, touch, controller, context
<1>1. CASE Select \/ PowerOff \/ JoinSelf
  BY <1>1 DEF Select, Elsewhere, PowerOff, JoinSelf, Joinable, Close,
     TypeThreads
<1>2. CASE StopSelf
  BY <1>2 DEF StopSelf, Stop, Elsewhere, TypeThreads
<1>3. CASE Poll \/ Read \/ Released
  BY <1>3 DEF Poll, Rest, Read, Released, TypeThreads
<1>4. CASE Widgets \/ CheckRunning \/ StopTimer
  BY <1>4 DEF Widgets, Rest, CheckRunning, StopTimer, Stop, TypeThreads
<1>5. CASE Join \/ CloseTimer
  BY <1>5 DEF Join, Joinable, Rest, CloseTimer, Close, TypeThreads
<1>6. CASE Reset \/ SetUpAgain
  BY <1>6 DEF Reset, Forget, Rest, SetUpAgain, SetUp, TypeThreads
<1>7. CASE SetUpFails
  BY <1>7 DEF SetUpFails, Fails, TypeThreads
<1>8. CASE TimerSetUp
  BY <1>8, StepsToSteps DEF TimerSetUp, SetUp, World, TypeThreads
<1>9. CASE TimerSetUpFails
  BY <1>9, StepsToSteps DEF TimerSetUpFails, World, Fails, TypeThreads
<1>10. CASE Controller
  BY <1>10, StepsToSteps DEF Controller, Opens, Resources, TypeThreads
<1>11. CASE ControllerFails
  BY <1>11 DEF ControllerFails, World, Fails, TypeThreads
<1>12. CASE Listen
  BY <1>12, StepsToSteps DEF Listen, World, TypeThreads
<1>13. CASE UNCHANGED <<irq, timer, ctor, have, fds, faults>>
  BY <1>13 DEF TypeThreads
<1> QED
  BY <1>1, <1>2, <1>3, <1>4, <1>5, <1>6, <1>7, <1>8, <1>9, <1>10, <1>11, <1>12,
     <1>13 DEF
     Next, TimerThread, IrqThread, Constructor, Elapse, Elsewhere, Down, Up

\* Flags stay flags.
LEMMA FlagType ==
  ASSUME TypeOK, Next
  PROVE  TypeFlags'
<1> USE DEF IInv, TypeOK, touch, controller, context
<1>1. CASE Elapse
  BY <1>1, Zenon DEF Elapse, Elsewhere, TypeFlags
<1>2. CASE Select
  BY <1>2, Zenon DEF Select, Elsewhere, TypeFlags
<1>3. CASE PowerOff
  BY <1>3, Zenon DEF PowerOff, Elsewhere, TypeFlags
<1>4. CASE StopSelf
  BY <1>4, Zenon DEF StopSelf, Stop, Elsewhere, TypeFlags
<1>5. CASE JoinSelf
  BY <1>5, Zenon DEF JoinSelf, Joinable, Close, Elsewhere, TypeFlags
<1>6. CASE Read
  BY <1>6, Zenon DEF Read, TypeFlags
<1>7. CASE Released
  BY <1>7, Zenon DEF Released, Rest, TypeFlags
<1>8. CASE StopTimer
  BY <1>8, Zenon DEF StopTimer, Stop, Rest, TypeFlags
<1>9. CASE Join
  BY <1>9, Zenon DEF Join, Joinable, Rest, TypeFlags
<1>10. CASE CloseTimer
  BY <1>10, Zenon DEF CloseTimer, Close, Rest, TypeFlags
<1>11. CASE Reset
  BY <1>11, Zenon DEF Reset, Forget, Rest, TypeFlags
<1>12. CASE SetUpAgain
  BY <1>12, Zenon DEF SetUpAgain, SetUp, Rest, TypeFlags
<1>13. CASE TimerSetUp
  BY <1>13, Zenon DEF TimerSetUp, SetUp, World, TypeFlags
<1>14. CASE Controller
  BY <1>14, Zenon DEF Controller, TypeFlags
<1>15. CASE Down
  BY <1>15, Zenon DEF Down, TypeFlags
<1>16. CASE Up
  BY <1>16, Zenon DEF Up, TypeFlags
<1>17. CASE UNCHANGED <<lit, finger, edge, seen, owned, ready, signal, running, created, joined, lost>>
  BY <1>17, Zenon DEF TypeFlags
<1> QED
  BY <1>1, <1>2, <1>3, <1>4, <1>5, <1>6, <1>7, <1>8, <1>9, <1>10, <1>11, <1>12,
     <1>13, <1>14, <1>15, <1>16, <1>17 DEF
     Next, TimerThread, IrqThread, Constructor, Poll, Rest, Widgets,
     CheckRunning, SetUpFails, TimerSetUpFails, World, ControllerFails, Listen

----------------------------------------------------------------------------
(* The timer and its context *)

\* The listener is started by the last step.
LEMMA ListensLastKept ==
  ASSUME IInv, Next
  PROVE  ListensLast'
<1> USE DEF IInv, TypeOK, touch, controller, context
<1>1. CASE Listen \/ TimerSetUp \/ TimerSetUpFails \/ Controller \/ ControllerFails
  BY <1>1, StepsToSteps DEF Listen, World, TimerSetUp, SetUp, TimerSetUpFails,
     Controller, ControllerFails, ListensLast
<1>2. CASE Poll \/ Read \/ Released \/ Widgets \/ CheckRunning \/ StopTimer \/ Join \/ CloseTimer \/ Reset \/ SetUpAgain \/ SetUpFails
  BY <1>2 DEF Poll, Rest, Read, Released, Widgets, CheckRunning, StopTimer,
     Stop, Join, Joinable, CloseTimer, Close, Reset, Forget, SetUpAgain, SetUp,
     SetUpFails, ListensLast
<1>3. CASE UNCHANGED <<irq, ctor>>
  BY <1>3 DEF ListensLast
<1> QED
  BY <1>1, <1>2, <1>3 DEF Next, TimerThread, IrqThread, Constructor, Elapse,
     Elsewhere, Select, PowerOff, StopSelf, Stop, JoinSelf, Joinable, Close,
     Down, Up

\* Whoever sets the timer up, stops, joins or closes it keeps it owned.
LEMMA TimerOwnedKept ==
  ASSUME IInv, Next
  PROVE  TimerOwned'
<1> USE DEF IInv, TypeOK, touch, controller, context
<1>1. CASE Select
  BY <1>1 DEF Select, Elsewhere, TimerOwned
<1>2. CASE PowerOff
  BY <1>2 DEF PowerOff, Elsewhere, TimerOwned
<1>3. CASE StopSelf
  BY <1>3 DEF StopSelf, Stop, Elsewhere, TimerOwned
<1>4. CASE JoinSelf
  BY <1>4 DEF JoinSelf, Joinable, Close, Elsewhere, TimerOwned
<1>5. CASE Poll \/ Read \/ Released \/ Widgets
  BY <1>5 DEF Poll, Rest, Read, Released, Widgets, TimerOwned
<1>6. CASE CheckRunning \/ StopTimer
  BY <1>6 DEF CheckRunning, Rest, StopTimer, Stop, TimerOwned
<1>7. CASE Join
  BY <1>7 DEF Join, Joinable, Rest, TimerOwned
<1>8. CASE CloseTimer
  BY <1>8 DEF CloseTimer, Close, Rest, TimerGone, TimerOwned
<1>9. CASE Reset
  BY <1>9 DEF Reset, Forget, Rest, TimerOwned
<1>10. CASE SetUpAgain
  BY <1>10 DEF SetUpAgain, SetUp, Rest, TimerGone, TimerOwned
<1>11. CASE SetUpFails
  BY <1>11 DEF SetUpFails, TimerGone, TimerOwned
<1>12. CASE TimerSetUp
  BY <1>12 DEF TimerSetUp, SetUp, World, TimerGone, TimerOwned
<1>13. CASE Listen
  BY <1>13 DEF Listen, World, ListensLast, TimerOwned
<1>14. CASE UNCHANGED <<irq, timer, fds, running, created, joined>>
  BY <1>14 DEF TimerOwned
<1> QED
  BY <1>1, <1>2, <1>3, <1>4, <1>5, <1>6, <1>7, <1>8, <1>9, <1>10, <1>11, <1>12,
     <1>13, <1>14 DEF
     Next, TimerThread, IrqThread, Constructor, Elapse, Elsewhere,
     TimerSetUpFails, World, Controller, ControllerFails, Down, Up

\* Nobody makes a timer while one is replaced.
LEMMA TimerGoneKept ==
  ASSUME IInv, Next
  PROVE  TimerGone'
<1> USE DEF IInv, TypeOK, touch, controller, context
<1>1. CASE Select \/ PowerOff \/ StopSelf \/ JoinSelf
  BY <1>1 DEF Select, Elsewhere, PowerOff, StopSelf, Stop, JoinSelf, Joinable,
     Close, TimerGone
<1>2. CASE Poll \/ Read \/ Released \/ Widgets \/ StopTimer
  BY <1>2 DEF Poll, Rest, Read, Released, Widgets, StopTimer, Stop,
     ListensLast, TimerGone
<1>3. CASE CheckRunning
  BY <1>3 DEF CheckRunning, Rest, TimerOwned, ListensLast, TimerGone
<1>4. CASE Join
  BY <1>4 DEF Join, Joinable, Rest, TimerOwned, ListensLast, TimerGone
<1>5. CASE CloseTimer \/ Reset
  BY <1>5 DEF CloseTimer, Close, Rest, Reset, Forget, ListensLast, TimerGone
<1>6. CASE SetUpAgain
  BY <1>6 DEF SetUpAgain, SetUp, Rest, ListensLast, TimerGone
<1>7. CASE SetUpFails
  BY <1>7 DEF SetUpFails, ListensLast, TimerGone
<1>8. CASE TimerSetUp
  BY <1>8, StepsToSteps DEF TimerSetUp, SetUp, World, ListensLast, TimerGone
<1>9. CASE TimerSetUpFails \/ Controller
  <2>1. UNCHANGED <<irq, timer, joined>>
    BY <1>9 DEF TimerSetUpFails, Controller
  <2>2. ctor' # "timer"
    BY <1>9, StepsToSteps DEF TimerSetUpFails, Controller
  <2> QED BY <2>1, <2>2 DEF TimerGone
<1>10. CASE ControllerFails
  BY <1>10 DEF ControllerFails, World, TimerGone
<1>11. CASE Listen
  BY <1>11, StepsToSteps DEF Listen, World, TimerGone
<1>12. CASE UNCHANGED <<irq, ctor, timer, joined>>
  BY <1>12 DEF TimerGone
<1> QED
  BY <1>1, <1>2, <1>3, <1>4, <1>5, <1>6, <1>7, <1>8, <1>9, <1>10, <1>11,
     <1>12 DEF
     Next, TimerThread, IrqThread, Constructor, Elapse, Elsewhere, Down, Up

\* The context is set up again only over a timer that is gone.
LEMMA NothingGetsLost ==
  ASSUME IInv, Next
  PROVE  ~lost'
<1> USE DEF IInv, TypeOK, touch, controller, context
<1>1. CASE Reset
  BY <1>1 DEF Reset, Forget, Rest, TimerGone, TimerOwned
<1>2. CASE UNCHANGED <<lost>>
  BY <1>2
<1> QED
  BY <1>1, <1>2 DEF Next, TimerThread, IrqThread, Constructor, Elapse,
     Elsewhere, Select, PowerOff, StopSelf, Stop, JoinSelf, Joinable, Close,
     Poll, Rest, Read, Released, Widgets, CheckRunning, StopTimer, Join,
     CloseTimer, SetUpAgain, SetUp, SetUpFails, TimerSetUp, World,
     TimerSetUpFails, Controller, ControllerFails, Listen, Down, Up

\* Each step opens what the error paths of the later ones close.
LEMMA OpenedBeforeKept ==
  ASSUME IInv, Next
  PROVE  OpenedBefore'
<1> USE DEF IInv, TypeOK, touch, controller, context
<1>1. CASE TimerSetUp \/ TimerSetUpFails
  BY <1>1, StepsToSteps DEF TimerSetUp, SetUp, World, TimerSetUpFails,
     OpenedBefore
<1>2. CASE Controller
  <2>1. /\ ctor \in {"spi", "config", "export", "direction", "edge", "value",
                      "eventfd", "mutex"}
        /\ ctor' = NextStep(ctor) /\ have' = have \cup Opens(ctor)
    BY <1>2 DEF Controller, TypeThreads, InitOrder
  <2>2. CASE ctor \in {"spi", "config"}
    BY <2>1, <2>2, StepsToSteps DEF Opens, OpenedBefore
  <2>3. CASE ctor \in {"export", "direction", "edge"}
    BY <2>1, <2>3, StepsToSteps DEF Opens, OpenedBefore
  <2>4. CASE ctor \in {"value", "eventfd"}
    BY <2>1, <2>4, StepsToSteps DEF Opens, OpenedBefore
  <2>5. CASE ctor = "mutex"
    BY <2>1, <2>5, StepsToSteps DEF OpenedBefore
  <2> QED BY <2>1, <2>2, <2>3, <2>4, <2>5
<1>3. CASE ControllerFails
  BY <1>3 DEF ControllerFails, World, Closes, Unexport, TypeThreads, InitOrder,
     Resources, OpenedBefore
<1>4. CASE Listen
  BY <1>4, StepsToSteps DEF Listen, World, OpenedBefore
<1>5. CASE UNCHANGED <<ctor, have>>
  BY <1>5 DEF OpenedBefore
<1> QED
  BY <1>1, <1>2, <1>3, <1>4, <1>5 DEF Next, TimerThread, IrqThread,
     Constructor, Elapse, Elsewhere, Select, PowerOff, StopSelf, Stop,
     JoinSelf, Joinable, Close, Poll, Rest, Read, Released, Widgets,
     CheckRunning, StopTimer, Join, CloseTimer, Reset, Forget, SetUpAgain,
     SetUp, SetUpFails, Down, Up

----------------------------------------------------------------------------
LEMMA InitInv == Init => IInv
<1> SUFFICES ASSUME Init PROVE IInv
  OBVIOUS
<1>1. ctor = "timer"
  BY DEF Init, InitOrder
<1>2. TypeThreads
  BY DEF Init, TypeThreads, InitOrder, Resources
<1>3. TypeFlags /\ ~lost
  BY Zenon DEF Init, TypeFlags
<1>4. ListensLast /\ TimerOwned /\ TimerGone /\ OpenedBefore
  BY <1>1 DEF Init, ListensLast, TimerOwned, TimerGone, OpenedBefore
<1> QED BY <1>2, <1>3, <1>4 DEF IInv, TypeOK

LEMMA StepKeepsInv == IInv /\ [Next]_vars => IInv'
<1> SUFFICES ASSUME IInv, [Next]_vars PROVE IInv'
  OBVIOUS
<1>1. CASE Next
  BY <1>1, ThreadType, FlagType, ListensLastKept, TimerOwnedKept, TimerGoneKept,
     NothingGetsLost, OpenedBeforeKept DEF IInv, TypeOK
<1>2. CASE UNCHANGED vars
  <2>1. TypeThreads'
    BY <1>2 DEF vars, IInv, TypeOK, TypeThreads
  <2>2. TypeFlags' /\ ~lost'
    BY <1>2, Zenon DEF vars, IInv, TypeOK, TypeFlags
  <2>3. (ListensLast /\ TimerOwned /\ TimerGone /\ OpenedBefore)'
    BY <1>2 DEF vars, IInv, ListensLast, TimerOwned, TimerGone, OpenedBefore
  <2> QED BY <2>1, <2>2, <2>3 DEF IInv, TypeOK
<1> QED BY <1>1, <1>2

\* The variables of the three threads keep their types, whatever fails.
THEOREM TypeCorrect == Spec => []TypeOK
<1>1. IInv => TypeOK
  BY DEF IInv
<1> QED BY <1>1, InitInv, StepKeepsInv, PTL DEF Spec

\* bkk_setup_timer_with_callback never forgets a thread or a descriptor,
\* although the timer's thread and the interrupt thread share the context
\* without a lock and the former stops and cleans up the timer it runs on; and
\* the error paths of the controller close what was opened.
THEOREM NothingIsEverLost == Spec => []NothingLost
<1>1. IInv => NothingLost
  BY DEF IInv, TimerOwned, OpenedBefore, NothingLost, Joinable
<1> QED BY <1>1, InitInv, StepKeepsInv, PTL DEF Spec

=============================================================================
