------------------------- MODULE MainContentProofs -------------------------
(***************************************************************************)
(* Theorems about the main content program, for every number of retries,   *)
(* changes of the network mode, submissions and faults.                    *)
(***************************************************************************)
EXTENDS MainContent, TLAPS

USE BoundsAssumption

----------------------------------------------------------------------------
(* The steps, by who takes them *)

ThreadStep(t) ==
  \/ Check(t) \/ Copy(t) \/ Release(t) \/ Acquire(t) \/ Record(t) \/ Settle(t)
  \/ Put(t) \/ CallFails(t) \/ SwitchNothing(t) \/ SwitchState(t) \/ Address(t)
  \/ NoAddress(t) \/ Assign(t)
MainStep ==
  \/ Connect \/ ConnectFails \/ Listen \/ ListenFails \/ Begin \/ GiveUp
  \/ GetCurrentState \/ Ask \/ AskFails \/ Load \/ Wake \/ Exchange \/ Exec
  \/ Fetch \/ Terminate \/ TerminateLocked \/ Leave \/ Crash
OtherStep ==
  \/ Signal \/ Request \/ WriteEvent \/ PingStarts \/ PingSends \/ PingFails
  \/ NetworkChanges \/ Configure \/ Configured \/ ConfigureWifi
  \/ Notify \/ NotifyFails \/ Expire \/ OwnerEnds

LEMMA NextCases ==
  ASSUME Next
  PROVE  (\E t \in Threads : ThreadStep(t)) \/ MainStep \/ OtherStep
<1>1. CASE MainThread \/ NetThread
  BY <1>1 DEF MainThread, NetThread, Switching, SwitchContext, ThreadStep,
     MainStep, OtherStep, Threads
<1>2. CASE World \/ Faults
  BY <1>2 DEF World, ConfigServer, Faults, ThreadStep, MainStep, OtherStep
<1> QED BY <1>1, <1>2 DEF Next, PingTimer, OtherStep

----------------------------------------------------------------------------
(* Types *)

\* Each form is written once and announced once, and a request is under way
\* until its second statement.
FormsAreOnce ==
  /\ config + (IF serving = "write" THEN 1 ELSE 0) <= submits
  /\ notices + (IF serving = "idle" THEN 0 ELSE 1) <= submits
  /\ writing => notices > 0

\* No more tries than there are: the counter is reset before a loop.
TriesLeft ==
  /\ pc["main"] \in {"listen", "begin"} => tries <= MaxRetries
  /\ pc["main"] \in {"connect", "exited", "stopped"} => tries = 0

\* The calls to the owner are about components.
CallsAreTyped ==
  \A t \in Threads :
    /\ pc[t] = "acquire" => want[t] # "RELEASE"
    /\ pc[t] = "release" => had[t] # None
    /\ job[t] = "report" => want[t] # "RELEASE"

\* A thread that waits for ever waits for an answer of the owner.
RefusedCalls ==
  \A t \in Threads : t \in refused => pc[t] \in {"release", "acquire", "put"}

\* There is no listener before init makes it.
NetOff ==
  pc["main"] \in {"connect", "listen", "exited", "stopped"} => pc["net"] = "off"

\* From the signal on, the main thread does nothing else.
ExitPath == job["main"] = "exit" => pc["main"] \in ScreenSteps \cup {"leave", "stuck"}

\* The notification whose request has set the flag does not count any more.
Announced == notices > IF writing THEN 1 ELSE 0
OnItsWay ==
  loaded # config /\ ~Ending =>
    serving # "idle" \/ Announced \/ flag \/ WillLoad \/ missed

IInv ==
  /\ TypeOK /\ FormsAreOnce /\ TriesLeft /\ CallsAreTyped
  /\ RefusedCalls /\ NetOff /\ ExitPath
  /\ UpdateWakes /\ OnItsWay

\* The owner shows a component, and the network has a mode.
LEMMA WorldType ==
  ASSUME IInv, Next
  PROVE  TypeWorld'
<1> USE DEF IInv, TypeOK, owner, network, server, update, local, asking, ping,
   marks, losses
<1>1. ASSUME NEW t \in Threads, Release(t)
      PROVE  TypeWorld'
  BY <1>1 DEF Release, Rest, Goto, Released, Refused, Accepts, Lent, NotFound,
     CallsAreTyped, TypeThreads, Threads, TypeWorld
<1>2. ASSUME NEW t \in Threads, Acquire(t)
      PROVE  TypeWorld'
  BY <1>2 DEF Acquire, Rest, Goto, Accepts, Lent, Refused, CallsAreTyped,
     TypeThreads, TypeWorld
<1>3. ASSUME NEW t \in Threads, Put(t)
      PROVE  TypeWorld'
  <2>1. UNCHANGED <<netMode, signals>>
    BY <1>3 DEF Put, Rest
  <2>2. UNCHANGED <<place, stage>> \/ NotFound(PutFor(t))
    BY <1>3 DEF Put, Refused
  <2>3. PutFor(t) \in Components
    BY DEF PutFor, CallsAreTyped, TypeThreads, Jobs, Components
  <2> QED BY <2>1, <2>2, <2>3 DEF NotFound, TypeWorld
<1>4. CASE PingSends
  BY <1>4 DEF PingSends, Accepts, Lent, Refused, NotFound, TypeShared,
     TypeWorld
<1>5. CASE GiveUp \/ Leave \/ Crash
  <2>1. UNCHANGED <<place, stage, netMode>> /\ signals' = <<>>
    BY <1>5 DEF GiveUp, Leave, Crash, Gone
  <2> QED BY <2>1 DEF TypeWorld
<1>6. CASE Signal
  BY <1>6 DEF Signal, Screen, Goto, TypeWorld
<1>7. CASE NetworkChanges
  BY <1>7 DEF NetworkChanges, Screen, TypeWorld
<1>8. CASE Expire
  BY <1>8 DEF Expire, TypeWorld
<1>9. CASE OwnerEnds
  BY <1>9 DEF OwnerEnds, TypeWorld
<1>10. CASE UNCHANGED <<place, stage, netMode, signals>>
  BY <1>10 DEF TypeWorld
<1> QED
  BY ZenonT(30), NextCases, <1>1, <1>2, <1>3, <1>4, <1>5, <1>6, <1>7, <1>8,
     <1>9, <1>10 DEF ThreadStep, MainStep, OtherStep, Check, Rest, Copy,
     Record, Settle, CallFails, Released, SwitchNothing, Screen, Done,
     SwitchState, Call, Address, NoAddress, Assign, Connect, ConnectFails,
     Listen, ListenFails, Begin, GetCurrentState, Ask, AskFails, Load, Wake,
     Exchange, Exec, Fetch, Terminate, TerminateLocked, Request, WriteEvent,
     PingStarts, Configure, Configured, ConfigureWifi, Notify, NotifyFails,
     PingFails

\* No counter exceeds its bound.
LEMMA CountType ==
  ASSUME IInv, Next
  PROVE  TypeCounts'
<1> USE DEF IInv, TypeOK, owner, network, server, update, local, asking, ping,
   marks, losses
<1>1. ASSUME NEW t \in Threads, CallFails(t)
      PROVE  TypeCounts'
  BY <1>1 DEF CallFails, Unreached, Goto, Released, TypeCounts
<1>2. ASSUME NEW t \in Threads, NoAddress(t)
      PROVE  TypeCounts'
  BY <1>2 DEF NoAddress, Goto, Done, TypeCounts
<1>3. CASE ConnectFails \/ Crash \/ OwnerEnds
  BY <1>3 DEF ConnectFails, Screen, Main, Goto, Crash, Gone, OwnerEnds,
     TypeCounts
<1>4. CASE GiveUp \/ Leave
  BY <1>4 DEF GiveUp, Main, Gone, Leave, TypeCounts
<1>5. CASE Listen \/ GetCurrentState \/ Ask
  BY <1>5 DEF Listen, Screen, Main, Goto, GetCurrentState, Ask, TypeCounts
<1>6. CASE ListenFails
  BY <1>6 DEF ListenFails, Screen, Main, Goto, TriesLeft, TypeCounts
<1>7. CASE Begin
  BY <1>7 DEF Begin, Main, Goto, Call, TriesLeft, TypeCounts
<1>8. CASE AskFails
  BY <1>8 DEF AskFails, Main, Goto, TypeCounts
<1>9. CASE WriteEvent
  BY <1>9 DEF WriteEvent, Screen, FormsAreOnce, TypeCounts
<1>10. CASE NetworkChanges
  BY <1>10 DEF NetworkChanges, Screen, TypeCounts
<1>11. CASE Configure \/ Configured \/ ConfigureWifi \/ Notify \/ NotifyFails
  BY <1>11 DEF Configure, Configured, ConfigureWifi, Notify, NotifyFails,
     Screen, FormsAreOnce, TypeShared, TypeCounts
<1>12. CASE PingFails
  BY <1>12 DEF PingFails, Unreached, TypeCounts
<1>13. CASE UNCHANGED <<config, notices, submits, changes, faults, tries>>
  BY <1>13 DEF TypeCounts
<1> QED
  BY ZenonT(30), NextCases, <1>1, <1>2, <1>3, <1>4, <1>5, <1>6, <1>7, <1>8,
     <1>9, <1>10, <1>11, <1>12, <1>13 DEF ThreadStep, MainStep, OtherStep,
     Check, Rest, Copy, Release, Released, Acquire, Record, Settle, Put,
     SwitchNothing, Screen, Done, SwitchState, Call, Address, Assign, Connect,
     Load, Wake, Exchange, Exec, Fetch, Terminate, TerminateLocked, Signal,
     Request, PingStarts, PingSends, Expire

\* What the threads share keeps its type.
LEMMA SharedType ==
  ASSUME IInv, Next
  PROVE  TypeShared'
<1> USE DEF IInv, TypeOK, owner, network, server, update, local, asking, ping,
   marks, losses
<1>1. ASSUME NEW t \in Threads, Release(t) \/ Acquire(t) \/ Put(t)
      PROVE  TypeShared'
  BY <1>1 DEF Release, Rest, Goto, Released, Acquire, Put, Refused, Threads,
     TypeShared
<1>2. ASSUME NEW t \in Threads, Record(t)
      PROVE  TypeShared'
  BY <1>2 DEF Record, Rest, Goto, TypeThreads, TypeShared
<1>3. ASSUME NEW t \in Threads, Settle(t)
      PROVE  TypeShared'
  BY <1>3 DEF Settle, Rest, Goto, TypeThreads, TypeShared
<1>4. ASSUME NEW t \in Threads, SwitchNothing(t) \/ NoAddress(t)
      PROVE  TypeShared'
  BY <1>4 DEF SwitchNothing, Screen, Goto, Done, NoAddress, TypeShared
<1>5. ASSUME NEW t \in Threads, Assign(t)
      PROVE  TypeShared'
  BY <1>5 DEF Assign, Screen, Goto, Done, TypeThreads, TypeShared
<1>6. CASE GiveUp \/ Leave \/ Crash
  BY <1>6 DEF GiveUp, Main, Gone, Leave, Crash, ContentStates, TypeShared
<1>7. CASE Load
  BY <1>7 DEF Load, HasStations, Screen, Main, Goto, TypeCounts, TypeShared
<1>8. CASE Terminate
  BY <1>8 DEF Terminate, Goto, Call, TypeShared
<1>9. CASE PingStarts
  BY <1>9 DEF PingStarts, TypeShared
<1>10. CASE PingSends
  BY <1>10 DEF PingSends, Refused, TypeShared
<1>11. CASE OwnerEnds
  BY <1>11 DEF OwnerEnds, TypeShared
<1>12. CASE PingFails
  BY <1>12 DEF PingFails, TypeShared
<1>13. CASE Configure \/ Configured \/ ConfigureWifi \/ Notify \/ NotifyFails
  BY <1>13 DEF Configure, Configured, ConfigureWifi, Notify, NotifyFails,
     Screen, TypeShared
<1>14. CASE UNCHANGED <<state, shown, ctx, loaded, serving, pinger, pinged, refused>>
  BY <1>14 DEF TypeShared
<1> QED
  BY ZenonT(30), NextCases, <1>1, <1>2, <1>3, <1>4, <1>5, <1>6, <1>7, <1>8,
     <1>9, <1>10, <1>11, <1>12, <1>13, <1>14 DEF ThreadStep, MainStep,
     OtherStep, Check, Rest, Copy, CallFails, Released, SwitchState, Screen,
     Call, Address, Connect, ConnectFails, Listen, ListenFails, Begin,
     GetCurrentState, Ask, AskFails, Wake, Exchange, Exec, Fetch,
     TerminateLocked, Signal, Request, WriteEvent, NetworkChanges, Expire

\* A thread returns to a step of its caller.
LEMMA ReturnsAreTyped ==
  ASSUME TypeThreads, NEW t \in Threads
  PROVE  /\ \A ok \in BOOLEAN : AfterSwitch(t, ok) \in Steps \ {"listen", "connect", "exited", "stopped", "release", "acquire"}
         /\ AfterPut(t) \in Steps \ {"listen", "begin", "connect", "exited", "stopped", "release", "acquire"}
         /\ WantAfterPut(t) \in Components \cup {"RELEASE"}
<1>1. job[t] \in {"init", "mode", "report", "exit"} /\ want[t] \in Components \cup {"RELEASE"}
  BY DEF TypeThreads, Jobs
<1>2. ASSUME NEW ok \in BOOLEAN
      PROVE  AfterSwitch(t, ok) \in Steps \ {"listen", "connect", "exited", "stopped", "release", "acquire"}
  BY <1>1 DEF AfterSwitch, Steps, ScreenSteps
<1>3. AfterPut(t) \in Steps \ {"listen", "begin", "connect", "exited", "stopped", "release", "acquire"}
  BY <1>1 DEF AfterPut, Steps, ScreenSteps
<1>4. WantAfterPut(t) \in Components \cup {"RELEASE"}
  BY <1>1 DEF WantAfterPut, Components
<1> QED BY <1>2, <1>3, <1>4

\* Every thread is at a step, for a reason and a component.
LEMMA ThreadsType ==
  ASSUME IInv, Next
  PROVE  TypeThreads'
<1> USE DEF IInv, TypeOK, owner, network, server, update, local, asking, ping,
   marks, losses
<1>1. ASSUME NEW t \in Threads, Check(t)
      PROVE  TypeThreads'
  BY <1>1, ReturnsAreTyped DEF Check, Rest, Goto, Steps, ScreenSteps,
     TypeThreads
<1>2. ASSUME NEW t \in Threads, Copy(t)
      PROVE  TypeThreads'
  BY <1>2 DEF Copy, Rest, Goto, Steps, ScreenSteps, TypeShared, TypeThreads
<1>3. ASSUME NEW t \in Threads, Release(t)
      PROVE  TypeThreads'
  BY <1>3 DEF Release, Rest, Goto, Released, Steps, ScreenSteps, Refused,
     TypeThreads
<1>4. ASSUME NEW t \in Threads, Acquire(t)
      PROVE  TypeThreads'
  <2>1. pc' = pc \/ \E l \in Steps : Goto(t, l)
    BY <1>4, ReturnsAreTyped DEF Acquire, Steps, ScreenSteps
  <2>2. UNCHANGED <<job, goal, want, had>>
    BY <1>4 DEF Acquire
  <2> QED BY <2>1, <2>2 DEF Goto, TypeThreads
<1>5. ASSUME NEW t \in Threads, Record(t)
      PROVE  TypeThreads'
  BY <1>5 DEF Record, Rest, Goto, Steps, ScreenSteps, TypeThreads
<1>6. ASSUME NEW t \in Threads, Settle(t)
      PROVE  TypeThreads'
  BY <1>6, ReturnsAreTyped DEF Settle, Rest, Goto, Steps, ScreenSteps,
     TypeThreads
<1>7. ASSUME NEW t \in Threads, Put(t)
      PROVE  TypeThreads'
  BY <1>7, ReturnsAreTyped DEF Put, Rest, Goto, Refused, TypeThreads
<1>8. ASSUME NEW t \in Threads, CallFails(t)
      PROVE  TypeThreads'
  <2>1. job' = job /\ goal' = goal
    BY <1>8 DEF CallFails
  <2>2. want' \in [Threads -> Components \cup {"RELEASE"}]
    BY <1>8, ReturnsAreTyped DEF CallFails, TypeThreads
  <2>3. CASE pc[t] = "release"
    BY <1>8, <2>1, <2>2, <2>3 DEF CallFails, Released, Goto, TypeThreads,
       Steps, ScreenSteps
  <2>4. CASE pc[t] \in {"acquire", "put"}
    <3>1. had' = had /\ \E l \in Steps : Goto(t, l)
      BY <1>8, <2>4, ReturnsAreTyped DEF CallFails
    <3> QED BY <2>1, <2>2, <3>1 DEF Goto, TypeThreads
  <2> QED BY <1>8, <2>3, <2>4 DEF CallFails
<1>9. ASSUME NEW t \in Threads, SwitchNothing(t)
      PROVE  TypeThreads'
  BY <1>9 DEF SwitchNothing, Screen, Goto, Done, Steps, ScreenSteps, Jobs,
     ContentStates, Components, TypeThreads
<1>10. ASSUME NEW t \in Threads, SwitchState(t)
      PROVE  TypeThreads'
  BY <1>10 DEF SwitchState, Screen, Goto, Call, Steps, ScreenSteps, Jobs,
     Components, TypeThreads
<1>11. ASSUME NEW t \in Threads, Address(t)
      PROVE  TypeThreads'
  BY <1>11 DEF Address, Screen, Goto, Steps, ScreenSteps, TypeThreads
<1>12. ASSUME NEW t \in Threads, NoAddress(t)
      PROVE  TypeThreads'
  BY <1>12 DEF NoAddress, Goto, Done, Steps, ScreenSteps, Jobs, ContentStates,
     Components, TypeThreads
<1>13. ASSUME NEW t \in Threads, Assign(t)
      PROVE  TypeThreads'
  BY <1>13 DEF Assign, Screen, Goto, Done, Steps, ScreenSteps, Jobs,
     ContentStates, Components, TypeThreads
<1>14. CASE Connect \/ ConnectFails
  BY <1>14 DEF Connect, Screen, Main, Goto, ConnectFails, Steps, ScreenSteps,
     TypeThreads
<1>15. CASE Listen \/ ListenFails
  BY <1>15 DEF Listen, Screen, Main, Goto, ListenFails, Steps, ScreenSteps,
     TypeThreads
<1>16. CASE Begin
  BY <1>16 DEF Begin, Main, Goto, Call, Steps, ScreenSteps, Jobs, Components,
     TypeThreads
<1>17. CASE GiveUp \/ Leave \/ Crash
  BY <1>17 DEF GiveUp, Main, Gone, Leave, Crash, Steps, ScreenSteps, Jobs,
     ContentStates, Components, TypeThreads
<1>18. CASE GetCurrentState \/ Wake \/ Exchange \/ Exec
  BY <1>18 DEF GetCurrentState, Screen, Main, Goto, Wake, Exchange, Exec,
     Steps, ScreenSteps, TypeThreads
<1>19. CASE Ask
  BY <1>19 DEF Ask, Screen, Main, Goto, Steps, ScreenSteps, ContentStates,
     TypeThreads
<1>20. CASE AskFails
  BY <1>20 DEF AskFails, Main, Goto, Steps, ScreenSteps, ContentStates,
     TypeThreads
<1>21. CASE Load
  BY <1>21 DEF Load, Screen, Main, Goto, Steps, ScreenSteps, ContentStates,
     TypeThreads
<1>22. CASE Fetch
  <2>1. PICK k \in Components : Call("main", "report", k)
    BY <1>22 DEF Fetch, Fetched, Components
  <2>2. UNCHANGED <<goal, had>>
    BY <1>22 DEF Fetch
  <2> QED BY <2>1, <2>2 DEF Call, Goto, TypeThreads, Threads, Steps,
     ScreenSteps, Jobs
<1>23. CASE Terminate
  BY <1>23 DEF Terminate, Goto, Call, Steps, ScreenSteps, Jobs, Components,
     TypeThreads
<1>24. CASE TerminateLocked
  BY <1>24 DEF TerminateLocked, Main, Goto, Steps, ScreenSteps, Jobs,
     TypeThreads
<1>25. CASE Signal
  BY <1>25 DEF Signal, Screen, Goto, Steps, ScreenSteps, ContentStates,
     TypeThreads
<1>26. CASE OwnerEnds
  BY <1>26, ReturnsAreTyped DEF OwnerEnds, Steps, ScreenSteps, Resume,
     TypeThreads
<1>27. CASE UNCHANGED <<pc, job, goal, want, had>>
  BY <1>27 DEF TypeThreads
<1> QED
  BY ZenonT(30), NextCases, <1>1, <1>2, <1>3, <1>4, <1>5, <1>6, <1>7, <1>8,
     <1>9, <1>10, <1>11, <1>12, <1>13, <1>14, <1>15, <1>16, <1>17, <1>18,
     <1>19, <1>20, <1>21, <1>22, <1>23, <1>24, <1>25, <1>26, <1>27 DEF
     ThreadStep, MainStep, OtherStep, Request, Screen, WriteEvent, PingStarts,
     PingSends, PingFails, NetworkChanges, Configure, Configured,
     ConfigureWifi, Notify, NotifyFails, Expire

\* Flags stay flags.
LEMMA FlagType ==
  ASSUME IInv, Next
  PROVE  TypeFlags'
<1> USE DEF IInv, TypeOK, owner, network, server, update, local, asking, ping,
   marks, losses
<1>1. ASSUME NEW t \in Threads, Check(t)
      PROVE  TypeFlags'
  BY <1>1, Zenon DEF Check, Rest, Goto, Crosses, TypeFlags
<1>2. ASSUME NEW t \in Threads, Copy(t)
      PROVE  TypeFlags'
  BY <1>2, Zenon DEF Copy, Rest, Goto, Crosses, TypeFlags
<1>3. ASSUME NEW t \in Threads, Release(t)
      PROVE  TypeFlags'
  BY <1>3, Zenon DEF Release, Rest, Goto, Released, Crosses, TypeFlags
<1>4. ASSUME NEW t \in Threads, Acquire(t)
      PROVE  TypeFlags'
  BY <1>4, Zenon DEF Acquire, Rest, Goto, Crosses, TypeFlags
<1>5. ASSUME NEW t \in Threads, Record(t)
      PROVE  TypeFlags'
  BY <1>5, Zenon DEF Record, Rest, Goto, Crosses, TypeFlags
<1>6. ASSUME NEW t \in Threads, Settle(t)
      PROVE  TypeFlags'
  BY <1>6, Zenon DEF Settle, Rest, Goto, Crosses, TypeFlags
<1>7. ASSUME NEW t \in Threads, Put(t)
      PROVE  TypeFlags'
  BY <1>7, Zenon DEF Put, Rest, Goto, Crosses, TypeFlags
<1>8. ASSUME NEW t \in Threads, CallFails(t)
      PROVE  TypeFlags'
  BY <1>8, Zenon DEF CallFails, Crosses, Goto, TypeFlags
<1>9. ASSUME NEW t \in Threads, NoAddress(t)
      PROVE  TypeFlags'
  BY <1>9, Zenon DEF NoAddress, Goto, Done, TypeFlags
<1>10. CASE Begin
  BY <1>10, Zenon DEF Begin, Main, Goto, Call, TypeFlags
<1>11. CASE AskFails
  <2>1. missed' = missed \/ missed' = (missed \/ loaded # config)
    BY <1>11, Zenon DEF AskFails, Misses
  <2>2. UNCHANGED <<flag, event, writing, crossed, losses>>
    BY <1>11, Zenon DEF AskFails, Screen
  <2> QED BY <2>1, <2>2, Zenon DEF TypeFlags
<1>12. CASE GiveUp
  BY <1>12, Zenon DEF GiveUp, Main, Gone, TypeFlags
<1>13. CASE Leave
  BY <1>13, Zenon DEF Leave, Gone, TypeFlags
<1>14. CASE Crash
  BY <1>14, Zenon DEF Crash, Gone, TypeFlags
<1>15. CASE Exchange
  BY <1>15, Zenon DEF Exchange, Screen, Main, Goto, TypeFlags
<1>16. CASE Wake
  BY <1>16, Zenon DEF Wake, Screen, Main, Goto, TypeFlags
<1>17. CASE Fetch
  BY <1>17, Zenon DEF Fetch, Main, Goto, Call, TypeFlags
<1>18. CASE Terminate
  BY <1>18, Zenon DEF Terminate, Goto, Call, TypeFlags
<1>19. CASE TerminateLocked
  BY <1>19, Zenon DEF TerminateLocked, Main, Goto, TypeFlags
<1>20. CASE Request
  BY <1>20, Zenon DEF Request, Screen, TypeFlags
<1>21. CASE WriteEvent
  BY <1>21, Zenon DEF WriteEvent, Screen, TypeFlags
<1>22. CASE PingStarts
  BY <1>22, Zenon DEF PingStarts, TypeFlags
<1>23. CASE PingSends
  BY <1>23, Zenon DEF PingSends, Crosses, TypeFlags
<1>24. CASE Expire
  BY <1>24, Zenon DEF Expire, TypeFlags
<1>25. CASE OwnerEnds
  BY <1>25, Zenon DEF OwnerEnds, TypeFlags
<1>26. ASSUME NEW t \in Threads, Assign(t)
      PROVE  TypeFlags'
  BY <1>26, Zenon DEF Assign, Goto, Done, TypeFlags
<1>27. CASE Load
  BY <1>27, Zenon DEF Load, Screen, TypeFlags
<1>28. CASE PingFails
  BY <1>28, Zenon DEF PingFails, Crosses, TypeFlags
<1>29. CASE NotifyFails
  BY <1>29, Zenon DEF NotifyFails, Misses, Screen, TypeFlags
<1>30. CASE UNCHANGED <<flag, event, writing, crossed, losses, missed>>
  BY <1>30, Zenon DEF TypeFlags
<1> QED
  BY ZenonT(30), NextCases, <1>1, <1>2, <1>3, <1>4, <1>5, <1>6, <1>7, <1>8,
     <1>9, <1>10, <1>11, <1>12, <1>13, <1>14, <1>15, <1>16, <1>17, <1>18,
     <1>19, <1>20, <1>21, <1>22, <1>23, <1>24, <1>25, <1>26, <1>27, <1>28,
     <1>29, <1>30 DEF ThreadStep, MainStep, OtherStep, SwitchNothing, Screen,
     Done, SwitchState, Call, Address, Connect, ConnectFails, Listen,
     ListenFails, GetCurrentState, Ask, Exec, Signal, NetworkChanges,
     Configure, Configured, ConfigureWifi, Notify

\* init tries again only while there are tries left.
LEMMA BeginsAgain ==
  ASSUME TypeOK, NEW t \in Threads, NEW ok \in BOOLEAN, AfterSwitch(t, ok) = "begin"
  PROVE  tries <= MaxRetries
<1>1. tries \in Nat /\ job[t] \in Jobs
  BY DEF TypeOK, TypeCounts, TypeThreads
<1> QED BY <1>1 DEF AfterSwitch, Jobs

\* Where a thread goes when a call fails.
LEMMA FailedCall ==
  ASSUME TypeOK, NEW t \in Threads, CallFails(t)
  PROVE  \E l \in Steps \ {"listen", "connect", "exited", "stopped", "release"} :
           /\ Goto(t, l)
           /\ l = "acquire" => want[t] # "RELEASE" /\ want' = want
           /\ l = "begin" => tries <= MaxRetries
<1>1. CASE pc[t] = "release"
  <2>1. \E l \in {"record", "acquire"} : Goto(t, l) /\ (l = "acquire" => want[t] # "RELEASE")
    BY <1>1 DEF CallFails, Released
  <2>2. want' = want
    BY <1>1 DEF CallFails, TypeOK, TypeThreads
  <2> QED BY <2>1, <2>2 DEF Steps, ScreenSteps
<1>2. CASE pc[t] = "acquire"
  <2>1. Goto(t, AfterSwitch(t, FALSE))
    BY <1>2 DEF CallFails
  <2> QED BY <2>1, ReturnsAreTyped, BeginsAgain DEF TypeOK
<1>3. CASE pc[t] = "put"
  <2>1. Goto(t, AfterPut(t))
    BY <1>3 DEF CallFails
  <2> QED BY <2>1, ReturnsAreTyped DEF TypeOK
<1> QED BY <1>1, <1>2, <1>3 DEF CallFails

\* A notification is of a form that was applied, and is there until its request is complete.
LEMMA FormsKept ==
  ASSUME IInv, Next
  PROVE  FormsAreOnce'
<1> USE DEF IInv, TypeOK, owner, network, server, update, local, asking, ping,
   marks, losses
<1>1. CASE GiveUp \/ Leave \/ Crash
  BY <1>1 DEF GiveUp, Main, Gone, Leave, Crash, TypeCounts, FormsAreOnce
<1>2. CASE Request
  BY <1>2 DEF Request, Screen, FormsAreOnce
<1>3. CASE WriteEvent
  BY <1>3 DEF WriteEvent, Screen, TypeCounts, FormsAreOnce
<1>4. CASE Configure \/ Configured \/ ConfigureWifi \/ Notify \/ NotifyFails
  BY <1>4 DEF Configure, Configured, ConfigureWifi, Notify, NotifyFails,
     Screen, TypeCounts, TypeShared, FormsAreOnce
<1>5. CASE UNCHANGED <<config, serving, submits, notices, writing>>
  BY <1>5 DEF FormsAreOnce
<1> QED
  BY ZenonT(30), NextCases, <1>1, <1>2, <1>3, <1>4, <1>5 DEF ThreadStep,
     MainStep, OtherStep, Check, Rest, Copy, Release, Released, Acquire,
     Record, Settle, Put, CallFails, SwitchNothing, Screen, Done, SwitchState,
     Call, Address, NoAddress, Assign, Connect, ConnectFails, Listen,
     ListenFails, Begin, GetCurrentState, Ask, AskFails, Load, Wake, Exchange,
     Exec, Fetch, Terminate, TerminateLocked, Signal, PingStarts, PingSends,
     PingFails, NetworkChanges, Expire, OwnerEnds

\* A loop is entered with a counter that was reset, or left.
LEMMA TriesKept ==
  ASSUME IInv, Next
  PROVE  TriesLeft'
<1> USE DEF IInv, TypeOK, owner, network, server, update, local, asking, ping,
   marks, losses
<1>1. ASSUME NEW t \in Threads, Check(t) \/ Settle(t)
      PROVE  TriesLeft'
  BY <1>1 DEF Check, Rest, Goto, Settle, TypeThreads, AfterSwitch, Threads,
     Jobs, TriesLeft
<1>2. ASSUME NEW t \in Threads, Copy(t)
      PROVE  TriesLeft'
  BY <1>2 DEF Copy, Rest, Goto, TypeThreads, Threads, TriesLeft
<1>3. ASSUME NEW t \in Threads, Release(t) \/ Record(t)
      PROVE  TriesLeft'
  BY <1>3 DEF Release, Rest, Goto, Released, Record, TypeThreads, Threads,
     TriesLeft
<1>4. ASSUME NEW t \in Threads, Acquire(t)
      PROVE  TriesLeft'
  <2>1. pc' = pc \/ \E l \in {"record", AfterSwitch(t, FALSE)} : Goto(t, l)
    BY <1>4 DEF Acquire
  <2>2. tries' = tries
    BY <1>4 DEF Acquire, Rest
  <2> QED
    BY <2>1, <2>2, ReturnsAreTyped, BeginsAgain DEF Goto, TypeThreads,
       TriesLeft, Threads
<1>5. ASSUME NEW t \in Threads, Put(t)
      PROVE  TriesLeft'
  BY <1>5, ReturnsAreTyped DEF Put, Rest, Goto, TypeThreads, Threads, TriesLeft
<1>6. ASSUME NEW t \in Threads, CallFails(t)
      PROVE  TriesLeft'
  <2>1. PICK l \in Steps \ {"listen", "connect", "exited", "stopped", "release"} :
          Goto(t, l) /\ (l = "acquire" => want[t] # "RELEASE" /\ want' = want)
                     /\ (l = "begin" => tries <= MaxRetries)
    BY <1>6, FailedCall
  <2>2. tries' = tries
    BY <1>6 DEF CallFails
  <2> QED BY <2>1, <2>2 DEF Goto, TypeThreads, TriesLeft, Threads
<1>7. ASSUME NEW t \in Threads, SwitchNothing(t) \/ NoAddress(t) \/ Assign(t)
      PROVE  TriesLeft'
  BY <1>7 DEF SwitchNothing, Screen, Goto, Done, NoAddress, Assign,
     TypeThreads, Threads, TriesLeft
<1>8. ASSUME NEW t \in Threads, SwitchState(t) \/ Address(t)
      PROVE  TriesLeft'
  BY <1>8 DEF SwitchState, Screen, Goto, Call, Address, TypeThreads, Threads,
     TriesLeft
<1>9. CASE Connect \/ ConnectFails
  BY <1>9 DEF Connect, Screen, Main, Goto, ConnectFails, TypeThreads, Threads,
     TriesLeft
<1>10. CASE Listen
  BY <1>10 DEF Listen, Screen, Main, Goto, TypeThreads, Threads, TooLate,
     TriesLeft
<1>11. CASE ListenFails
  BY <1>11 DEF ListenFails, Screen, Main, Goto, TypeThreads, Threads, TooLate,
     TypeCounts, TriesLeft
<1>12. CASE Begin
  BY <1>12 DEF Begin, Main, Goto, Call, TypeThreads, Threads, TriesLeft
<1>13. CASE GiveUp \/ Leave \/ Crash
  BY <1>13 DEF GiveUp, Main, Gone, Leave, Crash, TriesLeft
<1>14. CASE GetCurrentState \/ Ask
  BY <1>14 DEF GetCurrentState, Screen, Main, Goto, Ask, TypeThreads, Threads,
     TriesLeft
<1>15. CASE AskFails
  BY <1>15 DEF AskFails, Main, Goto, TypeThreads, Threads, TriesLeft
<1>16. CASE Load \/ Wake \/ Exchange \/ Exec
  BY <1>16 DEF Load, Screen, Main, Goto, Wake, Exchange, Exec, TypeThreads,
     Threads, TriesLeft
<1>17. CASE Fetch
  BY <1>17 DEF Fetch, Main, Goto, Call, TypeThreads, Threads, TriesLeft
<1>18. CASE Terminate \/ TerminateLocked
  BY <1>18 DEF Terminate, Goto, Call, TerminateLocked, Main, TypeThreads,
     Threads, TriesLeft
<1>19. CASE Signal
  BY <1>19 DEF Signal, Screen, Goto, TypeThreads, Threads, TriesLeft
<1>20. CASE OwnerEnds
  BY <1>20, ReturnsAreTyped DEF OwnerEnds, TypeThreads, Threads, Resume,
     TriesLeft
<1>21. CASE UNCHANGED <<pc, tries>>
  BY <1>21 DEF TriesLeft
<1> QED
  BY ZenonT(30), NextCases, <1>1, <1>2, <1>3, <1>4, <1>5, <1>6, <1>7, <1>8,
     <1>9, <1>10, <1>11, <1>12, <1>13, <1>14, <1>15, <1>16, <1>17, <1>18,
     <1>19, <1>20, <1>21 DEF ThreadStep, MainStep, OtherStep, Request, Screen,
     WriteEvent, PingStarts, PingSends, PingFails, NetworkChanges, Configure,
     Configured, ConfigureWifi, Notify, NotifyFails, Expire

\* A component is given back or taken only when there is one.
LEMMA CallsKept ==
  ASSUME IInv, Next
  PROVE  CallsAreTyped'
<1> USE DEF IInv, TypeOK, owner, network, server, update, local, asking, ping,
   marks, losses
<1>1. ASSUME NEW t \in Threads, Check(t) \/ Settle(t)
      PROVE  CallsAreTyped'
  BY <1>1, ReturnsAreTyped DEF Check, Rest, Goto, Settle, TypeThreads,
     CallsAreTyped
<1>2. ASSUME NEW t \in Threads, Copy(t)
      PROVE  CallsAreTyped'
  BY <1>2 DEF Copy, Rest, Goto, TypeThreads, CallsAreTyped
<1>3. ASSUME NEW t \in Threads, Release(t)
      PROVE  CallsAreTyped'
  BY <1>3 DEF Release, Rest, Goto, Released, TypeThreads, CallsAreTyped
<1>4. ASSUME NEW t \in Threads, Acquire(t)
      PROVE  CallsAreTyped'
  BY <1>4, ReturnsAreTyped DEF Acquire, Rest, Goto, TypeThreads, CallsAreTyped
<1>5. ASSUME NEW t \in Threads, Record(t)
      PROVE  CallsAreTyped'
  BY <1>5 DEF Record, Rest, Goto, TypeThreads, CallsAreTyped
<1>6. ASSUME NEW t \in Threads, Put(t)
      PROVE  CallsAreTyped'
  BY <1>6, ReturnsAreTyped DEF Put, Rest, Goto, TypeThreads, WantAfterPut,
     CallsAreTyped
<1>7. ASSUME NEW t \in Threads, CallFails(t)
      PROVE  CallsAreTyped'
  <2>1. PICK l \in Steps \ {"listen", "connect", "exited", "stopped", "release"} :
          Goto(t, l) /\ (l = "acquire" => want[t] # "RELEASE" /\ want' = want)
                     /\ (l = "begin" => tries <= MaxRetries)
    BY <1>7, FailedCall
  <2>2. job' = job /\ \A u \in Threads \ {t} : want'[u] = want[u] /\ had'[u] = had[u]
    BY <1>7 DEF CallFails, Released, TypeThreads
  <2>3. job[t] = "report" => want'[t] # "RELEASE"
    BY <1>7 DEF CallFails, TypeThreads, CallsAreTyped, WantAfterPut
  <2> QED BY <2>1, <2>2, <2>3 DEF Goto, TypeThreads, CallsAreTyped
<1>8. ASSUME NEW t \in Threads, SwitchNothing(t) \/ NoAddress(t) \/ Assign(t)
      PROVE  CallsAreTyped'
  BY <1>8 DEF SwitchNothing, Screen, Goto, Done, NoAddress, Assign,
     TypeThreads, CallsAreTyped
<1>9. ASSUME NEW t \in Threads, SwitchState(t)
      PROVE  CallsAreTyped'
  BY <1>9 DEF SwitchState, Screen, Goto, Call, TypeThreads, CallsAreTyped
<1>10. ASSUME NEW t \in Threads, Address(t)
      PROVE  CallsAreTyped'
  BY <1>10 DEF Address, Screen, Goto, TypeThreads, CallsAreTyped
<1>11. CASE Connect \/ ConnectFails
  BY <1>11 DEF Connect, Screen, Main, Goto, ConnectFails, TypeThreads,
     CallsAreTyped
<1>12. CASE Listen \/ ListenFails
  BY <1>12 DEF Listen, Screen, Main, Goto, ListenFails, TypeThreads,
     CallsAreTyped
<1>13. CASE Begin
  BY <1>13 DEF Begin, Main, Goto, Call, TypeThreads, CallsAreTyped
<1>14. CASE GiveUp \/ Leave \/ Crash
  <2>1. \E l \in {"exited", "stopped"} :
          pc' = [pc EXCEPT !["main"] = l, !["net"] = "off"]
    BY <1>14 DEF GiveUp, Leave, Crash, Gone
  <2>2. job' = [t \in Threads |-> "mode"]
    BY <1>14 DEF GiveUp, Leave, Crash, Gone
  <2> QED BY <2>1, <2>2 DEF CallsAreTyped, TypeThreads, Threads
<1>15. CASE GetCurrentState \/ Ask \/ AskFails
  BY <1>15 DEF GetCurrentState, Screen, Main, Goto, Ask, AskFails, TypeThreads,
     CallsAreTyped
<1>16. CASE Load \/ Wake \/ Exchange \/ Exec
  BY <1>16 DEF Load, Screen, Main, Goto, Wake, Exchange, Exec, TypeThreads,
     CallsAreTyped
<1>17. CASE Fetch
  BY <1>17 DEF Fetch, Main, Goto, Call, TypeThreads, Fetched, CallsAreTyped
<1>18. CASE Terminate \/ TerminateLocked
  BY <1>18 DEF Terminate, Goto, Call, TerminateLocked, Main, TypeThreads,
     CallsAreTyped
<1>19. CASE Signal
  BY <1>19 DEF Signal, Screen, Goto, TypeThreads, CallsAreTyped
<1>20. CASE OwnerEnds
  BY <1>20, ReturnsAreTyped DEF OwnerEnds, TypeThreads, Resume,
     WantAfterPut, CallsAreTyped
<1>21. CASE UNCHANGED <<pc, want, had, job>>
  BY <1>21 DEF CallsAreTyped
<1> QED
  BY ZenonT(30), NextCases, <1>1, <1>2, <1>3, <1>4, <1>5, <1>6, <1>7, <1>8,
     <1>9, <1>10, <1>11, <1>12, <1>13, <1>14, <1>15, <1>16, <1>17, <1>18,
     <1>19, <1>20, <1>21 DEF ThreadStep, MainStep, OtherStep, Request, Screen,
     WriteEvent, PingStarts, PingSends, PingFails, NetworkChanges, Configure,
     Configured, ConfigureWifi, Notify, NotifyFails, Expire

----------------------------------------------------------------------------
(* Updates *)

\* A thread whose call is dropped stays where it is.
LEMMA RefusedKept ==
  ASSUME IInv, Next
  PROVE  RefusedCalls'
<1> USE DEF IInv, TypeOK, owner, network, server, update, local, asking, ping,
   marks, losses
<1>1. ASSUME NEW t \in Threads, Check(t) \/ Settle(t)
      PROVE  RefusedCalls'
  BY <1>1, ReturnsAreTyped DEF Check, Rest, Goto, Settle, TypeThreads, Threads,
     Live, RefusedCalls
<1>2. ASSUME NEW t \in Threads, Copy(t) \/ Record(t)
      PROVE  RefusedCalls'
  BY <1>2 DEF Copy, Rest, Goto, Record, TypeThreads, Threads, Live,
     RefusedCalls
<1>3. ASSUME NEW t \in Threads, Release(t)
      PROVE  RefusedCalls'
  BY <1>3 DEF Release, Rest, Goto, Released, TypeThreads, Threads, Live,
     Refused, RefusedCalls
<1>4. ASSUME NEW t \in Threads, Acquire(t)
      PROVE  RefusedCalls'
  <2>1. CASE refused' = refused \cup {t} /\ pc' = pc
    BY <1>4, <2>1 DEF Acquire, RefusedCalls
  <2>2. CASE refused' = refused /\ \E l : Goto(t, l)
    BY <1>4, <2>2 DEF Acquire, Live, Goto, TypeThreads, RefusedCalls
  <2> QED BY <1>4, <2>1, <2>2 DEF Acquire, Refused
<1>5. ASSUME NEW t \in Threads, Put(t)
      PROVE  RefusedCalls'
  BY <1>5 DEF Put, Rest, Goto, TypeThreads, Threads, Live, Refused,
     RefusedCalls
<1>6. ASSUME NEW t \in Threads, CallFails(t)
      PROVE  RefusedCalls'
  BY <1>6 DEF CallFails, Goto, Released, TypeThreads, Threads, Live,
     RefusedCalls
<1>7. ASSUME NEW t \in Threads, SwitchNothing(t) \/ NoAddress(t) \/ Assign(t)
      PROVE  RefusedCalls'
  BY <1>7 DEF SwitchNothing, Screen, Goto, Done, NoAddress, Assign,
     TypeThreads, Threads, RefusedCalls
<1>8. ASSUME NEW t \in Threads, SwitchState(t)
      PROVE  RefusedCalls'
  BY <1>8 DEF SwitchState, Screen, Goto, Call, TypeThreads, Threads,
     RefusedCalls
<1>9. ASSUME NEW t \in Threads, Address(t)
      PROVE  RefusedCalls'
  BY <1>9 DEF Address, Screen, Goto, TypeThreads, Threads, RefusedCalls
<1>10. CASE Connect \/ ConnectFails
  BY <1>10 DEF Connect, Screen, Main, Goto, ConnectFails, TypeThreads, Threads,
     Live, RefusedCalls
<1>11. CASE Listen
  BY <1>11 DEF Listen, Screen, Main, Goto, TypeThreads, Threads, Live, NetOff,
     RefusedCalls
<1>12. CASE ListenFails
  BY <1>12 DEF ListenFails, Screen, Main, Goto, TypeThreads, Threads, Live,
     RefusedCalls
<1>13. CASE Begin
  BY <1>13 DEF Begin, Main, Goto, Call, TypeThreads, Threads, Live,
     RefusedCalls
<1>14. CASE GiveUp \/ Leave \/ Crash
  BY <1>14 DEF GiveUp, Main, Gone, Leave, Crash, RefusedCalls
<1>15. CASE GetCurrentState \/ Ask \/ AskFails
  BY <1>15 DEF GetCurrentState, Screen, Main, Goto, Ask, AskFails, TypeThreads,
     Threads, Live, RefusedCalls
<1>16. CASE Load \/ Wake \/ Exchange \/ Exec
  BY <1>16 DEF Load, Screen, Main, Goto, Wake, Exchange, Exec, TypeThreads,
     Threads, Live, RefusedCalls
<1>17. CASE Fetch
  BY <1>17 DEF Fetch, Main, Goto, Call, TypeThreads, Threads, Live,
     RefusedCalls
<1>18. CASE Terminate \/ TerminateLocked
  BY <1>18 DEF Terminate, Goto, Call, TerminateLocked, Main, TypeThreads,
     Threads, Live, RefusedCalls
<1>19. CASE Signal
  BY <1>19 DEF Signal, Screen, Goto, TypeThreads, Threads, RefusedCalls
<1>20. CASE PingSends
  BY <1>20 DEF PingSends, TypeThreads, Threads, Refused, RefusedCalls
<1>21. CASE OwnerEnds
  BY <1>21 DEF OwnerEnds, RefusedCalls
<1>22. CASE PingFails
  BY <1>22 DEF PingFails, RefusedCalls
<1>23. CASE UNCHANGED <<pc, refused>>
  BY <1>23 DEF RefusedCalls
<1> QED
  BY ZenonT(30), NextCases, <1>1, <1>2, <1>3, <1>4, <1>5, <1>6, <1>7, <1>8,
     <1>9, <1>10, <1>11, <1>12, <1>13, <1>14, <1>15, <1>16, <1>17, <1>18,
     <1>19, <1>20, <1>21, <1>22, <1>23 DEF ThreadStep, MainStep, OtherStep,
     Request, Screen, WriteEvent, PingStarts, NetworkChanges, Configure,
     Configured, ConfigureWifi, Notify, NotifyFails, Expire

\* The listener starts with the end of its loop in init.
LEMMA NetOffKept ==
  ASSUME IInv, Next
  PROVE  NetOff'
<1> USE DEF IInv, TypeOK, owner, network, server, update, local, asking, ping,
   marks, losses
<1>1. ASSUME NEW t \in Threads, Check(t) \/ Settle(t)
      PROVE  NetOff'
  BY <1>1, ReturnsAreTyped DEF Check, Rest, Goto, Settle, TypeThreads, Threads,
     NetOff
<1>2. ASSUME NEW t \in Threads, Copy(t) \/ Record(t)
      PROVE  NetOff'
  BY <1>2 DEF Copy, Rest, Goto, Record, TypeThreads, Threads, NetOff
<1>3. ASSUME NEW t \in Threads, Release(t)
      PROVE  NetOff'
  BY <1>3 DEF Release, Rest, Goto, Released, TypeThreads, Threads, NetOff
<1>4. ASSUME NEW t \in Threads, Acquire(t)
      PROVE  NetOff'
  BY <1>4, ReturnsAreTyped DEF Acquire, Rest, Goto, TypeThreads, Threads,
     NetOff
<1>5. ASSUME NEW t \in Threads, Put(t)
      PROVE  NetOff'
  BY <1>5, ReturnsAreTyped DEF Put, Rest, Goto, TypeThreads, Threads, NetOff
<1>6. ASSUME NEW t \in Threads, CallFails(t)
      PROVE  NetOff'
  <2>1. PICK l \in Steps \ {"listen", "connect", "exited", "stopped", "release"} : Goto(t, l)
    BY <1>6, FailedCall
  <2>2. pc[t] # "off"
    BY <1>6 DEF CallFails
  <2> QED BY <2>1, <2>2 DEF Goto, TypeThreads, Threads, NetOff
<1>7. ASSUME NEW t \in Threads, SwitchNothing(t) \/ NoAddress(t) \/ Assign(t)
      PROVE  NetOff'
  BY <1>7 DEF SwitchNothing, Screen, Goto, Done, NoAddress, Assign,
     TypeThreads, Threads, NetOff
<1>8. ASSUME NEW t \in Threads, SwitchState(t)
      PROVE  NetOff'
  BY <1>8 DEF SwitchState, Screen, Goto, Call, TypeThreads, Threads, NetOff
<1>9. ASSUME NEW t \in Threads, Address(t)
      PROVE  NetOff'
  BY <1>9 DEF Address, Screen, Goto, TypeThreads, Threads, NetOff
<1>10. CASE Connect \/ ConnectFails
  BY <1>10 DEF Connect, Screen, Main, Goto, ConnectFails, TypeThreads, Threads,
     NetOff
<1>11. CASE Listen
  BY <1>11 DEF Listen, Screen, Main, Goto, TypeThreads, Threads, TooLate,
     NetOff
<1>12. CASE ListenFails
  BY <1>12 DEF ListenFails, Screen, Main, Goto, TypeThreads, Threads, NetOff
<1>13. CASE Begin
  BY <1>13 DEF Begin, Main, Goto, Call, TypeThreads, Threads, NetOff
<1>14. CASE GiveUp \/ Leave \/ Crash
  BY <1>14 DEF GiveUp, Main, Gone, Leave, Crash, TypeThreads, Threads, NetOff
<1>15. CASE GetCurrentState \/ Ask \/ AskFails
  BY <1>15 DEF GetCurrentState, Screen, Main, Goto, Ask, AskFails, TypeThreads,
     Threads, NetOff
<1>16. CASE Load \/ Wake \/ Exchange \/ Exec
  BY <1>16 DEF Load, Screen, Main, Goto, Wake, Exchange, Exec, TypeThreads,
     Threads, NetOff
<1>17. CASE Fetch
  BY <1>17 DEF Fetch, Main, Goto, Call, TypeThreads, Threads, NetOff
<1>18. CASE Terminate \/ TerminateLocked
  BY <1>18 DEF Terminate, Goto, Call, TerminateLocked, Main, TypeThreads,
     Threads, NetOff
<1>19. CASE Signal
  BY <1>19 DEF Signal, Screen, Goto, TypeThreads, Threads, NetOff
<1>20. CASE OwnerEnds
  BY <1>20, ReturnsAreTyped DEF OwnerEnds, TypeThreads, Threads, Resume,
     RefusedCalls, NetOff
<1>21. CASE UNCHANGED <<pc>>
  BY <1>21 DEF NetOff
<1> QED
  BY ZenonT(30), NextCases, <1>1, <1>2, <1>3, <1>4, <1>5, <1>6, <1>7, <1>8,
     <1>9, <1>10, <1>11, <1>12, <1>13, <1>14, <1>15, <1>16, <1>17, <1>18,
     <1>19, <1>20, <1>21 DEF ThreadStep, MainStep, OtherStep, Request, Screen,
     WriteEvent, PingStarts, PingSends, PingFails, NetworkChanges, Configure,
     Configured, ConfigureWifi, Notify, NotifyFails, Expire

\* The last words, the release and the end follow each other.
LEMMA ExitPathKept ==
  ASSUME IInv, Next
  PROVE  ExitPath'
<1> USE DEF IInv, TypeOK, owner, network, server, update, local, asking, ping,
   marks, losses
<1>1. ASSUME NEW t \in Threads, Check(t) \/ Settle(t)
      PROVE  ExitPath'
  BY <1>1 DEF Check, Rest, Goto, Settle, ScreenSteps, TypeThreads, Threads,
     AfterSwitch, ExitPath
<1>2. ASSUME NEW t \in Threads, Copy(t) \/ Record(t)
      PROVE  ExitPath'
  BY <1>2 DEF Copy, Rest, Goto, Record, ScreenSteps, TypeThreads, Threads,
     ExitPath
<1>3. ASSUME NEW t \in Threads, Release(t)
      PROVE  ExitPath'
  BY <1>3 DEF Release, Rest, Goto, Released, ScreenSteps, TypeThreads, Threads,
     ExitPath
<1>4. ASSUME NEW t \in Threads, Acquire(t)
      PROVE  ExitPath'
  BY <1>4 DEF Acquire, Rest, Goto, ScreenSteps, TypeThreads, Threads,
     AfterSwitch, ExitPath
<1>5. ASSUME NEW t \in Threads, Put(t)
      PROVE  ExitPath'
  BY <1>5 DEF Put, Rest, Goto, ScreenSteps, TypeThreads, Threads, AfterPut,
     ExitPath
<1>6. ASSUME NEW t \in Threads, CallFails(t)
      PROVE  ExitPath'
  BY <1>6 DEF CallFails, Goto, Released, ScreenSteps, TypeThreads, Threads,
     AfterSwitch, AfterPut, ExitPath
<1>7. ASSUME NEW t \in Threads, SwitchNothing(t) \/ NoAddress(t) \/ Assign(t)
      PROVE  ExitPath'
  BY <1>7 DEF SwitchNothing, Screen, Goto, Done, NoAddress, Assign,
     ScreenSteps, TypeThreads, Threads, ExitPath
<1>8. ASSUME NEW t \in Threads, SwitchState(t)
      PROVE  ExitPath'
  BY <1>8 DEF SwitchState, Screen, Goto, Call, ScreenSteps, TypeThreads,
     Threads, ExitPath
<1>9. ASSUME NEW t \in Threads, Address(t)
      PROVE  ExitPath'
  BY <1>9 DEF Address, Screen, Goto, ScreenSteps, TypeThreads, Threads,
     ExitPath
<1>10. CASE Connect \/ ConnectFails
  BY <1>10 DEF Connect, Screen, Main, Goto, ConnectFails, ScreenSteps,
     TypeThreads, Threads, ExitPath
<1>11. CASE Listen
  BY <1>11 DEF Listen, Screen, Main, Goto, ScreenSteps, TypeThreads, Threads,
     ExitPath
<1>12. CASE ListenFails
  BY <1>12 DEF ListenFails, Screen, Main, Goto, ScreenSteps, TypeThreads,
     Threads, ExitPath
<1>13. CASE Begin
  BY <1>13 DEF Begin, Main, Goto, Call, ScreenSteps, TypeThreads, Threads,
     ExitPath
<1>14. CASE GiveUp \/ Leave \/ Crash
  BY <1>14 DEF GiveUp, Main, Gone, Leave, Crash, ScreenSteps, TypeThreads,
     Threads, ExitPath
<1>15. CASE GetCurrentState \/ Ask \/ AskFails
  BY <1>15 DEF GetCurrentState, Screen, Main, Goto, Ask, AskFails, ScreenSteps,
     TypeThreads, Threads, ExitPath
<1>16. CASE Load \/ Wake \/ Exchange \/ Exec
  BY <1>16 DEF Load, Screen, Main, Goto, Wake, Exchange, Exec, ScreenSteps,
     TypeThreads, Threads, ExitPath
<1>17. CASE Fetch
  BY <1>17 DEF Fetch, Main, Goto, Call, ScreenSteps, TypeThreads, Threads,
     ExitPath
<1>18. CASE Terminate \/ TerminateLocked
  BY <1>18 DEF Terminate, Goto, Call, TerminateLocked, Main, ScreenSteps,
     TypeThreads, Threads, ExitPath
<1>19. CASE Signal
  BY <1>19 DEF Signal, Screen, Goto, ScreenSteps, TypeThreads, Threads,
     ExitPath
<1>20. CASE OwnerEnds
  BY <1>20, ReturnsAreTyped DEF OwnerEnds, ScreenSteps, TypeThreads,
     Threads, Resume, AfterPut, ExitPath
<1>21. CASE UNCHANGED <<pc, job>>
  BY <1>21 DEF ExitPath
<1> QED
  BY ZenonT(30), NextCases, <1>1, <1>2, <1>3, <1>4, <1>5, <1>6, <1>7, <1>8,
     <1>9, <1>10, <1>11, <1>12, <1>13, <1>14, <1>15, <1>16, <1>17, <1>18,
     <1>19, <1>20, <1>21 DEF ThreadStep, MainStep, OtherStep, Request, Screen,
     WriteEvent, PingStarts, PingSends, PingFails, NetworkChanges, Configure,
     Configured, ConfigureWifi, Notify, NotifyFails, Expire

\* The event is written after the flag, and read before it.
LEMMA UpdateWakesKept ==
  ASSUME IInv, Next
  PROVE  UpdateWakes'
<1> USE DEF IInv, TypeOK, owner, network, server, update, local, asking, ping,
   marks, losses
<1>1. ASSUME NEW t \in Threads, Check(t) \/ Copy(t) \/ Release(t) \/ Acquire(t) \/ Record(t) \/ Settle(t) \/ Put(t)
      PROVE  UpdateWakes'
  BY <1>1 DEF Check, Rest, Goto, Copy, Release, Released, Acquire, Record,
     Settle, Put, TypeThreads, Threads, UpdateWakes
<1>2. ASSUME NEW t \in Threads, CallFails(t)
      PROVE  UpdateWakes'
  BY <1>2 DEF CallFails, Goto, Released, TypeThreads, Threads, UpdateWakes
<1>3. ASSUME NEW t \in Threads, SwitchNothing(t) \/ NoAddress(t) \/ Assign(t)
      PROVE  UpdateWakes'
  BY <1>3 DEF SwitchNothing, Screen, Goto, Done, NoAddress, Assign,
     TypeThreads, Threads, ExitPath, ScreenSteps, UpdateWakes
<1>4. ASSUME NEW t \in Threads, SwitchState(t)
      PROVE  UpdateWakes'
  BY <1>4 DEF SwitchState, Screen, Goto, Call, TypeThreads, Threads, ExitPath,
     ScreenSteps, UpdateWakes
<1>5. ASSUME NEW t \in Threads, Address(t)
      PROVE  UpdateWakes'
  BY <1>5 DEF Address, Screen, Goto, TypeThreads, Threads, UpdateWakes
<1>6. CASE Connect \/ ConnectFails
  BY <1>6 DEF Connect, Screen, Main, Goto, ConnectFails, TypeThreads, Threads,
     UpdateWakes
<1>7. CASE Listen
  BY <1>7 DEF Listen, Screen, Main, Goto, TypeThreads, Threads, UpdateWakes
<1>8. CASE ListenFails
  BY <1>8 DEF ListenFails, Screen, Main, Goto, TypeThreads, Threads,
     UpdateWakes
<1>9. CASE Begin
  BY <1>9 DEF Begin, Main, Goto, Call, TypeThreads, Threads, ExitPath,
     ScreenSteps, UpdateWakes
<1>10. CASE GiveUp \/ Leave \/ Crash
  BY <1>10 DEF GiveUp, Main, Gone, Leave, Crash, UpdateWakes
<1>11. CASE GetCurrentState \/ Ask \/ AskFails
  BY <1>11 DEF GetCurrentState, Screen, Main, Goto, Ask, AskFails, TypeThreads,
     Threads, UpdateWakes
<1>12. CASE Load
  BY <1>12 DEF Load, Screen, Main, Goto, TypeThreads, Threads, UpdateWakes
<1>13. CASE Wake
  BY <1>13 DEF Wake, Screen, Main, Goto, TypeThreads, Threads, UpdateWakes
<1>14. CASE Exchange
  BY <1>14 DEF Exchange, Screen, Main, Goto, TypeThreads, Threads, UpdateWakes
<1>15. CASE Exec
  BY <1>15 DEF Exec, Screen, Main, Goto, TypeThreads, Threads, UpdateWakes
<1>16. CASE Fetch
  BY <1>16 DEF Fetch, Main, Goto, Call, TypeThreads, Threads, ExitPath,
     ScreenSteps, UpdateWakes
<1>17. CASE Terminate
  BY <1>17 DEF Terminate, Goto, Call, TypeThreads, Threads, UpdateWakes
<1>18. CASE TerminateLocked
  BY <1>18 DEF TerminateLocked, Main, Goto, TypeThreads, Threads, UpdateWakes
<1>19. CASE Signal
  BY <1>19 DEF Signal, Screen, Goto, TypeThreads, Threads, UpdateWakes
<1>20. CASE Request
  BY <1>20 DEF Request, Screen, UpdateWakes
<1>21. CASE WriteEvent
  BY <1>21 DEF WriteEvent, Screen, UpdateWakes
<1>22. CASE OwnerEnds
  BY <1>22 DEF OwnerEnds, TypeThreads, Threads, RefusedCalls, UpdateWakes
<1>23. CASE UNCHANGED <<flag, writing, event, pc, job>>
  BY <1>23 DEF UpdateWakes
<1> QED
  BY ZenonT(30), NextCases, <1>1, <1>2, <1>3, <1>4, <1>5, <1>6, <1>7, <1>8,
     <1>9, <1>10, <1>11, <1>12, <1>13, <1>14, <1>15, <1>16, <1>17, <1>18,
     <1>19, <1>20, <1>21, <1>22, <1>23 DEF ThreadStep, MainStep, OtherStep,
     PingStarts, PingSends, PingFails, NetworkChanges, Screen, Configure,
     Configured, ConfigureWifi, Notify, NotifyFails, Expire

\* From the file to the load, a form is always in one of these.
LEMMA OnItsWayKept ==
  ASSUME IInv, Next
  PROVE  OnItsWay'
<1> USE DEF IInv, TypeOK, owner, network, server, update, local, asking, ping,
   marks, losses
<1>1. ASSUME NEW t \in Threads, Check(t) \/ Settle(t)
      PROVE  OnItsWay'
  BY <1>1 DEF Check, Rest, Goto, Settle, TypeThreads, Threads, ScreenSteps,
     AfterSwitch, WillLoad, Ending, Announced, OnItsWay
<1>2. ASSUME NEW t \in Threads, Copy(t) \/ Record(t)
      PROVE  OnItsWay'
  BY <1>2 DEF Copy, Rest, Goto, Record, TypeThreads, Threads, ScreenSteps,
     WillLoad, Ending, Announced, OnItsWay
<1>3. ASSUME NEW t \in Threads, Release(t)
      PROVE  OnItsWay'
  BY <1>3 DEF Release, Rest, Goto, Released, TypeThreads, Threads, ScreenSteps,
     WillLoad, Ending, Announced, OnItsWay
<1>4. ASSUME NEW t \in Threads, Acquire(t)
      PROVE  OnItsWay'
  BY <1>4 DEF Acquire, Rest, Goto, TypeThreads, Threads, ScreenSteps,
     AfterSwitch, WillLoad, Ending, Announced, OnItsWay
<1>5. ASSUME NEW t \in Threads, Put(t)
      PROVE  OnItsWay'
  BY <1>5 DEF Put, Rest, Goto, TypeThreads, Threads, ScreenSteps, AfterPut,
     WillLoad, Ending, Announced, OnItsWay
<1>6. ASSUME NEW t \in Threads, CallFails(t)
      PROVE  OnItsWay'
  BY <1>6 DEF CallFails, Goto, Released, TypeThreads, Threads, ScreenSteps,
     AfterSwitch, AfterPut, ExitPath, OnItsWay, WillLoad, Ending, Announced
<1>7. ASSUME NEW t \in Threads, NoAddress(t)
      PROVE  OnItsWay'
  BY <1>7 DEF NoAddress, Goto, Done, TypeThreads, Threads, ScreenSteps, ExitPath,
     OnItsWay, WillLoad, Ending, Announced
<1>8. ASSUME NEW t \in Threads, SwitchNothing(t) \/ Assign(t)
      PROVE  OnItsWay'
  BY <1>8 DEF SwitchNothing, Screen, Goto, Done, Assign, TypeThreads, Threads,
     ScreenSteps, ExitPath, WillLoad, Ending, Announced, OnItsWay
<1>9. ASSUME NEW t \in Threads, SwitchState(t)
      PROVE  OnItsWay'
  BY <1>9 DEF SwitchState, Screen, Goto, Call, TypeThreads, Threads,
     ScreenSteps, ExitPath, WillLoad, Ending, Announced, OnItsWay
<1>10. ASSUME NEW t \in Threads, Address(t)
      PROVE  OnItsWay'
  BY <1>10 DEF Address, Screen, Goto, TypeThreads, Threads, ScreenSteps,
     WillLoad, Ending, Announced, OnItsWay
<1>11. CASE Connect \/ ConnectFails
  BY <1>11 DEF Connect, Screen, Main, Goto, ConnectFails, TypeThreads, Threads,
     ScreenSteps, WillLoad, Ending, Announced, OnItsWay
<1>12. CASE Listen
  BY <1>12 DEF Listen, Screen, Main, Goto, TypeThreads, Threads, ScreenSteps,
     WillLoad, Ending, Announced, OnItsWay
<1>13. CASE ListenFails
  BY <1>13 DEF ListenFails, Screen, Main, Goto, TypeThreads, Threads,
     ScreenSteps, WillLoad, Ending, Announced, OnItsWay
<1>14. CASE Begin
  BY <1>14 DEF Begin, Main, Goto, Call, TypeThreads, Threads, ScreenSteps,
     WillLoad, Ending, Announced, OnItsWay
<1>15. CASE GiveUp \/ Leave \/ Crash
  BY <1>15 DEF GiveUp, Main, Gone, Leave, Crash, TypeThreads, Threads,
     WillLoad, Ending, Announced, OnItsWay
<1>16. CASE GetCurrentState
  BY <1>16 DEF GetCurrentState, Screen, Main, Goto, TypeThreads, Threads,
     ScreenSteps, WillLoad, Ending, Announced, OnItsWay
<1>17. CASE Ask
  BY <1>17 DEF Ask, Screen, Main, Goto, TypeThreads, Threads, ScreenSteps,
     WillLoad, Ending, Announced, OnItsWay
<1>18. CASE AskFails
  BY <1>18 DEF AskFails, Misses, Screen, Main, Goto, TypeThreads, Threads,
     ScreenSteps, OnItsWay, WillLoad, Ending, Announced
<1>19. CASE Load
  BY <1>19 DEF Load, HasStations, Screen, Main, Goto, TypeThreads, Threads,
     TypeCounts, ScreenSteps, WillLoad, Ending, Announced, OnItsWay
<1>20. CASE Wake
  BY <1>20 DEF Wake, Screen, Main, Goto, TypeThreads, Threads, ScreenSteps,
     WillLoad, Ending, Announced, OnItsWay
<1>21. CASE Exchange
  BY <1>21 DEF Exchange, Screen, Main, Goto, TypeThreads, Threads, ScreenSteps,
     WillLoad, Ending, Announced, OnItsWay
<1>22. CASE Exec
  BY <1>22 DEF Exec, Screen, Main, Goto, TypeThreads, Threads, ScreenSteps,
     WillLoad, Ending, Announced, OnItsWay
<1>23. CASE Fetch
  BY <1>23 DEF Fetch, Main, Goto, Call, TypeThreads, Threads, ScreenSteps,
     ExitPath, WillLoad, Ending, Announced, OnItsWay
<1>24. CASE Terminate
  BY <1>24 DEF Terminate, Goto, Call, TypeThreads, Threads, ScreenSteps,
     WillLoad, Ending, Announced, OnItsWay
<1>25. CASE TerminateLocked
  BY <1>25 DEF TerminateLocked, Main, Goto, TypeThreads, Threads, ScreenSteps,
     WillLoad, Ending, Announced, OnItsWay
<1>26. CASE Signal
  BY <1>26 DEF Signal, Screen, Goto, TypeThreads, Threads, ScreenSteps,
     WillLoad, Ending, Announced, OnItsWay
<1>27. CASE Request
  BY <1>27 DEF Request, Screen, TypeCounts, WillLoad, Ending, Announced, OnItsWay
<1>28. CASE WriteEvent
  BY <1>28 DEF WriteEvent, Screen, TypeCounts, WillLoad, Ending, Announced, OnItsWay
<1>29. CASE Configure \/ Configured \/ ConfigureWifi
  BY <1>29 DEF Configure, Configured, ConfigureWifi, Screen, OnItsWay, Ending,
     WillLoad, Announced
<1>30. CASE OwnerEnds
  BY <1>30 DEF OwnerEnds, Resume, RefusedCalls, AfterPut, TypeThreads, Threads,
     ScreenSteps, OnItsWay, WillLoad, Ending, Announced
<1>31. CASE Notify
  BY <1>31 DEF Notify, Listening, Screen, TypeCounts, FormsAreOnce, OnItsWay,
     Ending, WillLoad, Announced
<1>32. CASE NotifyFails
  BY <1>32 DEF NotifyFails, Misses, Screen, OnItsWay, Ending, WillLoad, Announced
<1>33. CASE UNCHANGED <<loaded, config, serving, missed, notices, flag, writing, pc, job>>
  BY <1>33 DEF WillLoad, Ending, Announced, OnItsWay
<1> QED
  BY ZenonT(30), NextCases, <1>1, <1>2, <1>3, <1>4, <1>5, <1>6, <1>7, <1>8,
     <1>9, <1>10, <1>11, <1>12, <1>13, <1>14, <1>15, <1>16, <1>17, <1>18,
     <1>19, <1>20, <1>21, <1>22, <1>23, <1>24, <1>25, <1>26, <1>27, <1>28,
     <1>29, <1>30, <1>31, <1>32, <1>33 DEF ThreadStep, MainStep, OtherStep,
     PingStarts, PingSends, PingFails, NetworkChanges, Screen, Expire

LEMMA InitInv == Init => IInv
<1> SUFFICES ASSUME Init PROVE IInv
  OBVIOUS
<1>1. TypeWorld
  BY DEF Init, TypeWorld
<1>2. TypeCounts /\ TypeShared
  BY DEF Init, TypeCounts, TypeShared, ContentStates
<1>3. TypeThreads
  BY DEF Init, TypeThreads, Steps, ScreenSteps, Jobs, ContentStates, Components
<1>4. TypeFlags
  BY Zenon DEF Init, TypeFlags
<1>5. pc["main"] = "connect" /\ pc["net"] = "off" /\ job["main"] = "mode"
  BY DEF Init, Threads
<1>6. FormsAreOnce /\ TriesLeft /\ CallsAreTyped
  BY DEF Init, FormsAreOnce, TriesLeft, CallsAreTyped, Threads
<1>7. RefusedCalls /\ NetOff /\ ExitPath
  BY <1>5 DEF Init, RefusedCalls, NetOff, ExitPath
<1>8. UpdateWakes /\ OnItsWay
  BY DEF Init, UpdateWakes, OnItsWay
<1> QED BY <1>1, <1>2, <1>3, <1>4, <1>6, <1>7, <1>8 DEF IInv, TypeOK

LEMMA StepKeepsInv == IInv /\ [Next]_vars => IInv'
<1> SUFFICES ASSUME IInv, [Next]_vars PROVE IInv'
  OBVIOUS
<1>1. CASE Next
  <2>1. TypeOK'
    BY <1>1, WorldType, CountType, SharedType, ThreadsType, FlagType DEF TypeOK
  <2> QED
    BY <1>1, <2>1, FormsKept, TriesKept, CallsKept, RefusedKept, NetOffKept,
       ExitPathKept, UpdateWakesKept, OnItsWayKept DEF IInv
<1>2. CASE UNCHANGED vars
  <2>1. (TypeWorld /\ TypeCounts)'
    BY <1>2 DEF vars, IInv, TypeOK, TypeWorld, TypeCounts
  <2>2. (TypeShared /\ TypeThreads)'
    BY <1>2 DEF vars, IInv, TypeOK, TypeShared, TypeThreads
  <2>3. TypeFlags'
    BY <1>2, Zenon DEF vars, IInv, TypeOK, TypeFlags
  <2>4. (FormsAreOnce /\ TriesLeft /\ CallsAreTyped)'
    BY <1>2 DEF vars, IInv, FormsAreOnce, TriesLeft, CallsAreTyped
  <2>5. (RefusedCalls /\ NetOff /\ ExitPath)'
    BY <1>2 DEF vars, IInv, RefusedCalls, NetOff, ExitPath
  <2>6. (UpdateWakes /\ OnItsWay)'
    BY <1>2 DEF vars, IInv, UpdateWakes, OnItsWay, Announced, WillLoad, Ending
  <2> QED BY <2>1, <2>2, <2>3, <2>4, <2>5, <2>6 DEF IInv, TypeOK
<1> QED BY <1>1, <1>2

\* Whatever fails and whoever ends: the shared variables and those of the
\* threads keep their types, and no counter passes its bound.
THEOREM TypeCorrect == Spec => []TypeOK
<1>1. IInv => TypeOK
  BY DEF IInv
<1> QED BY <1>1, InitInv, StepKeepsInv, PTL DEF Spec

\* request_content_update and the main loop use flag and event in opposite
\* orders, so that no complete request leaves the main thread in select.
THEOREM UpdateAlwaysWakes == Spec => []UpdateWakes
<1>1. IInv => UpdateWakes
  BY DEF IInv
<1> QED BY <1>1, InitInv, StepKeepsInv, PTL DEF Spec

\* A configuration that is not loaded is being written or announced, requested
\* or about to be loaded, at whatever point of its round, of its start or of
\* another request it meets the main thread: except after a notification that
\* was refused, or a reinit that had consumed a request and got no answer.
THEOREM NoUpdateIsOverlooked == Spec => []UpdateOnItsWay
<1>1. IInv => UpdateOnItsWay
  BY DEF IInv, OnItsWay, Announced, UpdateOnItsWay, TypeOK, TypeCounts
<1> QED BY <1>1, InitInv, StepKeepsInv, PTL DEF Spec

----------------------------------------------------------------------------
(* The record, as long as nothing crosses *)

\* The thread has begun to use the screen.
Past(t) == pc[t] \in (ScreenSteps \ {"check"}) \cup {"address", "assign"}

\* Nobody else has.
Alone ==
  \A t \in Threads : Past(t) => pinger # "send" /\ \A u \in Threads \ {t} : ~Past(u)

\* The ping is for what is recorded, and nobody pings for a program that ended.
Pinging ==
  /\ pinger = "send" => pinged = ctx /\ pc["main"] \notin {"exited", "stopped"}
  /\ pc["main"] \in {"exited", "stopped"} => state = "INIT"

\* main_context_state names what is recorded, but before the last assignment.
Named ==
  (\A t \in Threads : pc[t] # "settle") =>
  ctx = IF shown \in Components THEN shown ELSE None

\* What a thread can rely on at a step of switch_context ...
AtStep ==
  \A t \in Threads :
    /\ pc[t] = "release" => had[t] = ctx
    /\ pc[t] = "settle" => ctx = IF want[t] = "RELEASE" THEN None ELSE want[t]

\* ... and what its caller can.
Busy(t) == pc[t] \in ScreenSteps \cup {"address", "assign"}
ModeFits(t) ==
  /\ pc[t] \in {"address", "assign"} => job[t] = "mode"
  /\ job[t] = "mode" /\ Busy(t) =>
       want[t] = IF goal[t] = "NORMAL" THEN "TABLE" ELSE "HELPER"
  /\ ~lapsed /\ job[t] = "mode" /\ pc[t] \in {"settle", "put", "address", "assign"} =>
       ctx = want[t]
InMode == job["net"] = "mode" /\ \A t \in Threads : ModeFits(t)
InReport ==
  \A t \in Threads : job[t] = "report" /\ Busy(t) =>
    /\ want[t] \in {"TABLE", "STATUS"} /\ (~stray => state = "NORMAL")
    /\ ~lapsed /\ pc[t] \in {"settle", "put"} => ctx = want[t]
    /\ \A u \in Threads \ {t} : ~Past(u)
InInit ==
  \A t \in Threads : job[t] = "init" /\ Busy(t) =>
    /\ ~stray => state = "INIT"
    /\ \A u \in Threads \ {t} : ~Past(u)

\* current_state fits, but between the switch of a mode and its assignment,
\* and while a report takes the screen.
Fits ==
  /\ state \in {"AP", "CONFIG_API"} => ctx = "HELPER"
  /\ state = "NORMAL" => ctx \in {"TABLE", "STATUS"}
StateFits ==
  /\ ~lapsed /\ ~stray
  /\ \A t \in Threads :
       /\ ~(job[t] = "mode" /\ pc[t] \in {"settle", "put", "address", "assign"})
       /\ ~(job[t] = "report" /\ Busy(t))
  /\ job["main"] # "exit"
  => Fits

RecordHolds ==
  /\ Alone /\ Pinging /\ Named /\ AtStep
  /\ InMode /\ InReport /\ InInit /\ StateFits

\* The owner shows what is recorded, but between a release and a record: the
\* component is lent, or it was and no other took its place.
Owned ==
  /\ stage \in {"Empty", "Acquired"}
  /\ \/ pc["main"] \in {"exited", "stopped"}
     \/ \E t \in Threads : pc[t] \in {"acquire", "record"}
     \/ IF ctx = None THEN stage = "Empty"
                      ELSE place = ctx /\ (lapsed \/ stage = "Acquired")
  /\ \A t \in Threads :
       /\ pc[t] = "acquire" => stage = "Empty" /\ (ctx # None => place = ctx)
       /\ pc[t] = "record" =>
            IF want[t] = "RELEASE" THEN stage = "Empty" ELSE Lent(want[t])

\* As long as no release has failed.
LoanHolds == ~kept => refused = {} /\ (Up => Owned)

\* A step that crosses nothing.
Undisturbed == RecordHolds /\ ~crossed /\ ~crossed'

----------------------------------------------------------------------------
(* What the steps on the screen come to, whatever the owner answers *)

Turn(t) ==
  \/ Check(t) \/ Copy(t) \/ Release(t) \/ Acquire(t) \/ Record(t) \/ Settle(t)
  \/ Put(t) \/ CallFails(t)

Stays == UNCHANGED <<pc, want, had, shown, ctx, lapsed>>
Checked(t) ==
  /\ pc[t] = "check"
  /\ pc'[t] = IF shown = want[t] THEN AfterSwitch(t, TRUE) ELSE "copy"
  /\ UNCHANGED <<want, had, shown, ctx, lapsed>>
Copied(t) ==
  /\ pc[t] = "copy" /\ had'[t] = ctx
  /\ pc'[t] \in {"release", "acquire", "record"}
  /\ UNCHANGED <<want, shown, ctx, lapsed>>
GivenBack(t) ==
  /\ pc[t] = "release" /\ pc'[t] \in {"acquire", "record"}
  /\ UNCHANGED <<want, shown, ctx, lapsed>>
Taken(t) ==
  /\ pc[t] = "acquire"
  /\ \/ pc'[t] = "record"
     \/ pc'[t] = AfterSwitch(t, FALSE) /\ lapsed'
  /\ lapsed => lapsed'
  /\ UNCHANGED <<want, had, shown, ctx>>
Recorded(t) ==
  /\ pc[t] = "record" /\ pc'[t] = "settle"
  /\ ctx' = IF want[t] = "RELEASE" THEN None ELSE want[t]
  /\ UNCHANGED <<want, had, shown>>
Settled(t) ==
  /\ pc[t] = "settle" /\ pc'[t] = AfterSwitch(t, TRUE)
  /\ shown' = want[t]
  /\ UNCHANGED <<want, had, ctx, lapsed>>
PutIs(t) ==
  /\ pc[t] = "put" /\ pc'[t] = AfterPut(t)
  /\ want'[t] = WantAfterPut(t)
  /\ UNCHANGED <<had, shown, ctx, lapsed>>

\* A thread takes a step of its own, and changes nothing of the others.
LEMMA Moves ==
  ASSUME IInv, NEW t \in Threads, Turn(t)
  PROVE  /\ Busy(t) /\ UNCHANGED <<job, goal, state, stray, pinger, pinged>>
         /\ \A u \in Threads \ {t} : pc'[u] = pc[u] /\ want'[u] = want[u] /\ had'[u] = had[u]
         /\ \/ Stays \/ Checked(t) \/ Copied(t) \/ GivenBack(t) \/ Taken(t)
            \/ Recorded(t) \/ Settled(t) \/ PutIs(t)
<1> USE DEF IInv, TypeOK, TypeThreads, Rest, local, losses, ping, Goto
<1>1. Busy(t)
  BY DEF Turn, Check, Copy, Release, Acquire, Record, Settle, Put, CallFails,
     ScreenSteps, Busy
<1>2. CASE Check(t)
  BY <1>1, <1>2 DEF Check, Checked
<1>3. CASE Copy(t)
  BY <1>1, <1>3 DEF Copy, Copied
<1>4. CASE Release(t)
  <2>1. UNCHANGED <<pc, had>> \/ Released(t)
    BY <1>4 DEF Release
  <2>2. pc[t] = "release" /\ UNCHANGED <<want, shown, ctx, lapsed, job, goal, state, stray, pinger, pinged>>
    BY <1>4 DEF Release
  <2> QED BY <1>1, <2>1, <2>2 DEF Released, Stays, GivenBack
<1>5. CASE Acquire(t)
  <2>1. UNCHANGED <<want, had, shown, ctx, job, goal, state, stray, pinger, pinged>>
    BY <1>5 DEF Acquire
  <2>2. CASE ~Accepts(want[t])
    <3>1. pc' = pc /\ lapsed' = lapsed
      BY <1>5, <2>2, Zenon DEF Acquire, Lent, Accepts, TypeFlags
    <3> QED BY <1>1, <2>1, <3>1 DEF Stays
  <2>3. CASE Accepts(want[t])
    <3>1. /\ pc' = [pc EXCEPT ![t] = IF Lent(want[t]) THEN AfterSwitch(t, FALSE) ELSE "record"]
          /\ lapsed' = (lapsed \/ Lent(want[t])) /\ pc[t] = "acquire"
      BY <1>5, <2>3 DEF Acquire
    <3>2. (Lent(want[t]) => lapsed') /\ (lapsed => lapsed') /\ (~Lent(want[t]) => lapsed' = lapsed)
      BY <3>1, Zenon DEF TypeFlags
    <3> QED BY <1>1, <2>1, <3>1, <3>2 DEF Taken
  <2> QED BY <2>2, <2>3
<1>6. CASE Record(t)
  BY <1>1, <1>6 DEF Record, Recorded
<1>7. CASE Settle(t)
  BY <1>1, <1>7 DEF Settle, Settled
<1>8. CASE Put(t)
  <2>1. pc[t] = "put" /\ t \notin refused /\ UNCHANGED <<had, shown, ctx, lapsed, job, goal, state, stray, pinger, pinged>>
    BY <1>8 DEF Put, Live
  <2>2. CASE t \in refused'
    <3>1. pc' = pc
      BY <1>8, <2>1, <2>2 DEF Put
    <3>2. want' = want
      BY <1>8, <2>2 DEF Put
    <3> QED BY <1>1, <2>1, <3>1, <3>2 DEF Stays
  <2>3. CASE t \notin refused'
    <3>1. pc' = [pc EXCEPT ![t] = AfterPut(t)]
      BY <1>8, <2>3 DEF Put, Refused
    <3>2. want' = [want EXCEPT ![t] = WantAfterPut(t)]
      BY <1>8, <2>3 DEF Put
    <3> QED BY <1>1, <2>1, <3>1, <3>2 DEF PutIs
  <2> QED BY <2>2, <2>3
<1>9. CASE CallFails(t)
  <2>1. UNCHANGED <<shown, ctx, job, goal, state, stray, pinger, pinged>>
    BY <1>9 DEF CallFails
  <2>2. CASE pc[t] = "release"
    <3>1. Released(t) /\ want' = want
      BY <1>9, <2>2 DEF CallFails
    <3>2. lapsed' = lapsed
      BY <1>9, <2>2, Zenon DEF CallFails, TypeFlags
    <3> QED BY <1>1, <2>1, <2>2, <3>1, <3>2 DEF Released, GivenBack
  <2>3. CASE pc[t] = "acquire"
    <3>1. /\ pc' = [pc EXCEPT ![t] = AfterSwitch(t, FALSE)]
          /\ UNCHANGED <<want, had>>
      BY <1>9, <2>3 DEF CallFails
    <3>2. lapsed'
      BY <1>9, <2>3 DEF CallFails
    <3> QED BY <1>1, <2>1, <2>3, <3>1, <3>2 DEF Taken
  <2>4. CASE pc[t] = "put"
    <3>1. /\ pc' = [pc EXCEPT ![t] = AfterPut(t)] /\ had' = had
          /\ want' = [want EXCEPT ![t] = WantAfterPut(t)]
      BY <1>9, <2>4 DEF CallFails
    <3>2. lapsed' = lapsed
      BY <1>9, <2>4, Zenon DEF CallFails, TypeFlags
    <3> QED BY <1>1, <2>1, <2>4, <3>1, <3>2 DEF PutIs
  <2> QED BY <1>9, <2>2, <2>3, <2>4 DEF CallFails
<1> QED BY <1>2, <1>3, <1>4, <1>5, <1>6, <1>7, <1>8, <1>9 DEF Turn

\* A thread that takes a step on the screen without crossing is the only one.
LEMMA NobodyElse ==
  ASSUME IInv, NEW t \in Threads, ~crossed', Turn(t)
  PROVE  pinger # "send" /\ \A u \in Threads \ {t} : ~Busy(u) /\ ~Past(u)
<1>1. crossed' = (crossed \/ \E u \in (Threads \cup {"ping"}) \ {t} : Using(u))
  BY Zenon DEF Turn, Check, Copy, Release, Acquire, Record, Settle, Put, CallFails,
     Crosses
<1>2. \A u \in (Threads \cup {"ping"}) \ {t} : ~Using(u)
  BY <1>1, Zenon
<1>3. "ping" \in (Threads \cup {"ping"}) \ {t}
  BY DEF Threads
<1>4. pinger # "send"
  BY <1>2, <1>3 DEF Using
<1>5. ASSUME NEW u \in Threads \ {t}
      PROVE  ~Busy(u) /\ ~Past(u)
  <2>1. ~Using(u) /\ u # "ping"
    BY <1>2 DEF Threads
  <2> QED BY <2>1 DEF Using, Busy, Past
<1> QED BY <1>4, <1>5

\* Where the calls return to.
LEMMA Returns ==
  ASSUME IInv, NEW t \in Threads
  PROVE  /\ \A ok \in BOOLEAN :
              AfterSwitch(t, ok) \in {"giveup", "put", "begin", "assign", "address", "leave"}
         /\ AfterPut(t) \in {"get", "assign", "wait", "check"}
<1>1. job[t] \in {"init", "mode", "report", "exit"}
  BY DEF IInv, TypeOK, TypeThreads, Jobs
<1>2. ASSUME NEW ok \in BOOLEAN
      PROVE  AfterSwitch(t, ok) \in {"giveup", "put", "begin", "assign", "address", "leave"}
  BY <1>1 DEF AfterSwitch
<1>3. AfterPut(t) \in {"get", "assign", "wait", "check"}
  BY <1>1 DEF AfterPut
<1> QED BY <1>2, <1>3

\* A thread whose call was dropped goes on when the owner ends.
LEMMA Resumes ==
  ASSUME IInv, OwnerEnds
  PROVE  /\ UNCHANGED <<had, shown, ctx, lapsed, stray, job, goal, state, pinged>>
         /\ pinger' = "send" => pinger = "send"
         /\ \A t \in Threads :
              \/ pc'[t] = pc[t] /\ want'[t] = want[t]
              \/ pc[t] = "release" /\ pc'[t] \in {"acquire", "record"} /\ want'[t] = want[t]
              \/ pc[t] = "acquire" /\ pc'[t] = "record" /\ want'[t] = want[t]
              \/ pc[t] = "put" /\ pc'[t] = AfterPut(t) /\ want'[t] = WantAfterPut(t)
<1>1. /\ UNCHANGED <<had, shown, ctx, lapsed, stray, job, goal, state, pinged>>
      /\ pinger' = "send" => pinger = "send"
  BY DEF OwnerEnds, losses
<1>2. ASSUME NEW t \in Threads
      PROVE  \/ pc'[t] = pc[t] /\ want'[t] = want[t]
             \/ pc[t] = "release" /\ pc'[t] \in {"acquire", "record"} /\ want'[t] = want[t]
             \/ pc[t] = "acquire" /\ pc'[t] = "record" /\ want'[t] = want[t]
             \/ pc[t] = "put" /\ pc'[t] = AfterPut(t) /\ want'[t] = WantAfterPut(t)
  <2>1. /\ pc'[t] = IF t \in refused THEN Resume(t) ELSE pc[t]
        /\ want'[t] = IF t \in refused /\ pc[t] = "put" THEN WantAfterPut(t) ELSE want[t]
    BY DEF OwnerEnds
  <2>2. t \in refused => pc[t] \in {"release", "acquire", "put"}
    BY DEF IInv, RefusedCalls
  <2> QED BY <2>1, <2>2 DEF Resume
<1> QED BY <1>1, <1>2

\* These happen only when nobody else uses the screen ...
LEMMA NoCrossing ==
  ASSUME Undisturbed
  PROVE  /\ Begin \/ Fetch => ~Busy("net") /\ ~Past("net")
         /\ Terminate => ~Busy("main") /\ ~Past("main")
         /\ PingStarts => \A t \in Threads : ~Busy(t) /\ ~Past(t)
         /\ ~TerminateLocked
<1>1. /\ Begin \/ Fetch => ~Using("net")
      /\ Terminate => ~Using("main")
      /\ PingStarts => \A t \in Threads : ~Using(t)
      /\ ~TerminateLocked
  BY Zenon DEF Undisturbed, Begin, Fetch, Terminate, PingStarts, TerminateLocked
<1>2. \A t \in Threads : ~Using(t) => ~Busy(t) /\ ~Past(t)
  BY DEF Using, Busy, Past, Threads
<1> QED BY <1>1, <1>2 DEF Threads

\* Only one is past its check.
LEMMA AloneKept ==
  ASSUME IInv, Undisturbed, Next
  PROVE  Alone'
<1> USE DEF IInv, TypeOK, Undisturbed, RecordHolds, owner, network, server,
   update, local, asking, ping, marks, losses
<1>1. ASSUME NEW t \in Threads, Turn(t)
      PROVE  Alone'
  <2>1. pinger # "send" /\ \A u \in Threads \ {t} : ~Past(u)
    BY <1>1, NobodyElse
  <2>2. pinger' = pinger /\ \A u \in Threads \ {t} : pc'[u] = pc[u]
    BY <1>1, Moves
  <2> QED BY <2>1, <2>2 DEF Past, Alone
<1>2. ASSUME NEW t \in Threads, SwitchNothing(t) \/ NoAddress(t) \/ Assign(t)
      PROVE  Alone'
  BY <1>2 DEF SwitchNothing, NoAddress, Assign, Screen, Goto, Done,
     TypeThreads, Threads, ScreenSteps, Past, Alone
<1>3. ASSUME NEW t \in Threads, SwitchState(t) \/ Address(t)
      PROVE  Alone'
  BY <1>3 DEF SwitchState, Address, Screen, Goto, Call, TypeThreads, Threads,
     ScreenSteps, Past, Alone
<1>4. CASE Connect \/ ConnectFails
  BY <1>4 DEF Connect, ConnectFails, Screen, Main, Goto, TypeThreads, Threads,
     ScreenSteps, Past, Alone
<1>5. CASE Listen \/ ListenFails
  BY <1>5 DEF Listen, ListenFails, Screen, Main, Goto, TooLate, NetOff,
     TypeThreads, Threads, ScreenSteps, Past, Alone
<1>6. CASE GiveUp \/ Leave \/ Crash
  BY <1>6 DEF GiveUp, Leave, Crash, Main, Gone, TypeThreads, Threads,
     ScreenSteps, Past, Alone
<1>7. CASE GetCurrentState \/ Ask \/ AskFails
  BY <1>7 DEF GetCurrentState, Ask, AskFails, Screen, Main, Goto, TypeThreads,
     Threads, ScreenSteps, Past, Alone
<1>8. CASE Load \/ Wake \/ Exchange \/ Exec
  BY <1>8 DEF Load, Wake, Exchange, Exec, Screen, Main, Goto, TypeThreads,
     Threads, ScreenSteps, Past, Alone
<1>9. CASE Begin
  BY <1>9, NoCrossing DEF Begin, Main, Goto, Call, TypeThreads, Threads,
     ScreenSteps, Past, Alone
<1>10. CASE Fetch
  BY <1>10, NoCrossing DEF Fetch, Main, Goto, Call, TypeThreads, Threads,
     ScreenSteps, Past, Alone
<1>11. CASE Terminate
  BY <1>11, NoCrossing DEF Terminate, Goto, Call, TypeThreads, Threads,
     ScreenSteps, Past, Alone
<1>12. CASE Signal
  BY <1>12 DEF Signal, Screen, Goto, TypeThreads, Threads, ScreenSteps, Past,
     Alone
<1>13. CASE PingStarts \/ PingSends \/ PingFails
  <2>1. (\A t \in Threads : ~Past(t)) \/ pinger' # "send" \/ pinger' = pinger
    BY <1>13, NoCrossing DEF PingSends, PingFails
  <2>2. pc' = pc
    BY <1>13 DEF PingStarts, PingSends, PingFails
  <2> QED BY <2>1, <2>2 DEF Past, Alone
<1>14. CASE OwnerEnds
  BY <1>14, Resumes, Returns DEF TypeThreads, Threads, ScreenSteps, Past, Alone
<1>15. CASE TerminateLocked
  BY <1>15, NoCrossing
<1>16. CASE UNCHANGED <<pc, pinger>>
  BY <1>16 DEF Past, Alone
<1> QED
  BY ZenonT(30), NextCases, <1>1, <1>2, <1>3, <1>4, <1>5, <1>6, <1>7, <1>8,
     <1>9, <1>10, <1>11, <1>12, <1>13, <1>14, <1>15, <1>16 DEF ThreadStep,
     MainStep, OtherStep, Turn, Expire, Request, WriteEvent, NetworkChanges,
     Configure, Configured, ConfigureWifi, Notify, NotifyFails, Screen

\* The ping is for what is recorded.
LEMMA PingingKept ==
  ASSUME IInv, Undisturbed, Next
  PROVE  Pinging'
<1> USE DEF IInv, TypeOK, Undisturbed, RecordHolds, owner, network, server,
   update, local, asking, ping, marks, losses
<1>1. ASSUME NEW t \in Threads, Turn(t)
      PROVE  Pinging'
  <2>1. pinger # "send" /\ UNCHANGED <<pinger, pinged, state>>
    BY <1>1, NobodyElse, Moves
  <2>2. pc["main"] \notin {"exited", "stopped"} /\ pc'["main"] \notin {"exited", "stopped"}
    BY <1>1, Moves, Returns DEF Busy, NetOff, Threads, ScreenSteps, TypeThreads,
       Stays, Checked, Copied, GivenBack, Taken, Recorded, Settled, PutIs
  <2> QED BY <2>1, <2>2 DEF Pinging
<1>2. ASSUME NEW t \in Threads, SwitchNothing(t) \/ NoAddress(t) \/ Assign(t)
      PROVE  Pinging'
  BY <1>2 DEF SwitchNothing, NoAddress, Assign, Screen, Goto, Done,
     TypeThreads, Threads, NetOff, Pinging
<1>3. ASSUME NEW t \in Threads, SwitchState(t) \/ Address(t)
      PROVE  Pinging'
  BY <1>3 DEF SwitchState, Address, Screen, Goto, Call, TypeThreads, Threads,
     NetOff, Pinging
<1>4. CASE Connect \/ ConnectFails
  BY <1>4 DEF Connect, ConnectFails, Screen, Main, Goto, TypeThreads, Threads,
     NetOff, Pinging
<1>5. CASE Listen \/ ListenFails
  BY <1>5 DEF Listen, ListenFails, Screen, Main, Goto, TooLate, NetOff,
     TypeThreads, Threads, Pinging
<1>6. CASE GiveUp \/ Leave \/ Crash
  BY <1>6 DEF GiveUp, Leave, Crash, Main, Gone, TypeThreads, Threads, NetOff,
     Pinging
<1>7. CASE GetCurrentState \/ Ask \/ AskFails
  BY <1>7 DEF GetCurrentState, Ask, AskFails, Screen, Main, Goto, TypeThreads,
     Threads, NetOff, Pinging
<1>8. CASE Load \/ Wake \/ Exchange \/ Exec
  BY <1>8 DEF Load, Wake, Exchange, Exec, Screen, Main, Goto, TypeThreads,
     Threads, NetOff, Pinging
<1>9. CASE Begin
  BY <1>9, NoCrossing DEF Begin, Main, Goto, Call, TypeThreads, Threads,
     NetOff, Pinging
<1>10. CASE Fetch
  BY <1>10, NoCrossing DEF Fetch, Main, Goto, Call, TypeThreads, Threads,
     NetOff, Pinging
<1>11. CASE Terminate
  BY <1>11, NoCrossing DEF Terminate, Goto, Call, TypeThreads, Threads, NetOff,
     Pinging
<1>12. CASE Signal
  BY <1>12 DEF Signal, Screen, Goto, TypeThreads, Threads, NetOff, Pinging
<1>13. CASE PingStarts \/ PingSends \/ PingFails
  BY <1>13 DEF PingStarts, PingSends, PingFails, Pinging
<1>14. CASE OwnerEnds
  BY <1>14, Resumes, Returns DEF TypeThreads, Threads, NetOff, Pinging
<1>15. CASE TerminateLocked
  BY <1>15, NoCrossing
<1>16. CASE UNCHANGED <<pc, pinger, pinged, ctx, state>>
  BY <1>16 DEF Pinging
<1> QED
  BY ZenonT(30), NextCases, <1>1, <1>2, <1>3, <1>4, <1>5, <1>6, <1>7, <1>8,
     <1>9, <1>10, <1>11, <1>12, <1>13, <1>14, <1>15, <1>16 DEF ThreadStep,
     MainStep, OtherStep, Turn, Expire, Request, WriteEvent, NetworkChanges,
     Configure, Configured, ConfigureWifi, Notify, NotifyFails, Screen

\* The state of the context names what is recorded.
LEMMA NamedKept ==
  ASSUME IInv, Undisturbed, Next
  PROVE  Named'
<1> USE DEF IInv, TypeOK, Undisturbed, RecordHolds, owner, network, server,
   update, local, asking, ping, marks, losses
<1>1. ASSUME NEW t \in Threads, Turn(t)
      PROVE  Named'
  <2>1. \A u \in Threads \ {t} : pc[u] # "settle" /\ pc'[u] # "settle"
    BY <1>1, NobodyElse, Moves DEF Past, ScreenSteps
  <2>2. CASE Recorded(t)
    BY <2>2 DEF Recorded, Named
  <2>3. CASE Settled(t)
    BY <2>1, <2>3 DEF Settled, AtStep, TypeThreads, Named, Components, None
  <2>4. CASE pc[t] # "settle" /\ UNCHANGED <<shown, ctx>>
    BY <2>1, <2>4 DEF Named
  <2>5. CASE Stays
    BY <2>5 DEF Stays, Named
  <2> QED
    BY <1>1, <2>2, <2>3, <2>4, <2>5, Moves DEF Checked, Copied, GivenBack, Taken,
       PutIs
<1>2. ASSUME NEW t \in Threads, SwitchNothing(t) \/ NoAddress(t) \/ Assign(t)
      PROVE  Named'
  BY <1>2 DEF SwitchNothing, NoAddress, Assign, Screen, Goto, Done,
     TypeThreads, Threads, Busy, ScreenSteps, Components, Named
<1>3. ASSUME NEW t \in Threads, SwitchState(t) \/ Address(t)
      PROVE  Named'
  BY <1>3 DEF SwitchState, Address, Screen, Goto, Call, TypeThreads, Threads,
     Busy, ScreenSteps, Components, Named
<1>4. CASE Connect \/ ConnectFails
  BY <1>4 DEF Connect, ConnectFails, Screen, Main, Goto, TypeThreads, Threads,
     Busy, ScreenSteps, Components, Named
<1>5. CASE Listen \/ ListenFails
  BY <1>5 DEF Listen, ListenFails, Screen, Main, Goto, TooLate, NetOff,
     TypeThreads, Threads, Busy, ScreenSteps, Components, Named
<1>6. CASE GiveUp \/ Leave \/ Crash
  BY <1>6 DEF GiveUp, Leave, Crash, Main, Gone, TypeThreads, Threads, Busy,
     ScreenSteps, Components, Named
<1>7. CASE GetCurrentState \/ Ask \/ AskFails
  BY <1>7 DEF GetCurrentState, Ask, AskFails, Screen, Main, Goto, TypeThreads,
     Threads, Busy, ScreenSteps, Components, Named
<1>8. CASE Load \/ Wake \/ Exchange \/ Exec
  BY <1>8 DEF Load, Wake, Exchange, Exec, Screen, Main, Goto, TypeThreads,
     Threads, Busy, ScreenSteps, Components, Named
<1>9. CASE Begin
  BY <1>9, NoCrossing DEF Begin, Main, Goto, Call, TypeThreads, Threads, Busy,
     ScreenSteps, Components, Named
<1>10. CASE Fetch
  BY <1>10, NoCrossing DEF Fetch, Main, Goto, Call, TypeThreads, Threads, Busy,
     ScreenSteps, Components, Named
<1>11. CASE Terminate
  BY <1>11, NoCrossing DEF Terminate, Goto, Call, TypeThreads, Threads, Busy,
     ScreenSteps, Components, Named
<1>12. CASE Signal
  BY <1>12 DEF Signal, Screen, Goto, TypeThreads, Threads, Busy, ScreenSteps,
     Components, Named
<1>13. CASE OwnerEnds
  BY <1>13, Resumes, Returns DEF TypeThreads, Threads, Busy, ScreenSteps,
     Components, Named
<1>14. CASE TerminateLocked
  BY <1>14, NoCrossing
<1>15. CASE UNCHANGED <<pc, shown, ctx>>
  BY <1>15 DEF Named
<1> QED
  BY ZenonT(30), NextCases, <1>1, <1>2, <1>3, <1>4, <1>5, <1>6, <1>7, <1>8,
     <1>9, <1>10, <1>11, <1>12, <1>13, <1>14, <1>15 DEF ThreadStep, MainStep,
     OtherStep, Turn, PingStarts, PingSends, PingFails, Expire, Request,
     WriteEvent, NetworkChanges, Configure, Configured, ConfigureWifi, Notify,
     NotifyFails, Screen

\* Each step of a switch finds what the one before left.
LEMMA AtStepKept ==
  ASSUME IInv, Undisturbed, Next
  PROVE  AtStep'
<1> USE DEF IInv, TypeOK, Undisturbed, RecordHolds, owner, network, server,
   update, local, asking, ping, marks, losses
<1>1. ASSUME NEW t \in Threads, Turn(t)
      PROVE  AtStep'
  <2>1. \A u \in Threads \ {t} : pc'[u] \notin {"release", "settle"}
    BY <1>1, NobodyElse, Moves DEF Past, ScreenSteps
  <2>2. CASE Stays
    BY <2>2 DEF Stays, AtStep
  <2>3. CASE Copied(t) \/ GivenBack(t) \/ Recorded(t)
    BY <2>1, <2>3 DEF Copied, GivenBack, Recorded, AtStep
  <2>4. CASE Checked(t) \/ Taken(t) \/ Settled(t) \/ PutIs(t)
    <3>1. pc'[t] \notin {"release", "settle"}
      BY <2>4, Returns DEF Checked, Taken, Settled, PutIs
    <3> QED BY <2>1, <3>1 DEF AtStep
  <2> QED BY <1>1, <2>2, <2>3, <2>4, Moves
<1>2. ASSUME NEW t \in Threads, SwitchNothing(t) \/ NoAddress(t) \/ Assign(t)
      PROVE  AtStep'
  BY <1>2 DEF SwitchNothing, NoAddress, Assign, Screen, Goto, Done,
     TypeThreads, Threads, AtStep
<1>3. ASSUME NEW t \in Threads, SwitchState(t) \/ Address(t)
      PROVE  AtStep'
  BY <1>3 DEF SwitchState, Address, Screen, Goto, Call, TypeThreads, Threads,
     AtStep
<1>4. CASE Connect \/ ConnectFails
  BY <1>4 DEF Connect, ConnectFails, Screen, Main, Goto, TypeThreads, Threads,
     AtStep
<1>5. CASE Listen \/ ListenFails
  BY <1>5 DEF Listen, ListenFails, Screen, Main, Goto, TooLate, NetOff,
     TypeThreads, Threads, AtStep
<1>6. CASE GiveUp \/ Leave \/ Crash
  BY <1>6 DEF GiveUp, Leave, Crash, Main, Gone, TypeThreads, Threads, AtStep
<1>7. CASE GetCurrentState \/ Ask \/ AskFails
  BY <1>7 DEF GetCurrentState, Ask, AskFails, Screen, Main, Goto, TypeThreads,
     Threads, AtStep
<1>8. CASE Load \/ Wake \/ Exchange \/ Exec
  BY <1>8 DEF Load, Wake, Exchange, Exec, Screen, Main, Goto, TypeThreads,
     Threads, AtStep
<1>9. CASE Begin
  BY <1>9, NoCrossing DEF Begin, Main, Goto, Call, TypeThreads, Threads, AtStep
<1>10. CASE Fetch
  BY <1>10, NoCrossing DEF Fetch, Main, Goto, Call, TypeThreads, Threads, AtStep
<1>11. CASE Terminate
  BY <1>11, NoCrossing DEF Terminate, Goto, Call, TypeThreads, Threads, AtStep
<1>12. CASE Signal
  BY <1>12 DEF Signal, Screen, Goto, TypeThreads, Threads, AtStep
<1>13. CASE OwnerEnds
  BY <1>13, Resumes, Returns DEF TypeThreads, Threads, AtStep
<1>14. CASE TerminateLocked
  BY <1>14, NoCrossing
<1>15. CASE UNCHANGED <<pc, had, want, ctx>>
  BY <1>15 DEF AtStep
<1> QED
  BY ZenonT(30), NextCases, <1>1, <1>2, <1>3, <1>4, <1>5, <1>6, <1>7, <1>8,
     <1>9, <1>10, <1>11, <1>12, <1>13, <1>14, <1>15 DEF ThreadStep, MainStep,
     OtherStep, Turn, PingStarts, PingSends, PingFails, Expire, Request,
     WriteEvent, NetworkChanges, Configure, Configured, ConfigureWifi, Notify,
     NotifyFails, Screen

\* In a switch to a mode, the component is that of the mode.
LEMMA InModeKept ==
  ASSUME IInv, Undisturbed, Next
  PROVE  InMode'
<1> USE DEF IInv, TypeOK, Undisturbed, RecordHolds, owner, network, server,
   update, local, asking, ping, marks, losses
<1>1. ASSUME NEW t \in Threads, Turn(t)
      PROVE  InMode'
  <2>1. /\ UNCHANGED <<job, goal>> /\ Busy(t)
        /\ \A u \in Threads \ {t} : ~Busy(u) /\ ~Past(u) /\ pc'[u] = pc[u]
    BY <1>1, NobodyElse, Moves
  <2>2. \A u \in Threads \ {t} : ModeFits(u)'
    BY <2>1 DEF ModeFits, Busy, ScreenSteps
  <2>3. /\ \A ok \in BOOLEAN : AfterSwitch(t, ok) \in {"address", "assign"} => job[t] = "mode"
        /\ AfterPut(t) \in {"address", "assign"} => job[t] = "mode"
    BY DEF AfterSwitch, AfterPut, TypeThreads, Jobs
  <2>4. job[t] = "mode" => want[t] = IF goal[t] = "NORMAL" THEN "TABLE" ELSE "HELPER"
    BY <2>1 DEF InMode, ModeFits
  <2>5. CASE Stays
    BY <2>1, <2>2, <2>5 DEF Stays, InMode, ModeFits, Busy
  <2>6. CASE Checked(t)
    <3>1. shown \in Components => ctx = shown
      BY <2>1, <2>6 DEF Checked, Named, Past, ScreenSteps
    <3>2. job[t] = "mode" /\ shown = want[t] => ctx = want[t]
      BY <2>4, <3>1 DEF Components
    <3> QED
      BY <2>1, <2>2, <2>3, <2>4, <2>6, <3>2 DEF Checked, InMode, ModeFits
  <2>7. CASE Copied(t) \/ GivenBack(t)
    BY <2>1, <2>2, <2>4, <2>7 DEF Copied, GivenBack, InMode, ModeFits
  <2>8. CASE Taken(t)
    <3>1. pc'[t] = "record" \/ (pc'[t] = AfterSwitch(t, FALSE) /\ lapsed')
      BY <2>8, Zenon DEF Taken
    <3>2. want' = want /\ ctx' = ctx
      BY <2>8 DEF Taken
    <3> QED BY <2>1, <2>2, <2>3, <2>4, <3>1, <3>2 DEF InMode, ModeFits
  <2>9. CASE Recorded(t)
    BY <2>1, <2>2, <2>4, <2>9 DEF Recorded, InMode, ModeFits
  <2>10. CASE Settled(t)
    BY <2>1, <2>2, <2>3, <2>4, <2>10 DEF Settled, InMode, ModeFits
  <2>11. CASE PutIs(t)
    <3>1. job[t] = "mode" => want'[t] = want[t]
      BY <2>11 DEF PutIs, WantAfterPut
    <3> QED
      BY <2>1, <2>2, <2>3, <2>4, <2>11, <3>1 DEF PutIs, InMode, ModeFits
  <2> QED
    BY <1>1, <2>5, <2>6, <2>7, <2>8, <2>9, <2>10, <2>11, Moves
<1>2. ASSUME NEW t \in Threads, SwitchNothing(t) \/ NoAddress(t) \/ Assign(t)
      PROVE  InMode'
  BY <1>2 DEF SwitchNothing, NoAddress, Assign, Screen, Goto, Done,
     TypeThreads, Threads, ScreenSteps, Busy, ModeFits, InMode
<1>3. ASSUME NEW t \in Threads, SwitchState(t) \/ Address(t)
      PROVE  InMode'
  BY <1>3 DEF SwitchState, Address, Screen, Goto, Call, TypeThreads, Threads,
     ScreenSteps, Busy, ModeFits, InMode
<1>4. CASE Connect \/ ConnectFails
  BY <1>4 DEF Connect, ConnectFails, Screen, Main, Goto, TypeThreads, Threads,
     ScreenSteps, Busy, ModeFits, InMode
<1>5. CASE Listen \/ ListenFails
  BY <1>5 DEF Listen, ListenFails, Screen, Main, Goto, TooLate, NetOff,
     TypeThreads, Threads, ScreenSteps, Busy, ModeFits, InMode
<1>6. CASE GiveUp \/ Leave \/ Crash
  BY <1>6 DEF GiveUp, Leave, Crash, Main, Gone, TypeThreads, Threads,
     ScreenSteps, Busy, ModeFits, InMode
<1>7. CASE GetCurrentState \/ Ask \/ AskFails
  BY <1>7 DEF GetCurrentState, Ask, AskFails, Screen, Main, Goto, TypeThreads,
     Threads, ScreenSteps, Busy, ModeFits, InMode
<1>8. CASE Load \/ Wake \/ Exchange \/ Exec
  BY <1>8 DEF Load, Wake, Exchange, Exec, Screen, Main, Goto, TypeThreads,
     Threads, ScreenSteps, Busy, ModeFits, InMode
<1>9. CASE Begin
  BY <1>9, NoCrossing DEF Begin, Main, Goto, Call, TypeThreads, Threads,
     ScreenSteps, Busy, ModeFits, InMode
<1>10. CASE Fetch
  BY <1>10, NoCrossing DEF Fetch, Main, Goto, Call, TypeThreads, Threads,
     ScreenSteps, Busy, ModeFits, InMode
<1>11. CASE Terminate
  BY <1>11, NoCrossing DEF Terminate, Goto, Call, TypeThreads, Threads,
     ScreenSteps, Busy, ModeFits, InMode
<1>12. CASE Signal
  BY <1>12 DEF Signal, Screen, Goto, TypeThreads, Threads, ScreenSteps, Busy,
     ModeFits, InMode
<1>13. CASE Expire
  BY <1>13 DEF Expire, TypeThreads, Threads, ScreenSteps, Busy, ModeFits, InMode
<1>14. CASE OwnerEnds
  <2>1. UNCHANGED <<job, goal, ctx, lapsed>>
    BY <1>14, Resumes
  <2>2. ASSUME NEW t \in Threads
        PROVE  ModeFits(t)'
    <3>1. CASE pc'[t] = pc[t] /\ want'[t] = want[t]
      BY <2>1, <3>1 DEF InMode, ModeFits, Busy
    <3>2. CASE pc[t] \in {"release", "acquire"} /\ pc'[t] \in {"acquire", "record"} /\ want'[t] = want[t]
      BY <2>1, <3>2 DEF InMode, ModeFits, Busy, ScreenSteps
    <3>3. CASE pc[t] = "put" /\ pc'[t] = AfterPut(t) /\ want'[t] = WantAfterPut(t)
      BY <2>1, <3>3 DEF InMode, ModeFits, Busy, ScreenSteps, AfterPut, WantAfterPut,
         TypeThreads, Jobs
    <3> QED BY <1>14, <3>1, <3>2, <3>3, Resumes
  <2> QED BY <2>1, <2>2 DEF InMode
<1>15. CASE TerminateLocked
  BY <1>15, NoCrossing
<1>16. CASE UNCHANGED <<pc, job, want, goal, ctx, lapsed>>
  BY <1>16 DEF Busy, ModeFits, InMode
<1> QED
  BY ZenonT(30), NextCases, <1>1, <1>2, <1>3, <1>4, <1>5, <1>6, <1>7, <1>8,
     <1>9, <1>10, <1>11, <1>12, <1>13, <1>14, <1>15, <1>16 DEF ThreadStep,
     MainStep, OtherStep, Turn, PingStarts, PingSends, PingFails, Request,
     WriteEvent, NetworkChanges, Configure, Configured, ConfigureWifi, Notify,
     NotifyFails, Screen

\* A report is about arrivals or an error, in normal mode.
LEMMA InReportKept ==
  ASSUME IInv, Undisturbed, Next
  PROVE  InReport'
<1> USE DEF IInv, TypeOK, Undisturbed, RecordHolds, owner, network, server,
   update, local, asking, ping, marks, losses
<1>1. ASSUME NEW t \in Threads, Turn(t)
      PROVE  InReport'
  <2>1. /\ UNCHANGED <<job, state, stray>> /\ Busy(t)
        /\ \A u \in Threads \ {t} : ~Busy(u) /\ ~Past(u) /\ pc'[u] = pc[u]
    BY <1>1, NobodyElse, Moves
  <2>2. \A u \in Threads \ {t} : ~Busy(u)' /\ ~Past(u)'
    BY <2>1 DEF Busy, Past
  <2>3. job[t] # "report" => InReport'
    BY <2>1, <2>2 DEF InReport
  <2>4. ASSUME job[t] = "report"
        PROVE  InReport'
    <3>1. want[t] \in {"TABLE", "STATUS"} /\ (~stray => state = "NORMAL")
      BY <2>1, <2>4 DEF InReport
    <3>2. AfterSwitch(t, TRUE) = "put" /\ AfterSwitch(t, FALSE) = "put" /\ AfterPut(t) = "wait"
      BY <2>4 DEF AfterSwitch, AfterPut
    <3>3. CASE Stays
      BY <2>1, <2>2, <3>1, <3>3 DEF Stays, InReport, Busy
    <3>4. CASE Checked(t)
      <4>1. shown \in Components => ctx = shown
        BY <2>1, <3>4 DEF Checked, Named, Past, ScreenSteps
      <4> QED
        BY <2>1, <2>2, <3>1, <3>4, <4>1 DEF Checked, InReport, Components
    <3>5. CASE Copied(t) \/ GivenBack(t)
      BY <2>1, <2>2, <3>1, <3>5 DEF Copied, GivenBack, InReport
    <3>6. CASE Taken(t)
      <4>1. pc'[t] = "record" \/ (pc'[t] = AfterSwitch(t, FALSE) /\ lapsed')
        BY <3>6, Zenon DEF Taken
      <4>2. want' = want
        BY <3>6 DEF Taken
      <4> QED BY <2>1, <2>2, <3>1, <4>1, <4>2 DEF InReport
    <3>7. CASE Recorded(t)
      BY <2>1, <2>2, <3>1, <3>7 DEF Recorded, InReport
    <3>8. CASE Settled(t)
      BY <2>1, <2>2, <2>4, <3>1, <3>2, <3>8 DEF Settled, InReport
    <3>9. CASE PutIs(t)
      <4>1. ~Busy(t)'
        BY <3>2, <3>9 DEF PutIs, Busy, ScreenSteps
      <4> QED BY <2>2, <4>1 DEF InReport
    <3> QED
      BY <1>1, <3>3, <3>4, <3>5, <3>6, <3>7, <3>8, <3>9, Moves
  <2> QED BY <2>3, <2>4
<1>2. ASSUME NEW t \in Threads, SwitchNothing(t) \/ NoAddress(t) \/ Assign(t)
      PROVE  InReport'
  BY <1>2 DEF SwitchNothing, NoAddress, Assign, Screen, Goto, Done,
     TypeThreads, Threads, ScreenSteps, Busy, Past, InMode, ModeFits, InReport
<1>3. ASSUME NEW t \in Threads, SwitchState(t) \/ Address(t)
      PROVE  InReport'
  BY <1>3 DEF SwitchState, Address, Screen, Goto, Call, TypeThreads, Threads,
     ScreenSteps, Busy, Past, InMode, ModeFits, InReport
<1>4. CASE Connect \/ ConnectFails
  BY <1>4 DEF Connect, ConnectFails, Screen, Main, Goto, TypeThreads, Threads,
     ScreenSteps, Busy, Past, InMode, ModeFits, InReport
<1>5. CASE Listen \/ ListenFails
  BY <1>5 DEF Listen, ListenFails, Screen, Main, Goto, TooLate, NetOff,
     TypeThreads, Threads, ScreenSteps, Busy, Past, InMode, ModeFits, InReport
<1>6. CASE GiveUp \/ Leave \/ Crash
  BY <1>6 DEF GiveUp, Leave, Crash, Main, Gone, TypeThreads, Threads,
     ScreenSteps, Busy, Past, InMode, ModeFits, InReport
<1>7. CASE GetCurrentState \/ Ask \/ AskFails
  BY <1>7 DEF GetCurrentState, Ask, AskFails, Screen, Main, Goto, TypeThreads,
     Threads, ScreenSteps, Busy, Past, InMode, ModeFits, InReport
<1>8. CASE Load \/ Wake \/ Exchange \/ Exec
  BY <1>8 DEF Load, Wake, Exchange, Exec, Screen, Main, Goto, TypeThreads,
     Threads, ScreenSteps, Busy, Past, InMode, ModeFits, InReport
<1>9. CASE Begin
  BY <1>9, NoCrossing DEF Begin, Main, Goto, Call, TypeThreads, Threads,
     ScreenSteps, Busy, Past, InMode, ModeFits, InReport
<1>10. CASE Fetch
  <2>1. PICK k \in Fetched : Call("main", "report", k)
    BY <1>10 DEF Fetch
  <2>2. ~Busy("net") /\ ~Past("net")
    BY <1>10, NoCrossing
  <2>3. pc'["main"] = "check" /\ pc'["net"] = pc["net"] /\ job'["net"] = "mode"
    BY <2>1 DEF Call, Goto, TypeThreads, Threads, InMode
  <2>4. want'["main"] \in {"TABLE", "STATUS"}
    BY <2>1 DEF Call, TypeThreads, Threads, Fetched
  <2>5. ~stray' => state' = "NORMAL"
    BY <1>10 DEF Fetch
  <2> QED BY <2>2, <2>3, <2>4, <2>5 DEF Threads, Past, InReport
<1>11. CASE Terminate
  BY <1>11, NoCrossing DEF Terminate, Goto, Call, TypeThreads, Threads,
     ScreenSteps, Busy, Past, InMode, ModeFits, InReport
<1>12. CASE Signal
  BY <1>12 DEF Signal, Screen, Goto, TypeThreads, Threads, ScreenSteps, Busy,
     Past, InMode, ModeFits, InReport
<1>13. CASE Expire
  BY <1>13 DEF Expire, TypeThreads, Threads, ScreenSteps, Busy, Past, InMode,
     ModeFits, InReport
<1>14. CASE OwnerEnds
  <2>1. UNCHANGED <<job, ctx, lapsed, state, stray>>
    BY <1>14, Resumes
  <2>2. ASSUME NEW t \in Threads, job[t] = "report", Busy(t)'
        PROVE  /\ want'[t] \in {"TABLE", "STATUS"} /\ (~stray => state = "NORMAL")
               /\ ~lapsed /\ pc'[t] \in {"settle", "put"} => ctx = want'[t]
               /\ \A u \in Threads \ {t} : ~Past(u)'
    <3>1. Busy(t) /\ want'[t] = want[t] /\ (pc'[t] = pc[t] \/ pc'[t] \in {"acquire", "record"})
      BY <1>14, <2>2, Resumes DEF Busy, ScreenSteps, AfterPut
    <3>2. \A u \in Threads \ {t} : ~Past(u)'
      <4>1. \A u \in Threads \ {t} : ~Past(u)
        BY <2>2, <3>1 DEF InReport
      <4> QED BY <1>14, <4>1, Resumes DEF Past, ScreenSteps
    <3> QED BY <2>2, <3>1, <3>2 DEF InReport
  <2> QED BY <2>1, <2>2 DEF InReport
<1>15. CASE TerminateLocked
  BY <1>15, NoCrossing
<1>16. CASE UNCHANGED <<pc, job, want, state, stray, ctx, lapsed>>
  BY <1>16 DEF Busy, Past, InReport
<1> QED
  BY ZenonT(30), NextCases, <1>1, <1>2, <1>3, <1>4, <1>5, <1>6, <1>7, <1>8,
     <1>9, <1>10, <1>11, <1>12, <1>13, <1>14, <1>15, <1>16 DEF ThreadStep,
     MainStep, OtherStep, Turn, PingStarts, PingSends, PingFails, Request,
     WriteEvent, NetworkChanges, Configure, Configured, ConfigureWifi, Notify,
     NotifyFails, Screen

\* The first context is set for no mode, or for one that the listener entered.
LEMMA InInitKept ==
  ASSUME IInv, Undisturbed, Next
  PROVE  InInit'
<1> USE DEF IInv, TypeOK, Undisturbed, RecordHolds, owner, network, server,
   update, local, asking, ping, marks, losses
<1>1. ASSUME NEW t \in Threads, Turn(t)
      PROVE  InInit'
  <2>1. UNCHANGED <<job, state, stray>> /\ Busy(t)
    BY <1>1, Moves
  <2>2. \A u \in Threads \ {t} : ~Busy(u)' /\ ~Past(u)'
    BY <1>1, NobodyElse, Moves DEF Busy, Past
  <2> QED BY <2>1, <2>2 DEF InInit
<1>2. ASSUME NEW t \in Threads, SwitchNothing(t) \/ NoAddress(t) \/ Assign(t)
      PROVE  InInit'
  BY <1>2 DEF SwitchNothing, NoAddress, Assign, Screen, Goto, Done,
     TypeThreads, Threads, ScreenSteps, Busy, Past, InMode, InInit
<1>3. ASSUME NEW t \in Threads, SwitchState(t) \/ Address(t)
      PROVE  InInit'
  BY <1>3 DEF SwitchState, Address, Screen, Goto, Call, TypeThreads, Threads,
     ScreenSteps, Busy, Past, InMode, InInit
<1>4. CASE Connect \/ ConnectFails
  BY <1>4 DEF Connect, ConnectFails, Screen, Main, Goto, TypeThreads, Threads,
     ScreenSteps, Busy, Past, InMode, InInit
<1>5. CASE Listen \/ ListenFails
  BY <1>5 DEF Listen, ListenFails, Screen, Main, Goto, TooLate, NetOff,
     TypeThreads, Threads, ScreenSteps, Busy, Past, InMode, InInit
<1>6. CASE GiveUp \/ Leave \/ Crash
  BY <1>6 DEF GiveUp, Leave, Crash, Main, Gone, TypeThreads, Threads,
     ScreenSteps, Busy, Past, InMode, InInit
<1>7. CASE GetCurrentState \/ Ask \/ AskFails
  BY <1>7 DEF GetCurrentState, Ask, AskFails, Screen, Main, Goto, TypeThreads,
     Threads, ScreenSteps, Busy, Past, InMode, InInit
<1>8. CASE Load \/ Wake \/ Exchange \/ Exec
  BY <1>8 DEF Load, Wake, Exchange, Exec, Screen, Main, Goto, TypeThreads,
     Threads, ScreenSteps, Busy, Past, InMode, InInit
<1>9. CASE Begin
  BY <1>9, NoCrossing DEF Begin, Main, Goto, Call, TypeThreads, Threads,
     ScreenSteps, Busy, Past, InMode, InInit
<1>10. CASE Fetch
  BY <1>10, NoCrossing DEF Fetch, Main, Goto, Call, TypeThreads, Threads,
     ScreenSteps, Busy, Past, InMode, InInit
<1>11. CASE Terminate
  BY <1>11, NoCrossing DEF Terminate, Goto, Call, TypeThreads, Threads,
     ScreenSteps, Busy, Past, InMode, InInit
<1>12. CASE Signal
  BY <1>12 DEF Signal, Screen, Goto, TypeThreads, Threads, ScreenSteps, Busy,
     Past, InMode, InInit
<1>13. CASE OwnerEnds
  <2>1. UNCHANGED <<job, state, stray>>
    BY <1>13, Resumes
  <2>2. ASSUME NEW t \in Threads, job[t] = "init", Busy(t)'
        PROVE  Busy(t)
    BY <1>13, <2>2, Resumes DEF Busy, ScreenSteps
  <2>3. ASSUME NEW t \in Threads, ~Past(t)
        PROVE  ~Past(t)'
    BY <1>13, <2>3, Resumes DEF Past, ScreenSteps
  <2> QED BY <2>1, <2>2, <2>3 DEF InInit
<1>14. CASE TerminateLocked
  BY <1>14, NoCrossing
<1>15. CASE UNCHANGED <<pc, job, state, stray>>
  BY <1>15 DEF Busy, Past, InInit
<1> QED
  BY ZenonT(30), NextCases, <1>1, <1>2, <1>3, <1>4, <1>5, <1>6, <1>7, <1>8,
     <1>9, <1>10, <1>11, <1>12, <1>13, <1>14, <1>15 DEF ThreadStep, MainStep,
     OtherStep, Turn, PingStarts, PingSends, PingFails, Expire, Request,
     WriteEvent, NetworkChanges, Configure, Configured, ConfigureWifi, Notify,
     NotifyFails, Screen

\* The component fits current_state, or is about to.
LEMMA StateFitsKept ==
  ASSUME IInv, Undisturbed, Next
  PROVE  StateFits'
<1> USE DEF IInv, TypeOK, Undisturbed, RecordHolds, owner, network, server,
   update, local, asking, ping, marks, losses
<1>1. ASSUME NEW t \in Threads, Turn(t)
      PROVE  StateFits'
  <2>1. UNCHANGED <<job, state, stray>> /\ Busy(t) /\ \A u \in Threads \ {t} : ~Busy(u) /\ pc'[u] = pc[u]
    BY <1>1, NobodyElse, Moves
  <2>2. CASE Stays
    BY <2>1, <2>2 DEF Stays, Busy, Fits, StateFits
  <2>3. CASE job[t] = "exit"
    BY <2>1, <2>3 DEF InMode, Threads, StateFits
  <2>4. CASE job[t] = "init"
    BY <2>1, <2>4 DEF InInit, Fits, StateFits
  <2>5. CASE job[t] = "report"
    <3>1. CASE PutIs(t)
      <4>1. ~lapsed /\ ~stray => ctx \in {"TABLE", "STATUS"} /\ state = "NORMAL"
        BY <2>1, <2>5, <3>1 DEF PutIs, InReport
      <4> QED BY <2>1, <3>1, <4>1 DEF PutIs, Fits, StateFits
    <3>2. CASE ~PutIs(t)
      <4>1. Busy(t)' \/ Stays
        BY <1>1, <2>5, <3>2, Moves DEF Checked, Copied, GivenBack, Taken, Recorded,
           Settled, AfterSwitch, Busy, ScreenSteps
      <4> QED BY <2>1, <2>2, <2>5, <4>1 DEF StateFits
    <3> QED BY <3>1, <3>2
  <2>6. CASE job[t] = "mode"
    <3>1. /\ AfterSwitch(t, TRUE) \in {"put", "address", "assign"}
          /\ AfterPut(t) = "assign"
      BY <2>6 DEF AfterSwitch, AfterPut
    <3>2. CASE Recorded(t) \/ Settled(t) \/ PutIs(t)
      BY <2>1, <2>6, <3>1, <3>2 DEF Recorded, Settled, PutIs, StateFits
    <3>3. CASE Checked(t) \/ Copied(t) \/ GivenBack(t) \/ Taken(t)
      <4>1. pc[t] \notin {"settle", "put", "address", "assign"} /\ ctx' = ctx
        BY <3>3 DEF Checked, Copied, GivenBack, Taken
      <4>2. lapsed => lapsed'
        BY <3>3, Zenon DEF Checked, Copied, GivenBack, Taken
      <4>3. \A u \in Threads : ~(job[u] = "report" /\ Busy(u))
        BY <2>1, <2>6
      <4>4. \A u \in Threads : ~(job[u] = "mode" /\ pc[u] \in {"settle", "put", "address", "assign"})
        BY <2>1, <4>1 DEF Busy, ScreenSteps
      <4> QED BY <2>1, <4>1, <4>2, <4>3, <4>4 DEF Fits, StateFits
    <3> QED BY <1>1, <2>2, <3>2, <3>3, Moves
  <2> QED BY <2>3, <2>4, <2>5, <2>6 DEF TypeThreads, Jobs
<1>2. ASSUME NEW t \in Threads, SwitchNothing(t) \/ NoAddress(t) \/ Assign(t)
      PROVE  StateFits'
  <2>1. CASE Assign(t)
    <3>1. /\ pc[t] = "assign" /\ state' = goal[t] /\ ctx' = ctx /\ lapsed' = lapsed
          /\ ~lapsed => ctx = want[t]
          /\ want[t] = IF goal[t] = "NORMAL" THEN "TABLE" ELSE "HELPER"
      BY <2>1 DEF Assign, InMode, ModeFits, Busy
    <3> QED BY <3>1 DEF Fits, StateFits
  <2>2. CASE NoAddress(t)
    <3>1. stray'
      BY <2>2 DEF NoAddress
    <3> QED BY <3>1 DEF StateFits
  <2>3. CASE SwitchNothing(t)
    BY <2>3 DEF SwitchNothing, Screen, Goto, Done, TypeThreads, Threads,
       ScreenSteps, Busy, ExitPath, Fits, StateFits
  <2> QED BY <1>2, <2>1, <2>2, <2>3
<1>3. ASSUME NEW t \in Threads, SwitchState(t) \/ Address(t)
      PROVE  StateFits'
  <2>1. CASE Address(t)
    <3>1. job[t] = "mode" /\ pc'[t] = "put" /\ job' = job
      BY <2>1 DEF Address, Goto, TypeThreads, InMode, ModeFits
    <3> QED BY <3>1 DEF StateFits
  <2>2. CASE SwitchState(t)
    BY <2>2 DEF SwitchState, Screen, Goto, Call, TypeThreads, Threads,
       ScreenSteps, Busy, ExitPath, Fits, StateFits
  <2> QED BY <1>3, <2>1, <2>2
<1>4. CASE Connect \/ ConnectFails
  BY <1>4 DEF Connect, ConnectFails, Screen, Main, Goto, TypeThreads, Threads,
     ScreenSteps, Busy, ExitPath, Fits, StateFits
<1>5. CASE Listen \/ ListenFails
  BY <1>5 DEF Listen, ListenFails, Screen, Main, Goto, TooLate, NetOff,
     TypeThreads, Threads, ScreenSteps, Busy, ExitPath, Fits, StateFits
<1>6. CASE GiveUp \/ Leave \/ Crash
  BY <1>6 DEF GiveUp, Leave, Crash, Main, Gone, TypeThreads, Threads,
     ScreenSteps, Busy, ExitPath, Fits, StateFits
<1>7. CASE GetCurrentState \/ Ask \/ AskFails
  BY <1>7 DEF GetCurrentState, Ask, AskFails, Screen, Main, Goto, TypeThreads,
     Threads, ScreenSteps, Busy, ExitPath, Fits, StateFits
<1>8. CASE Load \/ Wake \/ Exchange \/ Exec
  BY <1>8 DEF Load, Wake, Exchange, Exec, Screen, Main, Goto, TypeThreads,
     Threads, ScreenSteps, Busy, ExitPath, Fits, StateFits
<1>9. CASE Begin
  <2>1. state' = state /\ (~stray' => state = "INIT")
    BY <1>9 DEF Begin
  <2> QED BY <2>1 DEF Fits, StateFits
<1>10. CASE Fetch
  <2>1. job'["main"] = "report" /\ pc'["main"] = "check"
    BY <1>10 DEF Fetch, Call, Goto, TypeThreads, Threads
  <2> QED BY <2>1 DEF Busy, ScreenSteps, Threads, StateFits
<1>11. CASE Terminate
  <2>1. job'["main"] = "exit"
    BY <1>11 DEF Terminate, Call, TypeThreads, Threads
  <2> QED BY <2>1 DEF StateFits
<1>12. CASE Signal
  BY <1>12 DEF Signal, Screen, Goto, TypeThreads, Threads, ScreenSteps, Busy,
     ExitPath, Fits, StateFits
<1>13. CASE Expire
  BY <1>13 DEF Expire, TypeThreads, Threads, ScreenSteps, Busy, ExitPath, Fits,
     StateFits
<1>14. CASE OwnerEnds
  <2>1. UNCHANGED <<job, ctx, lapsed, state, stray>>
    BY <1>14, Resumes
  <2>2. SUFFICES ASSUME ~lapsed, ~stray, job["main"] # "exit",
                        \A t \in Threads :
                          /\ ~(job[t] = "mode" /\ pc'[t] \in {"settle", "put", "address", "assign"})
                          /\ ~(job[t] = "report" /\ Busy(t)')
                 PROVE  Fits
    BY <2>1 DEF StateFits, Fits
  <2>3. CASE \E t \in Threads : pc[t] = "put" /\ job[t] = "report"
    BY <2>2, <2>3 DEF InReport, Fits, Busy, ScreenSteps
  <2>4. CASE \A t \in Threads : ~(pc[t] = "put" /\ job[t] = "report")
    <3>1. ASSUME NEW t \in Threads
          PROVE  /\ ~(job[t] = "mode" /\ pc[t] \in {"settle", "put", "address", "assign"})
                 /\ ~(job[t] = "report" /\ Busy(t))
      BY <1>14, <2>2, <2>4, Resumes DEF Busy, ScreenSteps, AfterPut
    <3> QED BY <2>2, <3>1 DEF StateFits
  <2> QED BY <2>3, <2>4
<1>15. CASE TerminateLocked
  BY <1>15, NoCrossing
<1>16. CASE UNCHANGED <<pc, job, state, ctx, lapsed, stray>>
  BY <1>16 DEF Busy, Fits, StateFits
<1> QED
  BY ZenonT(30), NextCases, <1>1, <1>2, <1>3, <1>4, <1>5, <1>6, <1>7, <1>8,
     <1>9, <1>10, <1>11, <1>12, <1>13, <1>14, <1>15, <1>16 DEF ThreadStep,
     MainStep, OtherStep, Turn, PingStarts, PingSends, PingFails, Request,
     WriteEvent, NetworkChanges, Configure, Configured, ConfigureWifi, Notify,
     NotifyFails, Screen

----------------------------------------------------------------------------
(* The loan, as long as no release has failed either *)

\* A release that failed stays on record.
LEMMA KeptStays ==
  ASSUME ~kept', Next
  PROVE  ~kept
<1> USE DEF marks, losses
<1>1. ASSUME NEW t \in Threads, CallFails(t)
      PROVE  ~kept
  BY <1>1, Zenon DEF CallFails
<1>2. CASE UNCHANGED <<kept>>
  BY <1>2, Zenon
<1> QED
  BY ZenonT(30), NextCases, <1>1, <1>2 DEF ThreadStep, MainStep, OtherStep,
     Check, Copy, Release, Acquire, Record, Settle, Put, SwitchNothing, Screen,
     SwitchState, Address, NoAddress, Assign, Connect, ConnectFails, Listen,
     ListenFails, Begin, GiveUp, Gone, GetCurrentState, Ask, AskFails, Load,
     Wake, Exchange, Exec, Fetch, Terminate, TerminateLocked, Leave, Crash,
     Signal, Request, WriteEvent, PingStarts, PingSends, PingFails,
     NetworkChanges, Configure, Configured, ConfigureWifi, Notify, NotifyFails,
     Expire, OwnerEnds

\* A step on the screen by a thread finds the owner as it is recorded.
LEMMA FoundAsRecorded ==
  ASSUME IInv, Undisturbed, Up, Owned, NEW t \in Threads, Turn(t)
  PROVE  /\ pc["main"] \notin {"exited", "stopped"}
         /\ \A u \in Threads \ {t} : pc[u] \notin {"acquire", "record"} /\ pc'[u] = pc[u] /\ want'[u] = want[u]
         /\ pc[t] \notin {"acquire", "record"} =>
              IF ctx = None THEN stage = "Empty"
                            ELSE place = ctx /\ (lapsed \/ stage = "Acquired")
<1>1. \A u \in Threads \ {t} : pc[u] \notin {"acquire", "record"} /\ pc'[u] = pc[u] /\ want'[u] = want[u]
  BY NobodyElse, Moves DEF Undisturbed, Past, ScreenSteps
<1>2. pc[t] \in ScreenSteps
  BY DEF Turn, Check, Copy, Release, Acquire, Record, Settle, Put, CallFails, ScreenSteps
<1>3. pc["main"] \notin {"exited", "stopped"}
  BY <1>2 DEF IInv, NetOff, Threads, ScreenSteps
<1>4. pc[t] \notin {"acquire", "record"} => \A u \in Threads : pc[u] \notin {"acquire", "record"}
  BY <1>1
<1> QED BY <1>1, <1>3, <1>4 DEF Owned

\* The owner answers such a step, and what it shows goes with the record.
LEMMA LoanTurn ==
  ASSUME IInv, Undisturbed, refused = {}, Up, Owned, ~kept', NEW t \in Threads, Turn(t)
  PROVE  refused' = {} /\ Owned'
<1> USE DEF IInv, TypeOK, TypeThreads, Goto, Rest, local, owner
<1>1. /\ pc["main"] \notin {"exited", "stopped"}
      /\ \A u \in Threads \ {t} : pc[u] \notin {"acquire", "record"} /\ pc'[u] = pc[u] /\ want'[u] = want[u]
      /\ pc[t] \notin {"acquire", "record"} =>
           IF ctx = None THEN stage = "Empty"
                         ELSE place = ctx /\ (lapsed \/ stage = "Acquired")
  BY FoundAsRecorded
<1>2. pc'["main"] \notin {"exited", "stopped"}
  BY <1>1, Moves, Returns DEF Threads, Stays, Checked, Copied, GivenBack, Taken,
     Recorded, Settled, PutIs
<1>3. CASE Check(t)
  <2>1. UNCHANGED <<place, stage, ctx, lapsed, refused>> /\ pc[t] = "check"
    BY <1>3 DEF Check, losses
  <2>2. pc'[t] \notin {"acquire", "record"}
    BY <1>3, Returns DEF Check
  <2> QED BY <1>1, <2>1, <2>2 DEF Owned
<1>4. CASE Copy(t)
  <2>1. UNCHANGED <<place, stage, ctx, lapsed, refused, want>> /\ pc[t] = "copy"
    BY <1>4 DEF Copy, losses
  <2>2. /\ pc'[t] \in {"release", "acquire", "record"}
        /\ pc'[t] # "release" => ctx = None
        /\ pc'[t] = "record" => want[t] = "RELEASE"
    BY <1>4 DEF Copy
  <2> QED BY <1>1, <2>1, <2>2 DEF Owned
<1>5. CASE Release(t)
  <2>1. pc[t] = "release" /\ had[t] = ctx /\ ctx # None
    BY <1>5 DEF Release, Undisturbed, RecordHolds, AtStep, CallsAreTyped
  <2>2. place = ctx /\ stage \in {"Empty", "Acquired"}
    BY <1>1, <2>1 DEF Owned
  <2>3. stage' = "Empty" /\ place' = place /\ refused' = refused /\ Released(t)
    BY <1>5, <2>1, <2>2 DEF Release, Accepts, Lent, NotFound
  <2>4. UNCHANGED <<ctx, want>>
    BY <1>5 DEF Release
  <2>5. pc'[t] \in {"acquire", "record"} /\ (pc'[t] = "record" => want[t] = "RELEASE")
    BY <2>3 DEF Released
  <2> QED BY <1>1, <2>2, <2>3, <2>4, <2>5 DEF Owned
<1>6. CASE Acquire(t)
  <2>1. pc[t] = "acquire" /\ stage = "Empty" /\ want[t] # "RELEASE"
    BY <1>6 DEF Acquire, Owned, CallsAreTyped
  <2>2. /\ place' = want[t] /\ stage' = "Acquired" /\ refused' = refused
        /\ pc'[t] = "record" /\ want' = want
    BY <1>6, <2>1 DEF Acquire, Accepts, Lent
  <2> QED BY <1>1, <2>1, <2>2 DEF Owned, Lent
<1>7. CASE Record(t)
  <2>1. /\ pc[t] = "record" /\ pc'[t] = "settle"
        /\ ctx' = (IF want[t] = "RELEASE" THEN None ELSE want[t])
        /\ UNCHANGED <<place, stage, refused, want>>
    BY <1>7 DEF Record
  <2>2. IF want[t] = "RELEASE" THEN stage = "Empty" ELSE Lent(want[t])
    BY <2>1 DEF Owned
  <2>3. want[t] \in Components \cup {"RELEASE"}
    OBVIOUS
  <2> QED BY <1>1, <2>1, <2>2, <2>3 DEF Owned, Lent, Components, None
<1>8. CASE Settle(t)
  <2>1. UNCHANGED <<place, stage, ctx, lapsed, refused>> /\ pc[t] = "settle"
    BY <1>8 DEF Settle, losses
  <2>2. pc'[t] \notin {"acquire", "record"}
    BY <1>8, Returns DEF Settle
  <2> QED BY <1>1, <2>1, <2>2 DEF Owned
<1>9. CASE Put(t)
  <2>1. pc[t] = "put" /\ UNCHANGED <<ctx, lapsed>>
    BY <1>9 DEF Put, losses
  <2>2. shown \in Components => ctx = shown
    BY <1>1, <2>1, NobodyElse DEF Undisturbed, RecordHolds, Named, Past, ScreenSteps
  <2>3. PutFor(t) \in Components
    BY DEF PutFor, CallsAreTyped, Jobs, Components
  <2>4. shown = PutFor(t) => place = PutFor(t) /\ stage \in {"Empty", "Acquired"}
    BY <1>1, <2>1, <2>2, <2>3 DEF Components, None, Owned
  <2>5. UNCHANGED <<place, stage, refused>> /\ Goto(t, AfterPut(t))
    BY <1>9, <2>4 DEF Put, Accepts, NotFound
  <2>6. pc'[t] \notin {"acquire", "record"}
    BY <2>5, Returns
  <2> QED BY <1>1, <2>1, <2>5, <2>6 DEF Owned
<1>10. CASE CallFails(t)
  <2>1. UNCHANGED <<place, stage, ctx, refused>> /\ pc[t] # "release"
    BY <1>10 DEF CallFails
  <2>2. pc[t] \in {"acquire", "put"} /\ pc'[t] \notin {"acquire", "record"}
    BY <1>10, <2>1, Returns DEF CallFails
  <2>3. CASE pc[t] = "acquire"
    <3>1. lapsed'
      BY <1>10, <2>3 DEF CallFails
    <3> QED BY <1>1, <2>1, <2>2, <2>3, <3>1 DEF Owned
  <2>4. CASE pc[t] = "put"
    <3>1. lapsed' = lapsed
      BY <1>10, <2>4, Zenon DEF CallFails, TypeFlags
    <3> QED BY <1>1, <2>1, <2>2, <2>4, <3>1 DEF Owned
  <2> QED BY <2>2, <2>3, <2>4
<1> QED BY <1>3, <1>4, <1>5, <1>6, <1>7, <1>8, <1>9, <1>10 DEF Turn

\* No call is dropped, and the owner shows what is recorded.
LEMMA LoanKept ==
  ASSUME IInv, Undisturbed, LoanHolds, Next
  PROVE  LoanHolds'
<1> SUFFICES ASSUME ~kept'
             PROVE  refused' = {} /\ (Up' => Owned')
  BY DEF LoanHolds
<1> USE DEF IInv, TypeOK, Undisturbed, RecordHolds, owner, network, server,
   update, local, asking, ping, marks, losses
<1>a. refused = {} /\ (Up => Owned)
  BY KeptStays, Zenon DEF LoanHolds
<1>1. ASSUME NEW t \in Threads, Turn(t)
      PROVE  refused' = {} /\ (Up' => Owned')
  <2>1. CASE Up
    BY <1>a, <1>1, <2>1, LoanTurn
  <2>2. CASE ~Up
    <3>1. UNCHANGED <<stage, refused>>
      BY <1>1, <2>2 DEF Turn, Check, Copy, Release, Acquire, Record, Settle, Put,
         CallFails
    <3> QED BY <1>a, <2>2, <3>1 DEF Up
  <2> QED BY <2>1, <2>2
<1>2. ASSUME NEW t \in Threads, SwitchNothing(t) \/ NoAddress(t) \/ Assign(t)
      PROVE  refused' = {} /\ (Up' => Owned')
  BY <1>a, <1>2 DEF SwitchNothing, NoAddress, Assign, Screen, Goto, Done,
     TypeThreads, Threads, ScreenSteps, Busy, Lent, Up, Owned
<1>3. ASSUME NEW t \in Threads, SwitchState(t) \/ Address(t)
      PROVE  refused' = {} /\ (Up' => Owned')
  BY <1>a, <1>3 DEF SwitchState, Address, Screen, Goto, Call, TypeThreads,
     Threads, ScreenSteps, Busy, Lent, Up, Owned
<1>4. CASE Connect \/ ConnectFails
  BY <1>a, <1>4 DEF Connect, ConnectFails, Screen, Main, Goto, TypeThreads,
     Threads, ScreenSteps, Busy, Lent, Up, Owned
<1>5. CASE Listen \/ ListenFails
  BY <1>a, <1>5 DEF Listen, ListenFails, Screen, Main, Goto, TooLate, NetOff,
     TypeThreads, Threads, ScreenSteps, Busy, Lent, Up, Owned
<1>6. CASE GiveUp \/ Leave \/ Crash
  BY <1>a, <1>6 DEF GiveUp, Leave, Crash, Main, Gone, TypeThreads, Threads,
     ScreenSteps, Busy, Lent, Up, Owned
<1>7. CASE GetCurrentState \/ Ask \/ AskFails
  BY <1>a, <1>7 DEF GetCurrentState, Ask, AskFails, Screen, Main, Goto,
     TypeThreads, Threads, ScreenSteps, Busy, Lent, Up, Owned
<1>8. CASE Load \/ Wake \/ Exchange \/ Exec
  BY <1>a, <1>8 DEF Load, Wake, Exchange, Exec, Screen, Main, Goto,
     TypeThreads, Threads, ScreenSteps, Busy, Lent, Up, Owned
<1>9. CASE Begin
  BY <1>a, <1>9, NoCrossing DEF Begin, Main, Goto, Call, TypeThreads, Threads,
     ScreenSteps, Busy, Lent, Up, Owned
<1>10. CASE Fetch
  BY <1>a, <1>10, NoCrossing DEF Fetch, Main, Goto, Call, TypeThreads, Threads,
     ScreenSteps, Busy, Lent, Up, Owned
<1>11. CASE Terminate
  <2>1. /\ ~Busy("main") /\ Call("main", "exit", "STATUS")
        /\ UNCHANGED <<place, stage, ctx, lapsed>>
        /\ pc["main"] \notin {"exited", "stopped"}
    BY <1>11, NoCrossing DEF Terminate
  <2>2. refused' = {}
    BY <1>a, <1>11 DEF Terminate
  <2>3. /\ pc'["main"] = "check" /\ pc'["net"] = pc["net"]
        /\ want'["net"] = want["net"]
    BY <2>1 DEF Call, Goto, TypeThreads, Threads
  <2>4. \A t \in Threads : pc'[t] \in {"acquire", "record"} <=> pc[t] \in {"acquire", "record"}
    BY <2>1, <2>3 DEF Busy, Threads, ScreenSteps
  <2>5. Up' = Up
    BY <2>1 DEF Up
  <2>6. ASSUME Owned
        PROVE  Owned'
    <3>1. \A t \in Threads : pc'[t] = "acquire" => pc[t] = "acquire"
      BY <2>1, <2>3 DEF Busy, Threads, ScreenSteps
    <3>2. \A t \in Threads : pc'[t] = "record" => pc[t] = "record" /\ want'[t] = want[t]
      BY <2>1, <2>3 DEF Busy, Threads, ScreenSteps
    <3> QED BY <2>1, <2>3, <2>4, <2>6, <3>1, <3>2 DEF Owned, Lent
  <2> QED BY <1>a, <2>2, <2>5, <2>6
<1>12. CASE Signal
  BY <1>a, <1>12 DEF Signal, Screen, Goto, TypeThreads, Threads, ScreenSteps,
     Busy, Lent, Up, Owned
<1>13. CASE PingSends
  <2>1. /\ pinger = "send" /\ pinged = ctx /\ pc["main"] \notin {"exited", "stopped"}
        /\ Up /\ \A u \in Threads : ~Past(u)
    BY <1>13 DEF PingSends, Pinging, Alone
  <2>2. ctx # None => place = ctx /\ stage \in {"Empty", "Acquired"}
    BY <1>a, <2>1 DEF Past, ScreenSteps, Owned
  <2>3. UNCHANGED <<place, stage, refused, pc, ctx, lapsed, want>>
    BY <1>13, <2>1, <2>2 DEF PingSends, Accepts, NotFound
  <2> QED BY <1>a, <2>1, <2>3 DEF Up, Lent, Owned
<1>14. CASE Expire
  <2>1. \A u \in Threads : ~Using(u)
    BY <1>a, <1>14 DEF Expire, Silent
  <2>2. \A u \in Threads : pc[u] \notin {"acquire", "record"}
    BY <2>1 DEF Using, Threads, ScreenSteps
  <2>3. Owned /\ stage = "Acquired" /\ stage' = "Empty" /\ lapsed'
    BY <1>a, <1>14 DEF Expire, Up
  <2>4. UNCHANGED <<place, refused, pc, ctx>>
    BY <1>14 DEF Expire
  <2> QED BY <1>a, <2>2, <2>3, <2>4 DEF Owned
<1>15. CASE OwnerEnds
  BY <1>15 DEF OwnerEnds, Up
<1>16. CASE TerminateLocked
  BY <1>16, NoCrossing
<1>17. CASE UNCHANGED <<pc, refused, place, stage, ctx, lapsed, want>>
  BY <1>a, <1>17 DEF Lent, Up, Owned
<1> QED
  BY ZenonT(30), NextCases, <1>1, <1>2, <1>3, <1>4, <1>5, <1>6, <1>7, <1>8,
     <1>9, <1>10, <1>11, <1>12, <1>13, <1>14, <1>15, <1>16, <1>17 DEF
     ThreadStep, MainStep, OtherStep, Turn, Request, WriteEvent, PingStarts,
     PingFails, NetworkChanges, Configure, Configured, ConfigureWifi, Notify,
     NotifyFails, Screen

\* A crossing stays on record.
LEMMA CrossedStays ==
  ASSUME ~crossed', Next
  PROVE  ~crossed
<1> USE DEF owner, network, server, update, local, asking, ping, marks
<1>1. ASSUME NEW t \in Threads, Check(t) \/ Copy(t) \/ Release(t) \/ Acquire(t)
      PROVE  ~crossed
  BY <1>1, Zenon DEF Check, Copy, Release, Acquire, Crosses
<1>2. ASSUME NEW t \in Threads, Record(t) \/ Settle(t) \/ Put(t) \/ CallFails(t)
      PROVE  ~crossed
  BY <1>2, Zenon DEF Record, Settle, Put, CallFails, Crosses
<1>3. CASE Begin \/ Fetch \/ Terminate \/ TerminateLocked
  BY <1>3, Zenon DEF Begin, Fetch, Terminate, TerminateLocked
<1>4. CASE PingStarts \/ PingSends \/ PingFails
  BY <1>4, Zenon DEF PingStarts, PingSends, PingFails, Crosses
<1>5. CASE UNCHANGED <<crossed>>
  BY <1>5, Zenon
<1> QED
  BY ZenonT(30), NextCases, <1>1, <1>2, <1>3, <1>4, <1>5 DEF ThreadStep,
     MainStep, OtherStep, SwitchNothing, Screen, SwitchState, Address,
     NoAddress, Assign, Connect, ConnectFails, Listen, ListenFails, GiveUp,
     Gone, GetCurrentState, Ask, AskFails, Load, Wake, Exchange, Exec, Leave,
     Crash, Signal, Request, WriteEvent, NetworkChanges, Configure, Configured,
     ConfigureWifi, Notify, NotifyFails, Expire, OwnerEnds

----------------------------------------------------------------------------
(* The record *)

RecordInv == ~crossed => RecordHolds /\ LoanHolds

LEMMA InitRecord == Init => RecordInv
<1> SUFFICES ASSUME Init PROVE RecordHolds /\ LoanHolds
  BY DEF RecordInv
<1>1. /\ \A t \in Threads : pc[t] \in {"connect", "off"} /\ job[t] = "mode"
      /\ job["main"] = "mode" /\ job["net"] = "mode" /\ pc["main"] = "connect"
  BY DEF Init, Threads
<1>2. Alone /\ Pinging /\ Named /\ AtStep
  BY <1>1 DEF Init, Alone, Pinging, Past, ScreenSteps, Named, AtStep, Components
<1>3. InMode /\ InReport /\ InInit
  BY <1>1 DEF InMode, ModeFits, InReport, InInit, Busy, ScreenSteps
<1>4. StateFits
  BY DEF Init, StateFits, Fits
<1>5. LoanHolds
  BY <1>1 DEF Init, LoanHolds, Owned
<1> QED BY <1>2, <1>3, <1>4, <1>5 DEF RecordHolds

LEMMA StepKeepsRecord == IInv /\ RecordInv /\ [Next]_vars => RecordInv'
<1> SUFFICES ASSUME IInv, RecordInv, [Next]_vars, ~crossed'
             PROVE  RecordHolds' /\ LoanHolds'
  BY DEF RecordInv
<1>1. CASE Next
  <2>1. Undisturbed /\ LoanHolds
    BY <1>1, CrossedStays, Zenon DEF Undisturbed, RecordInv
  <2>2. Alone' /\ Pinging' /\ Named' /\ AtStep'
    BY <1>1, <2>1, AloneKept, PingingKept, NamedKept, AtStepKept
  <2>3. InMode' /\ InReport' /\ InInit' /\ StateFits'
    BY <1>1, <2>1, InModeKept, InReportKept, InInitKept, StateFitsKept
  <2>4. LoanHolds'
    BY <1>1, <2>1, LoanKept
  <2> QED BY <2>2, <2>3, <2>4 DEF RecordHolds
<1>2. CASE UNCHANGED vars
  <2>1. RecordHolds /\ LoanHolds
    BY <1>2, Zenon DEF vars, RecordInv
  <2>2. Alone' /\ Pinging' /\ Named' /\ AtStep'
    BY <1>2, <2>1 DEF vars, RecordHolds, Alone, Pinging, Past, Named, AtStep
  <2>3. InMode' /\ InReport' /\ InInit'
    BY <1>2, <2>1 DEF vars, RecordHolds, InMode, ModeFits, InReport, InInit,
       Busy, Past
  <2>4. StateFits'
    BY <1>2, <2>1 DEF vars, RecordHolds, StateFits, Fits, Busy
  <2>5. LoanHolds'
    BY <1>2, <2>1 DEF vars, LoanHolds, Up, Owned, Lent
  <2> QED BY <2>2, <2>3, <2>4, <2>5 DEF RecordHolds
<1> QED BY <1>1, <1>2

\* Whatever fails, is lost or is taken by a state that was left: unless two
\* threads were on the screen at once, a call that the owner drops, which
\* blocks its thread for ever, follows from a release that failed.
THEOREM RefusalAlwaysHasCause == Spec => []RefusalHasCause
<1>1. RecordInv => RefusalHasCause
  BY Zenon DEF RecordInv, LoanHolds, RefusalHasCause
<1> QED BY <1>1, InitInv, StepKeepsInv, InitRecord, StepKeepsRecord, PTL DEF
   Spec

\* Unless two threads were on the screen at once: between switches the two
\* variables of the context agree whatever failed, the owner has lent what is
\* recorded unless a call to it failed since or it ended, and current_state
\* fits unless the acquire failed or the screen went its own way.
THEOREM RecordIsAlwaysTrue == Spec => []RecordIsTrue
<1>1. IInv /\ RecordInv => RecordIsTrue
  <2> SUFFICES ASSUME IInv, RecordInv, ~crossed, \A t \in Threads : Resting(t)
               PROVE  /\ shown \in Components => shown = ctx
                      /\ ~lapsed /\ ~kept /\ Up => IF ctx = None THEN stage # "Acquired" ELSE Lent(ctx)
                      /\ ~lapsed /\ ~stray => Fits
    BY DEF RecordIsTrue, Fits
  <2>1. RecordHolds /\ LoanHolds
    BY Zenon DEF RecordInv
  <2>2. /\ \A t \in Threads : pc[t] \notin ScreenSteps \cup {"address", "assign"}
        /\ pc["main"] \notin {"exited", "stopped", "leave", "stuck"}
    BY DEF Resting, ScreenSteps, Threads
  <2>3. job["main"] # "exit"
    BY <2>2 DEF IInv, ExitPath, Threads
  <2>4. shown \in Components => shown = ctx
    BY <2>1, <2>2 DEF RecordHolds, Named, ScreenSteps
  <2>5. ASSUME ~lapsed, ~kept, Up
        PROVE  IF ctx = None THEN stage # "Acquired" ELSE Lent(ctx)
    <3>1. Owned
      BY <2>1, <2>5, Zenon DEF LoanHolds
    <3>2. IF ctx = None THEN stage = "Empty"
                        ELSE place = ctx /\ (lapsed \/ stage = "Acquired")
      BY <2>2, <3>1 DEF Owned, ScreenSteps
    <3> QED BY <2>5, <3>2 DEF Lent
  <2>6. ASSUME ~lapsed, ~stray
        PROVE  Fits
    BY <2>1, <2>2, <2>3, <2>6 DEF RecordHolds, StateFits, ScreenSteps, Busy
  <2> QED BY <2>4, <2>5, <2>6
<1> QED BY <1>1, InitInv, StepKeepsInv, InitRecord, StepKeepsRecord, PTL DEF
   Spec

=============================================================================
