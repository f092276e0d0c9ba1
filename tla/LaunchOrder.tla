---------------------------- MODULE LaunchOrder ----------------------------
(***************************************************************************)
(* What the application manager promises about a boot phase, without       *)
(* passes, process ids or signals: every application is started at most    *)
(* once, after the applications it depends on have got far enough, and     *)
(* its end is final.  app_cfg/README.md states the two kinds of            *)
(* dependency; AppSupervisor implements this specification.                *)
(***************************************************************************)
CONSTANTS
  App,      \* the applications of the phase
  AfterOk,  \* <<i, j>>: i starts only after j exited with code 0
  AfterUp,  \* <<i, j>>: i starts only while j counts as running
  Orphans   \* applications with a dependency that no application satisfies

VARIABLE state  \* what the manager knows of each application

Ready(i) ==
  /\ i \notin Orphans
  /\ \A j \in App :
       /\ <<i, j>> \in AfterOk => state[j] = "ok"
       /\ <<i, j>> \in AfterUp => state[j] = "up"

\* The application is started, or starting it fails for good.
Start(i) ==
  /\ state[i] = "off"
  /\ Ready(i)
  /\ \E s \in {"up", "bad"} : state' = [state EXCEPT ![i] = s]

\* The manager learns how a started application ended.
Finish(i) ==
  /\ state[i] = "up"
  /\ \E s \in {"ok", "bad"} : state' = [state EXCEPT ![i] = s]

Init == state = [i \in App |-> "off"]

Next == \E i \in App : Start(i) \/ Finish(i)

Spec == Init /\ [][Next]_state

\* An application that stays ready is eventually started.
FairSpec == Spec /\ \A i \in App : WF_state(Start(i))
============================================================================
