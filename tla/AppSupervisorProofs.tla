------------------------ MODULE AppSupervisorProofs ------------------------
(***************************************************************************)
(* Theorems about the application manager's supervisor, for every number   *)
(* of applications, every configuration and every set of process ids.      *)
(***************************************************************************)
EXTENDS AppSupervisor, WellFoundedInduction, TLAPS

----------------------------------------------------------------------------
(* find_app_by_name *)

\* A set of table indices that is not empty has a least element.
LEMMA LeastIndex ==
  ASSUME NEW S, S \subseteq Nat, S # {}
  PROVE  \E i \in S : \A j \in S : i <= j
<1> DEFINE Less == OpToRel(<, Nat)
<1>1. IsWellFoundedOn(Less, Nat)
  BY NatLessThanWellFounded
<1>2. ASSUME NEW i \in Nat, NEW j \in Nat, j < i
      PROVE  <<j, i>> \in Less
  <2>1. <<j, i>> \in Nat \X Nat /\ <<j, i>>[1] = j /\ <<j, i>>[2] = i
    OBVIOUS
  <2> QED BY <1>2, <2>1, Zenon DEF OpToRel
<1> HIDE DEF Less
<1>3. PICK i \in S : \A j \in S : ~(<<j, i>> \in Less)
  BY <1>1, WFMin
<1>4. ASSUME NEW j \in S PROVE i <= j
  <2>1. i \in Nat /\ j \in Nat
    OBVIOUS
  <2>2. ~(j < i)
    BY <1>2, <1>3, <2>1, Zenon
  <2> QED BY <2>1, <2>2
<1> QED BY <1>4

\* The linear search returns the first entry that has the name.
LEMMA FindFirst ==
  ASSUME ConfigAssumption, NEW n
  PROVE  LET j == find_app_by_name(n) IN
         IF \E i \in Apps : Matches(n, i)
           THEN j \in Apps /\ Matches(n, j) /\ \A i \in Apps : Matches(n, i) => j <= i
           ELSE j = 0
<1>1. CASE \E i \in Apps : Matches(n, i)
  <2> DEFINE S == {i \in Apps : Matches(n, i)}
  <2>1. PICK i \in S : \A j \in S : i <= j
    <3>1. S \subseteq Nat /\ S # {}
      BY <1>1 DEF Apps, ConfigAssumption
    <3> HIDE DEF S
    <3> QED BY <3>1, LeastIndex
  <2>2. i \in Apps /\ Matches(n, i) /\ \A j \in Apps : Matches(n, j) => i <= j
    BY <2>1
  <2> QED BY <1>1, <2>2 DEF find_app_by_name
<1>2. CASE ~\E i \in Apps : Matches(n, i)
  BY <1>2 DEF find_app_by_name
<1> QED BY <1>1, <1>2

\* ExitedOk and IsRunning speak of the first entry with the name.
LEMMA PrereqFacts ==
  ASSUME ConfigAssumption, NEW n
  PROVE  /\ ExitedOk(n) <=>
              \E j \in Apps : /\ j = find_app_by_name(n)
                             /\ status[j] = "EXITED" /\ exitCode[j] = 0
         /\ IsRunning(n) <=>
              \E j \in Apps : j = find_app_by_name(n) /\ status[j] = "RUNNING"
<1>1. find_app_by_name(n) \in Apps \/ find_app_by_name(n) = 0
  BY FindFirst
<1>2. 0 \notin Apps
  BY DEF Apps
<1> QED BY <1>1, <1>2 DEF ExitedOk, IsRunning

----------------------------------------------------------------------------
(* Type correctness *)

LEMMA InitType == ASSUME ConfigAssumption, Init PROVE TypeOK
<1>1. 1 \in 1..(N + 1)
  BY DEF ConfigAssumption
<1> QED BY <1>1 DEF Init, TypeOK, AppStatus

LEMMA NextType ==
  ASSUME ConfigAssumption, KernelAssumption, TypeOK, [Next]_vars
  PROVE  TypeOK'
<1> USE DEF TypeOK, AppStatus
<1>1. ASSUME NEW i \in Apps, LaunchNotNow(i) PROVE TypeOK'
  BY <1>1 DEF LaunchNotNow, AtApp, table, kernel, Apps, ConfigAssumption
<1>2. ASSUME NEW i \in Apps, LaunchFolderError(i) PROVE TypeOK'
  BY <1>2 DEF LaunchFolderError, AtApp, kernel, Apps, ConfigAssumption
<1>3. ASSUME NEW i \in Apps, LaunchInternalError(i) PROVE TypeOK'
  BY <1>3 DEF LaunchInternalError, AtApp, kernel, Apps, ConfigAssumption
<1>4. ASSUME NEW i \in Apps, LaunchOk(i) PROVE TypeOK'
  BY <1>4 DEF LaunchOk, AtApp, FreshPids, Apps, ConfigAssumption
<1>5. ASSUME EndPass PROVE TypeOK'
  <2>1. 1 \in 1..(N + 1)
    BY DEF ConfigAssumption
  <2> QED BY <1>5, <2>1 DEF EndPass, table, kernel
<1>6. ASSUME TakeSignal PROVE TypeOK'
  BY <1>6 DEF TakeSignal, table
<1>7. ASSUME ReapOne PROVE TypeOK'
  <2>1. PICK p \in Zombies :
          /\ life' = [life EXCEPT ![p] = "unused"]
          /\ IF \E i \in Apps : pid[i] = p
               THEN /\ status' = [status EXCEPT ![FirstWithPid(p)] = EndStatus(wstatus[p])]
                    /\ exitCode' = [exitCode EXCEPT ![FirstWithPid(p)] = wstatus[p]]
               ELSE UNCHANGED <<status, exitCode>>
    BY <1>7 DEF ReapOne
  <2>2. p \in Pids /\ EndStatus(wstatus[p]) \in {"EXITED", "KILLED"}
    BY DEF Zombies, EndStatus
  <2>3. status' \in [Apps -> AppStatus] /\ exitCode' \in [Apps -> ExitCodes \cup {0, Killed}]
    BY <2>1, <2>2
  <2> QED BY <1>7, <2>1, <2>2, <2>3 DEF ReapOne
<1>8. ASSUME ReapDone PROVE TypeOK'
  BY <1>8 DEF ReapDone, table, kernel
<1>9. ASSUME NEW p \in Pids, ProcessExits(p) \/ ProcessKilled(p) PROVE TypeOK'
  <2>1. PICK how \in ExitCodes \cup {0, Killed} : End(p, how)
    BY <1>9 DEF ProcessExits, ProcessKilled
  <2> QED BY <2>1 DEF End, table
<1>10. CASE UNCHANGED vars
  BY <1>10 DEF vars
<1> QED
  BY <1>1, <1>2, <1>3, <1>4, <1>5, <1>6, <1>7, <1>8, <1>9, <1>10
  DEF Next, Supervisor, launch_app

(* The variables of the model keep their types, for every configuration.   *)
THEOREM TypeCorrect == Spec => []TypeOK
<1>1. Init => TypeOK
  BY InitType, ConfigAssumption
<1>2. TypeOK /\ [Next]_vars => TypeOK'
  BY NextType, ConfigAssumption, KernelAssumption
<1> QED BY <1>1, <1>2, PTL DEF Spec

----------------------------------------------------------------------------
(* No exit is lost *)

(* While the supervisor thread is not reaping, a zombie means a pending    *)
(* SIGCHLD: the coalescing of signals never strands an ended child.        *)
THEOREM NoExitLost == Spec => []NoLostExit
<1>1. Init => NoLostExit
  BY DEF Init, NoLostExit, Zombies
<1>2. ASSUME TypeOK, NoLostExit, [Next]_vars
      PROVE  NoLostExit'
  <2> USE <1>2 DEF TypeOK, NoLostExit, Zombies
  <2>1. ASSUME NEW i \in Apps, launch_app(i) PROVE NoLostExit'
    BY <2>1 DEF launch_app, LaunchNotNow, LaunchFolderError, LaunchInternalError,
                LaunchOk, kernel
  <2>2. CASE EndPass \/ TakeSignal \/ ReapOne \/ ReapDone
    BY <2>2 DEF EndPass, TakeSignal, ReapOne, ReapDone, kernel
  <2>3. ASSUME NEW p \in Pids, ProcessExits(p) \/ ProcessKilled(p) PROVE NoLostExit'
    BY <2>3 DEF ProcessExits, ProcessKilled, End
  <2>4. CASE UNCHANGED vars
    BY <2>4 DEF vars
  <2> QED BY <2>1, <2>2, <2>3, <2>4 DEF Next, Supervisor
<1> QED BY <1>1, <1>2, TypeCorrect, PTL DEF Spec

----------------------------------------------------------------------------
(* The table agrees with the kernel, as long as no process id is used twice *)

\* No two entries of the table hold the same process id.
IdsDistinct == \A i, j \in Apps : pid[i] \in Pids /\ pid[i] = pid[j] => i = j

KernelInv == TypeOK /\ IdsDistinct /\ TableMatchesKernel

\* reap_children attributes an ended child to the application that runs as it.
LEMMA ReapsTheOwner ==
  ASSUME KernelInv, NEW p \in Zombies
  PROVE  /\ p \in Pids /\ life[p] = "zombie"
         /\ owner[p] \in Apps
         /\ status[owner[p]] = "RUNNING"
         /\ pid[owner[p]] = p
         /\ \E i \in Apps : pid[i] = p
         /\ FirstWithPid(p) = owner[p]
<1>1. p \in Pids /\ life[p] = "zombie"
  BY DEF Zombies
<1>2. owner[p] \in Apps /\ status[owner[p]] = "RUNNING" /\ pid[owner[p]] = p
  BY <1>1 DEF KernelInv, TableMatchesKernel
<1>3. \A i \in Apps : pid[i] = p <=> i = owner[p]
  BY <1>1, <1>2 DEF KernelInv, IdsDistinct
<1>4. owner[p] <= owner[p]
  BY <1>2 DEF Apps
<1>5. FirstWithPid(p) = owner[p]
  BY <1>2, <1>3, <1>4 DEF FirstWithPid
<1> QED BY <1>1, <1>2, <1>5

LEMMA KernelStep ==
  ASSUME ConfigAssumption, KernelAssumption, ~PidReuse, KernelInv, [Next]_vars
  PROVE  KernelInv'
<1>1. TypeOK'
  BY NextType DEF KernelInv
<1>2. ASSUME NEW i \in Apps, LaunchNotNow(i) PROVE KernelInv'
  BY <1>1, <1>2 DEF LaunchNotNow, table, kernel, KernelInv, IdsDistinct, TableMatchesKernel
<1>3. ASSUME NEW i \in Apps, LaunchFolderError(i) \/ LaunchInternalError(i)
      PROVE  KernelInv'
  <2>1. /\ status[i] = "NOT_STARTED"
        /\ status' = [status EXCEPT ![i] = "FAILED"]
        /\ pid' = [pid EXCEPT ![i] = FailedPid]
        /\ UNCHANGED <<life, owner>>
    BY <1>3 DEF LaunchFolderError, LaunchInternalError, CanLaunch, kernel
  <2>2. IdsDistinct'
    BY <2>1, KernelAssumption DEF KernelInv, TypeOK, IdsDistinct
  <2>3. TableMatchesKernel'
    BY <2>1 DEF KernelInv, TypeOK, TableMatchesKernel
  <2> QED BY <1>1, <2>2, <2>3 DEF KernelInv
<1>4. ASSUME NEW i \in Apps, LaunchOk(i) PROVE KernelInv'
  <2>1. PICK p \in FreshPids :
          /\ pid' = [pid EXCEPT ![i] = p]
          /\ life' = [life EXCEPT ![p] = "alive"]
          /\ owner' = [owner EXCEPT ![p] = i]
    BY <1>4 DEF LaunchOk
  <2>2. status[i] = "NOT_STARTED" /\ status' = [status EXCEPT ![i] = "RUNNING"]
    BY <1>4 DEF LaunchOk, CanLaunch
  <2>3. p \in Pids /\ life[p] = "unused" /\ \A j \in Apps : pid[j] # p
    BY DEF FreshPids
  <2>4. IdsDistinct'
    BY <2>1, <2>3 DEF KernelInv, TypeOK, IdsDistinct
  <2>5. TableMatchesKernel'
    BY <2>1, <2>2, <2>3 DEF KernelInv, TypeOK, TableMatchesKernel
  <2> QED BY <1>1, <2>4, <2>5 DEF KernelInv
<1>5. ASSUME EndPass \/ TakeSignal \/ ReapDone PROVE KernelInv'
  BY <1>1, <1>5 DEF EndPass, TakeSignal, ReapDone, table, kernel, KernelInv,
                    IdsDistinct, TableMatchesKernel
<1>6. ASSUME ReapOne PROVE KernelInv'
  <2>1. PICK p \in Zombies :
          /\ life' = [life EXCEPT ![p] = "unused"]
          /\ status' = [status EXCEPT ![owner[p]] = EndStatus(wstatus[p])]
    BY <1>6, ReapsTheOwner DEF ReapOne
  <2>2. UNCHANGED <<pid, owner>>
    BY <1>6 DEF ReapOne
  <2>3. EndStatus(wstatus[p]) # "RUNNING"
    BY DEF EndStatus
  <2>4. p \in Pids /\ owner[p] \in Apps /\ pid[owner[p]] = p
    BY ReapsTheOwner
  <2>5. TableMatchesKernel'
    BY <2>1, <2>2, <2>3, <2>4 DEF KernelInv, TypeOK, TableMatchesKernel
  <2> QED BY <1>1, <2>2, <2>5 DEF KernelInv, IdsDistinct
<1>7. ASSUME NEW p \in Pids, ProcessExits(p) \/ ProcessKilled(p) PROVE KernelInv'
  <2>1. /\ life[p] = "alive" /\ life' = [life EXCEPT ![p] = "zombie"]
        /\ UNCHANGED <<status, pid, owner>>
    BY <1>7 DEF ProcessExits, ProcessKilled, End, table
  <2> QED BY <1>1, <2>1 DEF KernelInv, TypeOK, IdsDistinct, TableMatchesKernel
<1>8. CASE UNCHANGED vars
  BY <1>1, <1>8 DEF vars, KernelInv, IdsDistinct, TableMatchesKernel
<1> QED
  BY <1>2, <1>3, <1>4, <1>5, <1>6, <1>7, <1>8 DEF Next, Supervisor, launch_app

LEMMA KernelInvariant == ~PidReuse /\ Spec => []KernelInv
<1>1. Init => KernelInv
  <2> SUFFICES ASSUME Init PROVE KernelInv
    OBVIOUS
  <2>1. TypeOK
    BY InitType, ConfigAssumption
  <2>2. IdsDistinct /\ TableMatchesKernel
    BY KernelAssumption DEF Init, IdsDistinct, TableMatchesKernel
  <2> QED BY <2>1, <2>2 DEF KernelInv
<1>2. ~PidReuse /\ KernelInv /\ [Next]_vars => KernelInv'
  BY KernelStep, ConfigAssumption, KernelAssumption
<1>3. CASE PidReuse
  BY <1>3
<1>4. CASE ~PidReuse
  <2>1. KernelInv /\ [Next]_vars => KernelInv'
    BY <1>2, <1>4
  <2> QED BY <1>1, <2>1, PTL DEF Spec
<1> QED BY <1>3, <1>4

(* Without reuse of process ids, an application is RUNNING in the table    *)
(* exactly as long as the child it was launched as is not reaped.          *)
THEOREM TableIsRight == ~PidReuse /\ Spec => []TableMatchesKernel
<1>1. KernelInv => TableMatchesKernel
  BY DEF KernelInv
<1> QED BY <1>1, KernelInvariant, PTL

(* Without reuse of process ids, every end of a child is recorded for the  *)
(* application that was launched as that child, and for no other.          *)
THEOREM EndsRecorded == ~PidReuse /\ Spec => ExitRecorded
<1> DEFINE Recorded ==
      \A p \in Pids : life[p] = "zombie" /\ life'[p] = "unused" =>
        \A i \in Apps :
          IF i = owner[p]
            THEN /\ status'[i] = EndStatus(wstatus[p])
                 /\ exitCode'[i] = wstatus[p]
            ELSE UNCHANGED <<status[i], exitCode[i]>>
<1>1. ASSUME KernelInv, [Next]_vars PROVE [Recorded]_vars
  <2> SUFFICES ASSUME NEW p \in Pids, life[p] = "zombie", life'[p] = "unused"
               PROVE  /\ status' = [status EXCEPT ![owner[p]] = EndStatus(wstatus[p])]
                      /\ exitCode' = [exitCode EXCEPT ![owner[p]] = wstatus[p]]
    BY <1>1 DEF KernelInv, TypeOK
  <2>1. ReapOne
    BY <1>1 DEF Next, Supervisor, launch_app, LaunchNotNow, LaunchFolderError,
                LaunchInternalError, LaunchOk, EndPass, TakeSignal, ReapDone,
                ProcessExits, ProcessKilled, End, kernel, vars, KernelInv, TypeOK,
                FreshPids
  <2>2. PICK q \in Zombies :
          /\ life' = [life EXCEPT ![q] = "unused"]
          /\ IF \E i \in Apps : pid[i] = q
               THEN /\ status' = [status EXCEPT ![FirstWithPid(q)] = EndStatus(wstatus[q])]
                    /\ exitCode' = [exitCode EXCEPT ![FirstWithPid(q)] = wstatus[q]]
               ELSE UNCHANGED <<status, exitCode>>
    BY <2>1 DEF ReapOne
  <2>3. (\E i \in Apps : pid[i] = q) /\ FirstWithPid(q) = owner[q]
    BY <1>1, ReapsTheOwner
  <2>4. q = p
    BY <1>1, <2>2 DEF KernelInv, TypeOK
  <2> QED BY <2>2, <2>3, <2>4
<1>2. ~PidReuse /\ Spec => [][Recorded]_vars
  BY <1>1, KernelInvariant, PTL DEF Spec
<1> QED BY <1>2 DEF ExitRecorded

----------------------------------------------------------------------------
(* Prerequisites *)

\* Only a RUNNING entry is updated by a reap, and only an entry that was
\* never started can lose its name.
LEMMA EntrySteps ==
  ASSUME KernelInv, [Next]_vars, NEW j \in Apps
  PROVE  /\ status[j] \notin {"NOT_STARTED", "RUNNING"} =>
              status'[j] = status[j] /\ exitCode'[j] = exitCode[j]
         /\ status[j] # "NOT_STARTED" => named'[j] = named[j]
         /\ named'[j] => named[j]
<1> USE DEF KernelInv, TypeOK
<1>1. ASSUME NEW i \in Apps, launch_app(i)
      PROVE  /\ i # j => UNCHANGED <<status[j], exitCode[j], named[j]>>
             /\ UNCHANGED <<status[j], exitCode[j], named[j]>> \/ status[i] = "NOT_STARTED"
             /\ named'[j] => named[j]
  BY <1>1 DEF launch_app, LaunchNotNow, LaunchFolderError, LaunchInternalError,
              LaunchOk, CanLaunch, table
<1>2. CASE ReapOne
  <2>1. PICK p \in Zombies :
          IF \E i \in Apps : pid[i] = p
            THEN /\ status' = [status EXCEPT ![FirstWithPid(p)] = EndStatus(wstatus[p])]
                 /\ exitCode' = [exitCode EXCEPT ![FirstWithPid(p)] = wstatus[p]]
            ELSE UNCHANGED <<status, exitCode>>
    BY <1>2 DEF ReapOne
  <2>2. status[FirstWithPid(p)] = "RUNNING" /\ \E i \in Apps : pid[i] = p
    BY ReapsTheOwner
  <2> QED BY <1>2, <2>1, <2>2 DEF ReapOne
<1>3. CASE EndPass \/ TakeSignal \/ ReapDone
  BY <1>3 DEF EndPass, TakeSignal, ReapDone, table
<1>4. ASSUME NEW p \in Pids, ProcessExits(p) \/ ProcessKilled(p)
      PROVE  UNCHANGED table
  BY <1>4 DEF ProcessExits, ProcessKilled, End
<1>5. CASE UNCHANGED table \/ UNCHANGED vars
  BY <1>5 DEF table, vars
<1> QED BY <1>1, <1>2, <1>3, <1>4, <1>5 DEF Next, Supervisor

\* Once a prerequisite has exited with code 0, it stays found and stays so.
LEMMA ExitedOkStable ==
  ASSUME ConfigAssumption, KernelInv, [Next]_vars, NEW n, ExitedOk(n)
  PROVE  ExitedOk(n)'
<1>1. PICK j \in Apps :
        /\ Matches(n, j)
        /\ \A i \in Apps : Matches(n, i) => j <= i
        /\ status[j] = "EXITED" /\ exitCode[j] = 0
  <2>1. PICK j \in Apps : /\ j = find_app_by_name(n)
                          /\ status[j] = "EXITED" /\ exitCode[j] = 0
    BY PrereqFacts
  <2>2. j # 0
    BY DEF Apps
  <2>3. Matches(n, j) /\ \A i \in Apps : Matches(n, i) => j <= i
    BY <2>1, <2>2, FindFirst
  <2> QED BY <2>1, <2>3
<1>2. status'[j] = "EXITED" /\ exitCode'[j] = 0 /\ Matches(n, j)'
  BY <1>1, EntrySteps DEF Matches
<1>3. \A i \in Apps : Matches(n, i)' => j <= i
  BY <1>1, EntrySteps DEF Matches
<1>4. \A i \in Apps : i <= j /\ j <= i => i = j
  BY DEF Apps
<1>5. find_app_by_name(n)' = j
  BY <1>1, <1>2, <1>3, <1>4 DEF find_app_by_name
<1>6. j # 0
  BY <1>1 DEF Apps
<1> QED BY <1>2, <1>5, <1>6 DEF ExitedOk

(* Without reuse of process ids: whatever was launched, or failed to, has  *)
(* an after_exited prerequisite that is found and exited with code 0, in   *)
(* every later state too.                                                  *)
THEOREM PrerequisitesHonoured == ~PidReuse /\ Spec => []PrereqHonoured
<1>1. Init => PrereqHonoured
  BY DEF Init, PrereqHonoured
<1>2. ASSUME KernelInv, PrereqHonoured, [Next]_vars
      PROVE  PrereqHonoured'
  <2> SUFFICES ASSUME NEW i \in Apps, status'[i] # "NOT_STARTED", AfterExited[i] # NoName
               PROVE  ExitedOk(AfterExited[i])'
    BY DEF PrereqHonoured
  <2>1. CASE ExitedOk(AfterExited[i])
    BY <1>2, <2>1, ExitedOkStable, ConfigAssumption
  <2>2. CASE ~ExitedOk(AfterExited[i])
    <3>1. status[i] = "NOT_STARTED" /\ ~CanLaunch(i)
      BY <1>2, <2>2 DEF PrereqHonoured, CanLaunch, check_prerequisites
    <3>2. ASSUME NEW k \in Apps, launch_app(k) PROVE status'[i] = status[i]
      BY <1>2, <3>1, <3>2 DEF launch_app, LaunchNotNow, LaunchFolderError,
                              LaunchInternalError, LaunchOk, table, KernelInv, TypeOK
    <3>3. ASSUME ReapOne PROVE status'[i] = status[i]
      <4>1. PICK p \in Zombies :
              \/ status' = [status EXCEPT ![FirstWithPid(p)] = EndStatus(wstatus[p])]
              \/ UNCHANGED status
        BY <3>3 DEF ReapOne
      <4>2. status[FirstWithPid(p)] = "RUNNING"
        BY <1>2, ReapsTheOwner
      <4> QED BY <1>2, <3>1, <4>1, <4>2 DEF KernelInv, TypeOK
    <3>4. ASSUME \/ EndPass \/ TakeSignal \/ ReapDone \/ UNCHANGED vars
                 \/ \E p \in Pids : ProcessExits(p) \/ ProcessKilled(p)
          PROVE  status'[i] = status[i]
      BY <3>4 DEF EndPass, TakeSignal, ReapDone, vars, table, ProcessExits, ProcessKilled, End
    <3> QED BY <1>2, <3>1, <3>2, <3>3, <3>4 DEF Next, Supervisor
  <2> QED BY <2>1, <2>2
<1> QED BY <1>1, <1>2, KernelInvariant, PTL DEF Spec

----------------------------------------------------------------------------
(* A whole pass that launches nothing leaves nothing to launch *)

\* The entries the current pass has gone over without launching any
\* application still cannot be launched.
PassInv ==
  /\ pc # "trigger" => idx = 1 /\ ~launched
  /\ pc = "trigger" /\ ~launched => \A i \in Apps : i < idx => ~CanLaunch(i)
  /\ ChainsResolved

\* With unique names, the entry that has the name is the one that is found.
LEMMA FindUnique ==
  ASSUME ConfigAssumption, UniqueNames, NEW n, NEW j \in Apps, Matches(n, j)
  PROVE  find_app_by_name(n) = j
  BY FindFirst DEF UniqueNames, Matches

\* An application that turns from NOT_STARTED to FAILED releases nobody.
LEMMA FailureReleasesNobody ==
  ASSUME ConfigAssumption, UniqueNames, TypeOK, NEW i \in Apps, AtApp(i),
         LaunchFolderError(i) \/ LaunchInternalError(i),
         NEW k \in Apps, ~CanLaunch(k)
  PROVE  ~CanLaunch(k)'
<1>1. /\ status' = [status EXCEPT ![i] = "FAILED"]
      /\ UNCHANGED exitCode
      /\ \A j \in Apps : named'[j] => named[j]
  BY DEF LaunchFolderError, LaunchInternalError, TypeOK
<1>2. ASSUME NEW n, find_app_by_name(n)' # 0
      PROVE  /\ find_app_by_name(n)' \in Apps
             /\ find_app_by_name(n) = find_app_by_name(n)'
  <2>1. PICK j \in Apps : Matches(n, j)'
    BY <1>2 DEF find_app_by_name
  <2>2. Matches(n, j)
    BY <1>1, <2>1 DEF Matches
  <2>3. \A m \in Apps : Matches(n, m)' => m = j
    BY <2>1 DEF Matches, UniqueNames
  <2>4. j <= j
    BY DEF Apps
  <2>5. find_app_by_name(n)' = j
    BY <2>1, <2>3, <2>4 DEF find_app_by_name
  <2> QED BY <2>2, <2>5, FindUnique
<1>3. ASSUME NEW n, ExitedOk(n)' PROVE ExitedOk(n)
  BY <1>1, <1>2, <1>3 DEF ExitedOk, TypeOK
<1>4. ASSUME NEW n, IsRunning(n)' PROVE IsRunning(n)
  BY <1>1, <1>2, <1>4 DEF IsRunning, TypeOK
<1>5. status'[k] = "NOT_STARTED" => status[k] = "NOT_STARTED"
  BY <1>1 DEF TypeOK
<1> QED BY <1>3, <1>4, <1>5 DEF CanLaunch, check_prerequisites

LEMMA PassStep ==
  ASSUME ConfigAssumption, KernelAssumption, UniqueNames, TypeOK, PassInv, [Next]_vars
  PROVE  PassInv'
<1> USE DEF PassInv, ChainsResolved
<1>1. \A i \in Apps : UNCHANGED table => CanLaunch(i)' = CanLaunch(i)
  BY DEF table, CanLaunch, check_prerequisites, ExitedOk, IsRunning,
         find_app_by_name, Matches
<1>2. ASSUME NEW i \in Apps, LaunchNotNow(i) PROVE PassInv'
  <2>1. /\ pc = "trigger" /\ idx = i /\ idx' = i + 1 /\ ~CanLaunch(i)
        /\ UNCHANGED <<pc, launched>> /\ UNCHANGED table
    BY <1>2 DEF LaunchNotNow, AtApp
  <2>2. \A k \in Apps : k < i + 1 => k < i \/ k = i
    BY DEF Apps
  <2> QED BY <1>1, <2>1, <2>2
<1>3. ASSUME NEW i \in Apps, LaunchFolderError(i) \/ LaunchInternalError(i)
      PROVE  PassInv'
  <2>1. /\ AtApp(i) /\ idx' = i + 1 /\ pc = "trigger" /\ idx = i
        /\ UNCHANGED <<pc, launched>> /\ status'[i] = "FAILED"
    BY <1>3 DEF LaunchFolderError, LaunchInternalError, AtApp, TypeOK
  <2>2. ~CanLaunch(i)'
    BY <2>1 DEF CanLaunch
  <2>3. \A k \in Apps : ~CanLaunch(k) => ~CanLaunch(k)'
    BY <1>3, <2>1, FailureReleasesNobody
  <2>4. \A k \in Apps : k < i + 1 => k < i \/ k = i
    BY DEF Apps
  <2> QED BY <2>1, <2>2, <2>3, <2>4
<1>4. ASSUME NEW i \in Apps, LaunchOk(i) PROVE PassInv'
  BY <1>4 DEF LaunchOk, AtApp
<1>5. CASE EndPass
  <2>1. \A i \in Apps : i < N + 1
    BY ConfigAssumption DEF Apps
  <2>2. \A i \in Apps : ~(i < 1)
    BY DEF Apps
  <2> QED BY <1>1, <1>5, <2>1, <2>2 DEF EndPass
<1>6. CASE TakeSignal \/ ReapOne
  BY <1>6 DEF TakeSignal, ReapOne
<1>7. CASE ReapDone
  <2>1. pc' = "trigger" /\ idx' = 1
    BY <1>7 DEF ReapDone
  <2> QED BY <2>1, <1>7 DEF ReapDone, Apps
<1>8. ASSUME NEW p \in Pids, ProcessExits(p) \/ ProcessKilled(p) PROVE PassInv'
  <2>1. UNCHANGED table /\ UNCHANGED <<pc, idx, launched>>
    BY <1>8 DEF ProcessExits, ProcessKilled, End
  <2> QED BY <1>1, <2>1
<1>9. CASE UNCHANGED vars
  <2>1. UNCHANGED table /\ UNCHANGED <<pc, idx, launched>>
    BY <1>9 DEF vars, table
  <2> QED BY <1>1, <2>1
<1> QED
  BY <1>2, <1>3, <1>4, <1>5, <1>6, <1>7, <1>8, <1>9 DEF Next, Supervisor, launch_app

(* Unique names, any order of the configuration: when the supervisor       *)
(* thread goes to sleep, no application is left that could be launched.    *)
THEOREM ChainsAreResolved == UniqueNames /\ Spec => []ChainsResolved
<1>1. Init => PassInv
  BY DEF Init, PassInv, ChainsResolved, Apps
<1>2. UniqueNames /\ TypeOK /\ PassInv /\ [Next]_vars => PassInv'
  BY PassStep, ConfigAssumption, KernelAssumption
<1>3. PassInv => ChainsResolved
  BY DEF PassInv
<1>4. CASE ~UniqueNames
  BY <1>4
<1>5. CASE UniqueNames
  <2>1. TypeOK /\ PassInv /\ [Next]_vars => PassInv'
    BY <1>2, <1>5
  <2> QED BY <1>1, <1>3, <2>1, TypeCorrect, PTL DEF Spec
<1> QED BY <1>4, <1>5

----------------------------------------------------------------------------
(* However short a prerequisite lives *)

\* The application i waits only for the start of j, and j was started.
Released(i, j) ==
  /\ AfterExited[i] = NoName /\ AfterStarted[i] # NoName
  /\ Matches(AfterStarted[i], j)
  /\ pid[j] \in Pids

\* Until i is launched the passes go on, and j is not reaped.
SeenOrDue ==
  \A i, j \in Apps :
    Released(i, j) /\ status[i] = "NOT_STARTED" =>
      status[j] = "RUNNING" /\ pc = "trigger"

\* Every step keeps it so.
LEMMA SeenStep ==
  ASSUME ConfigAssumption, KernelAssumption, UniqueNames, TypeOK, PassInv,
         SeenOrDue, [Next]_vars
  PROVE  SeenOrDue'
<1>1. ASSUME NEW k \in Apps, launch_app(k), ~LaunchNotNow(k) PROVE SeenOrDue'
  <2>1. /\ pc = "trigger" /\ pc' = "trigger"
        /\ \E s \in {"RUNNING", "FAILED"} : status' = [status EXCEPT ![k] = s]
        /\ \E p \in Pids \cup {FailedPid} : pid' = [pid EXCEPT ![k] = p]
        /\ \A j \in Apps : named'[j] => named[j]
        /\ pid'[k] \in Pids => status'[k] = "RUNNING"
    BY <1>1, KernelAssumption DEF launch_app, LaunchFolderError,
       LaunchInternalError, LaunchOk, FreshPids, AtApp, TypeOK
  <2> SUFFICES ASSUME NEW i \in Apps, NEW j \in Apps, Released(i, j)',
                      status'[i] = "NOT_STARTED"
               PROVE  status'[j] = "RUNNING"
    BY <2>1 DEF SeenOrDue
  <2>2. CASE j = k
    BY <2>1, <2>2 DEF Released
  <2>3. CASE j # k
    <3>1. status[i] = "NOT_STARTED" /\ status'[j] = status[j] /\ pid'[j] = pid[j]
      BY <2>1, <2>3 DEF TypeOK
    <3>2. Released(i, j)
      BY <2>1, <3>1 DEF Released, Matches
    <3> QED BY <3>1, <3>2 DEF SeenOrDue
  <2> QED BY <2>2, <2>3
<1>2. CASE EndPass
  <2>1. UNCHANGED table /\ pc = "trigger" /\ idx = N + 1
        /\ pc' = IF launched THEN "trigger" ELSE "wait"
    BY <1>2 DEF EndPass
  <2>2. CASE launched
    BY <2>1, <2>2 DEF table, SeenOrDue, Released, Matches
  <2>3. CASE ~launched
    <3>1. \A i \in Apps : ~CanLaunch(i)
      BY <2>1, <2>3, ConfigAssumption DEF PassInv, Apps
    <3>2. ASSUME NEW i \in Apps, NEW j \in Apps, Released(i, j),
                 status[i] = "NOT_STARTED"
          PROVE  FALSE
      <4>1. status[j] = "RUNNING" /\ find_app_by_name(AfterStarted[i]) = j
        BY <3>2, FindUnique DEF SeenOrDue, Released
      <4>2. j # 0
        BY DEF Apps
      <4> QED BY <3>1, <3>2, <4>1, <4>2
            DEF CanLaunch, check_prerequisites, IsRunning, Released
    <3> QED BY <2>1, <3>2 DEF table, SeenOrDue, Released, Matches
  <2> QED BY <2>2, <2>3
<1>3. CASE ReapOne
  <2>1. UNCHANGED <<pid, named, pc>> /\ pc = "reap"
    BY <1>3 DEF ReapOne
  <2>2. \A i \in Apps : status'[i] = "NOT_STARTED" => status[i] = "NOT_STARTED"
    BY <1>3 DEF ReapOne, EndStatus, TypeOK
  <2> QED BY <2>1, <2>2 DEF SeenOrDue, Released, Matches
<1>4. ASSUME \/ \E i \in Apps : LaunchNotNow(i)
             \/ TakeSignal \/ ReapDone \/ UNCHANGED vars
             \/ \E p \in Pids : ProcessExits(p) \/ ProcessKilled(p)
      PROVE  SeenOrDue'
  <2>1. UNCHANGED <<status, pid, named>> /\ (UNCHANGED pc \/ pc # "trigger")
    BY <1>4 DEF LaunchNotNow, TakeSignal, ReapDone, vars, table, ProcessExits,
       ProcessKilled, End
  <2> QED BY <2>1 DEF SeenOrDue, Released, Matches
<1> QED
  BY <1>1, <1>2, <1>3, <1>4 DEF Next, Supervisor, launch_app

(* Unique names, and process ids used again or not: an application that    *)
(* waits only for the start of another one does not miss it, however soon  *)
(* that one ends.  The end is reaped only after a pass that launched       *)
(* nothing, and such a pass finds the other one RUNNING.                   *)
THEOREM ShortLivedIsSeen == UniqueNames /\ Spec => []ShortLivedSeen
<1>1. Init => PassInv /\ SeenOrDue
  BY KernelAssumption
     DEF Init, PassInv, ChainsResolved, Apps, SeenOrDue, Released
<1>2. UniqueNames /\ TypeOK /\ (PassInv /\ SeenOrDue) /\ [Next]_vars =>
        (PassInv /\ SeenOrDue)'
  BY PassStep, SeenStep, ConfigAssumption, KernelAssumption
<1>3. SeenOrDue => ShortLivedSeen
  <2> SUFFICES ASSUME SeenOrDue, pc = "wait", NEW i \in Apps,
                      AfterExited[i] = NoName, AfterStarted[i] # NoName,
                      find_app_by_name(AfterStarted[i]) # 0,
                      pid[find_app_by_name(AfterStarted[i])] \in Pids
               PROVE  status[i] # "NOT_STARTED"
    BY DEF ShortLivedSeen
  <2>1. PICK j \in Apps : /\ j = find_app_by_name(AfterStarted[i])
                          /\ Matches(AfterStarted[i], j)
    BY FindFirst, ConfigAssumption
  <2> QED BY <2>1 DEF SeenOrDue, Released
<1>4. CASE ~UniqueNames
  BY <1>4
<1>5. CASE UniqueNames
  <2>1. TypeOK /\ (PassInv /\ SeenOrDue) /\ [Next]_vars => (PassInv /\ SeenOrDue)'
    BY <1>2, <1>5
  <2> QED BY <1>1, <1>3, <2>1, TypeCorrect, PTL DEF Spec
<1> QED BY <1>4, <1>5

----------------------------------------------------------------------------
(* Refinement of LaunchOrder *)

\* What LaunchOrder calls state.
Known == [i \in Apps |-> KnownState(i)]

\* An application that can be launched is ready in the sense of LaunchOrder.
LEMMA LaunchableIsReady ==
  ASSUME ConfigAssumption, UniqueNames, NEW i \in Apps, CanLaunch(i)
  PROVE  Order!Ready(i)
<1>1. ASSUME AfterExited[i] # NoName
      PROVE  \E j \in Apps : /\ Name[j] = AfterExited[i]
                             /\ status[j] = "EXITED" /\ exitCode[j] = 0
  <2>1. PICK j \in Apps : /\ j = find_app_by_name(AfterExited[i])
                          /\ status[j] = "EXITED" /\ exitCode[j] = 0
    BY <1>1, PrereqFacts DEF CanLaunch, check_prerequisites
  <2>2. j # 0
    BY DEF Apps
  <2>3. Matches(AfterExited[i], j)
    BY <2>1, <2>2, FindFirst
  <2> QED BY <2>1, <2>3 DEF Matches
<1>2. ASSUME AfterStarted[i] # NoName
      PROVE  \E j \in Apps : Name[j] = AfterStarted[i] /\ status[j] = "RUNNING"
  <2>1. PICK j \in Apps : /\ j = find_app_by_name(AfterStarted[i])
                          /\ status[j] = "RUNNING"
    BY <1>2, PrereqFacts DEF CanLaunch, check_prerequisites
  <2>2. j # 0
    BY DEF Apps
  <2>3. Matches(AfterStarted[i], j)
    BY <2>1, <2>2, FindFirst
  <2> QED BY <2>1, <2>3 DEF Matches
<1>3. ~Unknown(AfterExited, i) /\ ~Unknown(AfterStarted, i)
  BY <1>1, <1>2 DEF Unknown
<1>4. ASSUME NEW j \in Apps, DependsOn(AfterExited, i, j)
      PROVE  KnownState(j) = "ok"
  BY <1>1, <1>4 DEF DependsOn, KnownState, UniqueNames
<1>5. ASSUME NEW j \in Apps, DependsOn(AfterStarted, i, j)
      PROVE  KnownState(j) = "up"
  BY <1>2, <1>5 DEF DependsOn, KnownState, UniqueNames
<1> QED BY <1>3, <1>4, <1>5 DEF Order!Ready

\* Every step of the supervisor and its applications is a step of
\* LaunchOrder or leaves what the manager knows unchanged.
LEMMA StepRefines ==
  ASSUME ConfigAssumption, UniqueNames, KernelInv, [Next]_vars
  PROVE  [Order!Next]_Known
<1> USE DEF KernelInv, TypeOK
<1>1. ASSUME UNCHANGED <<status, exitCode>> PROVE UNCHANGED Known
  BY <1>1 DEF Known, KnownState
<1>2. ASSUME NEW i \in Apps, launch_app(i), ~LaunchNotNow(i) PROVE Order!Start(i)
  <2>1. /\ CanLaunch(i) /\ UNCHANGED exitCode
        /\ \E s \in {"RUNNING", "FAILED"} : status' = [status EXCEPT ![i] = s]
    BY <1>2 DEF launch_app, LaunchFolderError, LaunchInternalError, LaunchOk
  <2>2. KnownState(i) = "off" /\ Order!Ready(i)
    BY <2>1, LaunchableIsReady DEF KnownState, CanLaunch
  <2>3. \E s \in {"up", "bad"} : Known' = [Known EXCEPT ![i] = s]
    BY <2>1, ZenonT(30) DEF Known, KnownState
  <2> QED BY <2>2, <2>3 DEF Order!Start, Known
<1>3. ASSUME ReapOne PROVE \E i \in Apps : Order!Finish(i)
  <2>1. PICK p \in Zombies :
          IF \E i \in Apps : pid[i] = p
            THEN /\ status' = [status EXCEPT ![FirstWithPid(p)] = EndStatus(wstatus[p])]
                 /\ exitCode' = [exitCode EXCEPT ![FirstWithPid(p)] = wstatus[p]]
            ELSE UNCHANGED <<status, exitCode>>
    BY <1>3 DEF ReapOne
  <2>2. PICK i \in Apps :
          /\ status[i] = "RUNNING"
          /\ status' = [status EXCEPT ![i] = EndStatus(wstatus[p])]
          /\ exitCode' = [exitCode EXCEPT ![i] = wstatus[p]]
    BY <2>1, ReapsTheOwner
  <2>3. EndStatus(wstatus[p]) \in {"EXITED", "KILLED"}
    BY DEF EndStatus
  <2>4. \E s \in {"ok", "bad"} : Known' = [Known EXCEPT ![i] = s]
    BY <2>2, <2>3 DEF Known, KnownState
  <2> QED BY <2>2, <2>4 DEF Order!Finish, Known, KnownState
<1>4. ASSUME \/ \E i \in Apps : LaunchNotNow(i)
             \/ EndPass \/ TakeSignal \/ ReapDone \/ UNCHANGED vars
             \/ \E p \in Pids : ProcessExits(p) \/ ProcessKilled(p)
      PROVE  UNCHANGED <<status, exitCode>>
  BY <1>4 DEF LaunchNotNow, EndPass, TakeSignal, ReapDone, vars, table,
              ProcessExits, ProcessKilled, End
<1> QED
  BY <1>1, <1>2, <1>3, <1>4 DEF Next, Supervisor, launch_app, Order!Next

(* With unique names and without reuse of process ids, the supervisor      *)
(* implements LaunchOrder: nothing starts before its prerequisites or      *)
(* twice, and no end that was recorded is revised.                         *)
THEOREM ImplementsLaunchOrder == ~PidReuse /\ UniqueNames /\ Spec => KeepsOrder
<1>1. Init => Order!Init
  BY DEF Init, Order!Init, KnownState
<1>2. UniqueNames /\ KernelInv /\ [Next]_vars => [Order!Next]_Known
  BY StepRefines, ConfigAssumption
<1>3. CASE ~UniqueNames
  BY <1>3
<1>4. CASE UniqueNames
  <2>1. KernelInv /\ [Next]_vars => [Order!Next]_[i \in Apps |-> KnownState(i)]
    BY <1>2, <1>4 DEF Known
  <2> QED BY <1>1, <2>1, KernelInvariant, PTL DEF Spec, KeepsOrder, Order!Spec
<1> QED BY <1>3, <1>4
============================================================================
