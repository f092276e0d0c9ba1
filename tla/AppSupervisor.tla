--------------------------- MODULE AppSupervisor ---------------------------
(***************************************************************************)
(* The application manager's supervisor thread: it launches the configured *)
(* applications in dependency order and reaps them when they end.          *)
(*                                                                         *)
(*   am_launcher.c    launch_app, check_prerequisites                      *)
(*   am_supervisor.c  trigger_app_start, reap_children, supervisor_thread  *)
(*   am_main.c        the initial app_info table, SIGCHLD blocked          *)
(*                                                                         *)
(* The kernel is modelled by how the code uses it: fork hands out a child, *)
(* a child that ends is a zombie until waitpid collects it, and the end of *)
(* a child makes the blocked SIGCHLD pending.  Pending signals of one      *)
(* number do not queue: any number of ends leaves one pending SIGCHLD.     *)
(***************************************************************************)
EXTENDS Integers, FiniteSets

CONSTANTS
  N,            \* number of applications of the current boot phase
  Names,        \* application names
  NoName,       \* a dependency that is not configured (NULL)
  Name,         \* app_config_t.name, in configuration order
  AfterExited,  \* app_config_t.after_exited
  AfterStarted, \* app_config_t.after_started
  HasFolder,    \* the applications with a folder to create (mkdir may fail)
  Pids,         \* process ids the kernel may hand out
  ExitCodes,    \* exit codes the applications use
  PidReuse      \* may the kernel hand out the id of a reaped child again?

Apps == 1..N
Killed == -1     \* exit_code of an application that a signal ended
NoPid == 0       \* pid in the calloc'ed app_info table
FailedPid == -1  \* pid after a failed launch

ASSUME ConfigAssumption ==
  /\ N \in Nat
  /\ NoName \notin Names
  /\ Name \in [Apps -> Names]
  /\ AfterExited \in [Apps -> Names \cup {NoName}]
  /\ AfterStarted \in [Apps -> Names \cup {NoName}]
  /\ HasFolder \subseteq Apps

ASSUME KernelAssumption ==
  /\ NoPid \notin Pids /\ FailedPid \notin Pids
  /\ ExitCodes \subseteq 0..255
  /\ PidReuse \in BOOLEAN

AppStatus == {"NOT_STARTED", "RUNNING", "EXITED", "KILLED", "FAILED"}

VARIABLES
  status, exitCode, pid, named, \* app_info: status, exit_code, pid, name # NULL
  life,     \* kernel: is the id unused, a live child or a zombie?
  owner,    \* kernel: the application whose launch forked this child
  wstatus,  \* kernel: the exit code, or Killed, of a zombie
  sigchld,  \* kernel: SIGCHLD is pending
  pc,       \* where the supervisor thread is
  idx,      \* i of trigger_app_start's loop
  launched  \* result of trigger_app_start so far

table == <<status, exitCode, pid, named>>
kernel == <<life, owner, wstatus, sigchld>>
vars == <<status, exitCode, pid, named, life, owner, wstatus, sigchld,
          pc, idx, launched>>

TypeOK ==
  /\ status \in [Apps -> AppStatus]
  /\ exitCode \in [Apps -> ExitCodes \cup {0, Killed}]
  /\ pid \in [Apps -> Pids \cup {NoPid, FailedPid}]
  /\ named \in [Apps -> BOOLEAN]
  /\ life \in [Pids -> {"unused", "alive", "zombie"}]
  /\ owner \in [Pids -> Apps \cup {0}]
  /\ wstatus \in [Pids -> ExitCodes \cup {0, Killed}]
  /\ sigchld \in BOOLEAN
  /\ pc \in {"trigger", "wait", "reap"}
  /\ idx \in 1..(N + 1)
  /\ launched \in BOOLEAN

----------------------------------------------------------------------------
(* Prerequisites *)

Matches(n, i) == named[i] /\ Name[i] = n

\* The first application that still has the name n; 0 for "not found".
find_app_by_name(n) ==
  IF \E i \in Apps : Matches(n, i)
    THEN CHOOSE i \in Apps :
           Matches(n, i) /\ \A j \in Apps : Matches(n, j) => i <= j
    ELSE 0

ExitedOk(n) ==
  LET j == find_app_by_name(n)
  IN  j # 0 /\ status[j] = "EXITED" /\ exitCode[j] = 0

IsRunning(n) ==
  LET j == find_app_by_name(n) IN j # 0 /\ status[j] = "RUNNING"

\* Mutants: an exit code that is not looked at; after_started not looked at.
MutantAnyExitCode(i) ==
  /\ AfterExited[i] # NoName =>
       LET j == find_app_by_name(AfterExited[i]) IN j # 0 /\ status[j] = "EXITED"
  /\ AfterStarted[i] # NoName => IsRunning(AfterStarted[i])
MutantStartedIgnored(i) == AfterExited[i] # NoName => ExitedOk(AfterExited[i])

\* check_prerequisites = PREREQ_OK.  Its three other results (unknown name,
\* still running, failed) differ only in what launch_app logs.
check_prerequisites(i) ==
  /\ AfterExited[i] # NoName => ExitedOk(AfterExited[i])
  /\ AfterStarted[i] # NoName => IsRunning(AfterStarted[i])

\* Mutant: launch_app without its first test, so every pass starts it again.
MutantRelaunch(i) == check_prerequisites(i)

CanLaunch(i) == status[i] = "NOT_STARTED" /\ check_prerequisites(i)

----------------------------------------------------------------------------
(* launch_app(i), one action per outcome *)

AtApp(i) == pc = "trigger" /\ i \in Apps /\ idx = i

\* Already launched, or a prerequisite is missing: nothing changes.
LaunchNotNow(i) ==
  /\ AtApp(i)
  /\ ~CanLaunch(i)
  /\ idx' = i + 1
  /\ UNCHANGED <<table, kernel, pc, launched>>

\* mkdir failed: the entry loses its name, so nobody finds it any more.
LaunchFolderError(i) ==
  /\ AtApp(i)
  /\ CanLaunch(i)
  /\ i \in HasFolder
  /\ status' = [status EXCEPT ![i] = "FAILED"]
  /\ pid' = [pid EXCEPT ![i] = FailedPid]
  /\ named' = [named EXCEPT ![i] = FALSE]
  /\ idx' = i + 1
  /\ UNCHANGED <<exitCode, kernel, pc, launched>>

\* build_argv, build_envp or fork failed: the entry keeps its name.
LaunchInternalError(i) ==
  /\ AtApp(i)
  /\ CanLaunch(i)
  /\ status' = [status EXCEPT ![i] = "FAILED"]
  /\ pid' = [pid EXCEPT ![i] = FailedPid]
  /\ idx' = i + 1
  /\ UNCHANGED <<exitCode, named, kernel, pc, launched>>

\* The ids fork may return.  A reaped application keeps its id in app_info.
FreshPids ==
  {p \in Pids : life[p] = "unused" /\ (PidReuse \/ \A i \in Apps : pid[i] # p)}

\* fork succeeded.  An execv that fails is a child that exits with code 1.
LaunchOk(i) ==
  /\ AtApp(i)
  /\ CanLaunch(i)
  /\ \E p \in FreshPids :
       /\ pid' = [pid EXCEPT ![i] = p]
       /\ life' = [life EXCEPT ![p] = "alive"]
       /\ owner' = [owner EXCEPT ![p] = i]
  /\ status' = [status EXCEPT ![i] = "RUNNING"]
  /\ launched' = TRUE
  /\ idx' = i + 1
  /\ UNCHANGED <<exitCode, named, wstatus, sigchld, pc>>

launch_app(i) ==
  LaunchNotNow(i) \/ LaunchFolderError(i) \/ LaunchInternalError(i) \/ LaunchOk(i)

----------------------------------------------------------------------------
(* supervisor_thread *)

\* Mutants: trigger_app_start called once; its index not reset.
MutantOnePass ==
  /\ pc = "trigger"
  /\ idx = N + 1
  /\ idx' = 1
  /\ launched' = FALSE
  /\ pc' = "wait"
  /\ UNCHANGED <<table, kernel>>
MutantIndexKept ==
  /\ pc = "trigger"
  /\ idx = N + 1
  /\ idx' = idx + 1
  /\ launched' = FALSE
  /\ pc' = IF launched THEN "trigger" ELSE "wait"
  /\ UNCHANGED <<table, kernel>>

\* while (trigger_app_start(...)): another pass as long as one launched.
EndPass ==
  /\ pc = "trigger"
  /\ idx = N + 1
  /\ idx' = 1
  /\ launched' = FALSE
  /\ pc' = IF launched THEN "trigger" ELSE "wait"
  /\ UNCHANGED <<table, kernel>>

\* sigwaitinfo returns and takes the pending SIGCHLD with it.
TakeSignal ==
  /\ pc = "wait"
  /\ sigchld
  /\ sigchld' = FALSE
  /\ pc' = "reap"
  /\ UNCHANGED <<table, life, owner, wstatus, idx, launched>>

Zombies == {p \in Pids : life[p] = "zombie"}

\* The entry reap_children attributes an id to: the first one that holds it.
FirstWithPid(p) ==
  CHOOSE i \in Apps : pid[i] = p /\ \A j \in Apps : pid[j] = p => i <= j

\* What a wait status says of the application it is attributed to.
EndStatus(how) == IF how = Killed THEN "KILLED" ELSE "EXITED"

\* Mutants: one waitpid per signal; a child's end is recorded for any
\* application that runs.
MutantSingleWaitpid ==
  /\ pc = "reap"
  /\ \E p \in Zombies :
       /\ life' = [life EXCEPT ![p] = "unused"]
       /\ \E i \in Apps :
            /\ pid[i] = p
            /\ status' = [status EXCEPT ![i] = EndStatus(wstatus[p])]
            /\ exitCode' = [exitCode EXCEPT ![i] = wstatus[p]]
  /\ pc' = "trigger"
  /\ UNCHANGED <<pid, named, owner, wstatus, sigchld, idx, launched>>
MutantAnyRunning ==
  /\ pc = "reap"
  /\ \E p \in Zombies :
       /\ life' = [life EXCEPT ![p] = "unused"]
       /\ \E i \in Apps :
            /\ pid[i] = p \/ status[i] = "RUNNING"
            /\ status' = [status EXCEPT ![i] = EndStatus(wstatus[p])]
            /\ exitCode' = [exitCode EXCEPT ![i] = wstatus[p]]
  /\ UNCHANGED <<pid, named, owner, wstatus, sigchld, pc, idx, launched>>

\* One round of reap_children's waitpid loop.
ReapOne ==
  /\ pc = "reap"
  /\ \E p \in Zombies :
       /\ life' = [life EXCEPT ![p] = "unused"]
       /\ IF \E i \in Apps : pid[i] = p
            THEN LET i == FirstWithPid(p) IN
                 /\ status' = [status EXCEPT ![i] = EndStatus(wstatus[p])]
                 /\ exitCode' = [exitCode EXCEPT ![i] = wstatus[p]]
            ELSE UNCHANGED <<status, exitCode>>
  /\ UNCHANGED <<pid, named, owner, wstatus, sigchld, pc, idx, launched>>

\* Mutant: nothing is triggered after a reap.
MutantNoTrigger ==
  /\ pc = "reap"
  /\ Zombies = {}
  /\ pc' = "wait"
  /\ UNCHANGED <<table, kernel, idx, launched>>

\* waitpid finds no further zombie; the passes start again.
ReapDone ==
  /\ pc = "reap"
  /\ Zombies = {}
  /\ pc' = "trigger"
  /\ UNCHANGED <<table, kernel, idx, launched>>

Supervisor ==
  \/ \E i \in Apps : launch_app(i)
  \/ EndPass
  \/ TakeSignal
  \/ ReapOne
  \/ ReapDone

----------------------------------------------------------------------------
(* The applications *)

End(p, how) ==
  /\ life[p] = "alive"
  /\ life' = [life EXCEPT ![p] = "zombie"]
  /\ wstatus' = [wstatus EXCEPT ![p] = how]
  /\ sigchld' = TRUE
  /\ UNCHANGED <<table, owner, pc, idx, launched>>

ProcessExits(p) == \E c \in ExitCodes : End(p, c)
ProcessKilled(p) == End(p, Killed)

----------------------------------------------------------------------------
Init ==
  /\ status = [i \in Apps |-> "NOT_STARTED"]
  /\ exitCode = [i \in Apps |-> 0]
  /\ pid = [i \in Apps |-> NoPid]
  /\ named = [i \in Apps |-> TRUE]
  /\ life = [p \in Pids |-> "unused"]
  /\ owner = [p \in Pids |-> 0]
  /\ wstatus = [p \in Pids |-> 0]
  /\ sigchld = FALSE
  /\ pc = "trigger"
  /\ idx = 1
  /\ launched = FALSE

Next ==
  \/ Supervisor
  \/ \E p \in Pids : ProcessExits(p) \/ ProcessKilled(p)

Spec == Init /\ [][Next]_vars

\* The supervisor thread is scheduled; no application has to end.
FairSpec == Spec /\ WF_vars(Supervisor)
----------------------------------------------------------------------------
(* Properties *)

UniqueNames == \A i, j \in Apps : Name[i] = Name[j] => i = j

(* SIGCHLD does not queue, so one signal may stand for several ended       *)
(* children (reap_children loops over waitpid for that reason).  A zombie  *)
(* that exists while the thread is not reaping always has a signal pending *)
(* that will wake the thread: no exit is ever lost.                        *)
NoLostExit == pc # "reap" /\ Zombies # {} => sigchld

(* supervisor_thread blocks in sigwaitinfo only after a whole pass of      *)
(* trigger_app_start launched nothing.  At that point no application is    *)
(* left whose prerequisites hold: whatever the order of the configuration, *)
(* a chain of dependencies is resolved within one signal.                  *)
ChainsResolved == pc = "wait" => \A i \in Apps : ~CanLaunch(i)

(* check_prerequisites looks at a table that later steps keep changing     *)
(* (names are freed, entries are overwritten by reap_children): an         *)
(* application that was launched, or failed to, has an after_exited        *)
(* prerequisite that is still found and still "exited with code 0".        *)
PrereqHonoured ==
  \A i \in Apps :
    status[i] # "NOT_STARTED" /\ AfterExited[i] # NoName
      => ExitedOk(AfterExited[i])

(* Children are reaped only between two rounds of passes.  So an           *)
(* application that waits only for another one to be started does not miss *)
(* it, however short that one lives: once the thread sleeps, both have     *)
(* left NOT_STARTED.                                                       *)
ShortLivedSeen ==
  pc = "wait" =>
    \A i \in Apps :
      /\ AfterExited[i] = NoName
      /\ AfterStarted[i] # NoName
      /\ find_app_by_name(AfterStarted[i]) # 0
      /\ pid[find_app_by_name(AfterStarted[i])] \in Pids
      => status[i] # "NOT_STARTED"

(* The table the status page and check_prerequisites read agrees with the  *)
(* kernel: an application is RUNNING exactly as long as the child it was   *)
(* launched as is not reaped, and its entry holds the id of that child.    *)
TableMatchesKernel ==
  /\ \A i \in Apps : status[i] = "RUNNING" =>
       /\ pid[i] \in Pids
       /\ life[pid[i]] # "unused"
       /\ owner[pid[i]] = i
  /\ \A p \in Pids : life[p] # "unused" =>
       /\ owner[p] \in Apps
       /\ status[owner[p]] = "RUNNING"
       /\ pid[owner[p]] = p

(* "Reap all children that have exited, update app_info status": the end   *)
(* of a child is recorded for the application launched as that child, and  *)
(* for no other.                                                           *)
ExitRecorded ==
  [][\A p \in Pids : life[p] = "zombie" /\ life'[p] = "unused" =>
       \A i \in Apps :
         IF i = owner[p]
           THEN /\ status'[i] = EndStatus(wstatus[p])
                /\ exitCode'[i] = wstatus[p]
           ELSE UNCHANGED <<status[i], exitCode[i]>>]_vars

(* after_started: "name of another app that must be running before this    *)
(* app is started".  At the moment an application is launched, the child   *)
(* it was to be started after is alive.                                    *)
StartedAfterRunning ==
  [][\A i \in Apps :
       /\ status[i] = "NOT_STARTED" /\ status'[i] = "RUNNING"
       /\ AfterStarted[i] # NoName
       => life[pid[find_app_by_name(AfterStarted[i])]] = "alive"]_vars

(* Every child that ended is eventually reaped.                            *)
EveryExitReaped == \A p \in Pids : life[p] = "zombie" ~> life[p] = "unused"

----------------------------------------------------------------------------
(* Refinement of LaunchOrder *)

\* A dependency on a name that no entry has can never be satisfied.
DependsOn(dep, i, j) == dep[i] # NoName /\ Name[j] = dep[i]
Unknown(dep, i) == dep[i] # NoName /\ \A j \in Apps : Name[j] # dep[i]

KnownState(i) ==
  CASE status[i] = "NOT_STARTED" -> "off"
    [] status[i] = "RUNNING" -> "up"
    [] status[i] = "EXITED" /\ exitCode[i] = 0 -> "ok"
    [] OTHER -> "bad"

Order == INSTANCE LaunchOrder WITH
  App <- Apps,
  AfterOk <- {e \in Apps \X Apps : DependsOn(AfterExited, e[1], e[2])},
  AfterUp <- {e \in Apps \X Apps : DependsOn(AfterStarted, e[1], e[2])},
  Orphans <- {i \in Apps : Unknown(AfterExited, i) \/ Unknown(AfterStarted, i)},
  state <- [i \in Apps |-> KnownState(i)]

(* The supervisor implements LaunchOrder: no application starts before its *)
(* prerequisites, none starts twice, no end is revised.                    *)
KeepsOrder == Order!Spec

(* Under fair scheduling of the supervisor thread it also implements the   *)
(* promise that an application that stays ready is started.                *)
KeepsOrderFairly == Order!FairSpec
============================================================================
