--------------------------- MODULE NetworkManager ---------------------------
(***************************************************************************)
(* The network manager: it looks at the credentials file every two seconds *)
(* and makes the device an access point or a client of the user's network. *)
(*                                                                         *)
(*   nm_main.c             main, load_network_mode, switch_network_mode,   *)
(*                         init_clearall, the answers to its clients       *)
(*   wpa_file_handler.c    the configuration files of the two modes        *)
(*   networkd_status.c     systemd-networkd: is it active, reload          *)
(*   supplicant_handler.c  wpa_supplicant: kill all, start                 *)
(*   http_server_user_action_handler.c   usr_act_wifi_apply of the config  *)
(*                         server, which writes the credentials in place   *)
(*                                                                         *)
(* Two processes and a listener thread meet here without a lock: the       *)
(* config server truncates and fills the file that the main loop polls,    *)
(* and the listener answers queries from the mode the main loop changes.   *)
(* Any call may fail, and the power may go at any moment.  The files of    *)
(* the access point are under /run and are lost then, the files of the     *)
(* client and the credentials are under /etc and stay.                     *)
(***************************************************************************)
EXTENDS Naturals, Sequences

CONSTANTS
  Creds,      \* credentials a user may enter
  Invalid,    \* what is entered when a field is left empty
  MaxSubmits, \* bound: how often the user submits the form
  MaxFaults,  \* bound: how many calls fail
  MaxReboots  \* bound: how often the power goes

Modes == {"AP", "WIFI"}
Parts == {"wpa", "net"}
Missing == "missing" \* no such file
Partial == "partial" \* opened for writing, and not written to its end
Fixed == "fixed"     \* a text compiled into the network manager

\* What a configuration file, and the credentials file, may hold.
Contents == {Missing, Partial, Fixed} \cup Creds
FileContents == {Missing, Partial, Invalid} \cup Creds

ASSUME CredsAssumption ==
  /\ Creds \cap {Missing, Partial, Fixed} = {}
  /\ Invalid \notin Creds

ASSUME BoundsAssumption ==
  MaxSubmits \in Nat /\ MaxFaults \in Nat /\ MaxReboots \in Nat

VARIABLES
  file,    \* wifi_config.json
  form,    \* config server: what it is writing, <<>> when it is idle
  disk,    \* the configuration files: mode and part to content
  loaded,  \* networkd: the modes whose network file it has loaded
  supps,   \* the configurations of the running wpa_supplicants
  mode,    \* current_network_mode
  target,  \* config_type, new_config_type
  todo,    \* files the present loop has still to remove or to write
  creds,   \* what write_wpa_config read: the credentials, <<>> for none
  up,      \* the main loop is reached
  pc,      \* where the main thread is
  answer,  \* listener: the answer it is about to send, <<>> for none
  heard,   \* the mode a client was told last
  blind,   \* history: why the answer under way may be wrong
  misled,  \* history: why what the client was told last may be wrong
  flawed,  \* a call of the last switch failed, noticed or not
  submits, faults, reboots

nm == <<mode, target, todo, creds, up>>
system == <<disk, loaded, supps>>
server == <<file, form, submits>>
client == <<answer, blind, heard, misled>>
vars == <<file, form, disk, loaded, supps, mode, target, todo, creds, up, pc,
          answer, blind, heard, misled, flawed, submits, faults, reboots>>

\* A client may be wrong about the mode because what it was told was formed
\* before the first switch, or before a broadcast and sent after it, or
\* because the broadcast of the present mode was refused.
Causes == {"none", "early", "crossed", "refused"}

Steps == {"load", "networkd", "clear", "read", "open", "fill", "reload",
          "kill", "start", "record", "sleep", "exited"}

TypeFiles ==
  /\ file \in FileContents
  /\ form \in {<<>>} \cup {<<c>> : c \in Creds \cup {Invalid}}
  /\ disk \in [Modes \X Parts -> Contents]
  /\ loaded \subseteq Modes
  /\ supps \subseteq Contents

TypeManager ==
  /\ mode \in Modes \cup {"UNKNOWN"}
  /\ target \in Modes
  /\ todo \in Seq(Modes \X Parts)
  /\ creds \in {<<>>} \cup {<<c>> : c \in Creds}
  /\ pc \in Steps
  /\ answer \in {<<>>} \cup {<<m>> : m \in Modes}
  /\ heard \in Modes \cup {"UNKNOWN"}

TypeFlags ==
  /\ up \in BOOLEAN
  /\ blind \in Causes
  /\ misled \in Causes
  /\ flawed \in BOOLEAN

TypeBounds ==
  /\ submits \in 0..MaxSubmits
  /\ faults \in 0..MaxFaults
  /\ reboots \in 0..MaxReboots

TypeOK == TypeFiles /\ TypeManager /\ TypeFlags /\ TypeBounds

----------------------------------------------------------------------------
(* load_network_mode, and the way into a switch *)

\* load_wifi_credentials: a file that is empty, cut off or lacks a field
\* fails like one that is not there.
Loads == file \in Creds

\* A call fails, and the switch goes on as if it had not.
Unnoticed ==
  /\ faults < MaxFaults
  /\ faults' = faults + 1
  /\ flawed' = TRUE

\* switch_network_mode returns -1: the first switch ends the program, a
\* later one is logged.
Fail ==
  /\ pc' = IF up THEN "record" ELSE "exited"
  /\ flawed' = TRUE

CallFails(at) ==
  /\ pc = at
  /\ faults < MaxFaults
  /\ faults' = faults + 1
  /\ Fail
  /\ UNCHANGED <<server, client, nm, reboots>>

\* Mutant: the file is looked at before the first switch only.
MutantLoadOnce ==
  /\ pc = "load"
  /\ target' = IF up THEN target ELSE IF Loads THEN "WIFI" ELSE "AP"
  /\ pc' = IF target' = mode THEN "sleep" ELSE "networkd"
  /\ flawed' = IF target' = mode THEN flawed ELSE FALSE
  /\ UNCHANGED <<server, client, system, mode, todo, creds, up, faults, reboots>>

Load ==
  /\ pc = "load"
  /\ target' = IF Loads THEN "WIFI" ELSE "AP"
  /\ pc' = IF target' = mode THEN "sleep" ELSE "networkd"
  /\ flawed' = IF target' = mode THEN flawed ELSE FALSE
  /\ UNCHANGED <<server, client, system, mode, todo, creds, up, faults, reboots>>

Sleep ==
  /\ pc = "sleep"
  /\ pc' = "load"
  /\ UNCHANGED <<server, client, system, nm, flawed, faults, reboots>>

----------------------------------------------------------------------------
(* switch_network_mode *)

FilesOf(m) == <<<<m, "wpa">>, <<m, "net">>>>

\* Mutant: init_clearall is left out.
MutantClearOld == IF mode = "UNKNOWN" THEN <<>> ELSE FilesOf(mode)

\* init_clearall, then clear_wpa_config of the present mode.
FilesToClear ==
  FilesOf("AP") \o FilesOf("WIFI")
    \o (IF mode = "UNKNOWN" THEN <<>> ELSE FilesOf(mode))

\* networkd_check_status: active within the 30 s it is waited for.
NetworkdActive ==
  /\ pc = "networkd"
  /\ todo' = FilesToClear
  /\ pc' = "clear"
  /\ UNCHANGED <<server, client, system, mode, target, creds, up, flawed, faults, reboots>>

NetworkdInactive == CallFails("networkd") /\ UNCHANGED system

\* remove; a file that is not there is as good as removed.
Clear ==
  /\ pc = "clear"
  /\ IF todo = <<>>
       THEN pc' = "read" /\ UNCHANGED <<disk, todo>>
       ELSE /\ disk' = [disk EXCEPT ![Head(todo)] = Missing]
            /\ todo' = Tail(todo)
            /\ pc' = pc
  /\ UNCHANGED <<server, client, loaded, supps, mode, target, creds, up, flawed, faults, reboots>>

ClearFails == todo # <<>> /\ CallFails("clear") /\ UNCHANGED system

\* Mutant: write_wpa_config does not look at the result of its own read.
MutantReadUnchecked ==
  /\ pc = "read"
  /\ creds' = IF target = "WIFI" THEN <<file>> ELSE <<>>
  /\ todo' = FilesOf(target)
  /\ pc' = "open"
  /\ UNCHANGED <<server, client, system, mode, target, up, flawed, faults, reboots>>

\* write_wpa_config reads the credentials a second time.
Read ==
  /\ pc = "read"
  /\ IF target = "WIFI" /\ ~Loads
       THEN Fail /\ UNCHANGED <<creds, todo>>
       ELSE /\ creds' = IF target = "WIFI" THEN <<file>> ELSE <<>>
            /\ todo' = FilesOf(target)
            /\ pc' = "open"
            /\ UNCHANGED flawed
  /\ UNCHANGED <<server, client, system, mode, target, up, faults, reboots>>

\* write_config_file: fopen truncates, fwrite and fclose fill.
Open ==
  /\ pc = "open"
  /\ IF todo = <<>>
       THEN pc' = "reload" /\ UNCHANGED disk
       ELSE pc' = "fill" /\ disk' = [disk EXCEPT ![Head(todo)] = Partial]
  /\ UNCHANGED <<server, client, loaded, supps, nm, flawed, faults, reboots>>

OpenFails == todo # <<>> /\ CallFails("open") /\ UNCHANGED system

Fill ==
  /\ pc = "fill"
  /\ disk' = [disk EXCEPT ![Head(todo)] =
       IF Head(todo) = <<"WIFI", "wpa">> THEN creds[1] ELSE Fixed]
  /\ todo' = Tail(todo)
  /\ pc' = "open"
  /\ UNCHANGED <<server, client, loaded, supps, mode, target, creds, up, flawed, faults, reboots>>

FillFails == CallFails("fill") /\ UNCHANGED system

\* The text is still in the buffer when fwrite returns, and the result of
\* fclose is not looked at.
FillUnnoticed ==
  /\ pc = "fill"
  /\ Unnoticed
  /\ todo' = Tail(todo)
  /\ pc' = "open"
  /\ UNCHANGED <<server, client, system, mode, target, creds, up, reboots>>

NetworkFiles == {m \in Modes : disk[<<m, "net">>] = Fixed}

\* networkctl reload succeeded.  The mode counts as switched from here on.
Reload ==
  /\ pc = "reload"
  /\ loaded' = NetworkFiles
  /\ mode' = target
  /\ pc' = "kill"
  /\ UNCHANGED <<server, client, disk, supps, target, todo, creds, up, flawed, faults, reboots>>

ReloadFails ==
  /\ CallFails("reload")
  /\ loaded' \in {loaded, NetworkFiles}
  /\ UNCHANGED <<disk, supps>>

\* Mutant: an earlier wpa_supplicant is left running.
MutantKillNone ==
  /\ pc = "kill"
  /\ pc' = "start"
  /\ UNCHANGED <<server, client, system, nm, flawed, faults, reboots>>

Kill ==
  /\ pc = "kill"
  /\ supps' = {}
  /\ pc' = "start"
  /\ UNCHANGED <<server, client, disk, loaded, nm, flawed, faults, reboots>>

\* popen failed: kill_all_supplicant_processes has no result to tell it by.
KillFails ==
  /\ pc = "kill"
  /\ Unnoticed
  /\ pc' = "start"
  /\ UNCHANGED <<server, client, system, nm, reboots>>

\* The switch is complete.  The first one leads into the loop; only a
\* later one is recorded and broadcast.
Switched == IF up THEN "record" ELSE "load"

Start ==
  /\ pc = "start"
  /\ supps' = supps \cup {disk[<<target, "wpa">>]}
  /\ pc' = Switched
  /\ up' = TRUE
  /\ UNCHANGED <<server, client, disk, loaded, mode, target, todo, creds, flawed, faults, reboots>>

\* The child could not become a wpa_supplicant: its parent does not wait.
StartUnnoticed ==
  /\ pc = "start"
  /\ Unnoticed
  /\ pc' = Switched
  /\ up' = TRUE
  /\ UNCHANGED <<server, client, system, mode, target, todo, creds, reboots>>

\* fork failed.
StartFails == CallFails("start") /\ UNCHANGED system

\* Mutant: the loop does not broadcast.
MutantNoBroadcast ==
  /\ pc = "record"
  /\ mode' = target
  /\ pc' = "sleep"
  /\ UNCHANGED <<server, client, system, target, todo, creds, up, flawed, faults, reboots>>

\* An answer that is under way at a broadcast was formed before it.
Crossing == IF answer = <<>> THEN "none" ELSE "crossed"

\* Whether the switch succeeded or not: current_network_mode is assigned
\* and the new mode broadcast.
Record ==
  /\ pc = "record"
  /\ mode' = target
  /\ heard' = target
  /\ misled' = "none"
  /\ blind' = Crossing
  /\ pc' = "sleep"
  /\ UNCHANGED <<answer, server, system, target, todo, creds, up, flawed, faults, reboots>>

\* serve_data fails: broadcast_network_mode_change does not look at its
\* result, and the mode is not broadcast again.
RecordUnheard ==
  /\ pc = "record"
  /\ faults < MaxFaults
  /\ faults' = faults + 1
  /\ mode' = target
  /\ misled' = "refused"
  /\ blind' = Crossing
  /\ pc' = "sleep"
  /\ UNCHANGED <<answer, heard, server, system, target, todo, creds, up, flawed, reboots>>

Manager ==
  \/ Load \/ Sleep \/ NetworkdActive \/ Clear \/ Read \/ Open \/ Fill
  \/ Reload \/ Kill \/ Start \/ Record

Faults ==
  \/ NetworkdInactive \/ ClearFails \/ OpenFails \/ FillFails \/ FillUnnoticed \/ ReloadFails
  \/ KillFails \/ StartUnnoticed \/ StartFails

----------------------------------------------------------------------------
(* The listener thread, the config server and the power *)

\* dbus_client_handler forms its answer from the present mode: everything
\* that is not AP is WIFI_CLIENT ...
Query ==
  /\ pc # "exited"
  /\ answer = <<>>
  /\ answer' = <<IF mode = "AP" THEN "AP" ELSE "WIFI">>
  /\ blind' = IF mode = "UNKNOWN" THEN "early" ELSE "none"
  /\ UNCHANGED <<server, system, nm, pc, heard, misled, flawed, faults, reboots>>

\* ... and serve_data sends it.  The main loop may have gone on meanwhile.
Answer ==
  /\ pc # "exited"
  /\ answer # <<>>
  /\ heard' = answer[1]
  /\ misled' = blind
  /\ answer' = <<>>
  /\ blind' = "none"
  /\ UNCHANGED <<server, system, nm, pc, flawed, faults, reboots>>

\* serve_data fails: the client waits in vain and keeps what it had.
AnswerFails ==
  /\ pc # "exited"
  /\ answer # <<>>
  /\ faults < MaxFaults
  /\ faults' = faults + 1
  /\ answer' = <<>>
  /\ blind' = "none"
  /\ UNCHANGED <<server, system, nm, pc, heard, misled, flawed, reboots>>

\* usr_act_wifi_apply: fopen truncates the file ...
Submit ==
  /\ form = <<>>
  /\ submits < MaxSubmits
  /\ submits' = submits + 1
  /\ form' \in {<<c>> : c \in Creds \cup {Invalid}}
  /\ file' = Partial
  /\ UNCHANGED <<system, nm, client, pc, flawed, faults, reboots>>

\* ... fputs and fclose fill it.
Submitted ==
  /\ form # <<>>
  /\ file' = form[1]
  /\ form' = <<>>
  /\ UNCHANGED <<system, nm, client, pc, flawed, submits, faults, reboots>>

\* The result of fputs is not looked at.
SubmitFails ==
  /\ form # <<>>
  /\ faults < MaxFaults
  /\ faults' = faults + 1
  /\ form' = <<>>
  /\ UNCHANGED <<file, system, nm, client, pc, flawed, submits, reboots>>

BootDisk ==
  [f \in Modes \X Parts |-> IF f[1] = "AP" THEN Missing ELSE disk[f]]

Reboot ==
  /\ reboots < MaxReboots
  /\ reboots' = reboots + 1
  /\ disk' = BootDisk
  /\ loaded' = {m \in Modes : BootDisk[<<m, "net">>] = Fixed}
  /\ supps' = {}
  /\ form' = <<>>
  /\ mode' = "UNKNOWN"
  /\ todo' = <<>>
  /\ creds' = <<>>
  /\ up' = FALSE
  /\ pc' = "load"
  /\ answer' = <<>> /\ blind' = "none"
  /\ heard' = "UNKNOWN" /\ misled' = "none"
  /\ flawed' = FALSE
  /\ UNCHANGED <<file, target, submits, faults>>

Init ==
  /\ file = Missing
  /\ form = <<>>
  /\ disk = [f \in Modes \X Parts |-> Missing]
  /\ loaded = {}
  /\ supps = {}
  /\ mode = "UNKNOWN"
  /\ target = "AP"
  /\ todo = <<>>
  /\ creds = <<>>
  /\ up = FALSE
  /\ pc = "load"
  /\ answer = <<>> /\ blind = "none"
  /\ heard = "UNKNOWN" /\ misled = "none"
  /\ flawed = FALSE
  /\ submits = 0 /\ faults = 0 /\ reboots = 0

Next ==
  \/ Manager
  \/ Faults
  \/ RecordUnheard
  \/ Query
  \/ Answer
  \/ AnswerFails
  \/ Submit
  \/ Submitted
  \/ SubmitFails
  \/ Reboot

Spec == Init /\ [][Next]_vars

\* Both programs are scheduled, and a call they make returns.
FairSpec == Spec /\ WF_vars(Manager) /\ WF_vars(Submitted)

----------------------------------------------------------------------------
(* Properties *)

(* Files of both modes on the disk would give networkd two descriptions of *)
(* one interface.  Whatever fails half-way, and whatever a power loss      *)
(* leaves behind, there are never files of both.                           *)
OneConfiguration ==
  \A f, g \in Modes \X Parts :
    disk[f] # Missing /\ disk[g] # Missing => f[1] = g[1]

(* The mode that current_network_mode reports is the one the device is in: *)
(* at rest, unless a call of the last switch failed, both files of that    *)
(* mode are whole, networkd has loaded its network file and no other, and  *)
(* the one wpa_supplicant that runs has its configuration.                 *)
ModeIsApplied ==
  pc = "sleep" /\ ~flawed =>
    /\ disk[<<mode, "wpa">>] \notin {Missing, Partial}
    /\ disk[<<mode, "net">>] = Fixed
    /\ loaded = {mode}
    /\ supps = {disk[<<mode, "wpa">>]}

(* A client that is wrong about the mode while the main loop rests was     *)
(* told so in one of three ways, and in no other: by an answer formed      *)
(* before the first switch, by an answer formed before the last broadcast  *)
(* and sent after it, or by nothing at all, the last broadcast having been *)
(* refused.  A switch that failed is none of them: it is broadcast too.    *)
ClientsKnow ==
  pc = "sleep" /\ heard # "UNKNOWN" /\ heard # mode => misled # "none"

(* Once valid credentials stay in the file, the device ends up in client   *)
(* mode with a wpa_supplicant for credentials the user entered, if the     *)
(* switches succeed.                                                       *)
FollowsFile ==
  <>[](file \in Creds) /\ []~flawed
    => <>[](mode = "WIFI" /\ supps # {} /\ supps \subseteq Creds)

(* README: "Once it is done, the Network Manager switches to the           *)
(* configured network".  Once the user is done entering credentials, those *)
(* are the ones in use, if no switch fails.                                *)
LatestIsUsed ==
  \A c \in Creds : <>[](file = c) /\ []~flawed => <>[](supps = {c})
=============================================================================
