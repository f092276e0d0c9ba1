-------------------------- MODULE MCAppSupervisor --------------------------
(***************************************************************************)
(* Instances of AppSupervisor for TLC.                                     *)
(*                                                                         *)
(* MCBoot* takes the shape of app_cfg/configuration.json and lists it back *)
(* to front, so that every dependency points forward and one pass is never *)
(* enough; one entry has both kinds of prerequisite, one names nobody.     *)
(* MCInOrder* lists a part of the same file in its own order.              *)
(***************************************************************************)
EXTENDS AppSupervisor, TLC

PidSymmetry == Permutations(Pids)

MCBootName == <<"lost", "web-config-server", "logger_check", "rbuflogd">>
MCBootExited == <<"nobody", "logger_check", NoName, NoName>>
MCBootStarted == <<NoName, "rbuflogd", "rbuflogd", NoName>>

MCInOrderName == <<"rbuflogd", "logger_check", "network-manager",
                   "screen_start_delay", "bkk-screen-owner">>
MCInOrderExited == <<NoName, NoName, "logger_check",
                     "logger_check", "screen_start_delay">>
MCInOrderStarted == <<NoName, "rbuflogd", NoName, NoName, NoName>>

MCNames == {MCBootName[i] : i \in 1..4} \cup {MCInOrderName[i] : i \in 1..5}
             \cup {"nobody"}
============================================================================
