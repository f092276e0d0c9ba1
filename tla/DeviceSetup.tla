----------------------------- MODULE DeviceSetup -----------------------------
(***************************************************************************)
(* What the user enters on the setup pages, where it is kept and who reads *)
(* it, over power losses.                                                  *)
(*                                                                         *)
(*   am_boot_mode.c, am_main.c, am_config_parser.c   the phase of a boot   *)
(*                    and the programs of the phase                        *)
(*   http_server_main.c, http_server_post_handler.c,                       *)
(*   http_server_user_action_handler.c    the config server                *)
(*   bkk_tee_client.c, bkk_tee_ta.c       the key in the secure storage    *)
(*   api_context.cpp, bkk_api_client.cpp  the main content reads key and   *)
(*                    stations                                             *)
(*   wpa_helper_main.c   writes the network files of a boot mode           *)
(*                                                                         *)
(* Three processes that share nothing but files, and the broadcast of the  *)
(* config server that says there is something new.  The config server      *)
(* serves one request after the other.  Files reach the disk in the order  *)
(* in which they are written.                                              *)
(***************************************************************************)
EXTENDS Integers

CONSTANTS
  MaxSubmits, \* bound: how many forms the user submits
  MaxFaults,  \* bound: how many calls fail
  MaxBoots    \* bound: how often the power goes

ASSUME BoundsAssumption ==
  MaxSubmits \in Nat /\ MaxFaults \in Nat /\ MaxBoots \in Nat

\* What a file can hold: a submission has its number.
Missing  == -3
Fallback == -2 \* the credentials compiled in
Fixed    == -1 \* a text compiled in
Empty    == 0  \* or cut off: nothing that could be parsed
Submissions == 1..MaxSubmits
Contents == {Missing, Fallback, Fixed, Empty} \cup Submissions

\* "key" is an object in the secure storage.
Volatile == {"ap-net", "ap-wpa"}
Stores == {"creds", "stations", "key", "client-net", "client-wpa"} \cup Volatile

BootModes == {"WIFI_CONFIG", "API_CONFIG", "NORMAL", "UNDEFINED"}

VARIABLES
  store,   \* what is in the files
  flags,   \* the flag files that exist
  boot,    \* has the application manager started the programs?
  mode,    \* boot_mode
  server,  \* where the config server is
  req,     \* the submission it handles, or handled last
  odd,     \* submissions with a name that is too short, or a key too long
  keyless, \* submissions whose key was not to be stored, or could not be
  reader,  \* where the main content is
  got,     \* the key it has just read
  loaded,  \* its key and stations
  notice, wake, \* a broadcast on its way; g_update_requested
  stale,   \* a call failed since the stations were last loaded
  helper,  \* where wpa_helper is
  text,    \* the configuration it will write
  faults, boots

disk == <<store, flags>>
serverVars == <<server, req, odd, keyless>>
readerVars == <<reader, got, loaded, notice, wake>>
helperVars == <<helper, text>>
bootVars == <<boot, mode, boots>>
vars == <<store, flags, boot, mode, server, req, odd, keyless, reader, got,
          loaded, notice, wake, stale, helper, text, faults, boots>>

ServerSteps == {"mkdir", "creds", "fill creds", "flag", "session", "create",
                "write", "stations", "fill stations", "notify"}
HelperSteps == {"net", "fill net", "load", "wpa", "fill wpa"}

TypeDisk ==
  /\ store \in [Stores -> Contents]
  /\ flags \subseteq {"wifi-configured", "api-configured"}
  /\ boot \in {"off", "up", "failed"}
  /\ mode \in BootModes

TypeServer ==
  /\ server \in ServerSteps \cup {"down", "idle", "exited"}
  /\ req \in {0} \cup Submissions
  /\ odd \subseteq Submissions /\ keyless \subseteq Submissions

TypeReader ==
  /\ reader \in {"down", "ask", "key", "stations", "ready"}
  /\ got \in {Empty} \cup Submissions
  /\ loaded \in [key : {Empty} \cup Submissions, stations : {Empty} \cup Submissions]

TypeHelper ==
  /\ helper \in HelperSteps \cup {"none", "done", "fatal", "no file"}
  /\ text \in {Fixed, Fallback} \cup Submissions

TypeFlags == notice \in BOOLEAN /\ wake \in BOOLEAN /\ stale \in BOOLEAN
TypeCounts == faults \in 0..MaxFaults /\ boots \in 0..MaxBoots

TypeOK ==
  /\ TypeDisk /\ TypeServer /\ TypeReader /\ TypeHelper
  /\ TypeFlags /\ TypeCounts

Fails == faults < MaxFaults /\ faults' = faults + 1
Put(s, c) == store' = [store EXCEPT ![s] = c]

----------------------------------------------------------------------------
(* The application manager *)

BootMode(f) ==
  CASE f = {} -> "WIFI_CONFIG"
    [] f = {"wifi-configured"} -> "API_CONFIG"
    [] f = {"wifi-configured", "api-configured"} -> "NORMAL"
    [] OTHER -> "UNDEFINED"

\* configuration.json names these phases for each program.
Phases == {"WIFI_CONFIG", "API_CONFIG", "NORMAL"}
Started == boot = "up" /\ mode \in Phases

DetermineBootMode ==
  /\ boot = "off"
  /\ mode' = BootMode(flags)
  /\ boot' = "up"
  /\ UNCHANGED <<disk, serverVars, readerVars, stale, helperVars, faults, boots>>

\* The configuration cannot be read or parsed, or a thread cannot be made.
BootFails ==
  /\ boot = "off"
  /\ Fails
  /\ boot' = "failed"
  /\ UNCHANGED <<disk, serverVars, readerVars, stale, helperVars, mode, boots>>

\* What is in memory and under /run is lost.
PowerLoss ==
  /\ boots < MaxBoots
  /\ boots' = boots + 1
  /\ store' = [s \in Stores |-> IF s \in Volatile THEN Missing ELSE store[s]]
  /\ boot' = "off" /\ server' = "down" /\ helper' = "none"
  /\ reader' = "down" /\ got' = Empty /\ loaded' = [key |-> Empty, stations |-> Empty]
  /\ notice' = FALSE /\ wake' = FALSE /\ stale' = FALSE
  /\ UNCHANGED <<flags, mode, req, odd, keyless, text, faults>>

----------------------------------------------------------------------------
(* The config server *)

Server(from, to) ==
  /\ server = from
  /\ server' = to
  /\ UNCHANGED <<bootVars, readerVars, helperVars>>

StartServer ==
  /\ Started
  /\ Server("down", "idle")
  /\ UNCHANGED <<disk, req, odd, keyless, stale, faults>>

StartServerFails ==
  /\ Started
  /\ Fails
  /\ Server("down", "exited")
  /\ UNCHANGED <<disk, req, odd, keyless, stale>>

\* The next form is posted.
Submitted(page, isOdd) ==
  /\ req < MaxSubmits
  /\ Server("idle", page)
  /\ req' = req + 1
  /\ odd' = IF isOdd THEN odd \cup {req'} ELSE odd
  /\ UNCHANGED <<disk, stale, faults>>

SubmitWifi ==
  \E isOdd \in BOOLEAN : Submitted("creds", isOdd) /\ UNCHANGED keyless

\* A key that begins with an exclamation mark is not to be stored, and an
\* empty one is refused by bkk_tee_store.
SubmitApi ==
  \/ \E isOdd \in BOOLEAN : Submitted("session", isOdd) /\ UNCHANGED keyless
  \/ Submitted("stations", FALSE) /\ keyless' = keyless \cup {req'}

\* Mutant: the flag comes first.
MutantOpenCreds ==
  /\ Server("creds", "fill creds")
  /\ flags' = flags \cup {"wifi-configured"}
  /\ UNCHANGED <<store, req, odd, keyless, stale, faults>>

OpenCreds ==
  /\ Server("creds", "fill creds")
  /\ Put("creds", Empty)
  /\ UNCHANGED <<flags, req, odd, keyless, stale, faults>>

\* The results of fputs and fclose are not looked at.
FillCreds ==
  /\ Server("fill creds", "flag")
  /\ \/ Put("creds", req) /\ UNCHANGED faults
     \/ Fails /\ UNCHANGED store
  /\ UNCHANGED <<flags, req, odd, keyless, stale>>

SetFlag ==
  /\ Server("flag", "notify")
  /\ flags' = flags \cup {"wifi-configured"}
  /\ UNCHANGED <<store, req, odd, keyless, stale, faults>>

\* A session for the trusted application.
OpenSession ==
  /\ Server("session", "create")
  /\ UNCHANGED <<disk, req, odd, keyless, stale, faults>>

\* Mutant: without TEE_DATA_FLAG_OVERWRITE, and the error is ignored.
MutantCreateObject ==
  /\ Server("create", IF store["key"] = Missing THEN "write" ELSE "stations")
  /\ IF store["key"] = Missing THEN Put("key", Empty) ELSE UNCHANGED store
  /\ UNCHANGED <<flags, req, odd, keyless, stale, faults>>

\* The object is created over the one that was there.
CreateObject ==
  /\ Server("create", "write")
  /\ Put("key", Empty)
  /\ UNCHANGED <<flags, req, odd, keyless, stale, faults>>

WriteObject ==
  /\ Server("write", "stations")
  /\ Put("key", req)
  /\ UNCHANGED <<flags, req, odd, keyless, stale, faults>>

\* The key could not be stored: this is logged, and the stations are written.
\* An object that could not be written is deleted.
StoreFails(step) ==
  /\ Fails
  /\ Server(step, "stations")
  /\ keyless' = keyless \cup {req}
  /\ IF step = "write" THEN Put("key", Missing) ELSE UNCHANGED store
  /\ UNCHANGED <<flags, req, odd, stale>>

OpenStations ==
  /\ Server("stations", "fill stations")
  /\ Put("stations", Empty)
  /\ UNCHANGED <<flags, req, odd, keyless, stale, faults>>

\* Mutant: nobody is told.
MutantFillStations ==
  /\ Server("fill stations", "idle")
  /\ Put("stations", req)
  /\ UNCHANGED <<flags, req, odd, keyless, stale, faults>>

\* The results of fprintf and fclose are not looked at.
FillStations ==
  /\ Server("fill stations", "notify")
  /\ \/ Put("stations", req) /\ UNCHANGED faults
     \/ Fails /\ UNCHANGED store
  /\ UNCHANGED <<flags, req, odd, keyless, stale>>

\* mkdir, the JSON text or fopen failed.  The answer to the request is "ok"
\* all the same.  A key may be stored that nobody is told of.
ApplyFails ==
  /\ Fails
  /\ \E step \in {"creds", "flag", "session", "stations"} : Server(step, "idle")
  /\ stale' = TRUE
  /\ UNCHANGED <<disk, req, odd, keyless>>

Quiet == <<bootVars, helperVars, reader, got, loaded, wake, disk, req, odd, keyless>>

\* notify_peer_applications
Notify ==
  /\ server = "notify"
  /\ server' = "idle"
  /\ notice' = (reader # "down")
  /\ UNCHANGED <<Quiet, stale, faults>>

NotifyFails ==
  /\ server = "notify"
  /\ Fails
  /\ server' = "idle"
  /\ stale' = TRUE
  /\ UNCHANGED <<Quiet, notice>>

ConfigServer ==
  \/ StartServer \/ OpenCreds \/ FillCreds \/ SetFlag
  \/ OpenSession \/ CreateObject \/ WriteObject \/ OpenStations \/ FillStations
  \/ Notify
ServerFails ==
  \/ StartServerFails \/ ApplyFails \/ NotifyFails
  \/ \E step \in {"session", "create", "write"} : StoreFails(step)

----------------------------------------------------------------------------
(* The main content: load_api_context *)

ReaderRest == <<disk, bootVars, serverVars, helperVars>>

\* It listens to the config server before it asks for the network mode.
StartReader ==
  /\ Started
  /\ reader = "down"
  /\ reader' = "ask"
  /\ UNCHANGED <<ReaderRest, got, loaded, notice, wake, stale, faults>>

\* The network manager answers; stale until the stations are loaded.
Ask ==
  /\ reader = "ask"
  /\ reader' = "key"
  /\ UNCHANGED <<ReaderRest, got, loaded, notice, wake, stale, faults>>

\* Nothing is loaded without an answer.
AskFails ==
  /\ reader = "ask"
  /\ Fails
  /\ reader' = "ready"
  /\ stale' = TRUE
  /\ UNCHANGED <<ReaderRest, got, loaded, notice, wake>>

\* bkk_tee_get: no object, one that was not written and a key that is longer
\* than the buffer all leave the key empty.
KeyView(c) == IF c \in Submissions \ odd THEN c ELSE Empty

LoadKey ==
  /\ reader = "key"
  /\ reader' = "stations"
  /\ got' = KeyView(store["key"])
  /\ UNCHANGED <<ReaderRest, loaded, notice, wake, stale, faults>>

\* The result is logged, and the key is empty.
LoadKeyFails ==
  /\ reader = "key"
  /\ Fails
  /\ reader' = "stations"
  /\ got' = Empty
  /\ stale' = TRUE
  /\ UNCHANGED <<ReaderRest, loaded, notice, wake>>

Readable(c) == c \in Submissions

\* Mutant: a request that came in the meantime is taken for done.
MutantLoadStations ==
  /\ reader = "stations"
  /\ reader' = "ready"
  /\ loaded' = IF Readable(store["stations"])
                 THEN [key |-> got, stations |-> store["stations"]] ELSE loaded
  /\ wake' = FALSE
  /\ UNCHANGED <<ReaderRest, got, notice, stale, faults>>

\* Without stations the context stays as it was, the key included.
LoadStations ==
  /\ reader = "stations"
  /\ reader' = "ready"
  /\ loaded' = IF Readable(store["stations"])
                 THEN [key |-> got, stations |-> store["stations"]] ELSE loaded
  /\ UNCHANGED <<ReaderRest, got, notice, wake, stale, faults>>

\* The listener sets g_update_requested.
Deliver ==
  /\ notice
  /\ notice' = FALSE /\ wake' = TRUE
  /\ UNCHANGED <<ReaderRest, reader, got, loaded, stale, faults>>

\* reinit: from here on everything is read again.
Reinit ==
  /\ reader = "ready" /\ wake
  /\ reader' = "ask"
  /\ wake' = FALSE
  /\ stale' = FALSE
  /\ UNCHANGED <<ReaderRest, got, loaded, notice, faults>>

Reader == StartReader \/ Ask \/ LoadKey \/ LoadStations \/ Deliver \/ Reinit
ReaderFails == AskFails \/ LoadKeyFails

----------------------------------------------------------------------------
(* wpa_helper: a program that runs once, with the boot mode as argument *)

HelperRest == <<flags, bootVars, serverVars, readerVars, stale>>
NetworkFile == IF mode = "WIFI_CONFIG" THEN "ap-net" ELSE "client-net"
WpaFile == IF mode = "WIFI_CONFIG" THEN "ap-wpa" ELSE "client-wpa"

Helper(from, to) ==
  /\ helper = from
  /\ helper' = to
  /\ UNCHANGED HelperRest

StartHelper ==
  /\ boot = "up"
  /\ Helper("none", CASE mode \in {"WIFI_CONFIG", "API_CONFIG"} -> "net"
                      [] mode = "NORMAL" -> "done"
                      [] OTHER -> "fatal")
  /\ text' = Fixed
  /\ UNCHANGED <<store, faults>>

OpenNetwork ==
  /\ Helper("net", "fill net")
  /\ Put(NetworkFile, Empty)
  /\ UNCHANGED <<text, faults>>

FillNetwork ==
  /\ Helper("fill net", IF mode = "API_CONFIG" THEN "load" ELSE "wpa")
  /\ Put(NetworkFile, Fixed)
  /\ UNCHANGED <<text, faults>>

\* Mutant: an empty file is not looked for.
MutantLoadCredentials ==
  LET c == store["creds"] IN
  /\ helper = "load"
  /\ UNCHANGED <<HelperRest, store, faults>>
  /\ IF c = Missing THEN helper' = "no file" /\ UNCHANGED text
                    ELSE helper' = "wpa" /\ text' = c

\* A missing file is fatal.  For one that cannot be used there is a fallback,
\* which an argument of the program may disable.
LoadCredentials ==
  LET c == store["creds"] IN
  /\ helper = "load"
  /\ UNCHANGED <<HelperRest, store, faults>>
  /\ \/ c = Missing /\ helper' = "no file" /\ UNCHANGED text
     \/ c \in Submissions \ odd /\ helper' = "wpa" /\ text' = c
     \/ c \notin (Submissions \ odd) \cup {Missing}
        /\ \/ helper' = "wpa" /\ text' = Fallback
           \/ helper' = "fatal" /\ UNCHANGED text

OpenWpa ==
  /\ Helper("wpa", "fill wpa")
  /\ Put(WpaFile, Empty)
  /\ UNCHANGED <<text, faults>>

FillWpa ==
  /\ Helper("fill wpa", "done")
  /\ Put(WpaFile, text)
  /\ UNCHANGED <<text, faults>>

\* A folder, a file, a write or a malloc.
HelperFails ==
  /\ helper \in HelperSteps
  /\ Fails
  /\ helper' = "fatal"
  /\ UNCHANGED <<HelperRest, store, text>>

WpaHelper ==
  \/ StartHelper \/ OpenNetwork \/ FillNetwork \/ LoadCredentials \/ OpenWpa \/ FillWpa

----------------------------------------------------------------------------
\* A device as it was delivered.  No program of the repository creates
\* api-configured, which all of them look for; it may be there from before.
Init ==
  /\ store = [s \in Stores |-> Missing]
  /\ flags \in {{}, {"api-configured"}}
  /\ boot = "off" /\ mode = "UNDEFINED"
  /\ server = "down" /\ req = 0 /\ odd = {} /\ keyless = {}
  /\ reader = "down" /\ got = Empty /\ loaded = [key |-> Empty, stations |-> Empty]
  /\ notice = FALSE /\ wake = FALSE /\ stale = FALSE
  /\ helper = "none" /\ text = Fixed
  /\ faults = 0 /\ boots = 0

Next ==
  \/ DetermineBootMode \/ BootFails \/ PowerLoss
  \/ SubmitWifi \/ SubmitApi \/ ConfigServer \/ ServerFails
  \/ Reader \/ ReaderFails
  \/ WpaHelper \/ HelperFails

Spec == Init /\ [][Next]_vars

----------------------------------------------------------------------------
(* Properties *)

\* Whenever the power goes: where the flag says that there are credentials,
\* there is a file of them, so that the helper of the next boot finds it, as
\* its comment expects; the file is not empty or cut off unless a call failed,
\* or a later form was being written when the power went; and stations do not
\* stay with the key of an earlier submission, unless theirs was not to be
\* stored or could not be.
SetupSurvives ==
  /\ "wifi-configured" \in flags =>
       /\ store["creds"] # Missing
       /\ store["creds"] = Empty => faults > 0 \/ req > 1
  /\ helper # "no file"
  /\ LET n == store["stations"]
     IN  n \in Submissions \ keyless => store["key"] \notin 1..(n - 1)

\* When nothing is on its way, the main content works with the key and the
\* stations that are stored, though it reads them one after the other while
\* they are written, unless a call that should have told it or read them
\* failed.
LoadedIsStored ==
  /\ reader = "ready" /\ ~notice /\ ~wake /\ ~stale
  /\ server \in {"down", "idle", "exited"}
  /\ Readable(store["stations"])
  => loaded = [key |-> KeyView(store["key"]), stations |-> store["stations"]]
=============================================================================
