------------------------- MODULE DeviceSetupProofs -------------------------
(***************************************************************************)
(* Theorems about what is entered on the setup pages, for every number of  *)
(* submissions, failing calls and power losses.                            *)
(***************************************************************************)
EXTENDS DeviceSetup, TLAPS

USE BoundsAssumption
USE DEF Missing, Fallback, Fixed, Empty, Submissions, Contents, Volatile,
        Stores, BootModes, ServerSteps, HelperSteps

\* A form is being handled.
Handling == server \in ServerSteps => req \in Submissions

(* The file of the credentials is there before the flag that says so, and  *)
(* the helper looks for it only in a boot that the flag selected.          *)
CredsFirst ==
  server \in {"fill creds", "flag"} \/ "wifi-configured" \in flags
    => store["creds"] # Missing
(* While the first form is handled there is no flag before its end, and     *)
(* what it leaves in the file is not empty unless the write failed.        *)
CredsSteps == {"creds", "fill creds", "flag"}
FirstForm ==
  /\ "wifi-configured" \in flags =>
       /\ req > 0
       /\ server \in CredsSteps => req > 1
       /\ store["creds"] = Empty => faults > 0 \/ req > 1
  /\ server = "flag" /\ faults = 0 => store["creds"] # Empty
BootByFlag == boot = "up" /\ mode = "API_CONFIG" => "wifi-configured" \in flags
HelperInBoot ==
  /\ helper \in HelperSteps => boot = "up"
  /\ helper = "load" => mode = "API_CONFIG"
  /\ helper # "no file"

(* Stations are those of the last form or of an earlier one; when they are *)
(* written, the key of an earlier form has gone.                           *)
StationsInOrder == store["stations"] \in Submissions => store["stations"] <= req
KeyFirst ==
  server \in {"stations", "fill stations"} /\ req \notin keyless
    => store["key"] \notin 1..(req - 1)
KeyKept ==
  store["stations"] \in Submissions \ keyless
    => store["key"] \notin 1..(store["stations"] - 1)

(* Nothing is being written and nothing is on its way: then what was read  *)
(* is what is stored, also between the two reads.                          *)
Settled ==
  ~notice /\ ~wake /\ ~stale /\ server \in {"down", "idle", "exited"}
ReadIsStored ==
  Settled =>
    /\ reader = "stations" => got = KeyView(store["key"])
    /\ reader = "ready" /\ Readable(store["stations"]) =>
         loaded = [key |-> KeyView(store["key"]), stations |-> store["stations"]]

IInv ==
  /\ TypeOK /\ Handling
  /\ CredsFirst /\ FirstForm /\ BootByFlag /\ HelperInBoot
  /\ StationsInOrder /\ KeyFirst /\ KeyKept
  /\ ReadIsStored

----------------------------------------------------------------------------
(* Types *)

LEMMA InitType == Init => TypeOK
<1> SUFFICES ASSUME Init PROVE TypeOK
  OBVIOUS
<1>1. TypeDisk
  BY DEF Init, TypeDisk
<1>2. TypeServer /\ TypeReader /\ TypeHelper
  BY DEF Init, TypeServer, TypeReader, TypeHelper
<1>3. TypeFlags
  BY Zenon DEF Init, TypeFlags
<1>4. TypeCounts
  BY DEF Init, TypeCounts
<1> QED BY <1>1, <1>2, <1>3, <1>4 DEF TypeOK

\* What is written is a content, and a boot mode is one of four.
LEMMA DiskType ==
  ASSUME TypeOK, Next
  PROVE  TypeDisk'
<1> USE DEF TypeOK, disk, bootVars, serverVars, readerVars, helperVars
<1>1. CASE DetermineBootMode
  BY <1>1 DEF DetermineBootMode, BootMode, TypeDisk
<1>2. CASE BootFails
  BY <1>2 DEF BootFails, TypeDisk
<1>3. CASE PowerLoss
  BY <1>3 DEF PowerLoss, TypeDisk
<1>4. CASE OpenCreds
  BY <1>4 DEF OpenCreds, Server, Put, TypeDisk
<1>5. CASE FillCreds
  BY <1>5 DEF FillCreds, Server, Put, TypeServer, TypeDisk
<1>6. CASE SetFlag
  BY <1>6 DEF SetFlag, Server, TypeDisk
<1>7. CASE CreateObject
  BY <1>7 DEF CreateObject, Server, Put, TypeDisk
<1>8. CASE WriteObject
  BY <1>8 DEF WriteObject, Server, Put, TypeServer, TypeDisk
<1>9. CASE \E step \in {"session", "create", "write"} : StoreFails(step)
  BY <1>9 DEF StoreFails, Server, Put, TypeDisk
<1>10. CASE OpenStations
  BY <1>10 DEF OpenStations, Server, Put, TypeDisk
<1>11. CASE FillStations
  BY <1>11 DEF FillStations, Server, Put, TypeServer, TypeDisk
<1>12. CASE OpenNetwork \/ FillNetwork
  BY <1>12 DEF OpenNetwork, Helper, HelperRest, Put, FillNetwork, NetworkFile,
     TypeDisk
<1>13. CASE OpenWpa
  BY <1>13 DEF OpenWpa, Helper, HelperRest, Put, WpaFile, TypeDisk
<1>14. CASE FillWpa
  BY <1>14 DEF FillWpa, Helper, HelperRest, Put, WpaFile, TypeHelper,
     TypeDisk
<1>15. CASE UNCHANGED <<store, flags, boot, mode>>
  BY <1>15 DEF TypeDisk
<1> QED
  BY <1>1, <1>2, <1>3, <1>4, <1>5, <1>6, <1>7, <1>8, <1>9, <1>10, <1>11, <1>12, <1>13, <1>14, <1>15 DEF
     Next, ConfigServer, ServerFails, Reader, ReaderFails, WpaHelper,
     SubmitWifi, Submitted, Server, SubmitApi, StartServer, OpenSession,
     Notify, Quiet, StartServerFails, ApplyFails, NotifyFails, StartReader,
     ReaderRest, Ask, LoadKey, LoadStations, Deliver, Reinit, AskFails,
     LoadKeyFails, StartHelper, Helper, HelperRest, LoadCredentials,
     HelperFails

\* The flags stay flags.
LEMMA FlagType ==
  ASSUME TypeOK, Next
  PROVE  TypeFlags'
<1> USE DEF TypeOK, disk, bootVars, serverVars, readerVars, helperVars
<1>1. CASE PowerLoss
  BY <1>1, Zenon DEF PowerLoss, TypeFlags
<1>2. CASE ApplyFails
  BY <1>2, Zenon DEF ApplyFails, Server, TypeFlags
<1>3. CASE Notify
  BY <1>3, Zenon DEF Notify, Quiet, TypeFlags
<1>4. CASE NotifyFails
  BY <1>4, Zenon DEF NotifyFails, Quiet, TypeFlags
<1>5. CASE AskFails
  BY <1>5, Zenon DEF AskFails, ReaderRest, TypeFlags
<1>6. CASE LoadKeyFails
  BY <1>6, Zenon DEF LoadKeyFails, ReaderRest, TypeFlags
<1>7. CASE Deliver
  BY <1>7, Zenon DEF Deliver, ReaderRest, TypeFlags
<1>8. CASE Reinit
  BY <1>8, Zenon DEF Reinit, ReaderRest, TypeFlags
<1>9. CASE UNCHANGED <<notice, wake, stale>>
  BY <1>9, Zenon DEF TypeFlags
<1> QED
  BY <1>1, <1>2, <1>3, <1>4, <1>5, <1>6, <1>7, <1>8, <1>9 DEF Next,
     ConfigServer, ServerFails, Reader, ReaderFails, WpaHelper,
     DetermineBootMode, BootFails, SubmitWifi, Submitted, Server, SubmitApi,
     StartServer, OpenCreds, FillCreds, SetFlag, OpenSession, CreateObject,
     WriteObject, OpenStations, FillStations, StartServerFails, StoreFails,
     StartReader, ReaderRest, Ask, LoadKey, LoadStations, StartHelper, Helper,
     HelperRest, OpenNetwork, FillNetwork, LoadCredentials, OpenWpa, FillWpa,
     HelperFails

\* No bound is exceeded.
LEMMA CountType ==
  ASSUME TypeOK, Next
  PROVE  TypeCounts'
<1> USE DEF TypeOK, disk, bootVars, serverVars, readerVars, helperVars
<1>1. CASE BootFails
  BY <1>1 DEF BootFails, Fails, TypeCounts
<1>2. CASE PowerLoss
  BY <1>2 DEF PowerLoss, TypeCounts
<1>3. CASE StartServerFails
  BY <1>3 DEF StartServerFails, Server, Started, Fails, TypeCounts
<1>4. CASE FillCreds
  <2>1. boots' = boots
    BY <1>4 DEF FillCreds, Server, Put
  <2>2. faults' = faults \/ Fails
    BY <1>4 DEF FillCreds
  <2> QED BY <2>1, <2>2 DEF Fails, TypeCounts
<1>5. CASE \E step \in {"session", "create", "write"} : StoreFails(step)
  BY <1>5 DEF StoreFails, Server, Put, Fails, TypeCounts
<1>6. CASE FillStations
  <2>1. boots' = boots
    BY <1>6 DEF FillStations, Server, Put
  <2>2. faults' = faults \/ Fails
    BY <1>6 DEF FillStations
  <2> QED BY <2>1, <2>2 DEF Fails, TypeCounts
<1>7. CASE ApplyFails
  BY <1>7 DEF ApplyFails, Server, Fails, TypeCounts
<1>8. CASE NotifyFails
  BY <1>8 DEF NotifyFails, Quiet, Fails, TypeCounts
<1>9. CASE AskFails
  BY <1>9 DEF AskFails, ReaderRest, Fails, TypeCounts
<1>10. CASE LoadKeyFails
  BY <1>10 DEF LoadKeyFails, ReaderRest, Fails, TypeCounts
<1>11. CASE HelperFails
  <2>1. boots' = boots
    BY <1>11 DEF HelperFails, HelperRest
  <2>2. faults' = faults \/ Fails
    BY <1>11 DEF HelperFails
  <2> QED BY <2>1, <2>2 DEF Fails, TypeCounts
<1>12. CASE UNCHANGED <<faults, boots>>
  BY <1>12 DEF TypeCounts
<1> QED
  BY <1>1, <1>2, <1>3, <1>4, <1>5, <1>6, <1>7, <1>8, <1>9, <1>10, <1>11, <1>12 DEF
     Next, ConfigServer, ServerFails, Reader, ReaderFails, WpaHelper,
     DetermineBootMode, SubmitWifi, Submitted, Server, SubmitApi, StartServer,
     OpenCreds, SetFlag, OpenSession, CreateObject, WriteObject, OpenStations,
     Notify, Quiet, StartReader, ReaderRest, Ask, LoadKey, LoadStations,
     Deliver, Reinit, StartHelper, Helper, HelperRest, OpenNetwork,
     FillNetwork, LoadCredentials, OpenWpa, FillWpa

\* The config server is at one of its steps, with a form that was posted.
LEMMA ServerType ==
  ASSUME TypeOK, Handling, Next
  PROVE  TypeServer'
<1> USE DEF TypeOK, disk, bootVars, serverVars, readerVars, helperVars
<1>1. CASE PowerLoss
  BY <1>1 DEF PowerLoss, TypeServer
<1>2. CASE SubmitWifi
  BY <1>2 DEF SubmitWifi, Submitted, Server, TypeServer
<1>3. CASE SubmitApi
  <2>1. PICK page \in {"session", "stations"}, isOdd \in BOOLEAN :
          Submitted(page, isOdd)
    BY <1>3 DEF SubmitApi
  <2>2. keyless' = keyless \/ keyless' = keyless \cup {req'}
    BY <1>3 DEF SubmitApi
  <2>3. server' = page /\ req' \in Submissions
    BY <2>1 DEF Submitted, Server, TypeServer
  <2>4. odd' \subseteq odd \cup {req'}
    BY <2>1 DEF Submitted
  <2> QED BY <2>2, <2>3, <2>4 DEF TypeServer
<1>4. CASE StartServer \/ OpenCreds \/ FillCreds \/ SetFlag \/ OpenSession
  BY <1>4 DEF StartServer, Server, Started, OpenCreds, Put, FillCreds, SetFlag,
     OpenSession, TypeServer
<1>5. CASE CreateObject \/ WriteObject \/ OpenStations \/ FillStations
  BY <1>5 DEF CreateObject, Server, Put, WriteObject, OpenStations,
     FillStations, TypeServer
<1>6. CASE Notify \/ NotifyFails
  BY <1>6 DEF Notify, Quiet, NotifyFails, TypeServer
<1>7. CASE StartServerFails \/ ApplyFails
  BY <1>7 DEF StartServerFails, Server, Started, ApplyFails, TypeServer
<1>8. CASE \E step \in {"session", "create", "write"} : StoreFails(step)
  <2>1. server \in {"session", "create", "write"} /\ server' = "stations"
    BY <1>8 DEF StoreFails, Server
  <2>2. keyless' = keyless \cup {req} /\ UNCHANGED <<req, odd>>
    BY <1>8 DEF StoreFails
  <2>3. req \in Submissions
    BY <2>1 DEF Handling
  <2> QED BY <2>1, <2>2, <2>3 DEF TypeServer
<1>9. CASE UNCHANGED <<server, req, odd, keyless>>
  BY <1>9 DEF TypeServer
<1> QED
  BY <1>1, <1>2, <1>3, <1>4, <1>5, <1>6, <1>7, <1>8, <1>9 DEF Next,
     ConfigServer, ServerFails, Reader, ReaderFails, WpaHelper,
     DetermineBootMode, BootFails, StartReader, ReaderRest, Ask, LoadKey,
     LoadStations, Deliver, Reinit, AskFails, LoadKeyFails, StartHelper,
     Helper, HelperRest, OpenNetwork, FillNetwork, LoadCredentials, OpenWpa,
     FillWpa, HelperFails

\* The main content is at one of its steps, and has read what can be read.
LEMMA ReaderType ==
  ASSUME TypeOK, Next
  PROVE  TypeReader'
<1> USE DEF TypeOK, disk, bootVars, serverVars, readerVars, helperVars
<1>1. CASE PowerLoss
  BY <1>1 DEF PowerLoss, TypeReader
<1>2. CASE StartReader \/ Ask \/ AskFails
  BY <1>2 DEF StartReader, ReaderRest, Started, Ask, AskFails, TypeReader
<1>3. CASE LoadKey \/ LoadKeyFails
  BY <1>3 DEF LoadKey, ReaderRest, LoadKeyFails, KeyView, TypeReader
<1>4. CASE LoadStations
  BY <1>4 DEF LoadStations, ReaderRest, Readable, TypeReader
<1>5. CASE Reinit
  BY <1>5 DEF Reinit, ReaderRest, TypeReader
<1>6. CASE UNCHANGED <<reader, got, loaded>>
  BY <1>6 DEF TypeReader
<1> QED
  BY <1>1, <1>2, <1>3, <1>4, <1>5, <1>6 DEF Next, ConfigServer, ServerFails,
     Reader, ReaderFails, WpaHelper, DetermineBootMode, BootFails, SubmitWifi,
     Submitted, Server, SubmitApi, StartServer, OpenCreds, FillCreds, SetFlag,
     OpenSession, CreateObject, WriteObject, OpenStations, FillStations,
     Notify, Quiet, StartServerFails, ApplyFails, NotifyFails, StoreFails,
     Deliver, ReaderRest, StartHelper, Helper, HelperRest, OpenNetwork,
     FillNetwork, LoadCredentials, OpenWpa, FillWpa, HelperFails

\* The helper is at one of its steps, with a text to write.
LEMMA HelperType ==
  ASSUME TypeOK, Next
  PROVE  TypeHelper'
<1> USE DEF TypeOK, disk, bootVars, serverVars, readerVars, helperVars
<1>1. CASE PowerLoss
  BY <1>1 DEF PowerLoss, TypeHelper
<1>2. CASE StartHelper
  BY <1>2 DEF StartHelper, Helper, HelperRest, TypeHelper
<1>3. CASE OpenNetwork \/ FillNetwork
  BY <1>3 DEF OpenNetwork, Helper, HelperRest, Put, FillNetwork, TypeHelper
<1>4. CASE LoadCredentials
  BY <1>4 DEF LoadCredentials, HelperRest, TypeHelper
<1>5. CASE OpenWpa \/ FillWpa
  BY <1>5 DEF OpenWpa, Helper, HelperRest, Put, FillWpa, TypeHelper
<1>6. CASE HelperFails
  BY <1>6 DEF HelperFails, HelperRest, TypeHelper
<1>7. CASE UNCHANGED <<helper, text>>
  BY <1>7 DEF TypeHelper
<1> QED
  BY <1>1, <1>2, <1>3, <1>4, <1>5, <1>6, <1>7 DEF Next, ConfigServer,
     ServerFails, Reader, ReaderFails, WpaHelper, DetermineBootMode, BootFails,
     SubmitWifi, Submitted, Server, SubmitApi, StartServer, OpenCreds,
     FillCreds, SetFlag, OpenSession, CreateObject, WriteObject, OpenStations,
     FillStations, Notify, Quiet, StartServerFails, ApplyFails, NotifyFails,
     StoreFails, StartReader, ReaderRest, Ask, LoadKey, LoadStations, Deliver,
     Reinit, AskFails, LoadKeyFails

LEMMA TypeKept ==
  ASSUME TypeOK, Handling, [Next]_vars
  PROVE  TypeOK'
<1>1. CASE Next
  BY <1>1, DiskType, ServerType, ReaderType, HelperType, FlagType, CountType
     DEF TypeOK
<1>2. CASE UNCHANGED vars
  <2>1. TypeDisk'
    BY <1>2 DEF vars, TypeOK, TypeDisk
  <2>2. TypeServer'
    BY <1>2 DEF vars, TypeOK, TypeServer
  <2>3. TypeReader'
    BY <1>2 DEF vars, TypeOK, TypeReader
  <2>4. TypeHelper'
    BY <1>2 DEF vars, TypeOK, TypeHelper
  <2>5. TypeFlags'
    BY <1>2, Zenon DEF vars, TypeOK, TypeFlags
  <2>6. TypeCounts'
    BY <1>2 DEF vars, TypeOK, TypeCounts
  <2> QED BY <2>1, <2>2, <2>3, <2>4, <2>5, <2>6 DEF TypeOK
<1> QED BY <1>1, <1>2

----------------------------------------------------------------------------
(* What survives *)

\* A form is handled only after it was posted.
LEMMA HandlingKept ==
  ASSUME TypeOK, Handling, Next
  PROVE  Handling'
<1> USE DEF TypeOK, disk, bootVars, serverVars, readerVars, helperVars
<1>1. CASE PowerLoss
  BY <1>1 DEF PowerLoss, Handling
<1>2. CASE SubmitWifi
  BY <1>2 DEF SubmitWifi, Submitted, Server, TypeServer, Handling
<1>3. CASE SubmitApi
  <2>1. PICK page \in {"session", "stations"}, isOdd \in BOOLEAN :
          Submitted(page, isOdd)
    BY <1>3 DEF SubmitApi
  <2>2. req < MaxSubmits /\ req' = req + 1
    BY <2>1 DEF Submitted
  <2>3. req \in {0} \cup Submissions
    BY DEF TypeServer
  <2>4. req' \in Submissions
    BY <2>2, <2>3
  <2> QED BY <2>4 DEF Handling
<1>4. CASE StartServer \/ OpenCreds \/ FillCreds \/ SetFlag \/ OpenSession
  BY <1>4 DEF StartServer, Server, Started, OpenCreds, Put, FillCreds, SetFlag,
     OpenSession, Handling
<1>5. CASE CreateObject \/ WriteObject \/ OpenStations \/ FillStations
  BY <1>5 DEF CreateObject, Server, Put, WriteObject, OpenStations,
     FillStations, Handling
<1>6. CASE Notify \/ NotifyFails
  BY <1>6 DEF Notify, Quiet, NotifyFails, Handling
<1>7. CASE StartServerFails \/ ApplyFails
  BY <1>7 DEF StartServerFails, Server, Started, ApplyFails, Handling
<1>8. CASE \E step \in {"session", "create", "write"} : StoreFails(step)
  BY <1>8 DEF StoreFails, Server, Put, Handling
<1>9. CASE UNCHANGED <<server, req>>
  BY <1>9 DEF Handling
<1> QED
  BY <1>1, <1>2, <1>3, <1>4, <1>5, <1>6, <1>7, <1>8, <1>9 DEF Next,
     ConfigServer, ServerFails, Reader, ReaderFails, WpaHelper,
     DetermineBootMode, BootFails, StartReader, ReaderRest, Ask, LoadKey,
     LoadStations, Deliver, Reinit, AskFails, LoadKeyFails, StartHelper,
     Helper, HelperRest, OpenNetwork, FillNetwork, LoadCredentials, OpenWpa,
     FillWpa, HelperFails

\* Nothing removes the file of the credentials, and it is opened before the flag.
LEMMA CredsFirstKept ==
  ASSUME TypeOK, CredsFirst, Next
  PROVE  CredsFirst'
<1> USE DEF TypeOK, disk, bootVars, serverVars, readerVars, helperVars
<1>1. CASE PowerLoss
  BY <1>1 DEF PowerLoss, TypeDisk, CredsFirst
<1>2. CASE SubmitWifi \/ SubmitApi
  BY <1>2 DEF SubmitWifi, Submitted, Server, SubmitApi, CredsFirst
<1>3. CASE StartServer \/ OpenSession
  BY <1>3 DEF StartServer, Server, Started, OpenSession, CredsFirst
<1>4. CASE OpenCreds \/ FillCreds
  <2>1. store \in [Stores -> Contents] /\ req # Missing
    <3>1. req \in {0} \cup Submissions
      BY DEF TypeServer
    <3> QED BY <3>1 DEF TypeDisk
  <2>2. CASE OpenCreds
    <3>1. store' = [store EXCEPT !["creds"] = Empty]
      BY <2>2 DEF OpenCreds, Put
    <3>2. store'["creds"] # Missing
      BY <2>1, <3>1
    <3> QED BY <3>2 DEF CredsFirst
  <2>3. CASE FillCreds
    <3>1. store["creds"] # Missing
      BY <2>3 DEF FillCreds, Server, CredsFirst
    <3>2. store' = [store EXCEPT !["creds"] = req] \/ store' = store
      BY <2>3 DEF FillCreds, Put
    <3> QED BY <2>1, <3>1, <3>2 DEF CredsFirst
  <2> QED BY <1>4, <2>2, <2>3
<1>5. CASE SetFlag
  BY <1>5 DEF SetFlag, Server, CredsFirst
<1>6. CASE CreateObject \/ WriteObject
  BY <1>6 DEF CreateObject, Server, Put, WriteObject, TypeDisk, CredsFirst
<1>7. CASE OpenStations \/ FillStations
  BY <1>7 DEF OpenStations, Server, Put, FillStations, TypeDisk, CredsFirst
<1>8. CASE Notify \/ NotifyFails
  BY <1>8 DEF Notify, Quiet, NotifyFails, CredsFirst
<1>9. CASE StartServerFails \/ ApplyFails
  BY <1>9 DEF StartServerFails, Server, Started, ApplyFails, CredsFirst
<1>10. CASE \E step \in {"session", "create", "write"} : StoreFails(step)
  BY <1>10 DEF StoreFails, Server, Put, TypeDisk, CredsFirst
<1>11. CASE OpenNetwork \/ FillNetwork
  BY <1>11 DEF OpenNetwork, Helper, HelperRest, Put, FillNetwork, NetworkFile,
     TypeDisk, CredsFirst
<1>12. CASE OpenWpa \/ FillWpa
  BY <1>12 DEF OpenWpa, Helper, HelperRest, Put, FillWpa, WpaFile, TypeDisk,
     CredsFirst
<1>13. CASE UNCHANGED <<server, store, flags>>
  BY <1>13 DEF CredsFirst
<1> QED
  BY <1>1, <1>2, <1>3, <1>4, <1>5, <1>6, <1>7, <1>8, <1>9, <1>10, <1>11, <1>12, <1>13 DEF
     Next, ConfigServer, ServerFails, Reader, ReaderFails, WpaHelper,
     DetermineBootMode, BootFails, StartReader, ReaderRest, Ask, LoadKey,
     LoadStations, Deliver, Reinit, AskFails, LoadKeyFails, StartHelper,
     Helper, HelperRest, LoadCredentials, HelperFails

\* The boot mode is one that the flags of this boot or of a later one select.
LEMMA BootByFlagKept ==
  ASSUME TypeOK, BootByFlag, Next
  PROVE  BootByFlag'
<1> USE DEF TypeOK, disk, bootVars, serverVars, readerVars, helperVars
<1>1. CASE DetermineBootMode
  BY <1>1 DEF DetermineBootMode, BootMode, TypeDisk, BootByFlag
<1>2. CASE BootFails
  BY <1>2 DEF BootFails, BootByFlag
<1>3. CASE PowerLoss
  BY <1>3 DEF PowerLoss, BootByFlag
<1>4. CASE SetFlag
  BY <1>4 DEF SetFlag, Server, BootByFlag
<1>5. CASE UNCHANGED <<boot, mode, flags>>
  BY <1>5 DEF BootByFlag
<1> QED
  BY <1>1, <1>2, <1>3, <1>4, <1>5 DEF Next, ConfigServer, ServerFails, Reader,
     ReaderFails, WpaHelper, SubmitWifi, Submitted, Server, SubmitApi,
     StartServer, OpenCreds, FillCreds, OpenSession, CreateObject, WriteObject,
     OpenStations, FillStations, Notify, Quiet, StartServerFails, ApplyFails,
     NotifyFails, StoreFails, StartReader, ReaderRest, Ask, LoadKey,
     LoadStations, Deliver, Reinit, AskFails, LoadKeyFails, StartHelper,
     Helper, HelperRest, OpenNetwork, FillNetwork, LoadCredentials, OpenWpa,
     FillWpa, HelperFails

\* In the mode that loads credentials, there is a file of them.
LEMMA HelperInBootKept ==
  ASSUME TypeOK, CredsFirst, BootByFlag, HelperInBoot, Next
  PROVE  HelperInBoot'
<1> USE DEF TypeOK, disk, bootVars, serverVars, readerVars, helperVars
<1>1. CASE DetermineBootMode
  BY <1>1 DEF DetermineBootMode, HelperInBoot
<1>2. CASE BootFails
  BY <1>2 DEF BootFails, HelperInBoot
<1>3. CASE PowerLoss
  BY <1>3 DEF PowerLoss, HelperInBoot
<1>4. CASE StartHelper
  BY <1>4 DEF StartHelper, Helper, HelperRest, HelperInBoot
<1>5. CASE OpenNetwork \/ FillNetwork
  BY <1>5 DEF OpenNetwork, Helper, HelperRest, Put, FillNetwork, HelperInBoot
<1>6. CASE LoadCredentials
  BY <1>6 DEF LoadCredentials, HelperRest, CredsFirst, BootByFlag, HelperInBoot
<1>7. CASE OpenWpa \/ FillWpa
  BY <1>7 DEF OpenWpa, Helper, HelperRest, Put, FillWpa, HelperInBoot
<1>8. CASE HelperFails
  BY <1>8 DEF HelperFails, HelperRest, HelperInBoot
<1>9. CASE UNCHANGED <<boot, mode, helper>>
  BY <1>9 DEF HelperInBoot
<1> QED
  BY <1>1, <1>2, <1>3, <1>4, <1>5, <1>6, <1>7, <1>8, <1>9 DEF Next,
     ConfigServer, ServerFails, Reader, ReaderFails, WpaHelper, SubmitWifi,
     Submitted, Server, SubmitApi, StartServer, OpenCreds, FillCreds, SetFlag,
     OpenSession, CreateObject, WriteObject, OpenStations, FillStations,
     Notify, Quiet, StartServerFails, ApplyFails, NotifyFails, StoreFails,
     StartReader, ReaderRest, Ask, LoadKey, LoadStations, Deliver, Reinit,
     AskFails, LoadKeyFails

\* A write changes one file.
LEMMA PutChangesOne ==
  ASSUME TypeOK, NEW s \in Stores, NEW c, Put(s, c)
  PROVE  /\ store'[s] = c
         /\ \A k \in Stores : k # s => store'[k] = store[k]
BY DEF TypeOK, TypeDisk, Put

\* The steps that write the key or the stations.
KeyWritten ==
  CreateObject \/ WriteObject \/ \E step \in {"session", "create", "write"} : StoreFails(step)
StationsWritten == OpenStations \/ FillStations

\* No other step, and no loss of power, changes them.
LEMMA OthersKeepKeyAndStations ==
  ASSUME TypeOK, Next, ~KeyWritten, ~StationsWritten
  PROVE  UNCHANGED <<store["key"], store["stations"]>>
<1> USE DEF disk
<1>1. CASE PowerLoss
  BY <1>1 DEF PowerLoss, TypeOK, TypeDisk
<1>2. CASE OpenCreds
  BY <1>2, PutChangesOne DEF OpenCreds
<1>3. CASE FillCreds
  BY <1>3, PutChangesOne DEF FillCreds
<1>4. CASE OpenNetwork \/ FillNetwork
  <2>1. NetworkFile \in Stores \ {"key", "stations"}
    BY DEF NetworkFile
  <2> QED BY <1>4, <2>1, PutChangesOne DEF OpenNetwork, FillNetwork
<1>5. CASE OpenWpa \/ FillWpa
  <2>1. WpaFile \in Stores \ {"key", "stations"}
    BY DEF WpaFile
  <2> QED BY <1>5, <2>1, PutChangesOne DEF OpenWpa, FillWpa
<1>6. CASE UNCHANGED store
  BY <1>6
<1> QED
  BY <1>1, <1>2, <1>3, <1>4, <1>5, <1>6 DEF KeyWritten, StationsWritten, Next,
     ConfigServer, ServerFails, Reader, ReaderFails, WpaHelper,
     DetermineBootMode, BootFails, SubmitWifi, Submitted, SubmitApi,
     StartServer, SetFlag, OpenSession, Notify, Quiet, StartServerFails,
     ApplyFails, NotifyFails, StartReader, ReaderRest, Ask, LoadKey,
     LoadStations, Deliver, Reinit, AskFails, LoadKeyFails, StartHelper,
     HelperRest, LoadCredentials, HelperFails

\* Only a new form changes the number of the form or what is known of it,
\* but for a key that cannot be stored.
LEMMA FormKept ==
  ASSUME TypeOK, Next, ~SubmitWifi, ~SubmitApi
  PROVE  /\ UNCHANGED <<req, odd>>
         /\ keyless' = keyless \/ keyless' = keyless \cup {req}
<1>1. CASE DetermineBootMode \/ BootFails \/ PowerLoss
  BY <1>1 DEF DetermineBootMode, BootFails, PowerLoss, serverVars
<1>2. CASE ConfigServer
  BY <1>2 DEF ConfigServer, StartServer, OpenCreds, FillCreds, SetFlag,
     OpenSession, CreateObject, WriteObject, OpenStations, FillStations,
     Notify, Quiet
<1>3. CASE ServerFails
  BY <1>3 DEF ServerFails, StartServerFails, ApplyFails, NotifyFails, Quiet,
     StoreFails
<1>4. CASE Reader \/ ReaderFails
  BY <1>4 DEF Reader, ReaderFails, StartReader, ReaderRest, Ask, LoadKey,
     LoadStations, Deliver, Reinit, AskFails, LoadKeyFails, serverVars
<1>5. CASE WpaHelper \/ HelperFails
  BY <1>5 DEF WpaHelper, StartHelper, HelperRest, OpenNetwork, FillNetwork,
     LoadCredentials, OpenWpa, FillWpa, HelperFails, Helper, serverVars
<1> QED BY <1>1, <1>2, <1>3, <1>4, <1>5 DEF Next

\* A new form has the next number.
LEMMA FormIsNew ==
  ASSUME TypeOK, SubmitWifi \/ SubmitApi
  PROVE  /\ req \in Nat /\ req' = req + 1
         /\ keyless \subseteq keyless' /\ odd \subseteq odd'
         /\ UNCHANGED store
<1>1. PICK page \in {"creds", "session", "stations"}, isOdd \in BOOLEAN :
        Submitted(page, isOdd)
  BY DEF SubmitWifi, SubmitApi
<1>2. req' = req + 1 /\ UNCHANGED store /\ odd \subseteq odd'
  BY <1>1 DEF Submitted, disk
<1>3. keyless \subseteq keyless'
  BY DEF SubmitWifi, SubmitApi
<1>4. req \in {0} \cup Submissions
  BY DEF TypeOK, TypeServer
<1> QED BY <1>2, <1>3, <1>4

\* Failures are only counted up.
LEMMA FaultsGrow ==
  ASSUME TypeOK, Next
  PROVE  faults \in Nat /\ faults' \in Nat /\ faults' >= faults
<1>1. faults \in Nat
  BY DEF TypeOK, TypeCounts
<1>2. faults' = faults \/ Fails
  <2>1. CASE DetermineBootMode \/ BootFails \/ PowerLoss \/ SubmitWifi \/ SubmitApi
    BY <2>1 DEF DetermineBootMode, BootFails, PowerLoss, SubmitWifi, SubmitApi,
       Submitted
  <2>2. CASE ConfigServer
    BY <2>2 DEF ConfigServer, StartServer, OpenCreds, FillCreds, SetFlag,
       OpenSession, CreateObject, WriteObject, OpenStations, FillStations,
       Notify
  <2>3. CASE ServerFails \/ ReaderFails
    BY <2>3 DEF ServerFails, StartServerFails, ApplyFails, NotifyFails,
       StoreFails, ReaderFails, AskFails, LoadKeyFails
  <2>4. CASE Reader
    BY <2>4 DEF Reader, StartReader, Ask, LoadKey, LoadStations, Deliver, Reinit
  <2>5. CASE WpaHelper \/ HelperFails
    BY <2>5 DEF WpaHelper, StartHelper, OpenNetwork, FillNetwork,
       LoadCredentials, OpenWpa, FillWpa, HelperFails
  <2> QED BY <2>1, <2>2, <2>3, <2>4, <2>5 DEF Next
<1> QED BY <1>1, <1>2 DEF Fails

\* The steps that change the credentials or their flag.
CredsWritten == OpenCreds \/ FillCreds \/ SetFlag

\* No other step changes them, and none but a new form leads to those steps.
LEMMA OthersKeepCreds ==
  ASSUME TypeOK, Next, ~CredsWritten
  PROVE  /\ store'["creds"] = store["creds"] /\ UNCHANGED flags
         /\ SubmitWifi \/ (server' \in {"creds", "fill creds", "flag"} => server' = server)
<1> USE DEF disk, serverVars
<1>1. CASE DetermineBootMode \/ BootFails \/ PowerLoss
  BY <1>1 DEF DetermineBootMode, BootFails, PowerLoss, TypeOK, TypeDisk
<1>2. CASE SubmitWifi \/ SubmitApi
  BY <1>2 DEF SubmitWifi, SubmitApi, Submitted, Server
<1>3. CASE StartServer \/ OpenSession \/ Notify
  BY <1>3 DEF StartServer, OpenSession, Notify, Quiet, Server
<1>4. CASE CreateObject \/ WriteObject \/ OpenStations \/ FillStations
  BY <1>4, PutChangesOne DEF CreateObject, WriteObject, OpenStations,
     FillStations, Server
<1>5. CASE ServerFails
  BY <1>5, PutChangesOne DEF ServerFails, StartServerFails, ApplyFails,
     NotifyFails, StoreFails, Quiet, Server
<1>6. CASE Reader \/ ReaderFails
  BY <1>6 DEF Reader, ReaderFails, StartReader, ReaderRest, Ask, LoadKey,
     LoadStations, Deliver, Reinit, AskFails, LoadKeyFails
<1>7. CASE WpaHelper \/ HelperFails
  <2>1. NetworkFile \in Stores \ {"creds"} /\ WpaFile \in Stores \ {"creds"}
    BY DEF NetworkFile, WpaFile
  <2>2. server' = server /\ flags' = flags
    BY <1>7 DEF WpaHelper, StartHelper, Helper, HelperRest, OpenNetwork,
       FillNetwork, LoadCredentials, OpenWpa, FillWpa, HelperFails
  <2>3. store'["creds"] = store["creds"]
    BY <1>7, <2>1, PutChangesOne DEF WpaHelper, StartHelper, OpenNetwork,
       FillNetwork, LoadCredentials, OpenWpa, FillWpa, HelperFails
  <2> QED BY <2>2, <2>3
<1> QED BY <1>1, <1>2, <1>3, <1>4, <1>5, <1>6, <1>7 DEF CredsWritten, Next, ConfigServer

\* The flag of the first form is its last step; a later form finds the flag.
LEMMA FirstFormKept ==
  ASSUME TypeOK, Handling, FirstForm, Next
  PROVE  FirstForm'
<1>1. /\ req \in Nat /\ req \in {0} \cup Submissions
      /\ faults \in Nat /\ faults' \in Nat /\ faults' >= faults
  <2>1. req \in {0} \cup Submissions
    BY DEF TypeOK, TypeServer
  <2>2. req \in Nat
    BY <2>1
  <2> QED BY <2>1, <2>2, FaultsGrow
<1>2. CASE SubmitWifi \/ SubmitApi
  <2>1. req' = req + 1 /\ UNCHANGED store
    BY <1>2, FormIsNew
  <2>2. flags' = flags /\ faults' = faults /\ server' # "flag"
    BY <1>2 DEF SubmitWifi, SubmitApi, Submitted, Server, disk
  <2> QED BY <1>1, <2>1, <2>2 DEF FirstForm
<1>3. CASE ~SubmitWifi /\ ~SubmitApi
  <2>1. req' = req
    BY <1>3, FormKept
  <2>2. CASE OpenCreds
    <3>1. server \in CredsSteps /\ server' # "flag" /\ flags' = flags
      BY <2>2 DEF OpenCreds, Server, CredsSteps
    <3> QED BY <2>1, <3>1 DEF FirstForm
  <2>3. CASE FillCreds
    <3>1. server \in CredsSteps /\ flags' = flags
      BY <2>3 DEF FillCreds, Server, CredsSteps
    <3>2. req \in Submissions
      BY <2>3 DEF FillCreds, Server, Handling
    <3>3. faults' > 0 \/ store'["creds"] # Empty
      <4>1. CASE Fails
        BY <1>1, <4>1 DEF Fails
      <4>2. CASE Put("creds", req)
        <5>1. store'["creds"] = req
          BY <4>2, PutChangesOne
        <5> QED BY <3>2, <5>1
      <4> QED BY <2>3, <4>1, <4>2 DEF FillCreds
    <3> QED BY <1>1, <2>1, <3>1, <3>3 DEF FirstForm
  <2>4. CASE SetFlag
    <3>1. server = "flag" /\ UNCHANGED <<store, faults>>
      BY <2>4 DEF SetFlag, Server
    <3>2. server' \notin CredsSteps /\ server' # "flag"
      BY <2>4 DEF SetFlag, Server, CredsSteps
    <3>3. req \in Submissions
      BY <3>1 DEF Handling
    <3> QED BY <1>1, <2>1, <3>1, <3>2, <3>3 DEF FirstForm
  <2>5. CASE ~CredsWritten
    <3>1. store'["creds"] = store["creds"] /\ flags' = flags
      BY <2>5, OthersKeepCreds
    <3>2. /\ server' \in CredsSteps => server' = server
          /\ server' = "flag" => server = "flag"
      BY <1>3, <2>5, OthersKeepCreds DEF CredsSteps
    <3> QED BY <1>1, <2>1, <3>1, <3>2 DEF FirstForm
  <2> QED BY <2>2, <2>3, <2>4, <2>5 DEF CredsWritten
<1> QED BY <1>2, <1>3

\* What the steps that write the key make of it, and of the stations.
LEMMA KeyWrites ==
  ASSUME TypeOK, KeyWritten
  PROVE  /\ store'["stations"] = store["stations"]
         /\ \/ store'["key"] \in {Empty, Missing, store["key"]}
            \/ WriteObject /\ store'["key"] = req
<1>1. CASE CreateObject
  BY <1>1, PutChangesOne DEF CreateObject
<1>2. CASE WriteObject
  BY <1>2, PutChangesOne DEF WriteObject
<1>3. CASE \E step \in {"session", "create", "write"} : StoreFails(step)
  BY <1>3, PutChangesOne DEF StoreFails
<1> QED BY <1>1, <1>2, <1>3 DEF KeyWritten

LEMMA StationsWrites ==
  ASSUME TypeOK, StationsWritten
  PROVE  /\ store'["key"] = store["key"]
         /\ \/ store'["stations"] \in {Empty, store["stations"]}
            \/ FillStations /\ store'["stations"] = req
<1>1. CASE OpenStations
  BY <1>1, PutChangesOne DEF OpenStations
<1>2. CASE FillStations
  BY <1>2, PutChangesOne DEF FillStations
<1> QED BY <1>1, <1>2 DEF StationsWritten

\* A form is written before there is a later one.
LEMMA StationsInOrderKept ==
  ASSUME TypeOK, StationsInOrder, Next
  PROVE  StationsInOrder'
<1>1. req \in {0} \cup Submissions
  BY DEF TypeOK, TypeServer
<1>2. CASE SubmitWifi \/ SubmitApi
  BY <1>1, <1>2, FormIsNew DEF StationsInOrder
<1>3. CASE ~SubmitWifi /\ ~SubmitApi
  <2>1. req' = req
    BY <1>3, FormKept
  <2>2. store'["stations"] \in {Empty, req, store["stations"]}
    BY KeyWrites, StationsWrites, OthersKeepKeyAndStations
  <2> QED BY <1>1, <2>1, <2>2 DEF StationsInOrder
<1> QED BY <1>2, <1>3

\* When the stations are to be written, the key of an earlier form has gone:
\* the object is created over it.
LEMMA KeyFirstKept ==
  ASSUME TypeOK, KeyFirst, Next
  PROVE  KeyFirst'
<1>1. req \in {0} \cup Submissions
  BY DEF TypeOK, TypeServer
<1>2. CASE SubmitWifi \/ SubmitApi
  BY <1>2 DEF SubmitWifi, SubmitApi, Submitted, Server, KeyFirst
<1>3. CASE ~SubmitWifi /\ ~SubmitApi
  <2>1. req' = req /\ (req' \notin keyless' => req \notin keyless)
    BY <1>3, FormKept
  <2>2. CASE KeyWritten
    <3>1. CASE WriteObject
      <4>1. store'["key"] = req
        BY <3>1, PutChangesOne DEF WriteObject
      <4>2. req \notin 1..(req - 1)
        BY <1>1
      <4>3. req' = req
        BY <2>1
      <4> QED BY <4>1, <4>2, <4>3 DEF KeyFirst
    <3>2. CASE CreateObject
      BY <3>2 DEF CreateObject, Server, KeyFirst
    <3>3. CASE \E step \in {"session", "create", "write"} : StoreFails(step)
      BY <2>1, <3>3 DEF StoreFails, KeyFirst
    <3> QED BY <2>2, <3>1, <3>2, <3>3 DEF KeyWritten
  <2>3. CASE StationsWritten
    <3>1. server = "stations" \/ server' = "notify"
      BY <2>3 DEF StationsWritten, OpenStations, FillStations, Server
    <3> QED BY <2>1, <2>3, <3>1, StationsWrites DEF KeyFirst
  <2>4. CASE ~KeyWritten /\ ~StationsWritten
    <3>1. store'["key"] = store["key"]
      BY <2>4, OthersKeepKeyAndStations
    <3>2. server' \in {"stations", "fill stations"} => server' = server
      BY <1>3, <2>4 DEF KeyWritten, StationsWritten, Next, ConfigServer,
         ServerFails, Reader, ReaderFails, WpaHelper, serverVars,
         DetermineBootMode, BootFails, PowerLoss, StartServer, Server,
         OpenCreds, FillCreds, SetFlag, OpenSession, Notify, Quiet,
         StartServerFails, ApplyFails, NotifyFails, StartReader, ReaderRest,
         Ask, LoadKey, LoadStations, Deliver, Reinit, AskFails, LoadKeyFails,
         StartHelper, Helper, HelperRest, OpenNetwork, FillNetwork,
         LoadCredentials, OpenWpa, FillWpa, HelperFails
    <3> QED BY <2>1, <3>1, <3>2 DEF KeyFirst
  <2> QED BY <2>2, <2>3, <2>4
<1> QED BY <1>2, <1>3

\* Only a later form takes the key of the stations away, and then it has gone.
LEMMA KeyKeptKept ==
  ASSUME TypeOK, StationsInOrder, KeyFirst, KeyKept, Next
  PROVE  KeyKept'
<1>1. req \in {0} \cup Submissions
  BY DEF TypeOK, TypeServer
<1>2. CASE SubmitWifi \/ SubmitApi
  BY <1>2, FormIsNew DEF KeyKept
<1>3. CASE ~SubmitWifi /\ ~SubmitApi
  <2>1. keyless \subseteq keyless'
    BY <1>3, FormKept
  <2>2. CASE KeyWritten
    BY <1>1, <2>1, <2>2, KeyWrites DEF KeyKept, StationsInOrder
  <2>3. CASE StationsWritten
    <3>1. store'["key"] = store["key"]
      BY <2>3, StationsWrites
    <3>2. CASE store'["stations"] \in {Empty, store["stations"]}
      BY <2>1, <3>1, <3>2 DEF KeyKept
    <3>3. CASE FillStations /\ store'["stations"] = req
      <4>1. req \in keyless' \/ store["key"] \notin 1..(req - 1)
        BY <2>1, <3>3 DEF FillStations, Server, KeyFirst
      <4> QED BY <3>1, <3>3, <4>1 DEF KeyKept
    <3> QED BY <2>3, <3>2, <3>3, StationsWrites
  <2>4. CASE ~KeyWritten /\ ~StationsWritten
    BY <2>1, <2>4, OthersKeepKeyAndStations DEF KeyKept
  <2> QED BY <2>2, <2>3, <2>4
<1> QED BY <1>2, <1>3

----------------------------------------------------------------------------
(* What is loaded *)

AtRest == server \in {"down", "idle", "exited"}

\* A step that leaves the main content and what it reads alone.
LEMMA UnreadStep ==
  ASSUME ReadIsStored, AtRest' => AtRest,
         UNCHANGED <<reader, got, loaded, notice, wake, stale, odd>>,
         UNCHANGED <<store["key"], store["stations"]>>
  PROVE  ReadIsStored'
<1>1. Settled' => Settled
  BY Zenon DEF Settled, AtRest
<1>2. KeyView(store["key"])' = KeyView(store["key"])
  BY DEF KeyView
<1>3. Readable(store["stations"])' = Readable(store["stations"])
  BY DEF Readable
<1>4. loaded' = loaded /\ got' = got /\ reader' = reader
  OBVIOUS
<1> QED BY <1>1, <1>2, <1>3, <1>4 DEF ReadIsStored

\* While the config server writes there is nothing to show; when it ends, the
\* main content has been told, or is down, or a call has failed.
LEMMA WritingIsNotSettled ==
  ASSUME \/ SubmitWifi \/ SubmitApi
         \/ OpenCreds \/ FillCreds \/ SetFlag
         \/ OpenSession \/ CreateObject \/ WriteObject \/ OpenStations \/ FillStations
         \/ ServerFails /\ ~StartServerFails
  PROVE  ~Settled'
<1>1. CASE ~AtRest'
  BY <1>1 DEF AtRest, Settled
<1>2. CASE AtRest'
  <2>1. CASE ApplyFails \/ NotifyFails
    BY <2>1, Zenon DEF ApplyFails, NotifyFails, Settled
  <2>2. CASE \E step \in {"session", "create", "write"} : StoreFails(step)
    BY <1>2, <2>2 DEF StoreFails, Server, AtRest
  <2>3. CASE SubmitWifi \/ SubmitApi
    BY <1>2, <2>3 DEF SubmitWifi, SubmitApi, Submitted, Server, AtRest
  <2> QED
    BY <1>2, <2>1, <2>2, <2>3 DEF ServerFails, OpenCreds, FillCreds, SetFlag,
       OpenSession, CreateObject, WriteObject, OpenStations, FillStations,
       Server, AtRest
<1> QED BY <1>1, <1>2

LEMMA ReadIsStoredKept ==
  ASSUME TypeOK, ReadIsStored, Next
  PROVE  ReadIsStored'
<1> USE DEF disk, bootVars, serverVars, readerVars, helperVars
<1>1. CASE DetermineBootMode \/ BootFails
  <2>1. UNCHANGED <<store, server, odd, reader, got, loaded, notice, wake, stale>>
    BY <1>1 DEF DetermineBootMode, BootFails
  <2> QED BY <2>1, UnreadStep DEF AtRest
<1>2. CASE PowerLoss
  BY <1>2 DEF PowerLoss, ReadIsStored
<1>3. CASE StartServer \/ StartServerFails
  <2>1. UNCHANGED <<store, odd, reader, got, loaded, notice, wake, stale>>
    BY <1>3 DEF StartServer, StartServerFails, Server
  <2>2. AtRest
    BY <1>3 DEF StartServer, StartServerFails, Server, AtRest
  <2> QED BY <2>1, <2>2, UnreadStep
<1>4. CASE Notify
  <2>1. CASE reader = "down"
    BY <1>4, <2>1 DEF Notify, Quiet, ReadIsStored
  <2>2. CASE reader # "down"
    BY <1>4, <2>2, Zenon DEF Notify, Settled, ReadIsStored
  <2> QED BY <2>1, <2>2
<1>5. CASE Reader
  <2>1. CASE StartReader \/ Ask \/ Reinit
    BY <2>1 DEF StartReader, Ask, Reinit, ReadIsStored
  <2>2. CASE Deliver
    BY <2>2, Zenon DEF Deliver, Settled, ReadIsStored
  <2>3. CASE LoadKey
    BY <2>3 DEF LoadKey, ReaderRest, KeyView, ReadIsStored
  <2>4. CASE LoadStations
    <3>1. UNCHANGED <<server, notice, wake, stale, store, odd, got>> /\ reader' = "ready"
      BY <2>4 DEF LoadStations, ReaderRest
    <3>2. Settled' => Settled
      BY <3>1, Zenon DEF Settled
    <3>3. Settled => got = KeyView(store["key"])
      BY <2>4 DEF LoadStations, ReadIsStored
    <3>4. KeyView(store["key"])' = KeyView(store["key"])
      BY <3>1 DEF KeyView
    <3>5. Readable(store["stations"])' =>
            loaded' = [key |-> got, stations |-> store["stations"]]
      BY <2>4, <3>1 DEF LoadStations, Readable
    <3> QED BY <3>1, <3>2, <3>3, <3>4, <3>5 DEF ReadIsStored
  <2> QED BY <1>5, <2>1, <2>2, <2>3, <2>4 DEF Reader
<1>6. CASE ReaderFails
  BY <1>6, Zenon DEF ReaderFails, AskFails, LoadKeyFails, Settled, ReadIsStored
<1>7. CASE WpaHelper \/ HelperFails
  <2>1. UNCHANGED <<server, odd, reader, got, loaded, notice, wake, stale>>
    BY <1>7 DEF WpaHelper, StartHelper, Helper, HelperRest, OpenNetwork,
       FillNetwork, LoadCredentials, OpenWpa, FillWpa, HelperFails
  <2>2. ~KeyWritten /\ ~StationsWritten
    BY <1>7 DEF KeyWritten, StationsWritten, WpaHelper, StartHelper, Helper,
       HelperRest, OpenNetwork, FillNetwork, LoadCredentials, OpenWpa, FillWpa,
       HelperFails, CreateObject, WriteObject, StoreFails, OpenStations,
       FillStations, Server
  <2> QED BY <2>1, <2>2, OthersKeepKeyAndStations, UnreadStep DEF AtRest
<1>8. CASE SubmitWifi \/ SubmitApi \/ ConfigServer \/ ServerFails
  BY <1>3, <1>4, <1>8, WritingIsNotSettled DEF ConfigServer, ReadIsStored
<1> QED BY <1>1, <1>2, <1>5, <1>6, <1>7, <1>8 DEF Next

----------------------------------------------------------------------------
LEMMA InitInv == Init => IInv
<1> SUFFICES ASSUME Init PROVE IInv
  OBVIOUS
<1>1. TypeOK
  BY InitType
<1>2. store["creds"] = Missing /\ store["key"] = Missing /\ store["stations"] = Missing
  BY DEF Init
<1>3. Handling /\ CredsFirst /\ FirstForm /\ BootByFlag /\ HelperInBoot
  BY <1>2 DEF Init, Handling, CredsFirst, FirstForm, BootByFlag, HelperInBoot
<1>4. StationsInOrder /\ KeyFirst /\ KeyKept
  BY <1>2 DEF Init, StationsInOrder, KeyFirst, KeyKept
<1>5. ReadIsStored
  BY DEF Init, ReadIsStored
<1> QED BY <1>1, <1>3, <1>4, <1>5 DEF IInv

LEMMA StepKeepsInv == IInv /\ [Next]_vars => IInv'
<1> SUFFICES ASSUME IInv, [Next]_vars PROVE IInv'
  OBVIOUS
<1>1. TypeOK'
  BY TypeKept DEF IInv
<1>2. CASE Next
  BY <1>1, <1>2, HandlingKept, CredsFirstKept, FirstFormKept, BootByFlagKept, HelperInBootKept,
     StationsInOrderKept, KeyFirstKept, KeyKeptKept, ReadIsStoredKept DEF IInv
<1>3. CASE UNCHANGED vars
  <2>1. (Handling /\ CredsFirst /\ FirstForm /\ BootByFlag /\ HelperInBoot)'
    BY <1>3 DEF vars, IInv, Handling, CredsFirst, FirstForm, BootByFlag, HelperInBoot
  <2>2. (StationsInOrder /\ KeyFirst /\ KeyKept)'
    BY <1>3 DEF vars, IInv, StationsInOrder, KeyFirst, KeyKept
  <2>3. ReadIsStored'
    BY <1>3, UnreadStep DEF vars, IInv, AtRest
  <2> QED BY <1>1, <2>1, <2>2, <2>3 DEF IInv
<1> QED BY <1>2, <1>3

\* For any number of forms, failing calls and power losses: the variables of
\* the three processes and what is in the files keep their types.
THEOREM TypeCorrect == Spec => []TypeOK
<1>1. IInv => TypeOK
  BY DEF IInv
<1> QED BY <1>1, InitInv, StepKeepsInv, PTL DEF Spec

\* At whatever step of the handlers of the config server the power goes: with
\* the flag there is a file of credentials, which is only empty or cut off when
\* a call failed or a later form came; the helper finds the file; and no
\* stations are left with the key of an earlier form.
THEOREM SetupAlwaysSurvives == Spec => []SetupSurvives
<1>1. IInv => SetupSurvives
  BY DEF IInv, CredsFirst, FirstForm, HelperInBoot, KeyKept, SetupSurvives
<1> QED BY <1>1, InitInv, StepKeepsInv, PTL DEF Spec

\* The main content, which reads the key and the stations in two steps while
\* the config server may write them, ends with what is stored.
THEOREM LoadedIsAlwaysStored == Spec => []LoadedIsStored
<1>1. IInv => LoadedIsStored
  BY Zenon DEF IInv, Settled, ReadIsStored, LoadedIsStored
<1> QED BY <1>1, InitInv, StepKeepsInv, PTL DEF Spec

=============================================================================
