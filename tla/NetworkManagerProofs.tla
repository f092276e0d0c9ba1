------------------------ MODULE NetworkManagerProofs ------------------------
(***************************************************************************)
(* Theorems about the network manager's configuration files, for every set *)
(* of credentials and every number of submissions, failures and power      *)
(* losses.                                                                 *)
(***************************************************************************)
EXTENDS NetworkManager, SequenceTheorems, TLAPS

Files == Modes \X Parts

Holds(f, seq) == \E n \in 1..Len(seq) : seq[n] = f

(* OneConfiguration is not inductive: that a file may be opened follows    *)
(* from what was removed before, and that from the list of the files still *)
(* to remove.                                                              *)
Covered == pc = "clear" => \A f \in Files : disk[f] # Missing => Holds(f, todo)
Cleared == pc = "read" => \A f \in Files : disk[f] = Missing
OnlyTarget ==
  pc \in {"open", "fill"} =>
    /\ \A f \in Files : disk[f] # Missing => f[1] = target
    /\ \A n \in 1..Len(todo) : todo[n][1] = target
Filling == pc = "fill" => todo # <<>>
HasCreds == pc \in {"open", "fill"} /\ target = "WIFI" => creds # <<>>

IInv ==
  /\ TypeOK
  /\ Covered
  /\ Cleared
  /\ OnlyTarget
  /\ Filling
  /\ HasCreds
  /\ OneConfiguration

----------------------------------------------------------------------------
(* The lists of files *)

\* A mode has two files, and FilesOf lists them.
LEMMA FilesOfMode ==
  ASSUME NEW m \in Modes
  PROVE  /\ FilesOf(m) \in Seq(Files)
         /\ Len(FilesOf(m)) = 2
         /\ FilesOf(m)[1] = <<m, "wpa">> /\ FilesOf(m)[2] = <<m, "net">>
  BY DEF FilesOf, Files, Parts

\* What is removed before anything is written is every file there is.
LEMMA AllFilesAreCleared ==
  ASSUME mode \in Modes \cup {"UNKNOWN"}
  PROVE  /\ FilesToClear \in Seq(Files)
         /\ \A f \in Files : Holds(f, FilesToClear)
<1> DEFINE both == FilesOf("AP") \o FilesOf("WIFI")
           rest == IF mode = "UNKNOWN" THEN <<>> ELSE FilesOf(mode)
<1>1. /\ FilesOf("AP") \in Seq(Files) /\ Len(FilesOf("AP")) = 2
      /\ FilesOf("AP")[1] = <<"AP", "wpa">> /\ FilesOf("AP")[2] = <<"AP", "net">>
  BY FilesOfMode DEF Modes
<1>2. /\ FilesOf("WIFI") \in Seq(Files) /\ Len(FilesOf("WIFI")) = 2
      /\ FilesOf("WIFI")[1] = <<"WIFI", "wpa">> /\ FilesOf("WIFI")[2] = <<"WIFI", "net">>
  BY FilesOfMode DEF Modes
<1>3. rest \in Seq(Files) /\ Len(rest) \in Nat
  <2>1. CASE mode = "UNKNOWN"
    BY <2>1
  <2>2. CASE mode \in Modes /\ mode # "UNKNOWN"
    BY <2>2, FilesOfMode
  <2> QED BY <2>1, <2>2
<1>4. /\ both \in Seq(Files)
      /\ Len(both) = 4
      /\ both[1] = <<"AP", "wpa">> /\ both[2] = <<"AP", "net">>
      /\ both[3] = <<"WIFI", "wpa">> /\ both[4] = <<"WIFI", "net">>
  <2>1. /\ both \in Seq(Files)
        /\ Len(both) = Len(FilesOf("AP")) + Len(FilesOf("WIFI"))
        /\ \A i \in 1..(Len(FilesOf("AP")) + Len(FilesOf("WIFI"))) : both[i] =
             IF i <= Len(FilesOf("AP")) THEN FilesOf("AP")[i]
               ELSE FilesOf("WIFI")[i - Len(FilesOf("AP"))]
    BY <1>1, <1>2, ConcatProperties, Zenon
  <2> HIDE DEF both
  <2> QED BY <1>1, <1>2, <2>1, SMTT(30)
<1>5. FilesToClear = both \o rest
  BY DEF FilesToClear
<1> HIDE DEF both, rest
<1>6. /\ both \o rest \in Seq(Files)
      /\ Len(both \o rest) = Len(both) + Len(rest)
      /\ \A i \in 1..(Len(both) + Len(rest)) : (both \o rest)[i] =
           IF i <= Len(both) THEN both[i] ELSE rest[i - Len(both)]
  BY <1>3, <1>4, ConcatProperties, Zenon
<1>7. /\ \A i \in 1..4 : i \in 1..Len(FilesToClear)
      /\ FilesToClear[1] = <<"AP", "wpa">> /\ FilesToClear[2] = <<"AP", "net">>
      /\ FilesToClear[3] = <<"WIFI", "wpa">> /\ FilesToClear[4] = <<"WIFI", "net">>
  BY <1>3, <1>4, <1>5, <1>6
<1>8. ASSUME NEW f \in Files PROVE Holds(f, FilesToClear)
  <2>1. f \in {<<"AP", "wpa">>, <<"AP", "net">>, <<"WIFI", "wpa">>, <<"WIFI", "net">>}
    BY DEF Files, Modes, Parts
  <2> QED BY <1>7, <2>1 DEF Holds
<1> QED BY <1>5, <1>6, <1>8

\* Of a list that holds a file, the tail holds it, or it was the head.
LEMMA TailHolds ==
  ASSUME NEW seq \in Seq(Files), seq # <<>>, NEW f, Holds(f, seq)
  PROVE  f = Head(seq) \/ Holds(f, Tail(seq))
<1>1. PICK n \in 1..Len(seq) : seq[n] = f
  BY DEF Holds
<1>2. CASE n = 1
  BY <1>1, <1>2
<1>3. CASE n # 1
  <2>1. /\ Len(Tail(seq)) = Len(seq) - 1
        /\ \A i \in 1..Len(Tail(seq)) : Tail(seq)[i] = seq[i + 1]
    BY HeadTailProperties
  <2>2. n - 1 \in 1..Len(Tail(seq)) /\ Tail(seq)[n - 1] = f
    BY <1>1, <1>3, <2>1, LenProperties
  <2> QED BY <2>2 DEF Holds
<1> QED BY <1>2, <1>3

----------------------------------------------------------------------------
(* The inductive invariant *)

\* The initial states satisfy the invariant.
LEMMA InitEstablishes == Init => IInv
<1> SUFFICES ASSUME Init PROVE IInv
  OBVIOUS
<1> USE DEF Init, Modes, Parts, Contents, Files, Steps, Missing
<1>1. TypeFiles /\ TypeManager
  BY DEF TypeFiles, TypeManager, FileContents
<1>2. TypeFlags
  BY DEF TypeFlags, Causes
<1>3. TypeBounds
  BY BoundsAssumption DEF TypeBounds
<1>4. Covered /\ Cleared /\ OnlyTarget /\ Filling /\ HasCreds
  BY DEF Covered, Cleared, OnlyTarget, Filling, HasCreds
<1>5. OneConfiguration
  BY DEF OneConfiguration
<1> QED BY <1>1, <1>2, <1>3, <1>4, <1>5 DEF IInv, TypeOK

\* The bounds are kept: each counter is raised under its bound only.
LEMMA BoundsStep == TypeBounds /\ [Next]_vars => TypeBounds'
<1> SUFFICES ASSUME TypeBounds, [Next]_vars PROVE TypeBounds'
  OBVIOUS
<1> USE BoundsAssumption DEF TypeBounds, server
<1>1. CASE Manager
  BY <1>1 DEF Manager, Load, Sleep, NetworkdActive, Clear, Read, Open, Fill, Reload, Kill, Start, Record
<1>2. CASE Faults
  <2>1. UNCHANGED <<submits, reboots>> /\ faults < MaxFaults /\ faults' = faults + 1
    BY <1>2 DEF Faults, NetworkdInactive, ClearFails, OpenFails, FillFails, FillUnnoticed, ReloadFails,
         KillFails, StartUnnoticed, StartFails, CallFails, Unnoticed
  <2> QED BY <2>1
<1>3. CASE Query \/ Answer \/ UNCHANGED vars
  BY <1>3 DEF Query, Answer, vars
<1>4. CASE RecordUnheard \/ AnswerFails
  <2>1. UNCHANGED <<submits, reboots>> /\ faults < MaxFaults /\ faults' = faults + 1
    BY <1>4 DEF RecordUnheard, AnswerFails
  <2> QED BY <2>1
<1>5. CASE Submit
  <2>1. UNCHANGED <<faults, reboots>> /\ submits < MaxSubmits /\ submits' = submits + 1
    BY <1>5 DEF Submit
  <2> QED BY <2>1
<1>6. CASE Submitted
  BY <1>6 DEF Submitted
<1>7. CASE SubmitFails
  <2>1. UNCHANGED <<submits, reboots>> /\ faults < MaxFaults /\ faults' = faults + 1
    BY <1>7 DEF SubmitFails
  <2> QED BY <2>1
<1>8. CASE Reboot
  <2>1. UNCHANGED <<submits, faults>> /\ reboots < MaxReboots /\ reboots' = reboots + 1
    BY <1>8 DEF Reboot
  <2> QED BY <2>1
<1> QED BY <1>1, <1>2, <1>3, <1>4, <1>5, <1>6, <1>7, <1>8 DEF Next

\* The flags are assigned truth values only.
LEMMA FlagsStep == TypeFlags /\ [Next]_vars => TypeFlags'
<1> SUFFICES ASSUME TypeFlags, [Next]_vars PROVE TypeFlags'
  OBVIOUS
<1> USE DEF TypeFlags, nm, client
<1>1. CASE Load
  <2>1. UNCHANGED <<up, blind, misled>>
    BY <1>1 DEF Load
  <2>2. flawed' = flawed \/ flawed' = FALSE
    BY <1>1, Zenon DEF Load
  <2> QED BY <2>1, <2>2, Zenon
<1>2. CASE Read
  <2>1. UNCHANGED <<up, blind, misled>>
    BY <1>2 DEF Read
  <2>2. flawed' = flawed \/ flawed' = TRUE
    BY <1>2, Zenon DEF Read, Fail
  <2> QED BY <2>1, <2>2, Zenon
<1>3. CASE Sleep \/ NetworkdActive \/ Open \/ Fill \/ Reload \/ Kill \/ Clear
  <2>1. UNCHANGED <<up, blind, misled, flawed>>
    BY <1>3 DEF Sleep, NetworkdActive, Open, Fill, Reload, Kill, Clear
  <2> QED BY <2>1
<1>4. CASE Start
  BY <1>4, Zenon DEF Start
<1>5. CASE Record
  BY <1>5 DEF Record, Crossing, Causes
<1>6. CASE RecordUnheard
  BY <1>6 DEF RecordUnheard, Crossing, Causes
<1>7. CASE AnswerFails
  BY <1>7 DEF AnswerFails, Causes
<1>8. CASE Faults
  <2>1. UNCHANGED <<blind, misled>> /\ flawed' = TRUE /\ (up' = up \/ up' = TRUE)
    BY <1>8, Zenon DEF Faults, NetworkdInactive, ClearFails, OpenFails, FillFails, FillUnnoticed, ReloadFails,
         KillFails, StartUnnoticed, StartFails, CallFails, Unnoticed, Fail
  <2> QED BY <2>1, Zenon
<1>9. CASE Query
  BY <1>9 DEF Query, Causes
<1>10. CASE Answer
  <2>1. UNCHANGED <<up, flawed>> /\ misled' = blind /\ blind' = "none"
    BY <1>10 DEF Answer
  <2>2. "none" \in Causes
    BY DEF Causes
  <2> QED BY <2>1, <2>2
<1>11. CASE Submit \/ Submitted \/ SubmitFails
  <2>1. UNCHANGED <<up, blind, misled, flawed>>
    BY <1>11 DEF Submit, Submitted, SubmitFails
  <2> QED BY <2>1
<1>12. CASE Reboot
  BY <1>12 DEF Reboot, Causes
<1>13. CASE UNCHANGED vars
  BY <1>13 DEF vars
<1> QED
  BY <1>1, <1>2, <1>3, <1>4, <1>5, <1>6, <1>7, <1>8, <1>9, <1>10, <1>11, <1>12, <1>13, Zenon
  DEF Next, Manager

\* The main thread's variables, the answers and what clients hear.
LEMMA ManagerStep == TypeManager /\ Filling /\ [Next]_vars => TypeManager'
<1> SUFFICES ASSUME TypeManager, Filling, [Next]_vars PROVE TypeManager'
  OBVIOUS
<1> USE DEF TypeManager, nm, client, Steps, Modes
<1>1. CASE Load
  BY <1>1 DEF Load
<1>2. CASE Sleep \/ Open \/ Reload \/ Kill \/ Start \/ Record \/ RecordUnheard
  BY <1>2 DEF Sleep, Open, Reload, Kill, Start, Record, RecordUnheard, Switched
<1>3. CASE NetworkdActive
  BY <1>3, AllFilesAreCleared DEF NetworkdActive, Files
<1>4. CASE Clear
  <2>1. UNCHANGED <<mode, target, creds, answer, heard>> /\ pc' \in Steps
    BY <1>4 DEF Clear
  <2>2. CASE todo = <<>>
    BY <1>4, <2>1, <2>2 DEF Clear
  <2>3. CASE todo # <<>>
    <3>1. Tail(todo) \in Seq(Modes \X Parts)
      BY <2>3, HeadTailProperties
    <3> QED BY <1>4, <2>1, <2>3, <3>1 DEF Clear
  <2> QED BY <2>2, <2>3
<1>5. CASE Read
  <2>1. todo' \in Seq(Modes \X Parts)
    BY <1>5, FilesOfMode DEF Read, Files
  <2>2. creds' \in {<<>>} \cup {<<c>> : c \in Creds}
    BY <1>5 DEF Read, Loads
  <2>3. UNCHANGED <<mode, target, answer, heard>> /\ pc' \in Steps
    BY <1>5 DEF Read, Fail
  <2> QED BY <2>1, <2>2, <2>3
<1>6. CASE Fill \/ FillUnnoticed
  <2>1. Tail(todo) \in Seq(Modes \X Parts)
    BY <1>6, HeadTailProperties DEF Fill, FillUnnoticed, Filling
  <2> QED BY <1>6, <2>1 DEF Fill, FillUnnoticed
<1>7. CASE Faults /\ ~FillUnnoticed
  <2>1. UNCHANGED <<mode, target, todo, creds, answer, heard>> /\ pc' \in Steps
    BY <1>7 DEF Faults, NetworkdInactive, ClearFails, OpenFails, FillFails, ReloadFails,
         KillFails, StartUnnoticed, StartFails, CallFails, Unnoticed, Fail, Switched
  <2> QED BY <2>1
<1>8. CASE Query \/ Answer \/ AnswerFails
  BY <1>8 DEF Query, Answer, AnswerFails
<1>9. CASE Submit \/ Submitted \/ SubmitFails
  BY <1>9 DEF Submit, Submitted, SubmitFails
<1>10. CASE Reboot
  BY <1>10 DEF Reboot
<1>11. CASE UNCHANGED vars
  BY <1>11 DEF vars
<1> QED
  BY <1>1, <1>2, <1>3, <1>4, <1>5, <1>6, <1>7, <1>8, <1>9, <1>10, <1>11
  DEF Next, Manager

\* What is being filled is a file of the target mode.
LEMMA HeadOfTarget ==
  ASSUME TypeManager, Filling, OnlyTarget, pc = "fill"
  PROVE  Head(todo)[1] = target
<1>1. Len(todo) \in Nat \ {0} /\ Head(todo) = todo[1]
  BY LenProperties, EmptySeq DEF TypeManager, Filling
<1> QED BY <1>1 DEF OnlyTarget

\* The files: those of the config server, of networkd and of wpa_supplicant.
LEMMA FilesStep ==
  TypeFiles /\ TypeManager /\ Filling /\ HasCreds /\ OnlyTarget /\ [Next]_vars => TypeFiles'
<1> SUFFICES ASSUME TypeFiles, TypeManager, Filling, HasCreds, OnlyTarget, [Next]_vars
             PROVE  TypeFiles'
  OBVIOUS
<1> USE DEF TypeFiles, server, system
<1>1. CASE Load \/ Sleep \/ NetworkdActive \/ Read \/ Record
         \/ RecordUnheard \/ Query \/ Answer \/ AnswerFails
  BY <1>1 DEF Load, Sleep, NetworkdActive, Read, Record, RecordUnheard, Query, Answer,
     AnswerFails
<1>2. CASE Clear
  BY <1>2 DEF Clear, Contents
<1>3. CASE Open
  BY <1>3 DEF Open, Contents
<1>4. CASE Fill
  <2>1. Head(todo) \in Modes \X Parts
    BY <1>4, HeadTailProperties DEF Fill, Filling, TypeManager
  <2>2. CASE Head(todo) = <<"WIFI", "wpa">>
    <3>1. target = "WIFI"
      BY <1>4, <2>2, HeadOfTarget DEF Fill
    <3>2. creds[1] \in Creds
      BY <1>4, <3>1 DEF Fill, HasCreds, TypeManager
    <3>3. disk' = [disk EXCEPT ![Head(todo)] = creds[1]]
      BY <1>4, <2>2 DEF Fill
    <3> QED BY <1>4, <2>1, <3>2, <3>3 DEF Fill, Contents
  <2>3. CASE Head(todo) # <<"WIFI", "wpa">>
    BY <1>4, <2>1, <2>3 DEF Fill, Contents
  <2> QED BY <2>2, <2>3
<1>5. CASE Reload \/ ReloadFails
  BY <1>5 DEF Reload, ReloadFails, CallFails, NetworkFiles
<1>6. CASE Kill
  BY <1>6 DEF Kill
<1>7. CASE Start
  BY <1>7 DEF Start, TypeManager, Parts
<1>8. CASE Faults /\ ~ReloadFails
  BY <1>8 DEF Faults, NetworkdInactive, ClearFails, OpenFails, FillFails, FillUnnoticed,
       KillFails, StartUnnoticed, StartFails, CallFails
<1>9. CASE Submit \/ Submitted \/ SubmitFails
  BY <1>9 DEF Submit, Submitted, SubmitFails, FileContents
<1>10. CASE Reboot
  BY <1>10 DEF Reboot, BootDisk, Contents
<1>11. CASE UNCHANGED vars
  BY <1>11 DEF vars
<1> QED
  BY <1>1, <1>2, <1>3, <1>4, <1>5, <1>6, <1>7, <1>8, <1>9, <1>10, <1>11
  DEF Next, Manager, Faults

\* A step that leaves files, lists and target alone keeps what is said of
\* them, if it does not lead to one of the steps that rely on it.
LEMMA ElsewhereStep ==
  ASSUME IInv, UNCHANGED <<disk, target, todo, creds>>,
         pc' = pc \/ pc' \notin {"clear", "read", "open", "fill"}
  PROVE  /\ Covered' /\ Cleared' /\ OnlyTarget' /\ Filling' /\ HasCreds'
         /\ OneConfiguration'
<1> USE DEF IInv
<1>1. Covered'
  BY DEF Covered, Holds
<1>2. Cleared'
  BY DEF Cleared
<1>3. OnlyTarget'
  BY DEF OnlyTarget
<1>4. Filling' /\ HasCreds'
  BY DEF Filling, HasCreds
<1>5. OneConfiguration'
  BY DEF OneConfiguration
<1> QED BY <1>1, <1>2, <1>3, <1>4, <1>5

\* Removing: what is left to remove covers what is left on the disk.
LEMMA ClearStep ==
  ASSUME IInv, Clear
  PROVE  /\ Covered' /\ Cleared' /\ OnlyTarget' /\ Filling' /\ HasCreds'
         /\ OneConfiguration'
<1> USE DEF IInv, TypeOK, TypeFiles, TypeManager
<1>1. CASE todo = <<>>
  <2>1. \A f \in Files : disk[f] = Missing
    BY <1>1 DEF Clear, Covered, Holds
  <2>2. pc' = "read" /\ disk' = disk
    BY <1>1 DEF Clear
  <2> QED BY <2>1, <2>2 DEF Covered, Cleared, OnlyTarget, Filling, HasCreds, OneConfiguration, Files
<1>2. CASE todo # <<>>
  <2>1. /\ pc = "clear" /\ pc' = "clear"
        /\ todo' = Tail(todo)
        /\ disk' = [disk EXCEPT ![Head(todo)] = Missing]
    BY <1>2 DEF Clear
  <2>2. \A f \in Files : disk'[f] # Missing => f # Head(todo) /\ disk[f] # Missing
    BY <2>1 DEF Files
  <2>3. Covered'
    <3>1. ASSUME NEW f \in Files, disk'[f] # Missing PROVE Holds(f, Tail(todo))
      BY <1>2, <2>1, <2>2, <3>1, TailHolds DEF Covered, Files
    <3> QED BY <2>1, <3>1 DEF Covered, Holds
  <2>4. OneConfiguration'
    BY <2>2 DEF OneConfiguration, Files
  <2> QED BY <2>1, <2>3, <2>4 DEF Cleared, OnlyTarget, Filling, HasCreds
<1> QED BY <1>1, <1>2

\* Writing begins on an empty disk, with a list of the target's files.
LEMMA ReadStep ==
  ASSUME IInv, Read
  PROVE  /\ Covered' /\ Cleared' /\ OnlyTarget' /\ Filling' /\ HasCreds'
         /\ OneConfiguration'
<1> USE DEF IInv, TypeOK, TypeManager
<1>1. CASE target = "WIFI" /\ ~Loads
  <2>1. UNCHANGED <<disk, target, todo, creds>> /\ pc' \in {"record", "exited"}
    BY <1>1 DEF Read, Fail, system
  <2> QED BY <2>1, ElsewhereStep
<1>2. CASE ~(target = "WIFI" /\ ~Loads)
  <2>1. /\ pc = "read" /\ pc' = "open"
        /\ UNCHANGED <<disk, target>>
        /\ todo' = FilesOf(target)
        /\ target = "WIFI" => creds' = <<file>>
    BY <1>2 DEF Read, system
  <2>2. \A f \in Files : disk'[f] = Missing
    BY <2>1 DEF Cleared
  <2>3. \A n \in 1..Len(todo') : todo'[n][1] = target'
    BY <2>1, FilesOfMode
  <2>4. HasCreds'
    BY <2>1 DEF HasCreds
  <2> QED BY <2>1, <2>2, <2>3, <2>4 DEF Covered, Cleared, OnlyTarget, Filling, OneConfiguration, Files
<1> QED BY <1>1, <1>2

\* Writing touches files of the target only.
LEMMA WriteStep ==
  ASSUME IInv, Open \/ Fill \/ FillUnnoticed
  PROVE  /\ Covered' /\ Cleared' /\ OnlyTarget' /\ Filling' /\ HasCreds'
         /\ OneConfiguration'
<1> USE DEF IInv, TypeOK, TypeFiles, TypeManager
<1>1. CASE Open /\ todo = <<>>
  <2>1. UNCHANGED <<disk, target, todo, creds>> /\ pc' = "reload"
    BY <1>1 DEF Open, nm
  <2> QED BY <2>1, ElsewhereStep
<1>2. CASE (Open /\ todo # <<>>) \/ Fill \/ FillUnnoticed
  <2>1. /\ todo # <<>>
        /\ pc \in {"open", "fill"} /\ pc' \in {"open", "fill"}
        /\ UNCHANGED <<target, creds>>
        /\ disk' = disk \/ \E x : disk' = [disk EXCEPT ![Head(todo)] = x]
    BY <1>2 DEF Open, Fill, FillUnnoticed, Filling, nm, system
  <2>2. /\ Len(todo) \in Nat \ {0} /\ Head(todo) = todo[1]
        /\ Len(Tail(todo)) = Len(todo) - 1
        /\ \A n \in 1..Len(Tail(todo)) : Tail(todo)[n] = todo[n + 1]
    BY <2>1, LenProperties, EmptySeq, HeadTailProperties
  <2>3. Head(todo)[1] = target
    BY <2>1, <2>2 DEF OnlyTarget
  <2>4. \A f \in Files : disk'[f] # Missing => f[1] = target'
    BY <2>1, <2>3 DEF OnlyTarget, Files
  <2>5. \A n \in 1..Len(todo') : todo'[n][1] = target'
    <3>1. todo' = todo \/ todo' = Tail(todo)
      BY <1>2 DEF Open, Fill, FillUnnoticed, nm
    <3>2. \A n \in 1..Len(Tail(todo)) : Tail(todo)[n][1] = target
      <4>1. ASSUME NEW n \in 1..Len(Tail(todo)) PROVE Tail(todo)[n][1] = target
        <5>1. n + 1 \in 1..Len(todo) /\ Tail(todo)[n] = todo[n + 1]
          BY <2>2
        <5> QED BY <2>1, <5>1 DEF OnlyTarget
      <4> QED BY <4>1
    <3> QED BY <2>1, <3>1, <3>2 DEF OnlyTarget
  <2>6. Filling'
    BY <1>2, <2>1 DEF Open, Fill, FillUnnoticed, nm, Filling
  <2>7. HasCreds'
    BY <2>1 DEF HasCreds
  <2>8. OneConfiguration'
    BY <2>4 DEF OneConfiguration, Files
  <2> QED BY <2>1, <2>4, <2>5, <2>6, <2>7, <2>8 DEF Covered, Cleared, OnlyTarget
<1> QED BY <1>1, <1>2

\* Every step keeps the invariant.
LEMMA NextPreserves == IInv /\ [Next]_vars => IInv'
<1> SUFFICES ASSUME IInv, [Next]_vars PROVE IInv'
  OBVIOUS
<1>1. TypeOK'
  BY BoundsStep, FlagsStep, ManagerStep, FilesStep DEF IInv, TypeOK
<1>2. CASE Load \/ NetworkdActive
  <2>1. CASE Load
    <3>1. disk' = disk /\ pc' \in {"sleep", "networkd"}
      BY <2>1 DEF Load, system
    <3> QED BY <1>1, <3>1 DEF IInv, Covered, Cleared, OnlyTarget, Filling, HasCreds, OneConfiguration
  <2>2. CASE NetworkdActive
    <3>1. /\ disk' = disk /\ pc' = "clear" /\ todo' = FilesToClear
          /\ mode \in Modes \cup {"UNKNOWN"}
      BY <2>2 DEF NetworkdActive, system, IInv, TypeOK, TypeManager
    <3>2. Covered'
      BY <3>1, AllFilesAreCleared DEF Covered, Holds
    <3> QED BY <1>1, <3>1, <3>2 DEF IInv, Cleared, OnlyTarget, Filling, HasCreds, OneConfiguration
  <2> QED BY <1>2, <2>1, <2>2
<1>3. CASE Clear
  BY <1>1, <1>3, ClearStep DEF IInv
<1>4. CASE Read
  BY <1>1, <1>4, ReadStep DEF IInv
<1>5. CASE Open \/ Fill \/ FillUnnoticed
  BY <1>1, <1>5, WriteStep DEF IInv
<1>6. CASE Sleep \/ Reload \/ Kill \/ Start \/ Record \/ RecordUnheard
  <2>1. /\ UNCHANGED <<disk, target, todo, creds>>
        /\ pc' \notin {"clear", "read", "open", "fill"}
    BY <1>6 DEF Sleep, Reload, Kill, Start, Record, RecordUnheard, Switched, nm, system
  <2> QED BY <1>1, <2>1, ElsewhereStep DEF IInv
<1>7. CASE Faults /\ ~FillUnnoticed
  <2>1. /\ UNCHANGED <<disk, target, todo, creds>>
        /\ pc' \notin {"clear", "read", "open", "fill"}
    BY <1>7 DEF Faults, NetworkdInactive, ClearFails, OpenFails, FillFails, ReloadFails,
         KillFails, StartUnnoticed, StartFails, CallFails, Unnoticed, Fail, Switched, nm, system
  <2> QED BY <1>1, <2>1, ElsewhereStep DEF IInv
<1>8. CASE Query \/ Answer \/ AnswerFails \/ Submit \/ Submitted \/ SubmitFails \/ UNCHANGED vars
  <2>1. UNCHANGED <<disk, target, todo, creds, pc>>
    BY <1>8 DEF Query, Answer, AnswerFails, Submit, Submitted, SubmitFails, vars, nm, system
  <2> QED BY <1>1, <2>1, ElsewhereStep DEF IInv
<1>9. CASE Reboot
  <2>1. pc' = "load" /\ \A f \in Files : disk'[f] # Missing => disk[f] # Missing
    BY <1>9 DEF Reboot, BootDisk, Files
  <2>2. OneConfiguration'
    BY <2>1 DEF IInv, OneConfiguration, Files
  <2> QED BY <1>1, <2>1, <2>2 DEF IInv, Covered, Cleared, OnlyTarget, Filling, HasCreds
<1> QED
  BY <1>2, <1>3, <1>4, <1>5, <1>6, <1>7, <1>8, <1>9 DEF Next, Manager

----------------------------------------------------------------------------
(* A switch that succeeds *)

Whole(f) ==
  IF f[2] = "net" THEN disk[f] = Fixed ELSE disk[f] \notin {Missing, Partial}

(* ModeIsApplied is about the end of a switch.  On the way there, while no *)
(* call has failed, a file of the target is whole or still to be written,  *)
Written ==
  ~flawed =>
    /\ pc \in {"open", "fill"} =>
         \A p \in Parts : Holds(<<target, p>>, todo) \/ Whole(<<target, p>>)
    /\ pc \in {"reload", "kill", "start", "record"} =>
         \A p \in Parts : Whole(<<target, p>>)

Applied ==
  /\ \A p \in Parts : Whole(<<mode, p>>)
  /\ loaded = {mode}
  /\ supps = {disk[<<mode, "wpa">>]}

(* and networkd and wpa_supplicant are as far as the switch has come.      *)
Switching ==
  ~flawed =>
    /\ pc \in {"kill", "start", "record"} => mode = target /\ loaded = {target}
    /\ pc = "start" => supps = {}
    /\ pc = "record" => supps = {disk[<<target, "wpa">>]}
    /\ pc \in {"load", "sleep"} /\ mode # "UNKNOWN" => Applied

(* The first switch, which nothing records, starts from no mode at all.    *)
FirstSwitch ==
  /\ ~up => mode = "UNKNOWN" \/ pc \in {"kill", "start", "exited"}
  /\ pc = "record" => up
  /\ pc = "sleep" => mode # "UNKNOWN"

(* Between Reload, which changes the mode, and Record, which broadcasts    *)
(* it, a client may have the mode before.                                  *)
Unrecorded == up /\ pc \in {"kill", "start", "record"}

Told ==
  ~Unrecorded =>
    /\ heard # "UNKNOWN" /\ misled = "none" => heard = mode
    /\ answer # <<>> /\ blind = "none" => answer[1] = mode

\* A file stays to be written until it is filled.
LEMMA WrittenWhileWriting ==
  ASSUME IInv, Written, ~flawed, ~flawed', Open \/ Fill
  PROVE  Written'
<1> USE DEF IInv, TypeOK, TypeFiles, TypeManager
<1>1. pc \in {"open", "fill"} /\ UNCHANGED target /\ target \in Modes
  BY DEF Open, Fill, nm
<1>2. \A p \in Parts : Holds(<<target, p>>, todo) \/ Whole(<<target, p>>)
  BY <1>1 DEF Written
<1>3. CASE todo = <<>>
  <2>1. pc' = "reload" /\ UNCHANGED disk
    BY <1>3 DEF Open, Fill, Filling
  <2>2. \A p \in Parts : Whole(<<target, p>>)
    BY <1>2, <1>3 DEF Holds
  <2> QED BY <1>1, <2>1, <2>2 DEF Written, Whole
<1>4. CASE todo # <<>>
  <2>1. pc' \in {"open", "fill"} /\ Head(todo) \in Files /\ Head(todo) = todo[1]
        /\ Len(todo) \in Nat \ {0}
    BY <1>4, LenProperties, EmptySeq, HeadTailProperties DEF Open, Fill, Files
  <2>2. \A p \in Parts : <<target, p>> \in Files
    BY <1>1 DEF Files
  <2> SUFFICES ASSUME NEW p \in Parts
               PROVE  Holds(<<target, p>>, todo') \/ Whole(<<target, p>>)'
    BY <1>1, <2>1 DEF Written, Whole
  <2>3. CASE Open
    <3>1. disk' = [disk EXCEPT ![Head(todo)] = Partial] /\ todo' = todo
      BY <1>4, <2>3 DEF Open, nm
    <3>2. ~Holds(<<target, p>>, todo) => <<target, p>> # Head(todo)
      BY <2>1 DEF Holds
    <3>3. <<target, p>> # Head(todo) =>
            disk'[<<target, p>>] = disk[<<target, p>>]
      BY <2>2, <3>1 DEF Files
    <3> QED BY <1>1, <1>2, <3>1, <3>2, <3>3 DEF Whole
  <2>4. CASE Fill
    <3>1. /\ todo' = Tail(todo) /\ pc = "fill"
          /\ disk' = [disk EXCEPT ![Head(todo)] =
               IF Head(todo) = <<"WIFI", "wpa">> THEN creds[1] ELSE Fixed]
      BY <2>4 DEF Fill
    <3>2. CASE <<target, p>> = Head(todo)
      <4>1. disk'[<<target, p>>] =
              IF <<target, p>> = <<"WIFI", "wpa">> THEN creds[1] ELSE Fixed
        BY <2>1, <3>1, <3>2 DEF Files
      <4>2. <<target, p>> = <<"WIFI", "wpa">> => creds[1] \in Creds
        BY <3>1 DEF HasCreds
      <4> QED BY <1>1, <4>1, <4>2, CredsAssumption
            DEF Whole, Missing, Partial, Fixed, Parts
    <3>3. CASE <<target, p>> # Head(todo)
      <4>1. disk'[<<target, p>>] = disk[<<target, p>>]
        BY <2>2, <3>1, <3>3 DEF Files
      <4>2. Holds(<<target, p>>, todo) => Holds(<<target, p>>, Tail(todo))
        BY <1>4, <3>3, TailHolds DEF Files
      <4> QED BY <1>1, <1>2, <3>1, <4>1, <4>2 DEF Whole
    <3> QED BY <3>2, <3>3
  <2> QED BY <2>3, <2>4
<1> QED BY <1>3, <1>4

\* The steps that leave the device alone.
LEMMA DeviceAlone ==
  ASSUME Written, Switching, UNCHANGED <<disk, loaded, supps, mode, target, todo, flawed>>,
         \/ pc' = pc
         \/ pc' \in {"networkd", "clear", "read", "exited"}
         \/ pc \in {"load", "sleep"} /\ pc' \in {"load", "sleep"}
  PROVE  Written' /\ Switching'
<1>1. Written'
  BY DEF Written, Whole
<1>2. Applied' <=> Applied
  BY DEF Applied, Whole
<1>3. Switching'
  BY <1>2 DEF Switching
<1> QED BY <1>1, <1>3

\* A call that fails ends what is said of a switch.
LEMMA FailureSaysNothing ==
  ASSUME Faults
  PROVE  flawed' = TRUE
  BY Zenon DEF Faults, NetworkdInactive, ClearFails, OpenFails, FillFails,
     FillUnnoticed, ReloadFails, KillFails, StartUnnoticed, StartFails, CallFails,
     Unnoticed, Fail

\* Every step keeps what is said of a switch.
LEMMA SwitchStep ==
  ASSUME IInv, Written, Switching, [Next]_vars
  PROVE  Written' /\ Switching'
<1> USE DEF nm, system
<1>1. CASE flawed' = TRUE
  BY <1>1 DEF Written, Switching
<1>2. CASE Load
  <2>1. CASE target' = mode
    <3>1. /\ pc = "load" /\ pc' = "sleep"
          /\ UNCHANGED <<disk, loaded, supps, mode, flawed>>
      BY <1>2, <2>1 DEF Load
    <3>2. Applied' <=> Applied
      BY <3>1 DEF Applied, Whole
    <3> QED BY <3>1, <3>2 DEF Written, Switching
  <2>2. CASE target' # mode
    BY <1>2, <2>2 DEF Load, Written, Switching
  <2> QED BY <2>1, <2>2
<1>3. CASE Clear
  BY <1>3 DEF Clear, Written, Switching
<1>4. CASE NetworkdActive
  BY <1>4 DEF NetworkdActive, Written, Switching
<1>5. CASE Read
  <2>1. CASE target = "WIFI" /\ ~Loads
    BY <1>1, <1>5, <2>1, Zenon DEF Read, Fail
  <2>2. CASE ~(target = "WIFI" /\ ~Loads)
    <3>1. pc' = "open" /\ todo' = FilesOf(target) /\ UNCHANGED target
      BY <1>5, <2>2 DEF Read
    <3>2. target \in Modes
      BY DEF IInv, TypeOK, TypeManager
    <3>3. \A p \in Parts : Holds(<<target, p>>, todo')
      BY <3>1, <3>2, FilesOfMode DEF Holds, Parts
    <3> QED BY <3>1, <3>3 DEF Written, Switching
  <2> QED BY <2>1, <2>2
<1>6. CASE Open \/ Fill
  <2>1. pc' \in {"open", "fill", "reload"} /\ UNCHANGED flawed
    BY <1>6 DEF Open, Fill
  <2>2. Switching'
    BY <2>1 DEF Switching
  <2>3. Written'
    BY <1>6, <2>1, WrittenWhileWriting DEF Written
  <2> QED BY <2>2, <2>3
<1>7. CASE Reload
  <2>1. /\ pc = "reload" /\ pc' = "kill" /\ UNCHANGED <<disk, target, flawed>>
        /\ loaded' = NetworkFiles /\ mode' = target /\ target \in Modes
    BY <1>7 DEF Reload, IInv, TypeOK, TypeManager
  <2>2. CASE flawed
    BY <2>1, <2>2 DEF Written, Switching
  <2>3. CASE ~flawed
    <3>1. disk[<<target, "net">>] = Fixed
      BY <2>1, <2>3 DEF Written, Whole, Parts
    <3>2. \A m \in Modes : disk[<<m, "net">>] = Fixed => m = target
      <4> TAKE m \in Modes
      <4>1. <<m, "net">> \in Modes \X Parts /\ <<target, "net">> \in Modes \X Parts
        BY <2>1 DEF Parts
      <4> QED BY <3>1, <4>1 DEF IInv, OneConfiguration, Fixed, Missing
    <3>3. NetworkFiles = {target}
      BY <2>1, <3>1, <3>2 DEF NetworkFiles
    <3> QED BY <2>1, <3>3 DEF Written, Switching, Whole
  <2> QED BY <2>2, <2>3
<1>8. CASE Kill
  <2>1. /\ pc = "kill" /\ pc' = "start" /\ supps' = {}
        /\ UNCHANGED <<disk, target, loaded, mode, flawed>>
    BY <1>8 DEF Kill
  <2> QED BY <2>1 DEF Written, Switching, Whole
<1>9. CASE Start
  <2>1. /\ pc = "start" /\ pc' \in {"record", "load"}
        /\ supps' = supps \cup {disk[<<target, "wpa">>]}
        /\ UNCHANGED <<disk, target, loaded, mode, flawed>>
    BY <1>9 DEF Start, Switched
  <2> QED BY <2>1 DEF Written, Switching, Applied, Whole
<1>10. CASE Record \/ RecordUnheard
  <2>1. /\ pc = "record" /\ pc' = "sleep" /\ mode' = target
        /\ UNCHANGED <<disk, target, loaded, supps, flawed>>
    BY <1>10 DEF Record, RecordUnheard
  <2> QED BY <2>1 DEF Written, Switching, Applied, Whole
<1>11. CASE Sleep \/ Query \/ Answer \/ AnswerFails \/ Submit \/ Submitted \/ SubmitFails \/ UNCHANGED vars
  <2>1. /\ UNCHANGED <<disk, loaded, supps, mode, target, todo, flawed>>
        /\ pc' = pc \/ (pc = "sleep" /\ pc' = "load")
    BY <1>11 DEF Sleep, Query, Answer, AnswerFails, Submit, Submitted, SubmitFails, vars
  <2> QED BY <2>1, DeviceAlone
<1>12. CASE Reboot
  BY <1>12 DEF Reboot, Written, Switching
<1> QED
  BY <1>1, <1>2, <1>3, <1>4, <1>5, <1>6, <1>7, <1>8, <1>9, <1>10, <1>11, <1>12,
     FailureSaysNothing DEF Next, Manager

----------------------------------------------------------------------------
(* What clients are told *)

\* A step that leaves the mode and what was told of it alone.
LEMMA ToldElsewhere ==
  ASSUME Told, UNCHANGED <<mode, answer, blind, heard, misled>>, Unrecorded => Unrecorded'
  PROVE  Told'
  BY DEF Told

\* Every step keeps what is said of the answers.
LEMMA ToldStep ==
  ASSUME IInv, FirstSwitch, Told, [Next]_vars
  PROVE  FirstSwitch' /\ Told'
<1> USE DEF nm, client
<1>1. CASE Load
  <2>1. /\ pc = "load" /\ pc' \in {"sleep", "networkd"} /\ UNCHANGED up
        /\ UNCHANGED <<mode, answer, blind, heard, misled>>
        /\ pc' = "sleep" => mode \in Modes
    BY <1>1 DEF Load, Modes
  <2>2. FirstSwitch'
    BY <2>1 DEF FirstSwitch, Modes
  <2> QED BY <2>1, <2>2, ToldElsewhere DEF Unrecorded
<1>2. CASE Sleep \/ NetworkdActive \/ Clear \/ Open \/ Fill
  <2>1. /\ pc \in {"sleep", "networkd", "clear", "open", "fill"}
        /\ pc' \notin {"record", "sleep", "kill", "start"} /\ UNCHANGED up
        /\ UNCHANGED <<mode, answer, blind, heard, misled>>
    BY <1>2 DEF Sleep, NetworkdActive, Clear, Open, Fill
  <2> QED BY <2>1, ToldElsewhere DEF FirstSwitch, Unrecorded
<1>3. CASE Read
  <2>1. /\ pc = "read" /\ UNCHANGED <<up, mode, answer, blind, heard, misled>>
        /\ pc' \in {"open", "exited"} \/ (pc' = "record" /\ up)
    BY <1>3, Zenon DEF Read, Fail
  <2> QED BY <2>1, ToldElsewhere DEF FirstSwitch, Unrecorded
<1>4. CASE Reload
  <2>1. /\ pc = "reload" /\ pc' = "kill" /\ mode' = target
        /\ UNCHANGED <<up, answer, blind, heard, misled>>
    BY <1>4 DEF Reload
  <2>2. CASE up
    BY <2>1, <2>2 DEF FirstSwitch, Told, Unrecorded
  <2>3. CASE ~up
    <3>1. mode = "UNKNOWN"
      BY <2>1, <2>3 DEF FirstSwitch
    <3>2. answer # <<>> => answer[1] # "UNKNOWN"
      BY DEF IInv, TypeOK, TypeManager, Modes
    <3> QED BY <2>1, <2>3, <3>1, <3>2 DEF FirstSwitch, Told, Unrecorded
  <2> QED BY <2>2, <2>3
<1>5. CASE Kill \/ KillFails
  <2>1. /\ pc = "kill" /\ pc' = "start"
        /\ UNCHANGED <<up, mode, answer, blind, heard, misled>>
    BY <1>5 DEF Kill, KillFails
  <2> QED BY <2>1, ToldElsewhere DEF FirstSwitch, Unrecorded
<1>6. CASE Start \/ StartUnnoticed
  <2>1. /\ pc = "start" /\ up' = TRUE
        /\ UNCHANGED <<mode, answer, blind, heard, misled>>
        /\ pc' = IF up THEN "record" ELSE "load"
    BY <1>6 DEF Start, StartUnnoticed, Switched
  <2>2. FirstSwitch'
    BY <2>1 DEF FirstSwitch
  <2>3. Unrecorded => Unrecorded'
    BY <2>1 DEF Unrecorded
  <2> QED BY <2>1, <2>2, <2>3, ToldElsewhere
<1>7. CASE Record
  <2>1. /\ pc = "record" /\ pc' = "sleep" /\ mode' = target /\ heard' = target
        /\ answer' = answer /\ (answer # <<>> => blind' = "crossed") /\ UNCHANGED up
        /\ target \in Modes
    BY <1>7 DEF Record, Crossing, IInv, TypeOK, TypeManager
  <2> QED BY <2>1 DEF FirstSwitch, Told, Modes
<1>8. CASE RecordUnheard
  <2>1. /\ pc = "record" /\ pc' = "sleep" /\ mode' = target /\ misled' = "refused"
        /\ answer' = answer /\ (answer # <<>> => blind' = "crossed") /\ UNCHANGED up
        /\ target \in Modes
    BY <1>8 DEF RecordUnheard, Crossing, IInv, TypeOK, TypeManager
  <2> QED BY <2>1 DEF FirstSwitch, Told, Modes
<1>9. CASE AnswerFails
  <2>1. UNCHANGED <<pc, up, mode, heard, misled>> /\ answer' = <<>>
    BY <1>9 DEF AnswerFails
  <2> QED BY <2>1 DEF FirstSwitch, Told, Unrecorded
<1>10. CASE NetworkdInactive \/ ClearFails \/ OpenFails \/ FillFails \/ ReloadFails \/ StartFails
  <2>1. /\ pc \in {"networkd", "clear", "open", "fill", "reload", "start"}
        /\ UNCHANGED <<up, mode, answer, blind, heard, misled>>
        /\ pc' = IF up THEN "record" ELSE "exited"
    BY <1>10 DEF NetworkdInactive, ClearFails, OpenFails, FillFails, ReloadFails,
       StartFails, CallFails, Fail
  <2>2. FirstSwitch'
    BY <2>1 DEF FirstSwitch
  <2>3. Unrecorded => Unrecorded'
    BY <2>1 DEF Unrecorded
  <2> QED BY <2>1, <2>2, <2>3, ToldElsewhere
<1>11. CASE FillUnnoticed
  <2>1. /\ pc = "fill" /\ pc' = "open"
        /\ UNCHANGED <<up, mode, answer, blind, heard, misled>>
    BY <1>11 DEF FillUnnoticed
  <2> QED BY <2>1, ToldElsewhere DEF FirstSwitch, Unrecorded
<1>12. CASE Query
  <2>1. /\ UNCHANGED <<pc, up, mode, heard, misled>>
        /\ answer' = <<IF mode = "AP" THEN "AP" ELSE "WIFI">>
        /\ (blind' = "none" => mode # "UNKNOWN") /\ mode \in {"AP", "WIFI", "UNKNOWN"}
    BY <1>12 DEF Query, IInv, TypeOK, TypeManager, Modes
  <2> QED BY <2>1 DEF FirstSwitch, Told, Unrecorded
<1>13. CASE Answer
  <2>1. /\ UNCHANGED <<pc, up, mode>> /\ answer' = <<>> /\ answer # <<>>
        /\ heard' = answer[1] /\ misled' = blind
    BY <1>13 DEF Answer
  <2> QED BY <2>1 DEF FirstSwitch, Told, Unrecorded
<1>14. CASE Submit \/ Submitted \/ SubmitFails \/ UNCHANGED vars
  <2>1. UNCHANGED <<pc, up, mode, answer, blind, heard, misled>>
    BY <1>14 DEF Submit, Submitted, SubmitFails, vars
  <2> QED BY <2>1, ToldElsewhere DEF FirstSwitch, Unrecorded
<1>15. CASE Reboot
  BY <1>15 DEF Reboot, FirstSwitch, Told
<1> QED
  BY <1>1, <1>2, <1>3, <1>4, <1>5, <1>6, <1>7, <1>8, <1>9, <1>10, <1>11, <1>12,
     <1>13, <1>14, <1>15 DEF Next, Manager, Faults

----------------------------------------------------------------------------
(* Theorems *)

(* Every reachable state of the network manager is well typed: the main    *)
(* thread never writes a file without credentials, and never reaches past  *)
(* the list of files it works on.                                          *)
THEOREM TypeCorrect == Spec => []TypeOK
<1>1. IInv => TypeOK
  BY DEF IInv
<1> QED BY InitEstablishes, NextPreserves, <1>1, PTL DEF Spec

(* Whatever fails in a switch and whenever the power goes, the disk never  *)
(* holds configuration files of both modes: switch_network_mode removes    *)
(* every file before it writes the first one, and a switch cut short       *)
(* leaves files of one mode behind.                                        *)
THEOREM NeverTwoConfigurations == Spec => []OneConfiguration
<1>1. IInv => OneConfiguration
  BY DEF IInv
<1> QED BY InitEstablishes, NextPreserves, <1>1, PTL DEF Spec

(* When the main loop rests after a switch in which no call failed, the    *)
(* mode it reports is the one the device is in: the files, networkd and    *)
(* the one wpa_supplicant, whatever was submitted in between.              *)
THEOREM ModeIsAppliedIsInvariant == Spec => []ModeIsApplied
<1>1. Init => Written /\ Switching
  BY DEF Init, Written, Switching
<1>2. (IInv /\ Written /\ Switching) /\ [Next]_vars => (IInv /\ Written /\ Switching)'
  BY NextPreserves, SwitchStep
<1>3. Init => FirstSwitch /\ Told
  BY DEF Init, FirstSwitch, Told
<1>4. (IInv /\ FirstSwitch /\ Told) /\ [Next]_vars => (FirstSwitch /\ Told)'
  BY ToldStep
<1>5. Switching /\ FirstSwitch => ModeIsApplied
  BY DEF Switching, FirstSwitch, Applied, Whole, Parts, ModeIsApplied
<1> QED
  BY InitEstablishes, <1>1, <1>2, <1>3, <1>4, <1>5, PTL DEF Spec

(* When the main loop rests, a client that is wrong about the mode owes it *)
(* to an answer formed before the first switch, to one that crossed a      *)
(* broadcast, or to a broadcast that was refused; a switch that failed, a  *)
(* lost answer and a power loss are no such cause.                         *)
THEOREM ClientsKnowIsInvariant == Spec => []ClientsKnow
<1>1. Init => FirstSwitch /\ Told
  BY DEF Init, FirstSwitch, Told
<1>2. (IInv /\ FirstSwitch /\ Told) /\ [Next]_vars => (IInv /\ FirstSwitch /\ Told)'
  BY NextPreserves, ToldStep
<1>3. Told => ClientsKnow
  BY DEF Told, Unrecorded, ClientsKnow
<1> QED
  BY InitEstablishes, <1>1, <1>2, <1>3, PTL DEF Spec
=============================================================================
