--------------------------- MODULE CommandsProofs ---------------------------
(***************************************************************************)
(* Theorems about Commands, for any paths, number of pages and keys.  What *)
(* is said of keys needs that no -o path is reused, what is said of pages  *)
(* also that enroll-voice is not repeated; kills, failed writes and failed *)
(* uploads are always allowed.                                             *)
(***************************************************************************)
EXTENDS Commands, TLAPS

\* The commands as stages: what each leaves alone is what the lemmas split on.
Starting == Enroll \/ \E o \in Path : Sync(o) \/ Capture(o)
Keying == LoadKey \/ SaveKey \/ SaveKeyFails \/ PushKey \/ Fail
Finishing == Return \/ Upload \/ Decode \/ Kill
Offline == (\E o, k \in Path : DecodeFile(o, k)) \/ \E o \in Path : PushFile(o)

LEMMA Stages ==
  ASSUME [Next]_vars
  PROVE  \/ Record \/ Reboot \/ Erase \/ Starting \/ Keying
         \/ \E p \in Page : TakePage(p)
         \/ WriteBin \/ WriteBinFails \/ Finishing \/ Offline
         \/ UNCHANGED vars
BY DEF Next, Starting, Keying, Finishing, Offline

-----------------------------------------------------------------------------
(* Types, in two groups: the pendant with the files, and the process.      *)

DeviceTypes ==
  /\ recorded \in 0..MaxPage /\ flash \subseteq 1..recorded
  /\ made \in 0..MaxKey
  /\ sealed \in [Page -> 0..made] /\ deviceKey \in 0..made
FileTypes ==
  /\ keyFile \in [Path -> 0..made]
  /\ written \subseteq Path /\ bin \in [Path -> SUBSET (1..recorded)]
  /\ heard \subseteq 1..recorded /\ server \subseteq 1..recorded /\ gone \subseteq 1..recorded
ProcessTypes ==
  /\ pc \in {"idle", "connect", "push", "download", "saved", "decode"}
  /\ cmd \in Command \cup {NoCommand} /\ (pc # "idle" => cmd \in Command)
  /\ keyset \in 0..made /\ (pc = "push" => keyset # NoKey)
  /\ raw \subseteq 1..recorded
  /\ rc \in {0, 1}

LEMMA TypeGroups == TypeOK <=> DeviceTypes /\ FileTypes /\ ProcessTypes
BY DEF TypeOK, DeviceTypes, FileTypes, ProcessTypes

LEMMA StartFacts ==
  ASSUME Starting
  PROVE  /\ UNCHANGED <<device, disk, server, keyset, raw, made, gone>>
         /\ pc = "idle" /\ pc' = "connect" /\ rc' = 0 /\ cmd' \in Command
<1>1. ASSUME NEW name \in {"sync", "capture", "enroll"}, NEW o \in Path,
             NEW key \in {"none", "push"} \cup Path, NEW nodecode \in BOOLEAN,
             NEW upload \in BOOLEAN, Start(name, o, key, nodecode, upload)
      PROVE  /\ UNCHANGED <<device, disk, server, keyset, raw, made, gone>>
             /\ pc' = "connect" /\ rc' = 0 /\ cmd' \in Command
  BY <1>1 DEF Start, Command
<1>2. CASE Enroll
  BY <1>1, <1>2, CommandsAssumption DEF Enroll, KeyFiles
<1>3. ASSUME NEW o \in Path, Sync(o)
      PROVE  /\ UNCHANGED <<device, disk, server, keyset, raw, made, gone>>
             /\ pc = "idle" /\ pc' = "connect" /\ rc' = 0 /\ cmd' \in Command
  BY <1>1, <1>3 DEF Sync, KeyFiles
<1>4. ASSUME NEW o \in Path, Capture(o)
      PROVE  /\ UNCHANGED <<device, disk, server, keyset, raw, made, gone>>
             /\ pc = "idle" /\ pc' = "connect" /\ rc' = 0 /\ cmd' \in Command
  BY <1>1, <1>4 DEF Capture
<1> QED
  BY <1>2, <1>3, <1>4 DEF Starting

LEMMA RecordedGrows ==
  ASSUME TypeOK, Record
  PROVE  /\ recorded' \in 0..MaxPage /\ recorded' \in Page
         /\ 1..recorded \subseteq 1..recorded' /\ 1..recorded' = 1..recorded \cup {recorded'}
BY CommandsAssumption DEF TypeOK, Record, Page

LEMMA KeysGrow ==
  ASSUME TypeOK, made < MaxKey, made' = made + 1
  PROVE  made' \in 0..MaxKey /\ 0..made \subseteq 0..made' /\ made + 1 \in 0..made' /\ made + 1 # NoKey
BY CommandsAssumption DEF TypeOK, NoKey

LEMMA EndTypes ==
  ASSUME NEW code \in {0, 1}, End(code), made' \in Nat, recorded' \in Nat
  PROVE  ProcessTypes'
BY DEF End, ProcessTypes, NoKey

LEMMA TypeStep == TypeOK /\ [Next]_vars => TypeOK'
<1> SUFFICES ASSUME TypeOK, [Next]_vars PROVE TypeOK'
  OBVIOUS
<1> USE CommandsAssumption
<1>0. made \in Nat /\ recorded \in Nat
  BY DEF TypeOK
<1>1. CASE Record
  <2>1. DeviceTypes'
    BY <1>1, RecordedGrows DEF Record, TypeOK, DeviceTypes
  <2>2. FileTypes'
    BY <1>1, RecordedGrows DEF Record, TypeOK, FileTypes, disk
  <2>3. ProcessTypes'
    BY <1>1, RecordedGrows DEF Record, TypeOK, ProcessTypes, process
  <2> QED
    BY <2>1, <2>2, <2>3 DEF TypeOK, DeviceTypes, FileTypes, ProcessTypes
<1>2. CASE Reboot \/ Erase
  <2>1. deviceKey' \in 0..made
    BY <1>0, <1>2 DEF Reboot, Erase, TypeOK, NoKey
  <2> QED
    BY <1>2, <2>1 DEF Reboot, Erase, TypeOK, disk, process
<1>3. CASE Starting
  <2>1. UNCHANGED <<device, disk, server, keyset, raw, made, gone>>
        /\ pc' = "connect" /\ rc' = 0 /\ cmd' \in Command
    BY <1>3, StartFacts
  <2> QED
    BY <2>1 DEF TypeOK, device, disk
<1>4. CASE Keying
  <2>1. CASE LoadKey
    <3>1. keyset' \in 0..made
      BY <1>0, <2>1 DEF LoadKey, TypeOK, Command, NoKey
    <3> QED
      BY <2>1, <3>1 DEF LoadKey, TypeOK, device, disk
  <2>2. CASE SaveKey \/ SaveKeyFails
    <3>1. made' = made + 1 /\ made < MaxKey /\ cmd.out \in Path
      BY <2>2 DEF SaveKey, SaveKeyFails, TypeOK, Command
    <3>2. /\ made' \in 0..MaxKey /\ 0..made \subseteq 0..made'
          /\ made + 1 \in 0..made' /\ made + 1 # NoKey
      BY <3>1, KeysGrow
    <3>3. UNCHANGED <<device, written, bin, heard, server, gone>>
      BY <2>2 DEF SaveKey, SaveKeyFails
    <3>4. DeviceTypes'
      BY <3>2, <3>3 DEF TypeOK, DeviceTypes, device
    <3>5. FileTypes'
      <4>1. keyFile' \in [Path -> 0..made']
        BY <2>2, <3>2 DEF SaveKey, SaveKeyFails, TypeOK, NoKey
      <4> QED
        BY <3>3, <4>1 DEF TypeOK, FileTypes, device
    <3>6. ProcessTypes'
      <4>1. CASE SaveKey
        BY <3>2, <3>3, <4>1 DEF SaveKey, TypeOK, ProcessTypes, device
      <4>2. CASE SaveKeyFails
        BY <1>0, <3>1, <3>3, <4>2, EndTypes DEF SaveKeyFails, device
      <4> QED
        BY <2>2, <4>1, <4>2
    <3> QED
      BY <3>4, <3>5, <3>6 DEF TypeOK, DeviceTypes, FileTypes, ProcessTypes
  <2>3. CASE PushKey \/ Fail
    <3>1. deviceKey' \in 0..made
          /\ UNCHANGED <<recorded, sealed, flash, disk, server, made, gone>>
      BY <2>3 DEF PushKey, Fail, TypeOK, device
    <3>2. ProcessTypes'
      <4>1. CASE End(1)
        BY <1>0, <3>1, <4>1, EndTypes
      <4>2. CASE PushKey /\ pc' = "download" /\ UNCHANGED <<process, rc>>
        BY <3>1, <4>2 DEF PushKey, TypeOK, ProcessTypes, process
      <4> QED
        BY <2>3, <4>1, <4>2 DEF PushKey, Fail
    <3> QED
      BY <3>1, <3>2 DEF TypeOK, ProcessTypes, disk
  <2> QED
    BY <1>4, <2>1, <2>2, <2>3 DEF Keying
<1>5. ASSUME NEW p \in Page, TakePage(p) PROVE TypeOK'
  BY <1>5 DEF TakePage, TypeOK, disk
<1>6. CASE WriteBin \/ WriteBinFails
  <2>1. UNCHANGED <<device, keyFile, heard, server, made>>
    BY <1>6 DEF WriteBin, WriteBinFails, disk
  <2>2. FileTypes'
    <3>1. cmd.out \in Path /\ raw \subseteq 1..recorded
      BY <1>6 DEF WriteBin, WriteBinFails, TypeOK, Command
    <3>2. /\ bin' \in [Path -> SUBSET (1..recorded)] /\ written' \subseteq Path
          /\ gone' \subseteq 1..recorded
      BY <1>6, <3>1 DEF WriteBin, WriteBinFails, TypeOK, disk
    <3> QED
      BY <2>1, <3>2 DEF TypeOK, FileTypes, device
  <2>3. ProcessTypes'
    <3>1. CASE End(1)
      BY <1>0, <2>1, <3>1, EndTypes DEF device
    <3>2. CASE pc' = "saved" /\ UNCHANGED <<process, rc>>
      BY <1>6, <2>1, <3>2 DEF WriteBin, WriteBinFails, TypeOK, ProcessTypes, process, device
    <3> QED
      BY <1>6, <3>1, <3>2 DEF WriteBin, WriteBinFails
  <2> QED
    BY <2>1, <2>2, <2>3 DEF TypeOK, FileTypes, ProcessTypes, device
<1>7. CASE Finishing
  <2>1. /\ UNCHANGED <<device, keyFile, written, bin, made>>
        /\ heard' \subseteq heard \cup raw /\ server' \subseteq server \cup raw
        /\ gone' \subseteq gone \cup raw
    BY <1>7 DEF Finishing, Return, Upload, Decode, Kill, disk, Readable
  <2>2. FileTypes'
    BY <2>1 DEF TypeOK, FileTypes, device
  <2>3. ProcessTypes'
    <3>1. ASSUME NEW code \in {0, 1}, End(code) PROVE ProcessTypes'
      BY <1>0, <2>1, <3>1, EndTypes DEF device
    <3>2. CASE Upload
      BY <2>1, <3>2 DEF Upload, TypeOK, ProcessTypes, process, device
    <3> QED
      BY <1>7, <3>1, <3>2 DEF Finishing, Return, Decode, Kill
  <2> QED
    BY <2>1, <2>2, <2>3 DEF TypeOK, FileTypes, ProcessTypes, device
<1>8. CASE Offline
  <2>1. /\ UNCHANGED <<device, keyFile, written, bin, pc, process, rc, made, gone>>
        /\ \E o \in Path : /\ heard' \subseteq heard \cup bin[o]
                           /\ server' \subseteq server \cup bin[o]
    <3>1. ASSUME NEW o \in Path, NEW k \in Path, DecodeFile(o, k)
          PROVE  heard' \subseteq heard \cup bin[o] /\ server' = server
      BY <3>1 DEF DecodeFile, Readable
    <3> QED
      BY <1>8, <3>1 DEF Offline, DecodeFile, PushFile, disk
  <2> QED
    BY <2>1 DEF TypeOK, device, process
<1>9. CASE UNCHANGED vars
  BY <1>9 DEF TypeOK, vars
<1> QED
  BY <1>1, <1>2, <1>3, <1>4, <1>5, <1>6, <1>7, <1>8, <1>9, Stages

(* Every state of Commands is well typed.                                  *)
THEOREM TypeCorrect == Spec => []TypeOK
<1>1. Init => TypeOK
  BY CommandsAssumption DEF Init, TypeOK, NoKey, Page
<1> QED
  BY <1>1, TypeStep, PTL DEF Spec

-----------------------------------------------------------------------------
(* Keys.                                                                   *)

LEMMA StartsUnused ==
  ASSUME TypeOK, Starting, "reuse" \notin Habits
  PROVE  /\ cmd'.key = "push" => keyFile[cmd'.out] = NoKey
         /\ "again" \notin Habits => cmd'.out \notin written
<1>1. ASSUME NEW o \in Path, Sync(o)
      PROVE  o \notin written /\ keyFile[o] = NoKey /\ cmd'.out = o
  BY <1>1 DEF Sync, Start, Unused
<1>2. ASSUME NEW o \in Path, Capture(o)
      PROVE  o \notin written /\ cmd'.out = o /\ cmd'.key = "none"
  BY <1>2 DEF Capture, Start, Unused
<1>3. CASE Enroll
  <2>1. cmd'.out = EnrollPath /\ cmd'.key \in {"none"} \cup Path
    BY <1>3 DEF Enroll, Start, KeyFiles
  <2> QED
    BY <1>3, <2>1, CommandsAssumption DEF Enroll
<1> QED
  BY <1>1, <1>2, <1>3 DEF Starting

LEMMA KeyStep ==
  ASSUME "reuse" \notin Habits, TypeOK, KeyInv, [Next]_vars
  PROVE  KeyInv'
<1> USE CommandsAssumption
<1>1. CASE Record
  <2>1. UNCHANGED <<Saved, deviceKey, pc, keyset, cmd, keyFile>>
    BY <1>1 DEF Record, disk, process, Saved
  <2>2. KeysSuffice'
    <3> SUFFICES ASSUME NEW p \in 1..recorded', sealed'[p] # NoKey
                 PROVE  sealed'[p] \in Saved
      BY <2>1 DEF KeysSuffice
    <3>1. CASE p = recorded'
      BY <1>1, <3>1, RecordedGrows DEF Record, TypeOK, KeyInv
    <3>2. CASE p # recorded'
      <4>1. p \in 1..recorded /\ p \in Page
        BY <1>1, <3>2 DEF Record, TypeOK, Page
      <4>2. sealed'[p] = sealed[p]
        BY <1>1, <3>2, <4>1 DEF Record, TypeOK
      <4> QED
        BY <4>1, <4>2 DEF KeyInv, KeysSuffice
    <3> QED
      BY <3>1, <3>2
  <2> QED
    BY <2>1, <2>2 DEF KeyInv
<1>2. CASE Reboot \/ Erase
  <2>1. /\ UNCHANGED <<recorded, sealed, pc, keyset, cmd, keyFile>>
        /\ deviceKey' \in {deviceKey, NoKey}
    BY <1>2 DEF Reboot, Erase, disk, process
  <2> QED
    BY <2>1 DEF KeyInv, KeysSuffice, Saved
<1>3. CASE Starting
  <2>1. UNCHANGED <<recorded, sealed, deviceKey, keyFile>> /\ pc' = "connect"
    BY <1>3, StartFacts DEF device, disk
  <2> QED
    BY <1>3, <2>1, StartsUnused DEF KeyInv, KeysSuffice, Saved
<1>4. CASE SaveKey \/ SaveKeyFails
  <2>1. UNCHANGED <<recorded, sealed, deviceKey>> /\ cmd.out \in Path /\ keyFile[cmd.out] = NoKey
    BY <1>4 DEF SaveKey, SaveKeyFails, device, TypeOK, Command, KeyInv
  <2>2. \A k \in Saved : k # NoKey => k \in Saved'
    <3> SUFFICES ASSUME NEW o \in Path, keyFile[o] # NoKey PROVE keyFile[o] \in Saved'
      BY DEF Saved
    <3>1. keyFile'[o] = keyFile[o]
      BY <1>4, <2>1 DEF SaveKey, SaveKeyFails, TypeOK
    <3> QED
      BY <3>1 DEF Saved
  <2>3. pc' = "push" => keyset' \in Saved'
    <3> SUFFICES ASSUME pc' = "push" PROVE keyset' \in Saved'
      OBVIOUS
    <3>1. keyset' = made + 1 /\ keyFile'[cmd.out] = made + 1
      BY <1>4, <2>1 DEF SaveKey, SaveKeyFails, End, TypeOK
    <3> QED
      BY <2>1, <3>1 DEF Saved
  <2>4. pc' # "connect"
    BY <1>4 DEF SaveKey, SaveKeyFails, End
  <2> QED
    BY <2>1, <2>2, <2>3, <2>4 DEF KeyInv, KeysSuffice
<1>5. CASE PushKey
  <2>1. /\ UNCHANGED <<recorded, sealed, keyFile>> /\ deviceKey' \in {deviceKey, keyset}
        /\ pc = "push" /\ pc' \notin {"push", "connect"}
    BY <1>5 DEF PushKey, End, disk
  <2> QED
    BY <2>1 DEF KeyInv, KeysSuffice, Saved
<1>6. CASE \/ LoadKey \/ Fail \/ WriteBin \/ WriteBinFails \/ Finishing
           \/ \E p \in Page : TakePage(p)
  <2>1. UNCHANGED <<recorded, sealed, deviceKey, keyFile>> /\ pc' \notin {"push", "connect"}
    BY <1>6 DEF LoadKey, Fail, WriteBin, WriteBinFails, TakePage, Finishing, Return, Upload,
                Decode, Kill, End, device, disk
  <2> QED
    BY <2>1 DEF KeyInv, KeysSuffice, Saved
<1>7. CASE Offline \/ UNCHANGED vars
  <2>1. UNCHANGED <<recorded, sealed, deviceKey, keyFile, pc, keyset, cmd>>
    BY <1>7 DEF Offline, DecodeFile, PushFile, vars, device, disk, process
  <2> QED
    BY <2>1 DEF KeyInv, KeysSuffice, Saved
<1> QED
  BY <1>1, <1>2, <1>3, <1>4, <1>5, <1>6, <1>7, Stages DEF Keying

(* If no -o path is used twice, whatever the pendant has encrypted can be  *)
(* decrypted with a key file on disk.                                      *)
THEOREM KeysAreKept ==
  ASSUME "reuse" \notin Habits
  PROVE  Spec => [](KeyInv /\ KeysSuffice)
<1>1. Init => KeyInv
  BY CommandsAssumption DEF Init, KeyInv, KeysSuffice
<1>2. TypeOK /\ KeyInv /\ [Next]_vars => KeyInv'
  BY KeyStep
<1>3. KeyInv => KeysSuffice
  BY DEF KeyInv
<1> QED
  BY <1>1, <1>2, <1>3, TypeCorrect, PTL DEF Spec

-----------------------------------------------------------------------------
(* Pages.                                                                  *)

LEMMA RawStep ==
  ASSUME TypeOK, RawInv, [Next]_vars
  PROVE  RawInv'
<1>1. CASE Record \/ Reboot \/ Erase
  BY <1>1 DEF Record, Reboot, Erase, RawInv, disk, process
<1>2. CASE Starting
  BY <1>2, StartFacts DEF RawInv
<1>3. CASE Keying
  BY <1>3 DEF Keying, LoadKey, SaveKey, SaveKeyFails, PushKey, Fail, End, RawInv, process
<1>4. ASSUME NEW p \in Page, TakePage(p) PROVE RawInv'
  BY <1>4 DEF TakePage, RawInv
<1>5. CASE WriteBin \/ WriteBinFails
  <2>1. CASE pc' = "idle" /\ raw' = {}
    BY <2>1 DEF RawInv
  <2>2. CASE WriteBin /\ pc' = "saved" /\ UNCHANGED process
    <3>1. cmd.out \in Path /\ bin'[cmd.out] = raw
      BY <2>2 DEF WriteBin, TypeOK, Command
    <3> QED
      BY <2>2, <3>1 DEF RawInv, process
  <2> QED
    BY <1>5, <2>1, <2>2 DEF WriteBin, WriteBinFails, End
<1>6. CASE Finishing
  <2>1. CASE Upload
    BY <2>1 DEF Upload, RawInv, process, disk
  <2>2. CASE pc' = "idle" /\ raw' = {}
    BY <2>2 DEF RawInv
  <2> QED
    BY <1>6, <2>1, <2>2 DEF Finishing, Return, Decode, Kill, End
<1>7. CASE Offline \/ UNCHANGED vars
  BY <1>7 DEF Offline, DecodeFile, PushFile, vars, disk, process, RawInv
<1> QED
  BY <1>1, <1>2, <1>3, <1>4, <1>5, <1>6, <1>7, Stages

LEMMA RawInvariant == Spec => []RawInv
<1>1. Init => RawInv
  BY DEF Init, RawInv
<1>2. TypeOK /\ RawInv /\ [Next]_vars => RawInv'
  BY RawStep
<1> QED
  BY <1>1, <1>2, TypeCorrect, PTL DEF Spec

\* The key a command generated is in its key file as long as it runs.
KeyOfRun ==
  pc \in {"push", "download", "saved", "decode"} /\ cmd.key = "push" =>
    keyFile[cmd.out] = keyset /\ keyset # NoKey

LEMMA KeyOfRunInvariant == Spec => []KeyOfRun
<1>1. Init => KeyOfRun
  BY DEF Init, KeyOfRun
<1>2. TypeOK /\ KeyOfRun /\ [Next]_vars => KeyOfRun'
  <2> SUFFICES ASSUME TypeOK, KeyOfRun, [Next]_vars PROVE KeyOfRun'
    OBVIOUS
  <2>1. \A code : End(code) => pc' = "idle"
    BY DEF End
  <2>2. CASE Record \/ Reboot \/ Erase \/ Offline \/ UNCHANGED vars
    BY <2>2 DEF Record, Reboot, Erase, Offline, DecodeFile, PushFile, vars, disk, process, KeyOfRun
  <2>3. CASE Starting
    BY <2>3, StartFacts DEF KeyOfRun
  <2>4. CASE SaveKey
    <3>1. cmd.out \in Path /\ made + 1 # NoKey
      BY <2>4, CommandsAssumption DEF SaveKey, TypeOK, Command, NoKey
    <3>2. keyFile'[cmd.out] = made + 1
      BY <2>4, <3>1 DEF SaveKey, TypeOK
    <3> QED
      BY <2>4, <3>1, <3>2 DEF SaveKey, KeyOfRun
  <2>5. CASE LoadKey
    BY <2>5 DEF LoadKey, KeyOfRun
  <2>6. CASE SaveKeyFails \/ Fail \/ WriteBinFails \/ Return \/ Decode \/ Kill
    BY <2>1, <2>6 DEF SaveKeyFails, Fail, WriteBinFails, Return, Decode, Kill, KeyOfRun
  <2>7. CASE PushKey \/ WriteBin \/ Upload
    BY <2>1, <2>7 DEF PushKey, WriteBin, Upload, disk, process, KeyOfRun
  <2>8. ASSUME NEW p \in Page, TakePage(p) PROVE KeyOfRun'
    BY <2>8 DEF TakePage, disk, KeyOfRun
  <2> QED
    BY <2>2, <2>3, <2>4, <2>5, <2>6, <2>7, <2>8, Stages DEF Keying, Finishing
<1> QED
  BY <1>1, <1>2, TypeCorrect, PTL DEF Spec

(* A command that exits with 0 has everything it captured in its .bin, and *)
(* the key it generated in its key file, with every habit and mishap.      *)
THEOREM SuccessIsSaved == Spec => SuccessMeansSaved
<1>1. RawInv /\ KeyOfRun /\ [Next]_vars => [SuccessStep]_vars
  <2> SUFFICES ASSUME RawInv, KeyOfRun, Next, pc # "idle", pc' = "idle", rc' = 0
               PROVE  /\ bin'[cmd.out] = raw
                      /\ cmd.key = "push" => keyFile'[cmd.out] = keyset /\ keyset # NoKey
    BY DEF SuccessStep
  <2>1. CASE Return
    BY <2>1 DEF Return, RawInv, KeyOfRun, disk
  <2>2. CASE Decode
    BY <2>2 DEF Decode, RawInv, KeyOfRun
  <2>3. Return \/ Decode
    BY DEF Next, Record, Reboot, Erase, Sync, Capture, Enroll, Start, LoadKey, SaveKey,
           SaveKeyFails, PushKey, Fail, TakePage, WriteBin, WriteBinFails, Upload, Kill,
           DecodeFile, PushFile, End, process
  <2> QED
    BY <2>1, <2>2, <2>3
<1> QED
  BY <1>1, RawInvariant, KeyOfRunInvariant, PTL DEF Spec, SuccessMeansSaved

Kept == flash \cup raw \cup OnDisk \cup gone

LEMMA FileStep ==
  ASSUME "reuse" \notin Habits, "again" \notin Habits, TypeOK, FileInv, [Next]_vars
  PROVE  FileInv'
<1>1. RawInv'
  BY RawStep DEF FileInv
<1>2. ASSUME UNCHANGED <<written, bin>>
      PROVE  OnDisk' = OnDisk /\ (\A o \in Path : bin'[o] # {} => o \in written')
  BY <1>2 DEF OnDisk, FileInv
<1>3. CASE Record \/ Reboot \/ Erase
  <2>1. UNCHANGED <<written, bin, pc, cmd, raw, heard, server>>
    BY <1>3 DEF Record, Reboot, Erase, disk, process
  <2>2. 1..recorded' \subseteq Kept'
    <3>1. CASE Record
      BY <1>2, <2>1, <3>1, RecordedGrows DEF Record, Kept, FileInv, PagesKept
    <3>2. CASE Reboot \/ Erase
      BY <1>2, <2>1, <3>2 DEF Reboot, Erase, Kept, FileInv, PagesKept
    <3> QED
      BY <1>3, <3>1, <3>2
  <2> QED
    BY <1>1, <1>2, <2>1, <2>2 DEF FileInv, PagesKept, Kept, DerivedFromBin
<1>4. CASE Starting
  <2>1. UNCHANGED <<recorded, flash, written, bin, heard, server, raw, gone>>
        /\ pc' = "connect" /\ cmd' \in Command
    BY <1>4, StartFacts DEF device, disk
  <2>2. bin'[cmd'.out] = {}
    BY <1>4, <2>1, StartsUnused DEF FileInv, Command
  <2> QED
    BY <1>1, <1>2, <2>1, <2>2 DEF FileInv, PagesKept, DerivedFromBin
<1>5. CASE Keying
  <2>1. UNCHANGED <<recorded, flash, written, bin, heard, server, gone>>
    BY <1>5 DEF Keying, LoadKey, SaveKey, SaveKeyFails, PushKey, Fail, device, disk
  <2>2. /\ pc \in {"connect", "push", "saved"}
        /\ pc' = "idle" \/ (pc \in {"connect", "push"} /\ pc' \in {"push", "download"} /\ cmd' = cmd)
    BY <1>5 DEF Keying, LoadKey, SaveKey, SaveKeyFails, PushKey, Fail, End, process
  <2>3. raw \subseteq OnDisk
    <3>1. pc = "saved" => cmd.out \in Path
      BY DEF TypeOK, Command
    <3> QED
      BY <2>2, <3>1 DEF FileInv, RawInv, OnDisk
  <2> QED
    BY <1>1, <1>2, <2>1, <2>2, <2>3 DEF FileInv, PagesKept, DerivedFromBin
<1>6. ASSUME NEW p \in Page, TakePage(p) PROVE FileInv'
  <2>1. /\ UNCHANGED <<recorded, written, bin, heard, server, pc, cmd, gone>>
        /\ raw' = raw \cup {p}
    BY <1>6 DEF TakePage, disk
  <2>2. flash \subseteq flash' \cup raw'
    <3> SUFFICES ASSUME NEW q \in flash, q \notin flash', q \notin raw PROVE q = p
      BY <2>1
    <3>1. q \in 1..p /\ p <= q
      BY <1>6 DEF TakePage
    <3> QED
      BY <3>1 DEF Page
  <2> QED
    BY <1>1, <1>2, <2>1, <2>2 DEF FileInv, PagesKept, DerivedFromBin
<1>7. CASE WriteBin
  <2>1. /\ UNCHANGED <<recorded, flash, heard, server, gone>>
        /\ cmd.out \in Path /\ bin[cmd.out] = {}
        /\ bin' = [bin EXCEPT ![cmd.out] = raw] /\ written' = written \cup {cmd.out}
        /\ pc' \in {"saved", "idle"}
    BY <1>7 DEF WriteBin, End, device, TypeOK, Command, FileInv
  <2>2. /\ bin'[cmd.out] = raw
        /\ \A o \in Path : o # cmd.out => bin'[o] = bin[o]
    BY <2>1 DEF TypeOK
  <2>3. OnDisk \cup raw \subseteq OnDisk'
    <3>1. ASSUME NEW o \in Path, NEW q \in bin[o] PROVE q \in bin'[o]
      BY <2>1, <2>2, <3>1
    <3> QED
      BY <2>1, <2>2, <3>1 DEF OnDisk
  <2>4. \A o \in Path : bin'[o] # {} => o \in written'
    BY <2>1, <2>2 DEF FileInv
  <2> QED
    BY <1>1, <2>1, <2>3, <2>4 DEF FileInv, PagesKept, DerivedFromBin
<1>8. CASE WriteBinFails
  <2>1. UNCHANGED <<recorded, flash, written, bin, heard, server>> /\ pc' = "idle"
        /\ gone' = gone \cup raw
    BY <1>8 DEF WriteBinFails, End, device, disk
  <2> QED
    BY <1>1, <1>2, <2>1 DEF FileInv, PagesKept, DerivedFromBin
<1>9. CASE Finishing
  <2>1. /\ UNCHANGED <<recorded, flash, written, bin>>
        /\ pc' \in {"idle", "decode"} /\ gone \subseteq gone'
    BY <1>9 DEF Finishing, Return, Upload, Decode, Kill, End, device, disk
  <2>2. raw \subseteq OnDisk \cup gone'
    <3>1. CASE Kill
      <4>1. CASE pc = "download"
        BY <3>1, <4>1 DEF Kill
      <4>2. CASE pc \in {"saved", "decode"}
        BY <4>2 DEF FileInv, RawInv, OnDisk, TypeOK, Command
      <4>3. CASE pc \in {"connect", "push"}
        BY <4>3 DEF FileInv, RawInv
      <4> QED
        BY <3>1, <4>1, <4>2, <4>3 DEF Kill, TypeOK
    <3>2. CASE pc \in {"saved", "decode"}
      BY <3>2 DEF FileInv, RawInv, OnDisk, TypeOK, Command
    <3> QED
      BY <1>9, <3>1, <3>2 DEF Finishing, Return, Upload, Decode
  <2>3. server' \cup heard' \subseteq OnDisk
    <3>1. CASE Kill \/ Return
      BY <3>1 DEF Kill, Return, disk, FileInv, DerivedFromBin
    <3>2. CASE Upload \/ Decode
      <4>1. raw \subseteq OnDisk
        BY <3>2 DEF Upload, Decode, FileInv, RawInv, OnDisk, TypeOK, Command
      <4>2. server' \subseteq server \cup raw /\ heard' \subseteq heard \cup raw
        BY <3>2 DEF Upload, Decode, Readable, disk
      <4> QED
        BY <4>1, <4>2 DEF FileInv, DerivedFromBin
    <3> QED
      BY <1>9, <3>1, <3>2 DEF Finishing
  <2> QED
    BY <1>1, <1>2, <2>1, <2>2, <2>3 DEF FileInv, PagesKept, DerivedFromBin
<1>10. CASE Offline
  <2>1. UNCHANGED <<recorded, flash, raw, written, bin, pc, cmd, gone>>
    BY <1>10 DEF Offline, DecodeFile, PushFile, device, disk, process
  <2>2. server' \cup heard' \subseteq server \cup heard \cup OnDisk
    <3>1. ASSUME NEW o \in Path, PushFile(o) PROVE server' \cup heard' \subseteq server \cup heard \cup OnDisk
      BY <3>1 DEF PushFile, disk, OnDisk
    <3>2. ASSUME NEW o \in Path, NEW k \in Path, DecodeFile(o, k)
          PROVE  server' \cup heard' \subseteq server \cup heard \cup OnDisk
      BY <3>2 DEF DecodeFile, Readable, OnDisk
    <3> QED
      BY <1>10, <3>1, <3>2 DEF Offline
  <2> QED
    BY <1>1, <1>2, <2>1, <2>2 DEF FileInv, PagesKept, DerivedFromBin
<1>11. CASE UNCHANGED vars
  BY <1>1, <1>2, <1>11 DEF FileInv, PagesKept, DerivedFromBin, vars
<1> QED
  BY <1>3, <1>4, <1>5, <1>6, <1>7, <1>8, <1>9, <1>10, <1>11, Stages

(* With every -o path used once and enroll-voice not repeated, what the    *)
(* files say of the stages of a run is invariant.  This is the inductive   *)
(* invariant, and the property the runs check.                             *)
THEOREM FileInvariant ==
  ASSUME "reuse" \notin Habits, "again" \notin Habits
  PROVE  Spec => []FileInv
<1>1. Init => FileInv
  BY CommandsAssumption DEF Init, FileInv, PagesKept, DerivedFromBin, RawInv, OnDisk
<1>2. TypeOK /\ FileInv /\ [Next]_vars => FileInv'
  BY FileStep
<1> QED
  BY <1>1, <1>2, TypeCorrect, PTL DEF Spec

(* If no -o path is used twice and enroll-voice is not repeated, no page is *)
(* lost but by erasing it or by a run that was cut off or could not write, *)
(* and what was uploaded or decoded is in a .bin.                          *)
THEOREM PagesAreKept ==
  ASSUME "reuse" \notin Habits, "again" \notin Habits
  PROVE  Spec => [](PagesKept /\ DerivedFromBin)
<1>1. FileInv => PagesKept /\ DerivedFromBin
  BY DEF FileInv
<1> QED
  BY <1>1, FileInvariant, PTL
=============================================================================
