------------------------------ MODULE Commands ------------------------------
(***************************************************************************)
(* The commands of the CLI over the life of a pendant: `sync`, `capture`   *)
(* and `enroll-voice` move its pages into .bin files, `decode` turns them  *)
(* into audio, `push` and `sync --upload` send them to a server, and       *)
(* `sync --push-key` gives the pendant a key whose private half is saved   *)
(* beside the output.  What is kept, under which names, and in which order *)
(* when any step may fail, is what this module is about.                   *)
(*                                                                         *)
(* One command runs at a time; `pc` is the stage it is at.  The download   *)
(* is reduced to what Download.tla shows of it: pages are captured in      *)
(* ascending order and the pendant frees only captured ones.               *)
(***************************************************************************)
EXTENDS Integers, FiniteSets

CONSTANTS
  Path,         \* base paths given to -o
  EnrollPath,   \* <out-dir>/enroll-voice
  MaxPage,      \* bound: pages recorded
  MaxKey,       \* bound: keypairs generated
  Habits        \* what the user or fate may do

AllHabits ==
  {"reuse",     \* sync and capture are given an -o path of an earlier run
   "again",     \* enroll-voice is run again with the same --out-dir
   "kill",      \* the process dies
   "write",     \* a file cannot be written
   "server"}    \* the upload fails

ASSUME CommandsAssumption ==
  /\ EnrollPath \in Path /\ "none" \notin Path /\ "push" \notin Path
  /\ MaxPage \in Nat /\ MaxKey \in Nat /\ Habits \subseteq AllHabits

Page == 1..MaxPage
NoKey == 0
Key == 0..MaxKey

\* A command being run: its base path, where its key comes from ("none",
\* "push" for --push-key, or the path whose key file --key names), --no-decode
\* and --upload.
Command ==
  [name : {"sync", "capture", "enroll"}, out : Path, key : {"none", "push"} \cup Path,
   nodecode : BOOLEAN, upload : BOOLEAN]
NoCommand ==
  [name |-> "none", out |-> EnrollPath, key |-> "none", nodecode |-> FALSE, upload |-> FALSE]

VARIABLES
  \* the pendant
  recorded,    \* newest page ever recorded, 0 if none
  sealed,      \* the key each page was encrypted with, NoKey if none
  deviceKey,   \* audio_encryption_enabled and its key: RAM only
  flash,       \* pages stored
  \* files and server
  keyFile,     \* <base>.key.pem
  written,     \* paths that have a .bin
  bin,         \* its pages
  heard,       \* pages with audio in recording files
  server,      \* pages uploaded
  \* the command
  pc, cmd, keyset, raw,
  rc,          \* exit code of the last command: 0, or 1 for any other
  \* history
  made,        \* keypairs generated
  gone         \* pages erased by command, or in memory when a run was cut off

device == <<recorded, sealed, deviceKey, flash>>
disk == <<keyFile, written, bin, heard>>
process == <<cmd, keyset, raw>>
vars == <<recorded, sealed, deviceKey, flash, keyFile, written, bin, heard, server,
          pc, cmd, keyset, raw, rc, made, gone>>

OnDisk == UNION {bin[o] : o \in Path}

TypeOK ==
  /\ recorded \in 0..MaxPage /\ flash \subseteq 1..recorded
  /\ sealed \in [Page -> 0..made] /\ deviceKey \in 0..made
  /\ keyFile \in [Path -> 0..made]
  /\ written \subseteq Path /\ bin \in [Path -> SUBSET (1..recorded)]
  /\ heard \subseteq 1..recorded /\ server \subseteq 1..recorded /\ gone \subseteq 1..recorded
  /\ pc \in {"idle", "connect", "push", "download", "saved", "decode"}
  /\ cmd \in Command \cup {NoCommand} /\ (pc # "idle" => cmd \in Command)
  /\ keyset \in 0..made /\ (pc = "push" => keyset # NoKey)
  /\ raw \subseteq 1..recorded
  /\ rc \in {0, 1} /\ made \in 0..MaxKey

Init ==
  /\ recorded = 0 /\ sealed = [p \in Page |-> NoKey] /\ deviceKey = NoKey /\ flash = {}
  /\ keyFile = [o \in Path |-> NoKey] /\ written = {} /\ bin = [o \in Path |-> {}]
  /\ heard = {} /\ server = {}
  /\ pc = "idle" /\ cmd = NoCommand /\ keyset = NoKey /\ raw = {} /\ rc = 0
  /\ made = 0 /\ gone = {}

-----------------------------------------------------------------------------
(* The pendant, as the code and its comments describe it.                  *)

Record ==
  /\ recorded < MaxPage
  /\ recorded' = recorded + 1
  /\ flash' = flash \cup {recorded + 1}
  /\ sealed' = [sealed EXCEPT ![recorded + 1] = deviceKey]
  /\ UNCHANGED <<deviceKey, disk, server, pc, process, rc, made, gone>>

(* A reboot, by `reset` or by itself, clears the encryption flag.          *)
Reboot ==
  /\ deviceKey # NoKey
  /\ deviceKey' = NoKey
  /\ UNCHANGED <<recorded, sealed, flash, disk, server, pc, process, rc, made, gone>>

(* clear-storage, and factory-reset, which reboots too.                    *)
Erase ==
  /\ pc = "idle" /\ flash # {}
  /\ flash' = {} /\ gone' = gone \cup flash
  /\ deviceKey' \in {deviceKey, NoKey}
  /\ UNCHANGED <<recorded, sealed, disk, server, pc, process, rc, made>>

-----------------------------------------------------------------------------
(* Starting a command.                                                     *)

Start(name, o, key, nodecode, upload) ==
  /\ pc' = "connect" /\ rc' = 0
  /\ cmd' = [name |-> name, out |-> o, key |-> key, nodecode |-> nodecode, upload |-> upload]
  /\ UNCHANGED <<device, disk, server, keyset, raw, made, gone>>

Unused(o) == o # EnrollPath /\ ("reuse" \in Habits \/ (o \notin written /\ keyFile[o] = NoKey))
KeyFiles == {o \in Path : keyFile[o] # NoKey}

Sync(o) ==
  /\ pc = "idle" /\ Unused(o)
  /\ \E key \in {"none"} \cup KeyFiles \cup (IF made < MaxKey THEN {"push"} ELSE {}) :
       \E nodecode, upload \in BOOLEAN : Start("sync", o, key, nodecode, upload)

Capture(o) ==
  /\ pc = "idle" /\ Unused(o)
  /\ Start("capture", o, "none", TRUE, FALSE)

Enroll ==
  /\ pc = "idle" /\ ("again" \in Habits \/ EnrollPath \notin written)
  /\ \E key \in {"none"} \cup KeyFiles : Start("enroll", EnrollPath, key, FALSE, FALSE)

(* The command is over, and with it what it held in memory.                *)
End(code) ==
  /\ pc' = "idle" /\ rc' = code
  /\ cmd' = NoCommand /\ keyset' = NoKey /\ raw' = {}

-----------------------------------------------------------------------------
(* Up to the download.                                                     *)

(* Connected, and for sync and enroll-voice the device info has come.       *)
(* --key loads a private key.                                              *)
LoadKey ==
  /\ pc = "connect" /\ cmd.key # "push"
  /\ keyset' = IF cmd.key = "none" THEN NoKey ELSE keyFile[cmd.key]
  /\ pc' = "download"
  /\ UNCHANGED <<device, disk, server, cmd, raw, rc, made, gone>>

\* Plausible bug: the keypair is not kept in memory after it was saved.
SaveKeyForgets ==
  /\ pc = "connect" /\ cmd.key = "push" /\ made < MaxKey
  /\ made' = made + 1
  /\ keyFile' = [keyFile EXCEPT ![cmd.out] = made + 1]
  /\ pc' = "push"
  /\ UNCHANGED <<device, written, bin, heard, server, cmd, keyset, raw, rc, gone>>

\* Plausible bug: the private key is left to be saved with the results.
SaveKeyLater ==
  /\ pc = "connect" /\ cmd.key = "push" /\ made < MaxKey
  /\ made' = made + 1 /\ keyset' = made + 1
  /\ pc' = "push"
  /\ UNCHANGED <<device, disk, server, cmd, raw, rc, gone>>

(* --push-key: a fresh keypair, whose private half is saved first.         *)
SaveKey ==
  /\ pc = "connect" /\ cmd.key = "push" /\ made < MaxKey
  /\ made' = made + 1 /\ keyset' = made + 1
  /\ keyFile' = [keyFile EXCEPT ![cmd.out] = made + 1]
  /\ pc' = "push"
  /\ UNCHANGED <<device, written, bin, heard, server, cmd, raw, rc, gone>>

(* write_bytes truncates what it could open before it writes.              *)
SaveKeyFails ==
  /\ "write" \in Habits
  /\ pc = "connect" /\ cmd.key = "push" /\ made < MaxKey
  /\ made' = made + 1
  /\ keyFile' \in {keyFile, [keyFile EXCEPT ![cmd.out] = NoKey]}
  /\ End(1)
  /\ UNCHANGED <<device, written, bin, heard, server, gone>>

(* set_server_public_key is one-way: whether the pendant took the key is   *)
(* not known when the write returns, nor when it raises.                   *)
PushKey ==
  /\ pc = "push"
  /\ deviceKey' \in {deviceKey, keyset}
  /\ \/ pc' = "download" /\ UNCHANGED <<process, rc>>
     \/ End(1)
  /\ UNCHANGED <<recorded, sealed, flash, disk, server, made, gone>>

(* The connection, the device info or the closing of the link fails, or    *)
(* the user interrupts: nothing was captured yet, or it is in the .bin.    *)
Fail ==
  /\ pc \in {"connect", "saved"}
  /\ End(1)
  /\ UNCHANGED <<device, disk, server, made, gone>>

-----------------------------------------------------------------------------
(* The download and its finally.                                           *)

(* A page is captured; its ack reaches the pendant or not.                 *)
TakePage(p) ==
  /\ pc = "download"
  /\ p \in flash \ raw /\ \A q \in flash \ raw : p <= q
  /\ raw' = raw \cup {p}
  /\ flash' \in {flash, flash \ (1..p)}
  /\ UNCHANGED <<recorded, sealed, deviceKey, disk, server, pc, cmd, keyset, rc, made, gone>>

\* Plausible bug: an interrupted run does not write its .bin.
WriteBinOnSuccess ==
  /\ pc = "download"
  /\ \/ pc' = "saved" /\ UNCHANGED <<process, rc>>
        /\ bin' = [bin EXCEPT ![cmd.out] = raw] /\ written' = written \cup {cmd.out}
     \/ End(1) /\ UNCHANGED <<bin, written>>
  /\ UNCHANGED <<device, keyFile, heard, server, made, gone>>

(* The finally: the .bin is written whether the download ended by itself,  *)
(* raised or was interrupted.                                              *)
WriteBin ==
  /\ pc = "download"
  /\ bin' = [bin EXCEPT ![cmd.out] = raw] /\ written' = written \cup {cmd.out}
  /\ \/ pc' = "saved" /\ UNCHANGED <<process, rc>>
     \/ End(1)
  /\ UNCHANGED <<device, keyFile, heard, server, made, gone>>

\* Plausible bug: an error of the write is logged and the command goes on.
WriteBinFailsQuietly ==
  /\ "write" \in Habits
  /\ pc = "download" /\ pc' = "saved"
  /\ gone' = gone \cup raw
  /\ UNCHANGED <<device, disk, server, process, rc, made>>

(* The temporary file cannot be written or renamed.                        *)
WriteBinFails ==
  /\ "write" \in Habits
  /\ pc = "download"
  /\ gone' = gone \cup raw
  /\ End(1)
  /\ UNCHANGED <<device, disk, server, made>>

-----------------------------------------------------------------------------
(* After the link is closed.                                               *)

(* --no-decode, which is tested before --upload, and capture end here;     *)
(* enroll-voice refuses an empty capture.                                  *)
Return ==
  /\ pc = "saved"
  /\ \/ cmd.nodecode /\ End(0)
     \/ cmd.name = "enroll" /\ raw = {} /\ End(1)
  /\ UNCHANGED <<device, disk, server, made, gone>>

(* --upload posts the copy in memory.  A failure is reported on stderr and *)
(* the command goes on.                                                    *)
Upload ==
  /\ pc = "saved" /\ ~cmd.nodecode /\ (cmd.name = "enroll" => raw # {})
  /\ server' \in (IF cmd.upload THEN {server \cup raw} ELSE {server})
                 \cup (IF "server" \in Habits THEN {server} ELSE {})
  /\ pc' = "decode"
  /\ UNCHANGED <<device, disk, process, rc, made, gone>>

(* What iter_audio_chunks_from_messages can make audio of: pages in clear  *)
(* and those its key opens.  A chunk that cannot be decrypted is skipped.  *)
Readable(S, k) == {p \in S : sealed[p] \in {NoKey, k}}

(* The decode of the copy in memory, which may raise or be interrupted     *)
(* anywhere.  Nor does the end of a decode mean that all audio is in the   *)
(* recordings: the splitter drops what shares a chunk with a start flag,   *)
(* and closing a file swallows what its last writes raise.  enroll-voice   *)
(* then sends one of the recordings, which the server may refuse.          *)
Decode ==
  /\ pc = "decode"
  /\ \E played \in SUBSET Readable(raw, keyset) :
       /\ heard' = heard \cup played
       /\ \/ (cmd.name = "enroll" => played # {}) /\ End(0)
          \/ End(1)
  /\ UNCHANGED <<device, keyFile, written, bin, server, made, gone>>

Kill ==
  /\ "kill" \in Habits
  /\ pc # "idle"
  /\ gone' = IF pc = "download" THEN gone \cup raw ELSE gone
  /\ End(1)
  /\ UNCHANGED <<device, disk, server, made>>

-----------------------------------------------------------------------------
(* The commands that need no pendant.                                      *)

(* `decode`, with the key file of path k or without a key.                 *)
DecodeFile(o, k) ==
  /\ pc = "idle"
  /\ o \in written
  /\ \E played \in SUBSET Readable(bin[o], keyFile[k]) : heard' = heard \cup played
  /\ UNCHANGED <<device, keyFile, written, bin, server, pc, process, rc, made, gone>>

(* `push`.                                                                 *)
PushFile(o) ==
  /\ pc = "idle"
  /\ o \in written
  /\ server' = server \cup bin[o]
  /\ UNCHANGED <<device, disk, pc, process, rc, made, gone>>

Next ==
  \/ Record \/ Reboot \/ Erase
  \/ \E o \in Path : Sync(o) \/ Capture(o)
  \/ Enroll
  \/ LoadKey \/ SaveKey \/ SaveKeyFails \/ PushKey \/ Fail
  \/ \E p \in Page : TakePage(p)
  \/ WriteBin \/ WriteBinFails
  \/ Return \/ Upload \/ Decode \/ Kill
  \/ \E o, k \in Path : DecodeFile(o, k)
  \/ \E o \in Path : PushFile(o)

Spec == Init /\ [][Next]_vars

-----------------------------------------------------------------------------
(* Properties.                                                             *)

Saved == {keyFile[o] : o \in Path}

(* As long as no path is reused, every page the pendant encrypted, wherever *)
(* it is, can be decrypted with a key file: the private half is on disk    *)
(* before the pendant can have the public one, and stays there through     *)
(* failed pushes, kills and failed writes.                                 *)
KeysSuffice == \A p \in 1..recorded : sealed[p] # NoKey => sealed[p] \in Saved

(* The same of the key the pendant uses now and of the one about to be     *)
(* pushed; a run that will generate a key has no key file yet.             *)
KeyInv ==
  /\ KeysSuffice
  /\ deviceKey # NoKey => deviceKey \in Saved
  /\ pc = "push" => keyset \in Saved
  /\ pc = "connect" /\ cmd.key = "push" => keyFile[cmd.out] = NoKey

(* Every page recorded is on the pendant, in a running command's memory or *)
(* in a .bin, unless it was erased by command or was in memory when the    *)
(* process was killed or its .bin could not be written.                    *)
PagesKept == 1..recorded \subseteq flash \cup raw \cup OnDisk \cup gone

(* Whatever was uploaded or decoded is also in a .bin: nothing derived     *)
(* outlives its source.                                                    *)
DerivedFromBin == server \cup heard \subseteq OnDisk

(* What a running command captured is on disk once it is past its finally, *)
(* and its .bin is not put over an earlier one.                            *)
RawInv ==
  /\ pc \in {"saved", "decode"} => bin[cmd.out] = raw
  /\ pc \in {"idle", "connect", "push"} => raw = {}
FileInv ==
  /\ PagesKept /\ DerivedFromBin /\ RawInv
  /\ pc \in {"connect", "push", "download"} => bin[cmd.out] = {}
  /\ \A o \in Path : bin[o] # {} => o \in written

(* A command that exits with 0 has all it captured in its .bin, and the    *)
(* key it generated in its key file: whatever was not decoded, played or   *)
(* uploaded can be so later.  More than that exit code 0 does not mean.    *)
SuccessStep ==
  pc # "idle" /\ pc' = "idle" /\ rc' = 0 =>
    /\ bin'[cmd.out] = raw
    /\ cmd.key = "push" => keyFile'[cmd.out] = keyset /\ keyset # NoKey
SuccessMeansSaved == [][SuccessStep]_vars

(* "Also POST the captured .bin to this ingest URL after capture           *)
(* completes": a command given --upload that exits with 0 has done so.     *)
UploadStep ==
  pc # "idle" /\ pc' = "idle" /\ rc' = 0 /\ cmd.upload => raw \subseteq server'
UploadHappens == [][UploadStep]_vars
=============================================================================
