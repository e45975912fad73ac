------------------------------ MODULE Download ------------------------------
(***************************************************************************)
(* `pendant sync` and `pendant capture`: draining the flash of a pendant   *)
(* over a BLE link that may drop at any moment, and freeing on the pendant *)
(* what has been captured.                                                 *)
(*                                                                         *)
(* One host process at a time runs                                         *)
(*   PendantSession.__aenter__  ->  download_raw_pendant_messages, whose   *)
(*   consumer keeps every payload in `raw_messages`  ->  the consumer's    *)
(*   `finally`, which writes the .bin  ->  PendantSession.__aexit__        *)
(* and `pc` says at which await that process stands.  Between two awaits   *)
(* an asyncio program runs alone, so each step below is the code from one  *)
(* await to the next.                                                      *)
(*                                                                         *)
(* The pendant's firmware is not in the repository.  Its actions (Device..) *)
(* are what the client's code relies on: batch mode streams the stored     *)
(* pages in ascending order starting from the oldest, DeleteFlashPage is   *)
(* cumulative, commands are handled in order, batch mode ends with the     *)
(* link, and commands the pendant had not handled then are lost.           *)
(***************************************************************************)
EXTENDS Integers, Sequences

CONSTANTS
  MaxPage,    \* bound: pages recorded over the whole behaviour
  InboxCap,   \* bound: a heartbeat arrives only while the inbox is shorter
  Faults      \* the mishaps that may occur

AllFaults ==
  {"chatter",     \* the pendant sends messages that are not flash pages
   "lossy",       \* a page's notification is undecodable and dropped
   "kill",        \* the host process dies (SIGKILL, power loss)
   "write",       \* writing the .bin fails (disk full)
   "overwrite"}   \* a run is given the -o path of the earlier runs

ASSUME BoundsAssumption == MaxPage \in Nat /\ InboxCap \in Nat
ASSUME FaultsAssumption == Faults \subseteq AllFaults

Page == 1..MaxPage
Other == 0                  \* an inbox entry that is not a storage_buffer
Message == Page \cup {Other}

VARIABLES
  \* the pendant
  recorded,   \* index of the newest page ever recorded, 0 if none
  flash,      \* pages stored
  streaming,  \* batch mode is on
  cursor,     \* pages from this index on have not been streamed in this run
  \* the link
  link,       \* connected, notifications subscribed
  cmds,       \* commands written by the host and not handled by the pendant
  \* the host process
  pc,         \* the await it stands at, "idle" when no process runs
  inbox,      \* PendantSession._inbox
  page,       \* index of the storage_buffer message just yielded
  raw,        \* pages in the consumer's raw_messages
  \* the host's disk
  bin,        \* pages in the .bin files
  \* history
  taken       \* every page that was ever in some run's raw_messages

device == <<recorded, flash, streaming, cursor>>
host == <<pc, inbox, page, raw>>
vars == <<recorded, flash, streaming, cursor, link, cmds, pc, inbox, page, raw, bin, taken>>

BeginBatch == [op |-> "begin", index |-> 0]
StopBatch == [op |-> "stop", index |-> 0]
Delete(i) == [op |-> "delete", index |-> i]
Command == {BeginBatch, StopBatch} \cup {Delete(i) : i \in Page}

Await == {"idle", "begin", "get", "ack", "stop", "write", "exit"}

Elements(s) == {s[i] : i \in DOMAIN s}

TypeOK ==
  /\ recorded \in 0..MaxPage
  /\ flash \subseteq 1..recorded
  /\ streaming \in BOOLEAN
  /\ cursor \in 0..(MaxPage + 1)
  /\ link \in BOOLEAN
  /\ cmds \in Seq(Command)
  /\ pc \in Await
  /\ inbox \in Seq(Message)
  /\ page \in Message /\ (pc = "ack" => page # Other)
  /\ raw \subseteq Page
  /\ bin \subseteq Page
  /\ taken \subseteq Page

Init ==
  /\ recorded = 0 /\ flash = {} /\ streaming = FALSE /\ cursor = 0
  /\ link = FALSE /\ cmds = <<>>
  /\ pc = "idle" /\ inbox = <<>> /\ page = Other /\ raw = {}
  /\ bin = {} /\ taken = {}

-----------------------------------------------------------------------------
(* The pendant.                                                            *)

DeviceRecord ==
  /\ recorded < MaxPage
  /\ recorded' = recorded + 1
  /\ flash' = flash \cup {recorded + 1}
  /\ UNCHANGED <<streaming, cursor, link, cmds, host, bin, taken>>

DeviceHandle ==
  /\ cmds # <<>>
  /\ cmds' = Tail(cmds)
  /\ LET c == Head(cmds) IN
       \/ /\ c.op = "begin"
          /\ streaming' = TRUE
          /\ cursor' = 1
          /\ UNCHANGED flash
       \/ /\ c.op = "stop"
          /\ streaming' = FALSE
          /\ UNCHANGED <<flash, cursor>>
       \/ /\ c.op = "delete"
          /\ flash' = {p \in flash : p > c.index}
          /\ UNCHANGED <<streaming, cursor>>
  /\ UNCHANGED <<recorded, link, host, bin, taken>>

NextPage(p) == p \in flash /\ p >= cursor /\ \A q \in flash : q >= cursor => p <= q

\* Plausible bug: a bounded inbox drops what finds it full.
ReceivedBounded(p) == {IF Len(inbox) < 2 THEN Append(inbox, p) ELSE inbox}

(* `_on_data`, `_dispatch` and `_on_inbound` run without an await and      *)
(* leave the message at the end of the inbox, or drop it where a fragment  *)
(* or the message cannot be decoded.                                       *)
Received(p) == {Append(inbox, p)} \cup (IF "lossy" \in Faults THEN {inbox} ELSE {})

(* The pendant notifies its next page.                                     *)
NotifyPage ==
  /\ link /\ streaming
  /\ \E p \in flash :
       /\ NextPage(p)
       /\ cursor' = p + 1
       /\ inbox' \in Received(p)
  /\ UNCHANGED <<recorded, flash, streaming, link, cmds, pc, page, raw, bin, taken>>

(* A heartbeat or status message nobody asked for goes to the same inbox.  *)
NotifyOther ==
  /\ "chatter" \in Faults
  /\ link /\ Len(inbox) < InboxCap
  /\ inbox' = Append(inbox, Other)
  /\ UNCHANGED <<device, link, cmds, pc, page, raw, bin, taken>>

(* The link ends, for whatever reason, and the pendant's batch mode with   *)
(* it.  The process keeps running and finds out at its next write.         *)
LinkDrop ==
  /\ link
  /\ link' = FALSE /\ streaming' = FALSE /\ cmds' = <<>>
  /\ UNCHANGED <<recorded, flash, cursor, host, bin, taken>>

-----------------------------------------------------------------------------
(* The host process.                                                       *)

Send(c) == link /\ cmds' = Append(cmds, c)

(* A write to the command characteristic that raises.  It may raise with   *)
(* the link up too, e.g. for insufficient authentication.                  *)
SendFails == UNCHANGED cmds

Connect ==
  /\ pc = "idle"
  /\ pc' = "begin" /\ link' = TRUE
  /\ UNCHANGED <<device, cmds, inbox, page, raw, bin, taken>>

(* begin_batch_download is outside the generator's try: when it raises, or *)
(* is interrupted, no stop is sent and the consumer's finally runs at once.*)
BeginBatchDownload ==
  /\ pc = "begin"
  /\ \/ Send(BeginBatch) /\ pc' = "get"
     \/ SendFails /\ pc' = "write"
     \/ Send(BeginBatch) /\ pc' = "write"
  /\ UNCHANGED <<device, link, inbox, page, raw, bin, taken>>

\* Plausible bug: a heartbeat is taken for a page.
GetTakesOther ==
  /\ pc = "get" /\ inbox # <<>>
  /\ inbox' = Tail(inbox)
  /\ page' = Head(inbox)
  /\ raw' = raw \cup {Head(inbox)} /\ taken' = taken \cup {Head(inbox)}
  /\ pc' = "ack"
  /\ UNCHANGED <<device, link, cmds, bin>>

\* Plausible bug: the inbox is a stack.
GetNewest ==
  /\ pc = "get" /\ inbox # <<>>
  /\ inbox' = SubSeq(inbox, 1, Len(inbox) - 1)
  /\ LET m == inbox[Len(inbox)] IN
       /\ page' = m
       /\ raw' = raw \cup ({m} \ {Other})
       /\ taken' = taken \cup ({m} \ {Other})
       /\ pc' = IF m = Other THEN "get" ELSE "ack"
  /\ UNCHANGED <<device, link, cmds, bin>>

(* inbox.get() returns a message, the generator yields its payload, the    *)
(* consumer appends it to raw_messages and the generator goes on to the    *)
(* ack if it was a page: no await in between.  The consumer's progress     *)
(* echo may raise, which abandons the generator: its finally runs when the *)
(* generator is finalized, or not at all.                                  *)
Get ==
  /\ pc = "get" /\ inbox # <<>>
  /\ inbox' = Tail(inbox)
  /\ LET m == Head(inbox) IN
       /\ page' = m
       /\ raw' = raw \cup ({m} \ {Other})
       /\ taken' = taken \cup ({m} \ {Other})
       /\ \/ pc' = IF m = Other THEN "get" ELSE "ack"
          \/ pc' \in {"stop", "write"}
  /\ UNCHANGED <<device, link, cmds, bin>>

\* Plausible bug: the idle timer runs only while connected.
IdleTimeoutConnected ==
  /\ pc = "get" /\ inbox = <<>> /\ link
  /\ pc' = "stop"
  /\ UNCHANGED <<device, link, cmds, inbox, page, raw, bin, taken>>

(* wait_for gives up on an inbox that stayed empty for idle_timeout.  A    *)
(* message that comes in while the timer fires stays in the inbox.         *)
IdleTimeout ==
  /\ pc = "get" /\ inbox = <<>>
  /\ pc' = "stop"
  /\ UNCHANGED <<device, link, cmds, inbox, page, raw, bin, taken>>

\* Plausible bug: the delete names the first page to keep.
DeleteFlashPageNext ==
  /\ pc = "ack"
  /\ Send(Delete(page + 1)) \/ SendFails
  /\ pc' = "get"
  /\ UNCHANGED <<device, link, inbox, page, raw, bin, taken>>

(* suppress_disconnect(delete_flash_page(index)): sent, or the error is    *)
(* swallowed whatever it was.                                              *)
DeleteFlashPage ==
  /\ pc = "ack"
  /\ Send(Delete(page)) \/ SendFails
  /\ pc' = "get"
  /\ UNCHANGED <<device, link, inbox, page, raw, bin, taken>>

(* The generator's finally.                                                *)
StopBatchDownload ==
  /\ pc = "stop"
  /\ Send(StopBatch) \/ SendFails
  /\ pc' = "write"
  /\ UNCHANGED <<device, link, inbox, page, raw, bin, taken>>

(* Ctrl+C cancels the main task at the await it stands at.  Suppressing    *)
(* disconnects does not suppress the cancellation.                         *)
Interrupt ==
  /\ \/ pc \in {"get", "ack"} /\ pc' = "stop"
     \/ pc = "stop" /\ pc' = "write"
  /\ UNCHANGED <<device, link, cmds, inbox, page, raw, bin, taken>>

\* Plausible bug: the .bin is written on the normal path only.
WriteBinIfConnected ==
  /\ pc = "write"
  /\ pc' = "exit"
  /\ bin' = IF link THEN bin \cup raw ELSE bin
  /\ UNCHANGED <<device, link, cmds, inbox, page, raw, taken>>

(* The consumer's finally: write_batch_ingest_request writes a temporary   *)
(* file and renames it, so the .bin is replaced completely or not at all.  *)
WriteBin ==
  /\ pc = "write"
  /\ pc' = "exit"
  /\ \/ bin' = bin \cup raw
     \/ "overwrite" \in Faults /\ bin' = raw
     \/ "write" \in Faults /\ UNCHANGED bin
  /\ UNCHANGED <<device, link, cmds, inbox, page, raw, taken>>

(* The process is gone, with the link and all it had in memory.            *)
ProcessGone ==
  /\ pc' = "idle" /\ inbox' = <<>> /\ page' = Other /\ raw' = {}
  /\ link' = FALSE /\ streaming' = FALSE /\ cmds' = <<>>
  /\ cursor' = 0
  /\ UNCHANGED <<recorded, flash, bin, taken>>

Exit == pc = "exit" /\ ProcessGone

Kill == "kill" \in Faults /\ pc # "idle" /\ ProcessGone

-----------------------------------------------------------------------------
HostStep == BeginBatchDownload \/ Get \/ IdleTimeout \/ DeleteFlashPage
              \/ StopBatchDownload \/ WriteBin \/ Exit

Next ==
  \/ DeviceRecord \/ DeviceHandle \/ NotifyPage \/ NotifyOther \/ LinkDrop
  \/ Connect \/ HostStep \/ Interrupt \/ Kill

Spec == Init /\ [][Next]_vars

(* The event loop runs whatever is ready and fires its timers.  The        *)
(* pendant, the link and the user need not do anything.                    *)
FairSpec == Spec /\ WF_vars(HostStep)

-----------------------------------------------------------------------------
(* Properties.                                                             *)

Held == raw \cup bin

(* Every page ever recorded is on the pendant, in the memory of the running *)
(* process or in a .bin file: acking in download_raw_pendant_messages,     *)
(* drops, interrupts and the consumer's finally together lose nothing.     *)
(* Meant for behaviours without a lossy link, a kill, a failed write or a  *)
(* reused output path.                                                     *)
NoPageLost == 1..recorded \subseteq flash \cup Held

(* The pendant frees a page only after some run had it in raw_messages,    *)
(* whatever becomes of the process and its files afterwards.               *)
TakenBeforeFreed == 1..recorded \subseteq flash \cup taken

(* A DeleteFlashPage frees every page up to its index, acked or not, so a  *)
(* delete on its way must not cover a page no run has taken: neither one   *)
(* still in the inbox nor one the pendant never sent.                      *)
AckCoversTaken ==
  \A i \in DOMAIN cmds :
    cmds[i].op = "delete" => {p \in flash : p <= cmds[i].index} \subseteq taken

(* Within one run the stored pages below the cursor are all in             *)
(* raw_messages or in the inbox: the capture has no gap.                   *)
NoGapInRun == {p \in flash : p < cursor} \subseteq raw \cup Elements(inbox)

(* Within one run pages are captured once and in ascending order: the      *)
(* inbox ascends, and all of it is newer than what raw_messages holds.     *)
AscendingCapture ==
  /\ \A i, j \in DOMAIN inbox :
       i < j /\ inbox[i] # Other /\ inbox[j] # Other => inbox[i] < inbox[j]
  /\ \A p \in raw, i \in DOMAIN inbox : inbox[i] # Other => p < inbox[i]

(* Every run of sync or capture ends, whatever happens to the link and at  *)
(* whatever await, unless messages keep coming in forever: each message of *)
(* any kind restarts the idle timer of download_raw_pendant_messages, so a *)
(* pendant that keeps sending heartbeats, or seals pages as fast as they   *)
(* are drained, keeps the run going.                                       *)
MessagesKeepComing == []<><<NotifyPage \/ NotifyOther>>_vars
RunEnds == MessagesKeepComing \/ ((pc # "idle") ~> (pc = "idle"))

(* The inductive strengthening the proofs use.  Before the pendant handles  *)
(* BeginBatch nothing of this run has been streamed; from then on the      *)
(* cursor bounds everything captured or queued.                            *)
FreshRun ==
  /\ pc \in {"idle", "begin"} => cmds = <<>> /\ cursor = 0
  /\ cursor = 0 => ~streaming
  /\ \A i \in DOMAIN cmds : cmds[i].op = "begin" => i = 1 /\ cursor = 0
BelowCursor ==
  /\ cursor <= recorded + 1
  /\ \A p \in raw : p < cursor
  /\ \A i \in DOMAIN inbox : inbox[i] # Other => inbox[i] < cursor
  /\ \A i \in DOMAIN cmds : cmds[i].op = "delete" => cmds[i].index <= recorded
Ledger ==
  /\ raw \cup bin \subseteq taken /\ taken \subseteq 1..recorded
  /\ pc = "ack" => page \in raw
CustodyInv ==
  /\ FreshRun /\ BelowCursor /\ Ledger
  /\ NoGapInRun /\ AscendingCapture /\ AckCoversTaken /\ TakenBeforeFreed

(* Download implements PageCustody: with the copies the host ever took as  *)
(* what is held, and, where nothing destroys a copy, with the copies it    *)
(* holds now.                                                              *)
Custody == INSTANCE PageCustody WITH stored <- flash, held <- taken
Durable == INSTANCE PageCustody WITH stored <- flash, held <- Held
ImplementsCustody == Custody!Spec
ImplementsDurableCustody == Durable!Spec
=============================================================================
