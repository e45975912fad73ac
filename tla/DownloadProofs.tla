--------------------------- MODULE DownloadProofs ---------------------------
(***************************************************************************)
(* Theorems about Download, for every MaxPage, InboxCap and set of Faults. *)
(***************************************************************************)
EXTENDS Download, ChannelLemmas, TLAPS

USE BoundsAssumption

(* The empty channels.                                                     *)
LEMMA EmptyChannels == <<>> \in Seq(Command) /\ <<>> \in Seq(Message)
  BY EmptySeq

(* Every reachable state is well typed.                                    *)
THEOREM TypeCorrect == Spec => []TypeOK
<1>1. Init => TypeOK
  <2> SUFFICES ASSUME Init PROVE TypeOK
    OBVIOUS
  <2>1. recorded \in 0..MaxPage /\ flash \subseteq 1..recorded /\ cursor \in 0..(MaxPage + 1)
    BY DEF Init
  <2>2. cmds \in Seq(Command) /\ inbox \in Seq(Message)
    BY EmptyChannels DEF Init
  <2>3. pc \in Await /\ page \in Message /\ (pc = "ack" => page # Other)
    BY DEF Init, Await, Message
  <2> QED
    BY <2>1, <2>2, <2>3 DEF Init, TypeOK
<1>2. TypeOK /\ [Next]_vars => TypeOK'
  <2> SUFFICES ASSUME TypeOK, [Next]_vars PROVE TypeOK'
    OBVIOUS
  <2> USE DEF TypeOK, device, host, Await
  <2>1. CASE DeviceRecord
    BY <2>1 DEF DeviceRecord
  <2>2. CASE DeviceHandle
    <3>1. Tail(cmds) \in Seq(Command)
      BY <2>2, TailFacts DEF DeviceHandle
    <3>2. UNCHANGED <<recorded, link, host, bin, taken>>
      BY <2>2 DEF DeviceHandle
    <3>3. streaming' \in BOOLEAN /\ cursor' \in {cursor, 1} /\ cmds' = Tail(cmds)
      BY <2>2 DEF DeviceHandle
    <3>4. flash' \subseteq flash
      BY <2>2 DEF DeviceHandle
    <3> QED
      BY <3>1, <3>2, <3>3, <3>4
  <2>3. CASE NotifyPage
    <3>1. /\ UNCHANGED <<recorded, flash, streaming, link, cmds, pc, page, raw, bin, taken>>
          /\ \E p \in flash : cursor' = p + 1 /\ inbox' \in {inbox, Append(inbox, p)}
      BY <2>3 DEF NotifyPage, Received
    <3>2. PICK p \in flash : cursor' = p + 1 /\ inbox' \in {inbox, Append(inbox, p)}
      BY <3>1
    <3>3. p \in 1..MaxPage /\ p \in Message
      BY BoundsAssumption DEF Message, Page
    <3>4. cursor' \in 0..(MaxPage + 1)
      BY <3>2, <3>3, BoundsAssumption
    <3>5. inbox' \in Seq(Message)
      BY <3>2, <3>3
    <3> QED
      BY <3>1, <3>4, <3>5
  <2>4. CASE NotifyOther
    BY <2>4 DEF NotifyOther, Message
  <2>5. CASE LinkDrop
    BY <2>5, EmptyChannels DEF LinkDrop
  <2>6. CASE Connect
    BY <2>6 DEF Connect
  <2>7. CASE BeginBatchDownload
    <3>1. BeginBatch \in Command
      BY DEF Command
    <3>2. UNCHANGED <<device, link, inbox, page, raw, bin, taken>> /\ pc' \in {"get", "write"}
      BY <2>7 DEF BeginBatchDownload
    <3>3. cmds' \in Seq(Command)
      BY <2>7, <3>1 DEF BeginBatchDownload, Send, SendFails
    <3> QED
      BY <3>2, <3>3
  <2>8. CASE Get
    <3>1. /\ UNCHANGED <<device, link, cmds, bin>> /\ inbox # <<>> /\ inbox' = Tail(inbox)
          /\ page' = Head(inbox)
          /\ raw' = raw \cup ({Head(inbox)} \ {Other})
          /\ taken' = taken \cup ({Head(inbox)} \ {Other})
          /\ pc' \in Await /\ (pc' = "ack" => Head(inbox) # Other)
      BY <2>8 DEF Get
    <3>2. Head(inbox) \in Message /\ Tail(inbox) \in Seq(Message)
      BY <3>1, TailFacts
    <3>3. {Head(inbox)} \ {Other} \subseteq Page
      BY <3>2 DEF Message
    <3> QED
      BY <3>1, <3>2, <3>3
  <2>9. CASE IdleTimeout
    BY <2>9 DEF IdleTimeout
  <2>10. CASE DeleteFlashPage
    <3>1. Delete(page) \in Command
      BY <2>10 DEF DeleteFlashPage, Command, Message
    <3>2. UNCHANGED <<device, link, inbox, page, raw, bin, taken>> /\ pc' = "get"
      BY <2>10 DEF DeleteFlashPage
    <3>3. cmds' \in Seq(Command)
      BY <2>10, <3>1 DEF DeleteFlashPage, Send, SendFails
    <3> QED
      BY <3>2, <3>3
  <2>11. CASE StopBatchDownload
    <3>1. StopBatch \in Command
      BY DEF Command
    <3>2. UNCHANGED <<device, link, inbox, page, raw, bin, taken>> /\ pc' = "write"
      BY <2>11 DEF StopBatchDownload
    <3>3. cmds' \in Seq(Command)
      BY <2>11, <3>1 DEF StopBatchDownload, Send, SendFails
    <3> QED
      BY <3>2, <3>3
  <2>12. CASE WriteBin
    BY <2>12 DEF WriteBin
  <2>13. CASE Exit \/ Kill
    <3>1. /\ pc' = "idle" /\ inbox' = <<>> /\ page' = Other /\ raw' = {}
          /\ link' = FALSE /\ streaming' = FALSE /\ cmds' = <<>> /\ cursor' = 0
          /\ UNCHANGED <<recorded, flash, bin, taken>>
      BY <2>13 DEF Exit, Kill, ProcessGone
    <3>2. cmds' \in Seq(Command) /\ inbox' \in Seq(Message)
      BY <3>1, EmptyChannels
    <3>3. cursor' \in 0..(MaxPage + 1) /\ page' \in Message
      BY <3>1 DEF Message
    <3> QED
      BY <3>1, <3>2, <3>3
  <2>14. CASE Interrupt
    BY <2>14 DEF Interrupt
  <2>15. CASE UNCHANGED vars
    BY <2>15 DEF vars
  <2> QED
    BY <2>1, <2>2, <2>3, <2>4, <2>5, <2>6, <2>7, <2>8, <2>9, <2>10, <2>11,
       <2>12, <2>13, <2>14, <2>15 DEF Next, HostStep
<1> QED
  BY <1>1, <1>2, PTL DEF Spec

-----------------------------------------------------------------------------
(* The steps that disturb CustodyInv, one lemma each.                      *)

USE DEF Elements

(* A page sent while the link is lossless joins the inbox behind all that  *)
(* this run has streamed, and closes the gap the cursor would leave.       *)
LEMMA NotifyPageStep ==
  ASSUME TypeOK, CustodyInv, NotifyPage, "lossy" \notin Faults
  PROVE  CustodyInv'
<1>1. PICK p \in flash : NextPage(p) /\ cursor' = p + 1 /\ inbox' = Append(inbox, p)
  BY DEF NotifyPage, Received
<1>2. UNCHANGED <<recorded, flash, streaming, link, cmds, pc, page, raw, bin, taken>>
  BY DEF NotifyPage
<1>3. /\ p \in Nat /\ p >= cursor /\ p <= recorded /\ p # Other
      /\ cursor \in Nat /\ recorded \in Nat
      /\ \A q \in flash : q \in Nat /\ (q >= cursor => p <= q)
  BY <1>1 DEF NextPage, TypeOK, Other
<1>4. /\ Len(inbox) \in Nat /\ DOMAIN inbox = 1..Len(inbox)
      /\ DOMAIN inbox' = 1..(Len(inbox) + 1)
      /\ \A i \in 1..Len(inbox) : inbox'[i] = inbox[i]
      /\ inbox'[Len(inbox) + 1] = p
  <2>1. inbox \in Seq(Message) /\ p \in Message
    BY DEF TypeOK, Message, Page
  <2> QED
    BY <1>1, <2>1, AppendFacts
<1>5. streaming /\ cursor # 0
  BY DEF NotifyPage, CustodyInv, FreshRun, TypeOK
<1>6. FreshRun'
  <2>1. pc \notin {"idle", "begin"} /\ \A i \in DOMAIN cmds : cmds[i].op # "begin"
    BY <1>5 DEF CustodyInv, FreshRun
  <2>2. cursor' # 0
    BY <1>1, <1>3
  <2> QED
    BY <1>2, <2>1, <2>2 DEF FreshRun
<1>7. BelowCursor'
  BY <1>1, <1>2, <1>3, <1>4 DEF CustodyInv, BelowCursor, TypeOK, Message, Page, Other
<1>8. Ledger' /\ AckCoversTaken' /\ TakenBeforeFreed'
  BY <1>2 DEF CustodyInv, Ledger, AckCoversTaken, TakenBeforeFreed
<1>9. NoGapInRun'
  <2>1. Elements(inbox') = Elements(inbox) \cup {p}
    BY <1>4
  <2>2. \A q \in flash : q < cursor' => q < cursor \/ q = p
    BY <1>1, <1>3
  <2> HIDE DEF Elements
  <2> QED
    BY <1>2, <2>1, <2>2 DEF CustodyInv, NoGapInRun
<1>10. AscendingCapture'
  <2>1. ASSUME NEW i \in DOMAIN inbox', NEW j \in DOMAIN inbox', i < j,
               inbox'[i] # Other, inbox'[j] # Other
        PROVE  inbox'[i] < inbox'[j]
    <3>1. i \in DOMAIN inbox /\ inbox'[i] = inbox[i]
      BY <1>4, <2>1
    <3>2. CASE j \in DOMAIN inbox
      BY <1>4, <2>1, <3>1, <3>2 DEF CustodyInv, AscendingCapture
    <3>3. CASE j = Len(inbox) + 1
      <4>1. inbox'[j] = p /\ inbox[i] < cursor
        BY <1>4, <2>1, <3>1, <3>3 DEF CustodyInv, BelowCursor
      <4>2. inbox[i] \in Nat
        BY <3>1 DEF TypeOK, Message, Page, Other
      <4> QED
        BY <1>3, <3>1, <4>1, <4>2
    <3> QED
      BY <1>4, <3>2, <3>3
  <2>2. ASSUME NEW q \in raw', NEW i \in DOMAIN inbox', inbox'[i] # Other
        PROVE  q < inbox'[i]
    <3>1. q \in raw /\ q \in Nat /\ q < cursor
      BY <1>2 DEF CustodyInv, BelowCursor, TypeOK, Page
    <3>2. CASE i \in DOMAIN inbox
      BY <1>4, <2>2, <3>1, <3>2 DEF CustodyInv, AscendingCapture
    <3>3. CASE i = Len(inbox) + 1
      BY <1>3, <1>4, <3>1, <3>3
    <3> QED
      BY <1>4, <3>2, <3>3
  <2> QED
    BY <2>1, <2>2 DEF AscendingCapture
<1> QED
  BY <1>6, <1>7, <1>8, <1>9, <1>10 DEF CustodyInv

(* The oldest queued page moves to raw_messages: what stays queued is      *)
(* newer, so the run still has no gap below it.                            *)
LEMMA GetStep ==
  ASSUME TypeOK, CustodyInv, Get
  PROVE  CustodyInv'
<1> DEFINE m == Head(inbox)
<1>1. /\ UNCHANGED <<recorded, flash, streaming, cursor, link, cmds, bin>>
      /\ inbox # <<>> /\ inbox' = Tail(inbox) /\ page' = m
      /\ raw' = raw \cup ({m} \ {Other}) /\ taken' = taken \cup ({m} \ {Other})
      /\ pc = "get" /\ pc' \in {"get", "ack", "stop", "write"}
      /\ pc' = "ack" => m # Other
  BY DEF Get, device
<1>2. /\ Len(inbox) \in Nat /\ DOMAIN inbox = 1..Len(inbox) /\ Len(inbox) >= 1
      /\ m = inbox[1] /\ m \in Message
      /\ DOMAIN inbox' = 1..(Len(inbox) - 1)
      /\ \A i \in 1..(Len(inbox) - 1) : inbox'[i] = inbox[i + 1]
  <2>1. inbox \in Seq(Message)
    BY DEF TypeOK
  <2> QED
    BY <1>1, <2>1, TailFacts
<1>3. FreshRun'
  BY <1>1 DEF CustodyInv, FreshRun
<1>4. BelowCursor'
  BY <1>1, <1>2 DEF CustodyInv, BelowCursor
<1>5. Ledger'
  <2>1. m # Other => m \in 1..recorded
    <3>1. m # Other => m \in Nat /\ m > 0
      BY <1>2 DEF Message, Page, Other
    <3>2. cursor \in Nat /\ recorded \in Nat /\ cursor <= recorded + 1
      BY DEF CustodyInv, BelowCursor, TypeOK
    <3>3. 1 \in DOMAIN inbox /\ m = inbox[1]
      BY <1>2
    <3>4. m # Other => m < cursor
      BY <3>3 DEF CustodyInv, BelowCursor
    <3> HIDE DEF m
    <3> QED
      BY <3>1, <3>2, <3>4
  <2> HIDE DEF m
  <2> QED
    BY <1>1, <2>1 DEF CustodyInv, Ledger
<1>6. AckCoversTaken' /\ TakenBeforeFreed'
  BY <1>1 DEF CustodyInv, AckCoversTaken, TakenBeforeFreed
<1>7. NoGapInRun'
  <2>1. Elements(inbox) \subseteq Elements(inbox') \cup {m}
    <3> SUFFICES ASSUME NEW i \in DOMAIN inbox, inbox[i] # m
                 PROVE  \E j \in DOMAIN inbox' : inbox'[j] = inbox[i]
      OBVIOUS
    <3>1. i \in 2..Len(inbox)
      BY <1>2
    <3>2. i - 1 \in DOMAIN inbox' /\ inbox'[i - 1] = inbox[i]
      BY <1>2, <3>1
    <3> QED
      BY <3>2
  <2>2. Other \notin flash
    BY DEF TypeOK, Other
  <2> HIDE DEF Elements, m
  <2> QED
    BY <1>1, <2>1, <2>2 DEF CustodyInv, NoGapInRun
<1>8. AscendingCapture'
  <2>1. ASSUME NEW i \in DOMAIN inbox', NEW j \in DOMAIN inbox', i < j,
               inbox'[i] # Other, inbox'[j] # Other
        PROVE  inbox'[i] < inbox'[j]
    <3>1. i + 1 \in DOMAIN inbox /\ j + 1 \in DOMAIN inbox /\ i + 1 < j + 1
      BY <1>2, <2>1
    <3> QED
      BY <1>2, <2>1, <3>1 DEF CustodyInv, AscendingCapture
  <2>2. ASSUME NEW q \in raw', NEW i \in DOMAIN inbox', inbox'[i] # Other
        PROVE  q < inbox'[i]
    <3>1. i + 1 \in DOMAIN inbox /\ 1 \in DOMAIN inbox /\ 1 < i + 1 /\ inbox'[i] = inbox[i + 1]
      BY <1>2, <2>2
    <3>2. q \in raw \/ (q = inbox[1] /\ inbox[1] # Other)
      BY <1>1, <1>2
    <3> QED
      BY <2>2, <3>1, <3>2 DEF CustodyInv, AscendingCapture
  <2> QED
    BY <2>1, <2>2 DEF AscendingCapture
<1> QED
  BY <1>3, <1>4, <1>5, <1>6, <1>7, <1>8 DEF CustodyInv

(* Handling a delete frees only what it covers, and all of that was taken; *)
(* handling a begin starts a run nothing of which has been streamed.       *)
LEMMA DeviceHandleStep ==
  ASSUME TypeOK, CustodyInv, DeviceHandle
  PROVE  CustodyInv'
<1> DEFINE c == Head(cmds)
<1>1. /\ UNCHANGED <<recorded, link, pc, inbox, page, raw, bin, taken>>
      /\ cmds # <<>> /\ cmds' = Tail(cmds)
  BY DEF DeviceHandle, host
<1>2. /\ Len(cmds) \in Nat /\ DOMAIN cmds = 1..Len(cmds) /\ Len(cmds) >= 1
      /\ c = cmds[1]
      /\ DOMAIN cmds' = 1..(Len(cmds) - 1)
      /\ \A i \in 1..(Len(cmds) - 1) : cmds'[i] = cmds[i + 1]
  <2>1. cmds \in Seq(Command)
    BY DEF TypeOK
  <2> QED
    BY <1>1, <2>1, TailFacts
<1>3. \A i \in DOMAIN cmds' : i + 1 \in DOMAIN cmds /\ i + 1 # 1 /\ cmds'[i] = cmds[i + 1]
  BY <1>2
<1>4. 1 \in DOMAIN cmds
  BY <1>2
<1>5. pc \notin {"idle", "begin"}
  BY <1>1 DEF CustodyInv, FreshRun
<1>6. \A i \in DOMAIN cmds' : cmds'[i].op # "begin"
  BY <1>3 DEF CustodyInv, FreshRun
<1>7. CASE c.op = "delete"
  <2>1. flash' = {p \in flash : p > c.index} /\ UNCHANGED <<streaming, cursor>>
    BY <1>7 DEF DeviceHandle
  <2>2. {p \in flash : p <= c.index} \subseteq taken
    BY <1>2, <1>4, <1>7 DEF CustodyInv, AckCoversTaken
  <2>3. \A p \in flash : p > c.index \/ p <= c.index
    <3>1. c \in Command
      BY <1>2, <1>4, LenProperties, ElementOfSeq DEF TypeOK
    <3>2. c.index \in Nat
      BY <3>1 DEF Command, BeginBatch, StopBatch, Delete, Page
    <3> QED
      BY <3>2 DEF TypeOK
  <2>4. flash' \subseteq flash
    BY <2>1
  <2>5. TakenBeforeFreed'
    BY <1>1, <2>1, <2>2, <2>3 DEF CustodyInv, TakenBeforeFreed
  <2>6. FreshRun'
    BY <1>1, <1>5, <1>6, <2>1 DEF CustodyInv, FreshRun
  <2>7. AckCoversTaken'
    BY <1>1, <1>3, <2>4 DEF CustodyInv, AckCoversTaken
  <2>8. BelowCursor'
    BY <1>1, <1>3, <2>1 DEF CustodyInv, BelowCursor
  <2>9. NoGapInRun'
    BY <1>1, <2>1, <2>4 DEF CustodyInv, NoGapInRun
  <2> QED
    BY <1>1, <2>5, <2>6, <2>7, <2>8, <2>9 DEF CustodyInv, Ledger, AscendingCapture
<1>8. CASE c.op = "stop"
  <2>1. streaming' = FALSE /\ UNCHANGED <<flash, cursor>>
    BY <1>8 DEF DeviceHandle
  <2>2. FreshRun'
    BY <1>1, <1>5, <1>6, <2>1 DEF CustodyInv, FreshRun
  <2>3. AckCoversTaken' /\ BelowCursor'
    BY <1>1, <1>3, <2>1 DEF CustodyInv, AckCoversTaken, BelowCursor
  <2> QED
    BY <1>1, <2>1, <2>2, <2>3
       DEF CustodyInv, Ledger, AscendingCapture, NoGapInRun, TakenBeforeFreed
<1>9. CASE c.op = "begin"
  <2>1. streaming' = TRUE /\ cursor' = 1 /\ UNCHANGED flash
    BY <1>9 DEF DeviceHandle
  <2>2. cursor = 0
    BY <1>2, <1>4, <1>9 DEF CustodyInv, FreshRun
  <2>3. FreshRun'
    BY <1>1, <1>5, <1>6, <2>1 DEF CustodyInv, FreshRun
  <2>4. AckCoversTaken'
    BY <1>1, <1>3, <2>1 DEF CustodyInv, AckCoversTaken
  <2>5. raw = {} /\ \A i \in DOMAIN inbox : inbox[i] = Other
    <3>1. raw \subseteq Nat
      BY DEF TypeOK, Page
    <3>2. \A i \in DOMAIN inbox : inbox[i] \in Nat
      BY LenProperties, ElementOfSeq DEF TypeOK, Message, Page, Other
    <3> QED
      BY <2>2, <3>1, <3>2 DEF CustodyInv, BelowCursor
  <2>6. BelowCursor' /\ NoGapInRun' /\ AscendingCapture'
    <3>1. recorded \in Nat /\ \A p \in flash : p \in Nat /\ p >= 1
      BY DEF TypeOK
    <3> QED
      BY <1>1, <1>3, <2>1, <2>5, <3>1
         DEF CustodyInv, BelowCursor, NoGapInRun, AscendingCapture
  <2> QED
    BY <1>1, <2>1, <2>3, <2>4, <2>6 DEF CustodyInv, Ledger, TakenBeforeFreed
<1> QED
  BY <1>7, <1>8, <1>9 DEF DeviceHandle

(* The delete the host sends for the page just taken: every stored page up *)
(* to it is below the cursor, so in raw_messages or queued, and what is    *)
(* queued is newer.                                                        *)
LEMMA DeleteFlashPageStep ==
  ASSUME TypeOK, CustodyInv, DeleteFlashPage
  PROVE  CustodyInv'
<1>1. /\ UNCHANGED <<recorded, flash, streaming, cursor, link, inbox, page, raw, bin, taken>>
      /\ pc = "ack" /\ pc' = "get"
      /\ cmds' = Append(cmds, Delete(page)) \/ cmds' = cmds
  BY DEF DeleteFlashPage, Send, SendFails, device
<1>2. page \in raw /\ page < cursor /\ cursor <= recorded + 1 /\ page \in Page
  BY <1>1 DEF CustodyInv, Ledger, BelowCursor, TypeOK
<1>3. {p \in flash : p <= page} \subseteq taken
  <2> SUFFICES ASSUME NEW p \in flash, p <= page PROVE p \in taken
    OBVIOUS
  <2>1. p < cursor /\ p # Other
    BY <1>2 DEF TypeOK, Other, Page
  <2>2. p \notin Elements(inbox)
    <3>1. \A i \in DOMAIN inbox : inbox[i] # Other => page < inbox[i]
      BY <1>2 DEF CustodyInv, AscendingCapture
    <3> QED
      BY <2>1, <3>1, <1>2 DEF TypeOK, Page
  <2> QED
    BY <2>1, <2>2 DEF CustodyInv, NoGapInRun, Ledger
<1>4. \A i \in DOMAIN cmds' : (i \in DOMAIN cmds /\ cmds'[i] = cmds[i]) \/ cmds'[i] = Delete(page)
  <2>1. cmds \in Seq(Command) /\ Delete(page) \in Command
    BY <1>2 DEF TypeOK, Command
  <2> QED
    BY <1>1, <2>1, AppendFacts
<1>5. FreshRun'
  BY <1>1, <1>4 DEF CustodyInv, FreshRun, Delete
<1>6. BelowCursor'
  <2>1. page <= recorded
    BY <1>2 DEF TypeOK, Page
  <2> QED
    BY <1>1, <1>4, <2>1 DEF CustodyInv, BelowCursor, Delete
<1>7. AckCoversTaken'
  BY <1>1, <1>3, <1>4 DEF CustodyInv, AckCoversTaken, Delete
<1> QED
  BY <1>1, <1>5, <1>6, <1>7
     DEF CustodyInv, Ledger, NoGapInRun, AscendingCapture, TakenBeforeFreed

(* Begin and stop put a command behind the ones on their way.              *)
LEMMA BatchCommandStep ==
  ASSUME TypeOK, CustodyInv, BeginBatchDownload \/ StopBatchDownload
  PROVE  CustodyInv'
<1>1. /\ UNCHANGED <<recorded, flash, streaming, cursor, link, inbox, page, raw, bin, taken>>
      /\ pc' \in {"get", "write"}
  BY DEF BeginBatchDownload, StopBatchDownload, device
<1>2. \A i \in DOMAIN cmds' :
        \/ i \in DOMAIN cmds /\ cmds'[i] = cmds[i]
        \/ cmds'[i] = StopBatch
        \/ cmds'[i] = BeginBatch /\ i = 1 /\ cursor = 0
  <2>1. cmds \in Seq(Command) /\ BeginBatch \in Command /\ StopBatch \in Command
    BY DEF TypeOK, Command
  <2>2. CASE BeginBatchDownload
    <3>1. cmds = <<>> /\ cursor = 0
      BY <2>2 DEF BeginBatchDownload, CustodyInv, FreshRun
    <3>2. Len(cmds) = 0
      BY <3>1
    <3> QED
      BY <2>1, <2>2, <3>1, <3>2, AppendFacts DEF BeginBatchDownload, Send, SendFails
  <2>3. CASE StopBatchDownload
    BY <2>1, <2>3, AppendFacts DEF StopBatchDownload, Send, SendFails
  <2> QED
    BY <2>2, <2>3
<1>3. FreshRun'
  BY <1>1, <1>2 DEF CustodyInv, FreshRun, StopBatch, BeginBatch
<1>4. BelowCursor' /\ AckCoversTaken'
  BY <1>1, <1>2 DEF CustodyInv, BelowCursor, AckCoversTaken, StopBatch, BeginBatch
<1> QED
  BY <1>1, <1>3, <1>4
     DEF CustodyInv, Ledger, NoGapInRun, AscendingCapture, TakenBeforeFreed

(* A new page is past the cursor and past every delete on its way.         *)
LEMMA DeviceRecordStep ==
  ASSUME TypeOK, CustodyInv, DeviceRecord
  PROVE  CustodyInv'
<1>1. /\ UNCHANGED <<streaming, cursor, link, cmds, pc, inbox, page, raw, bin, taken>>
      /\ recorded' = recorded + 1 /\ flash' = flash \cup {recorded + 1}
  BY DEF DeviceRecord, host
<1>2. recorded \in Nat /\ cursor \in Nat /\ cursor <= recorded + 1
  BY DEF TypeOK, CustodyInv, BelowCursor
<1>3. FreshRun' /\ AscendingCapture'
  BY <1>1 DEF CustodyInv, FreshRun, AscendingCapture
<1>4. BelowCursor' /\ AckCoversTaken'
  <2>1. \A i \in DOMAIN cmds : cmds[i].op = "delete" => cmds[i].index \in Nat
    BY LenProperties, ElementOfSeq
       DEF TypeOK, Command, BeginBatch, StopBatch, Delete, Page
  <2>2. BelowCursor'
    BY <1>1, <1>2, <2>1 DEF CustodyInv, BelowCursor
  <2>3. AckCoversTaken'
    BY <1>1, <1>2, <2>1 DEF CustodyInv, BelowCursor, AckCoversTaken
  <2> QED
    BY <2>2, <2>3
<1>5. NoGapInRun'
  BY <1>1, <1>2 DEF CustodyInv, NoGapInRun
<1>6. TakenBeforeFreed'
  <2>1. 1..(recorded + 1) = 1..recorded \cup {recorded + 1}
    BY <1>2
  <2> QED
    BY <1>1, <2>1 DEF CustodyInv, TakenBeforeFreed
<1>7. Ledger'
  BY <1>1, <1>2 DEF CustodyInv, Ledger
<1> QED
  BY <1>3, <1>4, <1>5, <1>6, <1>7 DEF CustodyInv

(* The link or the process goes away, and what was in flight with it.      *)
LEMMA LossStep ==
  ASSUME TypeOK, CustodyInv, LinkDrop \/ Exit \/ Kill
  PROVE  CustodyInv'
<1>1. CASE LinkDrop
  BY <1>1 DEF LinkDrop, host, CustodyInv, FreshRun, BelowCursor, Ledger, NoGapInRun,
              AscendingCapture, AckCoversTaken, TakenBeforeFreed
<1>2. CASE Exit \/ Kill
  <2>1. /\ pc' = "idle" /\ inbox' = <<>> /\ raw' = {}
        /\ streaming' = FALSE /\ cmds' = <<>> /\ cursor' = 0
        /\ UNCHANGED <<recorded, flash, bin, taken>>
    BY <1>2 DEF Exit, Kill, ProcessGone
  <2>2. recorded \in Nat /\ \A p \in flash : p \in Nat
    BY DEF TypeOK
  <2>3. FreshRun' /\ Ledger' /\ AscendingCapture' /\ AckCoversTaken' /\ TakenBeforeFreed'
    BY <2>1 DEF CustodyInv, FreshRun, Ledger, AscendingCapture, AckCoversTaken, TakenBeforeFreed
  <2>4. BelowCursor' /\ NoGapInRun'
    BY <2>1, <2>2 DEF BelowCursor, NoGapInRun
  <2> QED
    BY <2>3, <2>4 DEF CustodyInv
<1> QED
  BY <1>1, <1>2

(* Where no notification of a page is lost between the radio and the       *)
(* inbox, every step preserves CustodyInv.                                 *)
LEMMA CustodyStep ==
  ASSUME "lossy" \notin Faults, TypeOK, CustodyInv, [Next]_vars
  PROVE  CustodyInv'
<1>1. CASE NotifyPage
  BY <1>1, NotifyPageStep
<1>2. CASE Get
  BY <1>2, GetStep
<1>3. CASE DeviceHandle
  BY <1>3, DeviceHandleStep
<1>4. CASE DeleteFlashPage
  BY <1>4, DeleteFlashPageStep
<1>5. CASE BeginBatchDownload \/ StopBatchDownload
  BY <1>5, BatchCommandStep
<1>6. CASE DeviceRecord
  BY <1>6, DeviceRecordStep
<1>7. CASE LinkDrop \/ Exit \/ Kill
  BY <1>7, LossStep
<1>8. CASE NotifyOther
  <2>1. /\ UNCHANGED <<recorded, flash, streaming, cursor, link, cmds, pc, page, raw, bin, taken>>
        /\ inbox' = Append(inbox, Other)
    BY <1>8 DEF NotifyOther, device
  <2>2. /\ Len(inbox) \in Nat /\ DOMAIN inbox = 1..Len(inbox)
        /\ DOMAIN inbox' = 1..(Len(inbox) + 1)
        /\ \A i \in 1..Len(inbox) : inbox'[i] = inbox[i]
        /\ inbox'[Len(inbox) + 1] = Other
    <3>1. inbox \in Seq(Message) /\ Other \in Message
      BY DEF TypeOK, Message
    <3> QED
      BY <2>1, <3>1, AppendFacts
  <2>3. FreshRun' /\ Ledger' /\ AckCoversTaken' /\ TakenBeforeFreed'
    BY <2>1 DEF CustodyInv, FreshRun, Ledger, AckCoversTaken, TakenBeforeFreed
  <2>4. BelowCursor' /\ AscendingCapture'
    BY <2>1, <2>2 DEF CustodyInv, BelowCursor, AscendingCapture
  <2>5. NoGapInRun'
    <3>1. Elements(inbox) \subseteq Elements(inbox')
      BY <2>2
    <3> HIDE DEF Elements
    <3> QED
      BY <2>1, <3>1 DEF CustodyInv, NoGapInRun
  <2> QED
    BY <2>3, <2>4, <2>5 DEF CustodyInv
<1>9. CASE Connect \/ IdleTimeout \/ Interrupt \/ WriteBin \/ UNCHANGED vars
  <2>1. UNCHANGED <<recorded, flash, streaming, cursor, cmds, inbox, page, raw, taken>>
    BY <1>9 DEF Connect, IdleTimeout, Interrupt, WriteBin, device, vars
  <2>2. /\ pc' \in {"idle", "begin"} => pc \in {"idle", "begin"}
        /\ pc' = "ack" => pc = "ack"
        /\ bin' \subseteq bin \cup raw
    BY <1>9 DEF Connect, IdleTimeout, Interrupt, WriteBin, vars
  <2> QED
    BY <2>1, <2>2 DEF CustodyInv, FreshRun, BelowCursor, Ledger, NoGapInRun,
                      AscendingCapture, AckCoversTaken, TakenBeforeFreed
<1> QED
  BY <1>1, <1>2, <1>3, <1>4, <1>5, <1>6, <1>7, <1>8, <1>9 DEF Next, HostStep

LEMMA CustodyInit == Init => CustodyInv
  BY DEF Init, CustodyInv, FreshRun, BelowCursor, Ledger, NoGapInRun,
         AscendingCapture, AckCoversTaken, TakenBeforeFreed

(* While no page notification is lost on the host, acks stay behind what   *)
(* was captured, through drops, kills and failed writes alike.             *)
THEOREM CustodyInvariant ==
  ASSUME "lossy" \notin Faults
  PROVE  Spec => []CustodyInv
<1>1. TypeOK /\ CustodyInv /\ [Next]_vars => CustodyInv'
  BY CustodyStep
<1> QED
  BY <1>1, CustodyInit, TypeCorrect, PTL DEF Spec

(* The cumulative delete never frees a page no run has taken.              *)
THEOREM FreedPagesWereTaken ==
  ASSUME "lossy" \notin Faults
  PROVE  Spec => [](TakenBeforeFreed /\ AckCoversTaken)
<1>1. CustodyInv => TakenBeforeFreed /\ AckCoversTaken
  BY DEF CustodyInv
<1> QED
  BY <1>1, CustodyInvariant, PTL

-----------------------------------------------------------------------------
(* Where nothing destroys what a run has taken, it stays held.             *)
Kept ==
  /\ taken \subseteq raw \cup bin
  /\ pc = "exit" => raw \subseteq bin

Careful == Faults \cap {"lossy", "kill", "write", "overwrite"} = {}

(* Interrupts and dropped links included, what was taken is in memory or   *)
(* in a .bin file.                                                         *)
LEMMA KeptStep ==
  ASSUME Careful, Kept, [Next]_vars
  PROVE  Kept'
<1> USE DEF Kept
<1>1. CASE Get
  BY <1>1 DEF Get
<1>2. CASE WriteBin
  BY <1>2 DEF WriteBin, Careful
<1>3. CASE Exit \/ Kill
  BY <1>3 DEF Exit, Kill, ProcessGone, Careful
<1>4. CASE DeviceRecord \/ DeviceHandle \/ NotifyPage \/ NotifyOther \/ LinkDrop
  BY <1>4 DEF DeviceRecord, DeviceHandle, NotifyPage, NotifyOther, LinkDrop, host
<1>5. CASE \/ Connect \/ BeginBatchDownload \/ IdleTimeout \/ DeleteFlashPage
           \/ StopBatchDownload \/ Interrupt
  BY <1>5 DEF Connect, BeginBatchDownload, IdleTimeout, DeleteFlashPage,
              StopBatchDownload, Interrupt
<1>6. CASE UNCHANGED vars
  BY <1>6 DEF vars
<1> QED
  BY <1>1, <1>2, <1>3, <1>4, <1>5, <1>6 DEF Next, HostStep

(* No page is lost: it is on the pendant, in the memory of the running     *)
(* process or in a .bin file.                                              *)
THEOREM NothingLost ==
  ASSUME Careful
  PROVE  Spec => []NoPageLost
<1>1. "lossy" \notin Faults
  BY DEF Careful
<1>2. Init => Kept
  BY DEF Init, Kept
<1>3. Kept /\ [Next]_vars => Kept'
  BY KeptStep
<1>4. Spec => []Kept
  BY <1>2, <1>3, PTL DEF Spec
<1>5. CustodyInv /\ Kept => NoPageLost
  BY DEF CustodyInv, TakenBeforeFreed, Kept, NoPageLost, Held
<1>6. Spec => []CustodyInv
  BY <1>1, CustodyInvariant
<1> QED
  BY <1>4, <1>5, <1>6, PTL

-----------------------------------------------------------------------------
(* Download implements PageCustody.                                        *)

USE DEF Page

LEMMA CustodyRefinementStep ==
  ASSUME TypeOK, CustodyInv, [Next]_vars
  PROVE  [Custody!Next]_<<flash, taken>>
<1> USE DEF Custody!Next, Custody!Record, Custody!Take, Custody!Free
<1>1. CASE DeviceRecord
  <2>1. flash' = flash \cup {recorded + 1} /\ taken' = taken /\ recorded < MaxPage
    BY <1>1 DEF DeviceRecord
  <2>2. recorded + 1 \in Page /\ recorded + 1 \notin flash \cup taken
    BY <2>1 DEF TypeOK, CustodyInv, Ledger
  <2> QED
    BY <2>1, <2>2
<1>2. CASE DeviceHandle
  <2>1. taken' = taken /\ cmds # <<>>
    BY <1>2 DEF DeviceHandle
  <2>2. CASE flash' = flash
    BY <2>1, <2>2
  <2>3. CASE Head(cmds).op = "delete" /\ flash' = {p \in flash : p > Head(cmds).index}
    <3> DEFINE freed == {p \in flash : ~(p > Head(cmds).index)}
    <3>1. cmds \in Seq(Command)
      BY DEF TypeOK
    <3>2. 1 \in DOMAIN cmds /\ Head(cmds) = cmds[1] /\ Head(cmds) \in Command
      BY <2>1, <3>1, TailFacts
    <3>3. Head(cmds).index \in Nat
      BY <3>2 DEF Command, BeginBatch, StopBatch, Delete
    <3>4. \A p \in flash : p \in Nat /\ p \in Page
      BY DEF TypeOK
    <3>5. \A p \in freed : p <= Head(cmds).index
      BY <3>3, <3>4
    <3>6. freed \subseteq taken
      BY <2>3, <3>2, <3>5 DEF CustodyInv, AckCoversTaken
    <3>7. freed \in SUBSET Page /\ flash' = flash \ freed
      BY <2>3, <3>4
    <3> HIDE DEF freed
    <3> QED
      BY <2>1, <3>6, <3>7
  <2> QED
    BY <1>2, <2>2, <2>3 DEF DeviceHandle
<1>3. CASE Get
  <2> DEFINE m == Head(inbox)
  <2>1. flash' = flash /\ taken' = taken \cup ({m} \ {Other}) /\ inbox # <<>>
    BY <1>3 DEF Get, device
  <2>2. m \in Message /\ 1 \in DOMAIN inbox /\ m = inbox[1]
    BY <2>1, TailFacts DEF TypeOK
  <2>3. m # Other => m \in 1..recorded
    BY <2>2 DEF CustodyInv, BelowCursor, TypeOK, Message
  <2>4. m # Other => m \in Page /\ m \in flash \cup taken
    BY <2>2, <2>3 DEF CustodyInv, TakenBeforeFreed, Message
  <2> HIDE DEF m
  <2> QED
    BY <2>1, <2>4
<1>4. CASE NotifyPage \/ NotifyOther \/ LinkDrop \/ Exit \/ Kill
  BY <1>4 DEF NotifyPage, NotifyOther, LinkDrop, Exit, Kill, ProcessGone, device
<1>5. CASE \/ Connect \/ BeginBatchDownload \/ IdleTimeout \/ DeleteFlashPage
           \/ StopBatchDownload \/ Interrupt \/ WriteBin
  BY <1>5 DEF Connect, BeginBatchDownload, IdleTimeout, DeleteFlashPage,
              StopBatchDownload, Interrupt, WriteBin, device
<1>6. CASE UNCHANGED vars
  BY <1>6 DEF vars
<1> QED
  BY <1>1, <1>2, <1>3, <1>4, <1>5, <1>6 DEF Next, HostStep

(* Every step of Download is a step of PageCustody, or leaves it alone.    *)
THEOREM RefinesCustody ==
  ASSUME "lossy" \notin Faults
  PROVE  Spec => ImplementsCustody
<1>1. Init => Custody!Init
  BY DEF Init, Custody!Init
<1>2. TypeOK /\ CustodyInv /\ [Next]_vars => [Custody!Next]_(Custody!vars)
  BY CustodyRefinementStep DEF Custody!vars
<1> QED
  BY <1>1, <1>2, TypeCorrect, CustodyInvariant, PTL
     DEF Spec, ImplementsCustody, Custody!Spec

(* With nothing destroyed, the copies the host holds are exactly those it  *)
(* took, so the same simulation shows that no copy ever goes away.         *)
THEOREM RefinesDurableCustody ==
  ASSUME Careful
  PROVE  Spec => ImplementsDurableCustody
<1>1. "lossy" \notin Faults
  BY DEF Careful
<1>2. Init => Durable!Init /\ Kept
  BY DEF Init, Durable!Init, Held, Kept
<1>3. Kept /\ [Next]_vars => Kept'
  BY KeptStep
<1>4. CustodyInv /\ Kept => Held = taken
  BY DEF CustodyInv, Ledger, Kept, Held
<1>5. ASSUME TypeOK, CustodyInv, CustodyInv', Kept, Kept', [Next]_vars
      PROVE  [Durable!Next]_(Durable!vars)
  <2>1. Held = taken /\ Held' = taken'
    BY <1>5 DEF CustodyInv, Ledger, Kept, Held
  <2>2. [Custody!Next]_<<flash, taken>>
    BY <1>5, CustodyRefinementStep
  <2> QED
    BY <2>1, <2>2 DEF Custody!Next, Custody!Record, Custody!Take, Custody!Free,
                      Durable!Next, Durable!Record, Durable!Take, Durable!Free,
                      Durable!vars
<1>6. Spec => []CustodyInv
  BY <1>1, CustodyInvariant
<1> QED
  BY <1>2, <1>3, <1>5, <1>6, TypeCorrect, PTL
     DEF Spec, ImplementsDurableCustody, Durable!Spec
=============================================================================
