----------------------------- MODULE Connection -----------------------------
(***************************************************************************)
(* One command at a time over one BLE connection: PendantTransport and     *)
(* PendantSession entered and left around the body of the command, and the *)
(* exit code that is left of it.                                           *)
(*                                                                         *)
(* Every await may raise, and every await may be cancelled by Ctrl+C.  A   *)
(* body is the sequence of its awaits; each action is the code from one    *)
(* await to the next.  The link may drop at any time without the process   *)
(* being told, and outlives a process that does not disconnect.            *)
(***************************************************************************)
EXTENDS Integers, Sequences, FiniteSets

-----------------------------------------------------------------------------
(* The commands.                                                           *)

Resets == {"factory_reset", "reset"}
Command == Resets \cup {"info", "unpair", "set_time", "clear_storage", "debug", "inspect",
                        "capture", "sync", "enroll_voice", "pair"}
NoCommand == "none"

(* The awaits of each body, for its options.  A request is a write and the *)
(* wait for its answer; the pages of a download are one wait.              *)
Await == {"read", "write", "answer", "sleep", "get"}
OnewayBodies == {<<"write">>}
ResetBodies == {<<"write", "sleep">>}
InfoBodies == {<<"read", "write", "write", "answer">>, <<"read", "write", "answer">>}
DebugBodies == {<<"write", "sleep">>, <<"sleep">>}
InspectBodies == {<<"write", "write", "get">>}
CaptureBodies == {<<"write", "get">>}
SyncBodies == {<<"write", "answer", "write", "get">>,
               <<"write", "answer", "write", "write", "get">>}
EnrollBodies == {<<"write", "answer", "write", "get">>}

Bodies(c) ==
  CASE c \in {"unpair", "set_time", "clear_storage"} -> OnewayBodies
    [] c \in Resets -> ResetBodies
    [] c = "info" -> InfoBodies
    [] c = "debug" -> DebugBodies
    [] c = "inspect" -> InspectBodies
    [] c = "capture" -> CaptureBodies
    [] c = "sync" -> SyncBodies
    [] c = "enroll_voice" -> EnrollBodies
    [] c = "pair" -> {<<>>}

Body == UNION {Bodies(c) : c \in Command}

\* The commands that go on once their link is closed: they decode and upload.
GoingOn == {"sync", "enroll_voice"}

\* What may be in flight: nothing, any Exception but the next, a
\* PendantNotPairedError, a CancelledError.
Exc == {"none", "error", "notpaired", "cancelled"}

VARIABLES
  cmd,        \* the command running or last run
  pc,         \* the await at which it stands, "over" when it has exited
  body, at,   \* its body, and where it is in it
  exc,        \* the exception in flight
  respond,    \* _write_with_response
  notifying,  \* _notify_started
  rc,         \* its exit code
  inbox,      \* a message waits in PendantSession._inbox
  link,       \* the connection, as the pendant and the host's BLE stack hold it
  bond,       \* whom the pendant is bonded with
  sent,       \* history: the commands of this body that reached the pendant
  arrived,    \* history: the last write reached the pendant
  raised,     \* history: what was in flight when __aexit__ was called
  skipped     \* history: why the link may still be up after the exit

vars == <<cmd, pc, body, at, exc, respond, notifying, rc, inbox, link, bond, sent,
          arrived, raised, skipped>>

Entering == {"connect", "mtu", "settle", "bond", "notify"}

TypeOK ==
  /\ cmd \in Command \cup {NoCommand}
  /\ pc \in Entering \cup {"pair", "body", "stop", "stop_notify", "disconnect", "after", "over"}
  /\ body \in Body /\ at \in Nat \ {0} /\ (pc = "body" => at \in DOMAIN body)
  /\ exc \in Exc /\ raised \in Exc /\ rc \in 0..2
  /\ respond \in BOOLEAN /\ notifying \in BOOLEAN /\ link \in BOOLEAN /\ arrived \in BOOLEAN
  /\ inbox \in BOOLEAN
  /\ bond \in {"ours", "free", "other"}
  /\ sent \in Nat
  /\ skipped \subseteq {"enter", "interrupted", "stack"}

Init ==
  /\ cmd = NoCommand /\ pc = "over" /\ body = <<>> /\ at = 1
  /\ exc = "none" /\ respond = FALSE /\ notifying = FALSE /\ rc = 0
  /\ inbox = FALSE /\ link = FALSE /\ bond \in {"ours", "free", "other"}
  /\ sent = 0 /\ arrived = FALSE /\ raised = "none" /\ skipped = {}

-----------------------------------------------------------------------------
(* How a command ends.                                                     *)

\* Plausible bug: any failure is told as a missing bond.
ExitCodeAllTwo(c, e) == IF e = "none" THEN 0 ELSE IF e = "cancelled" THEN 1 ELSE 2

(* _user_friendly, and the except Exception around it in the two resets.   *)
(* SystemExit and KeyboardInterrupt pass the latter.                       *)
ExitCode(c, e) ==
  CASE e = "none" -> 0
    [] e = "error" /\ c \in Resets -> 0
    [] e = "notpaired" /\ c \notin {"pair", "debug"} -> 2
    [] OTHER -> 1

Exit(e) == pc' = "over" /\ exc' = e /\ rc' = ExitCode(cmd, e)

(* An exception out of __aenter__: __aexit__ is not called.                *)
Abandon(e) == Exit(e) /\ skipped' = skipped \cup {"enter"}

(* The body is over, with an exception or without: __aexit__ begins.       *)
Leave(e) ==
  /\ pc' = IF notifying THEN "stop_notify" ELSE "disconnect"
  /\ exc' = e /\ raised' = e

-----------------------------------------------------------------------------
(* __aenter__.                                                             *)

(* Between two commands the user may have bonded the pendant elsewhere or   *)
(* cleared its bond.                                                       *)
Begin(c) ==
  /\ pc = "over"
  /\ cmd' = c /\ pc' = "connect"
  /\ body' \in Bodies(c) /\ at' = 1
  /\ exc' = "none" /\ raised' = "none" /\ skipped' = {}
  /\ respond' = FALSE /\ notifying' = FALSE /\ sent' = 0 /\ arrived' = FALSE
  /\ inbox' = FALSE /\ bond' \in {"ours", "free", "other"}
  /\ UNCHANGED <<rc, link>>

Connect ==
  /\ pc = "connect"
  /\ \/ /\ link' = TRUE
        /\ pc' = IF cmd = "pair" THEN "pair" ELSE "mtu"
        /\ UNCHANGED <<exc, rc, skipped>>
     \/ Abandon("error") /\ link' \in BOOLEAN
  /\ UNCHANGED <<cmd, inbox, body, at, respond, notifying, bond, sent, arrived, raised>>

\* Which kind of write the characteristic offers, at the time pair() is called.
Inspect == pc' = "bond" /\ respond' \in BOOLEAN

(* exchange_mtu may be unsupported; anything else it raises is not caught. *)
ExchangeMtu ==
  /\ pc = "mtu"
  /\ \/ /\ \/ pc' = "settle" /\ UNCHANGED respond
           \/ Inspect
        /\ UNCHANGED <<exc, rc, skipped>>
     \/ Abandon("error") /\ UNCHANGED respond
  /\ UNCHANGED <<cmd, inbox, body, at, notifying, link, bond, sent, arrived, raised>>

Settle ==
  /\ pc = "settle"
  /\ Inspect
  /\ UNCHANGED <<cmd, inbox, body, at, exc, notifying, rc, link, bond, sent, arrived, raised, skipped>>

\* pair() makes a bond if the pendant is free for one; the user may refuse.
Bonds == bond' = bond \/ (link /\ bond = "free" /\ bond' = "ours")

(* Whatever pair() returns or raises, the session goes on.                 *)
Pair ==
  /\ pc = "bond"
  /\ Bonds
  /\ pc' = "notify"
  /\ UNCHANGED <<cmd, inbox, body, at, exc, respond, notifying, rc, link, sent, arrived, raised, skipped>>

StartNotify ==
  /\ pc = "notify"
  /\ \/ link /\ notifying' = TRUE /\ pc' = "body" /\ UNCHANGED <<exc, rc, skipped>>
     \/ Abandon("error") /\ UNCHANGED notifying
  /\ UNCHANGED <<cmd, inbox, body, at, respond, link, bond, sent, arrived, raised>>

-----------------------------------------------------------------------------
(* The bodies.                                                             *)

Doing(await) == pc = "body" /\ body[at] = await

\* Plausible bug: the body does not end with its last await.
ProceedPastEnd ==
  /\ at' = at + 1
  /\ pc' = "body" /\ UNCHANGED <<exc, raised>>

Proceed ==
  /\ at' = at + 1
  /\ IF at = Len(body) THEN Leave(exc) ELSE pc' = "body" /\ UNCHANGED <<exc, raised>>

Unbonds(c) == c \in {"unpair", "factory_reset"}

\* The command reaches the pendant, which accepts writes of its bond only.
Arrives ==
  /\ link /\ bond = "ours"
  /\ sent' = sent + 1 /\ arrived' = TRUE
  /\ bond' = IF Unbonds(cmd) THEN "free" ELSE bond

Lost == arrived' = FALSE /\ UNCHANGED <<sent, bond>>

\* Plausible bug: a write that raises is taken for sent.
WriteSwallows ==
  /\ Doing("write")
  /\ Arrives \/ Lost
  /\ Proceed
  /\ UNCHANGED <<cmd, inbox, body, respond, notifying, rc, link, skipped>>

(* send_command.  A write without response reports nothing that happens to *)
(* it at the pendant.                                                      *)
Write ==
  /\ Doing("write")
  /\ \/ (Arrives \/ (~respond /\ link /\ Lost)) /\ Proceed
     \/ link /\ respond /\ bond # "ours" /\ Lost /\ Leave("notpaired") /\ UNCHANGED at
     \/ (Arrives \/ Lost) /\ Leave("error") /\ UNCHANGED at
  /\ UNCHANGED <<cmd, inbox, body, respond, notifying, rc, link, skipped>>

\* Plausible bug: the wait has no timeout.
AnswerForever ==
  /\ Doing("answer")
  /\ link /\ arrived /\ Proceed
  /\ UNCHANGED <<cmd, inbox, body, respond, notifying, rc, link, bond, sent, arrived, skipped>>

(* The wait of _request: the answer, or the timeout.                       *)
Answer ==
  /\ Doing("answer")
  /\ (link /\ arrived /\ Proceed) \/ (Leave("error") /\ UNCHANGED at)
  /\ UNCHANGED <<cmd, inbox, body, respond, notifying, rc, link, bond, sent, arrived, skipped>>

(* A battery level that cannot be read is left out, and sleep just ends.   *)
Pause ==
  /\ Doing("read") \/ Doing("sleep")
  /\ Proceed
  /\ UNCHANGED <<cmd, inbox, body, respond, notifying, rc, link, bond, sent, arrived, skipped>>

(* A message comes out of the inbox and the loop waits for the next one    *)
(* with a new timer; the ack of a page is suppressed.  The consumer's echo *)
(* may raise.  inspect takes the (payload, msg) pair of the inbox for a    *)
(* message, and raises at the first.                                       *)
Get ==
  /\ Doing("get") /\ inbox
  /\ inbox' = FALSE
  /\ \/ cmd # "inspect" /\ UNCHANGED <<pc, exc>>
     \/ pc' = "stop" /\ exc' = "error"
  /\ UNCHANGED <<cmd, body, at, respond, notifying, rc, link, bond, sent, arrived, raised, skipped>>

(* The pendant has been silent for long enough, or the link is gone.       *)
IdleTimeout ==
  /\ Doing("get") /\ ~inbox
  /\ pc' = "stop"
  /\ UNCHANGED <<cmd, inbox, body, at, exc, respond, notifying, rc, link, bond, sent, arrived, raised, skipped>>

(* stop_batch_download, in a finally: suppressed by the generator of sync, *)
(* capture and enroll-voice, whose own finally then writes the .bin, and   *)
(* may raise, not by inspect.                                              *)
Stop ==
  /\ pc = "stop"
  /\ \/ Leave(exc)
     \/ Leave("error")
     \/ cmd = "inspect" /\ link /\ respond /\ bond # "ours" /\ Leave("notpaired")
  /\ UNCHANGED <<cmd, inbox, body, at, respond, notifying, rc, link, bond, sent, arrived, skipped>>

(* The body of the command `pair`, between connect and disconnect.         *)
PairCommand ==
  /\ pc = "pair"
  /\ Bonds
  /\ pc' = "disconnect"
  /\ exc' \in {"none", "error"}
  /\ UNCHANGED <<cmd, inbox, body, at, respond, notifying, rc, link, sent, arrived, raised, skipped>>

-----------------------------------------------------------------------------
(* __aexit__.                                                              *)

\* Plausible bug: only a link that is gone is tolerated in the clean-up.
StopNotifyRaises ==
  /\ pc = "stop_notify"
  /\ \/ pc' = "disconnect" /\ UNCHANGED <<exc, rc>>
     \/ link /\ Exit("error")
  /\ UNCHANGED <<cmd, inbox, body, at, respond, notifying, link, bond, sent, arrived, raised, skipped>>

(* suppress_disconnect: no Exception comes out of it.                      *)
StopNotify ==
  /\ pc = "stop_notify"
  /\ pc' = "disconnect"
  /\ UNCHANGED <<cmd, inbox, body, at, exc, respond, notifying, rc, link, bond, sent, arrived, raised, skipped>>

\* Plausible bug: disconnect() is not wrapped in suppress_disconnect.
DisconnectRaises ==
  /\ pc = "disconnect"
  /\ \/ link' = FALSE /\ Exit(exc) /\ UNCHANGED skipped
     \/ UNCHANGED link /\ skipped' = skipped \cup {"stack"} /\ Exit("error")
  /\ UNCHANGED <<cmd, inbox, body, at, respond, notifying, bond, sent, arrived, raised>>

(* The session is over: the command goes on after the `async with` unless  *)
(* an exception is in flight, or is over too.                              *)
Continue(e) ==
  IF e = "none" /\ cmd \in GoingOn THEN pc' = "after" /\ UNCHANGED <<exc, rc>> ELSE Exit(e)

(* When disconnect() raises, the stack may still hold the link.  The       *)
(* command `pair` does not suppress it.                                    *)
Disconnect ==
  /\ pc = "disconnect"
  /\ \/ link' = FALSE /\ Continue(exc) /\ UNCHANGED skipped
     \/ /\ UNCHANGED link
        /\ skipped' = skipped \cup {"stack"}
        /\ Continue(IF cmd = "pair" THEN "error" ELSE exc)
  /\ UNCHANGED <<cmd, inbox, body, at, respond, notifying, bond, sent, arrived, raised>>

(* The upload and the decode of sync, which may raise; enroll-voice also    *)
(* returns 2 where nothing was captured or decoded, the recording is too   *)
(* short, or the server or the upload fails.                               *)
After ==
  /\ pc = "after"
  /\ \/ Exit("none") \/ Exit("error")
     \/ cmd = "enroll_voice" /\ pc' = "over" /\ rc' = 2 /\ UNCHANGED exc
  /\ UNCHANGED <<cmd, inbox, body, at, respond, notifying, link, bond, sent, arrived, raised, skipped>>

-----------------------------------------------------------------------------
(* Ctrl+C: the main task is cancelled in the await at which it stands.  No *)
(* `except Exception` catches that, suppress_disconnect's included.        *)

CancelEnter ==
  /\ pc \in Entering
  /\ Abandon("cancelled")
  /\ IF pc = "connect" THEN link' \in BOOLEAN ELSE UNCHANGED link
  /\ UNCHANGED <<cmd, inbox, body, at, respond, notifying, bond, sent, arrived, raised>>

CancelBody ==
  /\ pc \in {"body", "stop"}
  /\ IF pc = "body" /\ body[at] = "get"
     THEN pc' = "stop" /\ exc' = "cancelled" /\ UNCHANGED raised
     ELSE Leave("cancelled")
  /\ (Doing("write") /\ Arrives) \/ UNCHANGED <<sent, arrived, bond>>
  /\ UNCHANGED <<cmd, inbox, body, at, respond, notifying, rc, link, skipped>>

CancelPair ==
  /\ pc = "pair"
  /\ pc' = "disconnect" /\ exc' = "cancelled"
  /\ UNCHANGED <<cmd, inbox, body, at, respond, notifying, rc, link, bond, sent, arrived, raised, skipped>>

CancelCleanUp ==
  /\ pc \in {"stop_notify", "disconnect"}
  /\ Exit("cancelled")
  /\ skipped' = skipped \cup {"interrupted"}
  /\ UNCHANGED link \/ (pc = "disconnect" /\ link' = FALSE)
  /\ UNCHANGED <<cmd, inbox, body, at, respond, notifying, bond, sent, arrived, raised>>

CancelAfter ==
  /\ pc = "after"
  /\ Exit("cancelled")
  /\ UNCHANGED <<cmd, inbox, body, at, respond, notifying, link, bond, sent, arrived, raised, skipped>>

-----------------------------------------------------------------------------
(* The pendant sends a page, a heartbeat or anything else that is left in   *)
(* the inbox.  Of several that wait the model keeps one.                    *)
MessageArrives ==
  /\ pc \in {"body", "stop", "stop_notify"}
  /\ link /\ notifying /\ ~inbox
  /\ inbox' = TRUE
  /\ UNCHANGED <<cmd, pc, body, at, exc, respond, notifying, rc, link, bond, sent, arrived, raised, skipped>>

(* The link goes, and nobody tells the process.                            *)

LinkDrop ==
  /\ link
  /\ link' = FALSE
  /\ UNCHANGED <<cmd, pc, inbox, body, at, exc, respond, notifying, rc, bond, sent, arrived, raised, skipped>>

Enter == Connect \/ ExchangeMtu \/ Settle \/ Pair \/ StartNotify
Work == Write \/ Answer \/ Pause \/ Get \/ IdleTimeout \/ Stop \/ PairCommand
CleanUp == StopNotify \/ Disconnect \/ After
Host == Enter \/ Work \/ CleanUp
Cancel == CancelEnter \/ CancelBody \/ CancelPair \/ CancelCleanUp \/ CancelAfter

Next == (\E c \in Command : Begin(c)) \/ Host \/ Cancel \/ MessageArrives \/ LinkDrop

Spec == Init /\ [][Next]_vars

(* The event loop runs what is ready, timers fire, and what is asked of the *)
(* BLE stack returns or raises.  The pendant and the link need not do      *)
(* anything.                                                               *)
FairSpec == Spec /\ WF_vars(Host)

-----------------------------------------------------------------------------
(* Properties.                                                             *)

(* A command that has left its session has let the link go, unless it      *)
(* failed to enter after connect(), Ctrl+C came during the clean-up, or    *)
(* the BLE stack refused to disconnect: no failure of the body or of       *)
(* stop_notify keeps the pendant connected.                                *)
Released == pc \in {"after", "over"} /\ link => skipped # {}

(* The clean-up does not mask what sent the command into it: unless it is  *)
(* interrupted itself, the exception the command ends with is the one the  *)
(* body ended with, and a command whose body succeeded goes on, if it has  *)
(* something left to do, or exits with 0.                                  *)
NotMasked ==
  pc \in {"after", "over"} /\ cmd # "pair" /\ skipped \cap {"enter", "interrupted"} = {} =>
    /\ raised # "none" => pc = "over" /\ exc = raised
    /\ raised = "none" => cmd \in GoingOn \/ (pc = "over" /\ exc = "none" /\ rc = 0)

(* Exit code 0 of a command other than the resets means that every command *)
(* of its body reached the pendant, where writes are acknowledged; where   *)
(* they are not, it means so of a command that asks for an answer.  The    *)
(* acks and the stop of a download are not among them: failures of those   *)
(* are suppressed.                                                         *)
Writes == Cardinality({i \in DOMAIN body : body[i] = "write"})
SuccessMeansReached ==
  pc = "over" /\ rc = 0 /\ cmd \notin Resets =>
    /\ respond => sent = Writes
    /\ (\E i \in DOMAIN body : body[i] = "answer") => sent > 0

(* Exit code 2 means that the pendant refused a write for want of a bond,  *)
(* except that enroll-voice also returns it, without an exception, for     *)
(* whatever goes wrong after its session.                                  *)
TwoMeansRefused ==
  pc = "over" /\ rc = 2 => bond # "ours" \/ (cmd = "enroll_voice" /\ exc = "none")

(* Whatever the link does and at whatever await the pendant falls silent,  *)
(* a command comes to its end, unless messages keep coming in forever:     *)
(* each restarts the timer of the download.                                *)
MessagesKeepComing == []<><<MessageArrives>>_vars
CommandEnds == MessagesKeepComing \/ (pc # "over" ~> pc = "over")

(* "Sent factory_reset_pendant" and exit code 0 mean it was: the command   *)
(* reached the pendant, or at least its write returned.                    *)
SentMeansReached ==
  pc = "over" /\ rc = 0 /\ cmd \in Resets => sent > 0 \/ at > 1
=============================================================================
