------------------------------ MODULE Session ------------------------------
(***************************************************************************)
(* PendantSession._request and _on_inbound: matching what the pendant      *)
(* sends with the requests that wait for it.                               *)
(*                                                                         *)
(* A request registers its future twice, under its request_id and, if the  *)
(* slot is free, under the content it expects, because some firmware does  *)
(* not echo request_id.  Several tasks may hold requests open at a time.   *)
(* A future is named by the request_id it was made for.                    *)
(***************************************************************************)
EXTENDS Integers, FiniteSets

CONSTANTS
  Caller,    \* tasks that call get_device_info and get_device_status
  Oneof,     \* the contents they may expect
  MaxRid,    \* bound: requests made
  Faults     \* what may go wrong

AllFaults ==
  {"timeout",       \* wait_for runs out, or the caller is cancelled in it
   "send",          \* send_command raises, or the caller is cancelled in it
   "noecho",        \* the firmware leaves request_id out of an answer
   "unsolicited"}   \* the pendant sends the expected content unasked

NoContent == "none"

ASSUME SessionAssumption ==
  MaxRid \in Nat /\ Faults \subseteq AllFaults /\ NoContent \notin Oneof

Rid == 1..MaxRid
NoRid == 0

\* A PendantAllMsg: the echoed request_id, the content, and, as history, the
\* request it answers (NoRid if none).
Message == [rid : Rid \cup {NoRid}, oneof : Oneof, of : Rid \cup {NoRid}]
NoMessage == [rid |-> NoRid, oneof |-> NoContent, of |-> NoRid]

VARIABLES
  lastRid,   \* the counter of _next_request_id
  pc,        \* where each caller stands: "idle", "sending", "sent", "waiting"
  mine,      \* the request_id of each caller's request
  expects,   \* the content each request expects
  fut,       \* "unborn", "open", "done", "cancelled"
  got,       \* the result of each future
  pending,   \* _pending: request_ids whose future is registered
  byOneof,   \* _pending_by_oneof, NoRid where nothing is registered
  asked,     \* requests the pendant has received and not answered
  air,       \* messages on their way to the host
  inbox,     \* messages nobody was found to wait for
  seen,      \* history: request_ids echoed by what _on_inbound has processed
  failed     \* history: requests whose send_command raised

vars == <<lastRid, pc, mine, expects, fut, got, pending, byOneof, asked, air, inbox, seen, failed>>

Live(r) == \E c \in Caller : pc[c] # "idle" /\ mine[c] = r

TypeOK ==
  /\ lastRid \in 0..MaxRid
  /\ pc \in [Caller -> {"idle", "sending", "sent", "waiting"}]
  /\ mine \in [Caller -> 0..lastRid]
  /\ expects \in [Rid -> Oneof \cup {NoContent}]
  /\ fut \in [Rid -> {"unborn", "open", "done", "cancelled"}]
  /\ got \in [Rid -> Message \cup {NoMessage}]
  /\ pending \subseteq 1..lastRid
  /\ byOneof \in [Oneof -> 0..lastRid]
  /\ asked \subseteq 1..lastRid
  /\ air \subseteq Message /\ inbox \subseteq Message
  /\ seen \subseteq 1..lastRid /\ failed \subseteq 1..lastRid

Init ==
  /\ lastRid = 0
  /\ pc = [c \in Caller |-> "idle"] /\ mine = [c \in Caller |-> NoRid]
  /\ expects = [r \in Rid |-> NoContent]
  /\ fut = [r \in Rid |-> "unborn"] /\ got = [r \in Rid |-> NoMessage]
  /\ pending = {} /\ byOneof = [k \in Oneof |-> NoRid]
  /\ asked = {} /\ air = {} /\ inbox = {} /\ seen = {} /\ failed = {}

-----------------------------------------------------------------------------
(* _request.                                                               *)

\* Plausible bug: the counter is read a second time to register the future.
StartIdTwice(c, k) ==
  /\ pc[c] = "idle" /\ lastRid < MaxRid
  /\ LET r == lastRid + 1 IN
       /\ lastRid' = r
       /\ mine' = [mine EXCEPT ![c] = r]
       /\ expects' = [expects EXCEPT ![r] = k]
       /\ fut' = [fut EXCEPT ![r] = "open"]
       /\ pending' = pending \cup {r + 1}
       /\ byOneof' = IF byOneof[k] = NoRid THEN [byOneof EXCEPT ![k] = r] ELSE byOneof
  /\ pc' = [pc EXCEPT ![c] = "sending"]
  /\ UNCHANGED <<got, asked, air, inbox, seen, failed>>

(* Up to the first await: a fresh id, a future under it, and the fallback  *)
(* under the expected content unless another request holds the slot.       *)
Start(c, k) ==
  /\ pc[c] = "idle" /\ lastRid < MaxRid
  /\ LET r == lastRid + 1 IN
       /\ lastRid' = r
       /\ mine' = [mine EXCEPT ![c] = r]
       /\ expects' = [expects EXCEPT ![r] = k]
       /\ fut' = [fut EXCEPT ![r] = "open"]
       /\ pending' = pending \cup {r}
       /\ byOneof' = IF byOneof[k] = NoRid THEN [byOneof EXCEPT ![k] = r] ELSE byOneof
  /\ pc' = [pc EXCEPT ![c] = "sending"]
  /\ UNCHANGED <<got, asked, air, inbox, seen, failed>>

(* The command reaches the pendant, which may answer before send_command   *)
(* has returned.                                                           *)
Written(c) ==
  /\ pc[c] = "sending"
  /\ pc' = [pc EXCEPT ![c] = "sent"]
  /\ asked' = asked \cup {mine[c]}
  /\ UNCHANGED <<lastRid, mine, expects, fut, got, pending, byOneof, air, inbox, seen, failed>>

SendReturns(c) ==
  /\ pc[c] = "sent"
  /\ pc' = [pc EXCEPT ![c] = "waiting"]
  /\ UNCHANGED <<lastRid, mine, expects, fut, got, pending, byOneof, asked, air, inbox, seen, failed>>

(* The await of send_command is outside the try: nothing is cleaned up.    *)
SendRaises(c) ==
  /\ "send" \in Faults
  /\ pc[c] \in {"sending", "sent"}
  /\ pc' = [pc EXCEPT ![c] = "idle"]
  /\ failed' = failed \cup {mine[c]}
  /\ UNCHANGED <<lastRid, mine, expects, fut, got, pending, byOneof, asked, air, inbox, seen>>

\* Plausible bug: a fallback that did not fire is left in its slot.
CleanedNever(r) == byOneof

\* Plausible bug: the slot is cleared whoever holds it.
CleanedAlways(r) == [byOneof EXCEPT ![expects[r]] = NoRid]

(* The finally around wait_for: the fallback goes if it is still this      *)
(* request's.  The entry under request_id stays.                           *)
Cleaned(r) ==
  IF byOneof[expects[r]] = r THEN [byOneof EXCEPT ![expects[r]] = NoRid] ELSE byOneof

Return(c) ==
  /\ pc[c] = "waiting" /\ fut[mine[c]] = "done"
  /\ pc' = [pc EXCEPT ![c] = "idle"]
  /\ byOneof' = Cleaned(mine[c])
  /\ UNCHANGED <<lastRid, mine, expects, fut, got, pending, asked, air, inbox, seen, failed>>

(* wait_for gives up and cancels the future.  If the timer fires after the *)
(* answer came and before the task ran, the answer is lost.                *)
TimesOut(c) ==
  /\ "timeout" \in Faults
  /\ pc[c] = "waiting"
  /\ pc' = [pc EXCEPT ![c] = "idle"]
  /\ fut' = [fut EXCEPT ![mine[c]] = IF @ = "open" THEN "cancelled" ELSE @]
  /\ byOneof' = Cleaned(mine[c])
  /\ UNCHANGED <<lastRid, mine, expects, got, pending, asked, air, inbox, seen, failed>>

-----------------------------------------------------------------------------
(* The pendant, as the code expects it to behave.                          *)

Answer(r) ==
  /\ r \in asked
  /\ asked' = asked \ {r}
  /\ \E rid \in {r} \cup (IF "noecho" \in Faults THEN {NoRid} ELSE {}) :
       air' = air \cup {[rid |-> rid, oneof |-> expects[r], of |-> r]}
  /\ UNCHANGED <<lastRid, pc, mine, expects, fut, got, pending, byOneof, inbox, seen, failed>>

Results == {got[r] : r \in Rid} \ {NoMessage}
Everywhere == air \cup inbox \cup Results

(* Bound: one unsolicited message in a behaviour.                          *)
Unsolicited(k) ==
  /\ "unsolicited" \in Faults
  /\ \A m \in Everywhere : m.of # NoRid
  /\ air' = air \cup {[rid |-> NoRid, oneof |-> k, of |-> NoRid]}
  /\ UNCHANGED <<lastRid, pc, mine, expects, fut, got, pending, byOneof, asked, inbox, seen, failed>>

-----------------------------------------------------------------------------
(* _on_inbound.                                                            *)

ByRid(m) == m.rid # NoRid /\ m.rid \in pending /\ fut[m.rid] = "open"

(* The future the content's slot would resolve.                            *)
BySlot(m) == ~ByRid(m) /\ byOneof[m.oneof] # NoRid /\ fut[byOneof[m.oneof]] = "open"

Resolve(r, m) ==
  /\ fut' = [fut EXCEPT ![r] = "done"]
  /\ got' = [got EXCEPT ![r] = m]
  /\ UNCHANGED inbox

\* Plausible bug: no return after a future found by request_id is resolved.
InboundNoReturn(m) ==
  /\ m \in air
  /\ air' = air \ {m}
  /\ seen' = seen \cup ({m.rid} \ {NoRid})
  /\ pending' = pending \ {m.rid}
  /\ byOneof' = [byOneof EXCEPT ![m.oneof] = NoRid]
  /\ LET hit == {r \in Rid : fut[r] = "open" /\ r \in {byOneof[m.oneof]} \cup (IF ByRid(m) THEN {m.rid} ELSE {})} IN
       /\ fut' = [r \in Rid |-> IF r \in hit THEN "done" ELSE fut[r]]
       /\ got' = [r \in Rid |-> IF r \in hit THEN m ELSE got[r]]
       /\ inbox' = IF BySlot(m) THEN inbox ELSE inbox \cup {m}
  /\ UNCHANGED <<lastRid, pc, mine, expects, asked, failed>>

\* Plausible bug: the content is tried before the request_id.
InboundContentFirst(m) ==
  /\ m \in air
  /\ air' = air \ {m}
  /\ seen' = seen \cup ({m.rid} \ {NoRid})
  /\ LET r == byOneof[m.oneof] IN
       IF r # NoRid /\ fut[r] = "open"
       THEN /\ byOneof' = [byOneof EXCEPT ![m.oneof] = NoRid]
            /\ Resolve(r, m)
            /\ UNCHANGED pending
       ELSE /\ byOneof' = byOneof
            /\ pending' = pending \ {m.rid}
            /\ IF ByRid(m) THEN Resolve(m.rid, m)
               ELSE inbox' = inbox \cup {m} /\ UNCHANGED <<fut, got>>
  /\ UNCHANGED <<lastRid, pc, mine, expects, asked, failed>>

(* First by request_id.  A future found there that is done already falls   *)
(* through to the slot of the content, and that to the inbox.              *)
Inbound(m) ==
  /\ m \in air
  /\ air' = air \ {m}
  /\ seen' = seen \cup ({m.rid} \ {NoRid})
  /\ pending' = pending \ {m.rid}
  /\ byOneof' = IF ByRid(m) THEN byOneof ELSE [byOneof EXCEPT ![m.oneof] = NoRid]
  /\ \/ ByRid(m) /\ Resolve(m.rid, m)
     \/ BySlot(m) /\ Resolve(byOneof[m.oneof], m)
     \/ ~ByRid(m) /\ ~BySlot(m) /\ inbox' = inbox \cup {m} /\ UNCHANGED <<fut, got>>
  /\ UNCHANGED <<lastRid, pc, mine, expects, asked, failed>>

Next ==
  \/ \E c \in Caller :
       \/ \E k \in Oneof : Start(c, k)
       \/ Written(c) \/ SendReturns(c) \/ SendRaises(c) \/ Return(c) \/ TimesOut(c)
  \/ \E r \in Rid : Answer(r)
  \/ \E k \in Oneof : Unsolicited(k)
  \/ \E m \in air : Inbound(m)

Spec == Init /\ [][Next]_vars

-----------------------------------------------------------------------------
(* Properties.                                                             *)

(* A request that waits with an open future can still be reached by an     *)
(* answer that echoes its id: no other message, timeout or failed send     *)
(* takes its registration away.                                            *)
WaitingIsRegistered ==
  \A c \in Caller :
    pc[c] # "idle" /\ fut[mine[c]] = "open" => mine[c] \in pending

(* Once an answer that echoes the id was processed, the request it answers *)
(* is no longer waiting for it.                                            *)
EchoReachesCaller ==
  \A c \in Caller : pc[c] # "idle" /\ mine[c] \in seen => fut[mine[c]] = "done"

(* A slot is held for a request that expects its content and is still in   *)
(* progress, or whose send failed: timeouts, cancelled waits and answers   *)
(* by request_id leave no stale fallback behind.                           *)
SlotMatches ==
  \A k \in Oneof : byOneof[k] # NoRid =>
    /\ expects[byOneof[k]] = k
    /\ Live(byOneof[k]) \/ byOneof[k] \in failed

(* A request keeps its fallback slot until a message with that content     *)
(* comes or the request itself ends: another request of the same kind that *)
(* ends, in whatever way, does not take it away.                           *)
SlotKeptStep ==
  \A k \in Oneof :
    byOneof[k] # NoRid /\ byOneof'[k] # byOneof[k] =>
      \/ \E m \in air \ air' : m.oneof = k
      \/ \E c \in Caller : mine[c] = byOneof[k] /\ pc[c] = "waiting" /\ pc'[c] = "idle"
SlotKept == [][SlotKeptStep]_vars

(* A request is answered with the content it expects, by a message that    *)
(* was not also given to another request or to the inbox.                  *)
AnswersNotShared ==
  \A r \in Rid : got[r] # NoMessage =>
    /\ got[r].oneof = expects[r]
    /\ got[r].of # NoRid =>
         /\ got[r] \notin inbox
         /\ \A s \in Rid \ {r} : got[s] # got[r]

(* The inductive strengthening the proofs use: a request belongs to one    *)
(* caller, which nobody but itself gives up; a message answers one request *)
(* and is in one place.                                                    *)
Requests ==
  /\ \A c \in Caller : pc[c] # "idle" => mine[c] # NoRid /\ fut[mine[c]] \in {"open", "done"}
  /\ \A c, d \in Caller : c # d /\ pc[c] # "idle" /\ pc[d] # "idle" => mine[c] # mine[d]
Answers ==
  /\ \A m \in Everywhere :
       /\ m.of <= lastRid /\ m.rid \in {NoRid, m.of}
       /\ m.of # NoRid => m.oneof = expects[m.of]
  /\ \A r \in Rid : got[r] # NoMessage => r <= lastRid
Unanswered ==
  /\ \A m \in Everywhere : m.of \notin asked
  /\ \A m \in Everywhere, c \in Caller : pc[c] = "sending" => m.of # mine[c]
NotYetAsked == \A c \in Caller : pc[c] = "sending" => mine[c] \notin asked
OnePlace == \A m \in air \cap (inbox \cup Results) : m.of = NoRid
SessionInv ==
  /\ Requests /\ Answers /\ Unanswered /\ NotYetAsked /\ OnePlace
  /\ WaitingIsRegistered /\ EchoReachesCaller /\ SlotMatches /\ AnswersNotShared
=============================================================================
