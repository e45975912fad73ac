--------------------------- MODULE SessionProofs ---------------------------
(***************************************************************************)
(* Session keeps the registrations of open requests and gives no answer    *)
(* away twice: proofs for any number of callers, contents and requests,    *)
(* and all faults.                                                         *)
(***************************************************************************)
EXTENDS Session, TLAPS

USE SessionAssumption DEF Rid, NoRid

-----------------------------------------------------------------------------
(* Types.                                                                  *)

(* The conjuncts of TypeOK, in groups.                                     *)
Counted ==
  /\ lastRid \in 0..MaxRid
  /\ pc \in [Caller -> {"idle", "sending", "sent", "waiting"}]
  /\ mine \in [Caller -> 0..lastRid]
Futures ==
  /\ expects \in [Rid -> Oneof \cup {NoContent}]
  /\ fut \in [Rid -> {"unborn", "open", "done", "cancelled"}]
  /\ got \in [Rid -> Message \cup {NoMessage}]
Registered == pending \subseteq 1..lastRid /\ byOneof \in [Oneof -> 0..lastRid]
Passing ==
  /\ asked \subseteq 1..lastRid
  /\ air \subseteq Message /\ inbox \subseteq Message
  /\ seen \subseteq 1..lastRid /\ failed \subseteq 1..lastRid

(* TypeOK alone is not inductive: what a caller asks and what a message    *)
(* answers must be requests already made, with a content.                  *)
Made ==
  /\ \A c \in Caller : pc[c] # "idle" => mine[c] # NoRid
  /\ \A m \in air : m.rid <= lastRid
  /\ \A r \in 1..lastRid : expects[r] \in Oneof

LEMMA TypeGroups == TypeOK <=> Counted /\ Futures /\ Registered /\ Passing
  BY DEF TypeOK, Counted, Futures, Registered, Passing

LEMMA MadeInit == Init => TypeOK /\ Made
  BY DEF Init, TypeOK, Made

LEMMA TypeStep == TypeOK /\ Made /\ [Next]_vars => TypeOK' /\ Made'
<1> SUFFICES ASSUME Counted, Futures, Registered, Passing, Made, [Next]_vars
             PROVE  Counted' /\ Futures' /\ Registered' /\ Passing' /\ Made'
  BY TypeGroups DEF TypeOK, Counted, Futures, Registered, Passing
<1> DEFINE Typed == Counted /\ Futures /\ Registered /\ Passing /\ Made
<1> USE DEF Counted, Futures, Registered, Passing, Made
<1>1. ASSUME NEW c \in Caller, NEW k \in Oneof, Start(c, k)
      PROVE  Typed'
  <2>1. Counted'
    BY <1>1 DEF Start
  <2>2. Futures'
    BY <1>1 DEF Start
  <2>3. Registered'
    BY <1>1 DEF Start
  <2>4. Passing'
    BY <1>1 DEF Start
  <2>5. lastRid' = lastRid + 1 /\ expects' = [expects EXCEPT ![lastRid + 1] = k] /\ air' = air
    BY <1>1 DEF Start
  <2>6. \A d \in Caller : pc'[d] # "idle" => mine'[d] # NoRid
    BY <1>1 DEF Start
  <2>7. \A q \in 1..lastRid' : expects'[q] \in Oneof
    BY <1>1, <2>5 DEF Start
  <2>8. \A m \in air : m.rid \in Nat /\ m.rid <= lastRid + 1
    BY DEF Message
  <2>9. Made'
    BY <2>5, <2>6, <2>7, <2>8
  <2> QED
    BY <2>1, <2>2, <2>3, <2>4, <2>9
<1>2. ASSUME NEW c \in Caller, Written(c)
      PROVE  Typed'
  <2>1. mine[c] \in 1..lastRid
    BY <1>2 DEF Written
  <2>2. Counted'
    BY <1>2, <2>1 DEF Written
  <2>3. Futures'
    BY <1>2, <2>1 DEF Written
  <2>4. Registered'
    BY <1>2, <2>1 DEF Written
  <2>5. Passing'
    BY <1>2, <2>1 DEF Written
  <2>6. Made'
    BY <1>2, <2>1 DEF Written
  <2> QED
    BY <2>2, <2>3, <2>4, <2>5, <2>6
<1>3. ASSUME NEW c \in Caller, SendReturns(c)
      PROVE  Typed'
  <2>1. Counted'
    BY <1>3 DEF SendReturns
  <2>2. Futures'
    BY <1>3 DEF SendReturns
  <2>3. Registered'
    BY <1>3 DEF SendReturns
  <2>4. Passing'
    BY <1>3 DEF SendReturns
  <2>5. Made'
    BY <1>3 DEF SendReturns
  <2> QED
    BY <2>1, <2>2, <2>3, <2>4, <2>5
<1>4. ASSUME NEW c \in Caller, SendRaises(c)
      PROVE  Typed'
  <2>1. mine[c] \in 1..lastRid
    BY <1>4 DEF SendRaises
  <2>2. Counted'
    BY <1>4, <2>1 DEF SendRaises
  <2>3. Futures'
    BY <1>4, <2>1 DEF SendRaises
  <2>4. Registered'
    BY <1>4, <2>1 DEF SendRaises
  <2>5. Passing'
    BY <1>4, <2>1 DEF SendRaises
  <2>6. Made'
    BY <1>4, <2>1 DEF SendRaises
  <2> QED
    BY <2>2, <2>3, <2>4, <2>5, <2>6
<1>5. ASSUME NEW c \in Caller, Return(c)
      PROVE  Typed'
  <2>1. Counted'
    BY <1>5 DEF Return, Cleaned
  <2>2. Futures'
    BY <1>5 DEF Return, Cleaned
  <2>3. Registered'
    BY <1>5 DEF Return, Cleaned
  <2>4. Passing'
    BY <1>5 DEF Return, Cleaned
  <2>5. Made'
    BY <1>5 DEF Return, Cleaned
  <2> QED
    BY <2>1, <2>2, <2>3, <2>4, <2>5
<1>6. ASSUME NEW c \in Caller, TimesOut(c)
      PROVE  Typed'
  <2>1. Counted'
    BY <1>6 DEF TimesOut, Cleaned
  <2>2. Futures'
    BY <1>6 DEF TimesOut, Cleaned
  <2>3. Registered'
    BY <1>6 DEF TimesOut, Cleaned
  <2>4. Passing'
    BY <1>6 DEF TimesOut, Cleaned
  <2>5. Made'
    BY <1>6 DEF TimesOut, Cleaned
  <2> QED
    BY <2>1, <2>2, <2>3, <2>4, <2>5
<1>7. ASSUME NEW r \in Rid, Answer(r)
      PROVE  Typed'
  <2>1. Counted'
    BY <1>7 DEF Answer, Message
  <2>2. Futures'
    BY <1>7 DEF Answer, Message
  <2>3. Registered'
    BY <1>7 DEF Answer, Message
  <2>4. Passing'
    BY <1>7 DEF Answer, Message
  <2>5. Made'
    BY <1>7 DEF Answer, Message
  <2> QED
    BY <2>1, <2>2, <2>3, <2>4, <2>5
<1>8. ASSUME NEW k \in Oneof, Unsolicited(k)
      PROVE  Typed'
  <2>1. Counted'
    BY <1>8 DEF Unsolicited, Message
  <2>2. Futures'
    BY <1>8 DEF Unsolicited, Message
  <2>3. Registered'
    BY <1>8 DEF Unsolicited, Message
  <2>4. Passing'
    BY <1>8 DEF Unsolicited, Message
  <2>5. Made'
    BY <1>8 DEF Unsolicited, Message
  <2> QED
    BY <2>1, <2>2, <2>3, <2>4, <2>5
<1>9. ASSUME NEW m \in air, Inbound(m)
      PROVE  Typed'
  <2>1. /\ m \in Message \cup {NoMessage} /\ m.rid \in 0..lastRid /\ m.oneof \in Oneof
        /\ lastRid' = lastRid /\ expects' = expects
    BY <1>9 DEF Inbound, Message
  <2>2. Counted'
    BY <1>9 DEF Inbound
  <2>3. Futures'
    <3>1. CASE ByRid(m) /\ Resolve(m.rid, m)
      BY <2>1, <3>1 DEF Resolve
    <3>2. CASE BySlot(m) /\ Resolve(byOneof[m.oneof], m)
      BY <2>1, <3>2 DEF Resolve
    <3>3. CASE UNCHANGED <<fut, got>>
      BY <2>1, <3>3
    <3> QED
      BY <1>9, <3>1, <3>2, <3>3 DEF Inbound
  <2>4. Registered'
    <3>1. pending' \subseteq pending
      BY <1>9 DEF Inbound
    <3>2. byOneof' \in [Oneof -> 0..lastRid]
      BY <1>9, <2>1 DEF Inbound
    <3> QED
      BY <2>1, <3>1, <3>2
  <2>5. Passing'
    <3>1. air' \subseteq air /\ asked' = asked /\ failed' = failed
      BY <1>9 DEF Inbound
    <3>2. seen' \subseteq 1..lastRid
      <4>1. seen' = seen \cup ({m.rid} \ {0})
        BY <1>9 DEF Inbound
      <4>2. ASSUME NEW q \in seen', q \notin seen
            PROVE  q \in 1..lastRid
        BY <2>1, <4>1, <4>2
      <4> QED
        BY <4>2
    <3>3. inbox' \subseteq inbox \cup {m}
      BY <1>9 DEF Inbound, Resolve
    <3> QED
      BY <2>1, <3>1, <3>2, <3>3
  <2>6. Made'
    BY <1>9, <2>1 DEF Inbound
  <2> QED
    BY <2>2, <2>3, <2>4, <2>5, <2>6
<1>10. CASE UNCHANGED vars
  BY <1>10 DEF vars
<1> QED
  BY <1>1, <1>2, <1>3, <1>4, <1>5, <1>6, <1>7, <1>8, <1>9, <1>10 DEF Next

(* Every reachable state is well typed.                                    *)
THEOREM TypeCorrect == Spec => []TypeOK
<1>1. Spec => [](TypeOK /\ Made)
  BY MadeInit, TypeStep, PTL DEF Spec
<1> QED
  BY <1>1, PTL

-----------------------------------------------------------------------------
(* The invariant.                                                          *)

LEMMA InvInit == Init => SessionInv
<1> SUFFICES ASSUME Init PROVE SessionInv
  OBVIOUS
<1>1. Everywhere = {}
  BY DEF Init, Everywhere, Results
<1> QED
  BY <1>1 DEF Init, SessionInv, Requests, Answers, Unanswered, NotYetAsked, OnePlace,
              WaitingIsRegistered, EchoReachesCaller, SlotMatches, AnswersNotShared

(* Every message is well typed, and none is the absent result.             *)
LEMMA MessageFacts ==
  ASSUME TypeOK, NEW m \in Everywhere
  PROVE  m \in Message /\ m # NoMessage /\ m.oneof \in Oneof /\ m.of \in Nat /\ m.rid \in Nat
<1>1. m \in Message
  BY DEF TypeOK, Everywhere, Results
<1> QED
  BY <1>1 DEF Message, NoMessage

(* What an action that moves no message keeps.                             *)
LEMMA NothingMoved ==
  ASSUME UNCHANGED <<air, inbox, got>>
  PROVE  Everywhere' = Everywhere /\ Results' = Results
  BY DEF Everywhere, Results

LEMMA StartKeeps ==
  ASSUME TypeOK, Made, SessionInv, NEW c \in Caller, NEW k \in Oneof, Start(c, k)
  PROVE  SessionInv'
<1> DEFINE new == lastRid + 1
<1>1. /\ lastRid \in Nat /\ lastRid' = new /\ new \in Rid
      /\ \A d \in Caller : mine[d] \in 0..lastRid
      /\ mine' = [mine EXCEPT ![c] = new] /\ mine'[c] = new
      /\ \A d \in Caller \ {c} : mine'[d] = mine[d] /\ pc'[d] = pc[d]
      /\ pc[c] = "idle" /\ pc'[c] = "sending"
  BY DEF TypeOK, Start
<1>2. /\ fut'[new] = "open" /\ \A r \in Rid \ {new} : fut'[r] = fut[r]
      /\ expects'[new] = k /\ \A r \in Rid \ {new} : expects'[r] = expects[r]
  BY <1>1 DEF TypeOK, Start
<1>3. UNCHANGED <<air, inbox, got, asked, seen, failed>> /\ pending' = pending \cup {new}
  BY DEF Start
<1>4. Everywhere' = Everywhere /\ Results' = Results
  BY <1>3, NothingMoved
<1>5. \A m \in Everywhere : m.of \in Nat /\ m.of <= lastRid
  BY MessageFacts DEF SessionInv, Answers
<1>6. Requests'
  BY <1>1, <1>2 DEF Requests, SessionInv
<1>7. Answers'
  <2>1. \A m \in Everywhere : m.of # NoRid => m.oneof = expects'[m.of]
    BY <1>1, <1>2, <1>5 DEF Answers, SessionInv
  <2>2. \A m \in Everywhere : m.rid \in {NoRid, m.of}
    BY DEF Answers, SessionInv
  <2>3. \A r \in Rid : got[r] # NoMessage => r <= lastRid
    BY DEF Answers, SessionInv
  <2> QED
    BY <1>1, <1>3, <1>4, <1>5, <2>1, <2>2, <2>3 DEF Answers
<1>8. Unanswered'
  BY <1>1, <1>3, <1>4, <1>5 DEF Unanswered, SessionInv
<1>9. NotYetAsked'
  BY <1>1, <1>3 DEF NotYetAsked, SessionInv, TypeOK
<1>10. OnePlace'
  BY <1>3, <1>4 DEF OnePlace, SessionInv
<1>11. \A d \in Caller \ {c} : pc[d] # "idle" =>
         /\ mine[d] \in Rid \ {new} /\ mine'[d] = mine[d] /\ pc'[d] = pc[d]
         /\ fut'[mine[d]] = fut[mine[d]]
  <2>1. \A d \in Caller : pc[d] # "idle" => mine[d] \in Rid \ {new}
    BY <1>1 DEF Requests, SessionInv
  <2> QED
    BY <1>1, <1>2, <2>1
<1>12. WaitingIsRegistered'
  <2>1. mine'[c] \in pending'
    BY <1>1, <1>3
  <2>2. ASSUME NEW d \in Caller \ {c}, pc'[d] # "idle", fut'[mine'[d]] = "open"
        PROVE  mine'[d] \in pending'
    <3>1. pc[d] # "idle" /\ fut[mine[d]] = "open" /\ mine'[d] = mine[d]
      BY <1>1, <1>11, <2>2
    <3> QED
      BY <1>3, <3>1 DEF WaitingIsRegistered, SessionInv
  <2> QED
    BY <2>1, <2>2 DEF WaitingIsRegistered
<1>13. EchoReachesCaller'
  <2>1. mine'[c] \notin seen'
    BY <1>1, <1>3 DEF TypeOK
  <2>2. ASSUME NEW d \in Caller \ {c}, pc'[d] # "idle", mine'[d] \in seen'
        PROVE  fut'[mine'[d]] = "done"
    <3>1. pc[d] # "idle" /\ mine[d] \in seen /\ mine'[d] = mine[d]
      BY <1>1, <1>3, <2>2
    <3> QED
      BY <1>11, <3>1 DEF EchoReachesCaller, SessionInv
  <2> QED
    BY <2>1, <2>2 DEF EchoReachesCaller
<1>14. SlotMatches'
  <2> DEFINE LiveNext(r) == \E d \in Caller : pc'[d] # "idle" /\ mine'[d] = r
  <2>1. LiveNext(new)
    <3>1. pc'[c] # "idle" /\ mine'[c] = new
      BY <1>1
    <3> QED
      BY <3>1
  <2>2. \A j \in Oneof : byOneof'[j] = byOneof[j] \/ (j = k /\ byOneof'[j] = new)
    BY <1>1 DEF Start, TypeOK
  <2>3. \A j \in Oneof : byOneof[j] \in 0..lastRid
    BY DEF TypeOK
  <2>4. ASSUME NEW j \in Oneof, byOneof'[j] # NoRid, byOneof'[j] = byOneof[j]
        PROVE  expects'[byOneof'[j]] = j /\ (LiveNext(byOneof'[j]) \/ byOneof'[j] \in failed')
    <3>1. byOneof[j] \in Rid \ {new}
      BY <1>1, <2>3, <2>4
    <3>2. expects[byOneof[j]] = j /\ (Live(byOneof[j]) \/ byOneof[j] \in failed)
      BY <2>4 DEF SlotMatches, SessionInv
    <3>3. Live(byOneof[j]) => LiveNext(byOneof[j])
      BY <1>1 DEF Live
    <3> QED
      BY <1>2, <1>3, <2>4, <3>1, <3>2, <3>3
  <2>5. \A j \in Oneof : byOneof'[j] # NoRid =>
          expects'[byOneof'[j]] = j /\ (LiveNext(byOneof'[j]) \/ byOneof'[j] \in failed')
    BY <1>2, <2>1, <2>2, <2>4
  <2> QED
    BY <2>5 DEF SlotMatches, Live
<1>15. AnswersNotShared'
  <2>1. \A r \in Rid : got[r] # NoMessage => expects'[r] = expects[r]
    BY <1>1, <1>2 DEF Answers, SessionInv
  <2> QED
    BY <1>3, <2>1 DEF AnswersNotShared, SessionInv
<1> QED
  BY <1>6, <1>7, <1>8, <1>9, <1>10, <1>12, <1>13, <1>14, <1>15 DEF SessionInv

(* Written, SendReturns, SendRaises: only the caller's own place changes,  *)
(* and what the pendant was asked.                                         *)
LEMMA SendKeeps ==
  ASSUME TypeOK, Made, SessionInv, NEW c \in Caller,
         Written(c) \/ SendReturns(c) \/ SendRaises(c)
  PROVE  SessionInv'
<1>1. /\ UNCHANGED <<lastRid, mine, expects, fut, got, pending, byOneof, air, inbox, seen>>
      /\ pc[c] \in {"sending", "sent"}
      /\ \A d \in Caller \ {c} : pc'[d] = pc[d]
      /\ pc'[c] # "sending"
      /\ asked' = asked \/ (pc[c] = "sending" /\ asked' = asked \cup {mine[c]})
      /\ (failed' = failed /\ pc'[c] # "idle") \/ failed' = failed \cup {mine[c]}
  <2>1. CASE Written(c)
    BY <2>1 DEF Written, TypeOK
  <2>2. CASE SendReturns(c)
    BY <2>2 DEF SendReturns, TypeOK
  <2>3. CASE SendRaises(c)
    BY <2>3 DEF SendRaises, TypeOK
  <2> QED
    BY <2>1, <2>2, <2>3
<1>2. Everywhere' = Everywhere /\ Results' = Results
  BY <1>1, NothingMoved
<1>3. \A d \in Caller : pc'[d] # "idle" => pc[d] # "idle"
  BY <1>1
<1>4. Requests'
  BY <1>1, <1>3 DEF Requests, SessionInv
<1>5. Answers'
  BY <1>1, <1>2 DEF Answers, SessionInv
<1>6. Unanswered'
  <2>1. \A m \in Everywhere : pc[c] = "sending" => m.of # mine[c]
    BY DEF Unanswered, SessionInv
  <2> QED
    BY <1>1, <1>2, <2>1 DEF Unanswered, SessionInv
<1>7. NotYetAsked'
  BY <1>1 DEF NotYetAsked, Requests, SessionInv
<1>8. OnePlace'
  BY <1>1, <1>2 DEF OnePlace, SessionInv
<1>9. WaitingIsRegistered'
  BY <1>1, <1>3 DEF WaitingIsRegistered, SessionInv
<1>10. EchoReachesCaller'
  BY <1>1, <1>3 DEF EchoReachesCaller, SessionInv
<1>11. SlotMatches'
  <2>1. \A r : Live(r) => Live(r)' \/ r \in failed'
    BY <1>1 DEF Live
  <2> QED
    BY <1>1, <2>1 DEF SlotMatches, SessionInv
<1>12. AnswersNotShared'
  BY <1>1 DEF AnswersNotShared, SessionInv
<1> QED
  BY <1>4, <1>5, <1>6, <1>7, <1>8, <1>9, <1>10, <1>11, <1>12 DEF SessionInv

(* Return and TimesOut: the request ends and its fallback goes with it.    *)
LEMMA EndKeeps ==
  ASSUME TypeOK, Made, SessionInv, NEW c \in Caller, Return(c) \/ TimesOut(c)
  PROVE  SessionInv'
<1>1. /\ UNCHANGED <<lastRid, mine, expects, got, pending, asked, air, inbox, seen, failed>>
      /\ pc[c] = "waiting" /\ pc'[c] = "idle"
      /\ \A d \in Caller \ {c} : pc'[d] = pc[d]
      /\ byOneof' = Cleaned(mine[c])
      /\ \A r \in Rid : r # mine[c] => fut'[r] = fut[r]
  BY DEF Return, TimesOut, TypeOK
<1>2. Everywhere' = Everywhere /\ Results' = Results
  BY <1>1, NothingMoved
<1>3. \A d \in Caller : pc'[d] # "idle" =>
        /\ d # c /\ pc[d] # "idle" /\ mine[d] # mine[c]
        /\ mine[d] \in Rid /\ fut'[mine[d]] = fut[mine[d]]
  <2>1. \A d \in Caller : pc'[d] # "idle" => d # c /\ pc[d] # "idle" /\ mine[d] # mine[c]
    BY <1>1 DEF Requests, SessionInv
  <2>2. \A d \in Caller : pc[d] # "idle" => mine[d] \in Rid
    BY DEF Requests, SessionInv, TypeOK
  <2> QED
    BY <1>1, <2>1, <2>2
<1>4. Requests'
  BY <1>1, <1>3 DEF Requests, SessionInv
<1>5. Answers'
  BY <1>1, <1>2 DEF Answers, SessionInv
<1>6. Unanswered'
  BY <1>1, <1>2, <1>3 DEF Unanswered, SessionInv
<1>7. NotYetAsked'
  BY <1>1, <1>3 DEF NotYetAsked, SessionInv
<1>8. OnePlace'
  BY <1>1, <1>2 DEF OnePlace, SessionInv
<1>9. WaitingIsRegistered'
  BY <1>1, <1>3 DEF WaitingIsRegistered, SessionInv
<1>10. EchoReachesCaller'
  BY <1>1, <1>3 DEF EchoReachesCaller, SessionInv
<1>11. SlotMatches'
  <2>1. ASSUME NEW j \in Oneof, byOneof'[j] # NoRid
        PROVE  byOneof'[j] = byOneof[j] /\ byOneof[j] # mine[c]
    <3>1. mine[c] \in Rid /\ expects[mine[c]] \in Oneof
      BY <1>1 DEF Made, TypeOK
    <3>2. byOneof[j] = mine[c] => j = expects[mine[c]]
      BY <3>1 DEF SlotMatches, SessionInv
    <3> QED
      BY <1>1, <2>1, <3>1, <3>2 DEF Cleaned, TypeOK
  <2>2. \A r : Live(r) /\ r # mine[c] => Live(r)'
    BY <1>1 DEF Live
  <2> QED
    BY <1>1, <2>1, <2>2 DEF SlotMatches, SessionInv
<1>12. AnswersNotShared'
  BY <1>1 DEF AnswersNotShared, SessionInv
<1> QED
  BY <1>4, <1>5, <1>6, <1>7, <1>8, <1>9, <1>10, <1>11, <1>12 DEF SessionInv

(* The pendant: a new message is unlike every other.                       *)
LEMMA PendantKeeps ==
  ASSUME TypeOK, Made, SessionInv,
         (\E r \in Rid : Answer(r)) \/ (\E k \in Oneof : Unsolicited(k))
  PROVE  SessionInv'
<1>1. PICK m \in Message :
        /\ air' = air \cup {m}
        /\ m.of = NoRid => m.rid = NoRid /\ asked' = asked
        /\ m.of # NoRid => /\ m.of \in asked /\ asked' = asked \ {m.of}
                           /\ m.rid \in {NoRid, m.of} /\ m.oneof = expects[m.of]
  <2>1. ASSUME NEW r \in Rid, Answer(r)
        PROVE  \E m \in Message :
                 /\ air' = air \cup {m} /\ m.of = r
                 /\ r \in asked /\ asked' = asked \ {r}
                 /\ m.rid \in {NoRid, r} /\ m.oneof = expects[r]
    <3>1. r \in asked /\ expects[r] \in Oneof /\ asked' = asked \ {r}
      BY <2>1 DEF Answer, Made, TypeOK
    <3>2. PICK rid \in {NoRid, r} : air' = air \cup {[rid |-> rid, oneof |-> expects[r], of |-> r]}
      BY <2>1 DEF Answer
    <3>3. [rid |-> rid, oneof |-> expects[r], of |-> r] \in Message
      BY <3>1 DEF Message
    <3> QED
      BY <3>1, <3>2, <3>3
  <2>2. ASSUME NEW k \in Oneof, Unsolicited(k)
        PROVE  \E m \in Message : /\ air' = air \cup {m} /\ m.of = NoRid
                                  /\ m.rid = NoRid /\ asked' = asked
    <3>1. [rid |-> NoRid, oneof |-> k, of |-> NoRid] \in Message
      BY DEF Message
    <3> QED
      BY <2>2, <3>1 DEF Unsolicited
  <2> QED
    BY <2>1, <2>2
<1>2. UNCHANGED <<lastRid, pc, mine, expects, fut, got, pending, byOneof, inbox, seen, failed>>
  BY DEF Answer, Unsolicited
<1>3. Results' = Results /\ Everywhere' = Everywhere \cup {m}
  BY <1>1, <1>2 DEF Everywhere, Results
<1>4. m.of \in Nat /\ m.of <= lastRid /\ lastRid \in Nat
  BY <1>1 DEF Message, TypeOK
<1>5. Requests'
  BY <1>2 DEF Requests, SessionInv
<1>6. Answers'
  <2>1. m.of <= lastRid /\ m.rid \in {NoRid, m.of} /\ (m.of # NoRid => m.oneof = expects[m.of])
    BY <1>1, <1>4
  <2> QED
    BY <1>2, <1>3, <2>1 DEF Answers, SessionInv
<1>7. Unanswered'
  <2>1. m.of \notin asked'
    BY <1>1 DEF TypeOK
  <2>2. \A c \in Caller : pc[c] = "sending" => m.of # mine[c]
    BY <1>1 DEF NotYetAsked, Requests, SessionInv
  <2>3. asked' \subseteq asked
    BY <1>1
  <2> QED
    BY <1>2, <1>3, <2>1, <2>2, <2>3 DEF Unanswered, SessionInv
<1>8. NotYetAsked'
  BY <1>1, <1>2 DEF NotYetAsked, SessionInv
<1>9. OnePlace'
  <2>1. m.of # NoRid => m \notin inbox \cup Results
    BY <1>1 DEF Unanswered, SessionInv, Everywhere
  <2> QED
    BY <1>1, <1>2, <1>3, <2>1 DEF OnePlace, SessionInv
<1>10. WaitingIsRegistered' /\ EchoReachesCaller'
  BY <1>2 DEF WaitingIsRegistered, EchoReachesCaller, SessionInv
<1>11. SlotMatches'
  BY <1>2 DEF SlotMatches, Live, SessionInv
<1>12. AnswersNotShared'
  BY <1>2 DEF AnswersNotShared, SessionInv
<1> QED
  BY <1>5, <1>6, <1>7, <1>8, <1>9, <1>10, <1>11, <1>12 DEF SessionInv

(* _on_inbound moves one message: into the future it resolves or the inbox.*)
LEMMA InboundKeeps ==
  ASSUME TypeOK, Made, SessionInv, NEW m \in air, Inbound(m)
  PROVE  SessionInv'
<1>1. /\ UNCHANGED <<lastRid, pc, mine, expects, asked, failed>>
      /\ air' = air \ {m} /\ pending' = pending \ {m.rid}
      /\ seen' = seen \cup ({m.rid} \ {NoRid})
  BY DEF Inbound
<1>2. /\ m \in Everywhere /\ m \in Message /\ m # NoMessage /\ m.oneof \in Oneof
      /\ m.of \in Nat /\ m.rid \in {NoRid, m.of}
      /\ m.of # NoRid => m.oneof = expects[m.of] /\ m \notin inbox \cup Results
  BY MessageFacts DEF Everywhere, Answers, OnePlace, SessionInv
<1> DEFINE Found(r) == /\ r \in 1..lastRid /\ fut[r] = "open" /\ expects[r] = m.oneof
                       /\ Resolve(r, m)
<1>3. \/ ByRid(m) /\ Found(m.rid)
      \/ ~ByRid(m) /\ \E r \in Rid : Found(r)
      \/ ~ByRid(m) /\ inbox' = inbox \cup {m} /\ UNCHANGED <<fut, got>>
  <2>1. ByRid(m) => m.rid \in 1..lastRid /\ fut[m.rid] = "open" /\ expects[m.rid] = m.oneof
    BY <1>2 DEF ByRid, TypeOK
  <2>2. BySlot(m) => /\ byOneof[m.oneof] \in 1..lastRid /\ fut[byOneof[m.oneof]] = "open"
                     /\ expects[byOneof[m.oneof]] = m.oneof /\ ~ByRid(m)
    BY <1>2 DEF BySlot, TypeOK, SlotMatches, SessionInv
  <2>3. lastRid \in 0..MaxRid
    BY DEF TypeOK
  <2> QED
    BY <2>1, <2>2, <2>3 DEF Inbound
<1>4. \A r \in Rid : fut'[r] = fut[r] \/ fut'[r] = "done"
  BY <1>3 DEF Resolve, TypeOK
<1>5. ByRid(m) => fut'[m.rid] = "done"
  BY <1>3 DEF Resolve, TypeOK
<1> DEFINE Given(t) == /\ inbox' = inbox /\ got'[t] = m /\ \A r \in Rid \ {t} : got'[r] = got[r]
                       /\ t <= lastRid /\ m.oneof = expects[t]
<1>6. \/ got' = got /\ inbox' = inbox \cup {m}
      \/ \E t \in Rid : Given(t)
  <2>1. ASSUME NEW t \in Rid, Found(t)
        PROVE  Given(t)
    BY <2>1 DEF Resolve, TypeOK
  <2>2. Found(m.rid) => m.rid \in Rid
    BY DEF TypeOK
  <2> QED
    BY <1>3, <2>1, <2>2
<1>7. Results' \subseteq Results \cup {m} /\ inbox' \subseteq inbox \cup {m}
  <2>1. \A r \in Rid : got'[r] = got[r] \/ got'[r] = m
    BY <1>6
  <2> QED
    BY <1>6, <2>1 DEF Results
<1>8. Everywhere' \subseteq Everywhere
  BY <1>1, <1>2, <1>7 DEF Everywhere
<1>9. \A c \in Caller : pc[c] # "idle" => mine[c] \in Rid /\ fut[mine[c]] \in {"open", "done"}
  BY DEF Requests, SessionInv, TypeOK
<1>10. Requests'
  <2>1. \A c \in Caller : pc'[c] # "idle" => mine'[c] # NoRid /\ fut'[mine'[c]] \in {"open", "done"}
    BY <1>1, <1>4, <1>9
  <2> QED
    BY <1>1, <2>1 DEF Requests, SessionInv
<1>11. Answers'
  <2>1. \A r \in Rid : got'[r] # NoMessage => r <= lastRid
    <3>1. \A r \in Rid : got[r] # NoMessage => r <= lastRid
      BY DEF Answers, SessionInv
    <3> QED
      BY <1>6, <3>1
  <2> QED
    BY <1>1, <1>8, <2>1 DEF Answers, SessionInv
<1>12. Unanswered'
  BY <1>1, <1>8 DEF Unanswered, SessionInv
<1>13. NotYetAsked'
  BY <1>1 DEF NotYetAsked, SessionInv
<1>14. OnePlace'
  BY <1>1, <1>7 DEF OnePlace, SessionInv
<1>15. \A c \in Caller : pc[c] # "idle" /\ mine[c] = m.rid => fut'[mine[c]] = "done"
  <2>1. ASSUME NEW c \in Caller, pc[c] # "idle", mine[c] = m.rid, ~ByRid(m)
        PROVE  fut[mine[c]] = "done"
    <3>1. mine[c] # NoRid
      BY <1>9, <2>1
    <3>2. fut[mine[c]] = "open" => mine[c] \in pending
      BY <2>1 DEF WaitingIsRegistered, SessionInv
    <3> QED
      BY <1>9, <2>1, <3>1, <3>2 DEF ByRid
  <2> QED
    BY <1>4, <1>5, <1>9, <2>1
<1>16. WaitingIsRegistered'
  BY <1>1, <1>4, <1>9, <1>15 DEF WaitingIsRegistered, SessionInv
<1>17. EchoReachesCaller'
  BY <1>1, <1>4, <1>9, <1>15 DEF EchoReachesCaller, SessionInv
<1>18. SlotMatches'
  <2>1. \A j \in Oneof : byOneof'[j] = byOneof[j] \/ byOneof'[j] = NoRid
    BY <1>2 DEF Inbound, TypeOK
  <2>2. \A r : Live(r)' <=> Live(r)
    BY <1>1 DEF Live
  <2> QED
    BY <1>1, <2>1, <2>2 DEF SlotMatches, SessionInv
<1>19. AnswersNotShared'
  <2> SUFFICES ASSUME NEW r \in Rid, got'[r] # NoMessage
               PROVE  /\ got'[r].oneof = expects'[r]
                      /\ got'[r].of # NoRid => /\ got'[r] \notin inbox'
                                               /\ \A s \in Rid \ {r} : got'[s] # got'[r]
    BY DEF AnswersNotShared
  <2>1. m.of # NoRid => m \notin inbox /\ \A s \in Rid : got[s] # m
    BY <1>2 DEF Results
  <2>2. \A q \in Rid : got[q] # NoMessage =>
          /\ got[q].oneof = expects[q]
          /\ got[q].of # NoRid => got[q] \notin inbox /\ \A s \in Rid \ {q} : got[s] # got[q]
    BY DEF AnswersNotShared, SessionInv
  <2>3. CASE got' = got /\ inbox' = inbox \cup {m}
    BY <1>1, <2>1, <2>2, <2>3
  <2>4. ASSUME NEW t \in Rid, Given(t), r = t
        PROVE  /\ got'[r].oneof = expects'[r]
               /\ got'[r].of # NoRid => /\ got'[r] \notin inbox'
                                        /\ \A s \in Rid \ {r} : got'[s] # got'[r]
    BY <1>1, <2>1, <2>4
  <2>5. ASSUME NEW t \in Rid, Given(t), r # t
        PROVE  /\ got'[r].oneof = expects'[r]
               /\ got'[r].of # NoRid => /\ got'[r] \notin inbox'
                                        /\ \A s \in Rid \ {r} : got'[s] # got'[r]
    <3>1. got'[r] = got[r] /\ inbox' = inbox /\ got'[t] = m
      BY <2>5
    <3>2. got[r].of # NoRid => got[r] # m
      BY <2>1
    <3>3. \A s \in Rid : got'[s] = got[s] \/ s = t
      BY <2>5
    <3> QED
      BY <1>1, <2>2, <3>1, <3>2, <3>3
  <2> QED
    BY <1>6, <2>3, <2>4, <2>5
<1> QED
  BY <1>10, <1>11, <1>12, <1>13, <1>14, <1>16, <1>17, <1>18, <1>19 DEF SessionInv

LEMMA IdleKeeps == SessionInv /\ UNCHANGED vars => SessionInv'
  BY DEF vars, SessionInv, Requests, Answers, Unanswered, NotYetAsked, OnePlace, Everywhere,
         Results, WaitingIsRegistered, EchoReachesCaller, SlotMatches, Live, AnswersNotShared

LEMMA InvStep == TypeOK /\ Made /\ SessionInv /\ [Next]_vars => SessionInv'
<1> SUFFICES ASSUME TypeOK, Made, SessionInv, [Next]_vars
             PROVE  SessionInv'
  OBVIOUS
<1>1. ASSUME NEW c \in Caller, NEW k \in Oneof, Start(c, k)
      PROVE  SessionInv'
  BY <1>1, StartKeeps
<1>2. ASSUME NEW c \in Caller, Written(c) \/ SendReturns(c) \/ SendRaises(c)
      PROVE  SessionInv'
  BY <1>2, SendKeeps
<1>3. ASSUME NEW c \in Caller, Return(c) \/ TimesOut(c)
      PROVE  SessionInv'
  BY <1>3, EndKeeps
<1>4. CASE (\E r \in Rid : Answer(r)) \/ (\E k \in Oneof : Unsolicited(k))
  BY <1>4, PendantKeeps
<1>5. ASSUME NEW m \in air, Inbound(m)
      PROVE  SessionInv'
  BY <1>5, InboundKeeps
<1>6. CASE UNCHANGED vars
  BY <1>6, IdleKeeps
<1> QED
  BY <1>1, <1>2, <1>3, <1>4, <1>5, <1>6 DEF Next

(* Concurrent requests, late, missing and unasked answers, timeouts and    *)
(* failed sends never disturb the registration of another request.         *)
THEOREM SessionInvariant == Spec => []SessionInv
<1>1. Spec => [](TypeOK /\ Made)
  BY MadeInit, TypeStep, PTL DEF Spec
<1>2. TypeOK /\ Made /\ SessionInv /\ [Next]_vars => SessionInv'
  BY InvStep
<1> QED
  BY <1>1, <1>2, InvInit, PTL DEF Spec

(* An open request can be reached by its id, and no fallback is stale      *)
(* unless a send failed.                                                   *)
THEOREM RegistrationsSurvive == Spec => [](WaitingIsRegistered /\ SlotMatches)
<1>1. SessionInv => WaitingIsRegistered /\ SlotMatches
  BY DEF SessionInv
<1> QED
  BY <1>1, SessionInvariant, PTL

(* An answer that echoes the id of a request has, once it was processed,   *)
(* reached the caller that waits, whatever came or ended in between.       *)
THEOREM EchoesReachCallers == Spec => []EchoReachesCaller
<1>1. SessionInv => EchoReachesCaller
  BY DEF SessionInv
<1> QED
  BY <1>1, SessionInvariant, PTL

(* No answer is given to two requests, or to a request and the inbox.      *)
THEOREM AnswersGivenOnce == Spec => []AnswersNotShared
<1>1. SessionInv => AnswersNotShared
  BY DEF SessionInv
<1> QED
  BY <1>1, SessionInvariant, PTL

(* A request keeps its fallback until its content comes or it ends itself. *)
THEOREM FallbackKept == Spec => SlotKept
<1>1. TypeOK /\ SessionInv /\ [Next]_vars => [SlotKeptStep]_vars
  <2> SUFFICES ASSUME TypeOK, SessionInv, [Next]_vars, NEW k \in Oneof,
                      byOneof[k] # NoRid, byOneof'[k] # byOneof[k]
               PROVE  \/ \E m \in air \ air' : m.oneof = k
                      \/ \E c \in Caller : /\ mine[c] = byOneof[k]
                                           /\ pc[c] = "waiting" /\ pc'[c] = "idle"
    BY DEF SlotKeptStep
  <2>1. ASSUME NEW c \in Caller, NEW j \in Oneof, Start(c, j)
        PROVE  FALSE
    BY <2>1 DEF Start, TypeOK
  <2>2. ASSUME NEW c \in Caller, Return(c) \/ TimesOut(c)
        PROVE  mine[c] = byOneof[k] /\ pc[c] = "waiting" /\ pc'[c] = "idle"
    <3>1. byOneof' = Cleaned(mine[c]) /\ pc[c] = "waiting" /\ pc'[c] = "idle"
      BY <2>2 DEF Return, TimesOut, TypeOK
    <3> QED
      BY <3>1 DEF Cleaned, TypeOK
  <2>3. ASSUME NEW m \in air, Inbound(m)
        PROVE  m \in air \ air' /\ m.oneof = k
    BY <2>3 DEF Inbound, TypeOK
  <2>4. ASSUME UNCHANGED byOneof
        PROVE  FALSE
    BY <2>4
  <2> QED
    BY <2>1, <2>2, <2>3, <2>4
       DEF Next, Written, SendReturns, SendRaises, Answer, Unsolicited, vars
<1> QED
  BY <1>1, TypeCorrect, SessionInvariant, PTL DEF Spec, SlotKept
=============================================================================
