-------------------------- MODULE ConnectionProofs --------------------------
(***************************************************************************)
(* Theorems about Connection: what the exit of a command leaves behind.    *)
(***************************************************************************)
EXTENDS Connection, FiniteSetTheorems, SequenceTheorems, TLAPS

LEMMA BodyFacts ==
  /\ <<>> \in Body
  /\ \A b \in Body : b \in Seq(Await)
  /\ \A c \in Command : \A b \in Bodies(c) : b \in Body /\ (c # "pair" => b # <<>>)
<1>1. \A c \in Command : \A b \in Bodies(c) : b \in Seq(Await)
  <2>1. /\ {<<"write">>, <<"write", "sleep">>, <<"sleep">>, <<>>} \subseteq Seq(Await)
        /\ {<<"read", "write", "write", "answer">>, <<"read", "write", "answer">>} \subseteq Seq(Await)
        /\ {<<"write", "write", "get">>, <<"write", "get">>} \subseteq Seq(Await)
        /\ {<<"write", "answer", "write", "get">>,
            <<"write", "answer", "write", "write", "get">>} \subseteq Seq(Await)
    BY DEF Await
  <2>2. /\ Bodies("unpair") = {<<"write">>}
        /\ Bodies("set_time") = {<<"write">>}
        /\ Bodies("clear_storage") = {<<"write">>}
    BY DEF Bodies, Resets, OnewayBodies, ResetBodies, InfoBodies, DebugBodies, InspectBodies,
           CaptureBodies, SyncBodies, EnrollBodies
  <2>3. \A c \in Resets : Bodies(c) = {<<"write", "sleep">>}
    BY DEF Bodies, Resets, OnewayBodies, ResetBodies, InfoBodies, DebugBodies, InspectBodies,
           CaptureBodies, SyncBodies, EnrollBodies
  <2>4. /\ Bodies("info") = {<<"read", "write", "write", "answer">>, <<"read", "write", "answer">>}
        /\ Bodies("debug") = {<<"write", "sleep">>, <<"sleep">>}
        /\ Bodies("inspect") = {<<"write", "write", "get">>}
        /\ Bodies("capture") = {<<"write", "get">>}
        /\ Bodies("sync") = {<<"write", "answer", "write", "get">>,
                             <<"write", "answer", "write", "write", "get">>}
        /\ Bodies("enroll_voice") = {<<"write", "answer", "write", "get">>}
        /\ Bodies("pair") = {<<>>}
    BY DEF Bodies, Resets, OnewayBodies, ResetBodies, InfoBodies, DebugBodies, InspectBodies,
           CaptureBodies, SyncBodies, EnrollBodies
  <2> QED
    BY <2>1, <2>2, <2>3, <2>4 DEF Command
<1>2. \A c \in Command : \A b \in Bodies(c) : c # "pair" => b # <<>>
  BY DEF Command, Resets, Bodies, OnewayBodies, ResetBodies, InfoBodies, DebugBodies, InspectBodies,
         CaptureBodies, SyncBodies, EnrollBodies
<1>3. <<>> \in Bodies("pair") /\ "pair" \in Command
  BY DEF Command, Resets, Bodies, OnewayBodies, ResetBodies, InfoBodies, DebugBodies, InspectBodies,
         CaptureBodies, SyncBodies, EnrollBodies
<1> QED
  BY <1>1, <1>2, <1>3 DEF Body

LEMMA ExitCodes ==
  ASSUME NEW c, NEW e \in Exc
  PROVE  /\ ExitCode(c, e) \in 0..2
         /\ e = "none" => ExitCode(c, e) = 0
         /\ ExitCode(c, e) = 2 => e = "notpaired"
BY DEF ExitCode, Exc

(* Every variable of Connection keeps its type; that the place in the body  *)
(* exists needs that only `pair`, which has no body, is without awaits.     *)
TypeInv ==
  /\ TypeOK
  /\ pc \in Entering \ {"connect"} => body # <<>>
  /\ pc = "connect" /\ cmd # "pair" => body # <<>>
  /\ pc \in Entering => at = 1

THEOREM TypeCorrect == Spec => []TypeOK
<1> USE DEF Entering
<1>1. Init => TypeInv
  <2> SUFFICES ASSUME Init PROVE TypeInv
    OBVIOUS
  <2> USE DEF Init
  <2>1. body \in Body /\ at \in Nat \ {0} /\ sent \in Nat /\ rc \in 0..2
    BY BodyFacts
  <2>2. TypeOK
    BY <2>1 DEF TypeOK, Exc, NoCommand
  <2> QED
    BY <2>2 DEF TypeInv
<1>2. TypeInv /\ [Next]_vars => TypeInv'
  <2> SUFFICES ASSUME TypeInv, [Next]_vars PROVE TypeInv'
    OBVIOUS
  <2> USE DEF TypeInv, TypeOK
  <2>0. /\ body \in Seq(Await) /\ Len(body) \in Nat /\ DOMAIN body = 1..Len(body)
        /\ (body # <<>> => 1 \in DOMAIN body)
    BY BodyFacts
  <2>1. \A e \in Exc : Exit(e) => pc' = "over" /\ exc' \in Exc /\ rc' \in 0..2
    BY ExitCodes DEF Exit
  <2>2. \A e \in Exc : Leave(e) =>
          pc' \in {"stop_notify", "disconnect"} /\ exc' \in Exc /\ raised' \in Exc
    BY DEF Leave
  <2>3. \A e \in Exc : Abandon(e) =>
          /\ pc' = "over" /\ exc' \in Exc /\ rc' \in 0..2
          /\ skipped' \subseteq {"enter", "interrupted", "stack"}
    BY <2>1 DEF Abandon
  <2>4. "none" \in Exc /\ "error" \in Exc /\ "notpaired" \in Exc /\ "cancelled" \in Exc
    BY DEF Exc
  <2>5. ASSUME NEW c \in Command, Begin(c) PROVE TypeInv'
    <3>1. body' \in Body /\ (c # "pair" => body' # <<>>)
      BY <2>5, BodyFacts DEF Begin
    <3>2. at' \in Nat \ {0} /\ sent' \in Nat
      BY <2>5 DEF Begin
    <3> QED
      BY <2>4, <2>5, <3>1, <3>2 DEF Begin
  <2>6. CASE Connect
    <3>1. CASE Abandon("error") /\ link' \in BOOLEAN
      BY <2>3, <2>4, <2>6, <3>1 DEF Connect
    <3>2. CASE UNCHANGED <<exc, rc, skipped>>
      BY <2>6, <3>2 DEF Connect, Abandon, Exit
    <3> QED
      BY <2>6, <3>1, <3>2 DEF Connect
  <2>7. CASE ExchangeMtu
    BY <2>0, <2>3, <2>4, <2>7 DEF ExchangeMtu, Inspect
  <2>8. CASE Settle \/ Pair \/ StartNotify
    BY <2>0, <2>3, <2>4, <2>8 DEF Settle, Inspect, Pair, Bonds, StartNotify
  <2>9. ASSUME Proceed, pc = "body" PROVE
          /\ at' \in Nat \ {0} /\ exc' \in Exc /\ raised' \in Exc
          /\ pc' \in {"body", "stop_notify", "disconnect"}
          /\ pc' = "body" => at' \in DOMAIN body
    <3>1. exc \in Exc
      OBVIOUS
    <3>2. CASE at = Len(body)
      <4>1. Leave(exc)
        BY <2>9, <3>2 DEF Proceed
      <4>2. at' \in Nat \ {0}
        BY <2>9 DEF Proceed
      <4>3. pc' \in {"stop_notify", "disconnect"} /\ exc' = exc /\ raised' = exc
        BY <4>1 DEF Leave
      <4> QED
        BY <3>1, <4>2, <4>3
    <3>3. CASE at # Len(body)
      <4>1. at' = at + 1 /\ pc' = "body" /\ exc' = exc /\ raised' = raised
        BY <2>9, <3>3 DEF Proceed
      <4>2. at \in 1..Len(body)
        BY <2>0, <2>9
      <4>3. \A n \in Nat : \A i \in 1..n : i # n => i + 1 \in 1..n /\ i + 1 \in Nat \ {0}
        OBVIOUS
      <4>4. at + 1 \in 1..Len(body) /\ at + 1 \in Nat \ {0}
        BY <2>0, <3>3, <4>2, <4>3
      <4> QED
        BY <2>0, <3>1, <4>1, <4>4
    <3> QED
      BY <3>2, <3>3
  <2>10. Arrives \/ Lost => sent' \in Nat /\ arrived' \in BOOLEAN /\ bond' \in {"ours", "free", "other"}
    <3>1. Arrives => sent' \in Nat /\ arrived' \in BOOLEAN /\ bond' \in {"ours", "free"}
      BY DEF Arrives, Unbonds
    <3>2. Lost => sent' = sent /\ arrived' = FALSE /\ bond' = bond
      BY DEF Lost
    <3> QED
      BY <3>1, <3>2
  <2>11. CASE Write
    BY <2>2, <2>4, <2>9, <2>10, <2>11 DEF Write, Doing
  <2>12. CASE Answer \/ Pause
    BY <2>2, <2>4, <2>9, <2>12 DEF Answer, Pause, Doing
  <2>13. CASE Stop \/ PairCommand
    BY <2>2, <2>4, <2>13 DEF Stop, PairCommand, Bonds
  <2>14. CASE StopNotify
    BY <2>14 DEF StopNotify
  <2>15. CASE Disconnect
    BY <2>1, <2>4, <2>15 DEF Disconnect, Continue
  <2>16. CASE Cancel
    <3>1. CASE CancelEnter
      BY <2>3, <2>4, <3>1 DEF CancelEnter
    <3>2. CASE CancelBody
      BY <2>2, <2>4, <2>10, <3>2 DEF CancelBody
    <3>3. CASE CancelPair
      BY <2>4, <3>3 DEF CancelPair
    <3>4. CASE CancelCleanUp \/ CancelAfter
      BY <2>1, <2>4, <3>4 DEF CancelCleanUp, CancelAfter
    <3> QED
      BY <2>16, <3>1, <3>2, <3>3, <3>4 DEF Cancel
  <2>17. CASE MessageArrives \/ LinkDrop
    BY <2>17 DEF MessageArrives, LinkDrop
  <2>18. CASE UNCHANGED vars
    BY <2>18 DEF vars
  <2>19. CASE After
    BY <2>1, <2>4, <2>19 DEF After
  <2>20. CASE Get \/ IdleTimeout
    BY <2>4, <2>20 DEF Get, IdleTimeout, Doing
  <2> QED
    BY <2>5, <2>6, <2>7, <2>8, <2>11, <2>12, <2>13, <2>14, <2>15, <2>16, <2>17, <2>18, <2>19,
       <2>20
       DEF Next, Host, Enter, Work, CleanUp
<1> QED
  BY <1>1, <1>2, PTL DEF Spec, TypeInv

-----------------------------------------------------------------------------
(* A command that has exited has let the link go, but for the three reasons *)
(* it cannot do so.  The property is inductive as it stands.                *)
THEOREM LinkIsReleased == Spec => []Released
<1>1. Init => Released
  BY DEF Init, Released
<1>2. Released /\ [Next]_vars => Released'
  <2> SUFFICES ASSUME Released, [Next]_vars PROVE Released'
    OBVIOUS
  <2>1. ASSUME NEW c \in Command, Begin(c) PROVE Released'
    BY <2>1 DEF Begin, Released
  <2>2. \A e : Abandon(e) => skipped' # {}
    BY DEF Abandon
  <2>3. CASE Enter
    BY <2>2, <2>3
       DEF Enter, Connect, ExchangeMtu, Inspect, Settle, Pair, StartNotify, Released
  <2>4. \A e : Leave(e) => pc' \notin {"after", "over"}
    BY DEF Leave
  <2>5. Proceed => pc' \notin {"after", "over"}
    BY <2>4 DEF Proceed, Leave
  <2>6. CASE Work
    BY <2>4, <2>5, <2>6
       DEF Work, Write, Answer, Pause, Get, IdleTimeout, Stop, PairCommand, Doing, Released
  <2>7. CASE CleanUp
    BY <2>7 DEF CleanUp, StopNotify, Disconnect, After, Released
  <2>8. CASE Cancel
    BY <2>2, <2>4, <2>8
       DEF Cancel, CancelEnter, CancelBody, CancelPair, CancelCleanUp, CancelAfter, Released
  <2>9. CASE MessageArrives \/ LinkDrop
    BY <2>9 DEF MessageArrives, LinkDrop, Released
  <2>10. CASE UNCHANGED vars
    BY <2>10 DEF vars, Released
  <2> QED
    BY <2>1, <2>3, <2>6, <2>7, <2>8, <2>9, <2>10 DEF Next, Host
<1> QED
  BY <1>1, <1>2, PTL DEF Spec

(* What is in flight when __aexit__ is called stays in flight through its   *)
(* two steps; only `pair` disconnects without having been in a session, and *)
(* only a body that succeeded goes on after it.                             *)
MaskInv ==
  /\ NotMasked
  /\ pc = "pair" => cmd = "pair"
  /\ pc \in {"stop_notify", "disconnect"} /\ cmd # "pair" => exc = raised
  /\ pc = "after" => cmd \in GoingOn /\ raised = "none"

(* The clean-up does not mask what sent the command into it.                *)
THEOREM ExceptionsAreKept == Spec => []NotMasked
<1>1. Init => MaskInv
  BY DEF Init, MaskInv, NotMasked
<1>2. TypeOK /\ MaskInv /\ [Next]_vars => MaskInv'
  <2> SUFFICES ASSUME TypeOK, MaskInv, [Next]_vars PROVE MaskInv'
    OBVIOUS
  <2> USE DEF MaskInv
  <2>1. ASSUME NEW c \in Command, Begin(c) PROVE MaskInv'
    BY <2>1 DEF Begin, NotMasked
  <2>2. \A e : Abandon(e) => pc' = "over" /\ "enter" \in skipped'
    BY DEF Abandon, Exit
  <2>3. CASE Enter
    BY <2>2, <2>3
       DEF Enter, Connect, ExchangeMtu, Inspect, Settle, Pair, StartNotify, NotMasked
  <2>4. \A e : Leave(e) => pc' \in {"stop_notify", "disconnect"} /\ exc' = raised'
    BY DEF Leave
  <2>5. Proceed => pc' = "body" \/ (pc' \in {"stop_notify", "disconnect"} /\ exc' = raised')
    BY DEF Proceed, Leave
  <2>6. CASE Write \/ Answer \/ Pause
    BY <2>4, <2>5, <2>6 DEF Write, Answer, Pause, NotMasked
  <2>7. CASE Get \/ IdleTimeout \/ Stop \/ PairCommand
    BY <2>4, <2>7 DEF Get, IdleTimeout, Stop, PairCommand, Doing, NotMasked
  <2>8. CASE StopNotify
    BY <2>8 DEF StopNotify, NotMasked
  <2>9. CASE Disconnect
    <3>1. exc = "none" => ExitCode(cmd, exc) = 0
      BY DEF ExitCode
    <3> QED
      BY <2>9, <3>1 DEF Disconnect, Continue, GoingOn, Exit, NotMasked
  <2>10. CASE CancelEnter \/ CancelCleanUp
    BY <2>2, <2>10 DEF CancelEnter, CancelCleanUp, Exit, NotMasked
  <2>11. CASE CancelBody \/ CancelPair
    BY <2>4, <2>11 DEF CancelBody, CancelPair, NotMasked
  <2>12. CASE MessageArrives \/ LinkDrop
    BY <2>12 DEF MessageArrives, LinkDrop, NotMasked
  <2>13. CASE UNCHANGED vars
    BY <2>13 DEF vars, NotMasked
  <2>14. CASE After \/ CancelAfter
    BY <2>14 DEF After, CancelAfter, Exit, NotMasked
  <2> QED
    BY <2>1, <2>3, <2>6, <2>7, <2>8, <2>9, <2>10, <2>11, <2>12, <2>13, <2>14
       DEF Next, Host, Work, CleanUp, Cancel
<1> QED
  BY <1>1, <1>2, TypeCorrect, PTL DEF Spec, MaskInv

(* A PendantNotPairedError comes of a write refused in this connection, and *)
(* nothing bonds the pendant between that and the exit.                     *)
RefusalInv ==
  /\ TwoMeansRefused
  /\ exc = "notpaired" => bond # "ours"
  /\ pc \in Entering \cup {"pair", "after"} => exc = "none"

(* Exit code 2 is given only where the pendant refused a write, or by      *)
(* enroll-voice for what went wrong after its session.                     *)
THEOREM AdviceIsDue == Spec => []TwoMeansRefused
<1> USE DEF Entering
<1>1. Init => RefusalInv
  BY DEF Init, RefusalInv, TwoMeansRefused
<1>2. TypeOK /\ RefusalInv /\ [Next]_vars => RefusalInv'
  <2> SUFFICES ASSUME TypeOK, RefusalInv, [Next]_vars PROVE RefusalInv'
    OBVIOUS
  <2> USE DEF RefusalInv, TwoMeansRefused
  <2>1. ASSUME NEW c \in Command, Begin(c) PROVE RefusalInv'
    BY <2>1 DEF Begin
  <2>2. \A e \in Exc : Exit(e) => pc' = "over" /\ exc' = e /\ (rc' = 2 => e = "notpaired")
    BY ExitCodes DEF Exit
  <2>3. exc \in Exc /\ "error" \in Exc /\ "cancelled" \in Exc
    BY DEF Exc, TypeOK
  <2>4. CASE Enter
    BY <2>2, <2>3, <2>4
       DEF Enter, Connect, ExchangeMtu, Inspect, Settle, Pair, Bonds, StartNotify, Abandon
  <2>5. \A e : Leave(e) => pc' \in {"stop_notify", "disconnect"} /\ exc' = e
    BY DEF Leave
  <2>6. Proceed => exc' = exc /\ pc' \in {"body", "stop_notify", "disconnect"}
    BY DEF Proceed, Leave
  <2>7. CASE Write
    BY <2>5, <2>6, <2>7 DEF Write, Arrives, Lost
  <2>8. CASE Answer \/ Pause
    BY <2>5, <2>6, <2>8 DEF Answer, Pause
  <2>9. CASE Get \/ IdleTimeout \/ Stop \/ PairCommand
    BY <2>5, <2>9 DEF Get, IdleTimeout, Stop, PairCommand, Doing, Bonds
  <2>10. CASE StopNotify
    BY <2>10 DEF StopNotify
  <2>11. CASE Disconnect
    BY <2>2, <2>3, <2>11 DEF Disconnect, Continue
  <2>12. CASE Cancel
    BY <2>2, <2>3, <2>5, <2>12
       DEF Cancel, CancelEnter, CancelBody, CancelPair, CancelCleanUp, CancelAfter, Abandon,
           Arrives
  <2>13. CASE MessageArrives \/ LinkDrop
    BY <2>13 DEF MessageArrives, LinkDrop
  <2>14. CASE UNCHANGED vars
    BY <2>14 DEF vars
  <2>15. CASE After
    <3>1. CASE Exit("none") \/ Exit("error")
      BY <2>2, <2>15, <3>1 DEF After, Exc
    <3>2. CASE cmd = "enroll_voice" /\ pc' = "over" /\ rc' = 2 /\ UNCHANGED exc
      BY <2>15, <3>2 DEF After
    <3> QED
      BY <2>15, <3>1, <3>2 DEF After
  <2> QED
    BY <2>1, <2>4, <2>7, <2>8, <2>9, <2>10, <2>11, <2>12, <2>13, <2>14, <2>15
       DEF Next, Host, Work, CleanUp
<1> QED
  BY <1>1, <1>2, TypeCorrect, PTL DEF Spec, RefusalInv

-----------------------------------------------------------------------------
(* What exit code 0 says of the commands sent.                             *)

\* The wait for pages is the last of a body.
LEMMA GetIsLast == \A b \in Body : \A i \in DOMAIN b : b[i] = "get" => i = Len(b)
<1>1. \A b \in OnewayBodies \cup ResetBodies \cup InfoBodies \cup DebugBodies \cup {<<>>} :
        \A i \in DOMAIN b : b[i] # "get"
  BY DEF OnewayBodies, ResetBodies, InfoBodies, DebugBodies
<1>2. \A b \in InspectBodies \cup CaptureBodies \cup SyncBodies \cup EnrollBodies :
        \A i \in DOMAIN b : b[i] = "get" => i = Len(b)
  <2>1. \A i \in DOMAIN <<"write", "write", "get">> :
          <<"write", "write", "get">>[i] = "get" => i = Len(<<"write", "write", "get">>)
    OBVIOUS
  <2>2. \A i \in DOMAIN <<"write", "get">> :
          <<"write", "get">>[i] = "get" => i = Len(<<"write", "get">>)
    OBVIOUS
  <2>3. \A i \in DOMAIN <<"write", "answer", "write", "get">> :
          <<"write", "answer", "write", "get">>[i] = "get"
            => i = Len(<<"write", "answer", "write", "get">>)
    OBVIOUS
  <2>4. \A i \in DOMAIN <<"write", "answer", "write", "write", "get">> :
          <<"write", "answer", "write", "write", "get">>[i] = "get"
            => i = Len(<<"write", "answer", "write", "write", "get">>)
    OBVIOUS
  <2> QED
    BY <2>1, <2>2, <2>3, <2>4 DEF InspectBodies, CaptureBodies, SyncBodies, EnrollBodies
<1>3. \A c \in Command : Bodies(c) \subseteq
        (OnewayBodies \cup ResetBodies \cup InfoBodies \cup DebugBodies \cup {<<>>})
          \cup (InspectBodies \cup CaptureBodies \cup SyncBodies \cup EnrollBodies)
  BY DEF Command, Resets, Bodies
<1> QED
  BY <1>1, <1>2, <1>3 DEF Body

\* The writes of a body before its await k.
WritesBefore(b, k) == {i \in DOMAIN b : i < k /\ b[i] = "write"}

LEMMA WritesCounted ==
  ASSUME NEW b \in Body, NEW k \in DOMAIN b
  PROVE  /\ Cardinality(WritesBefore(b, k)) \in Nat
         /\ Cardinality(WritesBefore(b, k + 1)) =
              Cardinality(WritesBefore(b, k)) + (IF b[k] = "write" THEN 1 ELSE 0)
         /\ k = Len(b) => WritesBefore(b, k + 1) = {i \in DOMAIN b : b[i] = "write"}
<1>1. DOMAIN b = 1..Len(b) /\ Len(b) \in Nat
  BY BodyFacts, LenProperties
<1>2. IsFiniteSet(1..Len(b))
  BY <1>1, FS_Interval
<1>3. WritesBefore(b, k) \subseteq 1..Len(b)
  BY <1>1 DEF WritesBefore
<1>4. IsFiniteSet(WritesBefore(b, k))
  BY <1>2, <1>3, FS_Subset
<1>5. k \notin WritesBefore(b, k)
  BY <1>1 DEF WritesBefore
<1>6. WritesBefore(b, k + 1) =
        IF b[k] = "write" THEN WritesBefore(b, k) \cup {k} ELSE WritesBefore(b, k)
  BY <1>1 DEF WritesBefore
<1>7. k = Len(b) => WritesBefore(b, k + 1) = {i \in DOMAIN b : b[i] = "write"}
  BY <1>1 DEF WritesBefore
<1>8. Cardinality(WritesBefore(b, k)) \in Nat
  BY <1>4, FS_CardinalityType
<1>9. Cardinality(WritesBefore(b, k) \cup {k}) = Cardinality(WritesBefore(b, k)) + 1
  BY <1>4, <1>5, FS_AddElement
<1> QED
  BY <1>6, <1>7, <1>8, <1>9

(* All that was to be sent was, as far as the process can know.            *)
Sent ==
  /\ respond => sent = Writes
  /\ (\E i \in DOMAIN body : body[i] = "answer") => sent > 0

(* Up to the await at which the body stands.                               *)
SentSoFar ==
  /\ respond => sent = Cardinality(WritesBefore(body, at))
  /\ \A i \in DOMAIN body : i < at /\ body[i] = "answer" => sent > 0

ReachInv ==
  /\ arrived => sent > 0
  /\ pc \in Entering \cup {"pair"} => sent = 0 /\ at = 1
  /\ pc \in {"connect", "pair"} /\ cmd = "pair" => body = <<>>
  /\ pc = "pair" => cmd = "pair"
  /\ pc \in Entering \cup {"pair", "body", "after"} => exc = "none"
  /\ pc = "body" => SentSoFar
  /\ pc \in {"stop", "stop_notify", "disconnect", "after"} /\ exc = "none" => Sent
  /\ SuccessMeansReached

LEMMA ReachStep == TypeOK /\ ReachInv /\ [Next]_vars => ReachInv'
<1> SUFFICES ASSUME TypeOK, ReachInv, [Next]_vars PROVE ReachInv'
  OBVIOUS
<1> USE DEF Entering
<1>0. /\ body \in Body /\ at \in Nat /\ sent \in Nat /\ exc \in Exc
      /\ respond \in BOOLEAN /\ arrived \in BOOLEAN
      /\ pc = "body" => at \in DOMAIN body
      /\ DOMAIN body = 1..Len(body) /\ Len(body) \in Nat
  BY BodyFacts, LenProperties DEF TypeOK
<1> USE DEF ReachInv
\* Only an exit without an exception, or of a reset, has code 0.
<1>1. \A e \in Exc \ {"none"} : Exit(e) => pc' = "over" /\ (rc' = 0 => cmd \in Resets)
  BY DEF Exit, ExitCode, Exc
<1>2. \A e \in Exc \ {"none"} : Leave(e) =>
        pc' \in {"stop_notify", "disconnect"} /\ exc' = e
  BY DEF Leave
<1>3. \A e \in Exc \ {"none"} : Abandon(e) => pc' = "over" /\ (rc' = 0 => cmd \in Resets)
  BY <1>1 DEF Abandon
<1>4. "error" \in Exc \ {"none"} /\ "notpaired" \in Exc \ {"none"} /\ "cancelled" \in Exc \ {"none"}
  BY DEF Exc
<1>5. UNCHANGED <<cmd, body, respond, sent>> => (Sent => Sent')
  BY DEF Sent, Writes
<1>6. ASSUME UNCHANGED <<cmd, body, respond>>, pc' = "over", rc' = 0 => cmd \in Resets,
             arrived' => sent' > 0
      PROVE  ReachInv'
  BY <1>6 DEF SuccessMeansReached
<1>7. ASSUME UNCHANGED <<cmd, body, respond>>, pc' \in {"stop", "stop_notify", "disconnect"},
             exc' # "none", arrived' => sent' > 0
      PROVE  ReachInv'
  BY <1>7 DEF SuccessMeansReached
\* Awaits that end the body or go on to its next await.
<1>8. ASSUME UNCHANGED <<cmd, body, respond>>, pc = "body", Proceed,
             arrived' => sent' > 0, sent' \in Nat, sent' >= sent,
             respond => sent' = sent + (IF body[at] = "write" THEN 1 ELSE 0),
             body[at] = "answer" => sent' > 0
      PROVE  ReachInv'
  <2>1. /\ Cardinality(WritesBefore(body, at)) \in Nat
        /\ Cardinality(WritesBefore(body, at + 1)) =
             Cardinality(WritesBefore(body, at)) + (IF body[at] = "write" THEN 1 ELSE 0)
        /\ at = Len(body) => WritesBefore(body, at + 1) = {i \in DOMAIN body : body[i] = "write"}
    BY <1>0, <1>8, WritesCounted
  <2>2. respond => sent' = Cardinality(WritesBefore(body, at + 1))
    BY <1>0, <1>8, <2>1 DEF SentSoFar
  <2>3. \A i \in DOMAIN body : i < at + 1 /\ body[i] = "answer" => sent' > 0
    <3> SUFFICES ASSUME NEW i \in DOMAIN body, i < at + 1, body[i] = "answer" PROVE sent' > 0
      OBVIOUS
    <3>1. CASE i = at
      BY <1>8, <3>1
    <3>2. CASE i # at
      <4>1. i < at
        BY <1>0, <3>2
      <4>2. sent > 0
        BY <1>8, <4>1 DEF SentSoFar
      <4> QED
        BY <1>0, <1>8, <4>2
    <3> QED
      BY <3>1, <3>2
  <2>4. CASE at = Len(body)
    <3>1. pc' \in {"stop_notify", "disconnect"} /\ exc' = "none"
      BY <1>8, <2>4 DEF Proceed, Leave
    <3>2. respond' => sent' = Writes'
      BY <1>8, <2>1, <2>2, <2>4 DEF Writes
    <3>3. (\E i \in DOMAIN body' : body'[i] = "answer") => sent' > 0
      BY <1>0, <1>8, <2>3, <2>4
    <3>4. Sent'
      BY <3>2, <3>3 DEF Sent
    <3> QED
      BY <1>8, <3>1, <3>4 DEF SuccessMeansReached
  <2>5. CASE at # Len(body)
    <3>1. at' = at + 1 /\ pc' = "body" /\ exc' = "none"
      BY <1>8, <2>5 DEF Proceed
    <3>2. SentSoFar'
      BY <1>8, <2>2, <2>3, <3>1 DEF SentSoFar, WritesBefore
    <3> QED
      BY <1>8, <3>1, <3>2 DEF SuccessMeansReached
  <2> QED
    BY <2>4, <2>5
<1>9. Arrives => sent' = sent + 1 /\ arrived' /\ sent' > 0 /\ sent' \in Nat
  BY <1>0 DEF Arrives
<1>10. Lost => sent' = sent /\ arrived' = FALSE
  BY DEF Lost
<1>11. ASSUME NEW c \in Command, Begin(c) PROVE ReachInv'
  <2>1. c = "pair" => body' = <<>>
    BY <1>11 DEF Begin, Bodies, Resets
  <2> QED
    BY <1>11, <2>1 DEF Begin, SuccessMeansReached
<1>12. CASE Connect
  <2>1. UNCHANGED <<cmd, body, at, respond, arrived, sent>> /\ pc = "connect"
    BY <1>12 DEF Connect
  <2>2. CASE pc' = (IF cmd = "pair" THEN "pair" ELSE "mtu") /\ UNCHANGED <<exc, rc, skipped>>
    BY <2>1, <2>2 DEF SuccessMeansReached
  <2>3. CASE Abandon("error")
    BY <1>3, <1>4, <1>6, <2>1, <2>3
  <2> QED
    BY <1>12, <2>2, <2>3 DEF Connect
<1>13. CASE ExchangeMtu
  <2>1. UNCHANGED <<cmd, body, at, arrived, sent>> /\ pc = "mtu"
    BY <1>13 DEF ExchangeMtu
  <2>2. CASE pc' \in {"settle", "bond"} /\ UNCHANGED exc
    BY <2>1, <2>2 DEF SuccessMeansReached
  <2>3. CASE Abandon("error") /\ UNCHANGED respond
    BY <1>3, <1>4, <1>6, <2>1, <2>3
  <2> QED
    BY <1>13, <2>2, <2>3 DEF ExchangeMtu, Inspect
<1>14. CASE Settle \/ Pair
  <2>1. /\ UNCHANGED <<cmd, body, at, arrived, sent, exc>>
        /\ pc \in {"settle", "bond"} /\ pc' \in {"bond", "notify"}
    BY <1>14 DEF Settle, Inspect, Pair
  <2> QED
    BY <2>1 DEF SuccessMeansReached
<1>15. CASE StartNotify
  <2>1. UNCHANGED <<cmd, body, at, respond, arrived, sent>> /\ pc = "notify"
    BY <1>15 DEF StartNotify
  <2>2. CASE pc' = "body" /\ UNCHANGED <<exc, rc, skipped>>
    <3>1. at = 1 /\ sent = 0
      BY <2>1
    <3>2. WritesBefore(body, at) = {} /\ \A i \in DOMAIN body : ~(i < at)
      BY <1>0, <3>1 DEF WritesBefore
    <3>3. Cardinality(WritesBefore(body, at)) = 0
      BY <3>2, FS_EmptySet
    <3>4. SentSoFar
      BY <3>1, <3>2, <3>3 DEF SentSoFar
    <3>5. SentSoFar'
      BY <2>1, <3>4 DEF SentSoFar, WritesBefore
    <3> QED
      BY <2>1, <2>2, <3>5 DEF SuccessMeansReached
  <2>3. CASE Abandon("error")
    BY <1>3, <1>4, <1>6, <2>1, <2>3
  <2> QED
    BY <1>15, <2>2, <2>3 DEF StartNotify
<1>16. CASE Write
  <2>1. UNCHANGED <<cmd, body, respond>> /\ pc = "body" /\ body[at] = "write"
    BY <1>16 DEF Write, Doing
  <2>2. Arrives \/ Lost
    BY <1>16 DEF Write
  <2>3. CASE (Arrives \/ (~respond /\ link /\ Lost)) /\ Proceed
    <3>1. CASE Arrives
      BY <1>0, <1>8, <1>9, <2>1, <2>3, <3>1
    <3>2. CASE ~respond /\ Lost
      BY <1>0, <1>8, <1>10, <2>1, <2>3, <3>2
    <3> QED
      BY <2>3, <3>1, <3>2
  <2>4. CASE Leave("notpaired") \/ Leave("error")
    BY <1>2, <1>4, <1>7, <1>9, <1>10, <2>1, <2>2, <2>4
  <2> QED
    BY <1>16, <2>3, <2>4 DEF Write
<1>17. CASE Answer
  <2>1. UNCHANGED <<cmd, body, respond, arrived, sent>> /\ pc = "body" /\ body[at] = "answer"
    BY <1>17 DEF Answer, Doing
  <2>2. CASE arrived /\ Proceed
    BY <1>0, <1>8, <2>1, <2>2
  <2>3. CASE Leave("error")
    BY <1>2, <1>4, <1>7, <2>1, <2>3
  <2> QED
    BY <1>17, <2>2, <2>3 DEF Answer
<1>18. CASE Pause
  <2>1. /\ UNCHANGED <<cmd, body, respond, arrived, sent>> /\ pc = "body"
        /\ body[at] \in {"read", "sleep"} /\ Proceed
    BY <1>18 DEF Pause, Doing
  <2> QED
    BY <1>0, <1>8, <2>1
<1>19. CASE IdleTimeout
  <2>1. /\ UNCHANGED <<cmd, body, at, exc, respond, arrived, sent>>
        /\ pc = "body" /\ body[at] = "get" /\ pc' = "stop"
    BY <1>19 DEF IdleTimeout, Doing
  <2>2. at = Len(body) /\ at \in DOMAIN body
    BY <1>0, <2>1, GetIsLast
  <2>3. /\ Cardinality(WritesBefore(body, at)) \in Nat
        /\ Cardinality(WritesBefore(body, at + 1)) = Cardinality(WritesBefore(body, at)) + 0
        /\ WritesBefore(body, at + 1) = {i \in DOMAIN body : body[i] = "write"}
    BY <1>0, <2>1, <2>2, WritesCounted
  <2>4. respond => sent = Writes
    BY <2>1, <2>3 DEF SentSoFar, Writes
  <2>5. \A i \in DOMAIN body : body[i] = "answer" => sent > 0
    BY <1>0, <2>1, <2>2 DEF SentSoFar
  <2>6. Sent'
    BY <1>5, <2>1, <2>4, <2>5 DEF Sent
  <2> QED
    BY <2>1, <2>6 DEF SuccessMeansReached
<1>20. CASE Stop
  <2>1. UNCHANGED <<cmd, body, at, respond, arrived, sent>> /\ pc = "stop"
    BY <1>20 DEF Stop
  <2>2. CASE Leave(exc)
    <3>1. pc' \in {"stop_notify", "disconnect"} /\ exc' = exc
      BY <2>2 DEF Leave
    <3> QED
      BY <1>5, <2>1, <3>1 DEF SuccessMeansReached
  <2>3. CASE Leave("error") \/ Leave("notpaired")
    BY <1>2, <1>4, <1>7, <2>1, <2>3
  <2> QED
    BY <1>20, <2>2, <2>3 DEF Stop
<1>21. CASE PairCommand \/ CancelPair
  <2>1. UNCHANGED <<cmd, body, at, respond, arrived, sent>> /\ pc = "pair" /\ pc' = "disconnect"
    BY <1>21 DEF PairCommand, CancelPair
  <2>2. body = <<>> /\ sent = 0
    BY <2>1
  <2>3. {i \in DOMAIN body : body[i] = "write"} = {} /\ DOMAIN body = {}
    BY <2>2
  <2>4. Sent
    BY <2>2, <2>3, FS_EmptySet DEF Sent, Writes
  <2> QED
    BY <1>5, <2>1, <2>4 DEF SuccessMeansReached
<1>22. CASE StopNotify
  <2>1. /\ UNCHANGED <<cmd, body, at, respond, arrived, sent, exc>>
        /\ pc = "stop_notify" /\ pc' = "disconnect"
    BY <1>22 DEF StopNotify
  <2> QED
    BY <1>5, <2>1 DEF SuccessMeansReached
<1>23. CASE Disconnect
  <2>1. UNCHANGED <<cmd, body, at, respond, arrived, sent>> /\ pc = "disconnect"
    BY <1>23 DEF Disconnect
  <2>2. CASE Exit(exc) /\ exc = "none"
    <3>1. pc' = "over" /\ exc' = "none" /\ Sent'
      BY <1>5, <2>1, <2>2 DEF Exit
    <3> QED
      BY <2>1, <3>1 DEF SuccessMeansReached, Sent
  <2>3. CASE Exit(exc) /\ exc # "none"
    BY <1>0, <1>1, <1>6, <2>1, <2>3
  <2>4. CASE Exit("error")
    BY <1>1, <1>4, <1>6, <2>1, <2>4
  <2>5. CASE exc = "none" /\ pc' = "after" /\ UNCHANGED <<exc, rc>>
    BY <1>5, <2>1, <2>5 DEF SuccessMeansReached
  <2>6. Continue("error") => Exit("error")
    BY DEF Continue
  <2>7. Continue(exc) => Exit(exc) \/ (exc = "none" /\ pc' = "after" /\ UNCHANGED <<exc, rc>>)
    BY DEF Continue
  <2>8. Continue(exc) \/ Continue("error")
    BY <1>23 DEF Disconnect
  <2> QED
    BY <2>2, <2>3, <2>4, <2>5, <2>6, <2>7, <2>8
<1>24. CASE CancelEnter \/ CancelCleanUp \/ CancelAfter
  <2>1. UNCHANGED <<cmd, body, respond, arrived, sent>> /\ (Abandon("cancelled") \/ Exit("cancelled"))
    BY <1>24 DEF CancelEnter, CancelCleanUp, CancelAfter
  <2> QED
    BY <1>1, <1>3, <1>4, <1>6, <2>1
<1>25. CASE CancelBody
  <2>1. UNCHANGED <<cmd, body, respond>>
    BY <1>25 DEF CancelBody
  <2>2. pc' \in {"stop", "stop_notify", "disconnect"} /\ exc' = "cancelled"
    BY <1>2, <1>4, <1>25 DEF CancelBody
  <2>3. arrived' => sent' > 0
    BY <1>9, <1>25 DEF CancelBody
  <2> QED
    BY <1>7, <2>1, <2>2, <2>3
<1>26. CASE MessageArrives \/ LinkDrop \/ UNCHANGED vars
  <2>1. UNCHANGED <<cmd, pc, body, at, exc, respond, rc, sent, arrived>>
    BY <1>26 DEF MessageArrives, LinkDrop, vars
  <2> QED
    BY <2>1 DEF Sent, SentSoFar, WritesBefore, SuccessMeansReached, Writes
<1>27. CASE Get
  <2>1. UNCHANGED <<cmd, body, at, respond, rc, arrived, sent>> /\ pc = "body"
    BY <1>27 DEF Get, Doing
  <2>2. CASE UNCHANGED <<pc, exc>>
    BY <2>1, <2>2 DEF SentSoFar, WritesBefore, SuccessMeansReached
  <2>3. CASE pc' = "stop" /\ exc' = "error"
    BY <1>7, <2>1, <2>3
  <2> QED
    BY <1>27, <2>2, <2>3 DEF Get
<1>28. CASE After
  <2>1. UNCHANGED <<cmd, body, respond, arrived, sent>> /\ pc = "after"
    BY <1>28 DEF After
  <2>2. CASE Exit("none")
    <3>1. pc' = "over"
      BY <2>2 DEF Exit
    <3>2. exc = "none"
      BY <2>1
    <3>3. Sent'
      BY <1>5, <2>1, <3>2
    <3> QED
      BY <2>1, <3>1, <3>3 DEF SuccessMeansReached, Sent
  <2>3. CASE Exit("error")
    BY <1>1, <1>4, <1>6, <2>1, <2>3
  <2>4. CASE pc' = "over" /\ rc' = 2 /\ UNCHANGED exc
    BY <1>6, <2>1, <2>4
  <2> QED
    BY <1>28, <2>2, <2>3, <2>4 DEF After
<1> QED
  BY <1>27, <1>28, <1>11, <1>12, <1>13, <1>14, <1>15, <1>16, <1>17, <1>18, <1>19, <1>20, <1>21, <1>22, <1>23,
     <1>24, <1>25, <1>26 DEF Next, Host, Enter, Work, CleanUp, Cancel

(* Exit code 0 of a command other than the resets means that all its       *)
(* writes reached the pendant where writes are acknowledged, and that one  *)
(* did where the command waits for an answer.                              *)
THEOREM SuccessIsReached == Spec => []SuccessMeansReached
<1>1. Init => ReachInv
  <2> SUFFICES ASSUME Init PROVE ReachInv
    OBVIOUS
  <2>1. body = <<>> /\ DOMAIN body = {} /\ {i \in DOMAIN body : body[i] = "write"} = {}
    BY DEF Init
  <2>2. sent = 0 /\ Writes = 0
    BY <2>1, FS_EmptySet DEF Init, Writes
  <2> QED
    BY <2>1, <2>2 DEF Init, ReachInv, Entering, SuccessMeansReached
<1>2. ReachInv => SuccessMeansReached
  BY DEF ReachInv
<1> QED
  BY <1>1, <1>2, ReachStep, TypeCorrect, PTL DEF Spec
=============================================================================
