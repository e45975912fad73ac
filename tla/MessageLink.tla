---------------------------- MODULE MessageLink ----------------------------
(***************************************************************************)
(* What the fragmenting transport promises, without fragments: a message   *)
(* is delivered whole and at most once, and not before one whose send was  *)
(* over when its own began, unless that one has come to harm and is not    *)
(* delivered later either.                                                 *)
(*                                                                         *)
(* Transport.tla implements this specification.                            *)
(***************************************************************************)
EXTENDS Sequences

CONSTANT Msg

VARIABLES
  sending,   \* messages being sent
  earlier,   \* the messages sent completely before each began
  over,      \* messages no longer being sent
  harmed,    \* messages with a fragment lost, which may still be delivered
  arrived    \* the messages delivered, in order

vars == <<sending, earlier, over, harmed, arrived>>

Delivered == {arrived[i] : i \in DOMAIN arrived}

Init ==
  /\ sending = {} /\ over = {} /\ harmed = {} /\ arrived = <<>>
  /\ earlier = [m \in Msg |-> {}]

Begin(m) ==
  /\ m \notin sending \cup over
  /\ sending' = sending \cup {m}
  /\ earlier' = [earlier EXCEPT ![m] = over]
  /\ UNCHANGED <<over, harmed, arrived>>

\* The send returns, or raises and harms the message.
End(m) ==
  /\ m \in sending
  /\ sending' = sending \ {m} /\ over' = over \cup {m}
  /\ harmed' \in {harmed, harmed \cup {m}}
  /\ UNCHANGED <<earlier, arrived>>

Harm(m) ==
  /\ m \in sending \cup over
  /\ harmed' = harmed \cup {m}
  /\ UNCHANGED <<sending, earlier, over, arrived>>

Deliver(m) ==
  /\ m \in sending \cup over /\ m \notin Delivered
  /\ earlier[m] \subseteq Delivered \cup harmed
  /\ \A n \in Delivered : m \notin earlier[n]
  /\ arrived' = Append(arrived, m)
  /\ UNCHANGED <<sending, earlier, over, harmed>>

Next == \E m \in Msg : Begin(m) \/ End(m) \/ Harm(m) \/ Deliver(m)

Spec == Init /\ [][Next]_vars
=============================================================================
