----------------------------- MODULE Transport -----------------------------
(***************************************************************************)
(* PendantTransport: messages cut into fragments by send_command and put   *)
(* together again by _on_data and _Reassembly.                             *)
(*                                                                         *)
(* Both directions of the link use the same fragment format, so the module *)
(* joins the sending end of ble.py to its receiving end.  Tasks send       *)
(* concurrently and may be interleaved at every write; the GATT link keeps *)
(* the order of what is written and delivers nothing twice.                *)
(*                                                                         *)
(* A message is named by the order in which its send began, and a chunk of *)
(* its payload by the message and the chunk's place in it.                 *)
(***************************************************************************)
EXTENDS Integers, Sequences, FiniteSets

CONSTANTS
  Task,        \* tasks that call send_command
  MaxMsg,      \* bound: messages sent
  MaxFrags,    \* bound: fragments of a message
  Faults       \* what may go wrong

AllFaults ==
  {"raise",     \* write_gatt_char raises, or the task is cancelled in it
   "garbled"}   \* a notification cannot be decoded as a fragment

ASSUME TransportAssumption ==
  MaxMsg \in Nat /\ MaxFrags \in Nat \ {0} /\ Faults \subseteq AllFaults

Msg == 1..MaxMsg
Size == 1..MaxFrags
None == 0

VARIABLES
  next,        \* _next_outgoing_index
  begun,       \* messages begun so far
  task,        \* the send each task is in: its message, index and next seq
  size,        \* fragments of each message begun
  wire,        \* fragments written and not yet received
  reassembly,  \* _reassembly: index -> a _Reassembly
  delivered,   \* the payloads dispatched to the subscribers, in order
  earlier,     \* history: the messages whose send was over when this began
  hurt         \* history: messages with a fragment lost or a write that raised

vars == <<next, begun, task, size, wire, reassembly, delivered, earlier, hurt>>

Fragment == [index : Nat, seq : 0..(MaxFrags - 1), num : Size, of : Msg]
Chunk == [seq : 0..(MaxFrags - 1), of : Msg]

Idle == [of |-> None, index |-> None, seq |-> 0]
NoEntry == [expected |-> 0, received |-> {}]

Sending(m) == \E t \in Task : task[t].of = m
Over == {m \in 1..begun : ~Sending(m)}

TypeOK ==
  /\ next \in Nat /\ begun \in 0..MaxMsg
  /\ task \in [Task -> [of : 0..begun, index : 0..(next - 1), seq : 0..(MaxFrags - 1)]]
  /\ size \in [Msg -> Size \cup {None}]
  /\ wire \in Seq(Fragment) /\ delivered \in Seq(SUBSET Chunk)
  /\ reassembly \in [Msg -> [expected : 0..MaxFrags, received : SUBSET Chunk]]
  /\ earlier \in [Msg -> SUBSET Msg] /\ hurt \subseteq 1..begun

Init ==
  /\ next = 1 /\ begun = 0
  /\ task = [t \in Task |-> Idle] /\ size = [m \in Msg |-> None]
  /\ wire = <<>> /\ reassembly = [i \in Msg |-> NoEntry] /\ delivered = <<>>
  /\ earlier = [m \in Msg |-> {}] /\ hurt = {}

-----------------------------------------------------------------------------
(* send_command.                                                           *)

\* Plausible bug: the index is not advanced.
SendCommandSameIndex(t, n) ==
  /\ task[t] = Idle /\ begun < MaxMsg
  /\ begun' = begun + 1
  /\ next' = next
  /\ task' = [task EXCEPT ![t] = [of |-> begun + 1, index |-> next, seq |-> 0]]
  /\ size' = [size EXCEPT ![begun + 1] = n]
  /\ earlier' = [earlier EXCEPT ![begun + 1] = Over]
  /\ UNCHANGED <<wire, reassembly, delivered, hurt>>

(* Up to the first await: a fresh index, and the payload cut into n chunks.*)
SendCommand(t, n) ==
  /\ task[t] = Idle /\ begun < MaxMsg
  /\ begun' = begun + 1
  /\ next' = next + 1
  /\ task' = [task EXCEPT ![t] = [of |-> begun + 1, index |-> next, seq |-> 0]]
  /\ size' = [size EXCEPT ![begun + 1] = n]
  /\ earlier' = [earlier EXCEPT ![begun + 1] = Over]
  /\ UNCHANGED <<wire, reassembly, delivered, hurt>>

Written(t) ==
  wire' = Append(wire, [index |-> task[t].index, seq |-> task[t].seq,
                        num |-> size[task[t].of], of |-> task[t].of])

\* The send after a write that returned.
Onward(s) == IF s.seq + 1 = size[s.of] THEN Idle ELSE [s EXCEPT !.seq = s.seq + 1]

WriteFragment(t) ==
  /\ task[t] # Idle
  /\ Written(t)
  /\ task' = [task EXCEPT ![t] = Onward(task[t])]
  /\ UNCHANGED <<next, begun, size, reassembly, delivered, earlier, hurt>>

(* The send is given up, the current fragment written or not.              *)
WriteRaises(t) ==
  /\ "raise" \in Faults
  /\ task[t] # Idle
  /\ Written(t) \/ UNCHANGED wire
  /\ task' = [task EXCEPT ![t] = Idle]
  /\ hurt' = hurt \cup {task[t].of}
  /\ UNCHANGED <<next, begun, size, reassembly, delivered, earlier>>

-----------------------------------------------------------------------------
(* _on_data, _Reassembly.add and _dispatch.                                *)

(* The first fragment that says so fixes how many are expected; a seq seen *)
(* before is overwritten.                                                  *)
Add(e, f) ==
  [expected |-> IF e.expected = 0 THEN f.num ELSE e.expected,
   received |-> {c \in e.received : c.seq # f.seq} \cup {[seq |-> f.seq, of |-> f.of]}]

\* Plausible bug: the last fragment completes the message.
CompleteOnLast(e) == \E c \in e.received : c.seq = e.expected - 1

Complete(e) == e.expected > 0 /\ Cardinality(e.received) >= e.expected

\* Plausible bug: a complete entry is not popped.
OnDataKeeps ==
  /\ wire # <<>>
  /\ wire' = Tail(wire)
  /\ LET f == Head(wire)
         e == Add(reassembly[f.index], f) IN
       /\ reassembly' = [reassembly EXCEPT ![f.index] = e]
       /\ delivered' = IF Complete(e) THEN Append(delivered, e.received) ELSE delivered
  /\ UNCHANGED <<next, begun, task, size, earlier, hurt>>

\* Plausible bug: the dispatch is a task of its own and may be overtaken.
OnDataTasks ==
  /\ wire # <<>>
  /\ wire' = Tail(wire)
  /\ LET f == Head(wire)
         e == Add(reassembly[f.index], f) IN
       IF Complete(e)
       THEN /\ reassembly' = [reassembly EXCEPT ![f.index] = NoEntry]
            /\ delivered' \in {Append(delivered, e.received), <<e.received>> \o delivered}
       ELSE /\ reassembly' = [reassembly EXCEPT ![f.index] = e]
            /\ UNCHANGED delivered
  /\ UNCHANGED <<next, begun, task, size, earlier, hurt>>

(* One notification, with no await in it: the subscribers are plain        *)
(* functions.                                                              *)
OnData ==
  /\ wire # <<>>
  /\ wire' = Tail(wire)
  /\ LET f == Head(wire)
         e == Add(reassembly[f.index], f) IN
       IF Complete(e)
       THEN /\ reassembly' = [reassembly EXCEPT ![f.index] = NoEntry]
            /\ delivered' = Append(delivered, e.received)
       ELSE /\ reassembly' = [reassembly EXCEPT ![f.index] = e]
            /\ UNCHANGED delivered
  /\ UNCHANGED <<next, begun, task, size, earlier, hurt>>

(* decode_fragment raises: the notification is logged and dropped.         *)
Undecodable ==
  /\ "garbled" \in Faults
  /\ wire # <<>>
  /\ wire' = Tail(wire)
  /\ hurt' = hurt \cup {Head(wire).of}
  /\ UNCHANGED <<next, begun, task, size, reassembly, delivered, earlier>>

Next ==
  \/ \E t \in Task :
       \/ \E n \in Size : SendCommand(t, n)
       \/ WriteFragment(t) \/ WriteRaises(t)
  \/ OnData \/ Undecodable

Spec == Init /\ [][Next]_vars

-----------------------------------------------------------------------------
(* Properties.                                                             *)

Whole(m) == [seq : 0..(size[m] - 1), of : {m}]
Arrived(m) == \E i \in DOMAIN delivered : delivered[i] = Whole(m)

(* What the subscribers get is a whole message, never one with a chunk     *)
(* missing or with chunks of two messages, and no message comes twice.     *)
MessagesIntact ==
  /\ \A i \in DOMAIN delivered : \E m \in 1..begun : delivered[i] = Whole(m)
  /\ \A i, j \in DOMAIN delivered : i # j => delivered[i] # delivered[j]

(* The fragments add up to a link for messages: each is delivered whole and *)
(* at most once, and none before one whose send was over when its own      *)
(* began, whatever other tasks send in between, unless that one was hurt.  *)
Message(chunks) ==
  IF \E m \in 1..begun : chunks = Whole(m) THEN CHOOSE m \in 1..begun : chunks = Whole(m) ELSE None
Link == INSTANCE MessageLink WITH
  sending <- 1..begun \ Over, over <- Over, harmed <- hurt,
  arrived <- [i \in DOMAIN delivered |-> Message(delivered[i])]
ImplementsMessageLink == Link!Spec

(* Once the send of a message is over and its fragments are off the link,  *)
(* the message was delivered and left nothing in _reassembly, unless one   *)
(* of its own fragments was lost: no other message can hold it up.         *)
OffTheWire(m) == m \in Over /\ \A i \in DOMAIN wire : wire[i].of # m
LossAccounted ==
  \A m \in 1..begun \ hurt : OffTheWire(m) =>
    /\ Arrived(m)
    /\ \A i \in Msg : \A c \in reassembly[i].received : c.of # m
=============================================================================
