-------------------------- MODULE TransportProofs --------------------------
(***************************************************************************)
(* Transport delivers messages whole and once, accounts for every loss and *)
(* implements MessageLink: proofs for any number of tasks, messages and    *)
(* fragments, and all faults.                                              *)
(***************************************************************************)
EXTENDS Transport, FiniteSetTheorems, ChannelLemmas

USE TransportAssumption DEF Msg, Size, None

-----------------------------------------------------------------------------
(* The inductive invariant.                                                *)

(* A message goes under its own number as its index, and one task sends it.*)
Sends ==
  /\ next = begun + 1
  /\ \A m \in 1..begun : size[m] \in Size
  /\ \A t \in Task : task[t] # Idle =>
       /\ task[t].of \in 1..begun /\ task[t].index = task[t].of
       /\ task[t].seq < size[task[t].of]
  /\ \A t, u \in Task : task[t] # Idle /\ task[t].of = task[u].of => t = u

OnWire ==
  \A i \in DOMAIN wire :
    /\ wire[i].of \in 1..begun /\ wire[i].index = wire[i].of
    /\ wire[i].num = size[wire[i].of] /\ wire[i].seq < size[wire[i].of]

(* The fragments of a message are received, on the wire and to be written  *)
(* in the order of their sequence numbers.                                 *)
Ascending ==
  /\ \A i, j \in DOMAIN wire : i < j /\ wire[i].of = wire[j].of => wire[i].seq < wire[j].seq
  /\ \A i \in DOMAIN wire, t \in Task : wire[i].of = task[t].of => wire[i].seq < task[t].seq
  /\ \A m \in Msg : \A c \in reassembly[m].received :
       /\ \A i \in DOMAIN wire : wire[i].of = m => c.seq < wire[i].seq
       /\ \A t \in Task : task[t].of = m => c.seq < task[t].seq

(* An entry holds a part of its message, never all of it.                  *)
Entries ==
  \A m \in Msg : reassembly[m] # NoEntry =>
    /\ m \in 1..begun /\ reassembly[m].expected = size[m]
    /\ reassembly[m].received \subseteq Whole(m) /\ reassembly[m].received # Whole(m)

(* Of a message that was delivered nothing is left.                        *)
Gone(m) ==
  /\ ~Sending(m) /\ reassembly[m] = NoEntry
  /\ \A i \in DOMAIN wire : wire[i].of # m
DeliveredIsGone == \A m \in 1..begun : Arrived(m) => Gone(m)

(* Each fragment of an unhurt message is somewhere.                        *)
Kept(m, s) ==
  \/ [seq |-> s, of |-> m] \in reassembly[m].received
  \/ \E i \in DOMAIN wire : wire[i].of = m /\ wire[i].seq = s
  \/ \E t \in Task : task[t].of = m /\ task[t].seq <= s
Accounted ==
  \A m \in 1..begun \ hurt : Arrived(m) \/ \A s \in 0..(size[m] - 1) : Kept(m, s)

(* What was over when a message began is ahead of it, on the wire too.     *)
Touched(m) == reassembly[m].received # {} \/ Arrived(m)
Ahead ==
  /\ \A n \in 1..begun : earlier[n] \subseteq Over /\ n \notin earlier[n]
  /\ \A n \in Msg \ (1..begun) : earlier[n] = {}
  /\ \A n \in 1..begun : \A i, j \in DOMAIN wire :
       i < j /\ wire[i].of = n => wire[j].of \notin earlier[n]
  /\ \A n \in 1..begun : Touched(n) => \A i \in DOMAIN wire : wire[i].of \notin earlier[n]

LinkInv ==
  /\ Sends /\ OnWire /\ Ascending /\ Entries
  /\ MessagesIntact /\ DeliveredIsGone /\ Accounted /\ Ahead

-----------------------------------------------------------------------------
(* Whole messages.                                                         *)

(* A message of k fragments has k chunks, and messages share none.         *)
LEMMA WholeFacts ==
  ASSUME NEW m \in Msg, size[m] \in Size
  PROVE  /\ IsFiniteSet(Whole(m)) /\ Cardinality(Whole(m)) = size[m]
         /\ [seq |-> size[m] - 1, of |-> m] \in Whole(m)
         /\ \A c \in Whole(m) : c.of = m
<1> DEFINE S == 0..(size[m] - 1)
           f == [s \in S |-> [seq |-> s, of |-> m]]
<1>1. IsFiniteSet(S) /\ Cardinality(S) = size[m]
  BY FS_Interval
<1>2. f \in Injection(S, Whole(m))
  BY DEF Injection, IsInjective, Whole
<1>3. f \in Surjection(S, Whole(m))
  <2>1. \A c \in Whole(m) : c.seq \in S /\ c = f[c.seq]
    BY DEF Whole
  <2>2. f \in [S -> Whole(m)]
    BY DEF Whole
  <2> QED
    BY <2>1, <2>2 DEF Surjection
<1>4. IsFiniteSet(Whole(m)) /\ Cardinality(Whole(m)) = size[m]
  BY <1>1, <1>2, <1>3, FS_Surjection
<1> QED
  BY <1>4 DEF Whole

LEMMA WholesDiffer ==
  ASSUME NEW m \in Msg, NEW n \in Msg, size[m] \in Size, size[n] \in Size, Whole(m) = Whole(n)
  PROVE  m = n
BY WholeFacts

(* A part of a message is as large as the message only if it is all of it. *)
LEMMA PartFacts ==
  ASSUME NEW m \in Msg, size[m] \in Size, NEW S, S \subseteq Whole(m)
  PROVE  Cardinality(S) >= size[m] <=> S = Whole(m)
<1>1. IsFiniteSet(Whole(m)) /\ Cardinality(Whole(m)) = size[m]
  BY WholeFacts
<1>2. /\ IsFiniteSet(S) /\ Cardinality(S) <= Cardinality(Whole(m))
      /\ Cardinality(Whole(m)) = Cardinality(S) => Whole(m) = S
  <2> HIDE DEF Msg, Size, None
  <2> QED
    BY <1>1, FS_Subset
<1>3. Cardinality(S) \in Nat
  BY <1>2, FS_CardinalityType
<1> QED
  BY <1>1, <1>2, <1>3

-----------------------------------------------------------------------------
(* Types.                                                                  *)

LEMMA Start == Init => TypeOK /\ LinkInv
<1> SUFFICES ASSUME Init PROVE TypeOK /\ LinkInv
  OBVIOUS
<1> USE DEF Init
<1>1. TypeOK
  BY EmptySeq DEF TypeOK, Idle, NoEntry
<1>2. Sends /\ OnWire
  BY DEF Sends, OnWire
<1>3. Ascending
  BY DEF Ascending, NoEntry
<1>4. Entries
  BY DEF Entries
<1>5. MessagesIntact /\ DeliveredIsGone /\ Accounted
  BY DEF MessagesIntact, DeliveredIsGone, Accounted
<1>6. Ahead
  BY DEF Ahead
<1> QED
  BY <1>1, <1>2, <1>3, <1>4, <1>5, <1>6 DEF LinkInv

(* The fragment that comes next off the wire.                              *)
LEMMA HeadFacts ==
  ASSUME TypeOK, OnWire, wire # <<>>
  PROVE  /\ Head(wire) \in Fragment /\ Head(wire) = wire[1]
         /\ Head(wire).index = Head(wire).of /\ Head(wire).of \in 1..begun
         /\ Head(wire).num = size[Head(wire).of] /\ Head(wire).seq < size[Head(wire).of]
         /\ Tail(wire) \in Seq(Fragment)
         /\ Len(wire) \in Nat /\ DOMAIN wire = 1..Len(wire) /\ Len(wire) >= 1
         /\ DOMAIN Tail(wire) = 1..(Len(wire) - 1)
         /\ \A i \in 1..(Len(wire) - 1) : Tail(wire)[i] = wire[i + 1]
<1>1. wire \in Seq(Fragment)
  BY DEF TypeOK
<1>2. /\ Tail(wire) \in Seq(Fragment)
      /\ Len(wire) \in Nat /\ DOMAIN wire = 1..Len(wire) /\ Len(wire) >= 1
      /\ Head(wire) = wire[1] /\ Head(wire) \in Fragment
      /\ DOMAIN Tail(wire) = 1..(Len(wire) - 1)
      /\ \A i \in 1..(Len(wire) - 1) : Tail(wire)[i] = wire[i + 1]
  <2> HIDE DEF Msg, Size, None
  <2> QED
    BY <1>1, TailFacts
<1>3. 1 \in DOMAIN wire
  BY <1>2
<1> QED
  BY <1>2, <1>3 DEF OnWire

LEMMA TypeStep == TypeOK /\ Sends /\ OnWire /\ [Next]_vars => TypeOK'
<1> SUFFICES ASSUME TypeOK, Sends, OnWire, [Next]_vars PROVE TypeOK'
  OBVIOUS
<1> USE DEF TypeOK, Idle
<1>0. ASSUME NEW t \in Task, task[t] # Idle, Written(t)
      PROVE  wire' \in Seq(Fragment)
  <2> DEFINE f == [index |-> task[t].index, seq |-> task[t].seq,
                   num |-> size[task[t].of], of |-> task[t].of]
  <2>1. f \in Fragment
    BY <1>0 DEF Sends, Fragment
  <2>2. wire \in Seq(Fragment) /\ wire' = Append(wire, f)
    BY <1>0 DEF Written
  <2> HIDE DEF f
  <2> QED
    BY <2>1, <2>2, AppendFacts
<1>1. ASSUME NEW t \in Task, NEW n \in Size, SendCommand(t, n)
      PROVE  TypeOK'
  <2>1. /\ next' \in Nat /\ begun' \in 0..MaxMsg /\ size' \in [Msg -> Size \cup {None}]
        /\ hurt' \subseteq 1..begun'
    BY <1>1 DEF SendCommand
  <2>2. task' \in [Task -> [of : 0..begun', index : 0..(next' - 1), seq : 0..(MaxFrags - 1)]]
    <3>1. [of |-> begun + 1, index |-> next, seq |-> 0] \in
            [of : 0..begun', index : 0..(next' - 1), seq : 0..(MaxFrags - 1)]
      BY <1>1 DEF SendCommand
    <3>2. \A u \in Task : task[u] \in [of : 0..begun', index : 0..(next' - 1), seq : 0..(MaxFrags - 1)]
      BY <1>1 DEF SendCommand
    <3> QED
      BY <1>1, <3>1, <3>2 DEF SendCommand
  <2>3. earlier' \in [Msg -> SUBSET Msg]
    BY <1>1 DEF SendCommand, Over
  <2> QED
    BY <1>1, <2>1, <2>2, <2>3 DEF SendCommand
<1>2. ASSUME NEW t \in Task, WriteFragment(t)
      PROVE  TypeOK'
  <2>1. wire' \in Seq(Fragment)
    BY <1>0, <1>2 DEF WriteFragment
  <2>2. task' \in [Task -> [of : 0..begun, index : 0..(next - 1), seq : 0..(MaxFrags - 1)]]
    <3>1. [of |-> None, index |-> None, seq |-> 0] \in
            [of : 0..begun, index : 0..(next - 1), seq : 0..(MaxFrags - 1)]
      BY DEF Sends
    <3>2. task[t].seq + 1 # size[task[t].of] => task[t].seq + 1 \in 0..(MaxFrags - 1)
      BY <1>2 DEF WriteFragment, Sends
    <3>3. Onward(task[t]) \in [of : 0..begun, index : 0..(next - 1), seq : 0..(MaxFrags - 1)]
      BY <3>1, <3>2 DEF Onward
    <3> QED
      BY <1>2, <3>3 DEF WriteFragment
  <2> QED
    BY <1>2, <2>1, <2>2 DEF WriteFragment
<1>3. ASSUME NEW t \in Task, WriteRaises(t)
      PROVE  TypeOK'
  <2>1. wire' \in Seq(Fragment)
    BY <1>0, <1>3 DEF WriteRaises
  <2>2. task' \in [Task -> [of : 0..begun, index : 0..(next - 1), seq : 0..(MaxFrags - 1)]]
    BY <1>3 DEF WriteRaises, Sends
  <2>3. hurt' \subseteq 1..begun
    BY <1>3 DEF WriteRaises, Sends
  <2> QED
    BY <1>3, <2>1, <2>2, <2>3 DEF WriteRaises
<1>4. ASSUME OnData
      PROVE  TypeOK'
  <2> DEFINE f == Head(wire)
             e == Add(reassembly[f.index], f)
  <2>1. f \in Fragment /\ Tail(wire) \in Seq(Fragment) /\ f.index \in Msg
    BY <1>4, HeadFacts DEF OnData
  <2>2. e \in [expected : 0..MaxFrags, received : SUBSET Chunk]
    <3>1. [seq |-> f.seq, of |-> f.of] \in Chunk /\ f.num \in 0..MaxFrags
      <4> HIDE DEF f
      <4> QED
        BY <2>1 DEF Fragment, Chunk
    <3>2. reassembly[f.index] \in [expected : 0..MaxFrags, received : SUBSET Chunk]
      BY <2>1
    <3> HIDE DEF f
    <3> QED
      BY <3>1, <3>2 DEF Add
  <2>3. NoEntry \in [expected : 0..MaxFrags, received : SUBSET Chunk]
    BY DEF NoEntry
  <2>4. \/ reassembly' = [reassembly EXCEPT ![f.index] = NoEntry]
        \/ reassembly' = [reassembly EXCEPT ![f.index] = e]
    BY <1>4 DEF OnData
  <2>5. delivered' \in {delivered, Append(delivered, e.received)}
    BY <1>4 DEF OnData
  <2>6. reassembly' \in [Msg -> [expected : 0..MaxFrags, received : SUBSET Chunk]]
    <3> HIDE DEF e, f
    <3> QED
      BY <2>1, <2>2, <2>3, <2>4
  <2>7. delivered' \in Seq(SUBSET Chunk)
    <3> HIDE DEF e
    <3>1. e.received \in SUBSET Chunk
      BY <2>2
    <3>2. Append(delivered, e.received) \in Seq(SUBSET Chunk)
      BY <3>1, AppendFacts
    <3> QED
      BY <2>5, <3>2
  <2> QED
    BY <1>4, <2>1, <2>6, <2>7 DEF OnData
<1>5. ASSUME Undecodable
      PROVE  TypeOK'
  <2>1. Head(wire).of \in 1..begun /\ Tail(wire) \in Seq(Fragment)
    BY <1>5, HeadFacts DEF Undecodable
  <2> QED
    BY <1>5, <2>1 DEF Undecodable
<1>6. CASE UNCHANGED vars
  BY <1>6 DEF vars
<1> QED
  BY <1>1, <1>2, <1>3, <1>4, <1>5, <1>6 DEF Next

-----------------------------------------------------------------------------
(* A send begins.                                                          *)

LEMMA SendStep ==
  ASSUME TypeOK, LinkInv, NEW t \in Task, NEW n \in Size, SendCommand(t, n)
  PROVE  LinkInv'
<1>0. PICK m \in Nat : m = begun + 1
  BY DEF TypeOK
<1> USE DEF LinkInv
<1>1. /\ m \in Msg /\ m \notin 1..begun /\ 1..begun' = 1..begun \cup {m} /\ 1..begun \subseteq Msg
      /\ begun' = m /\ next' = next + 1 /\ next = m /\ begun \in Nat
  BY <1>0 DEF SendCommand, TypeOK, Sends
<1>2. /\ task[t] = Idle /\ task'[t] = [of |-> m, index |-> m, seq |-> 0]
      /\ \A u \in Task : u # t => task'[u] = task[u]
  BY <1>0, <1>1 DEF SendCommand, TypeOK
<1>3. size'[m] = n /\ \A k \in Msg : k # m => size'[k] = size[k]
  BY <1>0, <1>1 DEF SendCommand, TypeOK
<1>4. earlier'[m] = Over /\ \A k \in Msg : k # m => earlier'[k] = earlier[k]
  BY <1>0, <1>1 DEF SendCommand, TypeOK
<1>5. wire' = wire /\ reassembly' = reassembly /\ delivered' = delivered /\ hurt' = hurt
  BY DEF SendCommand
<1>6. \A k \in 1..begun : Whole(k)' = Whole(k)
  BY <1>1, <1>3 DEF Whole
<1>7. /\ \A u \in Task : task[u].of # m
      /\ \A i \in DOMAIN wire : wire[i].of # m
      /\ reassembly[m] = NoEntry
  BY <1>1 DEF Sends, OnWire, Entries, Idle
<1>8. Sending(m)' /\ \A k \in 1..begun : Sending(k)' <=> Sending(k)
  <2>1. \A k \in 1..begun : k # m /\ task[t].of # k /\ task'[t].of # k
    BY <1>1, <1>2 DEF Idle
  <2> QED
    BY <1>1, <1>2, <2>1 DEF Sending
<1>9. Over' = Over
  BY <1>1, <1>8 DEF Over
<1>10. ~Arrived(m)' /\ \A k \in 1..begun : Arrived(k)' <=> Arrived(k)
  <2>1. \A k \in 1..begun : Arrived(k)' <=> Arrived(k)
    BY <1>5, <1>6 DEF Arrived
  <2>2. [seq |-> 0, of |-> m] \in Whole(m)'
    BY <1>3 DEF Whole
  <2>3. \A k \in 1..begun : [seq |-> 0, of |-> m] \notin Whole(k)
    BY <1>1 DEF Whole
  <2>4. \A i \in DOMAIN delivered : \E k \in 1..begun : delivered[i] = Whole(k)
    BY DEF MessagesIntact
  <2> QED
    BY <1>5, <2>1, <2>2, <2>3, <2>4 DEF Arrived
<1>11. Sends'
  <2>1. \A k \in 1..begun' : size'[k] \in Size
    BY <1>1, <1>3 DEF Sends
  <2>2. \A u \in Task : task'[u] # Idle =>
          /\ task'[u].of \in 1..begun' /\ task'[u].index = task'[u].of
          /\ task'[u].seq < size'[task'[u].of]
    BY <1>1, <1>2, <1>3 DEF Sends
  <2>3. \A u, v \in Task : task'[u] # Idle /\ task'[u].of = task'[v].of => u = v
    BY <1>2, <1>7 DEF Sends
  <2> QED
    BY <1>1, <2>1, <2>2, <2>3 DEF Sends
<1>12. OnWire'
  BY <1>1, <1>3, <1>5 DEF OnWire
<1>13. Ascending'
  <2>1. \A i \in DOMAIN wire, u \in Task : wire[i].of = task'[u].of => wire[i].seq < task'[u].seq
    BY <1>2, <1>7 DEF Ascending
  <2>2. \A k \in Msg : \A c \in reassembly[k].received :
          \A u \in Task : task'[u].of = k => c.seq < task'[u].seq
    BY <1>2, <1>7 DEF Ascending, NoEntry
  <2> QED
    BY <1>5, <2>1, <2>2 DEF Ascending
<1>14. Entries'
  BY <1>1, <1>3, <1>5, <1>6 DEF Entries
<1>15. MessagesIntact'
  BY <1>1, <1>5, <1>6 DEF MessagesIntact
<1>16. DeliveredIsGone'
  BY <1>1, <1>5, <1>8, <1>10 DEF DeliveredIsGone, Gone
<1>17. Accounted'
  <2>1. ASSUME NEW k \in 1..begun, k \notin hurt, ~Arrived(k), NEW s \in 0..(size[k] - 1)
        PROVE  Kept(k, s)'
    <3>1. Kept(k, s)
      BY <2>1 DEF Accounted
    <3>2. \A u \in Task : task[u].of = k => u # t
      BY <1>1, <1>2 DEF Idle
    <3> QED
      BY <1>2, <1>5, <3>1, <3>2 DEF Kept
  <2>2. \A s \in 0..(size'[m] - 1) : Kept(m, s)'
    BY <1>2, <1>3 DEF Kept
  <2> QED
    BY <1>1, <1>3, <1>5, <1>10, <2>1, <2>2 DEF Accounted
<1>18. Ahead'
  <2>1. \A k \in 1..begun' : earlier'[k] \subseteq Over' /\ k \notin earlier'[k]
    BY <1>1, <1>4, <1>9 DEF Ahead, Over
  <2>2. \A k \in Msg \ (1..begun') : earlier'[k] = {}
    BY <1>1, <1>4 DEF Ahead
  <2>3. \A k \in 1..begun' : \A i, j \in DOMAIN wire :
          i < j /\ wire[i].of = k => wire[j].of \notin earlier'[k]
    BY <1>1, <1>4, <1>7 DEF Ahead
  <2>4. \A k \in 1..begun' : Touched(k)' => k \in 1..begun /\ Touched(k)
    BY <1>1, <1>5, <1>7, <1>10 DEF Touched, NoEntry
  <2>5. \A k \in 1..begun' : Touched(k)' => \A i \in DOMAIN wire : wire[i].of \notin earlier'[k]
    BY <1>1, <1>4, <2>4 DEF Ahead
  <2> QED
    BY <1>5, <2>1, <2>2, <2>3, <2>5 DEF Ahead
<1> QED
  BY <1>11, <1>12, <1>13, <1>14, <1>15, <1>16, <1>17, <1>18

-----------------------------------------------------------------------------
(* A write returns or raises.                                              *)

(* The task t goes on to its next fragment, or is done with m: the         *)
(* fragment is on the wire, or m is hurt.                                  *)
Writes(t, x, m, s) ==
  /\ task[t] # Idle /\ m = task[t].of /\ s = task[t].seq
  /\ task' = [task EXCEPT ![t] = x]
  /\ Written(t) \/ UNCHANGED wire
  /\ x = Idle \/ (s + 1 < size[m] /\ x = [of |-> m, index |-> m, seq |-> s + 1])
  /\ m \in hurt' \/ (Written(t) /\ (x = Idle => s + 1 = size[m]))
  /\ hurt' = hurt \/ hurt' = hurt \cup {m}
  /\ UNCHANGED <<next, begun, size, reassembly, delivered, earlier>>

LEMMA WriteIsWrites ==
  ASSUME TypeOK, Sends, NEW t \in Task, WriteFragment(t) \/ WriteRaises(t)
  PROVE  \E x, m, s : Writes(t, x, m, s)
<1>0. /\ task[t] # Idle /\ task[t].of \in 1..begun /\ task[t].index = task[t].of
      /\ task[t] = [of |-> task[t].of, index |-> task[t].of, seq |-> task[t].seq]
      /\ task[t].seq \in Nat /\ task[t].seq < size[task[t].of] /\ size[task[t].of] \in Nat
  BY DEF WriteFragment, WriteRaises, Sends, TypeOK
<1>1. CASE WriteFragment(t)
  <2>1. CASE task[t].seq + 1 = size[task[t].of]
    <3>1. Writes(t, Idle, task[t].of, task[t].seq)
      BY <1>0, <1>1, <2>1 DEF WriteFragment, Onward, Writes
    <3> QED
      BY <3>1
  <2>2. CASE task[t].seq + 1 # size[task[t].of]
    <3> DEFINE x == [of |-> task[t].of, index |-> task[t].of, seq |-> task[t].seq + 1]
    <3>1. Onward(task[t]) = x /\ x # Idle /\ task[t].seq + 1 < size[task[t].of]
      BY <1>0, <2>2 DEF Onward, Idle
    <3>2. Writes(t, x, task[t].of, task[t].seq)
      <4> HIDE DEF x
      <4>1. x = [of |-> task[t].of, index |-> task[t].of, seq |-> task[t].seq + 1]
        BY DEF x
      <4> QED
        BY <1>0, <1>1, <3>1, <4>1 DEF WriteFragment, Writes
    <3> QED
      BY <3>2
  <2> QED
    BY <2>1, <2>2
<1>2. CASE WriteRaises(t)
  <2>1. Writes(t, Idle, task[t].of, task[t].seq)
    BY <1>2 DEF WriteRaises, Writes
  <2> QED
    BY <2>1
<1> QED
  BY <1>1, <1>2

LEMMA WriteStep ==
  ASSUME TypeOK, LinkInv, NEW t \in Task, NEW x, NEW m, NEW s, Writes(t, x, m, s)
  PROVE  LinkInv'
<1> USE DEF LinkInv
<1>1. /\ m \in 1..begun /\ m \in Msg /\ s \in Nat /\ s < size[m] /\ task[t].index = m
      /\ 1..begun \subseteq Msg /\ \A k \in 1..begun : size[k] \in Size
  BY DEF Writes, Sends, TypeOK
<1>2. /\ task'[t] = x /\ \A u \in Task : u # t => task'[u] = task[u] /\ task[u].of # m
      /\ x.of \in {m, None}
  BY DEF Writes, Sends, TypeOK, Idle
<1>3. /\ \A k \in Msg : Whole(k)' = Whole(k)
      /\ \A k \in Msg : Arrived(k)' <=> Arrived(k)
  BY DEF Writes, Whole, Arrived
<1>4. Sending(m) /\ \A k \in 1..begun : Sending(k)' => Sending(k)
  BY <1>1, <1>2 DEF Writes, Sending
<1>5. m \notin Over /\ Over \subseteq Over'
  BY <1>4 DEF Over, Writes
<1> DEFINE f == [index |-> m, seq |-> s, num |-> size[m], of |-> m]
<1>6. /\ DOMAIN wire \subseteq DOMAIN wire' /\ DOMAIN wire \subseteq Nat /\ DOMAIN wire' \subseteq Nat
      /\ \A i \in DOMAIN wire : wire'[i] = wire[i]
      /\ \A j \in DOMAIN wire' : \/ j \in DOMAIN wire
                                 \/ wire'[j] = f /\ \A i \in DOMAIN wire' : i <= j
      /\ Written(t) => \E j \in DOMAIN wire' : wire'[j] = f
  <2>1. wire \in Seq(Fragment) /\ f \in Fragment
    BY <1>1 DEF TypeOK, Fragment
  <2>2. CASE UNCHANGED wire /\ ~Written(t)
    <3>1. DOMAIN wire = 1..Len(wire) /\ Len(wire) \in Nat
      BY <2>1, LenProperties
    <3> QED
      BY <2>2, <3>1
  <2>3. CASE Written(t)
    <3>1. wire' = Append(wire, f)
      BY <1>1, <2>3 DEF Written, Writes
    <3>2. /\ Len(wire) \in Nat /\ DOMAIN wire = 1..Len(wire)
          /\ DOMAIN wire' = 1..(Len(wire) + 1)
          /\ \A i \in 1..Len(wire) : wire'[i] = wire[i]
          /\ wire'[Len(wire) + 1] = f
      <4> HIDE DEF Msg, Size, None, f
      <4> QED
        BY <2>1, <3>1, AppendFacts
    <3> QED
      BY <3>2
  <2> QED
    BY <2>2, <2>3 DEF Writes
<1>7. f.of = m /\ f.seq = s /\ f.index = m /\ f.num = size[m]
  OBVIOUS
<1>8. /\ \A i \in DOMAIN wire : wire[i].of = m => wire[i].seq < s
      /\ \A c \in reassembly[m].received : c.seq < s
  BY <1>1 DEF Ascending, Writes
<1> HIDE DEF f
<1>9. Sends'
  <2>1. x # Idle => x.of \in 1..begun /\ x.index = x.of /\ x.seq < size[x.of] /\ x.of = m
    BY <1>1 DEF Writes
  <2>2. \A u \in Task : task'[u] # Idle =>
          /\ task'[u].of \in 1..begun /\ task'[u].index = task'[u].of
          /\ task'[u].seq < size[task'[u].of]
    BY <1>2, <2>1 DEF Sends
  <2>3. \A u, v \in Task : task'[u] # Idle /\ task'[u].of = task'[v].of => u = v
    <3> SUFFICES ASSUME NEW u \in Task, NEW v \in Task, task'[u] # Idle, task'[u].of = task'[v].of
                 PROVE  u = v
      OBVIOUS
    <3>1. task'[u].of \in 1..begun
      BY <2>2
    <3>2. u = t => v = t
      BY <1>2, <2>1
    <3>3. u # t => v # t
      BY <1>2, <1>1, <3>1
    <3> QED
      BY <1>2, <3>2, <3>3 DEF Sends
  <2> QED
    BY <2>2, <2>3 DEF Sends, Writes
<1>10. OnWire'
  <2>1. \A i \in DOMAIN wire' :
          /\ wire'[i].of \in 1..begun /\ wire'[i].index = wire'[i].of
          /\ wire'[i].num = size[wire'[i].of] /\ wire'[i].seq < size[wire'[i].of]
    BY <1>1, <1>6, <1>7 DEF OnWire
  <2> QED
    BY <2>1 DEF OnWire, Writes
<1>11. Ascending'
  <2>0. /\ x.of = m => x.seq = s + 1
        /\ task'[t].of = m => task'[t].seq = s + 1
    BY <1>1, <1>2 DEF Writes, Idle
  <2>1. \A i, j \in DOMAIN wire' : i < j /\ wire'[i].of = wire'[j].of => wire'[i].seq < wire'[j].seq
    <3> SUFFICES ASSUME NEW i \in DOMAIN wire', NEW j \in DOMAIN wire',
                        i < j, wire'[i].of = wire'[j].of
                 PROVE  wire'[i].seq < wire'[j].seq
      OBVIOUS
    <3>1. i \in DOMAIN wire /\ wire'[i] = wire[i]
      BY <1>6
    <3>2. CASE j \in DOMAIN wire
      BY <1>6, <3>1, <3>2 DEF Ascending
    <3>3. CASE wire'[j] = f
      BY <1>7, <1>8, <3>1, <3>3
    <3> QED
      BY <1>6, <3>2, <3>3
  <2>2. \A i \in DOMAIN wire', u \in Task : wire'[i].of = task'[u].of => wire'[i].seq < task'[u].seq
    <3> SUFFICES ASSUME NEW i \in DOMAIN wire', NEW u \in Task, wire'[i].of = task'[u].of
                 PROVE  wire'[i].seq < task'[u].seq
      OBVIOUS
    <3>1. wire'[i].of \in 1..begun
      BY <1>10 DEF OnWire, Writes
    <3>2. u = t => task'[u].of = m /\ task'[u].seq = s + 1
      BY <1>2, <2>0, <3>1
    <3>3. u # t => task'[u] = task[u] /\ wire'[i].of # m
      BY <1>2
    <3>4. CASE i \in DOMAIN wire
      <4>1. wire'[i] = wire[i] /\ wire[i].seq \in Nat
        <5>1. wire \in Seq(Fragment)
          BY DEF TypeOK
        <5>2. wire[i] \in Fragment
          BY <3>4, <5>1, ElementOfSeq, LenProperties
        <5> QED
          BY <1>6, <3>4, <5>2 DEF Fragment
      <4>2. CASE u = t
        BY <1>1, <1>8, <3>2, <3>4, <4>1, <4>2
      <4>3. CASE u # t
        BY <3>3, <3>4, <4>1, <4>3 DEF Ascending
      <4> QED
        BY <4>2, <4>3
    <3>5. CASE wire'[i] = f
      BY <1>1, <1>7, <3>2, <3>3, <3>5
    <3> QED
      BY <1>6, <3>4, <3>5
  <2>3. \A k \in Msg : \A c \in reassembly[k].received :
          \A i \in DOMAIN wire' : wire'[i].of = k => c.seq < wire'[i].seq
    BY <1>6, <1>7, <1>8 DEF Ascending
  <2>4. \A k \in Msg : \A c \in reassembly[k].received :
          \A u \in Task : task'[u].of = k => c.seq < task'[u].seq
    <3> SUFFICES ASSUME NEW k \in Msg, NEW c \in reassembly[k].received,
                        NEW u \in Task, task'[u].of = k
                 PROVE  c.seq < task'[u].seq
      OBVIOUS
    <3>1. CASE u # t
      BY <1>2, <3>1 DEF Ascending
    <3>2. CASE u = t
      <4>1. k = m /\ task'[u].seq = s + 1
        BY <1>2, <2>0, <3>2
      <4>2. reassembly[k].received \subseteq Chunk
        BY DEF TypeOK
      <4>3. c.seq \in Nat
        BY <4>2 DEF Chunk
      <4> QED
        BY <1>1, <1>8, <4>1, <4>3
    <3> QED
      BY <3>1, <3>2
  <2>5. reassembly' = reassembly
    BY DEF Writes
  <2> QED
    BY <2>1, <2>2, <2>3, <2>4, <2>5 DEF Ascending
<1>12. Entries'
  BY <1>1, <1>3 DEF Entries, Writes
<1>13. MessagesIntact'
  BY <1>1, <1>3 DEF MessagesIntact, Writes
<1>14. DeliveredIsGone'
  <2> SUFFICES ASSUME NEW k \in 1..begun, Arrived(k)
               PROVE  Gone(k)'
    BY <1>1, <1>3 DEF DeliveredIsGone, Writes
  <2>1. Gone(k) /\ k # m
    BY <1>4 DEF DeliveredIsGone, Gone
  <2> QED
    BY <1>4, <1>6, <1>7, <2>1 DEF Gone, Writes
<1>15. Accounted'
  <2>1. ASSUME NEW k \in 1..begun, k \notin hurt', ~Arrived(k), NEW r \in 0..(size[k] - 1)
        PROVE  Kept(k, r)'
    <3>1. Kept(k, r)
      BY <2>1 DEF Accounted, Writes
    <3>2. CASE [seq |-> r, of |-> k] \in reassembly[k].received
      BY <3>2 DEF Kept, Writes
    <3>3. CASE \E i \in DOMAIN wire : wire[i].of = k /\ wire[i].seq = r
      BY <1>6, <3>3 DEF Kept
    <3>4. ASSUME NEW u \in Task, task[u].of = k, task[u].seq <= r, u # t
          PROVE  Kept(k, r)'
      BY <1>2, <3>4 DEF Kept
    <3>5. CASE k = m /\ s <= r
      <4>1. Written(t) /\ (x = Idle => s + 1 = size[m])
        BY <2>1, <3>5 DEF Writes
      <4>2. CASE r = s
        <5>1. \E j \in DOMAIN wire' : wire'[j].of = k /\ wire'[j].seq = r
          BY <1>6, <1>7, <3>5, <4>1, <4>2
        <5> QED
          BY <5>1 DEF Kept
      <4>3. CASE r # s
        <5>1. x = [of |-> m, index |-> m, seq |-> s + 1] /\ s + 1 <= r
          BY <1>1, <2>1, <3>5, <4>1, <4>3 DEF Writes
        <5> QED
          BY <1>2, <3>5, <5>1 DEF Kept
      <4> QED
        BY <4>2, <4>3
    <3> QED
      BY <3>1, <3>2, <3>3, <3>4, <3>5 DEF Kept, Writes
  <2> QED
    BY <1>1, <1>3, <2>1 DEF Accounted, Writes
<1>16. Ahead'
  <2>1. \A k \in 1..begun : earlier[k] \subseteq Over' /\ k \notin earlier[k]
    BY <1>5 DEF Ahead
  <2>2. \A k \in 1..begun : m \notin earlier[k]
    BY <1>5 DEF Ahead
  <2>3. \A k \in 1..begun : \A i, j \in DOMAIN wire' :
          i < j /\ wire'[i].of = k => wire'[j].of \notin earlier[k]
    <3> SUFFICES ASSUME NEW k \in 1..begun, NEW i \in DOMAIN wire', NEW j \in DOMAIN wire',
                        i < j, wire'[i].of = k
                 PROVE  wire'[j].of \notin earlier[k]
      OBVIOUS
    <3>1. i \in DOMAIN wire /\ wire'[i] = wire[i]
      BY <1>6
    <3> QED
      BY <1>6, <1>7, <2>2, <3>1 DEF Ahead
  <2>4. \A k \in 1..begun : Touched(k)' <=> Touched(k)
    BY <1>1, <1>3 DEF Touched, Writes
  <2>5. \A k \in 1..begun : Touched(k) => \A i \in DOMAIN wire' : wire'[i].of \notin earlier[k]
    BY <1>6, <1>7, <2>2 DEF Ahead
  <2>6. \A k \in Msg \ (1..begun) : earlier[k] = {}
    BY DEF Ahead
  <2> QED
    BY <2>1, <2>3, <2>4, <2>5, <2>6 DEF Ahead, Writes
<1> QED
  BY <1>9, <1>10, <1>11, <1>12, <1>13, <1>14, <1>15, <1>16

-----------------------------------------------------------------------------
(* A fragment comes off the wire.                                          *)

Stored(m, s) == reassembly[m].received \cup {[seq |-> s, of |-> m]}

(* Fragment s of m is the last that m waited for, or is kept, or is lost.  *)
Completes(m, s) ==
  /\ Stored(m, s) = Whole(m) /\ delivered' = Append(delivered, Whole(m))
  /\ reassembly' = [reassembly EXCEPT ![m] = NoEntry]
Keeps(m, s) ==
  /\ Stored(m, s) # Whole(m) /\ Stored(m, s) \subseteq Whole(m) /\ delivered' = delivered
  /\ reassembly' = [reassembly EXCEPT ![m] = [expected |-> size[m], received |-> Stored(m, s)]]
Loses(m) == hurt' = hurt \cup {m} /\ UNCHANGED <<reassembly, delivered>>

Takes(m, s) ==
  /\ wire # <<>> /\ wire' = Tail(wire)
  /\ m = Head(wire).of /\ s = Head(wire).seq
  /\ (hurt' = hurt /\ (Completes(m, s) \/ Keeps(m, s))) \/ Loses(m)
  /\ UNCHANGED <<next, begun, task, size, earlier>>

LEMMA OnDataTakes ==
  ASSUME TypeOK, LinkInv, OnData, NEW m, NEW s, m = Head(wire).of, s = Head(wire).seq
  PROVE  Takes(m, s)
<1> USE DEF LinkInv
<1> DEFINE f == Head(wire)
           e == Add(reassembly[f.index], f)
<1>1. /\ wire # <<>> /\ f \in Fragment /\ f = wire[1] /\ 1 \in DOMAIN wire
      /\ f.index = m /\ f.of = m /\ f.seq = s /\ f.num = size[m] /\ s < size[m]
      /\ m \in 1..begun
  BY HeadFacts DEF OnData
<1>2. m \in Msg /\ size[m] \in Size /\ s \in Nat
  BY <1>1 DEF TypeOK, Sends, Fragment
<1>3. \A c \in reassembly[m].received : c.seq # s
  <2>1. \A c \in reassembly[m].received : c.seq < s /\ c.seq \in Nat
    <3>1. reassembly[m].received \subseteq Chunk
      BY <1>2 DEF TypeOK
    <3> QED
      BY <1>1, <1>2, <3>1 DEF Ascending, Chunk
  <2> QED
    BY <1>2, <2>1
<1>4. reassembly[m].received \subseteq Whole(m) /\ reassembly[m].expected \in {0, size[m]}
  BY <1>2 DEF Entries, NoEntry
<1>5. e = [expected |-> size[m], received |-> Stored(m, s)]
  <2>1. {c \in reassembly[m].received : c.seq # f.seq} = reassembly[m].received
    BY <1>1, <1>3
  <2>2. (IF reassembly[m].expected = 0 THEN f.num ELSE reassembly[m].expected) = size[m]
    BY <1>1, <1>2, <1>4
  <2> HIDE DEF f
  <2> QED
    BY <1>1, <2>1, <2>2 DEF Add, Stored
<1>6. Stored(m, s) \subseteq Whole(m)
  BY <1>1, <1>2, <1>4 DEF Stored, Whole
<1>7. Complete(e) <=> Stored(m, s) = Whole(m)
  <2>1. Cardinality(Stored(m, s)) >= size[m] <=> Stored(m, s) = Whole(m)
    BY <1>2, <1>6, PartFacts
  <2> HIDE DEF e
  <2> QED
    BY <1>2, <1>5, <2>1 DEF Complete
<1>8. /\ wire' = Tail(wire) /\ UNCHANGED <<next, begun, task, size, earlier, hurt>>
      /\ IF Complete(e)
         THEN /\ reassembly' = [reassembly EXCEPT ![f.index] = NoEntry]
              /\ delivered' = Append(delivered, e.received)
         ELSE /\ reassembly' = [reassembly EXCEPT ![f.index] = e]
              /\ UNCHANGED delivered
  BY DEF OnData
<1> HIDE DEF e, f
<1>9. Completes(m, s) \/ Keeps(m, s)
  <2>1. CASE Complete(e)
    <3>1. e.received = Stored(m, s) /\ Stored(m, s) = Whole(m)
      BY <1>5, <1>7, <2>1
    <3> QED
      BY <1>1, <1>8, <2>1, <3>1 DEF Completes
  <2>2. CASE ~Complete(e)
    BY <1>1, <1>5, <1>6, <1>7, <1>8, <2>2 DEF Keeps
  <2> QED
    BY <2>1, <2>2
<1> QED
  BY <1>1, <1>8, <1>9 DEF Takes

LEMMA UndecodableTakes ==
  ASSUME Undecodable, NEW m, NEW s, m = Head(wire).of, s = Head(wire).seq
  PROVE  Takes(m, s)
BY DEF Undecodable, Takes, Loses

LEMMA CompletesAppends ==
  ASSUME TypeOK, NEW m \in Msg, NEW s, size[m] \in Size, Completes(m, s)
  PROVE  /\ Len(delivered) \in Nat /\ DOMAIN delivered = 1..Len(delivered)
         /\ DOMAIN delivered' = 1..(Len(delivered) + 1)
         /\ \A i \in 1..Len(delivered) : delivered'[i] = delivered[i]
         /\ delivered'[Len(delivered) + 1] = Whole(m)
<1>1. Whole(m) \in SUBSET Chunk /\ delivered \in Seq(SUBSET Chunk)
  BY DEF TypeOK, Whole, Chunk
<1>2. delivered' = Append(delivered, Whole(m))
  BY DEF Completes
<1> HIDE DEF Msg, Size, None
<1> QED
  BY <1>1, <1>2, AppendFacts

LEMMA TakeStep ==
  ASSUME TypeOK, LinkInv, NEW m, NEW s, Takes(m, s)
  PROVE  LinkInv'
<1> USE DEF LinkInv
<1>1. /\ wire[1].of = m /\ wire[1].seq = s /\ s < size[m] /\ m \in 1..begun
      /\ 1 \in DOMAIN wire /\ DOMAIN wire \subseteq Nat /\ DOMAIN wire' \subseteq Nat
      /\ \A i \in DOMAIN wire' : i + 1 \in DOMAIN wire /\ i + 1 > 1 /\ wire'[i] = wire[i + 1]
      /\ \A i \in DOMAIN wire : i # 1 => i - 1 \in DOMAIN wire' /\ wire'[i - 1] = wire[i]
  <2>1. wire # <<>> /\ wire' = Tail(wire) /\ m = Head(wire).of /\ s = Head(wire).seq
    BY DEF Takes
  <2>2. /\ Head(wire) = wire[1] /\ Head(wire).of \in 1..begun /\ Head(wire).seq < size[Head(wire).of]
        /\ Len(wire) \in Nat /\ DOMAIN wire = 1..Len(wire) /\ Len(wire) >= 1
        /\ DOMAIN wire' = 1..(Len(wire) - 1)
        /\ \A i \in 1..(Len(wire) - 1) : wire'[i] = wire[i + 1]
    BY <2>1, HeadFacts
  <2> QED
    BY <2>1, <2>2
<1>2. /\ m \in Msg /\ s \in Nat /\ size[m] \in Size /\ 1..begun \subseteq Msg
      /\ \A k \in 1..begun : size[k] \in Size
  <2>1. Head(wire) \in Fragment /\ s = Head(wire).seq
    BY HeadFacts DEF Takes
  <2>2. s \in Nat
    BY <2>1 DEF Fragment
  <2>3. 1..begun \subseteq Msg
    BY DEF TypeOK
  <2>4. \A k \in 1..begun : size[k] \in Size
    BY DEF Sends
  <2> QED
    BY <1>1, <2>2, <2>3, <2>4
<1>3. \A k \in Msg : Whole(k)' = Whole(k)
  BY DEF Takes, Whole
<1>4. ~Arrived(m)
  BY <1>1 DEF DeliveredIsGone, Gone
<1>5. Over' = Over /\ \A k \in Msg : Sending(k)' <=> Sending(k)
  BY DEF Takes, Over, Sending
<1>6. /\ \A k \in Msg : k # m => reassembly'[k] = reassembly[k]
      /\ \A c \in reassembly'[m].received :
           c \in reassembly[m].received \/ c = [seq |-> s, of |-> m]
  <2>1. CASE Completes(m, s)
    BY <1>2, <2>1 DEF Completes, NoEntry, TypeOK
  <2>2. CASE Keeps(m, s)
    BY <1>2, <2>2 DEF Keeps, Stored, TypeOK
  <2>3. CASE Loses(m)
    BY <2>3 DEF Loses
  <2> QED
    BY <2>1, <2>2, <2>3 DEF Takes
<1>7. /\ \A k \in 1..begun : Arrived(k)' <=> (Arrived(k) \/ (k = m /\ Completes(m, s)))
      /\ MessagesIntact'
  <2>1. CASE Completes(m, s)
    <3> DEFINE L == Len(delivered)
    <3>1. /\ L \in Nat /\ DOMAIN delivered = 1..L /\ DOMAIN delivered' = 1..(L + 1)
          /\ \A i \in 1..L : delivered'[i] = delivered[i]
          /\ delivered'[L + 1] = Whole(m)
      BY <1>2, <2>1, CompletesAppends
    <3>2. PICK l \in Nat : l = L
      BY <3>1
    <3>3. /\ DOMAIN delivered = 1..l /\ DOMAIN delivered' = 1..(l + 1)
          /\ (\A i \in 1..l : delivered'[i] = delivered[i]) /\ delivered'[l + 1] = Whole(m)
      BY <3>1, <3>2
    <3> HIDE DEF L
    <3>4. \A i \in 1..(l + 1) : i \in 1..l \/ i = l + 1
      OBVIOUS
    <3>5. 1..l \subseteq 1..(l + 1) /\ l + 1 \in 1..(l + 1) /\ l + 1 \notin 1..l
      OBVIOUS
    <3>6. \A k \in 1..begun : Whole(k) = Whole(m) => k = m
      BY <1>2, WholesDiffer
    <3>7. \A i \in 1..l : delivered[i] # Whole(m)
      BY <1>4, <3>3 DEF Arrived
    <3>8. ASSUME NEW k \in 1..begun
          PROVE  Arrived(k)' <=> (Arrived(k) \/ k = m)
      <4>1. Arrived(k)' <=> \E i \in 1..(l + 1) : delivered'[i] = Whole(k)
        BY <1>2, <1>3, <3>3 DEF Arrived
      <4>2. Arrived(k) <=> \E i \in 1..l : delivered[i] = Whole(k)
        BY <3>3 DEF Arrived
      <4> QED
        BY <3>3, <3>4, <3>5, <3>6, <4>1, <4>2
    <3>9. \A i \in DOMAIN delivered' : \E k \in 1..begun : delivered'[i] = Whole(k)
      BY <1>1, <3>3, <3>4 DEF MessagesIntact
    <3>10. \A i, j \in DOMAIN delivered' : i # j => delivered'[i] # delivered'[j]
      BY <3>3, <3>4, <3>7 DEF MessagesIntact
    <3>11. MessagesIntact'
      <4>1. begun' = begun
        BY DEF Takes
      <4>2. \A i \in DOMAIN delivered' : \E k \in 1..begun : delivered'[i] = Whole(k)'
        BY <1>2, <1>3, <3>9
      <4> QED
        BY <3>10, <4>1, <4>2 DEF MessagesIntact
    <3> QED
      BY <2>1, <3>8, <3>11
  <2>2. CASE delivered' = delivered /\ ~Completes(m, s)
    BY <1>2, <1>3, <2>2 DEF Arrived, MessagesIntact, Takes
  <2> QED
    BY <2>1, <2>2 DEF Takes, Keeps, Loses
<1>8. Sends'
  BY DEF Sends, Takes
<1>9. OnWire'
  BY <1>1 DEF OnWire, Takes
<1>10. Ascending'
  <2>1. \A i, j \in DOMAIN wire' : i < j /\ wire'[i].of = wire'[j].of => wire'[i].seq < wire'[j].seq
    <3>1. \A i, j \in DOMAIN wire' : i < j => i + 1 < j + 1
      BY <1>1
    <3> QED
      BY <1>1, <3>1 DEF Ascending
  <2>2. \A i \in DOMAIN wire', u \in Task : wire'[i].of = task[u].of => wire'[i].seq < task[u].seq
    BY <1>1 DEF Ascending
  <2>3. \A k \in Msg : \A c \in reassembly'[k].received :
          \A i \in DOMAIN wire' : wire'[i].of = k => c.seq < wire'[i].seq
    <3> SUFFICES ASSUME NEW k \in Msg, NEW c \in reassembly'[k].received,
                        NEW i \in DOMAIN wire', wire'[i].of = k
                 PROVE  c.seq < wire'[i].seq
      OBVIOUS
    <3>1. CASE c \in reassembly[k].received
      BY <1>1, <3>1 DEF Ascending
    <3>2. CASE c \notin reassembly[k].received
      <4>1. k = m /\ c = [seq |-> s, of |-> m]
        BY <1>6, <3>2
      <4>2. s < wire[i + 1].seq
        BY <1>1, <4>1 DEF Ascending
      <4> QED
        BY <1>1, <4>1, <4>2
    <3> QED
      BY <3>1, <3>2
  <2>4. \A k \in Msg : \A c \in reassembly'[k].received :
          \A u \in Task : task[u].of = k => c.seq < task[u].seq
    <3> SUFFICES ASSUME NEW k \in Msg, NEW c \in reassembly'[k].received,
                        NEW u \in Task, task[u].of = k
                 PROVE  c.seq < task[u].seq
      OBVIOUS
    <3>1. CASE c \in reassembly[k].received
      BY <3>1 DEF Ascending
    <3>2. CASE c \notin reassembly[k].received
      <4>1. k = m /\ c = [seq |-> s, of |-> m]
        BY <1>6, <3>2
      <4> QED
        BY <1>1, <4>1 DEF Ascending
    <3> QED
      BY <3>1, <3>2
  <2> QED
    BY <2>1, <2>2, <2>3, <2>4 DEF Ascending, Takes
<1>11. Entries'
  <2>1. \A k \in Msg : k # m /\ reassembly'[k] # NoEntry =>
          /\ k \in 1..begun /\ reassembly'[k].expected = size[k]
          /\ reassembly'[k].received \subseteq Whole(k) /\ reassembly'[k].received # Whole(k)
    BY <1>6 DEF Entries
  <2>2. reassembly'[m] # NoEntry =>
          /\ reassembly'[m].expected = size[m]
          /\ reassembly'[m].received \subseteq Whole(m) /\ reassembly'[m].received # Whole(m)
    <3>1. CASE Completes(m, s)
      BY <1>2, <3>1 DEF Completes, TypeOK
    <3>2. CASE Keeps(m, s)
      <4>1. reassembly'[m] = [expected |-> size[m], received |-> Stored(m, s)]
        BY <1>2, <3>2 DEF Keeps, TypeOK
      <4> QED
        BY <3>2, <4>1 DEF Keeps
    <3>3. CASE Loses(m)
      BY <1>2, <3>3 DEF Loses, Entries
    <3> QED
      BY <3>1, <3>2, <3>3 DEF Takes
  <2> QED
    BY <1>1, <1>2, <1>3, <2>1, <2>2 DEF Entries, Takes
<1>12. DeliveredIsGone'
  <2>1. \A k \in 1..begun : Gone(k) => k # m /\ Gone(k)'
    <3>1. \A k \in 1..begun : Gone(k) => k # m
      BY <1>1 DEF Gone
    <3> QED
      BY <1>1, <1>2, <1>5, <1>6, <3>1 DEF Gone
  <2>2. Completes(m, s) => Gone(m)'
    <3> SUFFICES ASSUME Completes(m, s) PROVE Gone(m)'
      OBVIOUS
    <3>1. reassembly'[m] = NoEntry
      BY <1>2 DEF Completes, TypeOK
    <3>2. s = size[m] - 1
      <4>1. [seq |-> size[m] - 1, of |-> m] \in Stored(m, s)
        BY <1>2, WholeFacts DEF Completes
      <4>2. [seq |-> size[m] - 1, of |-> m] \notin reassembly[m].received
        BY <1>1, <1>2 DEF Ascending
      <4> QED
        BY <4>1, <4>2 DEF Stored
    <3>3. ~Sending(m)
      <4> SUFFICES ASSUME NEW u \in Task, task[u].of = m PROVE FALSE
        BY DEF Sending
      <4>1. task[u] # Idle
        BY <1>1 DEF Idle
      <4>2. s < task[u].seq /\ task[u].seq < size[m]
        BY <1>1, <4>1 DEF Ascending, Sends
      <4>3. task[u].seq \in Nat
        BY DEF TypeOK
      <4> QED
        BY <1>2, <3>2, <4>2, <4>3
    <3>4. \A i \in DOMAIN wire' : wire'[i].of # m
      <4> SUFFICES ASSUME NEW i \in DOMAIN wire', wire'[i].of = m PROVE FALSE
        OBVIOUS
      <4>1. wire[i + 1].of = m /\ s < wire[i + 1].seq /\ wire[i + 1].seq < size[m]
        BY <1>1 DEF Ascending, OnWire
      <4>2. wire[i + 1].seq \in Nat
        <5>1. wire \in Seq(Fragment)
          BY DEF TypeOK
        <5>2. wire[i + 1] \in Fragment
          BY <1>1, <5>1, ElementOfSeq, LenProperties
        <5> QED
          BY <5>2 DEF Fragment
      <4> QED
        BY <1>2, <3>2, <4>1, <4>2
    <3> QED
      BY <1>2, <1>5, <3>1, <3>3, <3>4 DEF Gone
  <2> QED
    BY <1>7, <2>1, <2>2 DEF DeliveredIsGone, Takes
<1>13. Accounted'
  <2>1. ASSUME NEW k \in 1..begun, k \notin hurt', ~Arrived(k)', NEW r \in 0..(size[k] - 1)
        PROVE  Kept(k, r)'
    <3>1. Kept(k, r)
      <4>1. k \notin hurt /\ ~Arrived(k)
        BY <1>7, <2>1 DEF Takes, Loses
      <4> QED
        BY <2>1, <4>1 DEF Accounted
    <3>2. reassembly[k].received \subseteq reassembly'[k].received
      <4>1. CASE k # m
        BY <1>2, <1>6, <4>1
      <4>2. CASE k = m
        <5>1. Keeps(m, s)
          BY <1>7, <2>1, <4>2 DEF Takes, Loses
        <5> QED
          BY <1>2, <4>2, <5>1 DEF Keeps, Stored, TypeOK
      <4> QED
        BY <4>1, <4>2
    <3>3. CASE [seq |-> r, of |-> k] \in reassembly[k].received
      BY <3>2, <3>3 DEF Kept
    <3>4. ASSUME NEW i \in DOMAIN wire, wire[i].of = k, wire[i].seq = r
          PROVE  Kept(k, r)'
      <4>1. CASE i = 1
        <5>1. k = m /\ r = s /\ Keeps(m, s)
          BY <1>1, <1>7, <2>1, <3>4, <4>1 DEF Takes, Loses
        <5>2. [seq |-> r, of |-> k] \in reassembly'[k].received
          BY <1>2, <5>1 DEF Keeps, Stored, TypeOK
        <5> QED
          BY <5>2 DEF Kept
      <4>2. CASE i # 1
        BY <1>1, <3>4, <4>2 DEF Kept
      <4> QED
        BY <4>1, <4>2
    <3>5. CASE \E u \in Task : task[u].of = k /\ task[u].seq <= r
      BY <3>5 DEF Kept, Takes
    <3> QED
      BY <3>1, <3>3, <3>4, <3>5 DEF Kept
  <2> QED
    BY <2>1 DEF Accounted, Takes
<1>14. Ahead'
  <2>1. \A k \in 1..begun : Touched(k)' => Touched(k) \/ k = m
    BY <1>2, <1>6, <1>7 DEF Touched
  <2>2. \A k \in 1..begun : \A i, j \in DOMAIN wire' :
          i < j /\ wire'[i].of = k => wire'[j].of \notin earlier[k]
    <3>1. \A i, j \in DOMAIN wire' : i < j => i + 1 < j + 1
      BY <1>1
    <3> QED
      BY <1>1, <3>1 DEF Ahead
  <2>3. \A k \in 1..begun : Touched(k)' => \A i \in DOMAIN wire' : wire'[i].of \notin earlier[k]
    <3>1. \A i \in DOMAIN wire' : wire'[i].of \notin earlier[m]
      BY <1>1 DEF Ahead
    <3>2. \A k \in 1..begun : Touched(k) => \A i \in DOMAIN wire' : wire'[i].of \notin earlier[k]
      BY <1>1 DEF Ahead
    <3> QED
      BY <2>1, <3>1, <3>2
  <2>4. /\ \A k \in 1..begun : earlier[k] \subseteq Over' /\ k \notin earlier[k]
        /\ \A k \in Msg \ (1..begun) : earlier[k] = {}
    BY <1>5 DEF Ahead
  <2> QED
    BY <2>2, <2>3, <2>4 DEF Ahead, Takes
<1> QED
  BY <1>7, <1>8, <1>9, <1>10, <1>11, <1>12, <1>13, <1>14

-----------------------------------------------------------------------------
(* The invariant holds throughout.                                         *)

LEMMA InvStep == TypeOK /\ LinkInv /\ [Next]_vars => LinkInv'
<1> SUFFICES ASSUME TypeOK, LinkInv, [Next]_vars PROVE LinkInv'
  OBVIOUS
<1>1. ASSUME NEW t \in Task, NEW n \in Size, SendCommand(t, n) PROVE LinkInv'
  BY <1>1, SendStep
<1>2. ASSUME NEW t \in Task, WriteFragment(t) \/ WriteRaises(t) PROVE LinkInv'
  <2>1. PICK x, m, s : Writes(t, x, m, s)
    BY <1>2, WriteIsWrites DEF LinkInv
  <2> QED
    BY <2>1, WriteStep
<1>3. ASSUME OnData \/ Undecodable PROVE LinkInv'
  <2>1. PICK m, s : m = Head(wire).of /\ s = Head(wire).seq
    OBVIOUS
  <2>2. Takes(m, s)
    BY <1>3, <2>1, OnDataTakes, UndecodableTakes
  <2> QED
    BY <2>2, TakeStep
<1>4. CASE UNCHANGED vars
  <2> USE DEF vars
  <2>1. (Sends /\ OnWire /\ Ascending /\ Entries)'
    BY <1>4 DEF LinkInv, Sends, OnWire, Ascending, Entries, Whole
  <2>2. (MessagesIntact /\ DeliveredIsGone)'
    BY <1>4 DEF LinkInv, MessagesIntact, DeliveredIsGone, Gone, Arrived, Sending, Whole
  <2>3. Accounted'
    BY <1>4 DEF LinkInv, Accounted, Kept, Arrived, Whole
  <2>4. Ahead'
    <3>1. Over' = Over /\ \A n \in Msg : Touched(n)' <=> Touched(n)
      BY <1>4 DEF Over, Sending, Touched, Arrived, Whole
    <3>2. 1..begun \subseteq Msg
      BY DEF TypeOK
    <3> QED
      BY <1>4, <3>1, <3>2 DEF LinkInv, Ahead
  <2> QED
    BY <2>1, <2>2, <2>3, <2>4 DEF LinkInv
<1> QED
  BY <1>1, <1>2, <1>3, <1>4 DEF Next

(* The messages on the link, the queue, the entries of _reassembly and the *)
(* counters of send_command have their types, and the strengthening that   *)
(* keeps a message's index its own holds, whatever is sent.                *)
THEOREM TypeCorrect == Spec => []TypeOK
<1>1. Init => TypeOK /\ LinkInv
  BY Start
<1>2. TypeOK /\ LinkInv /\ [Next]_vars => TypeOK' /\ LinkInv'
  BY TypeStep, InvStep DEF LinkInv
<1> QED
  BY <1>1, <1>2, PTL DEF Spec

(* The inductive invariant: each fragment of a message that was not hurt   *)
(* is received, on the wire or to be written, in the order of its sequence *)
(* number, until all of them are delivered together and none is left.      *)
THEOREM LinkInvariant == Spec => []LinkInv
<1>1. Init => TypeOK /\ LinkInv
  BY Start
<1>2. TypeOK /\ LinkInv /\ [Next]_vars => TypeOK' /\ LinkInv'
  BY TypeStep, InvStep DEF LinkInv
<1> QED
  BY <1>1, <1>2, PTL DEF Spec

(* _dispatch hands the subscribers whole messages only, and none twice.    *)
THEOREM MessagesAreIntact == Spec => []MessagesIntact
BY LinkInvariant, PTL DEF LinkInv

(* What is neither to be written nor on the wire was delivered.            *)
LEMMA OffMeansArrived ==
  ASSUME LinkInv, NEW m \in 1..begun, m \notin hurt, ~Sending(m),
         \A i \in DOMAIN wire : wire[i].of # m, m \in Msg
  PROVE  Arrived(m)
<1> SUFFICES ASSUME ~Arrived(m) PROVE FALSE
  OBVIOUS
<1>1. size[m] \in Size
  BY DEF LinkInv, Sends
<1>2. \A s \in 0..(size[m] - 1) : [seq |-> s, of |-> m] \in reassembly[m].received
  BY DEF LinkInv, Accounted, Kept, Sending
<1>3. Whole(m) \subseteq reassembly[m].received
  BY <1>2 DEF Whole
<1>4. reassembly[m] # NoEntry
  <2>1. 0 \in 0..(size[m] - 1)
    BY <1>1
  <2>2. reassembly[m].received # {}
    BY <1>2, <2>1
  <2> QED
    BY <2>2 DEF NoEntry
<1>5. reassembly[m].received \subseteq Whole(m) /\ reassembly[m].received # Whole(m)
  BY <1>4 DEF LinkInv, Entries
<1> QED
  BY <1>3, <1>5

(* A message whose send is over and whose fragments are off the link was   *)
(* delivered, and nothing of it lingers in _reassembly, unless one of its  *)
(* own fragments was lost.                                                 *)
THEOREM LossIsAccounted == Spec => []LossAccounted
<1>1. TypeOK /\ LinkInv => LossAccounted
  <2> SUFFICES ASSUME TypeOK, LinkInv, NEW m \in 1..begun, m \notin hurt, OffTheWire(m)
               PROVE  /\ Arrived(m)
                      /\ \A i \in Msg : \A c \in reassembly[i].received : c.of # m
    BY DEF LossAccounted
  <2>1. m \in Msg /\ ~Sending(m) /\ \A i \in DOMAIN wire : wire[i].of # m
    BY DEF OffTheWire, Over, TypeOK
  <2>2. Arrived(m)
    BY <2>1, OffMeansArrived
  <2>3. reassembly[m] = NoEntry
    BY <2>2 DEF LinkInv, DeliveredIsGone, Gone
  <2>4. \A i \in Msg : reassembly[i].received \subseteq Whole(i)
    BY DEF LinkInv, Entries, NoEntry
  <2>5. \A i \in Msg : \A c \in reassembly[i].received : c.of = i
    BY <2>4 DEF Whole
  <2> QED
    BY <2>2, <2>3, <2>5 DEF NoEntry
<1> QED
  BY <1>1, TypeCorrect, LinkInvariant, PTL

-----------------------------------------------------------------------------
(* Transport implements MessageLink.                                       *)

Arrivals == [i \in DOMAIN delivered |-> Message(delivered[i])]

(* Each delivery stands for the one message it is all of.                  *)
LEMMA ArrivalsFacts ==
  ASSUME TypeOK, LinkInv
  PROVE  /\ Len(delivered) \in Nat /\ DOMAIN delivered = 1..Len(delivered)
         /\ Arrivals \in [1..Len(delivered) -> Msg]
         /\ \A m \in 1..begun : Message(Whole(m)) = m
         /\ \A m \in 1..begun, i \in DOMAIN delivered : Arrivals[i] = m <=> delivered[i] = Whole(m)
         /\ {Arrivals[i] : i \in DOMAIN Arrivals} = {m \in 1..begun : Arrived(m)}
<1>1. Len(delivered) \in Nat /\ DOMAIN delivered = 1..Len(delivered)
  <2>1. delivered \in Seq(SUBSET Chunk)
    BY DEF TypeOK
  <2> QED
    BY <2>1, LenProperties
<1>2. 1..begun \subseteq Msg
  BY DEF TypeOK
<1>3. \A m \in 1..begun : Message(Whole(m)) = m
  <2> SUFFICES ASSUME NEW m \in 1..begun PROVE Message(Whole(m)) = m
    OBVIOUS
  <2>1. \A n \in 1..begun : Whole(m) = Whole(n) => m = n
    BY <1>2, WholesDiffer DEF LinkInv, Sends
  <2> QED
    BY <2>1 DEF Message
<1>4. \A i \in DOMAIN delivered : \E m \in 1..begun : delivered[i] = Whole(m)
  BY DEF LinkInv, MessagesIntact
<1>5. \A m \in 1..begun, i \in DOMAIN delivered : Arrivals[i] = m <=> delivered[i] = Whole(m)
  BY <1>3, <1>4 DEF Arrivals
<1>6. Arrivals \in [1..Len(delivered) -> Msg]
  BY <1>1, <1>2, <1>3, <1>4 DEF Arrivals
<1>7. {Arrivals[i] : i \in DOMAIN Arrivals} = {m \in 1..begun : Arrived(m)}
  <2>1. DOMAIN Arrivals = DOMAIN delivered
    BY DEF Arrivals
  <2>2. \A i \in DOMAIN delivered : Arrivals[i] \in 1..begun /\ Arrived(Arrivals[i])
    BY <1>3, <1>4 DEF Arrivals, Arrived
  <2>3. \A m \in 1..begun : Arrived(m) => \E i \in DOMAIN delivered : Arrivals[i] = m
    BY <1>5 DEF Arrived
  <2> QED
    BY <2>1, <2>2, <2>3
<1> QED
  BY <1>1, <1>3, <1>5, <1>6, <1>7

(* Deliveries that stay stand for the same messages.                       *)
LEMMA MessageOfWhole == TypeOK /\ LinkInv => \A m \in 1..begun : Message(Whole(m)) = m
BY ArrivalsFacts

LEMMA MessageOfWholeNext ==
  TypeOK' /\ LinkInv' => \A m \in 1..begun' : Message(Whole(m))' = m
<1>1. (TypeOK /\ LinkInv => \A m \in 1..begun : Message(Whole(m)) = m)'
  BY MessageOfWhole, PTL
<1> QED
  BY <1>1

LEMMA ArrivalsStay ==
  ASSUME TypeOK, LinkInv, TypeOK', LinkInv', delivered' = delivered, begun \in 0..begun',
         \A m \in 1..begun : Whole(m)' = Whole(m)
  PROVE  Arrivals' = Arrivals
<1>1. \A i \in DOMAIN delivered : Message(delivered[i])' = Message(delivered[i])
  <2> SUFFICES ASSUME NEW i \in DOMAIN delivered
               PROVE  Message(delivered[i])' = Message(delivered[i])
    OBVIOUS
  <2>1. PICK m \in 1..begun : delivered[i] = Whole(m)
    BY DEF LinkInv, MessagesIntact
  <2>2. Message(Whole(m)) = m
    BY MessageOfWhole
  <2>3. m \in 1..begun' /\ Whole(m)' = Whole(m)
    BY DEF TypeOK
  <2>4. Message(Whole(m))' = m
    BY <2>3, MessageOfWholeNext
  <2>5. Message(delivered[i])' = Message(Whole(m))'
    BY <2>1, <2>3 DEF Message
  <2> QED
    BY <2>1, <2>2, <2>4, <2>5
<1> QED
  BY <1>1 DEF Arrivals

(* SendCommand begins the next message.                                    *)
LEMMA SendRefines ==
  ASSUME TypeOK, LinkInv, TypeOK', LinkInv', NEW t \in Task, NEW n \in Size, SendCommand(t, n)
  PROVE  \E m \in Msg : Link!Begin(m)
<1>1. PICK m \in Nat : m = begun + 1
  BY DEF TypeOK
<1>2. /\ m \in Msg /\ m \notin 1..begun /\ 1..begun' = 1..begun \cup {m}
      /\ begun' = m /\ 1..begun \subseteq Msg
  BY <1>1 DEF SendCommand, TypeOK
<1>3. Arrivals' = Arrivals
  <2>1. \A k \in 1..begun : Whole(k)' = Whole(k)
    BY <1>1, <1>2 DEF SendCommand, TypeOK, Whole
  <2>2. begun \in 0..begun'
    BY <1>1, <1>2 DEF TypeOK
  <2> QED
    BY <2>1, <2>2, ArrivalsStay DEF SendCommand
<1>4. Over' = Over
  <2>1. task[t] = Idle /\ task'[t].of = m /\ \A u \in Task : u # t => task'[u] = task[u]
    BY <1>1 DEF SendCommand, TypeOK
  <2>2. Sending(m)' /\ \A k \in 1..begun : Sending(k)' <=> Sending(k)
    <3>1. \A k \in 1..begun : k # m /\ task[t].of # k
      BY <1>2, <2>1 DEF Idle
    <3> QED
      BY <2>1, <3>1 DEF Sending
  <2> QED
    BY <1>2, <2>2 DEF Over
<1>5. Over \subseteq 1..begun
  BY DEF Over
<1>6. earlier' = [earlier EXCEPT ![m] = Over] /\ hurt' = hurt
  BY <1>1 DEF SendCommand
<1>7. Link!Begin(m)
  BY <1>2, <1>3, <1>4, <1>5, <1>6 DEF Link!Begin, Arrivals
<1> QED
  BY <1>2, <1>7

(* The last write ends the send, one that raises ends and harms it, and    *)
(* any other is not seen.                                                  *)
LEMMA WriteRefines ==
  ASSUME TypeOK, LinkInv, TypeOK', LinkInv', NEW t \in Task, NEW x, NEW m, NEW s, Writes(t, x, m, s)
  PROVE  (\E k \in Msg : Link!End(k) \/ Link!Harm(k)) \/ UNCHANGED Link!vars
<1>1. /\ m \in 1..begun /\ 1..begun \subseteq Msg /\ Sending(m)
      /\ \A u \in Task : u # t => task'[u] = task[u] /\ task[u].of # m
      /\ task'[t] = x /\ begun' = begun
  BY DEF LinkInv, Writes, Sends, Sending, TypeOK
<1>2. Arrivals' = Arrivals
  <2>1. \A k \in 1..begun : Whole(k)' = Whole(k)
    BY DEF Writes, Whole
  <2>2. begun \in 0..begun'
    BY <1>1 DEF TypeOK
  <2> QED
    BY <2>1, <2>2, ArrivalsStay DEF Writes
<1>3. m \notin Over /\ Over \subseteq 1..begun
  BY <1>1 DEF Over
<1>4. earlier' = earlier /\ hurt' \in {hurt, hurt \cup {m}}
  BY DEF Writes
<1>5. CASE x = Idle
  <2>1. ~Sending(m)' /\ \A k \in 1..begun : k # m => (Sending(k)' <=> Sending(k))
    <3>1. task[t].of = m /\ task'[t].of = 0
      BY <1>1, <1>5 DEF Writes, Idle
    <3> QED
      BY <1>1, <3>1 DEF Sending
  <2>2. Over' = Over \cup {m}
    BY <1>1, <2>1 DEF Over
  <2>3. 1..begun' \ Over' = (1..begun \ Over) \ {m}
    BY <1>1, <2>2
  <2>4. Link!End(m)
    BY <1>1, <1>2, <1>3, <1>4, <2>2, <2>3 DEF Link!End, Arrivals
  <2> QED
    BY <1>1, <2>4
<1>6. CASE x # Idle
  <2>1. \A k \in 1..begun : Sending(k)' <=> Sending(k)
    <3>1. task[t].of = m /\ task'[t].of = m
      BY <1>1, <1>6 DEF Writes
    <3> QED
      BY <1>1, <3>1 DEF Sending
  <2>2. Over' = Over
    BY <1>1, <2>1 DEF Over
  <2>3. CASE hurt' = hurt
    BY <1>1, <1>2, <1>4, <2>2, <2>3 DEF Link!vars, Arrivals
  <2>4. CASE hurt' = hurt \cup {m}
    <3>1. Link!Harm(m)
      BY <1>1, <1>2, <1>3, <1>4, <2>2, <2>4 DEF Link!Harm, Arrivals
    <3> QED
      BY <1>1, <3>1
  <2> QED
    BY <1>4, <2>3, <2>4
<1> QED
  BY <1>5, <1>6

(* The fragment that completes a message delivers it, one that is lost     *)
(* harms its message, and any other is not seen.                           *)
LEMMA TakeRefines ==
  ASSUME TypeOK, LinkInv, TypeOK', LinkInv', NEW m, NEW s, Takes(m, s)
  PROVE  (\E k \in Msg : Link!Deliver(k) \/ Link!Harm(k)) \/ UNCHANGED Link!vars
<1>1. /\ m \in 1..begun /\ 1..begun \subseteq Msg /\ 1 \in DOMAIN wire /\ wire[1].of = m
      /\ DOMAIN wire \subseteq Nat /\ \A i \in DOMAIN wire : 1 <= i
  <2>1. wire # <<>> /\ OnWire /\ m = Head(wire).of
    BY DEF LinkInv, Takes
  <2>2. /\ Head(wire) = wire[1] /\ Head(wire).of \in 1..begun
        /\ Len(wire) \in Nat /\ DOMAIN wire = 1..Len(wire) /\ Len(wire) >= 1
    BY <2>1, HeadFacts
  <2>3. 1..begun \subseteq Msg
    BY DEF TypeOK
  <2> QED
    BY <2>1, <2>2, <2>3
<1>2. /\ begun' = begun /\ Over' = Over /\ earlier' = earlier
      /\ \A k \in 1..begun : Whole(k)' = Whole(k)
  BY DEF Takes, Over, Sending, Whole
<1>3. begun \in 0..begun' /\ Over \subseteq 1..begun
  BY <1>2 DEF TypeOK, Over
<1>4. CASE Keeps(m, s) /\ hurt' = hurt
  <2>1. Arrivals' = Arrivals
    BY <1>2, <1>3, <1>4, ArrivalsStay DEF Keeps
  <2> QED
    BY <1>2, <1>4, <2>1 DEF Link!vars, Arrivals
<1>5. CASE Loses(m)
  <2>1. Arrivals' = Arrivals
    BY <1>2, <1>3, <1>5, ArrivalsStay DEF Loses
  <2>2. Link!Harm(m)
    BY <1>1, <1>2, <1>3, <1>5, <2>1 DEF Link!Harm, Loses, Arrivals
  <2> QED
    BY <1>1, <2>2
<1>6. CASE Completes(m, s) /\ hurt' = hurt
  <2>1. ~Arrived(m)
    BY <1>1 DEF LinkInv, DeliveredIsGone, Gone
  <2>2. \A k \in earlier[m] : k \in 1..begun /\ (Arrived(k) \/ k \in hurt)
    <3>0. \A k \in earlier[m] : k \in 1..begun
      BY <1>1 DEF LinkInv, Ahead, Over
    <3> SUFFICES ASSUME NEW k \in earlier[m], k \notin hurt PROVE Arrived(k)
      BY <3>0
    <3>1. k \in 1..begun /\ ~Sending(k) /\ k # m
      BY <1>1 DEF LinkInv, Ahead, Over
    <3>2. \A i \in DOMAIN wire : wire[i].of # k
      <4> SUFFICES ASSUME NEW i \in DOMAIN wire, wire[i].of = k PROVE FALSE
        OBVIOUS
      <4>1. 1 < i
        BY <1>1, <3>1
      <4> QED
        BY <1>1, <4>1 DEF LinkInv, Ahead
    <3> QED
      BY <1>1, <3>1, <3>2, OffMeansArrived
  <2>3. \A k \in 1..begun : Arrived(k) => m \notin earlier[k]
    BY <1>1 DEF LinkInv, Ahead, Touched
  <2>4. Arrivals' = Append(Arrivals, m)
    <3>1. PICK l \in Nat : l = Len(delivered)
      BY ArrivalsFacts
    <3>2. /\ DOMAIN delivered = 1..l /\ DOMAIN delivered' = 1..(l + 1)
          /\ \A i \in 1..l : delivered'[i] = delivered[i]
          /\ delivered'[l + 1] = Whole(m)
      <4>1. size[m] \in Size
        BY <1>1 DEF LinkInv, Sends
      <4> QED
        BY <1>1, <1>6, <3>1, <4>1, CompletesAppends
    <3>3. \A i \in 1..l : Message(delivered[i])' = Message(delivered[i])
      <4> SUFFICES ASSUME NEW i \in 1..l PROVE Message(delivered[i])' = Message(delivered[i])
        OBVIOUS
      <4>1. PICK k \in 1..begun : delivered[i] = Whole(k)
        BY <3>2 DEF LinkInv, MessagesIntact
      <4>2. Message(Whole(k)) = k /\ Message(Whole(k))' = k
        BY <1>2, MessageOfWhole, MessageOfWholeNext
      <4>3. Message(delivered[i])' = Message(Whole(k))'
        BY <1>2, <3>2, <4>1 DEF Message
      <4> QED
        BY <4>1, <4>2, <4>3
    <3>4. Message(delivered[l + 1])' = m
      <4>1. Message(Whole(m))' = m /\ Whole(m)' = Whole(m)
        BY <1>1, <1>2, MessageOfWholeNext
      <4>2. Message(delivered[l + 1])' = Message(Whole(m))'
        BY <3>2, <4>1 DEF Message
      <4> QED
        BY <4>1, <4>2
    <3>5. Arrivals \in [1..l -> Msg]
      BY <3>1, ArrivalsFacts
    <3>6. /\ \A i \in 1..l : Arrivals'[i] = Arrivals[i]
          /\ Arrivals'[l + 1] = m /\ DOMAIN Arrivals' = 1..(l + 1)
      BY <3>2, <3>3, <3>4 DEF Arrivals
    <3>7. Arrivals' \in [1..(l + 1) -> Msg]
      <4>1. \A i \in 1..(l + 1) : i \in 1..l \/ i = l + 1
        OBVIOUS
      <4>2. \A i \in 1..(l + 1) : Arrivals'[i] \in Msg
        BY <1>1, <3>5, <3>6, <4>1
      <4>3. Arrivals' = [i \in 1..(l + 1) |-> Arrivals'[i]]
        BY <3>2 DEF Arrivals
      <4> QED
        BY <4>2, <4>3
    <3> HIDE DEF Msg
    <3> QED
      BY <3>5, <3>6, <3>7, GrowsByOne
  <2>5. Link!Deliver(m)
    BY <1>1, <1>2, <1>3, <1>6, <2>1, <2>2, <2>3, <2>4, ArrivalsFacts
       DEF Link!Deliver, Link!Delivered, Arrivals
  <2> QED
    BY <1>1, <2>5
<1> QED
  BY <1>4, <1>5, <1>6 DEF Takes

(* The fragments keep the promise of MessageLink: each message is          *)
(* delivered whole and at most once, and not before one whose send was     *)
(* over when its own began, unless that one was hurt.                      *)
THEOREM RefinesMessageLink == Spec => ImplementsMessageLink
<1>1. Init => Link!Init
  BY DEF Init, Link!Init, Over
<1>2. ASSUME TypeOK, LinkInv, TypeOK', LinkInv', [Next]_vars
      PROVE  [Link!Next]_(Link!vars)
  <2>1. ASSUME NEW t \in Task, NEW n \in Size, SendCommand(t, n) PROVE Link!Next
    BY <1>2, <2>1, SendRefines DEF Link!Next
  <2>2. ASSUME NEW t \in Task, WriteFragment(t) \/ WriteRaises(t)
        PROVE  Link!Next \/ UNCHANGED Link!vars
    <3>1. PICK x, m, s : Writes(t, x, m, s)
      BY <1>2, <2>2, WriteIsWrites DEF LinkInv
    <3> QED
      BY <1>2, <3>1, WriteRefines DEF Link!Next
  <2>3. ASSUME OnData \/ Undecodable PROVE Link!Next \/ UNCHANGED Link!vars
    <3>1. PICK m, s : m = Head(wire).of /\ s = Head(wire).seq
      OBVIOUS
    <3>2. Takes(m, s)
      BY <1>2, <2>3, <3>1, OnDataTakes, UndecodableTakes
    <3> QED
      BY <1>2, <3>2, TakeRefines DEF Link!Next
  <2>4. CASE UNCHANGED vars
    <3>1. Over' = Over /\ Arrivals' = Arrivals
      <4>1. \A k \in 1..begun : Whole(k)' = Whole(k)
        BY <2>4 DEF vars, Whole
      <4>2. begun \in 0..begun' /\ delivered' = delivered
        BY <1>2, <2>4 DEF vars, TypeOK
      <4>3. Over' = Over
        BY <2>4 DEF vars, Over, Sending
      <4> QED
        BY <1>2, <4>1, <4>2, <4>3, ArrivalsStay
    <3> QED
      BY <2>4, <3>1 DEF vars, Link!vars, Arrivals
  <2> QED
    BY <1>2, <2>1, <2>2, <2>3, <2>4 DEF Next
<1> QED
  BY <1>1, <1>2, TypeCorrect, LinkInvariant, PTL DEF Spec, ImplementsMessageLink, Link!Spec
=============================================================================
