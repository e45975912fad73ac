-------------------------- MODULE RecordingsProofs --------------------------
(***************************************************************************)
(* Theorems about Recordings and Sidecars, for streams of any length over  *)
(* any chunks.                                                             *)
(***************************************************************************)
EXTENDS Sidecars, ChannelLemmas, FiniteSetTheorems, TLAPS

USE StreamAssumption

(* The EOS pages a file is closed with, and a writer whose file has them,  *)
(* unless an exception was swallowed.                                      *)
EosOf(count) == IF count > 0 THEN 1 ELSE 0
Sound(w) ==
  \/ w.swallowed
  \/ /\ w.file = "open" => w.eos = 0
     /\ w.file = "closed" => w.eos = EosOf(w.count)

(* Closing, whatever becomes of it.                                        *)
LEMMA ClosedFacts ==
  ASSUME NEW w \in Writer, NEW how, NEW v, v = Closed(w, how)
  PROVE  /\ v \in Writer /\ v.count = w.count /\ v.stopped = w.stopped
         /\ w.file # "open" => v = w
         /\ w.file = "open" => v.file \in {"open", "closed"} /\ (v.file = "open" => v.swallowed)
         /\ Sound(w) => Sound(v)
<1>1. PICK n \in Nat : n = IF w.count > 0 THEN w.eos + 1 ELSE w.eos
  BY DEF Writer
<1>2. n = w.eos + EosOf(w.count) /\ w.eos \in Nat /\ w.count \in Nat
  BY <1>1 DEF EosOf, Writer
<1>3. CASE w.file # "open"
  <2>1. v = w
    BY <1>3 DEF Closed
  <2> QED
    BY <1>3, <2>1
<1>4. CASE w.file = "open" /\ how = "works"
  <2>1. v = [w EXCEPT !.eos = n, !.file = "closed"]
    BY <1>1, <1>4 DEF Closed
  <2>2. /\ v \in Writer /\ v.count = w.count /\ v.stopped = w.stopped
        /\ v.swallowed = w.swallowed /\ v.file = "closed" /\ v.eos = n
    BY <1>1, <2>1 DEF Writer
  <2> QED
    BY <1>2, <1>4, <2>2 DEF Sound, EosOf
<1>5. CASE w.file = "open" /\ how = "no flush"
  <2>1. v = [w EXCEPT !.eos = n, !.swallowed = TRUE]
    BY <1>1, <1>5 DEF Closed
  <2>2. /\ v \in Writer /\ v.count = w.count /\ v.stopped = w.stopped
        /\ v.swallowed /\ v.file = w.file
    BY <1>1, <2>1 DEF Writer
  <2> QED
    BY <1>5, <2>2 DEF Sound
<1>6. CASE w.file = "open" /\ how \notin {"works", "no flush"}
  <2>1. v = [w EXCEPT !.swallowed = TRUE]
    BY <1>6 DEF Closed
  <2>2. /\ v \in Writer /\ v.count = w.count /\ v.stopped = w.stopped
        /\ v.swallowed /\ v.file = w.file
    BY <2>1 DEF Writer
  <2> QED
    BY <1>6, <2>2 DEF Sound
<1> QED
  BY <1>3, <1>4, <1>5, <1>6

(* Pruning, whatever becomes of it.                                        *)
LEMMA PrunedFacts ==
  ASSUME NEW w \in Writer, NEW removed, NEW v, v = Pruned(w, removed)
  PROVE  /\ v \in Writer /\ v.count = w.count /\ v.stopped = w.stopped
         /\ w.file = "absent" => v = w
         /\ w.file # "absent" => v.file # "absent"
         /\ v.file = "unlinked" => w.file = "unlinked" \/ v.count = 0
         /\ v.file = "open" => w.file = "open" /\ (w.swallowed => v.swallowed)
         /\ v.count = 0 /\ ~v.swallowed => v.file \in {"absent", "unlinked"}
         /\ Sound(w) => Sound(v)
<1>1. w.count \in Nat
  BY DEF Writer
<1>2. CASE w.file \notin {"open", "closed"} \/ w.count > 0
  <2>1. v = w
    BY <1>2 DEF Pruned
  <2> QED
    BY <1>1, <1>2, <2>1 DEF Writer
<1>3. CASE w.file \in {"open", "closed"} /\ w.count = 0 /\ removed
  <2>1. v = [w EXCEPT !.file = "unlinked"]
    BY <1>3 DEF Pruned
  <2>2. /\ v \in Writer /\ v.count = w.count /\ v.stopped = w.stopped
        /\ v.swallowed = w.swallowed /\ v.file = "unlinked"
    BY <2>1 DEF Writer
  <2> QED
    BY <1>3, <2>2 DEF Sound
<1>4. CASE w.file \in {"open", "closed"} /\ w.count = 0 /\ ~removed
  <2>1. v = [w EXCEPT !.swallowed = TRUE]
    BY <1>4 DEF Pruned
  <2>2. /\ v \in Writer /\ v.count = w.count /\ v.stopped = w.stopped
        /\ v.swallowed /\ v.file = w.file
    BY <2>1 DEF Writer
  <2> QED
    BY <1>4, <2>2 DEF Sound
<1> QED
  BY <1>1, <1>2, <1>3, <1>4

(* Adding and finishing keep a writer a writer.                            *)
LEMMA WriterTypes ==
  ASSUME NEW w \in Writer, NEW c \in AnyChunk, NEW b \in BOOLEAN, NEW how
  PROVE  /\ Added(w, c) \in Writer
         /\ Finished(Added(w, c), c, how) \in Writer
         /\ Opened(b) \in Writer
         /\ [w EXCEPT !.opened = b] \in Writer
<1>1. Added(w, c) \in Writer
  <2>1. w.count + 1 \in Nat /\ (w.stopped \/ c.stop) \in BOOLEAN
    BY DEF Writer, AnyChunk
  <2>2. \A n \in Nat, t \in BOOLEAN : [w EXCEPT !.count = n, !.stopped = t] \in Writer
    BY DEF Writer
  <2>3. [w EXCEPT !.count = @ + 1, !.stopped = @ \/ c.stop]
        = [w EXCEPT !.count = w.count + 1, !.stopped = w.stopped \/ c.stop]
    OBVIOUS
  <2> QED
    BY <2>1, <2>2, <2>3 DEF Added
<1>2. \A v \in Writer : [v EXCEPT !.stopped = TRUE] \in Writer
  BY DEF Writer
<1>3. \A v \in Writer : Closed(v, how) \in Writer
  BY ClosedFacts
<1>4. Finished(Added(w, c), c, how) \in Writer
  BY <1>1, <1>2, <1>3 DEF Finished
<1>5. Opened(b) \in Writer
  BY DEF Opened, NoWriter, Writer
<1>6. [w EXCEPT !.opened = b] \in Writer
  BY DEF Writer
<1> QED
  BY <1>1, <1>4, <1>5, <1>6

(* The writer that is current while chunk c is processed, None if there is *)
(* none, and the entry that is appended to the log for it.                 *)
Taker(c) ==
  IF StartsAnew(c) THEN None
  ELSE IF current = None /\ c.audio # "none" THEN next ELSE current

Entered(c) ==
  [start |-> c.start,
   audio |-> IF pc' = "failed" THEN "none" ELSE c.audio,
   stop  |-> pc' # "failed" /\ c.stop,
   rec   |-> IF pc' = "failed" \/ c.audio = "none" THEN None ELSE Taker(c)]

(* What any one feed does to the log and to the splitter: the entry e is   *)
(* appended while writer `taker` is current.                               *)
FeedEffect(e, taker) ==
  /\ e \in Entry
  /\ log' = Append(log, e) /\ Len(log) < MaxChunks
  /\ taker \in {None, current, next}
  /\ taker = next => current = None /\ ~e.start
  /\ current # None /\ ~e.start => taker = current
  /\ next' = IF taker = next THEN next + 1 ELSE next
  /\ current' = IF e.stop THEN None ELSE taker
  /\ e.rec \in {None, taker}
  /\ e.audio # "none" /\ ~e.start => e.rec # None
  /\ taker # None /\ taker = current /\ e.start => ~explicit
  /\ current' # None /\ taker = current => explicit' = (explicit \/ e.start)
  /\ explicit' \in BOOLEAN /\ pending' \in BOOLEAN

LEMMA FeedHasEffect ==
  ASSUME TypeOK, NEW c \in Chunk, Feed(c)
  PROVE  FeedEffect(Entered(c), Taker(c))
<1> DEFINE E(r) == [start |-> c.start, audio |-> c.audio, stop |-> c.stop, rec |-> r]
<1>1. /\ c \in AnyChunk /\ c.start \in BOOLEAN /\ c.stop \in BOOLEAN
      /\ c.audio \in {"none", "sealed", "clear"}
      /\ current \in Index \cup {None} /\ next \in Nat /\ current < next
      /\ explicit \in BOOLEAN /\ pending \in BOOLEAN
  BY DEF TypeOK, AnyChunk, Index
<1>2. Len(log) < MaxChunks /\ next \in Index /\ next # None /\ current # next
  <2>1. Len(log) < MaxChunks
    BY DEF Feed, FeedLazyStart, FeedCurrent, FeedOpen, FeedNothing, AddFails, Feeding
  <2>2. Len(log) \in Nat
    BY LenProperties DEF TypeOK
  <2> QED
    BY <1>1, <2>1, <2>2 DEF TypeOK, Index, None
<1>3. CASE FeedLazyStart(c)
  <2>1. Entered(c) = E(None) /\ Taker(c) = None
    <3>1. pc' # "failed" /\ StartsAnew(c)
      BY <1>3 DEF FeedLazyStart, Feeding
    <3> QED
      BY <1>1, <3>1 DEF Entered, Taker
  <2>2. E(None) \in Entry
    BY <1>1 DEF Entry
  <2>3. FeedEffect(E(None), None)
    BY <1>1, <1>2, <1>3, <2>2 DEF FeedLazyStart, FeedEffect, Logged, StartsAnew
  <2> QED
    BY <2>1, <2>3
<1>4. CASE FeedCurrent(c)
  <2> DEFINE e == E(IF c.audio = "none" THEN None ELSE current)
  <2>1. Entered(c) = e /\ Taker(c) = current
    BY <1>1, <1>4 DEF FeedCurrent, Feeding, Entered, Taker
  <2>2. e \in Entry
    BY <1>1 DEF Entry
  <2>3. FeedEffect(e, current)
    BY <1>1, <1>2, <1>4, <2>2 DEF FeedCurrent, FeedEffect, Logged, StartsAnew, Take
  <2> QED
    BY <2>1, <2>3
<1>5. CASE FeedOpen(c)
  <2>1. Entered(c) = E(next) /\ Taker(c) = next
    BY <1>1, <1>5 DEF FeedOpen, Feeding, Entered, Taker, StartsAnew
  <2>2. E(next) \in Entry
    BY <1>1, <1>2 DEF Entry
  <2>3. FeedEffect(E(next), next)
    BY <1>1, <1>2, <1>5, <2>2 DEF FeedOpen, FeedEffect, Logged, Take
  <2> QED
    BY <2>1, <2>3
<1>6. CASE FeedNothing(c)
  <2>1. Entered(c) = E(None) /\ Taker(c) = None
    BY <1>1, <1>6 DEF FeedNothing, Feeding, Entered, Taker, StartsAnew
  <2>2. E(None) \in Entry
    BY <1>1 DEF Entry
  <2>3. FeedEffect(E(None), None)
    BY <1>1, <1>2, <1>6, <2>2 DEF FeedNothing, FeedEffect, Logged, splitter
  <2> QED
    BY <2>1, <2>3
<1>7. CASE AddFails(c)
  <2> DEFINE e == [start |-> c.start, audio |-> "none", stop |-> FALSE, rec |-> None]
  <2>1. e \in Entry /\ e.start = c.start /\ e.audio = "none" /\ e.stop = FALSE /\ e.rec = None
    BY <1>1 DEF Entry
  <2>2. Entered(c) = e
    <3>1. pc' = "failed"
      BY <1>7 DEF AddFails
    <3> QED
      BY <3>1 DEF Entered, e
  <2>3. log' = Append(log, e)
    <3> DEFINE d == [c EXCEPT !.audio = "none", !.stop = FALSE]
    <3>1. d.start = c.start /\ d.audio = "none" /\ d.stop = FALSE
      BY <1>1 DEF AnyChunk
    <3>2. Logged(d, None)
      BY <1>7 DEF AddFails
    <3> QED
      BY <3>1, <3>2 DEF Logged
  <2>4. CASE current = None
    <3> HIDE DEF e
    <3>1. Taker(c) = next
      BY <1>1, <1>7, <2>4 DEF AddFails, Taker
    <3>2. FeedEffect(e, next)
      BY <1>1, <1>2, <1>7, <2>1, <2>3, <2>4 DEF AddFails, FeedEffect, StartsAnew
    <3> QED
      BY <2>2, <3>1, <3>2
  <2>5. CASE current # None
    <3> HIDE DEF e
    <3>1. Taker(c) = current
      BY <1>1, <1>7, <2>5 DEF AddFails, Taker
    <3>2. FeedEffect(e, current)
      BY <1>1, <1>2, <1>7, <2>1, <2>3, <2>5 DEF AddFails, FeedEffect, StartsAnew
    <3> QED
      BY <2>2, <3>1, <3>2
  <2> QED
    BY <2>4, <2>5
<1> QED
  BY <1>3, <1>4, <1>5, <1>6, <1>7 DEF Feed

(* The writers after a feed are writers.                                   *)
LEMMA FeedWriters ==
  ASSUME TypeOK, NEW c \in Chunk, Feed(c)
  PROVE  rec' \in [Index -> Writer]
<1>1. /\ rec \in [Index -> Writer] /\ current \in Index \cup {None}
      /\ explicit \in BOOLEAN /\ pending \in BOOLEAN
      /\ c \in AnyChunk /\ c.start \in BOOLEAN
  BY DEF TypeOK, AnyChunk
<1>2. CASE FeedLazyStart(c)
  <2>1. PICK how : rec' = [i \in Index |-> IF i = current THEN Closed(rec[i], how) ELSE rec[i]]
    BY <1>2 DEF FeedLazyStart
  <2>2. \A i \in Index : rec[i] \in Writer /\ Closed(rec[i], how) \in Writer
    BY <1>1, ClosedFacts
  <2> QED
    BY <2>1, <2>2
<1>3. CASE FeedCurrent(c)
  <2> DEFINE w == [rec[current] EXCEPT !.opened = rec[current].opened \/ c.start]
  <2>1. current \in Index /\ rec[current] \in Writer
    BY <1>1, <1>3 DEF FeedCurrent
  <2>2. (rec[current].opened \/ c.start) \in BOOLEAN
    BY <1>1, <2>1 DEF Writer
  <2>3. w \in Writer
    BY <1>1, <2>1, <2>2, WriterTypes
  <2>4. PICK how : rec' = [rec EXCEPT ![current] = Finished(Added(w, c), c, how)]
    BY <1>3 DEF FeedCurrent, Take
  <2>5. Finished(Added(w, c), c, how) \in Writer
    <3> HIDE DEF w
    <3> QED
      BY <1>1, <2>3, WriterTypes
  <2> QED
    BY <1>1, <2>4, <2>5
<1>4. CASE FeedOpen(c)
  <2>1. Opened(pending) \in Writer
    BY <1>1 DEF Opened, NoWriter, Writer
  <2>2. PICK how : rec' = [rec EXCEPT ![next] = Finished(Added(Opened(pending), c), c, how)]
    BY <1>4 DEF FeedOpen, Take
  <2>3. Finished(Added(Opened(pending), c), c, how) \in Writer
    BY <1>1, <2>1, WriterTypes
  <2> QED
    BY <1>1, <2>2, <2>3
<1>5. CASE FeedNothing(c)
  BY <1>1, <1>5 DEF FeedNothing
<1>6. CASE AddFails(c)
  <2>1. CASE current = None
    <3>1. Opened(pending) \in Writer
      BY <1>1 DEF Opened, NoWriter, Writer
    <3> QED
      BY <1>1, <1>6, <2>1, <3>1 DEF AddFails
  <2>2. CASE current # None
    <3>1. current \in Index /\ rec[current] \in Writer
      BY <1>1, <2>2
    <3>2. (rec[current].opened \/ c.start) \in BOOLEAN
      BY <1>1, <3>1 DEF Writer
    <3>3. [rec[current] EXCEPT !.opened = rec[current].opened \/ c.start] \in Writer
      BY <1>1, <3>1, <3>2, WriterTypes
    <3>4. rec' = [rec EXCEPT ![current] =
                    [rec[current] EXCEPT !.opened = rec[current].opened \/ c.start]]
      BY <1>1, <1>6, <2>2, <3>1 DEF AddFails
    <3> QED
      BY <1>1, <3>3, <3>4
  <2> QED
    BY <2>1, <2>2
<1> QED
  BY <1>2, <1>3, <1>4, <1>5, <1>6 DEF Feed

(* Every reachable state is well typed.                                    *)
THEOREM TypeCorrect == Spec => []TypeOK
<1>1. Init => TypeOK
  <2> SUFFICES ASSUME Init PROVE TypeOK
    OBVIOUS
  <2>1. log \in Seq(Entry) /\ Len(log) = 0
    BY EmptySeq DEF Init
  <2>2. rec \in [Index -> Writer]
    BY DEF Init, NoWriter, Writer
  <2>3. Len(log) <= MaxChunks /\ next \in 0..Len(log) /\ current < next
    BY <2>1 DEF Init, None
  <2> QED
    BY <2>1, <2>2, <2>3 DEF Init, TypeOK
<1>2. TypeOK /\ [Next]_vars => TypeOK'
  <2> SUFFICES ASSUME TypeOK, [Next]_vars PROVE TypeOK'
    OBVIOUS
  <2>1. ASSUME NEW c \in Chunk, Feed(c) PROVE TypeOK'
    <3>1. PICK e, taker : FeedEffect(e, taker)
      BY <2>1, FeedHasEffect
    <3>2. rec' \in [Index -> Writer]
      BY <2>1, FeedWriters
    <3>3. pc' \in {"feed", "failed", "done"}
      BY <2>1 DEF Feed, FeedLazyStart, FeedCurrent, FeedOpen, FeedNothing, AddFails, TypeOK
    <3>4. log' \in Seq(Entry) /\ Len(log') = Len(log) + 1 /\ Len(log) \in Nat
      BY <3>1, AppendProperties, LenProperties DEF FeedEffect, TypeOK
    <3>5. /\ next \in 0..Len(log) /\ current \in Index \cup {None} /\ current < next
          /\ Len(log) < MaxChunks
      BY <3>1 DEF TypeOK, FeedEffect
    <3>6. next \in Index
      BY <3>4, <3>5 DEF Index
    <3>7. /\ next' \in 0..Len(log') /\ Len(log') <= MaxChunks
          /\ current' \in Index \cup {None} /\ current' < next'
      BY <3>1, <3>4, <3>5, <3>6 DEF FeedEffect, None, Index
    <3> QED
      BY <3>1, <3>2, <3>3, <3>4, <3>7 DEF TypeOK, FeedEffect
  <2>2. CASE Finish
    <3>1. \A i \in Index : rec[i] \in Writer
      BY DEF TypeOK
    <3>2. \A w \in Writer : \A x : Closed(w, x) \in Writer /\ Pruned(w, x) \in Writer
      BY ClosedFacts, PrunedFacts
    <3>3. rec' \in [Index -> Writer]
      <4>1. PICK last, removed, how :
              rec' = [i \in Index |->
                LET w == IF i = current THEN Closed(rec[i], last) ELSE rec[i]
                IN Pruned(Closed(w, how[i]), removed)]
        BY <2>2 DEF Finish
      <4> QED
        BY <3>1, <3>2, <4>1
    <3>4. next \in Nat
      BY LenProperties DEF TypeOK
    <3>5. UNCHANGED <<log, pending, next>> /\ pc' = "done"
          /\ current' = None /\ explicit' = FALSE
      BY <2>2 DEF Finish
    <3>6. None < next
      BY <3>4 DEF None
    <3> QED
      BY <3>3, <3>5, <3>6 DEF TypeOK
  <2>3. CASE UNCHANGED vars
    BY <2>3 DEF vars, TypeOK
  <2> QED
    BY <2>1, <2>2, <2>3 DEF Next
<1> QED
  BY <1>1, <1>2, PTL DEF Spec

-----------------------------------------------------------------------------
(* Feeding one chunk preserves SplitInv: the new entry is the only one     *)
(* that can disturb it, and its writer is the newest or a fresh one.       *)
LEMMA FeedKeepsSplitInv ==
  ASSUME TypeOK, SplitInv, NEW e, NEW taker, FeedEffect(e, taker)
  PROVE  SplitInv'
<1> DEFINE n == Len(log) + 1
<1>1. /\ Len(log) \in Nat /\ DOMAIN log = 1..Len(log) /\ DOMAIN log' = 1..n
      /\ \A i \in 1..Len(log) : log'[i] = log[i]
      /\ log'[n] = e
  <2>1. log \in Seq(Entry) /\ e \in Entry /\ log' = Append(log, e)
    BY DEF TypeOK, FeedEffect
  <2> QED
    BY <2>1, AppendFacts
<1>2. \A i \in DOMAIN log' : (i \in DOMAIN log /\ i < n /\ log'[i] = log[i]) \/ (i = n /\ log'[i] = e)
  BY <1>1
<1>3. /\ next \in Nat /\ current \in Int /\ current < next /\ next # None
      /\ (current # None => current = next - 1)
      /\ \A i \in DOMAIN log : log[i].rec \in Int /\ log[i].rec < next
  <2>1. \A i \in DOMAIN log : log[i].rec \in Index \cup {None}
    <3> SUFFICES ASSUME NEW i \in DOMAIN log PROVE log[i].rec \in Index \cup {None}
      OBVIOUS
    <3>1. log \in Seq(Entry) /\ i \in 1..Len(log)
      BY <1>1 DEF TypeOK
    <3>2. log[i] \in Entry
      BY <3>1, ElementOfSeq
    <3> QED
      BY <3>2 DEF Entry
  <2>2. next \in Nat
    BY <1>1 DEF TypeOK
  <2> QED
    BY <2>1, <2>2 DEF TypeOK, SplitInv, CurrentNewest, Index, None
<1>4. /\ taker \in {None, current, next}
      /\ taker = next => current = None /\ ~e.start
      /\ next' = IF taker = next THEN next + 1 ELSE next
      /\ current' = None \/ (current' = taker /\ ~e.stop)
      /\ e.rec \in {None, taker}
      /\ e.audio # "none" /\ ~e.start => e.rec # None
      /\ taker # None /\ taker = current /\ e.start => ~explicit
      /\ current' # None /\ taker = current => explicit' = (explicit \/ e.start)
  BY DEF FeedEffect
\* What an earlier entry has to do with the current writer, and none with a fresh one.
<1>5. \A i \in DOMAIN log : log[i].rec # next
  BY <1>3
<1>6. \A i \in DOMAIN log : log[i].rec # None /\ log[i].rec = taker => taker = current
  BY <1>4, <1>5
<1> HIDE DEF n
<1>7. CurrentNewest'
  BY <1>2, <1>3, <1>4 DEF CurrentNewest, None
<1>8. CurrentUnstopped'
  <2> SUFFICES ASSUME NEW i \in DOMAIN log', NEW k \in DOMAIN log',
                      i <= k, log'[k].stop, log'[i].rec # None, log'[i].rec = current'
               PROVE  FALSE
    BY DEF CurrentUnstopped
  <2>1. current' = taker /\ ~e.stop /\ current' # None
    BY <1>4
  <2>2. k \in DOMAIN log /\ log'[k] = log[k] /\ i \in DOMAIN log /\ log'[i] = log[i]
    BY <1>1, <1>2, <2>1
  <2>3. taker = current
    BY <1>6, <2>1, <2>2
  <2> QED
    BY <2>1, <2>2, <2>3 DEF SplitInv, CurrentUnstopped
<1>9. CurrentStarts'
  <2> SUFFICES ASSUME NEW i \in DOMAIN log', NEW k \in DOMAIN log', i < k,
                      log'[k].start, log'[i].rec # None, log'[i].rec = current'
               PROVE  /\ explicit'
                      /\ \A l \in DOMAIN log' : k < l => ~log'[l].start
    BY DEF CurrentStarts
  <2>1. i \in DOMAIN log /\ log'[i] = log[i]
    BY <1>1, <1>2
  <2>2. current' = taker /\ taker = current /\ current' # None
    BY <1>4, <1>6, <2>1
  <2>3. explicit' = (explicit \/ e.start) /\ (e.start => ~explicit)
    BY <1>4, <2>2
  <2>4. CASE k \in DOMAIN log /\ log'[k] = log[k]
    <3>1. explicit /\ \A l \in DOMAIN log : k < l => ~log[l].start
      BY <2>1, <2>2, <2>4 DEF SplitInv, CurrentStarts
    <3> QED
      BY <1>2, <2>3, <3>1
  <2>5. CASE k = n /\ log'[k] = e
    <3>1. \A l \in DOMAIN log' : ~(k < l)
      BY <1>1, <2>5 DEF n
    <3> QED
      BY <2>3, <2>5, <3>1
  <2> QED
    BY <1>2, <2>4, <2>5
<1>10. UnmarkedAudioTaken'
  BY <1>2, <1>4 DEF SplitInv, UnmarkedAudioTaken
<1>12. RecordingsInOrder'
  <2> SUFFICES ASSUME NEW i \in DOMAIN log', NEW j \in DOMAIN log', i < j,
                      log'[i].rec # None, log'[j].rec # None
               PROVE  log'[j].rec \in {log'[i].rec} \cup {r \in Index : r > log'[i].rec}
    BY DEF RecordingsInOrder
  <2>1. i \in DOMAIN log /\ log'[i] = log[i]
    BY <1>1, <1>2
  <2>2. CASE j \in DOMAIN log /\ log'[j] = log[j]
    BY <2>1, <2>2 DEF SplitInv, RecordingsInOrder
  <2>3. CASE log'[j] = e
    <3>1. e.rec = taker /\ taker \in {current, next} /\ e.rec \in Index
      BY <1>4, <2>3 DEF FeedEffect, Entry
    <3>2. e.rec >= log[i].rec
      BY <1>3, <2>1, <3>1, <1>4, <2>3
    <3>3. e.rec = log[i].rec \/ e.rec > log[i].rec
      BY <1>3, <2>1, <3>1, <3>2
    <3> QED
      BY <2>1, <2>3, <3>1, <3>3
  <2> QED
    BY <1>2, <2>2, <2>3
<1>11. NoRecordingSpansStop'
  <2> SUFFICES ASSUME NEW i \in DOMAIN log', NEW k \in DOMAIN log', NEW j \in DOMAIN log',
                      i <= k, k < j, log'[k].stop, log'[i].rec # None
               PROVE  log'[i].rec # log'[j].rec
    BY DEF NoRecordingSpansStop
  <2>1. i \in DOMAIN log /\ log'[i] = log[i] /\ k \in DOMAIN log /\ log'[k] = log[k]
    BY <1>1, <1>2
  <2>2. CASE j \in DOMAIN log /\ log'[j] = log[j]
    BY <2>1, <2>2 DEF SplitInv, NoRecordingSpansStop
  <2>3. CASE log'[j] = e
    <3>1. log[i].rec # current
      BY <2>1 DEF SplitInv, CurrentUnstopped
    <3> QED
      BY <1>4, <1>6, <2>1, <2>3, <3>1
  <2> QED
    BY <1>2, <2>2, <2>3
<1>13. OneStartPerRecording'
  <2> SUFFICES ASSUME NEW i \in DOMAIN log', NEW k \in DOMAIN log', NEW l \in DOMAIN log',
                      NEW j \in DOMAIN log', i < k, k < l, l <= j,
                      log'[k].start, log'[l].start, log'[i].rec # None
               PROVE  log'[i].rec # log'[j].rec
    BY DEF OneStartPerRecording
  <2>1. i \in DOMAIN log /\ log'[i] = log[i] /\ k \in DOMAIN log /\ log'[k] = log[k]
    BY <1>1, <1>2
  <2>2. CASE j \in DOMAIN log /\ log'[j] = log[j]
    <3>1. l \in DOMAIN log /\ log'[l] = log[l]
      BY <1>1, <2>2
    <3> QED
      BY <2>1, <2>2, <3>1 DEF SplitInv, OneStartPerRecording
  <2>3. CASE log'[j] = e
    <3> SUFFICES ASSUME log[i].rec = e.rec PROVE FALSE
      BY <2>1, <2>3
    <3>1. e.rec = taker /\ taker = current /\ taker # None
      BY <1>4, <1>6, <2>1
    <3>2. explicit /\ \A m \in DOMAIN log : k < m => ~log[m].start
      BY <2>1, <3>1 DEF SplitInv, CurrentStarts
    <3>3. ~e.start
      BY <1>4, <3>1, <3>2
    <3> QED
      BY <1>2, <3>2, <3>3
  <2> QED
    BY <1>2, <2>2, <2>3
<1> QED
  BY <1>7, <1>8, <1>9, <1>10, <1>11, <1>12, <1>13 DEF SplitInv

(* However the stream is flagged, and wherever a write fails: recordings   *)
(* are consecutive stretches of it, none spans a stop flag or has a second *)
(* start flag inside, and no audio is dropped except beside a start flag.  *)
THEOREM SplitInvariant == Spec => []SplitInv
<1>1. Init => SplitInv
  BY DEF Init, SplitInv, CurrentNewest, CurrentUnstopped, CurrentStarts, UnmarkedAudioTaken,
         RecordingsInOrder, NoRecordingSpansStop, OneStartPerRecording
<1>2. TypeOK /\ SplitInv /\ [Next]_vars => SplitInv'
  <2> SUFFICES ASSUME TypeOK, SplitInv, [Next]_vars PROVE SplitInv'
    OBVIOUS
  <2>1. ASSUME NEW c \in Chunk, Feed(c) PROVE SplitInv'
    BY <2>1, FeedHasEffect, FeedKeepsSplitInv
  <2>2. CASE Finish \/ UNCHANGED vars
    <3>1. UNCHANGED <<log, next>> /\ current' \in {None, current}
          /\ (current' = None \/ explicit' = explicit)
      BY <2>2 DEF Finish, vars
    <3> QED
      BY <3>1 DEF SplitInv, CurrentNewest, CurrentUnstopped, CurrentStarts, UnmarkedAudioTaken,
                  RecordingsInOrder, NoRecordingSpansStop, OneStartPerRecording
  <2> QED
    BY <2>1, <2>2 DEF Next
<1> QED
  BY <1>1, <1>2, TypeCorrect, PTL DEF Spec

(* The named results.                                                      *)
THEOREM RecordingsAreSeparated ==
  Spec => [](RecordingsInOrder /\ NoRecordingSpansStop /\ OneStartPerRecording)
<1>1. SplitInv => RecordingsInOrder /\ NoRecordingSpansStop /\ OneStartPerRecording
  BY DEF SplitInv
<1> QED
  BY <1>1, SplitInvariant, PTL

THEOREM AudioIsTaken == Spec => []UnmarkedAudioTaken
<1>1. SplitInv => UnmarkedAudioTaken
  BY DEF SplitInv
<1> QED
  BY <1>1, SplitInvariant, PTL
-----------------------------------------------------------------------------
(* The writers and their files.                                            *)

(* A file that is open is the current writer's or has resisted a close,    *)
(* the current writer has met no stop flag, and at the end the files of    *)
(* empty recordings are gone, unless an exception was swallowed.           *)
FilesInv ==
  /\ current # None => current = next - 1 /\ pc # "done"
  /\ \A r \in Index :
       /\ r >= next => rec[r] = NoWriter
       /\ r < next => rec[r].file # "absent"
       /\ rec[r].file = "unlinked" => rec[r].count = 0
       /\ r = current => rec[r].file = "open" /\ ~rec[r].stopped
       /\ rec[r].file = "open" => r = current \/ rec[r].swallowed
       /\ Sound(rec[r])
       /\ pc = "done" /\ rec[r].count = 0 /\ ~rec[r].swallowed
            => rec[r].file \in {"absent", "unlinked"}

(* What taking a chunk does to a writer that is open.                      *)
LEMMA TakenOpen ==
  ASSUME NEW w \in Writer, w.file = "open", Sound(w), NEW c \in AnyChunk, NEW how, NEW v,
         v = Finished(Added(w, c), c, how)
  PROVE  /\ v.count = w.count + (IF c.audio = "clear" THEN 1 ELSE 0)
         /\ v.stopped = (w.stopped \/ c.stop)
         /\ v.file \in {"open", "closed"}
         /\ ~c.stop => v.file = "open"
         /\ c.stop /\ v.file = "open" => v.swallowed
         /\ Sound(v)
<1>1. c.stop \in BOOLEAN /\ w.stopped \in BOOLEAN
  BY DEF AnyChunk, Writer
<1>2. PICK a : a = Added(w, c)
  OBVIOUS
<1>3. a \in Writer
  BY <1>2, WriterTypes
<1>4. /\ a.count = w.count + (IF c.audio = "clear" THEN 1 ELSE 0)
      /\ a.file = "open" /\ a.eos = w.eos /\ a.swallowed = w.swallowed
      /\ a.stopped = (w.stopped \/ (c.audio = "clear" /\ c.stop))
  <2>1. CASE c.audio = "clear"
    <3>1. a = [w EXCEPT !.count = w.count + 1, !.stopped = w.stopped \/ c.stop]
      BY <1>2, <2>1 DEF Added
    <3> QED
      BY <1>1, <2>1, <3>1 DEF Writer
  <2>2. CASE c.audio # "clear"
    BY <1>1, <1>2, <2>2 DEF Added, Writer
  <2> QED
    BY <2>1, <2>2
<1>5. Sound(a)
  BY <1>4 DEF Sound
<1>6. CASE c.stop
  <2>1. PICK b : b = [a EXCEPT !.stopped = TRUE]
    OBVIOUS
  <2>2. /\ b \in Writer /\ b.count = a.count /\ b.stopped = TRUE
        /\ b.file = a.file /\ b.eos = a.eos /\ b.swallowed = a.swallowed
    BY <1>3, <2>1 DEF Writer
  <2>3. v = Closed(b, how)
    BY <1>2, <1>6, <2>1 DEF Finished
  <2>4. Sound(b)
    BY <1>5, <2>2 DEF Sound
  <2>5. /\ v.count = b.count /\ v.stopped = b.stopped
        /\ v.file \in {"open", "closed"} /\ (v.file = "open" => v.swallowed)
        /\ Sound(v)
    BY <1>4, <2>2, <2>3, <2>4, ClosedFacts
  <2> QED
    BY <1>1, <1>4, <1>6, <2>2, <2>5
<1>7. CASE ~c.stop
  <2>1. v = a
    BY <1>2, <1>7 DEF Finished
  <2> QED
    BY <1>1, <1>4, <1>5, <1>7, <2>1
<1> QED
  BY <1>6, <1>7

(* What any one feed does to the writers: the packets of the chunk go to   *)
(* the writer its entry names, and only the writer that was current and    *)
(* the one that took the chunk can change.                                 *)
WritersEffect(e, taker) ==
  \A r \in Index :
    /\ rec'[r].count = rec[r].count + (IF e.rec = r /\ e.audio = "clear" THEN 1 ELSE 0)
    /\ rec'[r].stopped = (rec[r].stopped \/ (r = taker /\ e.stop))
    /\ r \in {current, taker} =>
         /\ rec'[r].file \in {"open", "closed"}
         /\ r = current' => rec'[r].file = "open"
         /\ rec'[r].file = "open" => r = current' \/ rec'[r].swallowed
         /\ Sound(rec'[r])
    /\ r \notin {current, taker} => rec'[r] = rec[r]

LEMMA FeedHasWritersEffect ==
  ASSUME TypeOK, FilesInv, NEW c \in Chunk, Feed(c)
  PROVE  WritersEffect(Entered(c), Taker(c))
<1>1. /\ c \in AnyChunk /\ c.start \in BOOLEAN /\ c.stop \in BOOLEAN
      /\ c.audio \in {"none", "sealed", "clear"}
      /\ current \in Index \cup {None} /\ next \in Int /\ current < next /\ current # next
      /\ None \notin Index /\ pending \in BOOLEAN
      /\ rec \in [Index -> Writer]
      /\ \A r \in Index : rec[r] \in Writer /\ rec[r].count \in Nat /\ rec[r].stopped \in BOOLEAN
  BY DEF TypeOK, AnyChunk, Index, None, Writer
<1>2. FeedEffect(Entered(c), Taker(c))
  BY FeedHasEffect
<1>3. current \in Index =>
        rec[current] \in Writer /\ rec[current].file = "open" /\ Sound(rec[current])
  BY <1>1 DEF FilesInv
<1>4. CASE FeedLazyStart(c)
  <2>1. Entered(c).rec = None /\ Taker(c) = None /\ current' = None
    BY <1>4 DEF FeedLazyStart, Feeding, Entered, Taker
  <2>2. PICK how : rec' = [i \in Index |-> IF i = current THEN Closed(rec[i], how) ELSE rec[i]]
    BY <1>4 DEF FeedLazyStart
  <2>3. \A r \in Index : r = current =>
          /\ rec'[r].count = rec[r].count /\ rec'[r].stopped = rec[r].stopped
          /\ rec'[r].file \in {"open", "closed"} /\ (rec'[r].file = "open" => rec'[r].swallowed)
          /\ Sound(rec'[r])
    <3> SUFFICES ASSUME NEW r \in Index, r = current
                 PROVE  /\ rec'[r].count = rec[r].count /\ rec'[r].stopped = rec[r].stopped
                        /\ rec'[r].file \in {"open", "closed"}
                        /\ rec'[r].file = "open" => rec'[r].swallowed
                        /\ Sound(rec'[r])
      OBVIOUS
    <3>1. PICK v : v = Closed(rec[r], how)
      OBVIOUS
    <3>2. rec'[r] = v
      BY <2>2, <3>1
    <3> QED
      BY <1>3, <3>1, <3>2, ClosedFacts
  <2>4. \A r \in Index : r # current => rec'[r] = rec[r]
    BY <2>2
  <2> QED
    BY <1>1, <2>1, <2>3, <2>4 DEF WritersEffect
<1>5. ASSUME NEW t \in Index, NEW w \in Writer, w.file = "open", Sound(w),
             w.count = rec[t].count, w.stopped = rec[t].stopped,
             NEW x, Take(t, w, x, c), pc' # "failed", Taker(c) = t, current # None => current = t
      PROVE  WritersEffect(Entered(c), Taker(c))
  <2>1. PICK how : rec' = [rec EXCEPT ![t] = Finished(Added(w, c), c, how)]
    BY <1>5 DEF Take
  <2>2. PICK v : v = Finished(Added(w, c), c, how)
    OBVIOUS
  <2>3. rec'[t] = v /\ \A r \in Index : r # t => rec'[r] = rec[r]
    BY <1>1, <2>1, <2>2
  <2>4. /\ v.count = w.count + (IF c.audio = "clear" THEN 1 ELSE 0)
        /\ v.stopped = (w.stopped \/ c.stop)
        /\ v.file \in {"open", "closed"} /\ (~c.stop => v.file = "open")
        /\ c.stop /\ v.file = "open" => v.swallowed
        /\ Sound(v)
    BY <1>1, <1>5, <2>2, TakenOpen
  <2>5. current' = IF c.stop THEN None ELSE t
    BY <1>5 DEF Take
  <2>6. /\ Entered(c).rec = IF c.audio = "none" THEN None ELSE t
        /\ Entered(c).audio = c.audio /\ Entered(c).stop = c.stop
    BY <1>1, <1>5 DEF Entered
  <2>7. \A r \in Index : r # t =>
          /\ rec'[r].count = rec[r].count + (IF Entered(c).rec = r /\ Entered(c).audio = "clear" THEN 1 ELSE 0)
          /\ rec'[r].stopped = (rec[r].stopped \/ (r = Taker(c) /\ Entered(c).stop))
    BY <1>1, <1>5, <2>3, <2>6
  <2>8. /\ rec'[t].count = rec[t].count + (IF Entered(c).rec = t /\ Entered(c).audio = "clear" THEN 1 ELSE 0)
        /\ rec'[t].stopped = (rec[t].stopped \/ (t = Taker(c) /\ Entered(c).stop))
        /\ rec'[t].file \in {"open", "closed"}
        /\ t = current' => rec'[t].file = "open"
        /\ rec'[t].file = "open" => t = current' \/ rec'[t].swallowed
        /\ Sound(rec'[t])
    BY <1>1, <1>5, <2>3, <2>4, <2>5, <2>6
  <2> QED
    BY <1>1, <1>5, <2>3, <2>7, <2>8 DEF WritersEffect
<1>6. CASE FeedCurrent(c)
  <2>1. PICK w : w = [rec[current] EXCEPT !.opened = rec[current].opened \/ c.start]
    OBVIOUS
  <2>2. current \in Index /\ Taker(c) = current /\ pc' # "failed"
    BY <1>1, <1>6 DEF FeedCurrent, Feeding, Taker
  <2>3. Take(current, w, explicit \/ c.start, c)
    BY <1>6, <2>1 DEF FeedCurrent
  <2>4. (rec[current].opened \/ c.start) \in BOOLEAN
    BY <1>1, <2>2 DEF Writer
  <2>5. w \in Writer
    BY <1>1, <2>1, <2>2, <2>4, WriterTypes
  <2>6. /\ w.file = "open" /\ w.eos = rec[current].eos /\ w.swallowed = rec[current].swallowed
        /\ w.count = rec[current].count /\ w.stopped = rec[current].stopped
    BY <1>3, <2>1, <2>2 DEF Writer
  <2>7. PICK x : x = (explicit \/ c.start)
    OBVIOUS
  <2>8. PICK t \in Index : t = current
    BY <2>2
  <2>9. Sound(w)
    BY <1>3, <2>2, <2>6 DEF Sound
  <2> QED
    BY <1>5, <2>2, <2>3, <2>5, <2>6, <2>7, <2>8, <2>9
<1>7. /\ Opened(pending) \in Writer
      /\ Opened(pending).count = 0 /\ Opened(pending).stopped = FALSE
      /\ Opened(pending).file = "open" /\ Sound(Opened(pending))
  BY <1>1 DEF Opened, NoWriter, Writer, Sound
<1>8. next \in Index => rec[next].count = 0 /\ rec[next].stopped = FALSE
  BY <1>1 DEF FilesInv, NoWriter
<1>9. CASE FeedOpen(c)
  <2>1. next \in Index /\ Taker(c) = next /\ pc' # "failed" /\ current = None
    <3>1. Len(log) < MaxChunks /\ Len(log) \in Nat
      BY <1>9, LenProperties DEF FeedOpen, Feeding, TypeOK
    <3> QED
      BY <1>9, <3>1 DEF FeedOpen, Feeding, Taker, StartsAnew, TypeOK, Index
  <2>2. Take(next, Opened(pending), pending, c)
    BY <1>9 DEF FeedOpen
  <2>3. PICK t \in Index : t = next
    BY <2>1
  <2>4. PICK w : w = Opened(pending)
    OBVIOUS
  <2>5. w \in Writer /\ w.file = "open" /\ Sound(w) /\ w.count = rec[t].count /\ w.stopped = rec[t].stopped
    BY <1>7, <1>8, <2>1, <2>3, <2>4
  <2> QED
    BY <1>5, <2>1, <2>2, <2>3, <2>4, <2>5
<1>10. CASE FeedNothing(c)
  <2>1. Entered(c).rec = None /\ Taker(c) = None /\ current = None /\ rec' = rec
    BY <1>1, <1>10 DEF FeedNothing, Feeding, Entered, Taker, StartsAnew
  <2> QED
    BY <1>1, <2>1 DEF WritersEffect
<1>11. ASSUME NEW t \in Index, Taker(c) = t, current' = t, current # None => current = t,
              Entered(c).rec = None, Entered(c).stop = FALSE,
              rec'[t].count = rec[t].count, rec'[t].stopped = rec[t].stopped,
              rec'[t].file = "open", Sound(rec'[t]),
              \A r \in Index : r # t => rec'[r] = rec[r]
       PROVE  WritersEffect(Entered(c), Taker(c))
  <2>1. \A r \in Index :
          /\ rec'[r].count = rec[r].count + (IF Entered(c).rec = r /\ Entered(c).audio = "clear" THEN 1 ELSE 0)
          /\ rec'[r].stopped = (rec[r].stopped \/ (r = Taker(c) /\ Entered(c).stop))
    BY <1>1, <1>11
  <2> QED
    BY <1>1, <1>11, <2>1 DEF WritersEffect
<1>12. CASE AddFails(c)
  <2>1. pc' = "failed"
    BY <1>12 DEF AddFails
  <2>2. Entered(c).rec = None /\ Entered(c).stop = FALSE
    BY <2>1 DEF Entered
  <2>3. CASE current = None
    <3>1. next \in Index /\ Taker(c) = next /\ current' = next
      <4>1. Len(log) < MaxChunks /\ Len(log) \in Nat
        BY <1>12, LenProperties DEF AddFails, Feeding, TypeOK
      <4> QED
        BY <1>1, <1>12, <2>3, <4>1 DEF AddFails, Taker, TypeOK, Index
    <3>2. rec' = [rec EXCEPT ![next] = Opened(pending)]
      BY <1>12, <2>3 DEF AddFails
    <3>3. rec'[next] = Opened(pending) /\ \A r \in Index : r # next => rec'[r] = rec[r]
      BY <1>1, <3>1, <3>2
    <3>4. /\ rec'[next].count = rec[next].count /\ rec'[next].stopped = rec[next].stopped
          /\ rec'[next].file = "open" /\ Sound(rec'[next])
      BY <1>7, <1>8, <3>1, <3>3
    <3> QED
      BY <1>11, <2>2, <3>1, <3>3, <3>4, <2>3
  <2>4. CASE current # None
    <3>1. current \in Index /\ Taker(c) = current /\ current' = current
      BY <1>1, <1>12, <2>4 DEF AddFails, Taker
    <3>2. PICK b : b = (rec[current].opened \/ c.start)
      OBVIOUS
    <3>3. rec' = [rec EXCEPT ![current] = [rec[current] EXCEPT !.opened = b]]
      BY <1>1, <1>12, <2>4, <3>1, <3>2 DEF AddFails
    <3>4. /\ rec'[current] = [rec[current] EXCEPT !.opened = b]
          /\ \A r \in Index : r # current => rec'[r] = rec[r]
      BY <1>1, <3>1, <3>3
    <3>5. /\ rec'[current].count = rec[current].count /\ rec'[current].stopped = rec[current].stopped
          /\ rec'[current].file = "open" /\ rec'[current].eos = rec[current].eos
          /\ rec'[current].swallowed = rec[current].swallowed
      BY <1>3, <3>1, <3>4 DEF Writer
    <3>6. Sound(rec'[current])
      BY <1>3, <3>1, <3>5 DEF Sound
    <3> QED
      BY <1>11, <2>2, <3>1, <3>4, <3>5, <3>6
  <2> QED
    BY <2>3, <2>4
<1> QED
  BY <1>4, <1>6, <1>9, <1>10, <1>12 DEF Feed

(* Where the two effects start from and what they keep.                    *)
LEMMA IndexFacts ==
  ASSUME TypeOK
  PROVE  /\ None \notin Index /\ Index \subseteq Nat
         /\ current \in Index \cup {None} /\ next \in Nat /\ current < next /\ current # next
         /\ rec \in [Index -> Writer]
         /\ \A r \in Index : rec[r] \in Writer /\ rec[r].count \in Nat /\ rec[r].stopped \in BOOLEAN
         /\ log \in Seq(Entry) /\ Len(log) \in Nat /\ DOMAIN log = 1..Len(log)
         /\ \A i \in DOMAIN log : log[i] \in Entry /\ log[i].rec \in Index \cup {None}
<1>1. /\ None \notin Index /\ Index \subseteq Nat
      /\ current \in Index \cup {None} /\ next \in Nat /\ current < next /\ current # next
  BY DEF TypeOK, Index, None
<1>2. \A r \in Index : rec[r] \in Writer /\ rec[r].count \in Nat /\ rec[r].stopped \in BOOLEAN
  BY DEF TypeOK, Writer
<1>3. log \in Seq(Entry) /\ Len(log) \in Nat /\ DOMAIN log = 1..Len(log)
  BY LenProperties DEF TypeOK
<1>4. \A i \in DOMAIN log : log[i] \in Entry
  BY <1>3, ElementOfSeq
<1>5. \A i \in DOMAIN log : log[i].rec \in Index \cup {None}
  BY <1>4 DEF Entry
<1> QED
  BY <1>1, <1>2, <1>3, <1>4, <1>5 DEF TypeOK

(* The finally touches neither the counts nor the stop flags, closes what  *)
(* is open and prunes what is empty, as far as nothing is swallowed.       *)
LEMMA FinishEffect ==
  ASSUME TypeOK, FilesInv, Finish
  PROVE  \A r \in Index :
           /\ rec'[r].count = rec[r].count /\ rec'[r].stopped = rec[r].stopped
           /\ r >= next => rec'[r] = NoWriter
           /\ r < next => rec'[r].file # "absent"
           /\ rec'[r].file = "unlinked" => rec'[r].count = 0
           /\ rec'[r].file = "open" => rec'[r].swallowed
           /\ rec'[r].count = 0 /\ ~rec'[r].swallowed => rec'[r].file \in {"absent", "unlinked"}
           /\ Sound(rec'[r])
<1>1. PICK last \in Close, removed \in BOOLEAN,
           how \in [{i \in Index : rec[i].file = "open"} -> Close] :
        rec' = [i \in Index |->
          LET w == IF i = current THEN Closed(rec[i], last) ELSE rec[i]
          IN Pruned(Closed(w, how[i]), removed)]
  BY DEF Finish
<1> SUFFICES ASSUME NEW r \in Index
             PROVE  /\ rec'[r].count = rec[r].count /\ rec'[r].stopped = rec[r].stopped
                    /\ r >= next => rec'[r] = NoWriter
                    /\ r < next => rec'[r].file # "absent"
                    /\ rec'[r].file = "unlinked" => rec'[r].count = 0
                    /\ rec'[r].file = "open" => rec'[r].swallowed
                    /\ rec'[r].count = 0 /\ ~rec'[r].swallowed
                         => rec'[r].file \in {"absent", "unlinked"}
                    /\ Sound(rec'[r])
  OBVIOUS
<1>2. PICK w : w = IF r = current THEN Closed(rec[r], last) ELSE rec[r]
  OBVIOUS
<1>3. PICK x : x = how[r]
  OBVIOUS
<1>4. PICK v : v = Closed(w, x)
  OBVIOUS
<1>5. rec'[r] = Pruned(v, removed)
  BY <1>1, <1>2, <1>3, <1>4
<1>6. PICK y : y = rec'[r]
  OBVIOUS
<1>7. /\ rec[r] \in Writer /\ Sound(rec[r])
      /\ rec[r].file = "unlinked" => rec[r].count = 0
      /\ r >= next => rec[r] = NoWriter /\ r # current
      /\ r < next => rec[r].file # "absent"
  BY IndexFacts DEF FilesInv
<1>8. /\ w \in Writer /\ w.count = rec[r].count /\ w.stopped = rec[r].stopped /\ Sound(w)
      /\ rec[r].file # "open" => w = rec[r]
      /\ rec[r].file = "open" => w.file \in {"open", "closed"}
  <2>1. CASE r = current
    BY <1>2, <1>7, <2>1, ClosedFacts
  <2>2. CASE r # current
    BY <1>2, <1>7, <2>2
  <2> QED
    BY <2>1, <2>2
<1>9. /\ v \in Writer /\ v.count = w.count /\ v.stopped = w.stopped /\ Sound(v)
      /\ w.file # "open" => v = w
      /\ w.file = "open" => v.file \in {"open", "closed"} /\ (v.file = "open" => v.swallowed)
  BY <1>4, <1>8, ClosedFacts
<1>10. /\ y.count = v.count /\ y.stopped = v.stopped /\ Sound(y)
       /\ v.file = "absent" => y = v
       /\ v.file # "absent" => y.file # "absent"
       /\ y.file = "unlinked" => v.file = "unlinked" \/ y.count = 0
       /\ y.file = "open" => v.file = "open" /\ (v.swallowed => y.swallowed)
       /\ y.count = 0 /\ ~y.swallowed => y.file \in {"absent", "unlinked"}
  BY <1>5, <1>6, <1>9, PrunedFacts
<1>11. r >= next => y = NoWriter
  <2>1. NoWriter.file = "absent"
    BY DEF NoWriter
  <2> QED
    BY <1>7, <1>8, <1>9, <1>10, <2>1
<1>12. r < next => y.file # "absent"
  BY <1>7, <1>8, <1>9, <1>10
<1>13. y.file = "unlinked" => y.count = 0
  BY <1>7, <1>8, <1>9, <1>10
<1>14. y.file = "open" => y.swallowed
  BY <1>9, <1>10
<1> QED
  BY <1>6, <1>8, <1>9, <1>10, <1>11, <1>12, <1>13, <1>14

LEMMA FeedKeepsFilesInv ==
  ASSUME TypeOK, FilesInv, NEW e, NEW taker, FeedEffect(e, taker), WritersEffect(e, taker),
         pc # "done", pc' # "done"
  PROVE  FilesInv'
<1>1. /\ taker \in {None, current, next}
      /\ taker = next => current = None
      /\ next' = IF taker = next THEN next + 1 ELSE next
      /\ current' = IF e.stop THEN None ELSE taker
      /\ e.rec \in {None, taker} /\ e.stop \in BOOLEAN
  BY DEF FeedEffect, Entry
<1>2. current' # None => current' = next' - 1 /\ pc' # "done"
  BY <1>1, IndexFacts DEF FilesInv
<1>3. ASSUME NEW r \in Index
      PROVE  /\ r >= next' => rec'[r] = NoWriter
             /\ r < next' => rec'[r].file # "absent"
             /\ rec'[r].file = "unlinked" => rec'[r].count = 0
             /\ r = current' => rec'[r].file = "open" /\ ~rec'[r].stopped
             /\ rec'[r].file = "open" => r = current' \/ rec'[r].swallowed
             /\ Sound(rec'[r])
  <2>1. CASE r \notin {current, taker}
    <3>1. rec'[r] = rec[r] /\ r # current'
      BY <1>1, <2>1, IndexFacts DEF WritersEffect
    <3>2. r >= next' <=> r >= next
      BY <1>1, <2>1, IndexFacts
    <3>3. r < next' <=> r < next
      BY <1>1, <2>1, IndexFacts
    <3> QED
      BY <2>1, <3>1, <3>2, <3>3, <1>1, IndexFacts DEF FilesInv
  <2>2. CASE r \in {current, taker}
    <3>1. /\ rec'[r].file \in {"open", "closed"}
          /\ r = current' => rec'[r].file = "open"
          /\ rec'[r].file = "open" => r = current' \/ rec'[r].swallowed
          /\ Sound(rec'[r])
          /\ rec'[r].stopped = (rec[r].stopped \/ (r = taker /\ e.stop))
      BY <2>2 DEF WritersEffect
    <3>2. r < next' /\ next' \in Nat
      BY <1>1, <2>2, IndexFacts
    <3>3. ~rec[r].stopped
      <4>1. CASE r = current
        BY <4>1, IndexFacts DEF FilesInv
      <4>2. CASE r = next
        BY <4>2, IndexFacts DEF FilesInv, NoWriter
      <4> QED
        BY <1>1, <2>2, <4>1, <4>2, IndexFacts
    <3>4. r = current' => ~rec'[r].stopped
      BY <1>1, <3>1, <3>3, IndexFacts
    <3> QED
      BY <3>1, <3>2, <3>4, IndexFacts
  <2> QED
    BY <2>1, <2>2
<1> QED
  BY <1>2, <1>3 DEF FilesInv

(* Whatever was fed, and wherever a write failed: as far as no exception   *)
(* was swallowed, the open file is that of the current writer, and each    *)
(* closed one has the EOS page it needs.                                   *)
LEMMA FilesInvariant == Spec => []FilesInv
<1>1. Init => FilesInv
  BY DEF Init, FilesInv, NoWriter, None, Index, Sound
<1>2. TypeOK /\ FilesInv /\ [Next]_vars => FilesInv'
  <2> SUFFICES ASSUME TypeOK, FilesInv, [Next]_vars PROVE FilesInv'
    OBVIOUS
  <2>1. ASSUME NEW c \in Chunk, Feed(c) PROVE FilesInv'
    <3>1. pc # "done" /\ pc' # "done"
      BY <2>1 DEF Feed, FeedLazyStart, FeedCurrent, FeedOpen, FeedNothing, AddFails, Feeding
    <3> QED
      BY <2>1, <3>1, FeedHasEffect, FeedHasWritersEffect, FeedKeepsFilesInv
  <2>2. CASE Finish
    <3>1. current' = None /\ next' = next /\ pc' = "done"
      BY <2>2 DEF Finish
    <3> QED
      BY <2>2, <3>1, FinishEffect, IndexFacts DEF FilesInv
  <2>3. CASE UNCHANGED vars
    BY <2>3 DEF vars, FilesInv
  <2> QED
    BY <2>1, <2>2, <2>3 DEF Next
<1> QED
  BY <1>1, <1>2, TypeCorrect, PTL DEF Spec

LEMMA FilesAtEnd == TypeOK /\ FilesInv => FilesComplete
<1> SUFFICES ASSUME TypeOK, FilesInv, pc = "done", NEW r \in Index
             PROVE  /\ rec[r].count > 0 => rec[r].file \in {"open", "closed"}
                    /\ \/ rec[r].swallowed
                       \/ rec[r].count > 0 /\ rec[r].file = "closed" /\ rec[r].eos = 1
                       \/ rec[r].count = 0 /\ rec[r].file \in {"absent", "unlinked"}
  BY DEF FilesComplete
<1>1. rec[r].file \in {"absent", "open", "closed", "unlinked"} /\ rec[r].count \in Nat
  BY DEF TypeOK, Writer
<1>2. CASE r >= next
  BY <1>2 DEF FilesInv, NoWriter
<1>3. CASE r < next
  <2>1. /\ rec[r].file # "absent" /\ r # current
        /\ rec[r].file = "unlinked" => rec[r].count = 0
        /\ rec[r].file = "open" => rec[r].swallowed
        /\ Sound(rec[r])
        /\ rec[r].count = 0 /\ ~rec[r].swallowed => rec[r].file \in {"absent", "unlinked"}
    BY <1>3, IndexFacts DEF FilesInv
  <2> QED
    BY <1>1, <2>1 DEF Sound, EosOf
<1> QED
  BY <1>2, <1>3, IndexFacts

(* When the decode is over, however it ended, no file with a packet has    *)
(* been removed, and where nothing was swallowed there is a file for every *)
(* recording with a packet and for no other, and it ends in one EOS page.  *)
THEOREM FilesAreComplete == Spec => []FilesComplete
  BY FilesAtEnd, TypeCorrect, FilesInvariant, PTL

-----------------------------------------------------------------------------
(* Counting chunks of the log.                                             *)

(* A set of positions of a log is finite, and grows by one with a new one. *)
LEMMA Positions ==
  ASSUME NEW n \in Nat, NEW S, S \subseteq 1..n
  PROVE  /\ IsFiniteSet(S) /\ Cardinality(S) \in Nat
         /\ Cardinality(S \cup {n + 1}) = Cardinality(S) + 1
<1>1. IsFiniteSet(1..n)
  BY FS_Interval
<1>2. IsFiniteSet(S)
  BY <1>1, FS_Subset
<1>3. n + 1 \notin S
  OBVIOUS
<1> QED
  BY <1>2, <1>3, FS_CardinalityType, FS_AddElement

(* The log after a feed, position by position.                             *)
LEMMA LogGrows ==
  ASSUME TypeOK, NEW e, NEW taker, FeedEffect(e, taker), NEW n, n = Len(log) + 1
  PROVE  /\ Len(log) \in Nat /\ DOMAIN log = 1..Len(log)
         /\ Len(log') = n /\ DOMAIN log' = 1..n /\ n \in Nat
         /\ \A i \in 1..Len(log) : log'[i] = log[i]
         /\ log'[n] = e
<1>1. log \in Seq(Entry) /\ e \in Entry /\ log' = Append(log, e)
  BY DEF TypeOK, FeedEffect
<1>2. Len(log') = Len(log) + 1
  BY <1>1, AppendProperties
<1> QED
  BY <1>1, <1>2, AppendFacts

(* The packets counted by a writer are those of its chunks.                *)
LEMMA FeedKeepsCounts ==
  ASSUME TypeOK, CountsAgree, NEW e, NEW taker, FeedEffect(e, taker), WritersEffect(e, taker)
  PROVE  CountsAgree'
<1> SUFFICES ASSUME NEW r \in Index
             PROVE  rec'[r].count =
                      Cardinality({i \in DOMAIN log' : log'[i].rec = r /\ log'[i].audio = "clear"})
  BY DEF CountsAgree
<1>1. PICK n : n = Len(log) + 1
  OBVIOUS
<1>2. PICK S : S = {i \in DOMAIN log : log[i].rec = r /\ log[i].audio = "clear"}
  OBVIOUS
<1>3. /\ S \subseteq 1..Len(log) /\ Len(log) \in Nat
      /\ {i \in DOMAIN log' : log'[i].rec = r /\ log'[i].audio = "clear"}
         = S \cup (IF e.rec = r /\ e.audio = "clear" THEN {n} ELSE {})
  BY <1>1, <1>2, LogGrows
<1>4. Cardinality(S \cup {n}) = Cardinality(S) + 1 /\ Cardinality(S) \in Nat
  BY <1>1, <1>3, Positions
<1>5. rec[r].count = Cardinality(S)
  BY <1>2 DEF CountsAgree
<1>6. rec'[r].count = rec[r].count + (IF e.rec = r /\ e.audio = "clear" THEN 1 ELSE 0)
  BY DEF WritersEffect
<1>7. CASE e.rec = r /\ e.audio = "clear"
  BY <1>3, <1>4, <1>5, <1>6, <1>7
<1>8. CASE ~(e.rec = r /\ e.audio = "clear")
  <2>1. {i \in DOMAIN log' : log'[i].rec = r /\ log'[i].audio = "clear"} = S
    <3>1. (IF e.rec = r /\ e.audio = "clear" THEN {n} ELSE {}) = {}
      BY <1>8
    <3> QED
      BY <1>3, <3>1
  <2>2. rec'[r].count = rec[r].count
    BY <1>4, <1>5, <1>6, <1>8
  <2> QED
    BY <1>5, <2>1, <2>2
<1> QED
  BY <1>7, <1>8

(* chunk_count is the number of packets the file was given: a chunk whose  *)
(* write failed is in neither, and the finally recounts nothing.           *)
THEOREM CountsAreRight == Spec => []CountsAgree
<1>1. Init => CountsAgree
  <2> SUFFICES ASSUME Init, NEW r \in Index
               PROVE  rec[r].count =
                        Cardinality({i \in DOMAIN log : log[i].rec = r /\ log[i].audio = "clear"})
    BY DEF CountsAgree
  <2>1. DOMAIN log = {}
    BY DEF Init
  <2>2. {i \in DOMAIN log : log[i].rec = r /\ log[i].audio = "clear"} = {}
    BY <2>1
  <2>3. rec[r].count = 0
    BY DEF Init, NoWriter
  <2> QED
    BY <2>2, <2>3, FS_EmptySet
<1>2. TypeOK /\ FilesInv /\ CountsAgree /\ [Next]_vars => CountsAgree'
  <2> SUFFICES ASSUME TypeOK, FilesInv, CountsAgree, [Next]_vars PROVE CountsAgree'
    OBVIOUS
  <2>1. ASSUME NEW c \in Chunk, Feed(c) PROVE CountsAgree'
    BY <2>1, FeedHasEffect, FeedHasWritersEffect, FeedKeepsCounts
  <2>2. CASE Finish
    <3>1. log' = log /\ \A r \in Index : rec'[r].count = rec[r].count
      BY <2>2, FinishEffect DEF Finish
    <3> QED
      BY <3>1 DEF CountsAgree
  <2>3. CASE UNCHANGED vars
    BY <2>3 DEF vars, CountsAgree
  <2> QED
    BY <2>1, <2>2, <2>3 DEF Next
<1> QED
  BY <1>1, <1>2, TypeCorrect, FilesInvariant, PTL DEF Spec

-----------------------------------------------------------------------------
(* The stop flags.                                                         *)

(* While the last chunk of a recording is followed by nothing but chunks   *)
(* without audio and without flags, its writer stays current.              *)
StillCurrent ==
  \A i \in DOMAIN log :
    /\ pc # "done" /\ log[i].rec # None /\ ~log[i].stop
    /\ \A m \in (i + 1)..Len(log) : log[m].rec = None /\ ~log[m].start /\ ~log[m].stop
    => current = log[i].rec

LEMMA FeedKeepsCurrent ==
  ASSUME TypeOK, StillCurrent, pc # "done", NEW e, NEW taker, FeedEffect(e, taker)
  PROVE  StillCurrent'
<1>1. PICK n : n = Len(log) + 1
  OBVIOUS
<1>2. /\ Len(log) \in Nat /\ DOMAIN log = 1..Len(log)
      /\ Len(log') = n /\ DOMAIN log' = 1..n
      /\ \A i \in 1..Len(log) : log'[i] = log[i]
      /\ log'[n] = e
  BY <1>1, LogGrows
<1> SUFFICES ASSUME NEW i \in DOMAIN log', log'[i].rec # None, ~log'[i].stop,
                    \A m \in (i + 1)..Len(log') :
                      log'[m].rec = None /\ ~log'[m].start /\ ~log'[m].stop
             PROVE  current' = log'[i].rec
  BY DEF StillCurrent
<1>3. /\ current # None /\ ~e.start => taker = current
      /\ current' = IF e.stop THEN None ELSE taker
      /\ e.rec \in {None, taker}
  BY DEF FeedEffect
<1>4. CASE i = n
  BY <1>2, <1>3, <1>4
<1>5. CASE i # n
  <2>1. i \in 1..Len(log) /\ n \in (i + 1)..n
    BY <1>1, <1>2, <1>5
  <2>2. e.rec = None /\ ~e.start /\ ~e.stop
    BY <1>2, <2>1
  <2>3. \A m \in (i + 1)..Len(log) : m \in (i + 1)..n /\ m \in 1..Len(log)
    BY <1>1, <1>2, <2>1
  <2>4. \A m \in (i + 1)..Len(log) : log[m].rec = None /\ ~log[m].start /\ ~log[m].stop
    BY <1>2, <2>3
  <2>5. current = log[i].rec /\ log[i].rec # None
    BY <1>2, <2>1, <2>4 DEF StillCurrent
  <2> QED
    BY <1>2, <1>3, <2>1, <2>2, <2>5
<1> QED
  BY <1>4, <1>5

(* After the last chunk of the newest recording nothing was recorded.      *)
LEMMA QuietAfterLast ==
  ASSUME TypeOK, SplitInv, NEW r \in Index, r = next - 1,
         NEW i \in DOMAIN log, log[i].rec = r, LastOf(r, i)
  PROVE  \A m \in DOMAIN log : m > i => log[m].rec = None
<1> SUFFICES ASSUME NEW m \in DOMAIN log, m > i, log[m].rec # None PROVE FALSE
  OBVIOUS
<1>1. log[m].rec # r
  BY DEF LastOf
<1>2. i < m
  BY IndexFacts
<1>3. log[m].rec \in Index /\ log[m].rec > r
  BY <1>1, <1>2, IndexFacts DEF SplitInv, RecordingsInOrder
<1>4. log[m].rec < next
  BY DEF SplitInv, CurrentNewest
<1> QED
  BY <1>3, <1>4, IndexFacts

\* The stop flags of the log that StopFlagFaithful looks for, for the chunk i.
Stops(i) == {k \in DOMAIN log : /\ i <= k /\ log[k].stop
                                /\ \A m \in (i + 1)..k : log[m].rec = None}

StopFlagAt(i) ==
  log[i].rec # None /\ LastOf(log[i].rec, i) =>
    /\ rec[log[i].rec].stopped => Stops(i) # {}
    /\ (\E k \in Stops(i) : \A m \in (i + 1)..k : ~log[m].start) => rec[log[i].rec].stopped

\* StopFlagFaithful without its local definitions.
LEMMA StopFlags == StopFlagFaithful <=> \A i \in DOMAIN log : StopFlagAt(i)
  BY DEF StopFlagFaithful, StopFlagAt, Stops

(* The stop flag of a writer agrees with the log after a feed.             *)
LEMMA FeedKeepsStopFlags ==
  ASSUME TypeOK, SplitInv, FilesInv, StillCurrent, StopFlagFaithful, pc # "done",
         NEW e, NEW taker, FeedEffect(e, taker), WritersEffect(e, taker)
  PROVE  StopFlagFaithful'
<1>1. PICK n : n = Len(log) + 1
  OBVIOUS
<1>2. /\ Len(log) \in Nat /\ DOMAIN log = 1..Len(log)
      /\ DOMAIN log' = 1..n /\ n \in Nat
      /\ \A i \in 1..Len(log) : log'[i] = log[i]
      /\ log'[n] = e
  BY <1>1, LogGrows
<1>3. /\ taker \in {None, current, next}
      /\ current # None /\ ~e.start => taker = current
      /\ e.rec \in {None, taker} /\ e.rec \in Index \cup {None}
      /\ e.stop \in BOOLEAN
      /\ \A r \in Index : rec'[r].stopped = (rec[r].stopped \/ (r = taker /\ e.stop))
  BY DEF FeedEffect, WritersEffect, Entry
<1> SUFFICES ASSUME NEW i \in DOMAIN log', log'[i].rec # None, LastOf(log[i].rec, i)'
             PROVE  /\ rec'[log'[i].rec].stopped => Stops(i)' # {}
                    /\ (\E k \in Stops(i)' : \A m \in (i + 1)..k : ~log'[m].start)
                         => rec'[log'[i].rec].stopped
  <2>1. (StopFlagFaithful <=> \A i \in DOMAIN log : StopFlagAt(i))'
    BY StopFlags, PTL
  <2> QED
    BY <2>1 DEF StopFlagAt
<1>4. CASE i = n
  <2>1. log'[i] = e /\ e.rec = taker /\ e.rec \in Index /\ rec'[e.rec].stopped = (rec[e.rec].stopped \/ e.stop)
    BY <1>2, <1>3, <1>4
  <2>2. ~rec[e.rec].stopped
    <3>1. CASE taker = current
      BY <2>1, <3>1, IndexFacts DEF FilesInv
    <3>2. CASE taker = next
      BY <2>1, <3>2, IndexFacts DEF FilesInv, NoWriter
    <3> QED
      BY <1>3, <2>1, <3>1, <3>2, IndexFacts
  <2>3. e.stop => n \in Stops(n)'
    BY <1>1, <1>2 DEF Stops
  <2>4. \A k \in Stops(n)' : k = n
    BY <1>1, <1>2 DEF Stops
  <2>5. \A k \in Stops(n)' : log'[k].stop
    BY DEF Stops
  <2> QED
    BY <1>2, <1>4, <2>1, <2>2, <2>3, <2>4, <2>5
<1>5. CASE i # n
  <2>1. PICK r : r = log[i].rec
    OBVIOUS
  <2>2. /\ i \in DOMAIN log /\ i \in 1..Len(log) /\ log'[i] = log[i]
        /\ r \in Index /\ n > i
    BY <1>1, <1>2, <1>5, <2>1, IndexFacts
  <2>3. LastOf(r, i) /\ e.rec # r
    BY <1>1, <1>2, <2>1, <2>2 DEF LastOf
  <2>4. /\ rec[r].stopped => Stops(i) # {}
        /\ (\E k \in Stops(i) : \A m \in (i + 1)..k : ~log[m].start) => rec[r].stopped
    BY <2>1, <2>2, <2>3, StopFlags, IndexFacts DEF StopFlagAt
  \* The positions up to the last one mean what they meant.
  <2>5. \A k \in 1..Len(log) : \A m \in (i + 1)..k : m \in 1..Len(log) /\ log'[m] = log[m]
    BY <1>1, <1>2, <2>2
  <2>6. Stops(i) \subseteq Stops(i)'
    BY <1>1, <1>2, <2>5 DEF Stops
  <2>7. \A k \in Stops(i)' : k # n => k \in Stops(i) /\ k \in 1..Len(log)
    BY <1>1, <1>2, <2>2, <2>5 DEF Stops
  <2>8. rec'[r].stopped = (rec[r].stopped \/ (r = taker /\ e.stop))
    BY <1>3, <2>2
  <2>9. ASSUME r = taker, e.stop PROVE n \in Stops(i)'
    <3>1. r = current /\ r = next - 1
      <4>1. r < next /\ (current # None => current = next - 1)
        BY <2>1, <2>2 DEF SplitInv, CurrentNewest
      <4>2. r # None /\ r # next
        BY <2>2, <4>1, IndexFacts
      <4> QED
        BY <1>3, <2>9, <4>1, <4>2
    <3>2. \A m \in DOMAIN log : m > i => log[m].rec = None
      BY <2>1, <2>2, <2>3, <3>1, QuietAfterLast
    <3>3. e.rec = None
      BY <1>3, <2>3, <2>9
    <3>4. \A m \in (i + 1)..n : m = n \/ (m \in DOMAIN log /\ m > i)
      BY <1>1, <1>2, <2>2
    <3>5. \A m \in (i + 1)..n : log'[m].rec = None
      BY <1>2, <3>2, <3>3, <3>4
    <3> QED
      BY <1>2, <2>2, <2>9, <3>5 DEF Stops
  <2>10. ASSUME n \in Stops(i)', \A m \in (i + 1)..n : ~log'[m].start, ~rec[r].stopped
         PROVE  r = taker /\ e.stop
    <3>1. e.stop /\ ~e.start /\ \A m \in (i + 1)..n : log'[m].rec = None
      <4>1. n \in (i + 1)..n
        BY <1>1, <1>2, <2>2
      <4> QED
        BY <1>2, <2>10, <4>1 DEF Stops
    <3>2. \A m \in (i + 1)..Len(log) : m \in (i + 1)..n /\ log'[m] = log[m] /\ m \in DOMAIN log
      BY <1>1, <1>2, <2>2
    <3>3. \A m \in (i + 1)..Len(log) : log[m].rec = None /\ ~log[m].start
      BY <2>10, <3>1, <3>2
    <3>4. \A k \in i..Len(log) : ~log[k].stop
      <4> SUFFICES ASSUME NEW k \in i..Len(log), log[k].stop PROVE FALSE
        OBVIOUS
      <4>1. k \in DOMAIN log /\ i <= k /\ \A m \in (i + 1)..k : m \in (i + 1)..Len(log)
        BY <1>2, <2>2
      <4>2. k \in Stops(i) /\ \A m \in (i + 1)..k : ~log[m].start
        BY <3>3, <4>1 DEF Stops
      <4> QED
        BY <2>4, <2>10, <4>2
    <3>5. i \in i..Len(log) /\ (i + 1)..Len(log) \subseteq i..Len(log)
      BY <1>2, <2>2
    <3>6. current = log[i].rec
      BY <2>1, <2>2, <3>3, <3>4, <3>5, IndexFacts DEF StillCurrent
    <3> QED
      BY <1>3, <2>1, <2>2, <3>1, <3>6, IndexFacts
  <2>11. (\E k \in Stops(i)' : \A m \in (i + 1)..k : ~log'[m].start) => rec'[r].stopped
    <3> SUFFICES ASSUME NEW k \in Stops(i)', \A m \in (i + 1)..k : ~log'[m].start,
                        ~rec[r].stopped
                 PROVE  r = taker /\ e.stop
      BY <2>8, IndexFacts
    <3>1. CASE k = n
      BY <2>10, <3>1
    <3>2. CASE k # n
      BY <2>4, <2>5, <2>7, <3>2
    <3> QED
      BY <3>1, <3>2
  <2> QED
    BY <2>1, <2>2, <2>4, <2>6, <2>8, <2>9, <2>11
<1> QED
  BY <1>4, <1>5

(* closed_with_stop_marker tells the truth: it is set only if a stop flag  *)
(* followed the last chunk of the recording before anything else was       *)
(* recorded, and it is set if one did before another start flag.           *)
THEOREM StopFlagsAreTrue == Spec => []StopFlagFaithful
<1>1. Init => StillCurrent /\ StopFlagFaithful
  BY DEF Init, StillCurrent, StopFlagFaithful
<1>2. TypeOK /\ SplitInv /\ FilesInv /\ StillCurrent /\ StopFlagFaithful /\ [Next]_vars
        => StillCurrent' /\ StopFlagFaithful'
  <2> SUFFICES ASSUME TypeOK, SplitInv, FilesInv, StillCurrent, StopFlagFaithful, [Next]_vars
               PROVE  StillCurrent' /\ StopFlagFaithful'
    OBVIOUS
  <2>1. ASSUME NEW c \in Chunk, Feed(c) PROVE StillCurrent' /\ StopFlagFaithful'
    <3>1. pc # "done"
      BY <2>1 DEF Feed, FeedLazyStart, FeedCurrent, FeedOpen, FeedNothing, AddFails, Feeding
    <3>2. FeedEffect(Entered(c), Taker(c)) /\ WritersEffect(Entered(c), Taker(c))
      BY <2>1, FeedHasEffect, FeedHasWritersEffect
    <3> QED
      BY <3>1, <3>2, FeedKeepsCurrent, FeedKeepsStopFlags
  <2>2. CASE Finish
    <3>1. log' = log /\ pc' = "done"
      BY <2>2 DEF Finish
    <3>2. \A r \in Index : rec'[r].stopped = rec[r].stopped
      BY <2>2, FinishEffect
    <3>3. \A i \in DOMAIN log : log[i].rec # None => rec'[log[i].rec].stopped = rec[log[i].rec].stopped
      BY <3>2, IndexFacts
    <3> QED
      BY <3>1, <3>3 DEF StillCurrent, StopFlagFaithful, LastOf
  <2>3. CASE UNCHANGED vars
    BY <2>3 DEF vars, StillCurrent, StopFlagFaithful, LastOf
  <2> QED
    BY <2>1, <2>2, <2>3 DEF Next
<1> QED
  BY <1>1, <1>2, TypeCorrect, SplitInvariant, FilesInvariant, PTL DEF Spec

-----------------------------------------------------------------------------
(* The sidecars.                                                           *)

(* Collecting for the sidecars and writing them down changes nothing about *)
(* the recordings, so what was proved of Recordings holds of Sidecars.     *)
THEOREM SidecarsOnlyWatch == SidecarSpec => Spec
<1>1. SidecarInit => Init
  BY DEF SidecarInit
<1>2. [SidecarNext]_<<vars, sidecars>> => [Next]_vars
  BY DEF SidecarNext, DecodeChunk, WriteSidecars, SidecarsFail, Finally, Next
<1> QED
  BY <1>1, <1>2, PTL DEF SidecarSpec, Spec

\* Whether an event was noted.
Noted(t, i) == \E k \in DOMAIN events : events[k] = [type |-> t, chunk |-> i]
EventNote == [type : {"recording_start", "recording_stop", "status"}, chunk : Nat]

(* The fields s name the last of the chunks P and, as the first, the first *)
(* that has a time, whose time they keep, or the last if none has.         *)
SpanFits(P, s) ==
  /\ P = {} => s.time = 0
  /\ P # {} => s.first \in P /\ s.last \in P /\ s.time = AbsoluteTime(s.first)
  /\ \A i \in P :
       /\ i <= s.last
       /\ i < s.first => AbsoluteTime(i) = 0
       /\ AbsoluteTime(i) # 0 => s.time # 0

(* What the loop has collected agrees with the log.                        *)
StageInv ==
  /\ stage \in {"decode", "ok", "raised"}
  /\ stage = "decode" <=> pc # "done"
  /\ stage = "decode" => eventsFile = Other
  /\ Whole => manifest = Manifest(rec) /\ eventsFile = EventsFile
AudioCounted == nAudio = Cardinality({i \in DOMAIN log : log[i].audio # "none"})
SpansKept == DOMAIN span = Index /\ \A r \in Index : SpanFits(Packets(r), span[r])
FlagsNoted ==
  /\ events \in Seq(EventNote)
  /\ \A i \in DOMAIN log :
       /\ log[i].start => Noted("recording_start", i)
       /\ log[i].stop /\ ~log[i].start => Noted("recording_stop", i)
SidecarInv == StageInv /\ AudioCounted /\ SpansKept /\ FlagsNoted

(* The packets of a recording after a feed.                                *)
LEMMA PacketsGrow ==
  ASSUME TypeOK, NEW e, NEW taker, FeedEffect(e, taker), NEW n, n = Len(log) + 1, NEW r \in Index
  PROVE  /\ Packets(r) \subseteq 1..Len(log) /\ Len(log) \in Nat
         /\ Packets(r)' = IF e.rec = r /\ e.audio = "clear" THEN Packets(r) \cup {n} ELSE Packets(r)
<1>1. /\ Len(log) \in Nat /\ DOMAIN log = 1..Len(log)
      /\ DOMAIN log' = 1..n /\ n \in Nat
      /\ \A i \in 1..Len(log) : log'[i] = log[i]
      /\ log'[n] = e
  BY LogGrows
<1>2. Packets(r) \subseteq 1..Len(log)
  BY <1>1 DEF Packets
<1>3. \A i : i \in Packets(r)' <=> i \in 1..n /\ log'[i].rec = r /\ log'[i].audio = "clear"
  BY <1>1 DEF Packets
<1>4. \A i : i \in Packets(r) <=> i \in 1..Len(log) /\ log[i].rec = r /\ log[i].audio = "clear"
  BY <1>1 DEF Packets
<1>5. \A i : i \in 1..n <=> i \in 1..Len(log) \/ i = n
  BY <1>1
<1>6. n \notin 1..Len(log)
  BY <1>1
<1>7. \A i : i \in Packets(r)' <=> i \in Packets(r) \/ (i = n /\ e.rec = r /\ e.audio = "clear")
  BY <1>1, <1>3, <1>4, <1>5, <1>6
<1> QED
  BY <1>1, <1>2, <1>7

(* The fields of a writer after it took packets at position n.             *)
LEMMA SeenFits ==
  ASSUME NEW n \in Nat, NEW P, P \subseteq 1..(n - 1), NEW s, SpanFits(P, s)
  PROVE  SpanFits(P \cup {n}, Seen(s, n))
<1>1. PICK t : t = Seen(s, n)
  OBVIOUS
<1>2. \A i \in P : i \in Nat /\ i < n
  OBVIOUS
<1>3. /\ P = {} => s.time = 0
      /\ P # {} => s.first \in P /\ s.last \in P /\ s.time = AbsoluteTime(s.first)
      /\ \A i \in P : /\ i < s.first => AbsoluteTime(i) = 0
                      /\ AbsoluteTime(i) # 0 => s.time # 0
  BY DEF SpanFits
<1> HIDE DEF AbsoluteTime
<1>4. CASE s.time = 0
  <2>1. t.first = n /\ t.last = n /\ t.time = AbsoluteTime(n)
    BY <1>1, <1>4 DEF Seen
  <2>2. \A i \in P \cup {n} :
          /\ i <= t.last
          /\ i < t.first => AbsoluteTime(i) = 0
          /\ AbsoluteTime(i) # 0 => t.time # 0
    BY <1>2, <1>3, <1>4, <2>1
  <2> QED
    BY <1>1, <2>1, <2>2 DEF SpanFits
<1>5. CASE s.time # 0
  <2>1. t.first = s.first /\ t.last = n /\ t.time = s.time
    BY <1>1, <1>5 DEF Seen
  <2>2. s.first \in P /\ s.time = AbsoluteTime(s.first) /\ s.first < n /\ s.first \in Nat
    BY <1>2, <1>3, <1>5
  <2>3. \A i \in P \cup {n} :
          /\ i <= t.last
          /\ i < t.first => AbsoluteTime(i) = 0
          /\ AbsoluteTime(i) # 0 => t.time # 0
    BY <1>2, <1>3, <1>5, <2>1, <2>2
  <2> QED
    BY <1>1, <2>1, <2>2, <2>3 DEF SpanFits
<1> QED
  BY <1>4, <1>5

LEMMA DecodeKeepsSpans ==
  ASSUME TypeOK, SpansKept, NEW c \in Chunk, DecodeChunk(c)
  PROVE  SpansKept'
<1>1. PICK n, e, taker : n = Len(log) + 1 /\ e = Entered(c) /\ taker = Taker(c)
  OBVIOUS
<1>2. FeedEffect(e, taker) /\ c \in AnyChunk
  BY <1>1, FeedHasEffect DEF DecodeChunk
<1>3. log'[n] = e /\ n \in Nat /\ Len(log) = n - 1
  BY <1>1, <1>2, LogGrows
<1>4. e.rec # None => e.audio = c.audio
  BY <1>1 DEF Entered
<1>5. span' = IF e.rec # None /\ c.audio = "clear"
              THEN [span EXCEPT ![e.rec] = Seen(span[e.rec], n)] ELSE span
  BY <1>1, <1>3 DEF DecodeChunk
<1>6. DOMAIN span' = Index
  BY <1>5 DEF SpansKept
<1>7. ASSUME NEW r \in Index PROVE SpanFits(Packets(r)', span'[r])
  <2>1. /\ Packets(r) \subseteq 1..(n - 1)
        /\ Packets(r)' = IF e.rec = r /\ e.audio = "clear" THEN Packets(r) \cup {n} ELSE Packets(r)
    BY <1>1, <1>2, <1>3, PacketsGrow
  <2>2. SpanFits(Packets(r), span[r])
    BY DEF SpansKept
  <2>3. CASE e.rec = r /\ e.audio = "clear"
    <3>1. span'[r] = Seen(span[r], n)
      BY <1>4, <1>5, <2>3, IndexFacts DEF SpansKept
    <3> QED
      BY <1>3, <2>1, <2>2, <2>3, <3>1, SeenFits
  <2>4. CASE ~(e.rec = r /\ e.audio = "clear")
    <3>1. span'[r] = span[r]
      BY <1>4, <1>5, <2>4 DEF SpansKept
    <3> QED
      BY <2>1, <2>2, <2>4, <3>1
  <2> QED
    BY <2>3, <2>4
<1>8. \A r \in Index : SpanFits(Packets(r), span[r])'
  BY <1>7 DEF SpanFits
<1> QED
  BY <1>6, <1>8 DEF SpansKept

LEMMA DecodeKeepsAudio ==
  ASSUME TypeOK, AudioCounted, NEW c \in Chunk, DecodeChunk(c)
  PROVE  AudioCounted'
<1>1. PICK n, e, taker : n = Len(log) + 1 /\ e = Entered(c) /\ taker = Taker(c)
  OBVIOUS
<1>2. FeedEffect(e, taker)
  BY <1>1, FeedHasEffect DEF DecodeChunk
<1>3. PICK A : A = {i \in DOMAIN log : log[i].audio # "none"}
  OBVIOUS
<1>4. /\ A \subseteq 1..Len(log) /\ Len(log) \in Nat
      /\ {i \in DOMAIN log' : log'[i].audio # "none"}
         = A \cup (IF e.audio # "none" THEN {n} ELSE {})
  BY <1>1, <1>2, <1>3, LogGrows
<1>5. Cardinality(A \cup {n}) = Cardinality(A) + 1
  BY <1>1, <1>4, Positions
<1>6. pc' = "feed" <=> pc' # "failed"
  BY DEF DecodeChunk, Feed, FeedLazyStart, FeedCurrent, FeedOpen, FeedNothing, AddFails, Feeding
<1>7. e.audio # "none" <=> (pc' = "feed" /\ c.audio # "none")
  BY <1>1, <1>6 DEF Entered
<1>8. nAudio' = IF e.audio # "none" THEN nAudio + 1 ELSE nAudio
  BY <1>7 DEF DecodeChunk
<1>9. nAudio = Cardinality(A)
  BY <1>3 DEF AudioCounted
<1>10. CASE e.audio # "none"
  BY <1>4, <1>5, <1>8, <1>9, <1>10 DEF AudioCounted
<1>11. CASE e.audio = "none"
  <2>1. {i \in DOMAIN log' : log'[i].audio # "none"} = A
    BY <1>4, <1>11
  <2> QED
    BY <1>8, <1>9, <1>11, <2>1 DEF AudioCounted
<1> QED
  BY <1>10, <1>11

LEMMA DecodeKeepsEvents ==
  ASSUME TypeOK, FlagsNoted, NEW c \in Chunk, DecodeChunk(c)
  PROVE  FlagsNoted'
<1>1. PICK n, e, taker : n = Len(log) + 1 /\ e = Entered(c) /\ taker = Taker(c)
  OBVIOUS
<1>2. FeedEffect(e, taker) /\ c \in AnyChunk
  BY <1>1, FeedHasEffect DEF DecodeChunk
<1>3. /\ Len(log) \in Nat /\ DOMAIN log = 1..Len(log)
      /\ DOMAIN log' = 1..n /\ n \in Nat
      /\ \A i \in 1..Len(log) : log'[i] = log[i]
      /\ log'[n] = e
  BY <1>1, <1>2, LogGrows
<1>4. PICK x : x = EventOf(c, n)
  OBVIOUS
<1>5. /\ x \in Seq(EventNote)
      /\ c.start => x = <<[type |-> "recording_start", chunk |-> n]>>
      /\ ~c.start /\ c.stop => x = <<[type |-> "recording_stop", chunk |-> n]>>
  <2>1. c.start \in BOOLEAN /\ c.stop \in BOOLEAN
    BY <1>2 DEF AnyChunk
  <2>2. \A t \in {"recording_start", "recording_stop", "status"} :
          <<[type |-> t, chunk |-> n]>> \in Seq(EventNote)
    BY <1>3 DEF EventNote
  <2>3. CASE c.start
    BY <1>4, <2>2, <2>3 DEF EventOf
  <2>4. CASE ~c.start /\ c.stop
    BY <1>4, <2>2, <2>4 DEF EventOf
  <2>5. CASE ~c.start /\ ~c.stop
    <3>1. x = IF c.audio = "none" THEN <<[type |-> "status", chunk |-> n]>> ELSE <<>>
      BY <1>4, <2>5 DEF EventOf
    <3> QED
      BY <2>2, <2>5, <3>1
  <2> QED
    BY <2>1, <2>3, <2>4, <2>5
<1>6. events' = events \o x /\ events \in Seq(EventNote) /\ Len(events) \in Nat
      /\ DOMAIN events = 1..Len(events)
  BY <1>1, <1>4, LenProperties DEF DecodeChunk, FlagsNoted
<1>7. /\ events' \in Seq(EventNote) /\ Len(events') = Len(events) + Len(x)
      /\ \A i \in 1..(Len(events) + Len(x)) :
           events'[i] = IF i <= Len(events) THEN events[i] ELSE x[i - Len(events)]
  BY <1>5, <1>6, ConcatProperties
<1>8. Len(x) \in Nat /\ DOMAIN x = 1..Len(x) /\ DOMAIN events' = 1..(Len(events) + Len(x))
  BY <1>5, <1>7, LenProperties
<1>9. \A k \in DOMAIN events : k \in DOMAIN events' /\ events'[k] = events[k]
  BY <1>6, <1>7, <1>8
<1>10. \A t, i : Noted(t, i) => Noted(t, i)'
  BY <1>9 DEF Noted
<1>11. ASSUME NEW t, x = <<[type |-> t, chunk |-> n]>>
       PROVE  Noted(t, n)'
  <2>1. Len(x) = 1 /\ x[1] = [type |-> t, chunk |-> n]
    BY <1>11
  <2>2. Len(events) + 1 \in DOMAIN events' /\ events'[Len(events) + 1] = x[1]
    BY <1>6, <1>7, <1>8, <2>1
  <2> QED
    BY <2>1, <2>2 DEF Noted
<1>12. (e.start => c.start) /\ (e.stop /\ ~e.start => c.stop /\ ~c.start)
  BY <1>1 DEF Entered
<1>13. ASSUME NEW i \in DOMAIN log'
       PROVE  /\ log'[i].start => Noted("recording_start", i)'
              /\ log'[i].stop /\ ~log'[i].start => Noted("recording_stop", i)'
  <2>1. CASE i = n
    BY <1>3, <1>5, <1>11, <1>12, <2>1
  <2>2. CASE i # n
    <3>1. i \in DOMAIN log /\ log'[i] = log[i]
      BY <1>1, <1>3, <2>2
    <3> QED
      BY <1>10, <3>1 DEF FlagsNoted
  <2> QED
    BY <2>1, <2>2
<1> QED
  BY <1>7, <1>13 DEF FlagsNoted

LEMMA SidecarStep ==
  TypeOK /\ SidecarInv /\ [SidecarNext]_<<vars, sidecars>> => SidecarInv'
<1> SUFFICES ASSUME TypeOK, SidecarInv, [SidecarNext]_<<vars, sidecars>>
             PROVE  SidecarInv'
  OBVIOUS
<1>1. ASSUME NEW c \in Chunk, DecodeChunk(c) PROVE SidecarInv'
  <2>1. pc # "done" /\ pc' # "done" /\ stage = "decode" /\ UNCHANGED <<stage, manifest, eventsFile>>
    BY <1>1 DEF DecodeChunk, Feed, FeedLazyStart, FeedCurrent, FeedOpen, FeedNothing, AddFails,
                Feeding
  <2>2. ~Whole /\ (~Whole)'
    <3>1. eventsFile = Other /\ eventsFile' = Other
      BY <2>1 DEF SidecarInv, StageInv
    <3> QED
      BY <2>1, <3>1 DEF Whole, Other
  <2>3. StageInv'
    BY <2>1, <2>2 DEF SidecarInv, StageInv
  <2> QED
    BY <1>1, <2>3, DecodeKeepsAudio, DecodeKeepsSpans, DecodeKeepsEvents DEF SidecarInv
<1>2. ASSUME Finally, stage' \in {"ok", "raised"},
             \/ manifest' = Manifest(rec') /\ eventsFile' = EventsFile
             \/ stage' = "raised" /\ eventsFile' = Other
      PROVE  SidecarInv'
  <2>1. UNCHANGED <<log, events, nAudio, span>> /\ pc' = "done"
    BY <1>2 DEF Finally, Finish
  <2>2. EventsFile' = EventsFile /\ (Manifest(rec))' = Manifest(rec')
    BY <2>1 DEF EventsFile, Manifest
  <2>3. Other.is # "new"
    BY DEF Other
  <2>4. Whole' => manifest' = (Manifest(rec))' /\ eventsFile' = EventsFile'
    BY <1>2, <2>2, <2>3 DEF Whole
  <2>5. StageInv'
    BY <1>2, <2>1, <2>4 DEF StageInv
  <2>6. AudioCounted' /\ SpansKept' /\ FlagsNoted'
    BY <2>1 DEF SidecarInv, AudioCounted, SpansKept, SpanFits, Packets, FlagsNoted, Noted
  <2> QED
    BY <2>5, <2>6 DEF SidecarInv
<1>3. CASE WriteSidecars \/ SidecarsFail
  BY <1>2, <1>3 DEF WriteSidecars, SidecarsFail
<1>4. CASE UNCHANGED <<vars, sidecars>>
  BY <1>4 DEF vars, sidecars, SidecarInv, StageInv, Whole, Manifest, Listed, EventsFile,
              AudioCounted, SpansKept, SpanFits, Packets, FlagsNoted, Noted
<1> QED
  BY <1>1, <1>3, <1>4 DEF SidecarNext

(* What the loop collects beside the recordings agrees with the stream at  *)
(* every point of it.                                                      *)
LEMMA SidecarInvariant == SidecarSpec => []SidecarInv
<1>1. SidecarInit => SidecarInv
  <2> SUFFICES ASSUME SidecarInit PROVE SidecarInv
    OBVIOUS
  <2> USE DEF SidecarInit, Init
  <2>1. StageInv
    BY DEF StageInv, Whole, Other
  <2>2. DOMAIN log = {} /\ \A r \in Index : Packets(r) = {}
    BY DEF Packets
  <2>3. AudioCounted
    <3>1. {i \in DOMAIN log : log[i].audio # "none"} = {}
      BY <2>2
    <3> QED
      BY <3>1, FS_EmptySet DEF AudioCounted
  <2>4. SpansKept
    BY <2>2 DEF SpansKept, SpanFits
  <2>5. FlagsNoted
    BY <2>2, EmptySeq DEF FlagsNoted
  <2> QED
    BY <2>1, <2>3, <2>4, <2>5 DEF SidecarInv
<1>2. SidecarSpec => []TypeOK
  BY SidecarsOnlyWatch, TypeCorrect, PTL
<1> QED
  BY <1>1, <1>2, SidecarStep, PTL DEF SidecarSpec

(* The positions with audio are those of the packets written and those of  *)
(* the audio that is not in a recording or could not be decrypted.         *)
LEMMA AudioSplits ==
  ASSUME TypeOK,
         NEW P, P = UNION {Packets(r) : r \in Index},
         NEW D, D = {i \in DOMAIN log : log[i].audio = "sealed"
                                          \/ (log[i].audio # "none" /\ log[i].rec = None)},
         NEW A, A = {i \in DOMAIN log : log[i].audio # "none"}
  PROVE  Cardinality(A) = Cardinality(P) + Cardinality(D)
<1>1. /\ Len(log) \in Nat /\ DOMAIN log = 1..Len(log)
      /\ \A i \in DOMAIN log : log[i].rec \in Index \cup {None}
      /\ \A i \in DOMAIN log : log[i].audio \in {"none", "sealed", "clear"}
      /\ None \notin Index
  BY IndexFacts DEF Entry
<1>2. P = {i \in DOMAIN log : log[i].audio = "clear" /\ log[i].rec \in Index}
  BY DEF Packets
<1>3. A = P \cup D
  <2>1. \A i : i \in A <=> i \in P \/ i \in D
    BY <1>1, <1>2
  <2> QED
    BY <2>1
<1>4. P \cap D = {}
  BY <1>1, <1>2
<1>5. /\ IsFiniteSet(P) /\ Cardinality(P) \in Nat
      /\ IsFiniteSet(D) /\ Cardinality(D) \in Nat
  <2>1. P \subseteq 1..Len(log) /\ D \subseteq 1..Len(log)
    BY <1>1, <1>2
  <2> QED
    BY <1>1, <2>1, Positions
<1>6. Cardinality(P \cup D) = Cardinality(P) + Cardinality(D) - Cardinality(P \cap D)
  BY <1>5, FS_Union
<1>7. Cardinality(P \cap D) = 0
  BY <1>4, FS_EmptySet
<1>8. Cardinality(P \cup D) = Cardinality(P) + Cardinality(D)
  <2>1. \A p, d \in Nat : p + d - 0 = p + d
    OBVIOUS
  <2> QED
    BY <1>5, <1>6, <1>7, <2>1
<1> QED
  BY <1>3, <1>8

(* The manifest and the events file tell what is in the recordings and in  *)
(* the stream, whenever they are left whole.                               *)
THEOREM ManifestIsFaithful == SidecarSpec => []ManifestFaithful
<1>1. TypeOK /\ FilesInv /\ CountsAgree /\ SidecarInv => ManifestFaithful
  <2> SUFFICES ASSUME TypeOK, FilesInv, CountsAgree, SidecarInv, Whole
               PROVE  ManifestFaithful
    BY DEF ManifestFaithful
  <2>1. manifest = Manifest(rec) /\ eventsFile = EventsFile
    BY DEF SidecarInv, StageInv
  <2>2. pc = "done"
    <3>1. stage # "decode"
      BY DEF Whole, SidecarInv, StageInv, Other
    <3> QED
      BY <3>1 DEF SidecarInv, StageInv
  <2>3. ASSUME NEW r \in Index
        PROVE  /\ Packets(r) # {} => rec[r].file \in {"open", "closed"}
               /\ Packets(r) = {} /\ rec[r].file \in {"open", "closed"} => rec[r].swallowed
               /\ rec[r].count = Cardinality(Packets(r))
    <3>1. /\ Packets(r) \subseteq 1..Len(log) /\ Len(log) \in Nat
          /\ rec[r].count = Cardinality(Packets(r))
      BY IndexFacts DEF Packets, CountsAgree
    <3>2. IsFiniteSet(Packets(r)) /\ Cardinality(Packets(r)) \in Nat
      BY <3>1, Positions
    <3>3. Cardinality(Packets(r)) = 0 <=> Packets(r) = {}
      BY <3>2, FS_EmptySet
    <3>4. /\ rec[r].count > 0 => rec[r].file \in {"open", "closed"}
          /\ rec[r].count = 0 /\ rec[r].file \in {"open", "closed"} => rec[r].swallowed
      BY <2>2, <3>1, <3>2, FilesAtEnd DEF FilesComplete
    <3> QED
      BY <3>1, <3>2, <3>3, <3>4
  <2>4. DOMAIN manifest.recordings = {r \in Index : rec[r].file \in {"open", "closed"}}
    <3>1. DOMAIN manifest.recordings = Listed(rec)
      BY <2>1 DEF Manifest
    <3> QED
      BY <3>1 DEF Listed
  <2>5. ASSUME NEW r \in DOMAIN manifest.recordings,
               NEW m, m = manifest.recordings[r]
        PROVE  /\ rec[r].file \in {"open", "closed"}
               /\ m.chunks = Cardinality(Packets(r))
               /\ Packets(r) = {} => rec[r].swallowed
               /\ Packets(r) # {} =>
                    /\ {m.first, m.last} \subseteq Packets(r)
                    /\ \A i \in Packets(r) :
                         /\ i <= m.last
                         /\ i < m.first => AbsoluteTime(i) = 0
                         /\ AbsoluteTime(i) # 0 => AbsoluteTime(m.first) # 0
    <3>1. r \in Index /\ rec[r].file \in {"open", "closed"}
      BY <2>4
    <3>2. rec[r].count = Cardinality(Packets(r)) /\ (Packets(r) = {} => rec[r].swallowed)
      BY <2>3, <3>1
    <3>3. m.chunks = rec[r].count /\ m.first = span[r].first /\ m.last = span[r].last
      <4>1. r \in Listed(rec)
        BY <3>1 DEF Listed
      <4>2. m = [chunks |-> rec[r].count, opened |-> rec[r].opened, stopped |-> rec[r].stopped,
                 first |-> span[r].first, last |-> span[r].last]
        BY <2>1, <2>5, <4>1 DEF Manifest
      <4> QED
        BY <4>2
    <3>4. SpanFits(Packets(r), span[r])
      BY <3>1 DEF SidecarInv, SpansKept
    <3>5. Packets(r) # {} =>
            /\ span[r].first \in Packets(r) /\ span[r].last \in Packets(r)
            /\ \A i \in Packets(r) :
                 /\ i <= span[r].last
                 /\ i < span[r].first => AbsoluteTime(i) = 0
                 /\ AbsoluteTime(i) # 0 => AbsoluteTime(span[r].first) # 0
      <4> HIDE DEF AbsoluteTime
      <4> QED
        BY <3>4 DEF SpanFits
    <3> QED
      BY <3>1, <3>2, <3>3, <3>5
  <2>6. manifest.audio =
          Cardinality(UNION {Packets(r) : r \in Index})
            + Cardinality({i \in DOMAIN log : log[i].audio = "sealed"
                             \/ (log[i].audio # "none" /\ log[i].rec = None)})
    <3>1. manifest.audio = nAudio
      BY <2>1 DEF Manifest
    <3>2. nAudio = Cardinality({i \in DOMAIN log : log[i].audio # "none"})
      BY DEF SidecarInv, AudioCounted
    <3> QED
      BY <3>1, <3>2, AudioSplits
  <2>7. manifest.events = Len(eventsFile.events) /\ eventsFile.events = events
    BY <2>1 DEF Manifest, EventsFile
  <2>8. \A i \in DOMAIN log :
          /\ log[i].start => Noted("recording_start", i)
          /\ log[i].stop /\ ~log[i].start => Noted("recording_stop", i)
    BY DEF SidecarInv, FlagsNoted
  <2>9. {r \in Index : Packets(r) # {}} \subseteq DOMAIN manifest.recordings
    BY <2>3, <2>4
  <2> HIDE DEF AbsoluteTime
  <2> QED
    BY <2>5, <2>6, <2>7, <2>8, <2>9 DEF ManifestFaithful, Noted
<1>2. SidecarSpec => [](TypeOK /\ FilesInv /\ CountsAgree)
  BY SidecarsOnlyWatch, TypeCorrect, FilesInvariant, CountsAreRight, PTL
<1> QED
  BY <1>1, <1>2, SidecarInvariant, PTL
=============================================================================
