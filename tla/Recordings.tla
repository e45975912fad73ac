----------------------------- MODULE Recordings -----------------------------
(***************************************************************************)
(* Decoding a capture into per-recording files: _decode_chunks_into_files  *)
(* feeds a stream of chunks to a RecordingSplitter, which opens a          *)
(* _RecordingWriter (an OggOpusWriter and a file) for each recording.      *)
(*                                                                         *)
(* A chunk is reduced to its two boundary flags and to what there is to    *)
(* write of its audio: nothing, Opus packets ("clear"), or an encrypted    *)
(* blob without a key ("sealed"), which has_audio reports as audio and the *)
(* writer skips.  `log` remembers what was fed and which writer took it.   *)
(***************************************************************************)
EXTENDS Integers, Sequences, FiniteSets

CONSTANTS
  MaxChunks,    \* bound: chunks in the stream
  Chunk         \* the chunks the stream may contain

AnyChunk == [start : BOOLEAN, audio : {"none", "sealed", "clear"}, stop : BOOLEAN]

\* The pattern the comment on the splitter calls typical: markers carry no audio.
MarkerChunk ==
  {c \in AnyChunk : (c.start \/ c.stop => c.audio = "none") /\ ~(c.start /\ c.stop)}

ASSUME StreamAssumption == MaxChunks \in Nat /\ Chunk \subseteq AnyChunk

None == -1
Index == 0..(MaxChunks - 1)

VARIABLES
  pc,         \* "feed", "failed" after an exception out of feed, "done"
  log,        \* the chunks fed, each with the writer that took it
  current,    \* RecordingSplitter._current
  explicit,   \* _current_has_explicit_start
  pending,    \* _pending_start_marker
  next,       \* _next_index
  rec         \* the writers and their files

splitter == <<current, explicit, pending, next>>
vars == <<pc, log, current, explicit, pending, next, rec>>

\* A writer: chunk_count, its two flags, its file and the EOS pages in it.  `swallowed`
\* remembers that closing or removing the file raised, and that nobody was told.
Writer == [count : Nat, opened : BOOLEAN, stopped : BOOLEAN,
           file : {"absent", "open", "closed", "unlinked"}, eos : Nat, swallowed : BOOLEAN]
NoWriter == [count |-> 0, opened |-> FALSE, stopped |-> FALSE,
             file |-> "absent", eos |-> 0, swallowed |-> FALSE]

Entry == [start : BOOLEAN, audio : {"none", "sealed", "clear"}, stop : BOOLEAN,
          rec : Index \cup {None}]

TypeOK ==
  /\ pc \in {"feed", "failed", "done"}
  /\ log \in Seq(Entry) /\ Len(log) <= MaxChunks
  /\ current \in Index \cup {None}
  /\ explicit \in BOOLEAN /\ pending \in BOOLEAN
  /\ next \in 0..Len(log) /\ current < next
  /\ rec \in [Index -> Writer]

Init ==
  /\ pc = "feed" /\ log = <<>>
  /\ current = None /\ explicit = FALSE /\ pending = FALSE /\ next = 0
  /\ rec = [i \in Index |-> NoWriter]

-----------------------------------------------------------------------------
(* _RecordingWriter and OggOpusWriter.                                     *)

Opened(flag) == [NoWriter EXCEPT !.file = "open", !.opened = flag]

\* Plausible bug: a chunk that could not be decrypted is counted.
AddedSealed(w, c) ==
  IF c.audio # "none"
  THEN [w EXCEPT !.count = @ + 1, !.stopped = @ \/ c.stop]
  ELSE w

(* add: a chunk with no packets to write leaves the writer alone.          *)
Added(w, c) ==
  IF c.audio = "clear"
  THEN [w EXCEPT !.count = @ + 1, !.stopped = @ \/ c.stop]
  ELSE w

\* What becomes of a close: it works, or the EOS page or the flush raises.
Close == {"works", "no page", "no flush"}

\* Plausible bug: every close appends an EOS page.
ClosedAgain(w, how) ==
  IF w.file = "open" /\ how # "works"
  THEN [w EXCEPT !.eos = IF w.count > 0 /\ how = "no flush" THEN @ + 1 ELSE @, !.swallowed = TRUE]
  ELSE [w EXCEPT !.eos = IF w.count > 0 THEN @ + 1 ELSE @, !.file = "closed"]

(* close: an EOS page if anything was written, a flush, the close of the   *)
(* file.  An exception in any of them is swallowed: the file stays open,   *)
(* with or without its EOS page, until a later close tries all of it       *)
(* again.  On a closed file the write raises, and is swallowed too.        *)
Closed(w, how) ==
  LET paged == IF w.count > 0 THEN w.eos + 1 ELSE w.eos IN
  CASE w.file # "open" -> w
    [] w.file = "open" /\ how = "works" -> [w EXCEPT !.eos = paged, !.file = "closed"]
    [] w.file = "open" /\ how = "no flush" -> [w EXCEPT !.eos = paged, !.swallowed = TRUE]
    [] OTHER -> [w EXCEPT !.swallowed = TRUE]

(* unlink_if_empty: an OSError is swallowed and the empty file stays.      *)
Pruned(w, removed) ==
  IF w.file \notin {"open", "closed"} \/ w.count > 0 THEN w
  ELSE IF removed THEN [w EXCEPT !.file = "unlinked"] ELSE [w EXCEPT !.swallowed = TRUE]

-----------------------------------------------------------------------------
(* RecordingSplitter.feed.                                                 *)

Feeding == pc = "feed" /\ Len(log) < MaxChunks

Logged(c, r) ==
  log' = Append(log, [start |-> c.start, audio |-> c.audio, stop |-> c.stop, rec |-> r])

\* Plausible bug: a start flag never ends the current recording.
StartsAnewIdle(c) == c.start /\ current = None

(* A start flag begins a new recording unless the current writer is still  *)
(* collecting pre-roll.                                                    *)
StartsAnew(c) == c.start /\ (current = None \/ explicit)

(* The new recording waits for its first audio, and feed returns: the      *)
(* chunk's own audio and stop flag are not looked at.                      *)
FeedLazyStart(c) ==
  /\ Feeding /\ StartsAnew(c)
  /\ \E how \in Close :
       rec' = [i \in Index |-> IF i = current THEN Closed(rec[i], how) ELSE rec[i]]
  /\ current' = None /\ explicit' = FALSE
  /\ pending' = TRUE
  /\ Logged(c, None)
  /\ UNCHANGED <<pc, next>>

\* Plausible bug: the flag is set by add only, never by a lone stop marker.
FinishedUnmarked(w, c, how) == IF c.stop THEN Closed(w, how) ELSE w

(* Phases 2 and 3 with writer r, whose state so far is w: add the audio,   *)
(* then close on a stop flag.                                              *)
Finished(w, c, how) == IF c.stop THEN Closed([w EXCEPT !.stopped = TRUE], how) ELSE w

\* Plausible bug: the stop flag is honoured only on a chunk without audio.
TakeNoStopOnAudio(r, w, exp, c) ==
  LET stops == c.stop /\ c.audio = "none" IN
  /\ \E how \in Close :
       rec' = [rec EXCEPT ![r] =
                 IF stops THEN Finished(Added(w, c), c, how) ELSE Added(w, c)]
  /\ current' = IF stops THEN None ELSE r
  /\ explicit' = IF stops THEN FALSE ELSE exp
  /\ Logged(c, IF c.audio = "none" THEN None ELSE r)

Take(r, w, exp, c) ==
  /\ \E how \in Close : rec' = [rec EXCEPT ![r] = Finished(Added(w, c), c, how)]
  /\ current' = IF c.stop THEN None ELSE r
  /\ explicit' = (~c.stop /\ exp)
  /\ Logged(c, IF c.audio = "none" THEN None ELSE r)

(* There is a current writer: a start flag that does not begin anew turns  *)
(* the pre-roll it holds into an explicit recording.                       *)
FeedCurrent(c) ==
  /\ Feeding /\ ~StartsAnew(c) /\ current # None
  /\ Take(current, [rec[current] EXCEPT !.opened = @ \/ c.start], explicit \/ c.start, c)
  /\ UNCHANGED <<pc, pending, next>>

\* Plausible bug: recording numbers come from a pool of two.
FeedOpenWraps(c) ==
  /\ Feeding /\ ~c.start /\ current = None /\ c.audio # "none"
  /\ Take(next, Opened(pending), pending, c)
  /\ next' = (next + 1) % 2
  /\ pending' = FALSE
  /\ UNCHANGED pc

(* The first audio without a writer opens one.                             *)
FeedOpen(c) ==
  /\ Feeding /\ ~c.start /\ current = None /\ c.audio # "none"
  /\ Take(next, Opened(pending), pending, c)
  /\ next' = next + 1
  /\ pending' = FALSE
  /\ UNCHANGED pc

\* Plausible bug: audio before the first start flag is not recorded.
FeedNothingPreRoll(c) ==
  /\ Feeding /\ ~c.start /\ current = None
  /\ Logged(c, None)
  /\ UNCHANGED <<pc, splitter, rec>>

(* No writer and no audio: a stop flag has nothing to close.               *)
FeedNothing(c) ==
  /\ Feeding /\ ~c.start /\ current = None /\ c.audio = "none"
  /\ Logged(c, None)
  /\ UNCHANGED <<pc, splitter, rec>>

(* The write of a packet raises, out of feed and of the loop.  The chunk   *)
(* is not in the file, nor its stop flag seen.                             *)
AddFails(c) ==
  /\ Feeding /\ ~StartsAnew(c) /\ c.audio = "clear"
  /\ IF current = None
     THEN /\ rec' = [rec EXCEPT ![next] = Opened(pending)]
          /\ current' = next /\ next' = next + 1
          /\ explicit' = pending /\ pending' = FALSE
     ELSE /\ rec' = [rec EXCEPT ![current].opened = @ \/ c.start]
          /\ explicit' = (explicit \/ c.start)
          /\ UNCHANGED <<current, next, pending>>
  /\ Logged([c EXCEPT !.audio = "none", !.stop = FALSE], None)
  /\ pc' = "failed"

(* The finally of _decode_chunks_into_files, at the end of the stream or   *)
(* after an exception or an interrupt: finalize, close every writer, prune *)
(* the empty ones, where any of the three may fail for any writer.         *)
Finish ==
  /\ pc \in {"feed", "failed"}
  /\ pc' = "done"
  /\ \E last \in Close, removed \in BOOLEAN,
         how \in [{i \in Index : rec[i].file = "open"} -> Close] :
       rec' = [i \in Index |->
         LET w == IF i = current THEN Closed(rec[i], last) ELSE rec[i]
         IN Pruned(Closed(w, how[i]), removed)]
  /\ current' = None /\ explicit' = FALSE
  /\ UNCHANGED <<log, pending, next>>

Feed(c) == FeedLazyStart(c) \/ FeedCurrent(c) \/ FeedOpen(c) \/ FeedNothing(c) \/ AddFails(c)

Next == (\E c \in Chunk : Feed(c)) \/ Finish

Spec == Init /\ [][Next]_vars

-----------------------------------------------------------------------------
(* Properties.                                                             *)

(* Audio is dropped only where it shares its chunk with a start flag:      *)
(* every other chunk that has audio is taken by one writer.                *)
UnmarkedAudioTaken ==
  \A i \in DOMAIN log :
    log[i].audio # "none" /\ ~log[i].start => log[i].rec # None

(* Recordings are consecutive stretches of the stream, numbered in order.  *)
RecordingsInOrder ==
  \A i, j \in DOMAIN log :
    i < j /\ log[i].rec # None /\ log[j].rec # None =>
      log[j].rec \in {log[i].rec} \cup {r \in Index : r > log[i].rec}

(* Audio before a stop flag and audio after it are never in one recording. *)
NoRecordingSpansStop ==
  \A i, k, j \in DOMAIN log :
    i <= k /\ k < j /\ log[k].stop /\ log[i].rec # None => log[i].rec # log[j].rec

(* The pre-roll of a recording may precede its start flag, so one start    *)
(* flag can lie between two of its chunks; a second one never does.        *)
OneStartPerRecording ==
  \A i, k, l, j \in DOMAIN log :
    /\ i < k /\ k < l /\ l <= j
    /\ log[k].start /\ log[l].start /\ log[i].rec # None
    => log[i].rec # log[j].rec

(* chunk_count is the number of packets the file was given, each chunk's   *)
(* once, also where add raised: it writes first and counts then.  (A       *)
(* KeyboardInterrupt between these two statements would leave one more     *)
(* packet than count.  That is not modelled.)                              *)
CountsAgree ==
  \A r \in Index :
    rec[r].count = Cardinality({i \in DOMAIN log : log[i].rec = r /\ log[i].audio = "clear"})

(* closed_with_stop_marker says that after the last chunk of the recording *)
(* a stop flag came before anything else was recorded, and is set whenever *)
(* it came before another start flag.                                      *)
LastOf(r, i) == log[i].rec = r /\ \A m \in DOMAIN log : m > i => log[m].rec # r
StopFlagFaithful ==
  \A i \in DOMAIN log :
    LET r == log[i].rec
        QuietUntil(k) == \A m \in (i + 1)..k : log[m].rec = None
        NoStartUntil(k) == \A m \in (i + 1)..k : ~log[m].start
        stops == {k \in DOMAIN log : i <= k /\ log[k].stop /\ QuietUntil(k)}
    IN r # None /\ LastOf(r, i) =>
         /\ rec[r].stopped => stops # {}
         /\ (\E k \in stops : NoStartUntil(k)) => rec[r].stopped

(* When the decode is over, successfully or not, a recording with a packet *)
(* still has its file and another has none, and a file is closed and ends  *)
(* in one EOS page however often it was closed - unless closing or         *)
(* removing it raised.  close and unlink_if_empty say nothing then: the    *)
(* recording is listed like any other, its file may lack the EOS page or   *)
(* have two, and the exit code is that of a success.                       *)
FilesComplete ==
  pc = "done" =>
    \A r \in Index :
      /\ rec[r].count > 0 => rec[r].file \in {"open", "closed"}
      /\ \/ rec[r].swallowed
         \/ rec[r].count > 0 /\ rec[r].file = "closed" /\ rec[r].eos = 1
         \/ rec[r].count = 0 /\ rec[r].file \in {"absent", "unlinked"}

(* The inductive strengthening the proofs use: the current writer is the   *)
(* newest, and what lies between its first chunk and now.                  *)
CurrentNewest ==
  /\ current # None => current = next - 1
  /\ \A i \in DOMAIN log : log[i].rec < next
CurrentUnstopped ==
  \A i, k \in DOMAIN log :
    i <= k /\ log[k].stop /\ log[i].rec # None => log[i].rec # current
CurrentStarts ==
  \A i, k \in DOMAIN log :
    i < k /\ log[k].start /\ log[i].rec # None /\ log[i].rec = current =>
      /\ explicit
      /\ \A l \in DOMAIN log : k < l => ~log[l].start
SplitInv ==
  /\ CurrentNewest /\ CurrentUnstopped /\ CurrentStarts
  /\ UnmarkedAudioTaken /\ RecordingsInOrder
  /\ NoRecordingSpansStop /\ OneStartPerRecording

(* The pre-roll of a recording merges into it: audio that follows a stop   *)
(* flag (or comes first), then a start marker, then audio, with nothing    *)
(* flagged in between, make one recording.                                 *)
AfterStop(i) ==
  \A m \in 1..(i - 1) : log[m].start => \E n \in m..(i - 1) : log[n].stop
PreRollMerged ==
  \A i, k, j \in DOMAIN log :
    /\ i < k /\ k < j
    /\ log[i].audio # "none" /\ AfterStop(i)
    /\ log[k].start
    /\ log[j].audio # "none"
    /\ \A m \in i..j : (log[m].start => m = k) /\ ~log[m].stop
    => log[i].rec = log[j].rec
=============================================================================
