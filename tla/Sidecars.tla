------------------------------ MODULE Sidecars ------------------------------
(***************************************************************************)
(* The manifest and the events file written beside the recordings of a     *)
(* decode: what _decode_chunks_into_files and _RecordingWriter.add collect *)
(* while Recordings runs, and the end of the finally that writes it down.  *)
(*                                                                         *)
(* A chunk goes by its position in the stream, which stands for its page.  *)
(* Its time is computed from the page's timestamp, 0 while the pendant's   *)
(* clock is not set, and its offset in the page; the time of receipt is 0  *)
(* throughout, as nothing fills it in.                                     *)
(***************************************************************************)
EXTENDS Recordings

CONSTANTS
  PageTime,  \* absolute_timestamp_ms of the page of each chunk
  Offset     \* time_offset_ms of each chunk

ASSUME TimesAssumption ==
  /\ PageTime \in [1..MaxChunks -> Nat]
  /\ Offset \in [1..MaxChunks -> Int]

VARIABLES
  stage,     \* "decode", "ok" when it has returned, "raised"
  events,    \* the events
  nAudio,    \* n_audio
  span,      \* first and last chunk of the writers, and first_absolute_timestamp_ms
  manifest,  \* <base>.manifest.json
  eventsFile \* <base>.events.json

sidecars == <<stage, events, nAudio, span, manifest, eventsFile>>

\* A file that is not of this decode, not whole, or absent.
Other == [is |-> "other"]

SidecarInit ==
  /\ Init
  /\ stage = "decode" /\ events = <<>> /\ nAudio = 0
  /\ span = [i \in Index |-> [first |-> 0, last |-> 0, time |-> 0]]
  /\ manifest = Other /\ eventsFile = Other

-----------------------------------------------------------------------------
(* The loop over the chunks.                                               *)

\* What _event_for makes of a chunk: one event at most, the start before the stop.
EventOf(c, i) ==
  CASE c.start -> <<[type |-> "recording_start", chunk |-> i]>>
    [] ~c.start /\ c.stop -> <<[type |-> "recording_stop", chunk |-> i]>>
    [] ~c.start /\ ~c.stop /\ c.audio = "none" -> <<[type |-> "status", chunk |-> i]>>
    [] OTHER -> <<>>

\* absolute_chunk_timestamp_ms.
AbsoluteTime(i) == PageTime[i] + (IF Offset[i] > 0 THEN Offset[i] ELSE 0)

\* Plausible bug: each chunk with a timestamp is taken for the first.
SeenLatest(s, i) ==
  [first |-> IF AbsoluteTime(i) # 0 THEN i ELSE s.first, last |-> i, time |-> AbsoluteTime(i)]

(* The fields kept by add: a time of 0 is also the sign that there is no   *)
(* first chunk yet.                                                        *)
Seen(s, i) ==
  IF s.time = 0 THEN [first |-> i, last |-> i, time |-> AbsoluteTime(i)]
                ELSE [first |-> s.first, last |-> i, time |-> s.time]

(* The event is noted before the chunk is fed, and the audio counted after *)
(* it, so a chunk that raises leaves its event and is not counted.         *)
DecodeChunk(c) ==
  /\ stage = "decode"
  /\ Feed(c)
  /\ LET i == Len(log) + 1
         taken == log'[i].rec
     IN /\ events' = events \o EventOf(c, i)
        /\ nAudio' = IF pc' = "feed" /\ c.audio # "none" THEN nAudio + 1 ELSE nAudio
        /\ span' = IF taken # None /\ c.audio = "clear"
                   THEN [span EXCEPT ![taken] = Seen(@, i)] ELSE span
  /\ UNCHANGED <<stage, manifest, eventsFile>>

-----------------------------------------------------------------------------
(* The finally: Finish of Recordings, then _write_sync_manifest.           *)

\* The keys of `recordings` after the pruning.
Listed(writers) == {i \in Index : writers[i].file \in {"open", "closed"}}

Manifest(writers) ==
  [is |-> "new", audio |-> nAudio, events |-> Len(events),
   recordings |->
     [i \in Listed(writers) |->
        [chunks |-> writers[i].count, opened |-> writers[i].opened,
         stopped |-> writers[i].stopped, first |-> span[i].first, last |-> span[i].last]]]

EventsFile == [is |-> "new", events |-> events]

Finally ==
  /\ stage = "decode"
  /\ Finish
  /\ UNCHANGED <<events, nAudio, span>>

(* The loop ended with the stream, or with an exception out of parsing or  *)
(* feeding or an interrupt, which goes on after the files are written.     *)
WriteSidecars ==
  /\ Finally
  /\ manifest' = Manifest(rec') /\ eventsFile' = EventsFile
  /\ stage' \in IF pc = "failed" THEN {"raised"} ELSE {"ok", "raised"}

(* A timestamp out of range raises before anything is written, a write     *)
(* when the file has been truncated; the files after it stay as they are.  *)
SidecarsFail ==
  /\ Finally
  /\ manifest' \in {Other, Manifest(rec')} /\ eventsFile' = Other
  /\ stage' = "raised"

SidecarNext == (\E c \in Chunk : DecodeChunk(c)) \/ WriteSidecars \/ SidecarsFail

SidecarSpec == SidecarInit /\ [][SidecarNext]_<<vars, sidecars>>

-----------------------------------------------------------------------------
(* Properties.                                                             *)

(* A decode that returns leaves a manifest and an events file of its own,  *)
(* and so does one that was broken off, unless writing them failed.  The   *)
(* manifest lists every recording with a packet, and one without only if   *)
(* removing its file failed; it counts the packets and names the last      *)
(* chunk.  As the first it names the first chunk whose time is not 0, so   *)
(* nothing but chunks without a time is passed over - though that time     *)
(* need not come from a clock: before the clock is set, a chunk with an    *)
(* offset in its page has a time, and stays the first.  What it counts as  *)
(* audio beyond the packets came with a start flag or could not be         *)
(* decrypted.  Every flag is in the events, but a stop flag that shares    *)
(* its chunk with a start flag.                                            *)
Packets(r) == {i \in DOMAIN log : log[i].rec = r /\ log[i].audio = "clear"}
Whole == stage = "ok" \/ eventsFile.is = "new"
ManifestFaithful ==
  Whole =>
    /\ {r \in Index : Packets(r) # {}} \subseteq DOMAIN manifest.recordings
    /\ \A r \in DOMAIN manifest.recordings :
         LET m == manifest.recordings[r]
         IN /\ rec[r].file \in {"open", "closed"}
            /\ m.chunks = Cardinality(Packets(r))
            /\ Packets(r) = {} => rec[r].swallowed
            /\ Packets(r) # {} =>
                 /\ {m.first, m.last} \subseteq Packets(r)
                 /\ \A i \in Packets(r) :
                      /\ i <= m.last
                      /\ i < m.first => AbsoluteTime(i) = 0
                      /\ AbsoluteTime(i) # 0 => AbsoluteTime(m.first) # 0
    /\ manifest.audio =
         Cardinality(UNION {Packets(r) : r \in Index})
           + Cardinality({i \in DOMAIN log : log[i].audio = "sealed"
                            \/ (log[i].audio # "none" /\ log[i].rec = None)})
    /\ manifest.events = Len(eventsFile.events)
    /\ \A i \in DOMAIN log :
         LET Noted(t) == \E k \in DOMAIN eventsFile.events :
                          eventsFile.events[k] = [type |-> t, chunk |-> i]
         IN /\ log[i].start => Noted("recording_start")
            /\ log[i].stop /\ ~log[i].start => Noted("recording_stop")
=============================================================================
