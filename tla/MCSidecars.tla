----------------------------- MODULE MCSidecars -----------------------------
(* A small instance of Sidecars and of the Recordings in it: every stream of *)
(* up to MaxChunks chunks with any combination of flags.  Four chunks hold  *)
(* pre-roll, a start, audio with a stop flag and audio of a second          *)
(* recording, in any order.  The chunks are those FlashPages yields.        *)
EXTENDS Sidecars

\* The clock is set after the third chunk.  The first and the third have no
\* time, the second has one that is an offset only.
PageTimes == <<0, 0, 0, 9>>
Offsets == <<-1, 2, 0, 1>>

Keys == {"k1", "k2"}
Source == INSTANCE FlashPages WITH Key <- Keys

KeysGiven == Keys \cup {Source!NoKeys}
Yielded == {Source!Converted(a, k) : a \in Source!AudioData, k \in KeysGiven}

(* Recordings leaves out no chunk a page can hold, and invents none.        *)
ASSUME EveryKindIsYielded == Yielded = AnyChunk

(* The splitter sees the same flags and audio whatever key is given, none   *)
(* included, so recordings have the same numbers and bounds in any decode.  *)
ASSUME KeysKeepBounds ==
  \A a \in Source!AudioData, k, l \in KeysGiven :
    LET c == Source!Converted(a, k)
        d == Source!Converted(a, l)
    IN c.start = d.start /\ c.stop = d.stop /\ (c.audio = "none" <=> d.audio = "none")

\* Pages with a marker, audio in clear, and audio only k1 opens.
Plain == [Source!Status EXCEPT !.beam = TRUE]
Locked == [Source!Status EXCEPT !.encrypted = [key |-> "k1", bytes |-> TRUE]]
Marker == [Source!Status EXCEPT !.start = TRUE]
Messages ==
  [content : Source!Contents, ingest : Source!Ingest,
   page : Source!Pages({<<Plain>>, <<Marker, Locked>>})]

(* A message that is no page of an accepted kind, or cannot be read, takes  *)
(* nothing of its neighbours with it.                                       *)
ASSUME MessagesAreIndependent ==
  \A m, n \in Messages, k \in KeysGiven :
    LET accept == {"REAL_TIME", "BATCH"}
        Of(s) == Source!AudioChunks(s, k, accept)
    IN /\ Of(<<m, n>>) = Of(<<m>>) \o Of(<<n>>)
       /\ Of(<<m>>) = <<>> <=> m.content # "storage_buffer" \/ m.page.is # "page" \/ m.ingest \notin accept
=============================================================================
