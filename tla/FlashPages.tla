----------------------------- MODULE FlashPages -----------------------------
(***************************************************************************)
(* From captured messages to the chunks a decode is fed with:              *)
(* iter_audio_chunks_from_messages, parse_flash_page and decrypt_audio.    *)
(*                                                                         *)
(* What protobuf makes of a message and of the page in it is given: it     *)
(* parses or not.  Audio is told apart by whether there are bytes, and an  *)
(* encrypted blob also by the key that opens it.                           *)
(***************************************************************************)
EXTENDS Sequences
LOCAL INSTANCE SequencesExt

CONSTANT Key

NoKeys == "no keys"    \* keys = None
Damaged == "damaged"   \* opened by no key: a wrong nonce, tag or ciphertext

\* The two fields for audio in clear, and the encrypted one.
Blob == [key : Key \cup {Damaged}, bytes : BOOLEAN]
NoBlob == [key |-> NoKeys, bytes |-> FALSE]
AudioData ==
  [start : BOOLEAN, stop : BOOLEAN, beam : BOOLEAN, manual : BOOLEAN, encrypted : Blob \cup {NoBlob}]

\* A chunk of a page without audio_data: some other status.
Status == [start |-> FALSE, stop |-> FALSE, beam |-> FALSE, manual |-> FALSE, encrypted |-> NoBlob]

\* An envelope: its content, and its page if it has one.
Ingest == {"UNSPECIFIED", "REAL_TIME", "BATCH", "COMMAND"}
Contents == {"malformed", "other", "storage_buffer"}
Pages(chunks) == {[is |-> p, chunks |-> <<>>] : p \in {"empty", "malformed"}}
                   \cup {[is |-> "page", chunks |-> s] : s \in chunks}

-----------------------------------------------------------------------------
(* Chunks: _convert_audio, AudioPayload.has_audio and decrypt_audio.       *)

InClear(a) == a.beam \/ a.manual
HasAudio(a) == InClear(a) \/ a.encrypted # NoBlob

(* Whether there are Opus bytes to write.  A blob that opens replaces what *)
(* there is in clear, even by nothing; one that does not, leaves it.       *)
Opus(a, keys) ==
  IF a.encrypted # NoBlob /\ keys # NoKeys /\ a.encrypted.key = keys
  THEN a.encrypted.bytes
  ELSE InClear(a)

\* What the splitter and the writers see of a chunk.
Converted(a, keys) ==
  [start |-> a.start, stop |-> a.stop,
   audio |-> IF Opus(a, keys) THEN "clear" ELSE IF HasAudio(a) THEN "sealed" ELSE "none"]

-----------------------------------------------------------------------------
(* Messages: what cannot be parsed is skipped by itself.                   *)

Accepted(m, accept) ==
  /\ m.content = "storage_buffer"
  /\ m.ingest \in accept
  /\ m.page.is = "page"

AudioChunks(messages, keys, accept) ==
  LET Taken(m) == Accepted(m, accept)
      Yielded(m) == [i \in DOMAIN m.page.chunks |-> Converted(m.page.chunks[i], keys)]
      pages == SelectSeq(messages, Taken)
  IN FlattenSeq([i \in DOMAIN pages |-> Yielded(pages[i])])
=============================================================================
