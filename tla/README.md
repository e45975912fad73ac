# Verification of pendant-cli

TLA+ models of `pendant-cli`, a Python client that drains the flash of a BLE
voice recorder ("pendant"), keeps a wire-fidelity capture and decodes it into
one file per recording. All source paths are relative to
`src/src/pendant_client/`.

## The system

| Component | State it keeps | Operations | What makes it correct |
|---|---|---|---|
| **BLE transport** `ble.py` `PendantTransport`, `_Reassembly` | next outgoing index, `_reassembly` by index, subscribers | `send_command`, `_on_data`, `_dispatch`, `__aenter__`, `__aexit__` | messages whole, once, in a task's order; a loss harms its own message only |
| **Session** `session.py` `_request`, `_on_inbound` | `_pending`, `_pending_by_oneof`, `_inbox` | requests, one-way commands, dispatch of what arrives | an answer reaches the request it answers and no other; registrations do not disturb each other |
| **Download** `session.py` `download_raw_pendant_messages` with its consumers `sync` and `capture` | the generator's position, `raw_messages`, the `.bin` | begin, get, yield, ack, stop, write in the `finally` | no page is freed before it was captured, none is lost, every run ends unless messages keep coming |
| **Splitter and writers** `decode.py` `RecordingSplitter`, `cli.py` `_RecordingWriter`, `OggOpusWriter`, `_decode_chunks_into_files` | current writer, explicit and pending start, files | `feed`, `finalize`, `add`, `close`, `unlink_if_empty` | every piece of audio in one recording, recordings separated by their flags, files complete unless closing them failed |
| **BatchIngestRequest files** `decode.py` | a file | write, iterate, metadata | what is written can be read back; replaced completely or not at all |
| **Wire codecs** `ble.py`, `decode.py` | none | varints, fragments | decode inverts encode |
| **Command layer** `cli.py` | `.bin` and key files, exit code | key push, upload, decode, `push`, resets, enrolment, `inspect` | no key or capture destroyed, exit code 0 means both are saved |
| **Manifest** `cli.py` | none | `_write_sync_manifest`, `_event_for` | durations and times that agree with the audio |
| **Flash pages** `flash_page.py`, **crypto** `crypto.py`, **upload** `upload.py`, `proto/`, `scripts/` | none | parsing, key agreement and decryption, one POST | pure conversions |

They interact as follows. `PendantSession.__aenter__` enters the transport and
registers `_on_inbound` as its subscriber. BLE notifications run `_on_data`,
`_dispatch` and `_on_inbound` to the end without an await, and leave a message
with a waiting future or in `_inbox`. The download loop takes messages out of
`_inbox`, yields them to the consumer and acknowledges each flash page by a
cumulative `DeleteFlashPage`, a one-way command through `send_command`. The
consumer keeps the payloads in memory and writes them in its `finally`. `sync`
then decodes the copy in memory: chunks go through the splitter into writers.

What is hard: the interleaving of the download loop with notifications, link
drops, interrupts and process death; the cumulative, unconfirmed ack; several
requests sharing one content fallback; timeouts racing answers; sends
interleaving at each write; flags of a recording in any order; cleanup that
runs twice. `PROJECT.json` lists these hazards at their lines.

## Modules

| Module | Models |
|---|---|
| `PageCustody` | abstract: the pendant frees only pages of which the host holds a copy |
| `Download` | the pendant's flash, the link, one host process at a time, the `.bin` files |
| `Session` | `_request` and `_on_inbound` with concurrent callers |
| `Transport` | `send_command` joined to `_on_data`/`_Reassembly` |
| `MessageLink` | abstract: messages delivered whole, at most once, and in a task's order |
| `Connection` | a command from `__aenter__` over the awaits of its body to `__aexit__` and its exit code |
| `Recordings` | splitter, writers and the loop around them |
| `Sidecars` | the manifest and the events file, on top of `Recordings` |
| `FlashPages` | which chunks a decode gets from captured messages, and what of their audio |
| `Codec` | varints, fragments and `BatchIngestRequest` as functions on bytes |
| `Ingest` | the bytes of a session from command and message to file and back |
| `Commands` | the commands with their files, keys, failures and exit codes, over the life of a pendant |
| `MC*` | small instances of these for TLC |
| `ChannelLemmas` | facts on `Append` and `Tail` the proofs share |
| `DownloadProofs`, `SessionProofs`, `RecordingsProofs`, `CommandsProofs`, `ConnectionProofs`, `TransportProofs`, `IngestProofs` | theorems and proofs; `RecordingsProofs` is also about `Sidecars`, `IngestProofs` also about `Codec` |

### Download

`pc` is the await at which the host stands: `begin` (the begin-batch write),
`get` (`_inbox.get()` under `wait_for`), `ack` (the delete write), `stop` (the
generator's `finally`), `write` (the consumer's `finally`), `exit`
(`__aexit__`). Each action is the code between two awaits. `raw` is
`raw_messages`, `bin` what the `.bin` files hold over all runs, `taken` a history
of everything ever captured.

* `Get` is the queue read, the yield, the consumer's append and the step to
  the ack: there is no await in between. The consumer's body may raise (its
  `click.echo`), which abandons the generator; its `finally` then runs when the
  generator is finalised or, if the loop is closing, not at all: `pc'` is
  `stop` or `write`.
* `BeginBatchDownload` stands outside the generator's `try`: a failure or an
  interrupt there goes to `write`, with or without the command sent.
* `DeleteFlashPage`, `StopBatchDownload` are wrapped in `suppress_disconnect`:
  a write that raises is swallowed. `Interrupt` is the cancellation by the
  first Ctrl+C; a second one inside the synchronous write is covered by `Kill`
  and by the failing `WriteBin`.
* `LinkDrop` does not tell the process. It finds out at its next write, or
  never; queued messages are still captured.
* `WriteBin` writes a temporary file and renames it, so it is all or nothing.
* The firmware is not in the repository. `DeviceRecord`, `DeviceHandle`,
  `NotifyPage` are what the client's code relies on: batch mode streams stored
  pages in ascending order from the oldest, a delete is cumulative, commands
  are handled in order, batch mode ends with the link. They are marked external
  in `PROJECT.json`. Air and inbox are one queue, since handling a notification
  has no await.
* `Faults` selects mishaps: `chatter` (messages that are no pages), `lossy` (an
  undecodable page), `kill`, `write` (the `.bin` write fails), `overwrite` (a
  later run is given the same `-o`). Link drops, failed writes to the pendant
  and interrupts are always possible.

### Session

A caller goes `idle` → `sending` → `sent` → `waiting` → `idle`. `Start` is
`_request` up to its first await; `Written` is the moment the command reaches
the pendant, which may answer before `SendReturns`. `SendRaises` ends the
request without the `finally`, as in the code. A future is named by its
request_id; `fut` is its state (`done()` is true of "done" and "cancelled").
`Inbound` follows `_on_inbound`: by request_id, by content, inbox; popping
both dictionaries as it goes. The pendant (external) answers requests in any
order, may leave out request_id (`noecho`) and may send the same content
unasked (`unsolicited`). The contents stand for the two the code requests,
`device_info` and `device_status`.

### Transport

`SendCommand` takes the index and cuts the payload; `WriteFragment` is one
await of `write_gatt_char`, so sends of several tasks interleave; `WriteRaises`
abandons the rest. `OnData` is the notification handler. A chunk of payload is
its message and its position, which is all that intactness needs to tell
apart. The receiving end in the code is for the other direction of the link;
the two directions share the fragment format (comment at `ble.py:126-136`). What the
pendant does with the fragments sent to it is not in the repository: `ble.py:23-25`
says that it decodes a message with its last sequence number, `_Reassembly` that
of the other direction once all fragments are there. On a link that loses none
the two are the same; where one is lost, `MessagesIntact` and `LossAccounted` speak of
`_Reassembly`.
The fragments of a message carry the same `num_fragments`, as `send_command`
produces them; a sequence number outside the range (a `KeyError` in `add`) is
therefore not in the model. GATT keeps the order of notifications and repeats none.

`MessageLink` says the same without fragments: messages begin, end, are harmed
and delivered. Its `earlier` is what was over when a message began; a message is
delivered only once these are delivered or harmed, and none of these after
it. `Transport` implements it with what it delivered, read as
messages; a delivery that is no whole message has no image.

### Connection

One command at a time, any number of them one after the other. A body is the
sequence of its awaits (`write`, `answer`, `read`, `sleep`, `get`), one entry
per set of options that changes it; `at` is where it stands. Every command that
connects to a pendant is one of them. `Begin` starts a
command, the actions of `Enter` are the awaits of `__aenter__`, those of `Work`
the awaits of the bodies, those of `CleanUp` the ones of `__aexit__` and what `sync` and `enroll-voice` do when
their session is over (`After`: decode and upload); the five
`Cancel` actions are Ctrl+C at any of them. `exc` is the exception in flight:
`cancelled` stands for `CancelledError`, which no `except Exception` and so no
`suppress_disconnect` catches. `ExitCode` is `_user_friendly` together with the
handlers of the two resets. `enroll-voice` returns 2 from `After` for reasons of
its own: nothing captured, nothing decoded, too short, an upload refused.

* `get` is a loop: `MessageArrives` puts something into `inbox`, `Get` takes it out and
  waits again with a new timer, and only silence ends the wait (`IdleTimeout`). Of
  several messages that wait the model keeps one. The consumer of `inspect` raises
  at the first (`cli.py:611`), that of the others may.
* `raised` is what was in flight when `__aexit__` was called. An exception that the
  body's own `finally` replaced, as the stop of `inspect` may, is replaced before
  that: `NotMasked` is about the clean-up of the transport.
* An exception out of `__aenter__` goes to `Abandon`: Python calls no `__aexit__`
  then. `stop_notify` and `disconnect` are `suppress_disconnect`ed, so they end
  normally whatever they do; the link may survive a failed `disconnect`.
* The link belongs to the host's BLE stack and outlives a command that does not
  disconnect. `LinkDrop` takes it away at any time, and nobody tells the process.
* The pendant (external) carries out a write if it is bonded with this host;
  otherwise it refuses a write with response, and ignores one without. A write
  may raise although it arrived. `Answer` comes only to a command that arrived.
  Between two commands the user may change the bond.
* The death of the process is not here: it leaves the link as `CancelEnter` does.

### Codec and Ingest

`Codec` is byte by byte: `_encode_varint` and the two varint readers,
`_encode_fragment` and its decoder with their tags and skipped fields,
`send_command`'s cutting, `_Reassembly`'s joining, `write_batch_ingest_request`,
`iter_messages_from_bin` and `read_batch_ingest_request_metadata`. Loops are
recursive functions; a result carries `raised`. Numbers stay below 2^31 (TLC's
integers), so the limit of a fragment's varint to 64 bits is never reached.

`ContentsAssumption` says that contents are bytes, `NumbersAssumption` that MTUs,
indices and lengths of commands have 31 bits and fragment sizes are positive: an
MTU has 16 bits, an index counts the commands of one session, and a command is a
few hundred bytes. Messages may have any length.

`Ingest` sends a command, captures messages and writes the capture. `Encoded` is
the pendant's encoder (external): all fields, without those that are zero, or
with further fields this client does not know. `WriteCut` leaves any prefix of
the file in `<path>.tmp`; `Replace` is the rename.
`MCIngest` assumes, and TLC evaluates, that reading inverts writing a varint on
both sides of each length it may have (`VarintsInvert`) and that a varint cut
short raises (`VarintsEnd`).

### Recordings

A chunk is its start flag, its stop flag and its audio: `none`, `clear`
(packets) or `sealed` (encrypted, no key: `has_audio` is true, `add` writes
nothing). `StartsAnew` is the test of phase 1 after which no writer is left;
`FeedLazyStart` is the early return; `Take` is phases 2 and 3. `AddFails` is an
exception out of `add`, after which, as after an interrupt or the end of the
stream, `Finish` runs the `finally`: `finalize`, `close` of every writer,
`unlink_if_empty`. `Closed` is `OggOpusWriter.close` with what it swallows: the EOS page
may not be written, or it is written and the flush or the close of the file raises; the
file then stays open and a later `close` writes again. `Pruned` may fail to
remove a file. `swallowed` is a history of such failures, which nothing else
reports. An interrupt between the write of a packet and the count of it, which are
two statements of one synchronous `add`, is not in the model.
`log` is a history of what was fed and which writer took it.

### FlashPages

Operators only: `AudioChunks` is `iter_audio_chunks_from_messages`, `Converted`
what `_convert_audio` and `decrypt_audio` leave of a chunk for splitter and
writers. Whether protobuf can parse a message or a page is given. The chunks of
`Recordings` are those `Converted` yields, all of them (`EveryKindIsYielded` in
`MCSidecars`); the key given, if any, does not change what the splitter sees
(`KeysKeepBounds`), so recordings have the same numbers and bounds in every
decode; and a message that cannot be read takes nothing of its neighbours with it
(`MessagesAreIndependent`).

### Sidecars

`Sidecars` extends `Recordings`, and every step of it is one of `Recordings`
with what is collected beside it: `DecodeChunk` notes the event of a chunk,
feeds it and counts its audio, in this order; `WriteSidecars` ends the `finally`
with the two files; `SidecarsFail` is an exception in writing them. A chunk is
its position in the stream, which stands for its page; `AbsoluteTime` is the
timestamp of its page (`PageTime`, 0 while the pendant's clock is not set) plus its
`Offset` in the page, if positive. So a chunk from before the clock was set may
have a time, which then stays the first one.
`received_at_unix_ms` is 0 throughout, since nothing in the CLI fills it in.
The exception of a stream that failed goes on after the files are written
(`stage` is `raised`). A recording without a packet is listed if removing its file failed. Files an
earlier decode of the same base left are not in the model.

### Commands

One command at a time goes through the stages `connect` (link, device info,
`--key` or the generation and saving of a keypair), `push` (the one-way write
of the public key), `download`, `saved` (past the consumer's `finally` and the
link) and `decode`; `End` is its exit. `Sync`, `Capture` and `Enroll` choose
the options, `DecodeFile` and `PushFile` are the commands without a pendant.
`decode` and `push` exit codes are not modelled; for the others `rc` is 0 or 1
for any failure.

* The download is what `Download` shows of it: `TakePage` captures the oldest
  page not yet captured, and the pendant frees at most what was captured.
  Several chunks of a page are one page here, and a page is encrypted as a whole
  with the key in force when it is recorded.
* `PushKey` leaves open whether the pendant took the key, also when the write
  returned: `set_server_public_key` asks for no answer.
* `SaveKey` and `WriteBin` are the writes of the key file and of the `.bin`;
  `SaveKeyFails` may leave the file there truncated, `WriteBinFails` leaves the old one.
* `Readable` is what `iter_audio_chunks_from_messages` passes on: chunks in
  clear and those the key opens; others yield no audio and no error.
  `Decode` may write any part of them, also when the command then exits with 0: the
  splitter drops the audio of some chunks (`UnmarkedAudioTaken`), and a recording may be
  cut short by a `close` that swallows its failure.
* The pendant (external) starts without encryption, encrypts what it records
  with the last key it took, and forgets it at a reboot, as the comments in
  `session.py` and `crypto.py` say.
* A path is the base of `-o`; two bases that differ only in their suffix would
  share a `.bin` and are taken for one. `decode --key` also asks for the
  pendant's public key in a file, which no command writes; the user is assumed
  to have it. `heard` is what any decode ever wrote to a recording: decoded
  files may be replaced by later decodes of the same base.
* `Habits` selects what may happen: `reuse` (an `-o` used before), `again`
  (another enrollment in the same directory), `kill`, `write`, `server` (an
  upload fails). Failed connections, interrupts, failed pushes and reboots are
  always possible.

## Runs

| Run | Bounds | Shows |
|---|---|---|
| `download_custody` | 3 pages, heartbeats into an inbox of at most 2, any number of runs | no page lost, and `CustodyInv`: no gap, ascending capture, acks behind the capture; `Download` implements `PageCustody` with the copies held now |
| `download_faulty` | 3 pages, heartbeats, kills, failed `.bin` writes, path reuse | freed pages had been captured, `Download` implements `PageCustody` with the copies ever taken, every run ends unless messages keep coming |
| `recordings` | every stream of up to 4 chunks of any kind, three before the clock is set, an error anywhere, closing and removing files may fail | splitting, counts, stop flag, complete files where closing them worked, a manifest and events that agree with them |
| `session` | 2 callers, 2 contents, 3 requests, all faults | registrations survive each other, echoed answers are not missed, no answer used twice, a slot is lost only to its content or its own end |
| `commands` | 3 paths, 2 pages, 2 keypairs, any number of commands, kills and failed writes and uploads | keys outlive what they encrypted, pages end in a `.bin`, what was uploaded or decoded is in one, exit code 0 means that capture and key are saved |
| `transport` | 2 tasks, 3 messages of 1 to 3 fragments | whole, once, losses contained, `Transport` implements `MessageLink` |
| `connection` | every command with a connection, `enroll-voice` included, and every body, any number one after the other | the link is released, the clean-up masks nothing, what exit codes 0 and 2 mean, every command ends unless messages keep coming |
| `ingest` | commands of 4 lengths, indices 1, 127, 128, 4 MTUs, up to 2 messages of 3 lengths cut in 3 sizes by 3 encoders | commands and messages cross byte for byte and fit the MTU, a `.bin` is readable at every moment, a cut-off write leaves a beginning of the capture |

Bounds: three pages are the least with which an ack of one page can cover one
still queued and one still to be recorded. Four chunks hold pre-roll, a
start, audio with the stop flag, and audio of the next recording, in any order. Three requests let a
late answer meet a live request of its kind and one of the other kind.
At most one unsolicited message is sent in a behaviour, enough to meet a slot
or miss it. Three fragments have a middle one to lose. Two
pages and two keypairs give a page in clear and one encrypted, in either order,
two under one key, or each under its own; two paths besides the enrollment's let one command use
the key another saved. `Connection` has no bound: its state is finite as it
is. Of the three chunks before the clock is set the second has an offset and so a
time: a recording may begin without a time, get one from an offset, and go on
after the clock is set. In `ingest`, lengths and indices lie on both sides of 128, where a
varint grows, the MTUs are unknown, below the floor of 150 bytes, just
above it and the largest, and the bytes are ones that would be tags if they were
taken for one. `recordings`, `session`, `transport`, `commands` and `ingest` stop
when their bound is used up or their work is done, so they do not check
deadlock; `Download` and `Connection` never stop.

### Disagreements between code and documentation

Each of these runs checks one property that a comment or a help text states,
and TLC finds the behaviour of the code that contradicts it.

| Run | What is said | What the trace shows |
|---|---|---|
| `download_lossy` | "every PendantAllMsg the pendant sends", "the lossless raw artifact" `cli.py:954`; "the pendant will redeliver the page next sync if it didn't see the ack" `session.py:459` | page 1 is dropped as undecodable, page 2 captured, its ack frees both |
| `recordings_preroll` | pre-roll is merged, `decode.py:248` | start, stop, pre-roll, start, audio: the pre-roll becomes a recording of its own |
| `commands_upload` | "Also POST the captured .bin" `cli.py`, `--upload` | with `--no-decode` the command exits with 0 before the upload |
| `connection_reset` | "Sent factory_reset_pendant. The device will reboot in ~500ms." `cli.py:1392`, exit code 0 | the command could not connect, or its write raised, and says so all the same |

Not counted as disagreements, but worth knowing:

* Messages restart the idle timer, pages or not, so a pendant that keeps sending
  them, drained or not, keeps a run going.
* Exit code 0 does not mean that all was played or uploaded: a failed upload is
  reported and passed over (`cli.py:912-913`), audio that shares its chunk with a start
  flag may be dropped (`decode.py:306-313`), and a recording whose `close` failed
  is listed like any other (`cli.py:183-190`).
* A process that dies before the `finally` takes the pages it acknowledged with it.
* A chunk with a start flag and audio loses the audio when no recording is open.
* A send that raises in `_request` leaves its fallback registered.
* A timed-out request's answer, echoing its id, completes the next request of
  that kind (`session.py:243-247`), which `AnswersNotShared` allows.
* A second `sync --push-key` with the same `-o` overwrites the key of pages
  captured or still stored; a second enrollment in the same directory replaces
  `enroll-voice.bin`, the only copy of freed pages. `KeysSuffice` and `PagesKept`
  leave these habits out.
* An exception in `__aenter__` after `connect()`, and a Ctrl+C in `__aexit__`, leave
  the link connected; `Released` names them.
* `inspect` takes the `(payload, msg)` tuple of `_inbox` for a message and raises
  at the first one (`cli.py:611`).
* A chunk with both flags makes a `recording_start` event only.
* `approx_duration_ms` is three times the playing time (`cli.py:390`), and the
  times of receipt in the manifest are of 1970.
* Files of an earlier decode of the same base with more recordings stay.
* `decode --key` needs the pendant's public key in a file no command writes.

### Fairness

`download_faulty` (`RunEnds`) and `connection` (`CommandEnds`) need it: weak
fairness of the host's own steps. The event loop runs whatever is ready and its
timers fire (`wait_for` bounds every wait of the download loop and of `_request`;
connects, writes and disconnects either return or raise in the BLE stack).
The link and the user need not do anything, and the pendant may fall silent at
any await. It may also keep sending, and then a run does not end: every message
restarts the timer of the download loop (`session.py:448-455`). Both properties say so;
`MessagesKeepComing` is that infinitely many messages arrive, and the properties
hold of all other behaviours. In `Download` that takes heartbeats, since a run
drains the pages there are (a pendant that recorded pages forever would be the
same case); in `Connection` a message is anything that reaches the inbox.

## Proofs

Checked by TLAPS for every value of the constants, from the constants' named
assumptions only.

* `DownloadProofs`. `TypeCorrect`; `CustodyInvariant`: `CustodyInv` is
  invariant for every number of pages and all faults except `lossy`. From it
  follow `FreedPagesWereTaken` and `RefinesCustody`, and, if moreover nothing
  destroys a copy (`Careful`), `NothingLost` and `RefinesDurableCustody`.
  "Freed pages were taken" is not inductive: a delete may be on its way, so
  every delete queued must cover only captured pages (`AckCoversTaken`). For a
  page to be acked safely all stored pages before it must be captured:
  `NoGapInRun` says stored pages below the stream's cursor are captured or
  queued, and `AscendingCapture` that the queue is in order, so what precedes
  the page just captured is not queued any more. These hold only if nothing of
  a previous run leaks into the next: `FreshRun` ties the cursor to the
  begin command, `BelowCursor` and `Ledger` bound what is captured.
* `RecordingsProofs`. `TypeCorrect`; `SplitInvariant` for streams of any length
  and any subset of chunk kinds; `RecordingsAreSeparated` and `AudioIsTaken`
  follow. The strengthening says the current writer is the newest, no stop
  flag lies between its chunks and now, and if a start flag does, the writer is
  explicit and it was the last. `FilesAreComplete` needs of every moment what it
  says of the end (`FilesInv`), of recordings for which nothing was swallowed: the one open
  file is the current writer's and has no EOS page yet, a closed one has its EOS
  page, and only a recording without a packet may be without a file.
  `CountsAreRight` relates a cardinality over the history to a counter: the
  positions of a writer's packets (`Positions`) grow by one with each entry
  (`LogGrows`). `StopFlagsAreTrue` needs `StillCurrent`, since a stop flag may come
  long after the chunk it closes: while only chunks without audio and flags follow
  the last chunk of a recording, its writer stays current.
* `Sidecars`, in the same module. `SidecarsOnlyWatch`: every behaviour with the
  sidecars is one of `Recordings`, so all of the above holds of it as well.
  `ManifestIsFaithful`: `SidecarInv` says that whatever was fed was counted and its
  flags noted, and that the times collected for a recording are those of its
  packets: until one of them has a time other than 0 the first is the latest, then it is
  the first that had one (`SpanFits`).
* `SessionProofs`. `TypeCorrect`; `SessionInvariant` for any callers, contents
  and number of requests, and all faults; `RegistrationsSurvive`,
  `AnswersGivenOnce`, `EchoesReachCallers` and the action property `FallbackKept`
  follow. The
  strengthening: a request belongs to one caller and its future is open or done
  while it is in progress (`Requests`); a message answers one request, echoes
  that one's id or none and has its content (`Answers`); a request not yet
  answered has no message anywhere (`Unanswered`, `NotYetAsked`); a message is
  in one place (`OnePlace`).
* `CommandsProofs`. `TypeCorrect`; `KeysAreKept` without `reuse`: `KeyInv` adds
  to `KeysSuffice` the key the pendant uses now, the one about to be pushed,
  and that a run about to generate one finds no key file at its path.
  `PagesAreKept` without `reuse` and `again`: `FileInv` adds that what a command
  captured is on disk once it is past its `finally`, and that it does not write
  over an earlier capture (`FileInvariant`). `SuccessIsSaved` holds with every habit:
  `RawInv` says that past the `finally` the `.bin` is what was captured, `KeyOfRun` that a
  run past its connection that generated a key holds the one in its key file.
* `ConnectionProofs`. `TypeCorrect`; `LinkIsReleased`, `ExceptionsAreKept`,
  `AdviceIsDue` and `SuccessIsReached`, for any number of commands. The argument is about what is in
  flight: during the clean-up `exc` is what the body ended with; `notpaired` is
  raised only by a write the pendant refused, so the bond stays elsewhere
  until the exit; the other source of exit code 2, `After` of `enroll-voice`, has no
  exception in flight. For exit code 0, `ReachInv` says that while no exception is in
  flight every write the body has passed and that waits for a response has reached
  the pendant, and that at least one has where an answer was awaited.
* `TransportProofs`. `TypeCorrect`; `LinkInvariant` for any tasks, messages and
  fragments and all faults; `MessagesAreIntact` and `LossIsAccounted` follow, and
  `RefinesMessageLink` shows each step to be one of `MessageLink` or unseen.
  That a delivery is whole is not inductive: `_Reassembly` counts fragments, so
  the invariant says that an entry holds chunks of its own message only and
  never all of them (`Entries`), that the fragments of a message are received,
  on the wire and still to be written in ascending order, so that none is
  counted twice (`Ascending`), that each fragment of an unhurt message is in one
  of these places (`Accounted`), that nothing of a delivered one is left
  (`DeliveredIsGone`), and that what was over when a message began is ahead of
  it on the wire (`Ahead`). A part of a message with as many chunks as the
  message is all of it (`PartFacts`).

* `IngestProofs`. `EveryCommandCrosses`, `EveryFragmentFits`, `BinIsReadable` and
  `SalvageIsFaithful`, for any contents within the assumptions of `Ingest`, any
  number of messages and any byte at which a write is cut off. The library's induction
  theorems cannot be used, as they take an operator; so induction is proved for
  sets first: a set of naturals that holds 0 and with each number the next, but
  not m, would map its finite part below m into itself without 0
  (`SetInduction`, `StrongInduction`). `Recursion` is the existence of a function
  that recurs to smaller measures only, which `CHOOSE` in a recursive definition
  needs: smaller numbers in `Varint`, fewer bytes left in `ReadVarint` and
  `FieldsFrom`, which never go back (`ReadVarintIs`, `FieldAtIs`).
  * Reading inverts writing: `VarintReads` for every number, `BytesFieldReads` and
    `VarintFieldReads` for fields. `Yields(s, ...)` says that wherever s stands in
    the data, the decoder goes on behind it as if it began there, and finds these
    values on the way; it adds up over parts behind one another (`YieldsBoth`), so
    that fragments in each style of the encoder (`EncodedReads`) and whole files
    (`BatchReads`) are read as what they mean. Cutting and joining are inverse
    for every payload size (`ChunksJoin`).
  * `OutInv`: the fragments in the characteristic are those of the last
    command, cut for this MTU; `FileInv`: what was captured is what was sent, and
    the `.bin` the whole of it or an older capture; `TmpInv`: the temporary
    file is a beginning of the write in progress, or absent while messages are captured.
  * A file that was cut off agrees with the whole one as far as it reaches
    (`Agrees`). The messages that fit are found as before; of the field the cut is
    in, nothing is found if the cut is in the heading, as a varint that is cut off
    raises (`CutVarint`), and a beginning of its bytes otherwise (`CutField`),
    since a slice past the end is no error.

The invariants `CustodyInv`, `SplitInv`, `SessionInv` and `FileInv` are also
checked by the runs `download_custody`, `recordings`, `session` and `commands`;
parts of theirs that say something by themselves are `NoGapInRun`,
`AscendingCapture` and `AckCoversTaken`, `RecordingsInOrder` and
`OneStartPerRecording`, `SlotMatches`, and `DerivedFromBin`. `KeyInv` and `LinkInv`
serve the proofs alone, as do `FilesInv`, `StillCurrent`, `SidecarInv`, `ReachInv` and those of
`IngestProofs`.

Only model-checked: `RunEnds` and `CommandEnds`, which are liveness properties under
fairness and out of the prover's reach. What `MCSidecars` assumes of `FlashPages` is evaluated
by TLC over all kinds of chunks and short captures; what `MCIngest` assumes of varints
holds for all numbers by `VarintReads` and `CutVarint`. The invariants of the `violation` runs are
false. Proofs about `Codec` and `Ingest` assume numbers of 31 bits, as the models do.

## Not modelled

* `scan`, `find_pendants` and `list_characteristics`: they report and keep no
  state. The exit codes of `decode` and `push`.
* Protobuf parsing by the generated classes, and the statuses of a chunk that are
  passed through (`flash_page.py`).
* Cryptography beyond which key opens which page.
* The upload of voice samples, beyond its failure and exit code.
* Dates, durations and device fields in the manifest: formatting of what
  `Sidecars` models.
* Generated protobuf classes and the script that builds them.

## Plan

1. Abstract specifications: a request table that `Session` implements, a store
   of artefacts for `Commands`.
2. A theorem that `DownloadProofs` and `IngestProofs` join: the pages the pendant
   freed can be read from the bytes of the `.bin`.
3. `Connection` with `Session` and `Transport` in place of its awaits.
