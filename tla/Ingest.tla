------------------------------- MODULE Ingest -------------------------------
(***************************************************************************)
(* The bytes of a session from end to end: commands cut into fragments and *)
(* written to the pendant, messages received in fragments and captured,    *)
(* the capture written to a BatchIngestRequest file and read back.         *)
(*                                                                         *)
(* The write streams into <path>.tmp and may be cut off at any byte, as    *)
(* buffered writes are, by a full disk or the death of the process.        *)
(***************************************************************************)
EXTENDS Codec

CONSTANTS
  Mtu,          \* the MTUs that may be negotiated, 0 for one that is not known
  Command,      \* the commands that may be sent, as bytes
  Index,        \* the indices they may be sent under
  Message,      \* the messages the pendant may send, as bytes
  Size,         \* the payload sizes the pendant may cut them into
  Identifier,   \* the ble_identifiers a capture may be given, as bytes
  MaxMessages   \* bound: messages captured

ASSUME ContentsAssumption ==
  Command \subseteq Seq(Byte) /\ Message \subseteq Seq(Byte) /\ Identifier \subseteq Seq(Byte)
ASSUME NumbersAssumption ==
  Mtu \subseteq Bits31 /\ Index \subseteq Bits31 /\ Size \subseteq Position
    /\ \A c \in Command : Len(c) \in Bits31

Absent == <<-1>>

VARIABLES
  pc,        \* "connect", "session", "write", "ok", "failed"
  mtu,       \* the MTU of the connection
  next,      \* _next_outgoing_index
  command,   \* history: the command sent last
  out,       \* its fragments, as written
  sent,      \* history: the messages the pendant sent
  raw,       \* raw_messages
  ident,     \* the ble_identifier given to the write
  tmp, bin,  \* the files <path>.tmp and <path>
  returned   \* the number of bytes write_batch_ingest_request reported

vars == <<pc, mtu, next, command, out, sent, raw, ident, tmp, bin, returned>>

Init ==
  /\ pc = "connect" /\ mtu = 0 /\ next = 1 /\ command = <<>> /\ out = <<>>
  /\ sent = <<>> /\ raw = <<>> /\ ident = <<>> /\ tmp = Absent /\ returned = 0
  /\ bin \in {Absent} \cup {WriteBatch(<<m>>, <<>>) : m \in Message}

(* The commands up to the i-th have been sent by now.                      *)
Connect(m, i) ==
  /\ pc = "connect"
  /\ pc' = "session" /\ mtu' = m /\ next' = i
  /\ UNCHANGED <<command, out, sent, raw, ident, tmp, bin, returned>>

SendCommand(c) ==
  /\ pc = "session" /\ next \in Index
  /\ next' = next + 1
  /\ command' = c
  /\ out' = Fragments(next, c, FragmentPayload(mtu))
  /\ UNCHANGED <<pc, mtu, sent, raw, ident, tmp, bin, returned>>

\* What was sent is remembered for one step.
ForgetCommand == command' = <<>> /\ out' = <<>>

\* The pendant's encoder may leave out fields that are zero, as proto3 does,
\* and may add fields this client does not know.
Style == {"full", "sparse", "extended"}
Encoded(style, seq, num, payload) ==
  LET Field(tag, n) == IF n = 0 THEN <<>> ELSE <<tag>> \o Varint[n]
  IN CASE style = "full" -> EncodeFragment(0, seq, num, payload)
       [] style = "sparse" ->
            Field(16, seq) \o Field(24, num)
              \o (IF payload = <<>> THEN <<>> ELSE LengthDelimited(34, payload))
       [] style = "extended" ->
            <<40, 1>> \o EncodeFragment(0, seq, num, payload) \o LengthDelimited(50, <<18>>)

(* The pendant sends m in fragments; they are decoded and joined, and the  *)
(* message is captured as it came.                                         *)
Capture(m, size, style) ==
  /\ pc = "session" /\ Len(raw) < MaxMessages
  /\ sent' = Append(sent, m)
  /\ LET chunks == Chunks(m, size)
     IN raw' = Append(raw, Joined([i \in DOMAIN chunks |->
                             Encoded(style, i - 1, Len(chunks), chunks[i])]))
  /\ ForgetCommand
  /\ UNCHANGED <<pc, mtu, next, ident, tmp, bin, returned>>

-----------------------------------------------------------------------------
(* write_batch_ingest_request.                                             *)

(* The temporary file is opened, which empties an older one.               *)
BeginWrite(id) ==
  /\ pc = "session"
  /\ pc' = "write" /\ ident' = id /\ tmp' = <<>>
  /\ ForgetCommand
  /\ UNCHANGED <<mtu, next, sent, raw, bin, returned>>

\* Plausible bug: the messages are streamed into <path> itself.
WriteInPlace ==
  /\ pc = "write"
  /\ pc' = "failed"
  /\ bin' \in Prefixes(WriteBatch(raw, ident))
  /\ UNCHANGED <<mtu, next, command, out, sent, raw, ident, tmp, returned>>

(* The write raises, or the process dies in it or before the rename.       *)
WriteCut ==
  /\ pc = "write"
  /\ pc' = "failed"
  /\ tmp' \in Prefixes(WriteBatch(raw, ident))
  /\ UNCHANGED <<mtu, next, command, out, sent, raw, ident, bin, returned>>

Replace ==
  /\ pc = "write"
  /\ pc' = "ok"
  /\ bin' = WriteBatch(raw, ident) /\ tmp' = Absent
  /\ returned' = TotalWritten(raw, ident)
  /\ UNCHANGED <<mtu, next, command, out, sent, raw, ident>>

Next ==
  \/ \E m \in Mtu, i \in Index : Connect(m, i)
  \/ \E c \in Command : SendCommand(c)
  \/ \E m \in Message, size \in Size, style \in Style : Capture(m, size, style)
  \/ \E id \in Identifier : BeginWrite(id)
  \/ WriteCut \/ Replace

Spec == Init /\ [][Next]_vars

-----------------------------------------------------------------------------
(* Properties.                                                             *)

(* A command comes out of its fragments as it went in, under an index of   *)
(* its own; and no fragment is too long for the negotiated MTU, unless     *)
(* that is below what the floor of 150 bytes assumes.                      *)
CommandsCross ==
  out # <<>> =>
    /\ Joined(out) = command
    /\ \A i \in DOMAIN out : LET f == DecodeFragment(out[i]) IN
         ~f.raised /\ f.index = next - 1 /\ f.seq = i - 1 /\ f.num = Len(out)
FragmentsFit == mtu >= 180 => \A i \in DOMAIN out : Len(out[i]) <= mtu - 3

(* The .bin is readable at every moment.  After a write that returned it   *)
(* holds, byte for byte, the messages the pendant sent, however they were  *)
(* cut and encoded, and its metadata and size agree with them; at any      *)
(* other moment, the capture it held before.                               *)
BinReadable ==
  bin # Absent =>
    LET r == ReadMessages(bin)
        meta == ReadMetadata(bin)
    IN /\ ~r.raised /\ ~meta.raised /\ meta.messages = Len(r.messages)
       /\ IF pc = "ok"
          THEN /\ r.messages = sent /\ meta.ident = ident
               /\ returned = meta.size
          ELSE \E m \in Message : r.messages = <<m>>

(* What a write that was cut off leaves in the temporary file is no more   *)
(* than the beginning of the capture: it reads as its first messages, the  *)
(* last of which may be cut short, or ends in an error.                    *)
SalvageIsPrefix ==
  tmp # Absent =>
    LET got == ReadMessages(tmp).messages
    IN /\ Len(got) <= Len(raw)
       /\ \A i \in 1..(Len(got) - 1) : got[i] = raw[i]
       /\ got # <<>> => IsPrefix(got[Len(got)], raw[Len(got)])
=============================================================================
