------------------------------- MODULE Codec -------------------------------
(***************************************************************************)
(* The hand-written protobuf encoders and decoders of ble.py and decode.py: *)
(* varints, fragments, and BatchIngestRequest files.  Byte strings are     *)
(* sequences over 0..255, positions count from 1.                          *)
(*                                                                         *)
(* An exception is a result with raised = TRUE.  Numbers stay below 2^31,  *)
(* as lengths and indices do.                                              *)
(***************************************************************************)
EXTENDS Integers, SequencesExt

Byte == 0..255
Position == Nat \ {0}
\* The lengths and indices meant here have 31 bits.
Bits31 == {n \in Nat : (((n \div 128) \div 128) \div 128) \div 128 < 8}

\* data[pos:pos + n] in Python: what there is of it.
Slice(data, pos, n) == SubSeq(data, pos, IF pos + n - 1 < Len(data) THEN pos + n - 1 ELSE Len(data))

-----------------------------------------------------------------------------
(* Varints: _varint_encode and _encode_varint, _varint_decode and           *)
(* _read_varint.                                                            *)

Varint[n \in Nat] ==
  IF n > 127 THEN <<128 + (n % 128)>> \o Varint[n \div 128] ELSE <<n>>

NoVarint == [raised |-> TRUE, value |-> 0, next |-> 1]

ReadVarint(data, pos) ==
  LET read[p \in Position] ==
        IF p > Len(data) THEN NoVarint
        ELSE IF data[p] < 128 THEN [raised |-> FALSE, value |-> data[p], next |-> p + 1]
        ELSE [read[p + 1] EXCEPT !.value = data[p] - 128 + 128 * @]
  IN read[pos]

-----------------------------------------------------------------------------
(* The loop the three decoders share: field after field, until the data is  *)
(* used up, with the wire types each of them knows.  A length that runs     *)
(* past the end is not an error.                                            *)

LengthDelimited(tag, bytes) == <<tag>> \o Varint[Len(bytes)] \o bytes

\* The field with this tag and, for a varint or a length, the number behind it.
FieldOf(data, tag, arg) ==
  LET wire == tag.value % 8
  IN [field |-> tag.value \div 8, wire |-> wire,
      raised |-> tag.raised \/ arg.raised,
      value |-> IF wire = 2 THEN Slice(data, arg.next, arg.value) ELSE arg.value,
      next |-> arg.next + (CASE wire = 2 -> arg.value [] wire = 1 -> 8
                             [] wire = 5 -> 4 [] OTHER -> 0)]

FieldBehind(data, tag) ==
  FieldOf(data, tag, IF tag.value % 8 \in {0, 2} THEN ReadVarint(data, tag.next)
                     ELSE [raised |-> FALSE, value |-> 0, next |-> tag.next])

FieldAt(data, pos) == FieldBehind(data, ReadVarint(data, pos))

Broken == [raised |-> TRUE, fields |-> <<>>]

FieldsFrom(data, wires, pos) ==
  LET parse[p \in Position] ==
        LET Then(f) == IF f.raised \/ f.wire \notin wires THEN Broken
                       ELSE [parse[f.next] EXCEPT !.fields = <<f>> \o @]
        IN IF p > Len(data) THEN [raised |-> FALSE, fields |-> <<>>] ELSE Then(FieldAt(data, p))
  IN parse[pos]

Fields(data, wires) == FieldsFrom(data, wires, 1)

\* The values of the fields with this number and wire type, in order.
Values(fields, number, wire) ==
  LET Is(f) == f.field = number /\ f.wire = wire
  IN FlattenSeq([i \in DOMAIN fields |-> IF Is(fields[i]) THEN <<fields[i].value>> ELSE <<>>])

LastOr(values, default) == IF values = <<>> THEN default ELSE values[Len(values)]

-----------------------------------------------------------------------------
(* Fragments: encode_fragment, decode_fragment, the cutting of send_command *)
(* and the joining of _Reassembly.add.                                      *)

EncodeFragment(index, seq, num, payload) ==
  <<8>> \o Varint[index] \o <<16>> \o Varint[seq] \o <<24>> \o Varint[num]
    \o LengthDelimited(34, payload)

\* A field that is left out has its default; of a repeated one the last counts.
DecodeFragment(data) ==
  LET r == Fields(data, {0, 2})
      Number(n) == LastOr(Values(r.fields, n, 0), 0)
  IN [raised |-> r.raised, index |-> Number(1), seq |-> Number(2), num |-> Number(3),
      payload |-> LastOr(Values(r.fields, 4, 2), <<>>)]

\* Plausible bug: the margin for the fragment header is left out.
FragmentPayloadTight(mtu) == IF mtu > 7 THEN IF mtu > 150 THEN mtu ELSE 150 ELSE 470

\* The payload size after negotiation; an MTU that is not known is 0 here.
FragmentPayload(mtu) == IF mtu > 7 THEN IF mtu - 30 > 150 THEN mtu - 30 ELSE 150 ELSE 470

\* Plausible bug: a last chunk that is not full is dropped.
FullChunks(bytes, size) ==
  LET n == IF Len(bytes) < size THEN 1 ELSE Len(bytes) \div size
  IN [i \in 1..n |-> Slice(bytes, (i - 1) * size + 1, size)]

Chunks(bytes, size) ==
  LET n == IF bytes = <<>> THEN 1 ELSE (Len(bytes) - 1) \div size + 1
  IN [i \in 1..n |-> Slice(bytes, (i - 1) * size + 1, size)]

\* Plausible bug: num_fragments is the last sequence number.
FragmentsNumLast(index, bytes, size) ==
  LET chunks == Chunks(bytes, size)
  IN [i \in DOMAIN chunks |-> EncodeFragment(index, i - 1, Len(chunks) - 1, chunks[i])]

\* The fragments of send_command, as written to the characteristic.
Fragments(index, bytes, size) ==
  LET chunks == Chunks(bytes, size)
  IN [i \in DOMAIN chunks |-> EncodeFragment(index, i - 1, Len(chunks), chunks[i])]

\* What a receiver makes of fragments that all arrived.
Joined(frags) ==
  LET parts == [i \in DOMAIN frags |-> DecodeFragment(frags[i])]
      Part(s) == CHOOSE i \in DOMAIN parts : parts[i].seq = s
  IN FlattenSeq([s \in 1..parts[1].num |-> parts[Part(s - 1)].payload])

-----------------------------------------------------------------------------
(* BatchIngestRequest files.                                                *)

\* Plausible bug: the identifier is written under the tag of a message.
WriteBatchOneTag(messages, ident) ==
  FlattenSeq([i \in DOMAIN messages |-> LengthDelimited(10, messages[i])])
    \o (IF ident = <<>> THEN <<>> ELSE LengthDelimited(10, ident))

\* The identifier is left out if there is none.
WriteBatch(messages, ident) ==
  FlattenSeq([i \in DOMAIN messages |-> LengthDelimited(10, messages[i])])
    \o (IF ident = <<>> THEN <<>> ELSE LengthDelimited(18, ident))

\* The count write_batch_ingest_request keeps on the side and returns.
TotalWritten(messages, ident) ==
  LET Field(b) == 1 + Len(Varint[Len(b)]) + Len(b)
      total[n \in 0..Len(messages)] == IF n = 0 THEN 0 ELSE total[n - 1] + Field(messages[n])
  IN total[Len(messages)] + (IF ident = <<>> THEN 0 ELSE Field(ident))

BatchWires == {0, 1, 2, 5}

\* What was yielded before the end or the exception.
ReadMessages(data) ==
  LET r == Fields(data, BatchWires)
  IN [raised |-> r.raised, messages |-> Values(r.fields, 1, 2)]

ReadMetadata(data) ==
  LET r == Fields(data, BatchWires)
  IN [raised |-> r.raised, messages |-> Len(Values(r.fields, 1, 2)),
      ident |-> LastOr(Values(r.fields, 2, 2), <<>>), size |-> Len(data)]
=============================================================================
