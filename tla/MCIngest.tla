------------------------------ MODULE MCIngest ------------------------------
(* A small instance of Ingest.  Lengths and indices lie on both sides of    *)
(* 128, where a varint grows; contents are bytes that would be tags of a     *)
(* field if they were taken for one.                                        *)
EXTENDS Ingest

Bytes(n, b) == [i \in 1..n |-> b]

Mtus == {0, 23, 185, 498}
Commands == {Bytes(4, 8), Bytes(75, 34), Bytes(156, 34), Bytes(500, 34)}
Indices == {1, 127, 128}
Messages == {<<>>, Bytes(127, 10), Bytes(128, 18)}
Sizes == {60, 127, 150}
Identifiers == {<<>>, Bytes(17, 10)}

Boundaries ==
  (0..300) \cup (16380..16390) \cup (2097150..2097154) \cup {268435455, 268435456, 2147483647}

(* _read_varint inverts _encode_varint and stops behind what it read.       *)
ASSUME VarintsInvert ==
  \A n \in Boundaries :
    ReadVarint(Varint[n] \o <<0>>, 1) =
      [raised |-> FALSE, value |-> n, next |-> Len(Varint[n]) + 1]

\* A varint that is cut off raises.
ASSUME VarintsEnd ==
  \A n \in Boundaries :
    \A k \in 0..(Len(Varint[n]) - 1) : ReadVarint(SubSeq(Varint[n], 1, k), 1).raised
=============================================================================
