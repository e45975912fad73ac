---------------------------- MODULE IngestProofs ----------------------------
(***************************************************************************)
(* Theorems about Codec and Ingest, for any commands, messages, indices,   *)
(* MTUs and fragment sizes within the assumptions of Ingest.               *)
(*                                                                         *)
(* Codec is written in recursive functions.  That such a function is what  *)
(* its definition says follows from Recursion, what it computes for every  *)
(* input by SetInduction or StrongInduction; both rest on the cardinality  *)
(* of finite sets.                                                         *)
(***************************************************************************)
EXTENDS Ingest, FiniteSetTheorems, SequenceTheorems, TLAPS

-----------------------------------------------------------------------------
(* Induction and recursion.                                                *)

\* Induction over the naturals, from the cardinality of a set with no step up out of it.
LEMMA SetInduction ==
  ASSUME NEW T \in SUBSET Nat, 0 \in T, \A n \in T : n + 1 \in T
  PROVE  T = Nat
<1> SUFFICES ASSUME NEW m \in Nat, m \notin T  PROVE FALSE
  OBVIOUS
<1> DEFINE S == T \cap (0..m)
           f == [x \in S |-> x + 1]
<1>1. 0 \in S /\ S \in SUBSET (0..m)  OBVIOUS
<1>2. f \in Injection(S, S \ {0})
  BY DEF Injection, IsInjective
<1> HIDE DEF S, f
<1>3. IsFiniteSet(0..m)  BY FS_Interval
<1>4. IsFiniteSet(S)
  BY <1>1, <1>3, FS_Subset
<1>5. IsFiniteSet(S \ {0}) /\ Cardinality(S \ {0}) = Cardinality(S) - 1
  BY <1>1, <1>4, FS_RemoveElement
<1>6. Cardinality(S) \in Nat
  BY <1>4, FS_CardinalityType
<1>7. Cardinality(S) <= Cardinality(S \ {0})
  BY <1>2, <1>5, FS_Injection
<1> QED  BY <1>5, <1>6, <1>7

\* The same with all smaller numbers as the hypothesis.
LEMMA StrongInduction ==
  ASSUME NEW T \in SUBSET Nat, \A n \in Nat : (\A m \in Nat : m < n => m \in T) => n \in T
  PROVE  T = Nat
<1> DEFINE U == {n \in Nat : \A m \in Nat : m < n => m \in T}
<1>1. 0 \in U  OBVIOUS
<1>2. ASSUME NEW n \in U  PROVE n + 1 \in U
  <2>1. n \in T  OBVIOUS
  <2>2. \A m \in Nat : m < n + 1 => m < n \/ m = n  OBVIOUS
  <2> QED  BY <2>1, <2>2
<1>3. \A n \in U, m \in Nat : m < n => m \in T  OBVIOUS
<1> HIDE DEF U
<1>4. U \in SUBSET Nat  BY DEF U
<1>5. U = Nat  BY <1>1, <1>2, <1>4, SetInduction
<1>6. \A n \in Nat : n + 1 \in Nat /\ n < n + 1  OBVIOUS
<1>7. \A n \in Nat : n \in T  BY <1>3, <1>5, <1>6
<1> QED  BY <1>7

\* G[<<d, g>>] is the value at d, made from values of g at points that are
\* lower by m.
GoesDown(D, V, m, G) ==
  /\ m \in [D -> Nat] /\ G \in [D \X [D -> V] -> V] /\ V # {}
  /\ \A d \in D : \A g, h \in [D -> V] :
       (\A e \in D : m[e] < m[d] => g[e] = h[e]) => G[<<d, g>>] = G[<<d, h>>]
Solves(f, D, V, G) == f \in [D -> V] /\ \A d \in D : f[d] = G[<<d, f>>]

\* A function that recurs to smaller measures only exists.
LEMMA Recursion ==
  ASSUME NEW D, NEW V, NEW m, NEW G, GoesDown(D, V, m, G)
  PROVE  \E f : Solves(f, D, V, G)
<1> USE DEF GoesDown, Solves
<1> PICK v0 \in V : TRUE  OBVIOUS
<1> DEFINE Good(n, g) == \A d \in D : m[d] < n => g[d] = G[<<d, g>>]
           T == {n \in Nat : \E g \in [D -> V] : Good(n, g)}
<1>1. T = Nat
  <2>1. 0 \in T
    <3>1. [d \in D |-> v0] \in [D -> V]  OBVIOUS
    <3>2. \A d \in D : m[d] \in Nat /\ ~(m[d] < 0)  OBVIOUS
    <3> QED  BY <3>1, <3>2
  <2>2. ASSUME NEW n \in T  PROVE n + 1 \in T
    <3> PICK g \in [D -> V] : Good(n, g)  OBVIOUS
    <3> DEFINE h == [d \in D |-> IF m[d] < n THEN g[d] ELSE G[<<d, g>>]]
    <3>1. \A d \in D : <<d, g>> \in D \X [D -> V] /\ G[<<d, g>>] \in V /\ g[d] \in V  OBVIOUS
    <3>2. h \in [D -> V]  BY <3>1
    <3>3. \A d \in D : h[d] = G[<<d, g>>]  OBVIOUS
    <3>4. ASSUME NEW d \in D, m[d] < n + 1  PROVE h[d] = G[<<d, h>>]
      <4>1. \A e \in D : m[e] < m[d] => m[e] < n
        <5>1. \A e \in D : m[e] \in Nat  OBVIOUS
        <5>2. n \in Nat  OBVIOUS
        <5> HIDE DEF h, T, Good
        <5> QED  BY <3>4, <5>1, <5>2
      <4>2. \A e \in D : m[e] < m[d] => g[e] = h[e]  BY <4>1
      <4>3. G[<<d, g>>] = G[<<d, h>>]
        <5> HIDE DEF h
        <5> QED  BY <3>2, <4>2
      <4> QED  BY <3>3, <4>3
    <3>5. Good(n + 1, h)  BY <3>4
    <3>6. n + 1 \in Nat  OBVIOUS
    <3> HIDE DEF h, Good
    <3> QED  BY <3>2, <3>5, <3>6
  <2>3. T \in SUBSET Nat  OBVIOUS
  <2> HIDE DEF T
  <2> QED  BY <2>1, <2>2, <2>3, SetInduction
<1>2. \A n \in Nat : \E g \in [D -> V] : Good(n, g)  BY <1>1
<1> DEFINE U == {n \in Nat : \A d \in D : m[d] = n =>
                   \A j, k \in Nat : \A g, h \in [D -> V] :
                     Good(j, g) /\ Good(k, h) /\ n < j /\ n < k => g[d] = h[d]}
<1>3. U = Nat
  <2>1. ASSUME NEW n \in Nat, \A i \in Nat : i < n => i \in U  PROVE n \in U
    <3> HIDE DEF Good
    <3> SUFFICES ASSUME NEW d \in D, m[d] = n, NEW j \in Nat, NEW k \in Nat,
                        NEW g \in [D -> V], NEW h \in [D -> V],
                        Good(j, g), Good(k, h), n < j, n < k
                 PROVE  g[d] = h[d]
      OBVIOUS
    <3>1. ASSUME NEW e \in D, m[e] < m[d]  PROVE g[e] = h[e]
      <4>1. m[e] \in Nat /\ m[e] < n /\ m[e] < j /\ m[e] < k
        <5>1. m[e] \in Nat  OBVIOUS
        <5> HIDE DEF U, T, Good
        <5> QED  BY <3>1, <5>1
      <4>2. m[e] \in U  BY <2>1, <4>1
      <4> HIDE DEF Good
      <4> QED  BY <4>1, <4>2
    <3>2. G[<<d, g>>] = G[<<d, h>>]  BY <3>1
    <3> QED  BY <3>2 DEF Good
  <2>2. U \in SUBSET Nat  OBVIOUS
  <2> HIDE DEF U
  <2> QED  BY <2>1, <2>2, StrongInduction
<1>4. ASSUME NEW d \in D, NEW j \in Nat, NEW k \in Nat, NEW g \in [D -> V], NEW h \in [D -> V],
             Good(j, g), Good(k, h), m[d] < j, m[d] < k
      PROVE  g[d] = h[d]
  <2>1. m[d] \in U  BY <1>3
  <2> HIDE DEF Good
  <2> QED  BY <1>4, <2>1
<1> DEFINE Sol(n) == CHOOSE g \in [D -> V] : Good(n, g)
           f == [d \in D |-> Sol(m[d] + 1)[d]]
<1>5. \A n \in Nat : Sol(n) \in [D -> V] /\ Good(n, Sol(n))
  <2> HIDE DEF Good
  <2> QED  BY <1>2
<1>6. \A d \in D : m[d] \in Nat /\ m[d] + 1 \in Nat /\ m[d] < m[d] + 1  OBVIOUS
<1>7. f \in [D -> V]
  <2> HIDE DEF Sol
  <2> QED  BY <1>5, <1>6
<1>8. ASSUME NEW d \in D  PROVE f[d] = G[<<d, f>>]
  <2> DEFINE g == Sol(m[d] + 1)
  <2>1. g \in [D -> V] /\ Good(m[d] + 1, g)  BY <1>5, <1>6
  <2>2. f[d] = g[d]  OBVIOUS
  <2>3. ASSUME NEW e \in D, m[e] < m[d]  PROVE g[e] = f[e]
    <3>1. f[e] = Sol(m[e] + 1)[e]
      <4> HIDE DEF Sol
      <4> QED  OBVIOUS
    <3>2. Sol(m[e] + 1) \in [D -> V] /\ Good(m[e] + 1, Sol(m[e] + 1))  BY <1>5, <1>6
    <3>3. m[e] < m[d] + 1 /\ m[e] < m[e] + 1
      <4>1. m[e] \in Nat /\ m[d] \in Nat  OBVIOUS
      <4> HIDE DEF f, g, Sol, U, T, Good
      <4> QED  BY <2>3, <4>1
    <3> DEFINE h == Sol(m[e] + 1)
    <3>4. h \in [D -> V] /\ Good(m[e] + 1, h)  BY <3>2
    <3>5. f[e] = h[e]  BY <3>1
    <3> HIDE DEF Good, g, Sol, f, h, U, T
    <3>6. \A j, k \in Nat : Good(j, g) /\ Good(k, h) /\ m[e] < j /\ m[e] < k => g[e] = h[e]
      BY <1>4, <2>1, <3>4
    <3>7. m[d] + 1 \in Nat /\ m[e] + 1 \in Nat  BY <1>6
    <3>8. g[e] = h[e]  BY <2>1, <3>3, <3>4, <3>6, <3>7
    <3> QED  BY <3>5, <3>8
  <2>4. g[d] = G[<<d, g>>]  BY <1>6, <2>1
  <2> HIDE DEF g, f, Good
  <2> QED  BY <1>7, <2>1, <2>2, <2>3, <2>4
<1> HIDE DEF f
<1> QED  BY <1>7, <1>8

-----------------------------------------------------------------------------
LEMMA Halves ==
  \A n \in Nat :
    /\ n > 127 => n \div 128 \in Nat /\ n \div 128 < n /\ 128 + (n % 128) \in Byte
    /\ 128 + (n % 128) \in Nat /\ ~(128 + (n % 128) < 128)
    /\ n = 128 + (n % 128) - 128 + 128 * (n \div 128)
BY DEF Byte

\* Varint is the function its definition means, and yields bytes.
LEMMA VarintIs ==
  /\ Varint \in [Nat -> Seq(Byte)]
  /\ \A n \in Nat :
       Varint[n] = IF n > 127 THEN <<128 + (n % 128)>> \o Varint[n \div 128] ELSE <<n>>
<1> DEFINE V == Seq(Byte)
           F == [Nat -> V]
           Step(n, g) == IF n > 127 THEN <<128 + (n % 128)>> \o g[n \div 128] ELSE <<n>>
           m == [n \in Nat |-> n]
           G == [x \in Nat \X F |-> Step(x[1], x[2])]
<1>1. \A n \in Nat : \A g \in F : Step(n, g) \in V
  <2> SUFFICES ASSUME NEW n \in Nat, NEW g \in F  PROVE Step(n, g) \in V
    OBVIOUS
  <2>1. CASE n > 127
    <3>1. n \div 128 \in Nat /\ 128 + (n % 128) \in Byte  BY <2>1, Halves
    <3>2. <<128 + (n % 128)>> \in Seq(Byte) /\ g[n \div 128] \in Seq(Byte)  BY <3>1
    <3> QED  BY <2>1, <3>2, ConcatProperties
  <2>2. CASE ~(n > 127)
    <3>1. n \in Byte  BY <2>2 DEF Byte
    <3> QED  BY <2>2, <3>1
  <2> QED  BY <2>1, <2>2
<1>2. m \in [Nat -> Nat] /\ \A n \in Nat : m[n] = n  OBVIOUS
<1>3. <<>> \in V  OBVIOUS
<1>4. G \in [Nat \X F -> V]
  <2> HIDE DEF V, Step, F
  <2> QED  BY <1>1
<1>5. \A n \in Nat : \A g \in F : G[<<n, g>>] = Step(n, g)
  <2> HIDE DEF Step, F
  <2> QED  OBVIOUS
<1>6. ASSUME NEW n \in Nat, NEW g \in F, NEW h \in F,
             \A e \in Nat : m[e] < m[n] => g[e] = h[e]
      PROVE  G[<<n, g>>] = G[<<n, h>>]
  <2>1. n > 127 => n \div 128 \in Nat /\ n \div 128 < n  BY Halves
  <2>2. n > 127 => g[n \div 128] = h[n \div 128]  BY <1>2, <1>6, <2>1
  <2> QED  BY <1>5, <2>2
<1>7. \A n \in Nat : \A g, h \in [Nat -> V] :
        (\A e \in Nat : m[e] < m[n] => g[e] = h[e]) => G[<<n, g>>] = G[<<n, h>>]
  BY <1>6
<1> HIDE DEF V, m, G, Step
<1>8. PICK f \in F : \A n \in Nat : f[n] = G[<<n, f>>]
  <2>1. m \in [Nat -> Nat] /\ G \in [Nat \X [Nat -> V] -> V]  BY <1>2, <1>4
  <2>2. GoesDown(Nat, V, m, G)  BY <1>3, <1>7, <2>1 DEF GoesDown
  <2>3. \E f : Solves(f, Nat, V, G)  BY <2>2, Recursion
  <2> QED  BY <2>3 DEF Solves
<1>9. f = [n \in Nat |-> Step(n, f)]  BY <1>5, <1>8
<1>10. Varint = [n \in Nat |-> Step(n, Varint)]  BY <1>9 DEF Varint, Step
<1>11. \A n \in Nat : Varint[n] = Step(n, Varint)  BY <1>10
<1> DEFINE T == {n \in Nat : Varint[n] \in V}
<1>12. ASSUME NEW n \in Nat, \A k \in Nat : k < n => k \in T  PROVE n \in T
  <2> DEFINE g == [k \in Nat |-> IF Varint[k] \in V THEN Varint[k] ELSE <<>>]
  <2>1. g \in F  BY <1>3
  <2>2. n > 127 => g[n \div 128] = Varint[n \div 128]  BY <1>12, Halves
  <2>3. Step(n, g) = Step(n, Varint)  BY <2>2 DEF Step
  <2>4. Step(n, g) \in V  BY <1>1, <2>1
  <2> QED  BY <1>11, <2>3, <2>4
<1>13. T = Nat
  <2>1. T \in SUBSET Nat  OBVIOUS
  <2> HIDE DEF T
  <2> QED  BY <1>12, <2>1, StrongInduction
<1>14. Varint \in [Nat -> Seq(Byte)]  BY <1>10, <1>13 DEF V
<1> QED  BY <1>11, <1>14 DEF Step

-----------------------------------------------------------------------------
LEMMA VarintGrows ==
  ASSUME NEW n \in Nat, n > 127
  PROVE  n \div 128 \in Nat /\ Len(Varint[n]) = 1 + Len(Varint[n \div 128])
<1>1. n \div 128 \in Nat /\ 128 + (n % 128) \in Byte  BY Halves
<1>2. <<128 + (n % 128)>> \in Seq(Byte) /\ Varint[n \div 128] \in Seq(Byte)
  BY <1>1, VarintIs
<1>3. Varint[n] = <<128 + (n % 128)>> \o Varint[n \div 128]  BY VarintIs
<1>4. Len(<<128 + (n % 128)>>) = 1  OBVIOUS
<1> QED  BY <1>1, <1>2, <1>3, <1>4, ConcatProperties

\* A varint has one byte below 128, and at most five below 2^31.
LEMMA VarintSize ==
  ASSUME NEW n \in Nat
  PROVE  /\ Len(Varint[n]) \in Nat /\ Len(Varint[n]) >= 1
         /\ n < 128 => Len(Varint[n]) = 1
         /\ n \in Bits31 => Len(Varint[n]) <= 5
<1>1. \A k \in Nat : Varint[k] \in Seq(Byte) /\ Len(Varint[k]) \in Nat
  BY VarintIs, LenProperties
<1>2. \A k \in Nat : ~(k > 127) => Len(Varint[k]) = 1
  <2> TAKE k \in Nat
  <2> HAVE ~(k > 127)
  <2>1. Varint[k] = <<k>>  BY VarintIs
  <2> QED  BY <2>1
<1>3. \A k \in Nat : Len(Varint[k]) <= 1 + Len(Varint[k \div 128])
  <2> TAKE k \in Nat
  <2>1. CASE k > 127
    <3>1. Len(Varint[k]) = 1 + Len(Varint[k \div 128])  BY <2>1, VarintGrows
    <3> QED  BY <1>1, <3>1
  <2>2. CASE ~(k > 127)
    <3>1. Len(Varint[k]) = 1 /\ k \div 128 \in Nat  BY <1>2, <2>2
    <3> QED  BY <1>1, <3>1
  <2> QED  BY <2>1, <2>2
<1>4. ASSUME n \in Bits31  PROVE Len(Varint[n]) <= 5
  <2> DEFINE a == n \div 128
             b == a \div 128
             c == b \div 128
             d == c \div 128
  <2>1. a \in Nat  OBVIOUS
  <2>2. b \in Nat  BY <2>1
  <2>3. c \in Nat  BY <2>2
  <2>4. d \in Nat /\ d < 8  BY <1>4, <2>3 DEF Bits31
  <2>5. Len(Varint[n]) <= 1 + Len(Varint[a])  BY <1>3
  <2>6. Len(Varint[a]) <= 1 + Len(Varint[b])  BY <1>3, <2>1
  <2>7. Len(Varint[b]) <= 1 + Len(Varint[c])  BY <1>3, <2>2
  <2>8. Len(Varint[c]) <= 1 + Len(Varint[d])  BY <1>3, <2>3
  <2>9. Len(Varint[d]) = 1  BY <1>2, <2>4
  <2>10. \A p, q, r, s, t \in Nat :
           p <= 1 + q /\ q <= 1 + r /\ r <= 1 + s /\ s <= 1 + t /\ t = 1 => p <= 5
    OBVIOUS
  <2>11. /\ Len(Varint[n]) \in Nat /\ Len(Varint[a]) \in Nat /\ Len(Varint[b]) \in Nat
         /\ Len(Varint[c]) \in Nat /\ Len(Varint[d]) \in Nat
    BY <1>1, <2>1, <2>2, <2>3, <2>4
  <2> HIDE DEF a, b, c, d
  <2> QED  BY <2>5, <2>6, <2>7, <2>8, <2>9, <2>10, <2>11
<1>7. Len(Varint[n]) >= 1
  <2>1. CASE n > 127
    <3>1. n \div 128 \in Nat /\ Len(Varint[n]) = 1 + Len(Varint[n \div 128])
      BY <2>1, VarintGrows
    <3> QED  BY <1>1, <3>1
  <2> QED  BY <1>1, <1>2, <2>1
<1> QED  BY <1>1, <1>2, <1>4, <1>7

-----------------------------------------------------------------------------
(* Bytes behind one another.                                               *)

\* What stands where in two sequences behind one another.
LEMMA Joint ==
  ASSUME NEW S, NEW a \in Seq(S), NEW b \in Seq(S)
  PROVE  /\ a \o b \in Seq(S) /\ Len(a \o b) = Len(a) + Len(b)
         /\ Len(a) \in Nat /\ Len(b) \in Nat
         /\ \A i \in 1..Len(a) : (a \o b)[i] = a[i]
         /\ \A i \in 1..Len(b) : (a \o b)[Len(a) + i] = b[i]
<1>1. Len(a) \in Nat /\ Len(b) \in Nat  BY LenProperties
<1>2. a \o b \in Seq(S) /\ Len(a \o b) = Len(a) + Len(b)  BY ConcatProperties
<1>3. \A i \in 1..(Len(a) + Len(b)) : (a \o b)[i] = IF i <= Len(a) THEN a[i] ELSE b[i - Len(a)]
  BY ConcatProperties
<1>4. ASSUME NEW i \in 1..Len(a)  PROVE (a \o b)[i] = a[i]
  BY <1>1, <1>3
<1>5. ASSUME NEW i \in 1..Len(b)  PROVE (a \o b)[Len(a) + i] = b[i]
  <2>1. Len(a) + i \in 1..(Len(a) + Len(b)) /\ ~(Len(a) + i <= Len(a)) /\ (Len(a) + i) - Len(a) = i
    BY <1>1
  <2> QED  BY <1>3, <2>1
<1> QED  BY <1>1, <1>2, <1>4, <1>5

LEMMA ByteNat == \A b \in Byte : b \in Nat
BY DEF Byte

LEMMA OneByte ==
  ASSUME NEW b \in Byte
  PROVE  <<b>> \in Seq(Byte) /\ Len(<<b>>) = 1 /\ <<b>>[1] = b
OBVIOUS

\* What a Python slice holds, also one that runs past the end.
LEMMA SliceIs ==
  ASSUME NEW S, NEW data \in Seq(S), NEW pos \in Position, NEW n \in Nat
  PROVE  /\ Slice(data, pos, n) \in Seq(S) /\ Len(Slice(data, pos, n)) <= n
         /\ pos + n - 1 <= Len(data) => Len(Slice(data, pos, n)) = n
         /\ pos - 1 <= Len(data) /\ pos + n - 1 > Len(data) =>
              Len(Slice(data, pos, n)) = Len(data) - pos + 1
         /\ \A i \in 1..Len(Slice(data, pos, n)) : Slice(data, pos, n)[i] = data[pos + i - 1]
<1> DEFINE last == IF pos + n - 1 < Len(data) THEN pos + n - 1 ELSE Len(data)
<1>1. Len(data) \in Nat /\ pos \in Nat /\ pos >= 1  BY LenProperties DEF Position
<1>2. last \in Int /\ last <= Len(data) /\ last <= pos + n - 1  BY <1>1
<1>3. Slice(data, pos, n) = SubSeq(data, pos, last)  BY DEF Slice
<1>4. \A i \in pos..last : i \in 1..Len(data)  BY <1>1, <1>2
<1>5. /\ SubSeq(data, pos, last) \in Seq(S)
      /\ Len(SubSeq(data, pos, last)) = IF pos <= last THEN last - pos + 1 ELSE 0
      /\ \A i \in 1..(last - pos + 1) : SubSeq(data, pos, last)[i] = data[pos + i - 1]
  <2> HIDE DEF last
  <2> QED  BY <1>1, <1>2, <1>4, SubSeqProperties
<1>6. \A i \in 1..Len(SubSeq(data, pos, last)) : i \in 1..(last - pos + 1)
  <2> HIDE DEF last
  <2> QED  BY <1>1, <1>2, <1>5
<1>7. Len(SubSeq(data, pos, last)) <= n
      /\ (pos + n - 1 <= Len(data) => Len(SubSeq(data, pos, last)) = n)
  <2>1. pos + n - 1 <= Len(data) => last = pos + n - 1  BY <1>1
  <2> HIDE DEF last
  <2> QED  BY <1>1, <1>2, <1>5, <2>1
<1>8. pos - 1 <= Len(data) /\ pos + n - 1 > Len(data) =>
        Len(SubSeq(data, pos, last)) = Len(data) - pos + 1
  <2>1. pos + n - 1 > Len(data) => last = Len(data)  BY <1>1
  <2> HIDE DEF last
  <2> QED  BY <1>1, <1>2, <1>5, <2>1
<1>9. \A i \in 1..Len(SubSeq(data, pos, last)) : SubSeq(data, pos, last)[i] = data[pos + i - 1]
  BY <1>5, <1>6
<1> HIDE DEF last
<1> QED  BY <1>3, <1>5, <1>7, <1>8, <1>9

-----------------------------------------------------------------------------
LEMMA LengthDelimitedIs ==
  ASSUME NEW tag \in Byte, NEW bytes \in Seq(Byte)
  PROVE  /\ LengthDelimited(tag, bytes) \in Seq(Byte)
         /\ Len(LengthDelimited(tag, bytes)) = 1 + Len(Varint[Len(bytes)]) + Len(bytes)
<1>1. Len(bytes) \in Nat  BY LenProperties
<1>2. Varint[Len(bytes)] \in Seq(Byte)  BY <1>1, VarintIs
<1>3. <<tag>> \o Varint[Len(bytes)] \in Seq(Byte)
      /\ Len(<<tag>> \o Varint[Len(bytes)]) = 1 + Len(Varint[Len(bytes)])
  BY <1>2, Joint, OneByte
<1> QED  BY <1>3, <1>2, Joint DEF LengthDelimited

\* The parts of a fragment, in the order in which they are written.
Heading(tag, n) == <<tag>> \o Varint[n]
LEMMA HeadingIs ==
  ASSUME NEW tag \in Byte, NEW n \in Nat
  PROVE  Heading(tag, n) \in Seq(Byte) /\ Len(Heading(tag, n)) = 1 + Len(Varint[n])
<1>1. Varint[n] \in Seq(Byte)  BY VarintIs
<1> QED  BY <1>1, Joint, OneByte DEF Heading

\* A fragment is three headings and its payload; its length adds up.
LEMMA FragmentParts ==
  ASSUME NEW index \in Nat, NEW seq \in Nat, NEW num \in Nat, NEW payload \in Seq(Byte)
  PROVE  /\ EncodeFragment(index, seq, num, payload) =
              ((Heading(8, index) \o Heading(16, seq)) \o Heading(24, num)) \o LengthDelimited(34, payload)
         /\ EncodeFragment(index, seq, num, payload) \in Seq(Byte)
         /\ Len(EncodeFragment(index, seq, num, payload)) =
              4 + Len(Varint[index]) + Len(Varint[seq]) + Len(Varint[num])
                + Len(Varint[Len(payload)]) + Len(payload)
<1> DEFINE a == Heading(8, index)
           b == Heading(16, seq)
           c == Heading(24, num)
           d == LengthDelimited(34, payload)
<1>1. 8 \in Byte /\ 16 \in Byte /\ 24 \in Byte /\ 34 \in Byte  BY DEF Byte
<1>2. a \in Seq(Byte) /\ b \in Seq(Byte) /\ c \in Seq(Byte) /\ d \in Seq(Byte)
  BY <1>1, HeadingIs, LengthDelimitedIs
<1>3. EncodeFragment(index, seq, num, payload) = ((a \o b) \o c) \o d
  <2> DEFINE i == Varint[index]
             s == Varint[seq]
             n == Varint[num]
  <2>1. i \in Seq(Byte) /\ s \in Seq(Byte) /\ n \in Seq(Byte)  BY VarintIs
  <2>2. <<8>> \in Seq(Byte) /\ <<16>> \in Seq(Byte) /\ <<24>> \in Seq(Byte)  BY <1>1
  <2>3. EncodeFragment(index, seq, num, payload) =
          (((((<<8>> \o i) \o <<16>>) \o s) \o <<24>>) \o n) \o d
    BY DEF EncodeFragment
  <2> HIDE DEF i, s, n, d
  <2>4. ((<<8>> \o i) \o <<16>>) \o s = (<<8>> \o i) \o (<<16>> \o s)
    BY <2>1, <2>2, ConcatAssociative, ConcatProperties
  <2>5. ((((<<8>> \o i) \o (<<16>> \o s)) \o <<24>>) \o n)
          = ((<<8>> \o i) \o (<<16>> \o s)) \o (<<24>> \o n)
    <3> DEFINE x == (<<8>> \o i) \o (<<16>> \o s)
    <3>1. x \in Seq(Byte)  BY <2>1, <2>2, ConcatProperties
    <3> HIDE DEF x
    <3>2. (x \o <<24>>) \o n = x \o (<<24>> \o n)  BY <2>1, <2>2, <3>1, ConcatAssociative
    <3> QED  BY <3>2 DEF x
  <2> QED  BY <2>3, <2>4, <2>5 DEF i, s, n, Heading
<1>4. Len(a) = 1 + Len(Varint[index]) /\ Len(b) = 1 + Len(Varint[seq]) /\ Len(c) = 1 + Len(Varint[num])
      /\ Len(d) = 1 + Len(Varint[Len(payload)]) + Len(payload)
  BY <1>1, HeadingIs, LengthDelimitedIs
<1> HIDE DEF a, b, c, d
<1>5. a \o b \in Seq(Byte) /\ Len(a \o b) = Len(a) + Len(b)  BY <1>2, Joint
<1>6. (a \o b) \o c \in Seq(Byte) /\ Len((a \o b) \o c) = (Len(a) + Len(b)) + Len(c)
  BY <1>2, <1>5, Joint
<1>7. ((a \o b) \o c) \o d \in Seq(Byte)
      /\ Len(((a \o b) \o c) \o d) = ((Len(a) + Len(b)) + Len(c)) + Len(d)
  BY <1>2, <1>6, Joint
<1>8. /\ Len(Varint[index]) \in Nat /\ Len(Varint[seq]) \in Nat /\ Len(Varint[num]) \in Nat
      /\ Len(payload) \in Nat /\ Len(Varint[Len(payload)]) \in Nat
  BY VarintSize, LenProperties
<1>9. ((Len(a) + Len(b)) + Len(c)) + Len(d) =
        4 + Len(Varint[index]) + Len(Varint[seq]) + Len(Varint[num])
          + Len(Varint[Len(payload)]) + Len(payload)
  <2>1. PICK i, s, n, l, p \in Nat : i = Len(Varint[index]) /\ s = Len(Varint[seq]) /\ n = Len(Varint[num])
                                    /\ l = Len(Varint[Len(payload)]) /\ p = Len(payload)
    BY <1>8
  <2>2. (((1 + i) + (1 + s)) + (1 + n)) + (1 + l + p) = 4 + i + s + n + l + p  OBVIOUS
  <2> QED  BY <1>4, <2>1, <2>2
<1> QED  BY <1>3, <1>7, <1>9 DEF a, b, c, d

-----------------------------------------------------------------------------
(* Chunks and fragments.                                                   *)

\* send_command cuts at least one chunk, and no more than there are bytes.
LEMMA ChunkCount ==
  ASSUME NEW bytes \in Seq(Byte), NEW size \in Position
  PROVE  /\ Chunks(bytes, size) \in Seq(Seq(Byte))
         /\ Len(Chunks(bytes, size)) =
              (IF bytes = <<>> THEN 1 ELSE (Len(bytes) - 1) \div size + 1)
         /\ Len(Chunks(bytes, size)) \in Position
         /\ Len(Chunks(bytes, size)) = 1 \/ Len(Chunks(bytes, size)) <= Len(bytes)
         /\ \A i \in 1..Len(Chunks(bytes, size)) :
              Chunks(bytes, size)[i] = Slice(bytes, (i - 1) * size + 1, size)
<1> DEFINE n == IF bytes = <<>> THEN 1 ELSE (Len(bytes) - 1) \div size + 1
<1>1. Len(bytes) \in Nat /\ size \in Nat /\ size >= 1  BY LenProperties DEF Position
<1>2. bytes # <<>> => Len(bytes) >= 1  BY <1>1, EmptySeq
<1>3. \A k \in Nat : k \div size \in Nat /\ k \div size <= k  BY <1>1
<1>4. bytes # <<>> => Len(bytes) - 1 \in Nat  BY <1>1, <1>2
<1>5. n \in Nat /\ n >= 1 /\ (n = 1 \/ n <= Len(bytes))
  <2>1. CASE bytes = <<>>  BY <2>1
  <2>2. CASE bytes # <<>>
    <3>1. (Len(bytes) - 1) \div size \in Nat /\ (Len(bytes) - 1) \div size <= Len(bytes) - 1
      BY <1>3, <1>4, <2>2
    <3> QED  BY <1>1, <2>2, <3>1
  <2> QED  BY <2>1, <2>2
<1>6. Chunks(bytes, size) = [i \in 1..n |-> Slice(bytes, (i - 1) * size + 1, size)]
  BY DEF Chunks
<1> HIDE DEF n
<1>7. ASSUME NEW i \in 1..n  PROVE (i - 1) * size + 1 \in Position
  <2>1. i - 1 \in Nat  BY <1>5
  <2>2. (i - 1) * size \in Nat  BY <1>1, <2>1
  <2> QED  BY <2>2 DEF Position
<1>8. \A i \in 1..n : Slice(bytes, (i - 1) * size + 1, size) \in Seq(Byte)
  BY <1>1, <1>7, SliceIs
<1>9. Chunks(bytes, size) \in [1..n -> Seq(Byte)]  BY <1>6, <1>8
<1>10. Chunks(bytes, size) \in Seq(Seq(Byte)) /\ Len(Chunks(bytes, size)) = n
  BY <1>5, <1>6, <1>8, <1>9
<1>11. Len(Chunks(bytes, size)) \in Position  BY <1>5, <1>10 DEF Position
<1>12. \A i \in 1..Len(Chunks(bytes, size)) :
         Chunks(bytes, size)[i] = Slice(bytes, (i - 1) * size + 1, size)
  BY <1>6, <1>10
<1> QED  BY <1>5, <1>10, <1>11, <1>12 DEF n

\* No chunk is longer than the payload size.
LEMMA ChunkSize ==
  ASSUME NEW bytes \in Seq(Byte), NEW size \in Position, NEW i \in 1..Len(Chunks(bytes, size))
  PROVE  Chunks(bytes, size)[i] \in Seq(Byte) /\ Len(Chunks(bytes, size)[i]) <= size
<1>1. i - 1 \in Nat /\ size \in Nat  BY ChunkCount DEF Position
<1>2. (i - 1) * size \in Nat  BY <1>1
<1>3. (i - 1) * size + 1 \in Position  BY <1>2 DEF Position
<1>4. Chunks(bytes, size)[i] = Slice(bytes, (i - 1) * size + 1, size)  BY ChunkCount
<1> QED  BY <1>1, <1>3, <1>4, SliceIs

LEMMA FragmentsAre ==
  ASSUME NEW index, NEW bytes \in Seq(Byte), NEW size \in Position
  PROVE  /\ DOMAIN Fragments(index, bytes, size) = 1..Len(Chunks(bytes, size))
         /\ \A i \in 1..Len(Chunks(bytes, size)) :
              Fragments(index, bytes, size)[i] =
                EncodeFragment(index, i - 1, Len(Chunks(bytes, size)), Chunks(bytes, size)[i])
<1>1. Chunks(bytes, size) \in Seq(Seq(Byte))  BY ChunkCount
<1>2. DOMAIN Chunks(bytes, size) = 1..Len(Chunks(bytes, size))  BY <1>1, LenProperties
<1> QED  BY <1>2 DEF Fragments

LEMMA Bits31Below ==
  \A n \in Bits31, k \in Nat : k <= n => k \in Bits31
<1>1. \A x, y \in Nat : x <= y => x \div 128 \in Nat /\ y \div 128 \in Nat /\ x \div 128 <= y \div 128
  OBVIOUS
<1> TAKE n \in Bits31, k \in Nat
<1> HAVE k <= n
<1>2. n \in Nat /\ (((n \div 128) \div 128) \div 128) \div 128 < 8  BY DEF Bits31
<1>3. k \div 128 \in Nat /\ n \div 128 \in Nat /\ k \div 128 <= n \div 128  BY <1>1, <1>2
<1>4. /\ (k \div 128) \div 128 \in Nat /\ (n \div 128) \div 128 \in Nat
      /\ (k \div 128) \div 128 <= (n \div 128) \div 128
  BY <1>1, <1>3
<1>5. /\ ((k \div 128) \div 128) \div 128 \in Nat /\ ((n \div 128) \div 128) \div 128 \in Nat
      /\ ((k \div 128) \div 128) \div 128 <= ((n \div 128) \div 128) \div 128
  BY <1>1, <1>4
<1>6. /\ (((k \div 128) \div 128) \div 128) \div 128 \in Nat
      /\ (((n \div 128) \div 128) \div 128) \div 128 \in Nat
      /\ (((k \div 128) \div 128) \div 128) \div 128 <= (((n \div 128) \div 128) \div 128) \div 128
  BY <1>1, <1>5
<1>7. \A x, y \in Nat : x <= y /\ y < 8 => x < 8  OBVIOUS
<1>8. (((k \div 128) \div 128) \div 128) \div 128 < 8  BY <1>2, <1>6, <1>7
<1> QED  BY <1>8 DEF Bits31

(* A fragment fits an MTU the floor of 150 bytes does not exceed, whatever *)
(* command is cut, under whatever index.                                   *)
LEMMA FragmentFits ==
  ASSUME NEW index \in Bits31, NEW bytes \in Seq(Byte), Len(bytes) \in Bits31,
         NEW m \in Bits31, m >= 180,
         NEW i \in DOMAIN Fragments(index, bytes, FragmentPayload(m))
  PROVE  Len(Fragments(index, bytes, FragmentPayload(m))[i]) <= m - 3
<1> DEFINE size == FragmentPayload(m)
           num == Len(Chunks(bytes, size))
           part == Chunks(bytes, size)[i]
<1>1. m \in Nat /\ index \in Nat  BY DEF Bits31
<1>2. size = m - 30 /\ size \in Position /\ size \in Nat
  <2>1. m > 7 /\ (m - 30 > 150 \/ m - 30 = 150)  BY <1>1
  <2>2. size = m - 30  BY <2>1 DEF FragmentPayload
  <2> HIDE DEF size
  <2> QED  BY <1>1, <2>2 DEF Position
<1>3. num \in Nat /\ (num = 1 \/ num <= Len(bytes)) /\ num >= 1
  <2>1. num \in Position /\ (num = 1 \/ num <= Len(bytes))
    <3> HIDE DEF size
    <3> QED  BY <1>2, ChunkCount
  <2> HIDE DEF num
  <2> QED  BY <2>1 DEF Position
<1>4. i \in 1..num /\ Fragments(index, bytes, size)[i] = EncodeFragment(index, i - 1, num, part)
  BY <1>2, FragmentsAre
<1>5. part \in Seq(Byte) /\ Len(part) <= size  BY <1>2, <1>4, ChunkSize
<1> HIDE DEF size, num, part
<1>6. Len(part) \in Nat  BY <1>5, LenProperties
<1>7. Len(part) \in Bits31
  <2>1. Len(part) <= m  BY <1>1, <1>2, <1>5, <1>6
  <2> QED  BY <1>6, <2>1, Bits31Below
<1>8. num \in Bits31
  <2>1. num <= Len(bytes) \/ num <= m  BY <1>1, <1>3
  <2> QED  BY <1>3, <2>1, Bits31Below
<1>9. i - 1 \in Nat /\ i - 1 \in Bits31
  <2>1. i - 1 \in Nat /\ i - 1 <= num  BY <1>3, <1>4
  <2> QED  BY <1>8, <2>1, Bits31Below
<1>10. Len(EncodeFragment(index, i - 1, num, part)) =
         4 + Len(Varint[index]) + Len(Varint[i - 1]) + Len(Varint[num]) + Len(Varint[Len(part)]) + Len(part)
  BY <1>1, <1>3, <1>5, <1>9, FragmentParts
<1>11. /\ Len(Varint[index]) \in Nat /\ Len(Varint[index]) <= 5
       /\ Len(Varint[i - 1]) \in Nat /\ Len(Varint[i - 1]) <= 5
       /\ Len(Varint[num]) \in Nat /\ Len(Varint[num]) <= 5
       /\ Len(Varint[Len(part)]) \in Nat /\ Len(Varint[Len(part)]) <= 5
  BY <1>1, <1>3, <1>6, <1>7, <1>8, <1>9, VarintSize
<1>12. Len(part) <= m - 30  BY <1>2, <1>5
<1>13. PICK a, b, c, d, p \in Nat :
         a = Len(Varint[index]) /\ b = Len(Varint[i - 1]) /\ c = Len(Varint[num])
           /\ d = Len(Varint[Len(part)]) /\ p = Len(part)
  BY <1>6, <1>11
<1>14. a <= 5 /\ b <= 5 /\ c <= 5 /\ d <= 5 /\ p <= m - 30  BY <1>11, <1>12, <1>13
<1>15. 4 + a + b + c + d + p <= m - 3  BY <1>1, <1>14
<1> QED  BY <1>4, <1>10, <1>13, <1>15 DEF size

-----------------------------------------------------------------------------
(* Reading a varint.                                                       *)

Remaining(data) == [p \in Position |-> IF p > Len(data) THEN 0 ELSE Len(data) + 1 - p]

LEMMA RemainingFalls ==
  ASSUME NEW S, NEW data \in Seq(S)
  PROVE  /\ Remaining(data) \in [Position -> Nat]
         /\ \A p, q \in Position : p <= Len(data) /\ p < q => Remaining(data)[q] < Remaining(data)[p]
BY LenProperties DEF Remaining, Position

VarintRead == [raised : BOOLEAN, value : Nat, next : Position]

\* One step of the varint readers; they never go back.
LEMMA ReadVarintIs ==
  ASSUME NEW data \in Seq(Byte)
  PROVE  \A p \in Position :
           /\ ReadVarint(data, p) \in VarintRead
           /\ ~ReadVarint(data, p).raised => ReadVarint(data, p).next > p
           /\ p > Len(data) => ReadVarint(data, p) = NoVarint
           /\ p <= Len(data) => p + 1 \in Position /\ data[p] \in Byte
           /\ p <= Len(data) /\ data[p] < 128 =>
                ReadVarint(data, p) = [raised |-> FALSE, value |-> data[p], next |-> p + 1]
           /\ p <= Len(data) /\ ~(data[p] < 128) =>
                ReadVarint(data, p) =
                  [ReadVarint(data, p + 1) EXCEPT !.value = data[p] - 128 + 128 * @]
<1> DEFINE V == VarintRead
           D == Position
           F == [D -> V]
           Step(p, g) == IF p > Len(data) THEN NoVarint
                         ELSE IF data[p] < 128 THEN [raised |-> FALSE, value |-> data[p], next |-> p + 1]
                         ELSE [g[p + 1] EXCEPT !.value = data[p] - 128 + 128 * @]
           m == Remaining(data)
           G == [x \in D \X F |-> Step(x[1], x[2])]
<1>1. \A p \in D : /\ p \in Nat /\ p + 1 \in D /\ p < p + 1 /\ Len(data) \in Nat
                   /\ ~(p > Len(data)) => p <= Len(data) /\ data[p] \in Byte
  BY LenProperties, ElementOfSeq DEF Position
<1>2. NoVarint \in V  BY DEF NoVarint, VarintRead, Position
<1>3. \A p \in D, r \in V : ~(p > Len(data)) =>
        /\ [raised |-> FALSE, value |-> data[p], next |-> p + 1] \in V
        /\ ~(data[p] < 128) => [r EXCEPT !.value = data[p] - 128 + 128 * @] \in V
  <2> TAKE p \in D, r \in V
  <2> HAVE ~(p > Len(data))
  <2>1. data[p] \in Byte /\ p + 1 \in Position  BY <1>1
  <2>3. data[p] \in Nat  BY <2>1, ByteNat
  <2>2. ~(data[p] < 128) => data[p] - 128 + 128 * r.value \in Nat  BY <2>3 DEF VarintRead
  <2> QED  BY <2>1, <2>3, <2>2 DEF VarintRead
<1>4. \A p \in D : \A g \in F : Step(p, g) \in V
  <2> HIDE DEF V, D
  <2> QED  BY <1>1, <1>2, <1>3
<1>5. \A p \in D : \A g \in F : G[<<p, g>>] = Step(p, g)
  <2> HIDE DEF Step, F
  <2> QED  OBVIOUS
<1>6. G \in [D \X F -> V]
  <2> HIDE DEF V, Step, F
  <2> QED  BY <1>4
<1>7. m \in [D -> Nat] /\ \A p \in D : ~(p > Len(data)) => m[p + 1] < m[p]
  BY <1>1, RemainingFalls
<1>8. \A p \in D : \A g, h : (~(p > Len(data)) => g[p + 1] = h[p + 1]) => Step(p, g) = Step(p, h)
  OBVIOUS
<1>9. \A p \in D : \A g, h \in [D -> V] :
        (\A e \in D : m[e] < m[p] => g[e] = h[e]) => G[<<p, g>>] = G[<<p, h>>]
  <2> HIDE DEF m, G, Step, V, D
  <2> TAKE p \in D
  <2> TAKE g, h \in [D -> V]
  <2> HAVE \A e \in D : m[e] < m[p] => g[e] = h[e]
  <2>1. ~(p > Len(data)) => g[p + 1] = h[p + 1]  BY <1>1, <1>7
  <2>2. Step(p, g) = Step(p, h)  BY <1>8, <2>1
  <2> QED  BY <1>5, <2>2
<1> HIDE DEF V, m, G, Step, D
<1>10. PICK f : Solves(f, D, V, G)
  <2>1. GoesDown(D, V, m, G)  BY <1>2, <1>6, <1>7, <1>9 DEF GoesDown
  <2> QED  BY <2>1, Recursion
<1>11. f = [p \in D |-> Step(p, f)]  BY <1>5, <1>10 DEF Solves
<1> DEFINE read == CHOOSE g : g = [p \in D |-> Step(p, g)]
<1>12. read = [p \in D |-> Step(p, read)]  BY <1>11
<1>13. \A p : ReadVarint(data, p) = read[p]  BY DEF ReadVarint, Step, D
<1> HIDE DEF read
<1>14. \A p \in D : read[p] = Step(p, read)  BY <1>12
<1> DEFINE T == {n \in Nat : \A p \in D : m[p] = n =>
                   read[p] \in V /\ (~read[p].raised => read[p].next > p)}
<1>15. ASSUME NEW n \in Nat, \A k \in Nat : k < n => k \in T  PROVE n \in T
  <2> SUFFICES ASSUME NEW p \in D, m[p] = n
               PROVE  read[p] \in V /\ (~read[p].raised => read[p].next > p)
    OBVIOUS
  <2>1. CASE p > Len(data)
    <3>1. read[p] = NoVarint  BY <1>14, <2>1 DEF Step
    <3> QED  BY <1>2, <3>1 DEF NoVarint
  <2>2. CASE ~(p > Len(data)) /\ data[p] < 128
    <3>1. read[p] = [raised |-> FALSE, value |-> data[p], next |-> p + 1]  BY <1>14, <2>2 DEF Step
    <3>2. read[p].next = p + 1  BY <3>1
    <3>3. V # {}  BY <1>2
    <3> QED  BY <1>1, <1>2, <1>3, <2>2, <3>1, <3>2
  <2>3. CASE ~(p > Len(data)) /\ ~(data[p] < 128)
    <3> DEFINE r == read[p + 1]
    <3>1. m[p + 1] \in Nat /\ m[p + 1] < n /\ p + 1 \in D  BY <1>1, <1>7, <2>3
    <3>2. r \in V /\ (~r.raised => r.next > p + 1)  BY <1>15, <3>1
    <3> HIDE DEF r
    <3>3. read[p] = [r EXCEPT !.value = data[p] - 128 + 128 * @]  BY <1>14, <2>3 DEF Step, r
    <3>4. read[p] \in V
      <4>1. [r EXCEPT !.value = data[p] - 128 + 128 * @] \in V  BY <1>3, <2>3, <3>2
      <4> QED  BY <3>3, <4>1, Zenon
    <3>5. read[p].raised = r.raised /\ read[p].next = r.next
      <4>1. \A x \in VarintRead : \A n2 : LET y == [x EXCEPT !.value = n2]
                                     IN y.raised = x.raised /\ y.next = x.next
        BY DEF VarintRead
      <4> QED  BY <3>2, <3>3, <4>1 DEF V
    <3>6. r.next \in Nat  BY <3>2 DEF V, VarintRead, Position
    <3> QED  BY <1>1, <3>2, <3>4, <3>5, <3>6
  <2> QED  BY <2>1, <2>2, <2>3
<1>16. T = Nat
  <2>1. T \in SUBSET Nat  OBVIOUS
  <2> HIDE DEF T
  <2> QED  BY <1>15, <2>1, StrongInduction
<1>17. \A p \in D : read[p] \in V /\ (~read[p].raised => read[p].next > p)
  <2> TAKE p \in D
  <2>1. m[p] \in T  BY <1>7, <1>16
  <2> QED  BY <2>1
<1> HIDE DEF T
<1>18. \A p \in D : p > Len(data) => read[p] = NoVarint
  BY <1>14 DEF Step
<1>19. \A p \in D : p <= Len(data) => ~(p > Len(data)) /\ p + 1 \in D /\ data[p] \in Byte
  BY <1>1
<1>20. \A p \in D : p <= Len(data) /\ data[p] < 128 =>
         read[p] = [raised |-> FALSE, value |-> data[p], next |-> p + 1]
  BY <1>14, <1>19 DEF Step
<1>21. ASSUME NEW p \in D, p <= Len(data), ~(data[p] < 128)
       PROVE  read[p] = [read[p + 1] EXCEPT !.value = data[p] - 128 + 128 * @]
  <2>1. read[p] = Step(p, read) /\ ~(p > Len(data))  BY <1>14, <1>19, <1>21
  <2> QED  BY <1>21, <2>1 DEF Step
<1>22. \A p \in Position :
         /\ ReadVarint(data, p) \in VarintRead
         /\ ~ReadVarint(data, p).raised => ReadVarint(data, p).next > p
         /\ p > Len(data) => ReadVarint(data, p) = NoVarint
         /\ p <= Len(data) => p + 1 \in Position /\ data[p] \in Byte
         /\ p <= Len(data) /\ data[p] < 128 =>
              ReadVarint(data, p) = [raised |-> FALSE, value |-> data[p], next |-> p + 1]
  BY <1>13, <1>17, <1>18, <1>19, <1>20 DEF V, D
<1>23. \A p \in Position : p <= Len(data) /\ ~(data[p] < 128) =>
         ReadVarint(data, p) = [ReadVarint(data, p + 1) EXCEPT !.value = data[p] - 128 + 128 * @]
  BY <1>13, <1>21, Zenon DEF D
<1> QED  BY <1>22, <1>23, Zenon

-----------------------------------------------------------------------------
(* What is written can be read: data holds s from pos on.                  *)

Holds(data, pos, s) ==
  pos + Len(s) - 1 <= Len(data) /\ \A i \in 1..Len(s) : data[pos + i - 1] = s[i]

\* Two byte strings stand in the data if the second stands behind the first.
LEMMA HoldsParts ==
  ASSUME NEW S, NEW data \in Seq(S), NEW pos \in Position, NEW a \in Seq(S), NEW b \in Seq(S)
  PROVE  /\ pos + Len(a) \in Position
         /\ Holds(data, pos, a \o b) <=> Holds(data, pos, a) /\ Holds(data, pos + Len(a), b)
<1>1. Len(a) \in Nat /\ Len(b) \in Nat /\ Len(data) \in Nat /\ pos \in Nat /\ pos >= 1
  BY LenProperties DEF Position
<1>2. /\ Len(a \o b) = Len(a) + Len(b)
      /\ \A i \in 1..Len(a) : (a \o b)[i] = a[i]
      /\ \A i \in 1..Len(b) : (a \o b)[Len(a) + i] = b[i]
  BY Joint
<1>3. ASSUME Holds(data, pos, a \o b)
      PROVE  Holds(data, pos, a) /\ Holds(data, pos + Len(a), b)
  <2>1. pos + (Len(a) + Len(b)) - 1 <= Len(data)  BY <1>2, <1>3 DEF Holds
  <2>2. pos + Len(a) - 1 <= Len(data) /\ (pos + Len(a)) + Len(b) - 1 <= Len(data)
    BY <1>1, <2>1
  <2>3. ASSUME NEW i \in 1..Len(a)  PROVE data[pos + i - 1] = a[i]
    <3>1. i \in 1..(Len(a) + Len(b))  BY <1>1
    <3> QED  BY <1>2, <1>3, <3>1 DEF Holds
  <2>4. ASSUME NEW i \in 1..Len(b)  PROVE data[(pos + Len(a)) + i - 1] = b[i]
    <3>1. Len(a) + i \in 1..(Len(a) + Len(b)) /\ pos + (Len(a) + i) - 1 = (pos + Len(a)) + i - 1
      BY <1>1
    <3>2. data[pos + (Len(a) + i) - 1] = (a \o b)[Len(a) + i]  BY <1>2, <1>3, <3>1 DEF Holds
    <3> QED  BY <1>2, <3>1, <3>2
  <2> QED  BY <2>2, <2>3, <2>4 DEF Holds
<1>4. ASSUME Holds(data, pos, a), Holds(data, pos + Len(a), b)
      PROVE  Holds(data, pos, a \o b)
  <2>1. (pos + Len(a)) + Len(b) - 1 <= Len(data)  BY <1>4 DEF Holds
  <2>2. pos + (Len(a) + Len(b)) - 1 <= Len(data)  BY <1>1, <2>1
  <2>3. ASSUME NEW i \in 1..(Len(a) + Len(b))  PROVE data[pos + i - 1] = (a \o b)[i]
    <3>1. CASE i <= Len(a)
      <4>1. i \in 1..Len(a)  BY <1>1, <3>1
      <4> QED  BY <1>2, <1>4, <4>1 DEF Holds
    <3>2. CASE ~(i <= Len(a))
      <4> DEFINE j == i - Len(a)
      <4>1. j \in 1..Len(b) /\ Len(a) + j = i /\ (pos + Len(a)) + j - 1 = pos + i - 1
        BY <1>1, <3>2
      <4> HIDE DEF j
      <4>2. data[(pos + Len(a)) + j - 1] = b[j]  BY <1>4, <4>1 DEF Holds
      <4>3. (a \o b)[Len(a) + j] = b[j]  BY <1>2, <4>1
      <4> QED  BY <4>1, <4>2, <4>3
    <3> QED  BY <3>1, <3>2
  <2> QED  BY <1>2, <2>2, <2>3 DEF Holds
<1>5. pos + Len(a) \in Position  BY <1>1 DEF Position
<1> QED  BY <1>3, <1>4, <1>5

LEMMA HoldsWhole ==
  ASSUME NEW S, NEW data \in Seq(S)
  PROVE  Holds(data, 1, data)
<1>1. Len(data) \in Nat  BY LenProperties
<1>2. \A i \in 1..Len(data) : 1 + i - 1 = i  OBVIOUS
<1> QED  BY <1>1, <1>2 DEF Holds

LEMMA HoldsSlice ==
  ASSUME NEW S, NEW data \in Seq(S), NEW pos \in Position, NEW s \in Seq(S), Holds(data, pos, s)
  PROVE  Slice(data, pos, Len(s)) = s
<1>1. Len(s) \in Nat  BY LenProperties
<1>2. pos + Len(s) - 1 <= Len(data) /\ \A i \in 1..Len(s) : data[pos + i - 1] = s[i]  BY DEF Holds
<1>3. /\ Slice(data, pos, Len(s)) \in Seq(S) /\ Len(Slice(data, pos, Len(s))) = Len(s)
      /\ \A i \in 1..Len(s) : Slice(data, pos, Len(s))[i] = data[pos + i - 1]
  BY <1>1, <1>2, SliceIs
<1> QED  BY <1>2, <1>3, SeqEqual

\* Every varint that was written is read as the number it was.
LEMMA VarintReads ==
  ASSUME NEW data \in Seq(Byte), NEW n \in Nat, NEW pos \in Position, Holds(data, pos, Varint[n])
  PROVE  ReadVarint(data, pos) = [raised |-> FALSE, value |-> n, next |-> pos + Len(Varint[n])]
<1> DEFINE T == {k \in Nat : \A p \in Position : Holds(data, p, Varint[k]) =>
                   ReadVarint(data, p) = [raised |-> FALSE, value |-> k, next |-> p + Len(Varint[k])]}
<1>1. ASSUME NEW k \in Nat, \A j \in Nat : j < k => j \in T  PROVE k \in T
  <2> SUFFICES ASSUME NEW p \in Position, Holds(data, p, Varint[k])
               PROVE  ReadVarint(data, p) = [raised |-> FALSE, value |-> k, next |-> p + Len(Varint[k])]
    OBVIOUS
  <2>1. p \in Nat /\ p >= 1 /\ Len(data) \in Nat  BY LenProperties DEF Position
  <2>2. CASE k > 127
    <3> DEFINE j == k \div 128
               b == 128 + (k % 128)
    <3>1. j \in Nat /\ j < k /\ b \in Byte /\ b \in Nat  BY <2>2, Halves, Zenon
    <3>2. Varint[k] = <<b>> \o Varint[j] /\ Varint[j] \in Seq(Byte)  BY <2>2, <3>1, VarintIs
    <3>3. k = b - 128 + 128 * j /\ ~(b < 128)  BY Halves
    <3> HIDE DEF j, b
    <3>4. <<b>> \in Seq(Byte) /\ Len(<<b>>) = 1 /\ <<b>>[1] = b  BY <3>1, OneByte
    <3>5. Holds(data, p, <<b>>) /\ Holds(data, p + 1, Varint[j]) /\ p + 1 \in Position
      BY <3>2, <3>4, HoldsParts
    <3>6. p <= Len(data) /\ data[p] = b
      <4>1. p + 1 - 1 <= Len(data) /\ data[p + 1 - 1] = <<b>>[1]  BY <3>4, <3>5 DEF Holds
      <4>2. p + 1 - 1 = p  BY <2>1
      <4> QED  BY <3>4, <4>1, <4>2
    <3>7. Len(Varint[j]) \in Nat /\ Len(Varint[k]) = 1 + Len(Varint[j])  BY <3>2, <3>4, Joint
    <3> DEFINE r == [raised |-> FALSE, value |-> j, next |-> (p + 1) + Len(Varint[j])]
    <3>8. ReadVarint(data, p + 1) = r  BY <1>1, <3>1, <3>5
    <3>9. ReadVarint(data, p) = [r EXCEPT !.value = b - 128 + 128 * @]
      <4>1. ReadVarint(data, p) = [ReadVarint(data, p + 1) EXCEPT !.value = data[p] - 128 + 128 * @]
        BY <3>3, <3>6, ReadVarintIs
      <4> QED  BY <3>6, <3>8, <4>1
    <3>10. \A x, y, z \in Nat : x = 1 + y => (z + 1) + y = z + x  OBVIOUS
    <3>11. (p + 1) + Len(Varint[j]) = p + Len(Varint[k])
      <4>1. Len(Varint[k]) \in Nat  BY VarintSize
      <4> QED  BY <2>1, <3>7, <3>10, <4>1, Zenon
    <3> QED  BY <3>3, <3>9, <3>11
  <2>3. CASE ~(k > 127)
    <3>1. Varint[k] = <<k>> /\ k < 128
      <4>1. k < 128  BY <2>3
      <4> QED  BY <2>3, <4>1, VarintIs, Zenon
    <3>2. p + 1 - 1 <= Len(data) /\ data[p + 1 - 1] = k  BY <3>1 DEF Holds
    <3>3. p <= Len(data) /\ data[p] = k
      <4>1. p + 1 - 1 = p  BY <2>1
      <4> QED  BY <3>2, <4>1
    <3>4. ReadVarint(data, p) = [raised |-> FALSE, value |-> k, next |-> p + 1]
      BY <3>1, <3>3, ReadVarintIs
    <3>5. Len(Varint[k]) = 1  BY <3>1
    <3> QED  BY <3>4, <3>5
  <2> QED  BY <2>2, <2>3
<1>2. T = Nat
  <2>1. T \in SUBSET Nat  OBVIOUS
  <2> HIDE DEF T
  <2> QED  BY <1>1, <2>1, StrongInduction
<1>3. n \in T  BY <1>2
<1> QED  BY <1>3

-----------------------------------------------------------------------------
(* Fields.                                                                 *)

FieldRead ==
  [field : Nat, wire : Nat, raised : BOOLEAN, value : Nat \cup Seq(Byte), next : Position]

LEMMA Eighths == \A n \in Nat : n % 8 \in Nat /\ n \div 8 \in Nat
OBVIOUS

\* A field that is read ends behind where it begins.
LEMMA FieldAtIs ==
  ASSUME NEW data \in Seq(Byte), NEW p \in Position
  PROVE  /\ FieldAt(data, p) \in FieldRead
         /\ ~FieldAt(data, p).raised => FieldAt(data, p).next > p
<1> DEFINE tag == ReadVarint(data, p)
           wire == tag.value % 8
           arg == IF wire \in {0, 2} THEN ReadVarint(data, tag.next)
                  ELSE [raised |-> FALSE, value |-> 0, next |-> tag.next]
           more == CASE wire = 2 -> arg.value [] wire = 1 -> 8 [] wire = 5 -> 4 [] OTHER -> 0
           value == IF wire = 2 THEN Slice(data, arg.next, arg.value) ELSE arg.value
<1>1. tag \in VarintRead /\ (~tag.raised => tag.next > p)  BY ReadVarintIs
<1>2. tag.raised \in BOOLEAN /\ tag.value \in Nat /\ tag.next \in Position /\ wire \in Nat
  BY <1>1, Eighths DEF VarintRead
<1>3. /\ arg.raised \in BOOLEAN /\ arg.value \in Nat /\ arg.next \in Position
      /\ ~arg.raised => arg.next >= tag.next
  <2> HIDE DEF tag, wire
  <2>1. CASE wire \in {0, 2}
    <3>1. arg = ReadVarint(data, tag.next)  BY <2>1
    <3> HIDE DEF arg
    <3>2. arg \in VarintRead /\ (~arg.raised => arg.next > tag.next)  BY <1>2, <3>1, ReadVarintIs
    <3>3. tag.next \in Nat /\ arg.next \in Nat  BY <1>2, <3>2 DEF VarintRead, Position
    <3> QED  BY <3>2, <3>3 DEF VarintRead
  <2>2. CASE wire \notin {0, 2}
    <3>1. arg = [raised |-> FALSE, value |-> 0, next |-> tag.next]  BY <2>2
    <3> HIDE DEF arg
    <3>2. tag.next \in Nat  BY <1>2 DEF Position
    <3> QED  BY <1>2, <3>1, <3>2
  <2> QED  BY <2>1, <2>2
<1>4. FieldAt(data, p) = [field |-> tag.value \div 8, wire |-> wire, raised |-> tag.raised \/ arg.raised,
                          value |-> value, next |-> arg.next + more]
  BY DEF FieldAt, FieldBehind, FieldOf
<1>5. more \in Nat
  <2> HIDE DEF tag, wire, arg
  <2> QED  BY <1>2, <1>3
<1>6. value \in Nat \cup Seq(Byte)
  <2> HIDE DEF tag, wire, arg
  <2>1. Slice(data, arg.next, arg.value) \in Seq(Byte)  BY <1>3, SliceIs
  <2> QED  BY <1>3, <2>1
<1>7. tag.value \div 8 \in Nat  BY <1>2, Eighths
<1> HIDE DEF tag, wire, arg, more, value
<1>8. arg.next + more \in Position /\ arg.next + more >= arg.next
  BY <1>3, <1>5 DEF Position
<1>9. FieldAt(data, p) \in FieldRead  BY <1>2, <1>3, <1>4, <1>6, <1>7, <1>8 DEF FieldRead
<1>10. ASSUME ~FieldAt(data, p).raised  PROVE FieldAt(data, p).next > p
  <2>1. FieldAt(data, p).raised = (tag.raised \/ arg.raised) /\ FieldAt(data, p).next = arg.next + more
    BY <1>4
  <2>2. tag.next > p /\ arg.next >= tag.next  BY <1>1, <1>3, <1>10, <2>1
  <2>3. p \in Nat /\ tag.next \in Nat /\ arg.next \in Nat  BY <1>2, <1>3 DEF Position
  <2> QED  BY <1>5, <1>8, <2>1, <2>2, <2>3
<1> QED  BY <1>9, <1>10

LEMMA TagReads ==
  ASSUME NEW data \in Seq(Byte), NEW p \in Position, NEW tag \in 0..127, Holds(data, p, <<tag>>)
  PROVE  /\ ReadVarint(data, p) = [raised |-> FALSE, value |-> tag, next |-> p + 1]
         /\ p <= Len(data) /\ p + 1 \in Position
<1>1. ~(tag > 127) /\ tag \in Nat  OBVIOUS
<1>2. Varint[tag] = <<tag>> /\ Len(<<tag>>) = 1  BY <1>1, VarintIs
<1>3. ReadVarint(data, p) = [raised |-> FALSE, value |-> tag, next |-> p + 1]
  BY <1>1, <1>2, VarintReads
<1>4. p + 1 - 1 <= Len(data)  BY <1>2 DEF Holds
<1> QED  BY <1>3, <1>4, LenProperties DEF Position

\* A number written as a field is read as that field.
LEMMA VarintFieldReads ==
  ASSUME NEW data \in Seq(Byte), NEW p \in Position, NEW tag \in 0..127, tag % 8 = 0, NEW n \in Nat,
         Holds(data, p, Heading(tag, n))
  PROVE  /\ FieldAt(data, p) = [field |-> tag \div 8, wire |-> 0, raised |-> FALSE, value |-> n,
                                next |-> p + Len(Heading(tag, n))]
         /\ p <= Len(data) /\ p + Len(Heading(tag, n)) \in Position
<1>1. tag \in Byte  BY DEF Byte
<1>2. <<tag>> \in Seq(Byte) /\ Len(<<tag>>) = 1  BY <1>1, OneByte
<1>3. Varint[n] \in Seq(Byte) /\ Len(Varint[n]) \in Nat  BY VarintIs, VarintSize
<1>4. Holds(data, p, <<tag>>) /\ Holds(data, p + 1, Varint[n]) /\ p + 1 \in Position
  BY <1>2, <1>3, HoldsParts DEF Heading
<1>5. ReadVarint(data, p) = [raised |-> FALSE, value |-> tag, next |-> p + 1] /\ p <= Len(data)
  BY <1>4, TagReads
<1>6. ReadVarint(data, p + 1) = [raised |-> FALSE, value |-> n, next |-> (p + 1) + Len(Varint[n])]
  BY <1>3, <1>4, VarintReads
<1>7. Len(Heading(tag, n)) = 1 + Len(Varint[n])  BY <1>1, HeadingIs
<1>8. (p + 1) + Len(Varint[n]) = p + Len(Heading(tag, n))
  <2>1. \A x, y, z \in Nat : x = 1 + y => (z + 1) + y = z + x  OBVIOUS
  <2>2. p \in Nat /\ Len(Heading(tag, n)) \in Nat  BY <1>3, <1>7 DEF Position
  <2> QED  BY <1>3, <1>7, <2>1, <2>2, Zenon
<1>9. p + Len(Heading(tag, n)) \in Position  BY <1>1, HeadingIs, HoldsParts
<1>10. FieldAt(data, p) = [field |-> tag \div 8, wire |-> 0, raised |-> FALSE, value |-> n,
                           next |-> ((p + 1) + Len(Varint[n])) + 0]
  <2> DEFINE t == ReadVarint(data, p)
             a == ReadVarint(data, p + 1)
  <2>1. t.raised = FALSE /\ t.value = tag /\ t.next = p + 1  BY <1>5
  <2>2. a.raised = FALSE /\ a.value = n /\ a.next = (p + 1) + Len(Varint[n])  BY <1>6
  <2>3. FieldAt(data, p) = FieldOf(data, t, a)  BY <2>1 DEF FieldAt, FieldBehind
  <2> HIDE DEF t, a
  <2>4. (t.raised \/ a.raised) = FALSE  BY <2>1, <2>2
  <2>5. t.value % 8 = 0  BY <2>1
  <2>6. (CASE t.value % 8 = 2 -> a.value [] t.value % 8 = 1 -> 8 [] t.value % 8 = 5 -> 4 [] OTHER -> 0) = 0
    BY <2>2, <2>5
  <2>7. (IF t.value % 8 = 2 THEN Slice(data, a.next, a.value) ELSE a.value) = n  BY <2>2, <2>5
  <2>8. FieldOf(data, t, a) =
          [field |-> t.value \div 8, wire |-> t.value % 8, raised |-> t.raised \/ a.raised,
           value |-> IF t.value % 8 = 2 THEN Slice(data, a.next, a.value) ELSE a.value,
           next |-> a.next + (CASE t.value % 8 = 2 -> a.value [] t.value % 8 = 1 -> 8
                                [] t.value % 8 = 5 -> 4 [] OTHER -> 0)]
    BY DEF FieldOf
  <2> QED  BY <2>1, <2>2, <2>3, <2>4, <2>5, <2>6, <2>7, <2>8
<1>11. ((p + 1) + Len(Varint[n])) + 0 = (p + 1) + Len(Varint[n])  BY <1>8, <1>9 DEF Position
<1> QED  BY <1>5, <1>8, <1>9, <1>10, <1>11

\* A length-delimited field whose heading is whole; its bytes are what there is of them.
LEMMA HeadingReads ==
  ASSUME NEW data \in Seq(Byte), NEW p \in Position, NEW tag \in 0..127, tag % 8 = 2, NEW n \in Nat,
         Holds(data, p, <<tag>>), p + 1 \in Position, Holds(data, p + 1, Varint[n])
  PROVE  FieldAt(data, p) = [field |-> tag \div 8, wire |-> 2, raised |-> FALSE,
                             value |-> Slice(data, (p + 1) + Len(Varint[n]), n),
                             next |-> ((p + 1) + Len(Varint[n])) + n]
<1> DEFINE t == ReadVarint(data, p)
           a == ReadVarint(data, p + 1)
<1>1. t.raised = FALSE /\ t.value = tag /\ t.next = p + 1
  <2>1. t = [raised |-> FALSE, value |-> tag, next |-> p + 1]  BY TagReads
  <2> QED  BY <2>1
<1>2. a.raised = FALSE /\ a.value = n /\ a.next = (p + 1) + Len(Varint[n])
  <2>1. a = [raised |-> FALSE, value |-> n, next |-> (p + 1) + Len(Varint[n])]  BY VarintReads
  <2> QED  BY <2>1
<1>3. FieldAt(data, p) = FieldOf(data, t, a)  BY <1>1 DEF FieldAt, FieldBehind
<1> HIDE DEF t, a
<1>4. (t.raised \/ a.raised) = FALSE  BY <1>1, <1>2
<1>5. t.value % 8 = 2  BY <1>1
<1>6. (CASE t.value % 8 = 2 -> a.value [] t.value % 8 = 1 -> 8 [] t.value % 8 = 5 -> 4 [] OTHER -> 0) = n
  BY <1>2, <1>5
<1>7. (IF t.value % 8 = 2 THEN Slice(data, a.next, a.value) ELSE a.value) = Slice(data, (p + 1) + Len(Varint[n]), n)  BY <1>2, <1>5
<1>8. FieldOf(data, t, a) =
        [field |-> t.value \div 8, wire |-> t.value % 8, raised |-> t.raised \/ a.raised,
         value |-> IF t.value % 8 = 2 THEN Slice(data, a.next, a.value) ELSE a.value,
         next |-> a.next + (CASE t.value % 8 = 2 -> a.value [] t.value % 8 = 1 -> 8
                              [] t.value % 8 = 5 -> 4 [] OTHER -> 0)]
  BY DEF FieldOf
<1> QED  BY <1>1, <1>2, <1>3, <1>4, <1>5, <1>6, <1>7, <1>8

\* Bytes written as a field are read as that field.
LEMMA BytesFieldReads ==
  ASSUME NEW data \in Seq(Byte), NEW p \in Position, NEW tag \in 0..127, tag % 8 = 2,
         NEW bytes \in Seq(Byte), Holds(data, p, LengthDelimited(tag, bytes))
  PROVE  /\ FieldAt(data, p) = [field |-> tag \div 8, wire |-> 2, raised |-> FALSE, value |-> bytes,
                                next |-> p + Len(LengthDelimited(tag, bytes))]
         /\ p <= Len(data) /\ p + Len(LengthDelimited(tag, bytes)) \in Position
<1> DEFINE n == Len(bytes)
<1>1. tag \in Byte /\ n \in Nat  BY LenProperties DEF Byte
<1> HIDE DEF n
<1>2. <<tag>> \in Seq(Byte) /\ Len(<<tag>>) = 1  BY <1>1, OneByte
<1>3. Varint[n] \in Seq(Byte) /\ Len(Varint[n]) \in Nat  BY <1>1, VarintIs, VarintSize
<1>4. LengthDelimited(tag, bytes) = Heading(tag, n) \o bytes  BY DEF LengthDelimited, Heading, n
<1>5. Heading(tag, n) \in Seq(Byte) /\ Len(Heading(tag, n)) = 1 + Len(Varint[n])  BY <1>1, HeadingIs
<1>6. /\ Holds(data, p, Heading(tag, n)) /\ Holds(data, p + Len(Heading(tag, n)), bytes)
      /\ p + Len(Heading(tag, n)) \in Position
  BY <1>4, <1>5, HoldsParts
<1>7. Holds(data, p, <<tag>>) /\ Holds(data, p + 1, Varint[n]) /\ p + 1 \in Position
  BY <1>2, <1>3, <1>6, HoldsParts DEF Heading
<1>8. ReadVarint(data, p) = [raised |-> FALSE, value |-> tag, next |-> p + 1] /\ p <= Len(data)
  BY <1>7, TagReads
<1>10. (p + 1) + Len(Varint[n]) = p + Len(Heading(tag, n))
  <2>1. \A x, y, z \in Nat : x = 1 + y => (z + 1) + y = z + x  OBVIOUS
  <2>2. p \in Nat /\ Len(Heading(tag, n)) \in Nat  BY <1>3, <1>5 DEF Position
  <2> QED  BY <1>3, <1>5, <2>1, <2>2, Zenon
<1>11. Slice(data, p + Len(Heading(tag, n)), n) = bytes  BY <1>6, HoldsSlice DEF n
<1>12. FieldAt(data, p) = [field |-> tag \div 8, wire |-> 2, raised |-> FALSE,
                           value |-> Slice(data, (p + 1) + Len(Varint[n]), n),
                           next |-> ((p + 1) + Len(Varint[n])) + n]
  BY <1>1, <1>7, HeadingReads
<1>13. /\ Len(LengthDelimited(tag, bytes)) = Len(Heading(tag, n)) + n
       /\ LengthDelimited(tag, bytes) \in Seq(Byte)
  <2>1. Heading(tag, n) \o bytes \in Seq(Byte)
        /\ Len(Heading(tag, n) \o bytes) = Len(Heading(tag, n)) + Len(bytes)
    BY <1>5, Joint
  <2> QED  BY <1>4, <2>1 DEF n
<1>14. (p + Len(Heading(tag, n))) + n = p + Len(LengthDelimited(tag, bytes))
  <2>1. \A x, y, z \in Nat : (x + y) + z = x + (y + z)  OBVIOUS
  <2>2. p \in Nat /\ Len(Heading(tag, n)) \in Nat  BY <1>5, LenProperties DEF Position
  <2>3. (p + Len(Heading(tag, n))) + n = p + (Len(Heading(tag, n)) + n)  BY <1>1, <2>1, <2>2
  <2> QED  BY <1>13, <2>3
<1>15. p + Len(LengthDelimited(tag, bytes)) \in Position  BY <1>13, HoldsParts
<1> QED  BY <1>8, <1>10, <1>11, <1>12, <1>14, <1>15

FieldsRead == [raised : BOOLEAN, fields : Seq(FieldRead)]

\* The fields from f on, if rest are those behind it.
Before(f, wires, rest) ==
  IF f.raised \/ f.wire \notin wires THEN Broken ELSE [rest EXCEPT !.fields = <<f>> \o @]

LEMMA BeforeIs ==
  ASSUME NEW f \in FieldRead, NEW wires, NEW rest \in FieldsRead
  PROVE  Before(f, wires, rest) \in FieldsRead
<1>1. Broken \in FieldsRead  BY DEF Broken, FieldsRead
<1>2. rest.fields \in Seq(FieldRead) /\ rest.raised \in BOOLEAN  BY DEF FieldsRead
<1>3. <<f>> \in Seq(FieldRead)  OBVIOUS
<1>4. <<f>> \o rest.fields \in Seq(FieldRead)  BY <1>2, <1>3, ConcatProperties
<1>5. [rest EXCEPT !.fields = <<f>> \o @] \in FieldsRead  BY <1>2, <1>4 DEF FieldsRead
<1> QED  BY <1>1, <1>5 DEF Before

\* One turn of the loop the decoders share.
LEMMA FieldsFromIs ==
  ASSUME NEW data \in Seq(Byte), NEW wires
  PROVE  \A p \in Position :
           /\ FieldsFrom(data, wires, p) \in FieldsRead
           /\ p > Len(data) => FieldsFrom(data, wires, p) = [raised |-> FALSE, fields |-> <<>>]
           /\ p <= Len(data) =>
                FieldsFrom(data, wires, p) =
                  Before(FieldAt(data, p), wires, FieldsFrom(data, wires, FieldAt(data, p).next))
<1> DEFINE V == FieldsRead
           D == Position
           F == [D -> V]
           Nothing == [raised |-> FALSE, fields |-> <<>>]
           N(p) == FieldAt(data, p).next
           Step(p, g) == IF p > Len(data) THEN Nothing ELSE Before(FieldAt(data, p), wires, g[N(p)])
           m == Remaining(data)
           G == [x \in D \X F |-> Step(x[1], x[2])]
<1>1. /\ Len(data) \in Nat
      /\ \A p \in D : p \in Nat /\ (p <= Len(data) <=> ~(p > Len(data)))
  BY LenProperties DEF Position
<1>2. Nothing \in V
  <2>1. <<>> \in Seq(FieldRead)  OBVIOUS
  <2> QED  BY <2>1 DEF FieldsRead
<1>3. \A p \in D : /\ FieldAt(data, p) \in FieldRead /\ N(p) \in D
                   /\ ~FieldAt(data, p).raised => N(p) > p
  BY FieldAtIs DEF FieldRead
<1>4. \A p \in D : \A g \in F : Step(p, g) \in V
  <2> TAKE p \in D
  <2> TAKE g \in F
  <2>1. g[N(p)] \in V  BY <1>3
  <2>2. Before(FieldAt(data, p), wires, g[N(p)]) \in V  BY <1>3, <2>1, BeforeIs
  <2> HIDE DEF V, Nothing
  <2> QED  BY <1>2, <2>2
<1>5. \A p \in D : \A g \in F : G[<<p, g>>] = Step(p, g)
  <2> HIDE DEF Step, F
  <2> QED  OBVIOUS
<1>6. G \in [D \X F -> V]
  <2> HIDE DEF V, Step, F
  <2> QED  BY <1>4
<1>7. m \in [D -> Nat] /\ \A p \in D : ~(p > Len(data)) /\ ~FieldAt(data, p).raised => m[N(p)] < m[p]
  <2>1. m \in [D -> Nat]  BY RemainingFalls
  <2>2. ASSUME NEW p \in D, ~(p > Len(data)), ~FieldAt(data, p).raised  PROVE m[N(p)] < m[p]
    <3>1. N(p) \in D /\ N(p) > p /\ p <= Len(data)  BY <1>1, <1>3, <2>2
    <3>2. N(p) \in Nat /\ p \in Nat  BY <1>1, <3>1
    <3> HIDE DEF N
    <3> QED  BY <3>1, <3>2, RemainingFalls
  <2> QED  BY <2>1, <2>2
<1>8. \A p \in D : \A g, h : (~(p > Len(data)) /\ ~FieldAt(data, p).raised => g[N(p)] = h[N(p)])
                               => Step(p, g) = Step(p, h)
  <2> HIDE DEF N
  <2> QED  BY DEF Before
<1>9. \A p \in D : \A g, h \in [D -> V] :
        (\A e \in D : m[e] < m[p] => g[e] = h[e]) => G[<<p, g>>] = G[<<p, h>>]
  <2> HIDE DEF m, G, Step, V, D, N
  <2> TAKE p \in D
  <2> TAKE g, h \in [D -> V]
  <2> HAVE \A e \in D : m[e] < m[p] => g[e] = h[e]
  <2>1. ~(p > Len(data)) /\ ~FieldAt(data, p).raised => g[N(p)] = h[N(p)]  BY <1>3, <1>7
  <2>2. Step(p, g) = Step(p, h)  BY <1>8, <2>1
  <2> QED  BY <1>5, <2>2
<1> HIDE DEF V, m, G, Step, D, N, Nothing
<1>10. PICK f : Solves(f, D, V, G)
  <2>1. GoesDown(D, V, m, G)  BY <1>2, <1>6, <1>7, <1>9 DEF GoesDown
  <2> QED  BY <2>1, Recursion
<1>11. f = [p \in D |-> Step(p, f)]  BY <1>5, <1>10 DEF Solves
<1> DEFINE parse == CHOOSE g : g = [p \in D |-> Step(p, g)]
<1>12. parse = [p \in D |-> Step(p, parse)]  BY <1>11
<1>13. \A p : FieldsFrom(data, wires, p) = parse[p]
  BY DEF FieldsFrom, Step, D, N, Before, Nothing
<1> HIDE DEF parse
<1>14. \A p \in D : parse[p] = Step(p, parse)  BY <1>12
<1> DEFINE T == {n \in Nat : \A p \in D : m[p] = n => parse[p] \in V}
<1>15. ASSUME NEW n \in Nat, \A k \in Nat : k < n => k \in T  PROVE n \in T
  <2> SUFFICES ASSUME NEW p \in D, m[p] = n  PROVE parse[p] \in V
    OBVIOUS
  <2>1. CASE p > Len(data)
    BY <1>2, <1>14, <2>1 DEF Step
  <2>2. CASE ~(p > Len(data)) /\ FieldAt(data, p).raised
    <3>1. parse[p] = Broken  BY <1>14, <2>2 DEF Step, Before
    <3> QED  BY <3>1 DEF Broken, V, FieldsRead
  <2>3. CASE ~(p > Len(data)) /\ ~FieldAt(data, p).raised
    <3>1. m[N(p)] \in Nat /\ m[N(p)] < n /\ N(p) \in D  BY <1>3, <1>7, <2>3
    <3>2. parse[N(p)] \in V  BY <1>15, <3>1
    <3>3. parse[p] = Before(FieldAt(data, p), wires, parse[N(p)])  BY <1>14, <2>3 DEF Step
    <3> QED  BY <1>3, <3>2, <3>3, BeforeIs DEF V
  <2> QED  BY <2>1, <2>2, <2>3
<1>16. T = Nat
  <2>1. T \in SUBSET Nat  OBVIOUS
  <2> HIDE DEF T
  <2> QED  BY <1>15, <2>1, StrongInduction
<1>17. \A p \in D : parse[p] \in V
  <2> TAKE p \in D
  <2>1. m[p] \in T  BY <1>7, <1>16
  <2> QED  BY <2>1
<1> HIDE DEF T
<1>18. \A p \in D : p > Len(data) => parse[p] = Nothing  BY <1>14 DEF Step
<1>19. \A p \in D : p <= Len(data) => parse[p] = Before(FieldAt(data, p), wires, parse[N(p)])
  BY <1>1, <1>14 DEF Step
<1> QED  BY <1>13, <1>17, <1>18, <1>19 DEF V, D, N, Nothing

-----------------------------------------------------------------------------
(* Putting sequences behind one another: f[i] is what the first i make.    *)

Flattens(f, seqs, S) ==
  /\ f \in [0..Len(seqs) -> Seq(S)]
  /\ f[0] = <<>> /\ \A i \in 1..Len(seqs) : f[i] = f[i - 1] \o seqs[i]

\* FlattenSeq adds up the sequences from the first to the last.
LEMMA FlattenExists ==
  ASSUME NEW S, NEW seqs \in Seq(Seq(S))
  PROVE  \E f : Flattens(f, seqs, S) /\ FlattenSeq(seqs) = f[Len(seqs)]
<1> DEFINE n == Len(seqs)
           D == 1..n
           V == Seq(S)
           F == [D -> V]
           Step(i, g) == IF i = 1 THEN seqs[i] ELSE g[i - 1] \o seqs[i]
           m == [i \in D |-> i]
           G == [x \in D \X F |-> Step(x[1], x[2])]
<1>1. /\ n \in Nat /\ \A i \in D : i \in Nat /\ seqs[i] \in V
      /\ \A i \in D : i # 1 => i - 1 \in D /\ i - 1 < i
  BY LenProperties, ElementOfSeq
<1>2. <<>> \in V /\ (n = 0 => seqs = <<>>)  BY EmptySeq
<1>3. \A i \in D : \A g \in F : Step(i, g) \in V
  <2> TAKE i \in D
  <2> TAKE g \in F
  <2>1. CASE i = 1  BY <1>1, <2>1
  <2>2. CASE i # 1
    <3>1. g[i - 1] \in V /\ seqs[i] \in V  BY <1>1, <2>2
    <3> QED  BY <2>2, <3>1, ConcatProperties
  <2> QED  BY <2>1, <2>2
<1>4. \A i \in D : \A g \in F : G[<<i, g>>] = Step(i, g)
  <2> HIDE DEF Step, F
  <2> QED  OBVIOUS
<1>5. G \in [D \X F -> V]
  <2> HIDE DEF V, Step, F
  <2> QED  BY <1>3
<1>6. m \in [D -> Nat] /\ \A i \in D : m[i] = i  BY <1>1
<1>7. \A i \in D : \A g, h : (i # 1 => g[i - 1] = h[i - 1]) => Step(i, g) = Step(i, h)
  OBVIOUS
<1>8. \A i \in D : \A g, h \in [D -> V] :
        (\A e \in D : m[e] < m[i] => g[e] = h[e]) => G[<<i, g>>] = G[<<i, h>>]
  <2> HIDE DEF m, G, Step, V, D
  <2> TAKE i \in D
  <2> TAKE g, h \in [D -> V]
  <2> HAVE \A e \in D : m[e] < m[i] => g[e] = h[e]
  <2>1. i # 1 => g[i - 1] = h[i - 1]  BY <1>1, <1>6
  <2>2. Step(i, g) = Step(i, h)  BY <1>7, <2>1
  <2> QED  BY <1>4, <2>2
<1> HIDE DEF V, m, G, Step, D
<1>9. PICK e : Solves(e, D, V, G)
  <2>1. GoesDown(D, V, m, G)  BY <1>2, <1>5, <1>6, <1>8 DEF GoesDown
  <2> QED  BY <2>1, Recursion
<1>10. e = [i \in D |-> Step(i, e)]  BY <1>4, <1>9 DEF Solves
<1> DEFINE flatten == CHOOSE g : g = [i \in D |-> Step(i, g)]
<1>11. flatten = [i \in D |-> Step(i, flatten)]  BY <1>10
<1>12. FlattenSeq(seqs) = IF n = 0 THEN seqs ELSE flatten[n]
  BY DEF FlattenSeq, Step, D
<1> HIDE DEF flatten
<1>13. \A i \in D : flatten[i] = Step(i, flatten)  BY <1>11
<1> DEFINE f == [i \in 0..n |-> IF i = 0 THEN <<>> ELSE flatten[i]]
           T == {i \in Nat : i <= n => f[i] \in V}
<1>14. f[0] = <<>> /\ \A i \in D : i \in 0..n /\ f[i] = flatten[i]  BY <1>1 DEF D
<1>15. ASSUME NEW i \in D, f[i - 1] \in V  PROVE f[i] = f[i - 1] \o seqs[i] /\ f[i] \in V
  <2> HIDE DEF f
  <2>1. CASE i = 1
    <3>1. f[i - 1] = <<>> /\ f[i] = seqs[i]  BY <1>13, <1>14, <2>1 DEF Step
    <3>2. seqs[i] \in V  BY <1>1
    <3> QED  BY <3>1, <3>2, ConcatEmptySeq DEF V
  <2>2. CASE i # 1
    <3>1. f[i] = f[i - 1] \o seqs[i]  BY <1>1, <1>13, <1>14, <2>2 DEF Step
    <3>2. seqs[i] \in V  BY <1>1
    <3> QED  BY <1>15, <3>1, <3>2, ConcatProperties DEF V
  <2> QED  BY <2>1, <2>2
<1>16. T = Nat
  <2>1. 0 \in T  BY <1>2, <1>14
  <2>2. ASSUME NEW i \in T  PROVE i + 1 \in T
    <3> SUFFICES ASSUME i + 1 <= n  PROVE f[i + 1] \in V
      OBVIOUS
    <3>1. i \in Nat /\ i + 1 \in D /\ (i + 1) - 1 = i /\ i <= n  BY <1>1 DEF D
    <3>2. f[i] \in V  BY <3>1
    <3> HIDE DEF f
    <3> QED  BY <1>15, <3>1, <3>2
  <2>3. T \in SUBSET Nat  OBVIOUS
  <2> HIDE DEF T
  <2> QED  BY <2>1, <2>2, <2>3, SetInduction
<1>17. \A i \in 0..n : f[i] \in V
  <2> TAKE i \in 0..n
  <2>1. i \in Nat /\ i <= n
    <3> HIDE DEF T, f
    <3> QED  BY <1>1
  <2>2. i \in {k \in Nat : k <= n => f[k] \in V}
    <3> HIDE DEF f
    <3> QED  BY <1>16, <2>1 DEF T
  <2> HIDE DEF f
  <2> QED  BY <2>1, <2>2
<1>18. f \in [0..n -> V]  BY <1>17
<1> HIDE DEF f, T
<1>19. \A i \in 1..n : f[i] = f[i - 1] \o seqs[i]
  <2> TAKE i \in 1..n
  <2>1. i \in D /\ i - 1 \in 0..n  BY <1>1 DEF D
  <2> QED  BY <1>15, <1>17, <2>1
<1>20. FlattenSeq(seqs) = f[n]
  <2>1. n # 0 => n \in D  BY <1>1 DEF D
  <2> QED  BY <1>2, <1>12, <1>14, <2>1
<1> QED  BY <1>14, <1>18, <1>19, <1>20 DEF Flattens, V

\* There is one such sum.
LEMMA FlattenIs ==
  ASSUME NEW S, NEW seqs \in Seq(Seq(S)), NEW f, Flattens(f, seqs, S)
  PROVE  FlattenSeq(seqs) = f[Len(seqs)]
<1> DEFINE n == Len(seqs)
<1>1. n \in Nat  BY LenProperties
<1>2. PICK g : Flattens(g, seqs, S) /\ FlattenSeq(seqs) = g[n]  BY FlattenExists
<1> DEFINE T == {i \in Nat : i <= n => f[i] = g[i]}
<1>3. 0 \in T  BY <1>2 DEF Flattens
<1>4. ASSUME NEW i \in T  PROVE i + 1 \in T
  <2> SUFFICES ASSUME i + 1 <= n  PROVE f[i + 1] = g[i + 1]
    OBVIOUS
  <2>1. i \in Nat /\ i + 1 \in 1..n /\ (i + 1) - 1 = i /\ i <= n  BY <1>1
  <2>2. f[i] = g[i]  BY <2>1
  <2>3. f[i + 1] = f[i] \o seqs[i + 1] /\ g[i + 1] = g[i] \o seqs[i + 1]
    <3> HIDE DEF T
    <3> QED  BY <1>2, <2>1 DEF Flattens
  <2> QED  BY <2>2, <2>3
<1>5. T = Nat
  <2>1. T \in SUBSET Nat  OBVIOUS
  <2> HIDE DEF T
  <2> QED  BY <1>3, <1>4, <2>1, SetInduction
<1>6. n \in T  BY <1>1, <1>5
<1> QED  BY <1>1, <1>2, <1>6

\* The first sequence may be taken out of a FlattenSeq.
LEMMA FlattenCons ==
  ASSUME NEW S, NEW s \in Seq(S), NEW seqs \in Seq(Seq(S))
  PROVE  FlattenSeq(<<s>> \o seqs) = s \o FlattenSeq(seqs) /\ FlattenSeq(seqs) \in Seq(S)
<1> DEFINE n == Len(seqs)
           all == <<s>> \o seqs
<1>1. n \in Nat /\ <<s>> \in Seq(Seq(S)) /\ Len(<<s>>) = 1 /\ <<s>>[1] = s  BY LenProperties
<1>2. PICK f : Flattens(f, seqs, S) /\ FlattenSeq(seqs) = f[n]  BY FlattenExists
<1>3. /\ all \in Seq(Seq(S)) /\ Len(all) = 1 + n /\ all[1] = s
      /\ \A i \in 1..n : all[1 + i] = seqs[i]
  <2>1. /\ all \in Seq(Seq(S)) /\ Len(all) = Len(<<s>>) + Len(seqs)
        /\ \A i \in 1..Len(<<s>>) : all[i] = <<s>>[i]
        /\ \A i \in 1..Len(seqs) : all[Len(<<s>>) + i] = seqs[i]
    BY <1>1, Joint
  <2> HIDE DEF all
  <2>2. 1 \in 1..Len(<<s>>)  BY <1>1
  <2> QED  BY <1>1, <2>1, <2>2
<1> DEFINE g == [i \in 0..(1 + n) |-> IF i = 0 THEN <<>> ELSE s \o f[i - 1]]
<1>4. /\ f \in [0..n -> Seq(S)] /\ f[0] = <<>> /\ \A i \in 1..n : f[i] = f[i - 1] \o seqs[i]
  BY <1>2 DEF Flattens
<1> HIDE DEF all
<1>5. g \in [0..(1 + n) -> Seq(S)]
  <2>1. <<>> \in Seq(S)  OBVIOUS
  <2>2. ASSUME NEW i \in 0..(1 + n), i # 0  PROVE s \o f[i - 1] \in Seq(S)
    <3>1. i - 1 \in 0..n  BY <1>1, <2>2
    <3>2. f[i - 1] \in Seq(S)  BY <1>4, <3>1
    <3> QED  BY <3>2, ConcatProperties
  <2> QED  BY <2>1, <2>2
<1>6. g[0] = <<>> /\ \A i \in 0..n : g[1 + i] = s \o f[i]
  <2>1. \A i \in 0..n : 1 + i \in 0..(1 + n) /\ 1 + i # 0 /\ (1 + i) - 1 = i  BY <1>1
  <2>2. 0 \in 0..(1 + n)  BY <1>1
  <2> QED  BY <2>1, <2>2
<1> HIDE DEF g
<1>7. ASSUME NEW i \in 1..(1 + n)  PROVE g[i] = g[i - 1] \o all[i]
  <2>1. CASE i = 1
    <3>1. 0 \in 0..n /\ 1 + 0 = 1 /\ 1 - 1 = 0  BY <1>1
    <3>2. g[1] = s \o <<>> /\ g[1 - 1] = <<>>  BY <1>4, <1>6, <3>1
    <3> QED  BY <1>3, <2>1, <3>2, ConcatEmptySeq
  <2>2. CASE i # 1
    <3> DEFINE j == i - 1
    <3>1. j \in 1..n /\ j \in 0..n /\ j - 1 \in 0..n /\ 1 + j = i /\ 1 + (j - 1) = i - 1  BY <1>1, <2>2
    <3> HIDE DEF j
    <3>2. g[i] = s \o f[j] /\ g[i - 1] = s \o f[j - 1] /\ all[i] = seqs[j]  BY <1>3, <1>6, <3>1
    <3>3. f[j] = f[j - 1] \o seqs[j] /\ f[j - 1] \in Seq(S) /\ seqs[j] \in Seq(S)
      BY <1>4, <3>1, ElementOfSeq
    <3>4. (s \o f[j - 1]) \o seqs[j] = s \o (f[j - 1] \o seqs[j])
      <4> DEFINE a == f[j - 1]
                 b == seqs[j]
      <4>1. a \in Seq(S) /\ b \in Seq(S)  BY <3>3
      <4> HIDE DEF a, b
      <4>2. (s \o a) \o b = s \o (a \o b)  BY <4>1, ConcatAssociative
      <4> QED  BY <4>2 DEF a, b
    <3> QED  BY <3>2, <3>3, <3>4, Zenon
  <2> QED  BY <2>1, <2>2
<1>8. Flattens(g, all, S)  BY <1>3, <1>5, <1>6, <1>7 DEF Flattens
<1>9. FlattenSeq(all) = g[1 + n]  BY <1>3, <1>8, FlattenIs
<1>10. n \in 0..n  BY <1>1
<1> QED  BY <1>2, <1>4, <1>6, <1>9, <1>10 DEF all

-----------------------------------------------------------------------------
(* What a decoder finds from a position on, field by field.                 *)

Content == Nat \cup Seq(Byte)

Found(data, wires, p, number, wire) == Values(FieldsFrom(data, wires, p).fields, number, wire)
Breaks(data, wires, p) == FieldsFrom(data, wires, p).raised

\* The value of f, if f is a field asked for.
ValueIf(f, number, wire) == IF f.field = number /\ f.wire = wire THEN <<f.value>> ELSE <<>>

Picked(fields, number, wire) == [i \in 1..Len(fields) |-> ValueIf(fields[i], number, wire)]

LEMMA ValuesAre ==
  ASSUME NEW fields \in Seq(FieldRead), NEW number, NEW wire
  PROVE  /\ Picked(fields, number, wire) \in Seq(Seq(Content))
         /\ Len(Picked(fields, number, wire)) = Len(fields)
         /\ Values(fields, number, wire) = FlattenSeq(Picked(fields, number, wire))
         /\ Values(fields, number, wire) \in Seq(Content)
<1> DEFINE seqs == [i \in 1..Len(fields) |-> ValueIf(fields[i], number, wire)]
<1>1. Len(fields) \in Nat /\ DOMAIN fields = 1..Len(fields)  BY LenProperties
<1>2. ASSUME NEW i \in 1..Len(fields)  PROVE ValueIf(fields[i], number, wire) \in Seq(Content)
  <2>1. fields[i] \in FieldRead  BY ElementOfSeq
  <2>2. fields[i].value \in Content  BY <2>1 DEF FieldRead, Content
  <2> QED  BY <2>2 DEF ValueIf
<1>3. seqs \in Seq(Seq(Content)) /\ Len(seqs) = Len(fields)
  <2>1. seqs \in [1..Len(fields) -> Seq(Content)]  BY <1>2
  <2> HIDE DEF seqs
  <2> QED  BY <1>1, <2>1
<1>4. Values(fields, number, wire) = FlattenSeq(seqs)  BY <1>1 DEF Values, ValueIf
<1>5. <<>> \in Seq(Content)  OBVIOUS
<1>6. FlattenSeq(seqs) \in Seq(Content)
  <2> HIDE DEF seqs
  <2> QED  BY <1>3, <1>5, FlattenCons
<1> QED  BY <1>3, <1>4, <1>6 DEF Picked

\* All the fields are f and then these.
Starts(all, f, fields) == f \in FieldRead /\ fields \in Seq(FieldRead) /\ all = <<f>> \o fields

\* The values of a field come before those of the fields behind it.
LEMMA ValuesCons ==
  ASSUME NEW all, NEW f, NEW fields, Starts(all, f, fields), NEW number, NEW wire
  PROVE  Values(all, number, wire) = ValueIf(f, number, wire) \o Values(fields, number, wire)
<1> DEFINE seqs == Picked(fields, number, wire)
           more == Picked(all, number, wire)
           v == ValueIf(f, number, wire)
<1>0. f \in FieldRead /\ fields \in Seq(FieldRead) /\ all = <<f>> \o fields  BY DEF Starts
<1>1. <<f>> \in Seq(FieldRead) /\ Len(<<f>>) = 1 /\ <<f>>[1] = f  BY <1>0
<1>2. PICK n \in Nat : n = Len(fields)  BY <1>0, LenProperties
<1>3. /\ all \in Seq(FieldRead) /\ Len(all) = 1 + n
      /\ all[1] = f /\ \A i \in 1..n : all[1 + i] = fields[i]
  <2>1. /\ all \in Seq(FieldRead) /\ Len(all) = Len(<<f>>) + Len(fields)
        /\ \A i \in 1..Len(<<f>>) : all[i] = <<f>>[i]
        /\ \A i \in 1..Len(fields) : all[Len(<<f>>) + i] = fields[i]
    BY <1>0, <1>1, Joint
  <2>2. 1 \in 1..Len(<<f>>)  BY <1>1
  <2> QED  BY <1>1, <1>2, <2>1, <2>2
<1>4. /\ seqs \in Seq(Seq(Content)) /\ Len(seqs) = n
      /\ Values(fields, number, wire) = FlattenSeq(seqs)
  BY <1>0, <1>2, ValuesAre
<1>5. /\ more \in Seq(Seq(Content)) /\ Len(more) = 1 + n
      /\ Values(all, number, wire) = FlattenSeq(more)
  <2>1. /\ more \in Seq(Seq(Content)) /\ Len(more) = Len(all)
        /\ Values(all, number, wire) = FlattenSeq(more)
    BY <1>3, ValuesAre
  <2> HIDE DEF more
  <2> QED  BY <1>3, <2>1
<1>6. v \in Seq(Content)
  <2>1. f.value \in Content  BY <1>0 DEF FieldRead, Content
  <2> QED  BY <2>1 DEF ValueIf
<1>7. \A i \in 1..(1 + n) : more[i] = ValueIf(all[i], number, wire)  BY <1>3 DEF Picked
<1>8. \A i \in 1..n : seqs[i] = ValueIf(fields[i], number, wire)  BY <1>2 DEF Picked
<1> HIDE DEF more, seqs
<1>9. more = <<v>> \o seqs
  <2> DEFINE other == <<v>> \o seqs
  <2>1. <<v>> \in Seq(Seq(Content)) /\ Len(<<v>>) = 1 /\ <<v>>[1] = v  BY <1>6
  <2>2. /\ other \in Seq(Seq(Content)) /\ Len(other) = 1 + n
        /\ other[1] = v /\ \A i \in 1..n : other[1 + i] = seqs[i]
    <3>1. /\ other \in Seq(Seq(Content)) /\ Len(other) = Len(<<v>>) + Len(seqs)
          /\ \A i \in 1..Len(<<v>>) : other[i] = <<v>>[i]
          /\ \A i \in 1..Len(seqs) : other[Len(<<v>>) + i] = seqs[i]
      BY <1>4, <2>1, Joint
    <3> HIDE DEF other
    <3>2. 1 \in 1..Len(<<v>>)  BY <2>1
    <3> QED  BY <1>4, <2>1, <3>1, <3>2
  <2> HIDE DEF other, v
  <2>3. ASSUME NEW i \in 1..(1 + n)  PROVE more[i] = other[i]
    <3>1. CASE i = 1  BY <1>3, <1>7, <2>2, <3>1 DEF v
    <3>2. CASE i # 1
      <4>1. i - 1 \in 1..n /\ 1 + (i - 1) = i  BY <1>2, <3>2
      <4>2. all[i] = fields[i - 1] /\ other[i] = seqs[i - 1]  BY <1>3, <2>2, <4>1, Zenon
      <4> QED  BY <1>7, <1>8, <4>1, <4>2
    <3> QED  BY <3>1, <3>2
  <2>4. Len(more) = Len(other) /\ \A i \in 1..Len(more) : more[i] = other[i]
    BY <1>5, <2>2, <2>3
  <2>5. more = other  BY <1>5, <2>2, <2>4, SeqEqual
  <2> QED  BY <2>5 DEF other
<1>10. FlattenSeq(<<v>> \o seqs) = v \o FlattenSeq(seqs)  BY <1>4, <1>6, FlattenCons
<1>11. Values(all, number, wire) = v \o Values(fields, number, wire)
  <2> HIDE DEF v
  <2> QED  BY <1>4, <1>5, <1>9, <1>10, Zenon
<1> QED  BY <1>11

LEMMA ValuesEmpty ==
  ASSUME NEW number, NEW wire
  PROVE  Values(<<>>, number, wire) = <<>>
<1> DEFINE seqs == Picked(<<>>, number, wire)
<1>1. <<>> \in Seq(FieldRead) /\ Len(<<>>) = 0  OBVIOUS
<1>2. /\ seqs \in Seq(Seq(Content)) /\ Len(seqs) = 0
      /\ Values(<<>>, number, wire) = FlattenSeq(seqs)
  BY <1>1, ValuesAre
<1> HIDE DEF seqs
<1>3. PICK f : Flattens(f, seqs, Content) /\ FlattenSeq(seqs) = f[Len(seqs)]  BY <1>2, FlattenExists
<1> QED  BY <1>2, <1>3 DEF Flattens

\* What is found from a field on: its value, if asked for, and what is found behind it.
LEMMA FoundNext ==
  ASSUME NEW data \in Seq(Byte), NEW wires, NEW p \in Position, NEW number, NEW wire
  PROVE  /\ Found(data, wires, p, number, wire) \in Seq(Content)
         /\ p > Len(data) => ~Breaks(data, wires, p) /\ Found(data, wires, p, number, wire) = <<>>
         /\ p <= Len(data) /\ ~FieldAt(data, p).raised /\ FieldAt(data, p).wire \in wires =>
              /\ Breaks(data, wires, p) = Breaks(data, wires, FieldAt(data, p).next)
              /\ Found(data, wires, p, number, wire) =
                   ValueIf(FieldAt(data, p), number, wire)
                     \o Found(data, wires, FieldAt(data, p).next, number, wire)
<1> DEFINE at == FieldAt(data, p)
           here == FieldsFrom(data, wires, p)
           rest == FieldsFrom(data, wires, at.next)
<1>1. at \in FieldRead /\ at.next \in Position  BY FieldAtIs DEF FieldRead
<1>2. here \in FieldsRead /\ rest \in FieldsRead  BY <1>1, FieldsFromIs
<1>3. here.fields \in Seq(FieldRead) /\ rest.fields \in Seq(FieldRead)  BY <1>2 DEF FieldsRead
<1>4. Values(here.fields, number, wire) \in Seq(Content)  BY <1>3, ValuesAre
<1>5. ASSUME p > Len(data)  PROVE ~here.raised /\ Values(here.fields, number, wire) = <<>>
  <2>1. here = [raised |-> FALSE, fields |-> <<>>]  BY <1>5, FieldsFromIs
  <2> QED  BY <2>1, ValuesEmpty
<1>6. ASSUME p <= Len(data), ~at.raised, at.wire \in wires
      PROVE  /\ here.raised = rest.raised
             /\ Values(here.fields, number, wire) =
                  ValueIf(at, number, wire) \o Values(rest.fields, number, wire)
  <2>1. here = Before(at, wires, rest)  BY <1>6, FieldsFromIs
  <2>2. here = [rest EXCEPT !.fields = <<at>> \o @]  BY <1>6, <2>1 DEF Before
  <2>3. here.raised = rest.raised /\ here.fields = <<at>> \o rest.fields  BY <1>2, <2>2 DEF FieldsRead
  <2> HIDE DEF here, rest, at
  <2>4. Starts(here.fields, at, rest.fields)  BY <1>1, <1>3, <2>3 DEF Starts
  <2> QED  BY <2>3, <2>4, ValuesCons
<1> QED  BY <1>4, <1>5, <1>6 DEF Found, Breaks

\* Behind the data nothing is found.
LEMMA FoundAtEnd ==
  ASSUME NEW data \in Seq(Byte), NEW wires, NEW p \in Position, p > Len(data)
  PROVE  Breaks(data, wires, p) = FALSE /\ \A number, wire : Found(data, wires, p, number, wire) = <<>>
<1>1. FieldsFrom(data, wires, p) = [raised |-> FALSE, fields |-> <<>>]  BY FieldsFromIs
<1>2. ASSUME NEW number, NEW wire  PROVE Found(data, wires, p, number, wire) = <<>>
  BY <1>1, ValuesEmpty DEF Found
<1> QED  BY <1>1, <1>2 DEF Breaks

OneIf(c, value) == IF c THEN <<value>> ELSE <<>>

\* From p on the decoder finds this field, and then what it finds from q on.
Finds(data, wires, p, q, field, type, value) ==
  /\ q \in Position
  /\ Breaks(data, wires, p) = Breaks(data, wires, q)
  /\ \A number, wire :
       Found(data, wires, p, number, wire) =
         OneIf(field = number /\ wire = type, value) \o Found(data, wires, q, number, wire)

VarintHere(data, wires, p, tag, n) ==
  /\ data \in Seq(Byte) /\ p \in Position /\ tag \in 0..127 /\ tag % 8 = 0 /\ n \in Nat
  /\ Holds(data, p, Heading(tag, n)) /\ 0 \in wires

BytesHere(data, wires, p, tag, bytes) ==
  /\ data \in Seq(Byte) /\ p \in Position /\ tag \in 0..127 /\ tag % 8 = 2 /\ bytes \in Seq(Byte)
  /\ Holds(data, p, LengthDelimited(tag, bytes)) /\ 2 \in wires

LEMMA VarintFound ==
  ASSUME NEW data, NEW wires, NEW p, NEW tag, NEW n, VarintHere(data, wires, p, tag, n)
  PROVE  Finds(data, wires, p, p + Len(Heading(tag, n)), tag \div 8, 0, n)
<1>0. /\ data \in Seq(Byte) /\ p \in Position /\ tag \in 0..127 /\ tag % 8 = 0 /\ n \in Nat
      /\ Holds(data, p, Heading(tag, n)) /\ 0 \in wires
  BY DEF VarintHere
<1> DEFINE q == p + Len(Heading(tag, n))
           at == FieldAt(data, p)
<1>1. /\ at = [field |-> tag \div 8, wire |-> 0, raised |-> FALSE, value |-> n, next |-> q]
      /\ p <= Len(data) /\ q \in Position
  BY <1>0, VarintFieldReads
<1>2. ~at.raised /\ at.wire \in wires /\ at.next = q  BY <1>0, <1>1
<1>3. \A number, wire : ValueIf(at, number, wire) = OneIf(tag \div 8 = number /\ wire = 0, n)
  BY <1>1 DEF ValueIf, OneIf
<1> HIDE DEF q
<1>4. \A number, wire :
        /\ Breaks(data, wires, p) = Breaks(data, wires, q)
        /\ Found(data, wires, p, number, wire) =
             ValueIf(at, number, wire) \o Found(data, wires, q, number, wire)
  <2>1. p <= Len(data)  BY <1>1
  <2>2. \A number, wire :
          /\ Breaks(data, wires, p) = Breaks(data, wires, at.next)
          /\ Found(data, wires, p, number, wire) =
               ValueIf(at, number, wire) \o Found(data, wires, at.next, number, wire)
    <3>1. ~FieldAt(data, p).raised /\ FieldAt(data, p).wire \in wires  BY <1>2
    <3> TAKE number, wire
    <3> QED  BY <1>0, <2>1, <3>1, FoundNext
  <2> HIDE DEF at
  <2> QED  BY <1>2, <2>2
<1>5. ASSUME NEW number, NEW wire
      PROVE  Found(data, wires, p, number, wire) =
               OneIf(tag \div 8 = number /\ wire = 0, n) \o Found(data, wires, q, number, wire)
  <2> HIDE DEF at
  <2>1. ValueIf(at, number, wire) = OneIf(tag \div 8 = number /\ wire = 0, n)  BY <1>3
  <2>2. Found(data, wires, p, number, wire) =
          ValueIf(at, number, wire) \o Found(data, wires, q, number, wire)
    BY <1>4
  <2> QED  BY <2>1, <2>2, Zenon
<1>6. Breaks(data, wires, p) = Breaks(data, wires, q)  BY <1>4
<1>7. q \in Position  BY <1>1
<1> QED  BY <1>5, <1>6, <1>7, Zenon DEF q, Finds

LEMMA BytesFound ==
  ASSUME NEW data, NEW wires, NEW p, NEW tag, NEW bytes, BytesHere(data, wires, p, tag, bytes)
  PROVE  Finds(data, wires, p, p + Len(LengthDelimited(tag, bytes)), tag \div 8, 2, bytes)
<1>0. /\ data \in Seq(Byte) /\ p \in Position /\ tag \in 0..127 /\ tag % 8 = 2 /\ bytes \in Seq(Byte)
      /\ Holds(data, p, LengthDelimited(tag, bytes)) /\ 2 \in wires
  BY DEF BytesHere
<1> DEFINE q == p + Len(LengthDelimited(tag, bytes))
           at == FieldAt(data, p)
<1>1. /\ at = [field |-> tag \div 8, wire |-> 2, raised |-> FALSE, value |-> bytes, next |-> q]
      /\ p <= Len(data) /\ q \in Position
  BY <1>0, BytesFieldReads
<1>2. ~at.raised /\ at.wire \in wires /\ at.next = q  BY <1>0, <1>1
<1>3. \A number, wire : ValueIf(at, number, wire) = OneIf(tag \div 8 = number /\ wire = 2, bytes)
  BY <1>1 DEF ValueIf, OneIf
<1> HIDE DEF q
<1>4. \A number, wire :
        /\ Breaks(data, wires, p) = Breaks(data, wires, q)
        /\ Found(data, wires, p, number, wire) =
             ValueIf(at, number, wire) \o Found(data, wires, q, number, wire)
  <2>1. p <= Len(data)  BY <1>1
  <2>2. \A number, wire :
          /\ Breaks(data, wires, p) = Breaks(data, wires, at.next)
          /\ Found(data, wires, p, number, wire) =
               ValueIf(at, number, wire) \o Found(data, wires, at.next, number, wire)
    <3>1. ~FieldAt(data, p).raised /\ FieldAt(data, p).wire \in wires  BY <1>2
    <3> TAKE number, wire
    <3> QED  BY <1>0, <2>1, <3>1, FoundNext
  <2> HIDE DEF at
  <2> QED  BY <1>2, <2>2
<1>5. ASSUME NEW number, NEW wire
      PROVE  Found(data, wires, p, number, wire) =
               OneIf(tag \div 8 = number /\ wire = 2, bytes) \o Found(data, wires, q, number, wire)
  <2> HIDE DEF at
  <2>1. ValueIf(at, number, wire) = OneIf(tag \div 8 = number /\ wire = 2, bytes)  BY <1>3
  <2>2. Found(data, wires, p, number, wire) =
          ValueIf(at, number, wire) \o Found(data, wires, q, number, wire)
    BY <1>4
  <2> QED  BY <2>1, <2>2, Zenon
<1>6. Breaks(data, wires, p) = Breaks(data, wires, q)  BY <1>4
<1>7. q \in Position  BY <1>1
<1> QED  BY <1>5, <1>6, <1>7, Zenon DEF q, Finds

LEMMA Single ==
  ASSUME NEW x
  PROVE  /\ <<>> \o <<>> = <<>> /\ <<x>> \o <<>> = <<x>> /\ <<>> \o <<x>> = <<x>>
         /\ \A default : LastOr(<<x>>, default) = x /\ LastOr(<<>>, default) = default
<1>1. <<x>> \in Seq({x}) /\ <<>> \in Seq({x})  OBVIOUS
<1>2. Len(<<x>>) = 1 /\ <<x>>[1] = x /\ <<x>> # <<>>  OBVIOUS
<1> QED  BY <1>1, <1>2, ConcatEmptySeq DEF LastOr

(* What a decoder that knows these wire types finds in the bytes s, wherever *)
(* they stand: the values of the fields with this number and wire type.      *)
Yields(s, wires, number, wire, values) ==
  /\ s \in Seq(Byte) /\ values \in Seq(Content)
  /\ \A data \in Seq(Byte), p \in Position :
       Holds(data, p, s) =>
         /\ p + Len(s) \in Position
         /\ Breaks(data, wires, p) = Breaks(data, wires, p + Len(s))
         /\ Found(data, wires, p, number, wire) = values \o Found(data, wires, p + Len(s), number, wire)

\* A heading yields its number.
LEMMA YieldsVarint ==
  ASSUME NEW tag \in 0..127, tag % 8 = 0, NEW n \in Nat, NEW wires, 0 \in wires, NEW number, NEW wire
  PROVE  Yields(Heading(tag, n), wires, number, wire, OneIf(tag \div 8 = number /\ wire = 0, n))
<1> DEFINE s == Heading(tag, n)
           values == OneIf(tag \div 8 = number /\ wire = 0, n)
<1>1. s \in Seq(Byte)
  <2>1. tag \in Byte  BY DEF Byte
  <2> QED  BY <2>1, HeadingIs
<1>2. values \in Seq(Content)
  <2>1. n \in Content  BY DEF Content
  <2>2. <<>> \in Seq(Content) /\ <<n>> \in Seq(Content)  BY <2>1
  <2> QED  BY <2>2 DEF OneIf
<1>3. ASSUME NEW data \in Seq(Byte), NEW p \in Position, Holds(data, p, s)
      PROVE  /\ p + Len(s) \in Position
             /\ Breaks(data, wires, p) = Breaks(data, wires, p + Len(s))
             /\ Found(data, wires, p, number, wire) =
                  values \o Found(data, wires, p + Len(s), number, wire)
  <2>1. VarintHere(data, wires, p, tag, n)  BY <1>3 DEF VarintHere
  <2>2. Finds(data, wires, p, p + Len(s), tag \div 8, 0, n)  BY <2>1, VarintFound
  <2> HIDE DEF s
  <2> QED  BY <2>2, Zenon DEF Finds
<1> HIDE DEF s, values
<1>4. Yields(s, wires, number, wire, values)  BY <1>1, <1>2, <1>3, Zenon DEF Yields
<1> QED  BY <1>4 DEF s, values

\* A length-delimited field yields its bytes.
LEMMA YieldsBytes ==
  ASSUME NEW tag \in 0..127, tag % 8 = 2, NEW bytes \in Seq(Byte), NEW wires, 2 \in wires,
         NEW number, NEW wire
  PROVE  Yields(LengthDelimited(tag, bytes), wires, number, wire,
                OneIf(tag \div 8 = number /\ wire = 2, bytes))
<1> DEFINE s == LengthDelimited(tag, bytes)
           values == OneIf(tag \div 8 = number /\ wire = 2, bytes)
<1>1. s \in Seq(Byte)
  <2>1. tag \in Byte  BY DEF Byte
  <2> QED  BY <2>1, LengthDelimitedIs
<1>2. values \in Seq(Content)
  <2>1. bytes \in Content  BY DEF Content
  <2>2. <<>> \in Seq(Content) /\ <<bytes>> \in Seq(Content)  BY <2>1
  <2> QED  BY <2>2 DEF OneIf
<1>3. ASSUME NEW data \in Seq(Byte), NEW p \in Position, Holds(data, p, s)
      PROVE  /\ p + Len(s) \in Position
             /\ Breaks(data, wires, p) = Breaks(data, wires, p + Len(s))
             /\ Found(data, wires, p, number, wire) =
                  values \o Found(data, wires, p + Len(s), number, wire)
  <2>1. BytesHere(data, wires, p, tag, bytes)  BY <1>3 DEF BytesHere
  <2>2. Finds(data, wires, p, p + Len(s), tag \div 8, 2, bytes)  BY <2>1, BytesFound
  <2> HIDE DEF s
  <2> QED  BY <2>2, Zenon DEF Finds
<1> HIDE DEF s, values
<1>4. Yields(s, wires, number, wire, values)  BY <1>1, <1>2, <1>3, Zenon DEF Yields
<1> QED  BY <1>4 DEF s, values

LEMMA YieldsNothing ==
  ASSUME NEW wires, NEW number, NEW wire
  PROVE  Yields(<<>>, wires, number, wire, <<>>)
<1>1. <<>> \in Seq(Byte) /\ <<>> \in Seq(Content) /\ Len(<<>>) = 0  OBVIOUS
<1>2. ASSUME NEW data \in Seq(Byte), NEW p \in Position
      PROVE  /\ p + Len(<<>>) \in Position
             /\ Breaks(data, wires, p) = Breaks(data, wires, p + Len(<<>>))
             /\ Found(data, wires, p, number, wire) =
                  <<>> \o Found(data, wires, p + Len(<<>>), number, wire)
  <2>1. p + Len(<<>>) = p  BY <1>1 DEF Position
  <2>2. Found(data, wires, p, number, wire) \in Seq(Content)  BY FoundNext
  <2>3. <<>> \o Found(data, wires, p, number, wire) = Found(data, wires, p, number, wire)
    BY <2>2, ConcatEmptySeq
  <2> QED  BY <2>1, <2>3
<1> QED  BY <1>1, <1>2, Zenon DEF Yields

\* Parts behind one another yield what they yield, in order.
LEMMA YieldsBoth ==
  ASSUME NEW wires, NEW number, NEW wire, NEW s, NEW t, NEW u, NEW v,
         Yields(s, wires, number, wire, u), Yields(t, wires, number, wire, v)
  PROVE  Yields(s \o t, wires, number, wire, u \o v)
<1> DEFINE both == s \o t
<1>1. s \in Seq(Byte) /\ t \in Seq(Byte) /\ u \in Seq(Content) /\ v \in Seq(Content)  BY DEF Yields
<1>2. /\ both \in Seq(Byte) /\ u \o v \in Seq(Content) /\ Len(both) = Len(s) + Len(t)
      /\ Len(s) \in Nat /\ Len(t) \in Nat
  BY <1>1, Joint
<1>3. ASSUME NEW data \in Seq(Byte), NEW p \in Position, Holds(data, p, both)
      PROVE  /\ p + Len(both) \in Position
             /\ Breaks(data, wires, p) = Breaks(data, wires, p + Len(both))
             /\ Found(data, wires, p, number, wire) =
                  (u \o v) \o Found(data, wires, p + Len(both), number, wire)
  <2> DEFINE q == p + Len(s)
             r == q + Len(t)
  <2>1. q \in Position /\ Holds(data, p, s) /\ Holds(data, q, t)  BY <1>1, <1>3, HoldsParts
  <2>2. r = p + Len(both)  BY <1>2 DEF Position
  <2> HIDE DEF both
  <2>3. /\ Breaks(data, wires, p) = Breaks(data, wires, q)
        /\ Found(data, wires, p, number, wire) = u \o Found(data, wires, q, number, wire)
    BY <2>1, Zenon DEF Yields
  <2>4. /\ r \in Position /\ Breaks(data, wires, q) = Breaks(data, wires, r)
        /\ Found(data, wires, q, number, wire) = v \o Found(data, wires, r, number, wire)
    <3> HIDE DEF q
    <3> QED  BY <2>1, Zenon DEF Yields
  <2> HIDE DEF q, r
  <2> DEFINE rest == Found(data, wires, r, number, wire)
  <2>5. rest \in Seq(Content)  BY <2>4, FoundNext
  <2> HIDE DEF rest
  <2>6. (u \o v) \o rest = u \o (v \o rest)  BY <1>1, <2>5, ConcatAssociative
  <2>7. Found(data, wires, p, number, wire) = (u \o v) \o rest  BY <2>3, <2>4, <2>6, Zenon DEF rest
  <2> QED  BY <2>2, <2>3, <2>4, <2>7, Zenon DEF rest
<1> HIDE DEF both
<1>4. Yields(both, wires, number, wire, u \o v)  BY <1>2, <1>3, Zenon DEF Yields
<1> QED  BY <1>4 DEF both

\* Data that are such a part as a whole are read without an error.
LEMMA YieldsAll ==
  ASSUME NEW s, NEW wires, NEW number, NEW wire, NEW values, Yields(s, wires, number, wire, values)
  PROVE  Breaks(s, wires, 1) = FALSE /\ Found(s, wires, 1, number, wire) = values
<1>1. s \in Seq(Byte) /\ values \in Seq(Content) /\ 1 \in Position  BY DEF Yields, Position
<1>2. Holds(s, 1, s)  BY <1>1, HoldsWhole
<1> DEFINE p == 1 + Len(s)
<1>3. /\ p \in Position /\ Breaks(s, wires, 1) = Breaks(s, wires, p)
      /\ Found(s, wires, 1, number, wire) = values \o Found(s, wires, p, number, wire)
  BY <1>1, <1>2, Zenon DEF Yields
<1>4. p > Len(s)  BY <1>1, LenProperties
<1> HIDE DEF p
<1>5. Breaks(s, wires, p) = FALSE /\ Found(s, wires, p, number, wire) = <<>>
  BY <1>1, <1>3, <1>4, FoundAtEnd
<1>6. values \o <<>> = values  BY <1>1, ConcatEmptySeq
<1> QED  BY <1>3, <1>5, <1>6, Zenon

\* A byte string in which decode_fragment finds these numbers and this payload.
Means(data, seq, num, payload) ==
  /\ DecodeFragment(data).raised = FALSE
  /\ DecodeFragment(data).seq = seq /\ DecodeFragment(data).num = num
  /\ DecodeFragment(data).payload = payload

FragmentWires == {0, 2}

\* decode_fragment from what its four fields yield.
LEMMA Decoded ==
  ASSUME NEW data, NEW index, NEW seq, NEW num, NEW payload,
         Yields(data, FragmentWires, 1, 0, index), Yields(data, FragmentWires, 2, 0, seq),
         Yields(data, FragmentWires, 3, 0, num), Yields(data, FragmentWires, 4, 2, payload)
  PROVE  DecodeFragment(data) =
           [raised |-> FALSE, index |-> LastOr(index, 0), seq |-> LastOr(seq, 0),
            num |-> LastOr(num, 0), payload |-> LastOr(payload, <<>>)]
<1> DEFINE wires == FragmentWires
<1>1. DecodeFragment(data) =
        [raised |-> Breaks(data, wires, 1),
         index |-> LastOr(Found(data, wires, 1, 1, 0), 0), seq |-> LastOr(Found(data, wires, 1, 2, 0), 0),
         num |-> LastOr(Found(data, wires, 1, 3, 0), 0),
         payload |-> LastOr(Found(data, wires, 1, 4, 2), <<>>)]
  BY DEF DecodeFragment, Fields, Found, Breaks, FragmentWires
<1> HIDE DEF wires
<1>2. Breaks(data, wires, 1) = FALSE /\ Found(data, wires, 1, 1, 0) = index  BY YieldsAll DEF wires
<1>3. Found(data, wires, 1, 2, 0) = seq /\ Found(data, wires, 1, 3, 0) = num  BY YieldsAll DEF wires
<1>4. Found(data, wires, 1, 4, 2) = payload  BY YieldsAll DEF wires
<1> QED  BY <1>1, <1>2, <1>3, <1>4, Zenon

\* What the four parts of a fragment yield.
LEMMA FragmentYields ==
  ASSUME NEW index \in Nat, NEW seq \in Nat, NEW num \in Nat, NEW payload \in Seq(Byte),
         NEW number, NEW wire
  PROVE  Yields(EncodeFragment(index, seq, num, payload), FragmentWires, number, wire,
                ((OneIf(1 = number /\ wire = 0, index) \o OneIf(2 = number /\ wire = 0, seq))
                  \o OneIf(3 = number /\ wire = 0, num)) \o OneIf(4 = number /\ wire = 2, payload))
<1> DEFINE a == Heading(8, index)
           b == Heading(16, seq)
           c == Heading(24, num)
           d == LengthDelimited(34, payload)
           A == OneIf(1 = number /\ wire = 0, index)
           B == OneIf(2 = number /\ wire = 0, seq)
           C == OneIf(3 = number /\ wire = 0, num)
           D == OneIf(4 = number /\ wire = 2, payload)
<1>1. /\ 8 \in 0..127 /\ 8 % 8 = 0 /\ 8 \div 8 = 1 /\ 16 \in 0..127 /\ 16 % 8 = 0 /\ 16 \div 8 = 2
      /\ 24 \in 0..127 /\ 24 % 8 = 0 /\ 24 \div 8 = 3 /\ 34 \in 0..127 /\ 34 % 8 = 2 /\ 34 \div 8 = 4
  OBVIOUS
<1>2. 0 \in FragmentWires /\ 2 \in FragmentWires  BY DEF FragmentWires
<1>3. Yields(a, FragmentWires, number, wire, A)
  <2>1. Yields(a, FragmentWires, number, wire, OneIf(8 \div 8 = number /\ wire = 0, index))
    BY <1>1, <1>2, YieldsVarint
  <2> HIDE DEF a
  <2> QED  BY <1>1, <2>1
<1>4. Yields(b, FragmentWires, number, wire, B)
  <2>1. Yields(b, FragmentWires, number, wire, OneIf(16 \div 8 = number /\ wire = 0, seq))
    BY <1>1, <1>2, YieldsVarint
  <2> HIDE DEF b
  <2> QED  BY <1>1, <2>1
<1>5. Yields(c, FragmentWires, number, wire, C)
  <2>1. Yields(c, FragmentWires, number, wire, OneIf(24 \div 8 = number /\ wire = 0, num))
    BY <1>1, <1>2, YieldsVarint
  <2> HIDE DEF c
  <2> QED  BY <1>1, <2>1
<1>6. Yields(d, FragmentWires, number, wire, D)
  <2>1. Yields(d, FragmentWires, number, wire, OneIf(34 \div 8 = number /\ wire = 2, payload))
    BY <1>1, <1>2, YieldsBytes
  <2> HIDE DEF d
  <2> QED  BY <1>1, <2>1
<1>7. EncodeFragment(index, seq, num, payload) = ((a \o b) \o c) \o d  BY FragmentParts
<1> HIDE DEF a, b, c, d, A, B, C, D
<1>8. Yields(a \o b, FragmentWires, number, wire, A \o B)  BY <1>3, <1>4, YieldsBoth
<1>9. Yields((a \o b) \o c, FragmentWires, number, wire, (A \o B) \o C)  BY <1>5, <1>8, YieldsBoth
<1>10. Yields(((a \o b) \o c) \o d, FragmentWires, number, wire, ((A \o B) \o C) \o D)
  BY <1>6, <1>9, YieldsBoth
<1> QED  BY <1>7, <1>10, Zenon DEF A, B, C, D

(* decode_fragment inverts encode_fragment.                                *)
LEMMA FragmentReads ==
  ASSUME NEW index \in Nat, NEW seq \in Nat, NEW num \in Nat, NEW payload \in Seq(Byte)
  PROVE  DecodeFragment(EncodeFragment(index, seq, num, payload)) =
           [raised |-> FALSE, index |-> index, seq |-> seq, num |-> num, payload |-> payload]
<1> DEFINE data == EncodeFragment(index, seq, num, payload)
           All(number, wire) ==
             ((OneIf(1 = number /\ wire = 0, index) \o OneIf(2 = number /\ wire = 0, seq))
                \o OneIf(3 = number /\ wire = 0, num)) \o OneIf(4 = number /\ wire = 2, payload)
<1>1. \A number, wire : Yields(data, FragmentWires, number, wire, All(number, wire))
  BY FragmentYields
<1>2. /\ All(1, 0) = ((<<index>> \o <<>>) \o <<>>) \o <<>>
      /\ All(2, 0) = ((<<>> \o <<seq>>) \o <<>>) \o <<>>
      /\ All(3, 0) = ((<<>> \o <<>>) \o <<num>>) \o <<>>
      /\ All(4, 2) = ((<<>> \o <<>>) \o <<>>) \o <<payload>>
  BY DEF OneIf
<1> HIDE DEF data, All
<1>3. /\ All(1, 0) = <<index>> /\ All(2, 0) = <<seq>> /\ All(3, 0) = <<num>> /\ All(4, 2) = <<payload>>
  BY <1>2, Single, Zenon
<1>4. /\ Yields(data, FragmentWires, 1, 0, <<index>>) /\ Yields(data, FragmentWires, 2, 0, <<seq>>)
      /\ Yields(data, FragmentWires, 3, 0, <<num>>) /\ Yields(data, FragmentWires, 4, 2, <<payload>>)
  BY <1>1, <1>3, Zenon
<1>5. DecodeFragment(data) =
        [raised |-> FALSE, index |-> LastOr(<<index>>, 0), seq |-> LastOr(<<seq>>, 0),
         num |-> LastOr(<<num>>, 0), payload |-> LastOr(<<payload>>, <<>>)]
  BY <1>4, Decoded
<1>6. /\ LastOr(<<index>>, 0) = index /\ LastOr(<<seq>>, 0) = seq /\ LastOr(<<num>>, 0) = num
      /\ LastOr(<<payload>>, <<>>) = payload
  BY Single
<1> QED  BY <1>5, <1>6, Zenon DEF data

-----------------------------------------------------------------------------
(* The chunks of a byte string, one after the other, are the byte string.   *)

\* Multiples of the payload size.
LEMMA Multiples ==
  \A size \in Nat : size >= 1 =>
    /\ \A k \in Nat : k * size \in Nat /\ (k + 1) * size = k * size + size
    /\ \A k, m \in Nat : k <= m => k * size <= m * size
    /\ \A k \in Nat : (k \div size) * size <= k /\ k < (k \div size + 1) * size /\ k \div size \in Nat
<1> TAKE size \in Nat
<1> HAVE size >= 1
<1>1. \A k \in Nat : k * size \in Nat /\ (k + 1) * size = k * size + size  OBVIOUS
<1>2. \A k, m \in Nat : k <= m => k * size <= m * size
  <2> TAKE k, m \in Nat
  <2> HAVE k <= m
  <2>1. PICK d \in Nat : m = k + d
    <3>1. m - k \in Nat /\ m = k + (m - k)  OBVIOUS
    <3> QED  BY <3>1
  <2>2. m * size = k * size + d * size  BY <2>1
  <2>3. d * size \in Nat /\ k * size \in Nat  BY <1>1
  <2> QED  BY <2>2, <2>3
<1>3. \A k \in Nat : (k \div size) * size <= k /\ k < (k \div size + 1) * size /\ k \div size \in Nat
  OBVIOUS
<1> QED  BY <1>1, <1>2, <1>3

\* Cutting and joining give back the bytes.
LEMMA ChunksJoin ==
  ASSUME NEW bytes \in Seq(Byte), NEW size \in Position
  PROVE  FlattenSeq(Chunks(bytes, size)) = bytes
<1>1. PICK length \in Nat : length = Len(bytes)  BY LenProperties
<1>2. PICK n \in Nat : n = Len(Chunks(bytes, size)) /\ n >= 1
  BY ChunkCount DEF Position
<1>3. Chunks(bytes, size) \in Seq(Seq(Byte))  BY ChunkCount
<1>4. n = IF length = 0 THEN 1 ELSE (length - 1) \div size + 1
  <2>1. bytes = <<>> <=> length = 0  BY <1>1, EmptySeq
  <2> QED  BY <1>1, <1>2, <2>1, ChunkCount
<1>5. size \in Nat /\ size >= 1  BY DEF Position
<1>6. (n - 1) * size <= length /\ length <= n * size
  <2>1. CASE length = 0
    <3>1. n - 1 = 0 /\ 0 * size = 0 /\ n * size \in Nat  BY <1>4, <1>5, <2>1
    <3> QED  BY <2>1, <3>1
  <2>2. CASE length # 0
    <3>1. PICK k \in Nat : k = length - 1  BY <2>2
    <3>2. (k \div size) * size <= k /\ k < (k \div size + 1) * size /\ k \div size \in Nat
      BY <1>5, Multiples
    <3>3. n = k \div size + 1 /\ n - 1 = k \div size  BY <1>4, <2>2, <3>1, <3>2
    <3>4. (n - 1) * size <= k /\ k < n * size  BY <3>2, <3>3
    <3>5. (n - 1) * size \in Nat /\ n * size \in Nat  BY <1>2, <1>5, Multiples
    <3> QED  BY <3>1, <3>4, <3>5
  <2> QED  BY <2>1, <2>2
<1> DEFINE cut(i) == IF i * size < length THEN i * size ELSE length
           f == [i \in 0..n |-> SubSeq(bytes, 1, cut(i))]
<1>7. \A i \in 0..n : cut(i) \in Nat /\ cut(i) <= length
  <2> TAKE i \in 0..n
  <2>1. i * size \in Nat  BY <1>5, Multiples
  <2> QED  BY <2>1
<1>8. cut(0) = 0 /\ cut(n) = length
  <2>1. 0 * size = 0 /\ n * size \in Nat  BY <1>5, Multiples
  <2> QED  BY <1>6, <2>1
<1>9. \A i \in 1..n :
        /\ i - 1 \in 0..n /\ i \in 0..n /\ cut(i - 1) = (i - 1) * size /\ cut(i - 1) <= cut(i)
        /\ i * size = (i - 1) * size + size /\ (i - 1) * size \in Nat
  <2> TAKE i \in 1..n
  <2>1. PICK k \in Nat : k = i - 1 /\ k <= n - 1 /\ i = k + 1  OBVIOUS
  <2>2. k * size \in Nat /\ i * size = k * size + size  BY <1>5, <2>1, Multiples
  <2>3. k * size <= (n - 1) * size /\ (n - 1) * size \in Nat
    <3>1. PICK m \in Nat : m = n - 1  BY <1>2
    <3>2. k <= m  BY <2>1, <3>1
    <3>3. k * size <= m * size /\ m * size \in Nat  BY <1>5, <3>2, Multiples
    <3> QED  BY <3>1, <3>3
  <2>4. k * size <= length  BY <1>6, <2>2, <2>3
  <2>5. cut(k) = k * size /\ cut(k) <= cut(i)  BY <1>5, <2>2, <2>4
  <2> QED  BY <2>1, <2>2, <2>5
<1> HIDE DEF cut
<1>10. ASSUME NEW i \in 1..n
       PROVE  Chunks(bytes, size)[i] = SubSeq(bytes, cut(i - 1) + 1, cut(i))
  <2>1. Chunks(bytes, size)[i] = Slice(bytes, (i - 1) * size + 1, size)
    <3>1. i \in 1..Len(Chunks(bytes, size))  BY <1>2
    <3> QED  BY <3>1, ChunkCount
  <2>2. ((i - 1) * size + 1) + size - 1 = i * size /\ cut(i - 1) = (i - 1) * size
    <3>1. PICK k \in Nat : k = (i - 1) * size  BY <1>9
    <3>2. i * size = k + size /\ cut(i - 1) = k  BY <1>9, <3>1
    <3>3. (k + 1) + size - 1 = k + size  BY <1>5
    <3> QED  BY <3>1, <3>2, <3>3
  <2>3. Slice(bytes, (i - 1) * size + 1, size) = SubSeq(bytes, cut(i - 1) + 1, cut(i))
    BY <1>1, <2>2 DEF Slice, cut
  <2> QED  BY <2>1, <2>3
<1>11. \A i \in 0..n : SubSeq(bytes, 1, cut(i)) \in Seq(Byte)
  <2> TAKE i \in 0..n
  <2>1. 1 \in Int /\ cut(i) \in Int /\ \A j \in 1..cut(i) : j \in 1..Len(bytes)  BY <1>1, <1>7
  <2>2. \A j \in 1..cut(i) : bytes[j] \in Byte  BY <2>1, ElementOfSeq
  <2> QED  BY <2>1, <2>2, SubSeqProperties
<1>12. f \in [0..n -> Seq(Byte)]  BY <1>11
<1>13. f[0] = <<>>
  <2>1. SubSeq(bytes, 1, 0) = <<>>  BY SubSeqEmpty
  <2>2. 0 \in 0..n  BY <1>2
  <2> QED  BY <1>8, <2>1, <2>2
<1>14. ASSUME NEW i \in 1..n  PROVE f[i] = f[i - 1] \o Chunks(bytes, size)[i]
  <2>1. /\ 1 \in 1..(Len(bytes) + 1) /\ cut(i - 1) \in (1 - 1)..Len(bytes)
        /\ cut(i) \in cut(i - 1)..Len(bytes)
    BY <1>1, <1>7, <1>9
  <2>2. SubSeq(bytes, 1, cut(i - 1)) \o SubSeq(bytes, cut(i - 1) + 1, cut(i)) = SubSeq(bytes, 1, cut(i))
    BY <2>1, ConcatAdjacentSubSeq
  <2>3. f[i] = SubSeq(bytes, 1, cut(i)) /\ f[i - 1] = SubSeq(bytes, 1, cut(i - 1))  BY <1>9
  <2> HIDE DEF f
  <2> QED  BY <1>10, <2>2, <2>3, Zenon
<1>15. f[n] = bytes
  <2>1. f[n] = SubSeq(bytes, 1, Len(bytes))  BY <1>1, <1>2, <1>8
  <2> QED  BY <2>1, SubSeqFull
<1> HIDE DEF f
<1>16. Flattens(f, Chunks(bytes, size), Byte)  BY <1>2, <1>12, <1>13, <1>14 DEF Flattens
<1> QED  BY <1>2, <1>3, <1>15, <1>16, FlattenIs

\* The fragments carry these bytes, cut into chunks of this size.
Carry(frags, bytes, size) ==
  /\ bytes \in Seq(Byte) /\ size \in Position
  /\ DOMAIN frags = 1..Len(Chunks(bytes, size))
  /\ \A i \in DOMAIN frags :
       /\ DecodeFragment(frags[i]).seq = i - 1
       /\ DecodeFragment(frags[i]).num = Len(Chunks(bytes, size))
       /\ DecodeFragment(frags[i]).payload = Chunks(bytes, size)[i]

\* _Reassembly joins fragments that carry the chunks of a byte string to that string.
LEMMA JoinedIs ==
  ASSUME NEW frags, NEW bytes, NEW size, Carry(frags, bytes, size)
  PROVE  Joined(frags) = bytes
<1> DEFINE chunks == Chunks(bytes, size)
           parts == [i \in DOMAIN frags |-> DecodeFragment(frags[i])]
           Part(s) == CHOOSE i \in DOMAIN parts : parts[i].seq = s
<1>1. bytes \in Seq(Byte) /\ size \in Position  BY DEF Carry
<1>2. chunks \in Seq(Seq(Byte)) /\ FlattenSeq(chunks) = bytes  BY <1>1, ChunkCount, ChunksJoin
<1>3. PICK n \in Nat : n = Len(chunks) /\ n >= 1  BY <1>1, ChunkCount DEF Position
<1>4. DOMAIN parts = 1..n
      /\ \A i \in 1..n : parts[i].seq = i - 1 /\ parts[i].num = n /\ parts[i].payload = chunks[i]
  BY <1>3 DEF Carry
<1>5. Joined(frags) = FlattenSeq([s \in 1..parts[1].num |-> parts[Part(s - 1)].payload])
  BY DEF Joined
<1> HIDE DEF parts, chunks
<1>6. parts[1].num = n  BY <1>3, <1>4
<1>7. ASSUME NEW s \in 1..n  PROVE parts[Part(s - 1)].payload = chunks[s]
  <2>1. s \in DOMAIN parts /\ parts[s].seq = s - 1  BY <1>4
  <2>2. Part(s - 1) \in DOMAIN parts /\ parts[Part(s - 1)].seq = s - 1  BY <2>1
  <2>3. Part(s - 1) = s
    <3> HIDE DEF Part
    <3>1. Part(s - 1) \in 1..n /\ Part(s - 1) - 1 = s - 1  BY <1>4, <2>2
    <3> QED  BY <3>1
  <2> QED  BY <1>4, <2>3
<1>8. [s \in 1..n |-> parts[Part(s - 1)].payload] = chunks
  <2>1. chunks = [s \in 1..n |-> chunks[s]]  BY <1>2, <1>3, LenProperties
  <2> HIDE DEF Part
  <2> QED  BY <1>7, <2>1
<1> QED  BY <1>2, <1>5, <1>6, <1>8

\* The payload size is never zero.
LEMMA PayloadSize ==
  \A m \in Nat : FragmentPayload(m) \in Position
BY DEF FragmentPayload, Position

-----------------------------------------------------------------------------
\* What is in the characteristic's log are the fragments of the last command,
\* cut for the MTU of the connection.
OutInv ==
  /\ mtu \in Bits31
  /\ pc = "connect" => out = <<>>
  /\ out # <<>> =>
       /\ next - 1 \in Index /\ command \in Command
       /\ out = Fragments(next - 1, command, FragmentPayload(mtu))

\* That is so at every moment.
LEMMA OutStep == Spec => []OutInv
<1>1. Init => OutInv
  <2>1. 0 \in Bits31  BY DEF Bits31
  <2> QED  BY <2>1 DEF Init, OutInv
<1>2. OutInv /\ [Next]_vars => OutInv'
  <2> SUFFICES ASSUME OutInv, [Next]_vars  PROVE OutInv'
    OBVIOUS
  <2> USE DEF OutInv
  <2>1. ASSUME NEW m \in Mtu, NEW i \in Index, Connect(m, i)  PROVE OutInv'
    <3>1. m \in Bits31  BY NumbersAssumption
    <3> QED  BY <2>1, <3>1 DEF Connect
  <2>2. ASSUME NEW c \in Command, SendCommand(c)  PROVE OutInv'
    <3>1. next \in Index /\ next \in Nat  BY <2>2, NumbersAssumption DEF SendCommand, Bits31
    <3>2. (next + 1) - 1 = next  BY <3>1
    <3>3. next' = next + 1 /\ command' = c /\ mtu' = mtu /\ pc' = pc /\ pc = "session"
          /\ out' = Fragments(next, c, FragmentPayload(mtu))
      BY <2>2 DEF SendCommand
    <3>4. next' - 1 = next  BY <3>2, <3>3
    <3> QED  BY <3>1, <3>3, <3>4
  <2>3. ASSUME NEW m \in Message, NEW size \in Size, NEW style \in Style, Capture(m, size, style)
        PROVE OutInv'
    BY <2>3 DEF Capture, ForgetCommand
  <2>4. ASSUME NEW id \in Identifier, BeginWrite(id)  PROVE OutInv'
    BY <2>4 DEF BeginWrite, ForgetCommand
  <2>5. CASE WriteCut  BY <2>5 DEF WriteCut
  <2>6. CASE Replace  BY <2>6 DEF Replace
  <2>7. CASE UNCHANGED vars  BY <2>7 DEF vars
  <2> QED  BY <2>1, <2>2, <2>3, <2>4, <2>5, <2>6, <2>7 DEF Next
<1> QED  BY <1>1, <1>2, PTL DEF Spec

(* No fragment send_command writes is longer than the negotiated MTU allows,   *)
(* whatever the command, its index and the MTU are.                            *)
THEOREM EveryFragmentFits == Spec => []FragmentsFit
<1>1. OutInv => FragmentsFit
  <2> SUFFICES ASSUME OutInv, mtu >= 180, NEW i \in DOMAIN out  PROVE Len(out[i]) <= mtu - 3
    BY DEF FragmentsFit
  <2>1. out # <<>>  OBVIOUS
  <2>2. /\ next - 1 \in Index /\ command \in Command /\ mtu \in Bits31
        /\ out = Fragments(next - 1, command, FragmentPayload(mtu))
    BY <2>1 DEF OutInv
  <2>3. next - 1 \in Bits31 /\ command \in Seq(Byte) /\ Len(command) \in Bits31
    BY <2>2, ContentsAssumption, NumbersAssumption
  <2> QED  BY <2>2, <2>3, FragmentFits
<1> QED  BY <1>1, OutStep, PTL

(* Every command, joined from its fragments, is the command that was sent, and *)
(* every fragment is numbered as the receiver needs it, whatever the command,  *)
(* its index and the MTU are.                                                  *)
THEOREM EveryCommandCrosses == Spec => []CommandsCross
<1>1. OutInv => CommandsCross
  <2> SUFFICES ASSUME OutInv, out # <<>>
               PROVE  /\ Joined(out) = command
                      /\ \A i \in DOMAIN out :
                           /\ ~DecodeFragment(out[i]).raised
                           /\ DecodeFragment(out[i]).index = next - 1
                           /\ DecodeFragment(out[i]).seq = i - 1
                           /\ DecodeFragment(out[i]).num = Len(out)
    BY DEF CommandsCross
  <2> DEFINE index == next - 1
             size == FragmentPayload(mtu)
             chunks == Chunks(command, size)
  <2>1. /\ index \in Nat /\ command \in Seq(Byte) /\ size \in Position
        /\ out = Fragments(index, command, size)
    <3>1. index \in Bits31 /\ mtu \in Bits31 /\ command \in Command
      BY NumbersAssumption DEF OutInv
    <3>2. index \in Nat /\ mtu \in Nat  BY <3>1 DEF Bits31
    <3> QED  BY <3>1, <3>2, ContentsAssumption, PayloadSize DEF OutInv
  <2> HIDE DEF index, size
  <2>2. PICK n \in Nat : n = Len(chunks) /\ n >= 1  BY <2>1, ChunkCount DEF Position
  <2>3. /\ DOMAIN out = 1..n
        /\ \A i \in 1..n : out[i] = EncodeFragment(index, i - 1, n, chunks[i])
    BY <2>1, <2>2, FragmentsAre
  <2>4. ASSUME NEW i \in 1..n
        PROVE  DecodeFragment(out[i]) =
                 [raised |-> FALSE, index |-> index, seq |-> i - 1, num |-> n, payload |-> chunks[i]]
    <3>1. i - 1 \in Nat /\ i \in 1..Len(Chunks(command, size))  BY <2>2
    <3>2. chunks[i] \in Seq(Byte)  BY <2>1, <3>1, ChunkSize
    <3> HIDE DEF chunks
    <3>3. DecodeFragment(EncodeFragment(index, i - 1, n, chunks[i])) =
            [raised |-> FALSE, index |-> index, seq |-> i - 1, num |-> n, payload |-> chunks[i]]
      BY <2>1, <3>1, <3>2, FragmentReads
    <3> QED  BY <2>3, <3>3
  <2>5. Len(out) = n
    <3>1. out = [i \in DOMAIN chunks |-> EncodeFragment(index, i - 1, Len(chunks), chunks[i])]
      BY <2>1 DEF Fragments
    <3>2. DOMAIN chunks = 1..n  BY <2>1, <2>2, ChunkCount, LenProperties
    <3> HIDE DEF chunks
    <3> QED  BY <3>1, <3>2
  <2>6. Carry(out, command, size)  BY <2>1, <2>2, <2>3, <2>4 DEF Carry
  <2>7. Joined(out) = command  BY <2>6, JoinedIs
  <2> QED  BY <2>3, <2>4, <2>5, <2>7 DEF index
<1> QED  BY <1>1, OutStep, PTL

-----------------------------------------------------------------------------
(* A fragment of the pendant reads the same in each of its styles.          *)

\* A number that is left out if it is zero.
LEMMA YieldsOptional ==
  ASSUME NEW tag \in 0..127, tag % 8 = 0, NEW n \in Nat, NEW number, NEW wire
  PROVE  Yields(IF n = 0 THEN <<>> ELSE <<tag>> \o Varint[n], FragmentWires, number, wire,
                IF n = 0 THEN <<>> ELSE OneIf(tag \div 8 = number /\ wire = 0, n))
<1>1. 0 \in FragmentWires  BY DEF FragmentWires
<1>2. Yields(Heading(tag, n), FragmentWires, number, wire, OneIf(tag \div 8 = number /\ wire = 0, n))
  BY <1>1, YieldsVarint
<1>3. Yields(<<>>, FragmentWires, number, wire, <<>>)  BY YieldsNothing
<1>4. CASE n = 0  BY <1>3, <1>4, Zenon
<1>5. CASE n # 0  BY <1>2, <1>5, Zenon DEF Heading
<1> QED  BY <1>4, <1>5

\* Fields left out for being zero are read as zero.
LEMMA SparseReads ==
  ASSUME NEW seq \in Nat, NEW num \in Nat, NEW payload \in Seq(Byte)
  PROVE  Means(Encoded("sparse", seq, num, payload), seq, num, payload)
<1> DEFINE a == IF seq = 0 THEN <<>> ELSE <<16>> \o Varint[seq]
           b == IF num = 0 THEN <<>> ELSE <<24>> \o Varint[num]
           c == IF payload = <<>> THEN <<>> ELSE LengthDelimited(34, payload)
           A(number, wire) == IF seq = 0 THEN <<>> ELSE OneIf(2 = number /\ wire = 0, seq)
           B(number, wire) == IF num = 0 THEN <<>> ELSE OneIf(3 = number /\ wire = 0, num)
           C(number, wire) == IF payload = <<>> THEN <<>> ELSE OneIf(4 = number /\ wire = 2, payload)
           data == (a \o b) \o c
<1>1. /\ 16 \in 0..127 /\ 16 % 8 = 0 /\ 16 \div 8 = 2 /\ 24 \in 0..127 /\ 24 % 8 = 0 /\ 24 \div 8 = 3
      /\ 34 \in 0..127 /\ 34 % 8 = 2 /\ 34 \div 8 = 4 /\ 2 \in FragmentWires
  BY DEF FragmentWires
<1>2. Encoded("sparse", seq, num, payload) = data  BY DEF Encoded
<1>3. ASSUME NEW number, NEW wire
      PROVE  Yields(data, FragmentWires, number, wire, (A(number, wire) \o B(number, wire)) \o C(number, wire))
  <2>1. Yields(a, FragmentWires, number, wire, A(number, wire))
    <3>1. Yields(a, FragmentWires, number, wire,
                 IF seq = 0 THEN <<>> ELSE OneIf(16 \div 8 = number /\ wire = 0, seq))
      BY <1>1, YieldsOptional
    <3> HIDE DEF a
    <3> QED  BY <1>1, <3>1
  <2>2. Yields(b, FragmentWires, number, wire, B(number, wire))
    <3>1. Yields(b, FragmentWires, number, wire,
                 IF num = 0 THEN <<>> ELSE OneIf(24 \div 8 = number /\ wire = 0, num))
      BY <1>1, YieldsOptional
    <3> HIDE DEF b
    <3> QED  BY <1>1, <3>1
  <2>3. Yields(c, FragmentWires, number, wire, C(number, wire))
    <3>1. Yields(LengthDelimited(34, payload), FragmentWires, number, wire,
                 OneIf(34 \div 8 = number /\ wire = 2, payload))
      BY <1>1, YieldsBytes
    <3>2. Yields(<<>>, FragmentWires, number, wire, <<>>)  BY YieldsNothing
    <3>3. CASE payload = <<>>  BY <3>2, <3>3, Zenon
    <3>4. CASE payload # <<>>
      <4>1. Yields(LengthDelimited(34, payload), FragmentWires, number, wire,
                   OneIf(4 = number /\ wire = 2, payload))
        BY <1>1, <3>1
      <4> QED  BY <3>4, <4>1, Zenon
    <3> QED  BY <3>3, <3>4
  <2> HIDE DEF a, b, c, A, B, C
  <2>4. Yields(a \o b, FragmentWires, number, wire, A(number, wire) \o B(number, wire))
    BY <2>1, <2>2, YieldsBoth
  <2> QED  BY <2>3, <2>4, YieldsBoth
<1>4. /\ A(1, 0) = <<>> /\ B(1, 0) = <<>> /\ C(1, 0) = <<>>
      /\ A(2, 0) = (IF seq = 0 THEN <<>> ELSE <<seq>>) /\ B(2, 0) = <<>> /\ C(2, 0) = <<>>
      /\ A(3, 0) = <<>> /\ B(3, 0) = (IF num = 0 THEN <<>> ELSE <<num>>) /\ C(3, 0) = <<>>
      /\ A(4, 2) = <<>> /\ B(4, 2) = <<>> /\ C(4, 2) = (IF payload = <<>> THEN <<>> ELSE <<payload>>)
  BY DEF OneIf
<1> HIDE DEF data, A, B, C
<1> DEFINE S == IF seq = 0 THEN <<>> ELSE <<seq>>
           N == IF num = 0 THEN <<>> ELSE <<num>>
           P == IF payload = <<>> THEN <<>> ELSE <<payload>>
<1>5. /\ LastOr(<<>>, 0) = 0 /\ LastOr(S, 0) = seq /\ LastOr(N, 0) = num
      /\ LastOr(P, <<>>) = payload
  BY Single
<1>6. /\ (S \o <<>>) \o <<>> = S /\ (<<>> \o N) \o <<>> = N /\ (<<>> \o <<>>) \o P = P
      /\ (<<>> \o <<>>) \o <<>> = <<>>
  BY Single
<1> HIDE DEF S, N, P
<1>7. /\ Yields(data, FragmentWires, 1, 0, <<>>) /\ Yields(data, FragmentWires, 2, 0, S)
      /\ Yields(data, FragmentWires, 3, 0, N) /\ Yields(data, FragmentWires, 4, 2, P)
  <2>1. /\ Yields(data, FragmentWires, 1, 0, (A(1, 0) \o B(1, 0)) \o C(1, 0))
        /\ Yields(data, FragmentWires, 2, 0, (A(2, 0) \o B(2, 0)) \o C(2, 0))
        /\ Yields(data, FragmentWires, 3, 0, (A(3, 0) \o B(3, 0)) \o C(3, 0))
        /\ Yields(data, FragmentWires, 4, 2, (A(4, 2) \o B(4, 2)) \o C(4, 2))
    BY <1>3
  <2>2. A(2, 0) = S /\ B(3, 0) = N /\ C(4, 2) = P  BY <1>4 DEF S, N, P
  <2>3. /\ (A(1, 0) \o B(1, 0)) \o C(1, 0) = <<>> /\ (A(2, 0) \o B(2, 0)) \o C(2, 0) = S
        /\ (A(3, 0) \o B(3, 0)) \o C(3, 0) = N /\ (A(4, 2) \o B(4, 2)) \o C(4, 2) = P
    BY <1>4, <1>6, <2>2, Zenon
  <2> QED  BY <2>1, <2>3, Zenon
<1>8. DecodeFragment(data) =
        [raised |-> FALSE, index |-> LastOr(<<>>, 0), seq |-> LastOr(S, 0),
         num |-> LastOr(N, 0), payload |-> LastOr(P, <<>>)]
  BY <1>7, Decoded
<1>9. DecodeFragment(data) =
        [raised |-> FALSE, index |-> 0, seq |-> seq, num |-> num, payload |-> payload]
  BY <1>5, <1>8, Zenon
<1> QED  BY <1>2, <1>9 DEF Means

\* Fields this client does not know are skipped.
LEMMA ExtendedReads ==
  ASSUME NEW seq \in Nat, NEW num \in Nat, NEW payload \in Seq(Byte)
  PROVE  Means(Encoded("extended", seq, num, payload), seq, num, payload)
<1> DEFINE a == Heading(40, 1)
           b == EncodeFragment(0, seq, num, payload)
           c == LengthDelimited(50, <<18>>)
           A(number, wire) == OneIf(5 = number /\ wire = 0, 1)
           B(number, wire) ==
             ((OneIf(1 = number /\ wire = 0, 0) \o OneIf(2 = number /\ wire = 0, seq))
                \o OneIf(3 = number /\ wire = 0, num)) \o OneIf(4 = number /\ wire = 2, payload)
           C(number, wire) == OneIf(6 = number /\ wire = 2, <<18>>)
           data == (a \o b) \o c
<1>1. /\ 40 \in 0..127 /\ 40 % 8 = 0 /\ 40 \div 8 = 5 /\ 50 \in 0..127 /\ 50 % 8 = 2 /\ 50 \div 8 = 6
      /\ 0 \in FragmentWires /\ 2 \in FragmentWires
  BY DEF FragmentWires
<1>2. Encoded("extended", seq, num, payload) = data
  <2>1. Varint[1] = <<1>>
    <3>1. 1 \in Nat /\ ~(1 > 127)  OBVIOUS
    <3>2. Varint[1] = IF 1 > 127 THEN <<128 + (1 % 128)>> \o Varint[1 \div 128] ELSE <<1>>
      BY <3>1, VarintIs, Zenon
    <3> QED  BY <3>1, <3>2, Zenon
  <2>2. a = <<40, 1>>
    <3>1. <<40>> \o <<1>> = <<40, 1>>
      <4>1. /\ <<40>> \in Seq(Nat) /\ Len(<<40>>) = 1 /\ <<40>>[1] = 40
            /\ <<1>> \in Seq(Nat) /\ Len(<<1>>) = 1 /\ <<1>>[1] = 1
            /\ <<40, 1>> \in Seq(Nat) /\ Len(<<40, 1>>) = 2 /\ <<40, 1>>[1] = 40 /\ <<40, 1>>[2] = 1
        OBVIOUS
      <4> DEFINE s == <<40>> \o <<1>>
      <4>2. s \in Seq(Nat) /\ Len(s) = 2 /\ s[1] = 40 /\ s[2] = 1
        BY <4>1, ConcatProperties
      <4> HIDE DEF s
      <4>3. \A i \in 1..2 : i = 1 \/ i = 2  OBVIOUS
      <4>4. \A i \in 1..Len(s) : s[i] = <<40, 1>>[i]  BY <4>1, <4>2, <4>3
      <4>5. s = <<40, 1>>  BY <4>1, <4>2, <4>4, SeqEqual
      <4> QED  BY <4>5 DEF s
    <3> QED  BY <2>1, <3>1, Zenon DEF Heading
  <2>3. Encoded("extended", seq, num, payload) = (<<40, 1>> \o b) \o c  BY DEF Encoded
  <2> QED  BY <2>2, <2>3, Zenon
<1>3. ASSUME NEW number, NEW wire
      PROVE  Yields(data, FragmentWires, number, wire, (A(number, wire) \o B(number, wire)) \o C(number, wire))
  <2>1. Yields(a, FragmentWires, number, wire, A(number, wire))
    <3>1. Yields(a, FragmentWires, number, wire, OneIf(40 \div 8 = number /\ wire = 0, 1))
      BY <1>1, YieldsVarint
    <3> HIDE DEF a
    <3> QED  BY <1>1, <3>1
  <2>2. Yields(b, FragmentWires, number, wire, B(number, wire))  BY FragmentYields
  <2>3. Yields(c, FragmentWires, number, wire, C(number, wire))
    <3>1. <<18>> \in Seq(Byte)
      <4>1. 18 \in Byte  BY DEF Byte
      <4> QED  BY <4>1
    <3>2. Yields(c, FragmentWires, number, wire, OneIf(50 \div 8 = number /\ wire = 2, <<18>>))
      BY <1>1, <3>1, YieldsBytes
    <3> HIDE DEF c
    <3> QED  BY <1>1, <3>2
  <2> HIDE DEF a, b, c, A, B, C
  <2>4. Yields(a \o b, FragmentWires, number, wire, A(number, wire) \o B(number, wire))
    BY <2>1, <2>2, YieldsBoth
  <2> QED  BY <2>3, <2>4, YieldsBoth
<1>4. /\ A(1, 0) = <<>> /\ B(1, 0) = ((<<0>> \o <<>>) \o <<>>) \o <<>> /\ C(1, 0) = <<>>
      /\ A(2, 0) = <<>> /\ B(2, 0) = ((<<>> \o <<seq>>) \o <<>>) \o <<>> /\ C(2, 0) = <<>>
      /\ A(3, 0) = <<>> /\ B(3, 0) = ((<<>> \o <<>>) \o <<num>>) \o <<>> /\ C(3, 0) = <<>>
      /\ A(4, 2) = <<>> /\ B(4, 2) = ((<<>> \o <<>>) \o <<>>) \o <<payload>> /\ C(4, 2) = <<>>
  BY DEF OneIf
<1> HIDE DEF data, A, B, C
<1>5. \A x : /\ <<>> \o <<>> = <<>> /\ <<x>> \o <<>> = <<x>> /\ <<>> \o <<x>> = <<x>>  BY Single
<1>6. /\ (A(1, 0) \o B(1, 0)) \o C(1, 0) = <<0>> /\ (A(2, 0) \o B(2, 0)) \o C(2, 0) = <<seq>>
      /\ (A(3, 0) \o B(3, 0)) \o C(3, 0) = <<num>> /\ (A(4, 2) \o B(4, 2)) \o C(4, 2) = <<payload>>
  BY <1>4, <1>5, Zenon
<1>7. /\ Yields(data, FragmentWires, 1, 0, <<0>>) /\ Yields(data, FragmentWires, 2, 0, <<seq>>)
      /\ Yields(data, FragmentWires, 3, 0, <<num>>) /\ Yields(data, FragmentWires, 4, 2, <<payload>>)
  <2>1. /\ Yields(data, FragmentWires, 1, 0, (A(1, 0) \o B(1, 0)) \o C(1, 0))
        /\ Yields(data, FragmentWires, 2, 0, (A(2, 0) \o B(2, 0)) \o C(2, 0))
        /\ Yields(data, FragmentWires, 3, 0, (A(3, 0) \o B(3, 0)) \o C(3, 0))
        /\ Yields(data, FragmentWires, 4, 2, (A(4, 2) \o B(4, 2)) \o C(4, 2))
    BY <1>3
  <2> QED  BY <1>6, <2>1, Zenon
<1>8. DecodeFragment(data) =
        [raised |-> FALSE, index |-> LastOr(<<0>>, 0), seq |-> LastOr(<<seq>>, 0),
         num |-> LastOr(<<num>>, 0), payload |-> LastOr(<<payload>>, <<>>)]
  BY <1>7, Decoded
<1>9. DecodeFragment(data) =
        [raised |-> FALSE, index |-> 0, seq |-> seq, num |-> num, payload |-> payload]
  <2>1. /\ LastOr(<<0>>, 0) = 0 /\ LastOr(<<seq>>, 0) = seq /\ LastOr(<<num>>, 0) = num
        /\ LastOr(<<payload>>, <<>>) = payload
    BY Single
  <2> QED  BY <1>8, <2>1, Zenon
<1> QED  BY <1>2, <1>9 DEF Means

\* A fragment means the same in each style.
LEMMA EncodedReads ==
  ASSUME NEW style \in Style, NEW seq \in Nat, NEW num \in Nat, NEW payload \in Seq(Byte)
  PROVE  Means(Encoded(style, seq, num, payload), seq, num, payload)
<1>1. CASE style = "full"
  <2>1. Encoded(style, seq, num, payload) = EncodeFragment(0, seq, num, payload)  BY <1>1 DEF Encoded
  <2>2. DecodeFragment(EncodeFragment(0, seq, num, payload)) =
          [raised |-> FALSE, index |-> 0, seq |-> seq, num |-> num, payload |-> payload]
    BY FragmentReads
  <2> QED  BY <2>1, <2>2 DEF Means
<1>2. CASE style = "sparse"  BY <1>2, SparseReads
<1>3. CASE style = "extended"  BY <1>3, ExtendedReads
<1> QED  BY <1>1, <1>2, <1>3 DEF Style

-----------------------------------------------------------------------------
(* BatchIngestRequest files.                                                *)

\* f[i] are the bytes of the first i messages.
Batched(f, messages) ==
  /\ f \in [0..Len(messages) -> Seq(Byte)] /\ f[0] = <<>>
  /\ \A i \in 1..Len(messages) : f[i] = f[i - 1] \o LengthDelimited(10, messages[i])
  /\ \A i \in 0..Len(messages) :
       /\ Yields(f[i], BatchWires, 1, 2, SubSeq(messages, 1, i))
       /\ Yields(f[i], BatchWires, 2, 2, <<>>)

\* write_batch_ingest_request adds up the messages, then the identifier.
LEMMA BatchedExists ==
  ASSUME NEW messages \in Seq(Seq(Byte)), NEW id
  PROVE  \E f : /\ Batched(f, messages)
                /\ WriteBatch(messages, id) =
                     f[Len(messages)] \o (IF id = <<>> THEN <<>> ELSE LengthDelimited(18, id))
<1> DEFINE seqs == [i \in DOMAIN messages |-> LengthDelimited(10, messages[i])]
<1>1. PICK n \in Nat : n = Len(messages)  BY LenProperties
<1>2. DOMAIN messages = 1..n /\ \A i \in 1..n : messages[i] \in Seq(Byte)
  BY <1>1, LenProperties, ElementOfSeq
<1>3. \A i \in 1..n : LengthDelimited(10, messages[i]) \in Seq(Byte)
  <2>1. 10 \in Byte  BY DEF Byte
  <2> QED  BY <1>2, <2>1, LengthDelimitedIs
<1>4. seqs \in Seq(Seq(Byte)) /\ Len(seqs) = n
      /\ \A i \in 1..n : seqs[i] = LengthDelimited(10, messages[i])
  <2>1. seqs \in [1..n -> Seq(Byte)] /\ \A i \in 1..n : seqs[i] = LengthDelimited(10, messages[i])
    BY <1>2, <1>3
  <2> HIDE DEF seqs
  <2> QED  BY <2>1
<1>5. WriteBatch(messages, id) =
        FlattenSeq(seqs) \o (IF id = <<>> THEN <<>> ELSE LengthDelimited(18, id))
  BY DEF WriteBatch
<1> HIDE DEF seqs
<1>6. PICK f : Flattens(f, seqs, Byte) /\ FlattenSeq(seqs) = f[Len(seqs)]  BY <1>4, FlattenExists
<1>7. /\ f \in [0..n -> Seq(Byte)] /\ f[0] = <<>>
      /\ \A i \in 1..n : f[i] = f[i - 1] \o LengthDelimited(10, messages[i])
  BY <1>4, <1>6 DEF Flattens
<1> DEFINE Both(i) == /\ Yields(f[i], BatchWires, 1, 2, SubSeq(messages, 1, i))
                      /\ Yields(f[i], BatchWires, 2, 2, <<>>)
           T == {i \in Nat : i <= n => Both(i)}
<1>8. Both(0)
  <2>1. SubSeq(messages, 1, 0) = <<>>  BY SubSeqEmpty
  <2> QED  BY <1>7, <2>1, YieldsNothing
<1>9. ASSUME NEW i \in 1..n, Both(i - 1)  PROVE Both(i)
  <2> DEFINE d == LengthDelimited(10, messages[i])
             head == SubSeq(messages, 1, i - 1)
             all == SubSeq(messages, 1, i)
             e == f[i - 1]
  <2>1. 10 \in 0..127 /\ 10 % 8 = 2 /\ 10 \div 8 = 1 /\ 2 \in BatchWires  BY DEF BatchWires
  <2>2. messages[i] \in Seq(Byte)  BY <1>2
  <2>3. /\ Yields(d, BatchWires, 1, 2, OneIf(10 \div 8 = 1 /\ 2 = 2, messages[i]))
        /\ Yields(d, BatchWires, 2, 2, OneIf(10 \div 8 = 2 /\ 2 = 2, messages[i]))
    BY <2>1, <2>2, YieldsBytes
  <2>4. OneIf(10 \div 8 = 1 /\ 2 = 2, messages[i]) = <<messages[i]>>
        /\ OneIf(10 \div 8 = 2 /\ 2 = 2, messages[i]) = <<>>
    BY <2>1 DEF OneIf
  <2>5. Yields(e, BatchWires, 1, 2, head) /\ Yields(e, BatchWires, 2, 2, <<>>)  BY <1>9
  <2>6. all = head \o <<messages[i]>>
    <3>1. 1 \in 1..Len(messages) /\ i \in 1..Len(messages)  BY <1>1
    <3> QED  BY <3>1, SubSeqRecursiveSecond
  <2>7. f[i] = e \o d  BY <1>7
  <2> HIDE DEF d, head, all, e
  <2>8. Yields(d, BatchWires, 1, 2, <<messages[i]>>) /\ Yields(d, BatchWires, 2, 2, <<>>)
    BY <2>3, <2>4, Zenon
  <2>9. /\ Yields(e \o d, BatchWires, 1, 2, head \o <<messages[i]>>)
        /\ Yields(e \o d, BatchWires, 2, 2, <<>> \o <<>>)
    BY <2>5, <2>8, YieldsBoth
  <2>10. <<>> \o <<>> = <<>>  BY Single
  <2> QED  BY <2>6, <2>7, <2>9, <2>10, Zenon DEF all
<1> HIDE DEF Both
<1>10. T = Nat
  <2>1. ASSUME NEW i \in T  PROVE i + 1 \in T
    <3> SUFFICES ASSUME i + 1 <= n  PROVE Both(i + 1)
      OBVIOUS
    <3>1. i \in Nat /\ i + 1 \in 1..n /\ (i + 1) - 1 = i /\ i <= n  BY <1>1
    <3>2. Both(i)  BY <3>1
    <3> QED  BY <1>9, <3>1, <3>2
  <2>2. T \in SUBSET Nat /\ 0 \in T  BY <1>8
  <2> HIDE DEF T
  <2> QED  BY <2>1, <2>2, SetInduction
<1>11. \A i \in 0..n : Both(i)
  <2> TAKE i \in 0..n
  <2>1. i \in {k \in Nat : k <= n => Both(k)} /\ i <= n  BY <1>10 DEF T
  <2> QED  BY <2>1
<1> HIDE DEF T
<1>12. Batched(f, messages)  BY <1>1, <1>7, <1>11 DEF Batched, Both
<1> QED  BY <1>1, <1>4, <1>5, <1>6, <1>12

\* What the identifier at the end of a file yields.
LEMMA IdentYields ==
  ASSUME NEW id \in Seq(Byte)
  PROVE  LET tail == IF id = <<>> THEN <<>> ELSE LengthDelimited(18, id)
         IN /\ Yields(tail, BatchWires, 1, 2, <<>>)
            /\ Yields(tail, BatchWires, 2, 2, IF id = <<>> THEN <<>> ELSE <<id>>)
<1> DEFINE d == LengthDelimited(18, id)
<1>1. 18 \in 0..127 /\ 18 % 8 = 2 /\ 18 \div 8 = 2 /\ 2 \in BatchWires  BY DEF BatchWires
<1>2. /\ Yields(d, BatchWires, 1, 2, OneIf(18 \div 8 = 1 /\ 2 = 2, id))
      /\ Yields(d, BatchWires, 2, 2, OneIf(18 \div 8 = 2 /\ 2 = 2, id))
  BY <1>1, YieldsBytes
<1>3. OneIf(18 \div 8 = 1 /\ 2 = 2, id) = <<>> /\ OneIf(18 \div 8 = 2 /\ 2 = 2, id) = <<id>>
  BY <1>1 DEF OneIf
<1> HIDE DEF d
<1>4. Yields(d, BatchWires, 1, 2, <<>>) /\ Yields(d, BatchWires, 2, 2, <<id>>)  BY <1>2, <1>3, Zenon
<1>5. /\ Yields(<<>>, BatchWires, 1, 2, <<>>) /\ Yields(<<>>, BatchWires, 2, 2, <<>>)  BY YieldsNothing
<1>6. CASE id = <<>>  BY <1>5, <1>6, Zenon
<1>7. CASE id # <<>>  BY <1>4, <1>7, Zenon DEF d
<1> QED  BY <1>6, <1>7

(* A file that was written to its end reads as what was written.            *)
LEMMA BatchReads ==
  ASSUME NEW messages \in Seq(Seq(Byte)), NEW id \in Seq(Byte)
  PROVE  /\ ReadMessages(WriteBatch(messages, id)) = [raised |-> FALSE, messages |-> messages]
         /\ ReadMetadata(WriteBatch(messages, id)) =
              [raised |-> FALSE, messages |-> Len(messages), ident |-> id,
               size |-> Len(WriteBatch(messages, id))]
<1> DEFINE tail == IF id = <<>> THEN <<>> ELSE LengthDelimited(18, id)
           last == IF id = <<>> THEN <<>> ELSE <<id>>
           data == WriteBatch(messages, id)
<1>1. PICK n \in Nat : n = Len(messages)  BY LenProperties
<1>2. PICK f : Batched(f, messages) /\ data = f[n] \o tail  BY <1>1, BatchedExists
<1>3. Yields(tail, BatchWires, 1, 2, <<>>) /\ Yields(tail, BatchWires, 2, 2, last)  BY IdentYields
<1>4. LastOr(last, <<>>) = id
  <2>1. LastOr(<<id>>, <<>>) = id /\ LastOr(<<>>, <<>>) = <<>>  BY Single
  <2> QED  BY <2>1
<1> DEFINE e == f[n]
<1>5. Yields(e, BatchWires, 1, 2, messages) /\ Yields(e, BatchWires, 2, 2, <<>>)
  <2>1. n \in 0..Len(messages)  BY <1>1
  <2>2. SubSeq(messages, 1, n) = messages  BY <1>1, SubSeqFull
  <2>3. Yields(e, BatchWires, 1, 2, SubSeq(messages, 1, n)) /\ Yields(e, BatchWires, 2, 2, <<>>)
    BY <1>2, <2>1 DEF Batched
  <2> QED  BY <2>2, <2>3, Zenon
<1>6. data = e \o tail  BY <1>2
<1> HIDE DEF tail, last, data, e
<1>7. /\ Yields(e \o tail, BatchWires, 1, 2, messages \o <<>>)
      /\ Yields(e \o tail, BatchWires, 2, 2, <<>> \o last)
  BY <1>3, <1>5, YieldsBoth
<1>8. messages \o <<>> = messages /\ <<>> \o last = last
  <2>1. last \in Seq(Content)  BY <1>3 DEF Yields
  <2> QED  BY <2>1, ConcatEmptySeq
<1>9. Yields(data, BatchWires, 1, 2, messages) /\ Yields(data, BatchWires, 2, 2, last)
  BY <1>6, <1>7, <1>8, Zenon
<1>10. /\ Breaks(data, BatchWires, 1) = FALSE /\ Found(data, BatchWires, 1, 1, 2) = messages
       /\ Found(data, BatchWires, 1, 2, 2) = last
  BY <1>9, YieldsAll
<1>11. /\ ReadMessages(data) =
            [raised |-> Breaks(data, BatchWires, 1), messages |-> Found(data, BatchWires, 1, 1, 2)]
       /\ ReadMetadata(data) =
            [raised |-> Breaks(data, BatchWires, 1), messages |-> Len(Found(data, BatchWires, 1, 1, 2)),
             ident |-> LastOr(Found(data, BatchWires, 1, 2, 2), <<>>), size |-> Len(data)]
  BY DEF ReadMessages, ReadMetadata, Fields, Found, Breaks
<1> QED  BY <1>4, <1>10, <1>11, Zenon DEF data

(* The number of bytes write_batch_ingest_request reports is the size of the *)
(* file.                                                                    *)
LEMMA TotalIsSize ==
  ASSUME NEW messages \in Seq(Seq(Byte)), NEW id \in Seq(Byte)
  PROVE  TotalWritten(messages, id) = Len(WriteBatch(messages, id))
<1> DEFINE Field(b) == 1 + Len(Varint[Len(b)]) + Len(b)
           tail == IF id = <<>> THEN <<>> ELSE LengthDelimited(18, id)
<1>1. PICK n \in Nat : n = Len(messages)  BY LenProperties
<1>2. PICK f : Batched(f, messages) /\ WriteBatch(messages, id) = f[n] \o tail
  BY <1>1, BatchedExists
<1>3. /\ f \in [0..n -> Seq(Byte)] /\ f[0] = <<>>
      /\ \A i \in 1..n : f[i] = f[i - 1] \o LengthDelimited(10, messages[i])
  BY <1>1, <1>2 DEF Batched
<1>4. 10 \in Byte /\ 18 \in Byte  BY DEF Byte
<1>5. \A b \in Seq(Byte) : /\ LengthDelimited(10, b) \in Seq(Byte) /\ Len(LengthDelimited(10, b)) = Field(b)
                           /\ LengthDelimited(18, b) \in Seq(Byte) /\ Len(LengthDelimited(18, b)) = Field(b)
  BY <1>4, LengthDelimitedIs
<1>6. \A i \in 1..n : messages[i] \in Seq(Byte)  BY <1>1, ElementOfSeq
<1> HIDE DEF Field
<1>7. ASSUME NEW i \in 1..n  PROVE Len(f[i]) = Len(f[i - 1]) + Field(messages[i])
  <2> DEFINE d == LengthDelimited(10, messages[i])
  <2>1. d \in Seq(Byte) /\ Len(d) = Field(messages[i])  BY <1>5, <1>6
  <2>2. f[i - 1] \in Seq(Byte)
    <3>1. i - 1 \in 0..n  OBVIOUS
    <3> QED  BY <1>3, <3>1
  <2>3. f[i] = f[i - 1] \o d  BY <1>3
  <2> HIDE DEF d
  <2>4. Len(f[i - 1] \o d) = Len(f[i - 1]) + Len(d)  BY <2>1, <2>2, ConcatProperties
  <2> QED  BY <2>1, <2>3, <2>4, Zenon
<1> DEFINE Step(t) == [i \in 0..n |-> IF i = 0 THEN 0 ELSE t[i - 1] + Field(messages[i])]
           total == CHOOSE t : t = Step(t)
           size == [i \in 0..n |-> Len(f[i])]
<1>8. size = Step(size)
  <2>1. size[0] = 0 /\ \A i \in 1..n : i - 1 \in 0..n /\ size[i - 1] = Len(f[i - 1])
    <3>1. Len(<<>>) = 0 /\ 0 \in 0..n /\ \A i \in 1..n : i - 1 \in 0..n  OBVIOUS
    <3> QED  BY <1>3, <3>1
  <2>2. ASSUME NEW i \in 0..n
        PROVE  size[i] = IF i = 0 THEN 0 ELSE size[i - 1] + Field(messages[i])
    <3>1. CASE i = 0  BY <2>1, <3>1
    <3>2. CASE i # 0
      <4>1. i \in 1..n /\ size[i] = Len(f[i])  BY <3>2
      <4> QED  BY <1>7, <2>1, <3>2, <4>1
    <3> QED  BY <3>1, <3>2
  <2>3. size = [i \in 0..n |-> size[i]]  OBVIOUS
  <2> HIDE DEF size
  <2> QED  BY <2>2, <2>3
<1> HIDE DEF size
<1>9. total = Step(total)  BY <1>8
<1>10. TotalWritten(messages, id) = total[n] + (IF id = <<>> THEN 0 ELSE Field(id))
  BY <1>1 DEF TotalWritten, Field
<1> HIDE DEF total
<1>11. /\ total[0] = 0
       /\ \A i \in 1..n : total[i] = total[i - 1] + Field(messages[i])
  <2>1. 0 \in 0..n /\ \A i \in 1..n : i \in 0..n /\ i # 0  OBVIOUS
  <2> QED  BY <1>9, <2>1
<1> DEFINE T == {i \in Nat : i <= n => total[i] = Len(f[i])}
<1>12. n \in T
  <2>1. 0 \in T
    <3>1. Len(<<>>) = 0  OBVIOUS
    <3> QED  BY <1>3, <1>11, <3>1
  <2>2. ASSUME NEW i \in T  PROVE i + 1 \in T
    <3> SUFFICES ASSUME i + 1 <= n  PROVE total[i + 1] = Len(f[i + 1])
      OBVIOUS
    <3>1. i \in Nat /\ i + 1 \in 1..n /\ (i + 1) - 1 = i /\ i <= n  BY <1>1
    <3>2. total[i] = Len(f[i])  BY <3>1
    <3>3. total[i + 1] = total[i] + Field(messages[i + 1])  BY <1>11, <3>1
    <3>4. Len(f[i + 1]) = Len(f[i]) + Field(messages[i + 1])  BY <1>7, <3>1
    <3> QED  BY <3>2, <3>3, <3>4, Zenon
  <2>3. T \in SUBSET Nat  OBVIOUS
  <2>4. T = Nat
    <3> HIDE DEF T
    <3> QED  BY <2>1, <2>2, <2>3, SetInduction
  <2> QED  BY <2>4
<1>13. total[n] = Len(f[n])  BY <1>12
<1>14. tail \in Seq(Byte) /\ Len(tail) = IF id = <<>> THEN 0 ELSE Field(id)
  <2>1. <<>> \in Seq(Byte) /\ Len(<<>>) = 0  OBVIOUS
  <2> QED  BY <1>5, <2>1
<1>15. f[n] \in Seq(Byte)  BY <1>3
<1> HIDE DEF tail, T
<1>16. Len(f[n] \o tail) = Len(f[n]) + Len(tail)  BY <1>14, <1>15, ConcatProperties
<1> QED  BY <1>2, <1>10, <1>13, <1>14, <1>16, Zenon

-----------------------------------------------------------------------------
(* What was captured is what the pendant sent; the file holds the whole of it *)
(* after a write that returned, and an older capture, or nothing, otherwise.  *)
FileInv ==
  /\ sent \in Seq(Message) /\ raw = sent /\ ident \in Seq(Byte)
  /\ pc = "ok" => bin = WriteBatch(raw, ident) /\ returned = TotalWritten(raw, ident)
  /\ pc # "ok" => bin = Absent \/ \E m \in Message : bin = WriteBatch(<<m>>, <<>>)

\* What is captured is the message that was sent.
LEMMA CaptureKeeps ==
  ASSUME NEW m \in Message, NEW size \in Size, NEW style \in Style, Capture(m, size, style)
  PROVE  raw' = Append(raw, m)
<1> DEFINE chunks == Chunks(m, size)
           frags == [i \in DOMAIN chunks |-> Encoded(style, i - 1, Len(chunks), chunks[i])]
<1>1. m \in Seq(Byte) /\ size \in Position  BY ContentsAssumption, NumbersAssumption
<1>2. PICK n \in Nat : n = Len(chunks)  BY <1>1, ChunkCount DEF Position
<1>3. DOMAIN chunks = 1..n  BY <1>1, <1>2, ChunkCount, LenProperties
<1>4. \A i \in 1..n : chunks[i] \in Seq(Byte)  BY <1>1, <1>2, ChunkSize
<1>5. raw' = Append(raw, Joined(frags))  BY DEF Capture
<1>6. DOMAIN frags = 1..n /\ \A i \in 1..n : frags[i] = Encoded(style, i - 1, n, chunks[i])
  BY <1>2, <1>3
<1> HIDE DEF frags, chunks
<1>7. \A i \in 1..n : Means(frags[i], i - 1, n, chunks[i])
  <2> TAKE i \in 1..n
  <2>1. i - 1 \in Nat /\ chunks[i] \in Seq(Byte)  BY <1>4
  <2>2. Means(Encoded(style, i - 1, n, chunks[i]), i - 1, n, chunks[i])  BY <2>1, EncodedReads
  <2> QED  BY <1>6, <2>2
<1>8. Carry(frags, m, size)  BY <1>1, <1>2, <1>6, <1>7 DEF Carry, Means, chunks
<1>9. Joined(frags) = m  BY <1>8, JoinedIs
<1> QED  BY <1>5, <1>9

\* That is so at every moment.
LEMMA FileStep == Spec => []FileInv
<1>1. Init => FileInv
  <2> SUFFICES ASSUME Init  PROVE FileInv
    OBVIOUS
  <2>1. <<>> \in Seq(Message) /\ <<>> \in Seq(Byte)  OBVIOUS
  <2> QED  BY <2>1 DEF Init, FileInv
<1>2. FileInv /\ [Next]_vars => FileInv'
  <2> SUFFICES ASSUME FileInv, [Next]_vars  PROVE FileInv'
    OBVIOUS
  <2> USE DEF FileInv
  <2>1. ASSUME NEW m \in Mtu, NEW i \in Index, Connect(m, i)  PROVE FileInv'
    BY <2>1 DEF Connect
  <2>2. ASSUME NEW c \in Command, SendCommand(c)  PROVE FileInv'
    BY <2>2 DEF SendCommand
  <2>3. ASSUME NEW m \in Message, NEW size \in Size, NEW style \in Style, Capture(m, size, style)
        PROVE FileInv'
    <3>1. raw' = Append(raw, m)  BY <2>3, CaptureKeeps
    <3>2. /\ sent' = Append(sent, m) /\ pc' = pc /\ pc = "session" /\ bin' = bin /\ ident' = ident
      BY <2>3 DEF Capture
    <3>3. raw' = sent'  BY <3>1, <3>2
    <3>4. sent' \in Seq(Message)  BY <3>2, AppendProperties
    <3> QED  BY <3>2, <3>3, <3>4
  <2>4. ASSUME NEW id \in Identifier, BeginWrite(id)  PROVE FileInv'
    <3>1. id \in Seq(Byte)  BY ContentsAssumption
    <3> QED  BY <2>4, <3>1 DEF BeginWrite
  <2>5. CASE WriteCut  BY <2>5 DEF WriteCut
  <2>6. CASE Replace  BY <2>6 DEF Replace
  <2>7. CASE UNCHANGED vars  BY <2>7 DEF vars
  <2> QED  BY <2>1, <2>2, <2>3, <2>4, <2>5, <2>6, <2>7 DEF Next
<1> QED  BY <1>1, <1>2, PTL DEF Spec

(* At every moment the .bin can be read, and after a write that returned it    *)
(* reads as the messages the pendant sent, whatever they are, however many,    *)
(* and however the pendant cut and encoded them.                               *)
THEOREM BinIsReadable == Spec => []BinReadable
<1>1. FileInv => BinReadable
  <2> SUFFICES ASSUME FileInv, bin # Absent
               PROVE  /\ ~ReadMessages(bin).raised /\ ~ReadMetadata(bin).raised
                      /\ ReadMetadata(bin).messages = Len(ReadMessages(bin).messages)
                      /\ IF pc = "ok"
                         THEN /\ ReadMessages(bin).messages = sent /\ ReadMetadata(bin).ident = ident
                              /\ returned = ReadMetadata(bin).size
                         ELSE \E m \in Message : ReadMessages(bin).messages = <<m>>
    BY DEF BinReadable
  <2>1. CASE pc = "ok"
    <3>1. /\ bin = WriteBatch(raw, ident) /\ returned = TotalWritten(raw, ident)
          /\ raw = sent /\ ident \in Seq(Byte)
      BY <2>1 DEF FileInv
    <3>2. sent \in Seq(Seq(Byte))  BY ContentsAssumption, SeqMonotonic DEF FileInv
    <3>3. /\ ReadMessages(bin) = [raised |-> FALSE, messages |-> sent]
          /\ ReadMetadata(bin) =
               [raised |-> FALSE, messages |-> Len(sent), ident |-> ident, size |-> Len(bin)]
      BY <3>1, <3>2, BatchReads
    <3>4. returned = Len(bin)  BY <3>1, <3>2, TotalIsSize
    <3> QED  BY <2>1, <3>3, <3>4
  <2>2. CASE pc # "ok"
    <3>1. PICK m \in Message : bin = WriteBatch(<<m>>, <<>>)  BY <2>2 DEF FileInv
    <3>2. <<m>> \in Seq(Seq(Byte)) /\ <<>> \in Seq(Byte)  BY ContentsAssumption
    <3>3. /\ ReadMessages(bin) = [raised |-> FALSE, messages |-> <<m>>]
          /\ ReadMetadata(bin) =
               [raised |-> FALSE, messages |-> Len(<<m>>), ident |-> <<>>, size |-> Len(bin)]
      BY <3>1, <3>2, BatchReads
    <3> QED  BY <2>2, <3>3
  <2> QED  BY <2>1, <2>2
<1> QED  BY <1>1, FileStep, PTL

-----------------------------------------------------------------------------
(* Files that were cut off.                                                 *)

\* From p on the data agree with s, as far as they reach.
Agrees(data, p, s) == \A i \in 1..Len(s) : p + i - 1 <= Len(data) => data[p + i - 1] = s[i]

\* Agreement with two byte strings behind one another is agreement with each.
LEMMA AgreesParts ==
  ASSUME NEW data \in Seq(Byte), NEW p \in Position, NEW a \in Seq(Byte), NEW b \in Seq(Byte),
         Agrees(data, p, a \o b)
  PROVE  Agrees(data, p, a) /\ Agrees(data, p + Len(a), b)
<1>1. /\ Len(a \o b) = Len(a) + Len(b)
      /\ \A i \in 1..Len(a) : (a \o b)[i] = a[i]
      /\ \A i \in 1..Len(b) : (a \o b)[Len(a) + i] = b[i]
  BY Joint
<1>2. PICK la \in Nat, lb \in Nat : la = Len(a) /\ lb = Len(b)  BY LenProperties
<1>3. p \in Nat  BY DEF Position
<1>4. \A i \in 1..(la + lb) : p + i - 1 <= Len(data) => data[p + i - 1] = (a \o b)[i]
  BY <1>1, <1>2 DEF Agrees
<1>5. ASSUME NEW i \in 1..la, p + i - 1 <= Len(data)  PROVE data[p + i - 1] = a[i]
  <2>1. i \in 1..(la + lb)  BY <1>2
  <2> QED  BY <1>1, <1>2, <1>4, <1>5, <2>1
<1>6. ASSUME NEW i \in 1..lb, (p + la) + i - 1 <= Len(data)  PROVE data[(p + la) + i - 1] = b[i]
  <2>1. la + i \in 1..(la + lb) /\ p + (la + i) - 1 = (p + la) + i - 1  BY <1>2, <1>3
  <2>2. data[p + (la + i) - 1] = (a \o b)[la + i]  BY <1>4, <1>6, <2>1
  <2>3. (a \o b)[la + i] = b[i]  BY <1>1, <1>2
  <2> QED  BY <2>1, <2>2, <2>3
<1> QED  BY <1>2, <1>5, <1>6 DEF Agrees

\* Agreement with a byte string that ends within the data.
LEMMA AgreesHolds ==
  ASSUME NEW data \in Seq(Byte), NEW p \in Position, NEW s \in Seq(Byte),
         Agrees(data, p, s), p + Len(s) - 1 <= Len(data)
  PROVE  Holds(data, p, s)
<1>1. PICK n \in Nat, l \in Nat : n = Len(s) /\ l = Len(data)  BY LenProperties
<1>2. \A i \in 1..n : p + i - 1 <= l
  <2>1. p \in Nat /\ p + n - 1 <= l  BY <1>1 DEF Position
  <2> QED  BY <1>1, <2>1
<1> QED  BY <1>1, <1>2 DEF Agrees, Holds

(* A varint that is cut off raises.                                         *)
LEMMA CutVarint ==
  ASSUME NEW data \in Seq(Byte), NEW n \in Nat, NEW pos \in Position,
         Agrees(data, pos, Varint[n]), pos + Len(Varint[n]) - 1 > Len(data)
  PROVE  ReadVarint(data, pos).raised = TRUE
<1> DEFINE T == {k \in Nat : \A p \in Position :
                   Agrees(data, p, Varint[k]) /\ p + Len(Varint[k]) - 1 > Len(data)
                     => ReadVarint(data, p).raised = TRUE}
<1>1. ASSUME NEW k \in Nat, \A j \in Nat : j < k => j \in T  PROVE k \in T
  <2> SUFFICES ASSUME NEW p \in Position, Agrees(data, p, Varint[k]),
                      p + Len(Varint[k]) - 1 > Len(data)
               PROVE  ReadVarint(data, p).raised = TRUE
    OBVIOUS
  <2>1. p \in Nat /\ p >= 1 /\ Len(data) \in Nat  BY LenProperties DEF Position
  <2>2. CASE p > Len(data)
    <3>1. ReadVarint(data, p) = NoVarint  BY <2>2, ReadVarintIs
    <3> QED  BY <3>1 DEF NoVarint
  <2>3. CASE p <= Len(data) /\ k > 127
    <3> DEFINE j == k \div 128
               b == 128 + (k % 128)
    <3>1. j \in Nat /\ j < k /\ b \in Byte /\ b \in Nat  BY <2>3, Halves, Zenon
    <3>2. Varint[k] = <<b>> \o Varint[j] /\ Varint[j] \in Seq(Byte)  BY <2>3, <3>1, VarintIs
    <3>3. ~(b < 128)  BY Halves
    <3> HIDE DEF j, b
    <3>4. <<b>> \in Seq(Byte) /\ Len(<<b>>) = 1 /\ <<b>>[1] = b  BY <3>1, OneByte
    <3>5. Agrees(data, p, <<b>>) /\ Agrees(data, p + 1, Varint[j])
      <4>1. Agrees(data, p, <<b>> \o Varint[j])  BY <3>2
      <4> QED  BY <3>2, <3>4, <4>1, AgreesParts
    <3>6. data[p] = b
      <4>1. 1 \in 1..Len(<<b>>) /\ p + 1 - 1 = p  BY <2>1, <3>4
      <4>2. data[p + 1 - 1] = <<b>>[1]  BY <2>3, <3>5, <4>1 DEF Agrees
      <4> QED  BY <3>4, <4>1, <4>2
    <3>7. (p + 1) + Len(Varint[j]) - 1 > Len(data)
      <4>1. PICK x \in Nat, l \in Nat : x = Len(Varint[j]) /\ l = Len(data)
        BY <3>2, LenProperties
      <4>2. Len(Varint[k]) = 1 + x  BY <3>2, <3>4, <4>1, Joint
      <4>3. p + (1 + x) - 1 > l  BY <4>1, <4>2, Zenon
      <4>4. \A u, v, w \in Nat : u + (1 + v) - 1 > w => (u + 1) + v - 1 > w  OBVIOUS
      <4>5. (p + 1) + x - 1 > l  BY <2>1, <4>1, <4>3, <4>4, Zenon
      <4> QED  BY <4>1, <4>5, Zenon
    <3>8. p + 1 \in Position  BY DEF Position
    <3>9. ReadVarint(data, p + 1).raised = TRUE  BY <1>1, <3>1, <3>5, <3>7, <3>8
    <3>10. ReadVarint(data, p) = [ReadVarint(data, p + 1) EXCEPT !.value = data[p] - 128 + 128 * @]
      BY <2>3, <3>3, <3>6, ReadVarintIs
    <3>11. ReadVarint(data, p + 1) \in VarintRead  BY <3>8, ReadVarintIs
    <3> QED  BY <3>9, <3>10, <3>11 DEF VarintRead
  <2>4. CASE p <= Len(data) /\ ~(k > 127)
    <3>1. Varint[k] = <<k>>  BY <2>4, VarintIs, Zenon
    <3>2. Len(Varint[k]) = 1  BY <3>1
    <3>3. p + 1 - 1 > Len(data)  BY <3>2, Zenon
    <3>4. \A u, w \in Nat : u + 1 - 1 > w => ~(u <= w)  OBVIOUS
    <3>5. Len(data) \in Nat  BY <2>1
    <3>6. ~(p <= Len(data))
      <4> HIDE DEF T
      <4> QED  BY <2>1, <3>3, <3>4, <3>5, Zenon
    <3> QED  BY <2>4, <3>6
  <2>5. \A u, w \in Nat : u > w \/ u <= w  OBVIOUS
  <2> QED  BY <2>1, <2>2, <2>3, <2>4, <2>5, Zenon
<1>2. T = Nat
  <2>1. T \in SUBSET Nat  OBVIOUS
  <2> HIDE DEF T
  <2> QED  BY <1>1, <2>1, StrongInduction
<1>3. n \in T  BY <1>2
<1> QED  BY <1>3

\* An exception in a field ends the loop with what was found before it.
LEMMA FoundRaised ==
  ASSUME NEW data \in Seq(Byte), NEW wires, NEW p \in Position, p <= Len(data),
         FieldAt(data, p).raised, NEW number, NEW wire
  PROVE  Found(data, wires, p, number, wire) = <<>>
<1>1. FieldsFrom(data, wires, p) =
        Before(FieldAt(data, p), wires, FieldsFrom(data, wires, FieldAt(data, p).next))
  BY FieldsFromIs
<1>2. FieldsFrom(data, wires, p) = Broken  BY <1>1 DEF Before
<1>3. Broken.fields = <<>>  BY DEF Broken
<1> QED  BY <1>2, <1>3, ValuesEmpty DEF Found

(* A length-delimited field that ends with the data, or is cut off by their end, *)
(* yields nothing, or the beginning of its bytes.                                *)
LEMMA CutField ==
  ASSUME NEW data \in Seq(Byte), NEW p \in Position, NEW tag \in 0..127, tag % 8 = 2,
         NEW bytes \in Seq(Byte), NEW wires, 2 \in wires, NEW number,
         Agrees(data, p, LengthDelimited(tag, bytes)),
         p + Len(LengthDelimited(tag, bytes)) > Len(data)
  PROVE  \/ Found(data, wires, p, number, 2) = <<>>
         \/ /\ tag \div 8 = number
            /\ \E v \in Seq(Byte) : IsPrefix(v, bytes) /\ Found(data, wires, p, number, 2) = <<v>>
<1>1. PICK n \in Nat, l \in Nat : n = Len(bytes) /\ l = Len(data)  BY LenProperties
<1>2. p \in Nat /\ p >= 1  BY DEF Position
<1>3. PICK x \in Nat : x = Len(Varint[n]) /\ x >= 1  BY VarintSize
<1>4. tag \in Byte /\ Varint[n] \in Seq(Byte)
  <2>1. tag \in Byte  BY DEF Byte
  <2>2. Varint[n] \in Seq(Byte)  BY VarintIs
  <2> QED  BY <2>1, <2>2
<1>5. <<tag>> \in Seq(Byte) /\ Len(<<tag>>) = 1 /\ <<tag>>[1] = tag  BY <1>4, OneByte
<1>6. LengthDelimited(tag, bytes) = (<<tag>> \o Varint[n]) \o bytes
  BY <1>1 DEF LengthDelimited
<1>7. <<tag>> \o Varint[n] \in Seq(Byte) /\ Len(<<tag>> \o Varint[n]) = 1 + x
  BY <1>3, <1>4, <1>5, Joint
<1>8. Len(LengthDelimited(tag, bytes)) = (1 + x) + n
  <2> DEFINE h == <<tag>> \o Varint[n]
  <2>1. h \in Seq(Byte) /\ Len(h) = 1 + x /\ LengthDelimited(tag, bytes) = h \o bytes  BY <1>6, <1>7
  <2> HIDE DEF h
  <2>2. Len(h \o bytes) = Len(h) + Len(bytes)  BY <2>1, Joint
  <2> QED  BY <1>1, <2>1, <2>2, Zenon
<1>9. p + ((1 + x) + n) > l  BY <1>1, <1>8, Zenon
<1> DEFINE q == p + 1
           r == q + x
<1>10. q \in Position /\ r \in Position /\ r = p + (1 + x) /\ r + n > l
  <2>1. \A u, v, w, z \in Nat : /\ (u + 1) + v = u + (1 + v)
                               /\ u + ((1 + v) + w) > z => ((u + 1) + v) + w > z
                               /\ u + 1 \in Nat \ {0} /\ (u + 1) + v \in Nat \ {0}
    OBVIOUS
  <2>2. /\ (p + 1) + x = p + (1 + x)
        /\ p + ((1 + x) + n) > l => ((p + 1) + x) + n > l
        /\ p + 1 \in Nat \ {0} /\ (p + 1) + x \in Nat \ {0}
    BY <1>2, <2>1
  <2> QED  BY <1>9, <2>2, Zenon DEF Position
<1>11. Agrees(data, p, <<tag>>) /\ Agrees(data, q, Varint[n]) /\ Agrees(data, r, bytes)
  <2>1. Agrees(data, p, <<tag>> \o Varint[n]) /\ Agrees(data, p + Len(<<tag>> \o Varint[n]), bytes)
    <3>1. Agrees(data, p, (<<tag>> \o Varint[n]) \o bytes)  BY <1>6
    <3> QED  BY <1>7, <3>1, AgreesParts
  <2>2. Agrees(data, r, bytes)
    <3> HIDE DEF r
    <3> QED  BY <1>7, <1>10, <2>1, Zenon
  <2>3. Agrees(data, p, <<tag>>) /\ Agrees(data, p + Len(<<tag>>), Varint[n])
    BY <1>4, <1>5, <2>1, AgreesParts
  <2>4. Agrees(data, q, Varint[n])  BY <1>5, <2>3, Zenon
  <2> QED  BY <2>2, <2>3, <2>4
<1>12. q + x - 1 = r - 1 /\ p + 1 - 1 = p  BY <1>2, <1>3
<1> HIDE DEF q, r
<1>13. CASE p > l
  <2>1. Found(data, wires, p, number, 2) = <<>>  BY <1>1, <1>13, FoundAtEnd
  <2> QED  BY <2>1
<1>14. CASE p <= l /\ r - 1 > l
  <2>1. Holds(data, p, <<tag>>)
    <3>1. p + Len(<<tag>>) - 1 <= Len(data)  BY <1>1, <1>2, <1>5, <1>14
    <3> QED  BY <1>5, <1>11, <3>1, AgreesHolds
  <2>2. ReadVarint(data, p) = [raised |-> FALSE, value |-> tag, next |-> q]  BY <2>1, TagReads DEF q
  <2>3. ReadVarint(data, q).raised = TRUE
    <3>1. q + Len(Varint[n]) - 1 > Len(data)  BY <1>1, <1>3, <1>12, <1>14
    <3> QED  BY <1>10, <1>11, <3>1, CutVarint
  <2>4. FieldAt(data, p).raised
    <3> DEFINE t == ReadVarint(data, p)
               a == ReadVarint(data, q)
    <3>1. t.raised = FALSE /\ t.value = tag /\ t.next = q /\ a.raised = TRUE  BY <2>2, <2>3
    <3>2. FieldAt(data, p) = FieldOf(data, t, a)  BY <3>1 DEF FieldAt, FieldBehind
    <3> HIDE DEF t, a
    <3>3. FieldOf(data, t, a).raised = (t.raised \/ a.raised)  BY DEF FieldOf
    <3> QED  BY <3>1, <3>2, <3>3
  <2>5. Found(data, wires, p, number, 2) = <<>>  BY <1>1, <1>14, <2>4, FoundRaised
  <2> QED  BY <2>5
<1>15. CASE p <= l /\ r - 1 <= l
  <2> DEFINE v == Slice(data, r, n)
             at == FieldAt(data, p)
  <2>1. Holds(data, p, <<tag>>)
    <3>1. p + Len(<<tag>>) - 1 <= Len(data)  BY <1>1, <1>2, <1>5, <1>15
    <3> QED  BY <1>5, <1>11, <3>1, AgreesHolds
  <2>2. Holds(data, q, Varint[n])
    <3>1. q + Len(Varint[n]) - 1 <= Len(data)  BY <1>1, <1>3, <1>12, <1>15
    <3> QED  BY <1>4, <1>10, <1>11, <3>1, AgreesHolds
  <2>3. at = [field |-> tag \div 8, wire |-> 2, raised |-> FALSE, value |-> v, next |-> r + n]
    <3>1. p + 1 \in Position /\ Holds(data, p + 1, Varint[n])  BY <1>10, <2>2 DEF q
    <3>2. (p + 1) + Len(Varint[n]) = r  BY <1>3 DEF q, r
    <3>3. FieldAt(data, p) = [field |-> tag \div 8, wire |-> 2, raised |-> FALSE,
                              value |-> Slice(data, (p + 1) + Len(Varint[n]), n),
                              next |-> ((p + 1) + Len(Varint[n])) + n]
      BY <2>1, <3>1, HeadingReads
    <3> QED  BY <3>2, <3>3
  <2>4. v \in Seq(Byte) /\ IsPrefix(v, bytes)
    <3>0. r \in Position /\ n \in Nat  BY <1>10
    <3>1. /\ v \in Seq(Byte) /\ Len(v) <= n
          /\ \A i \in 1..Len(v) : v[i] = data[r + i - 1]
      <4> HIDE DEF r
      <4> QED  BY <3>0, SliceIs
    <3>2. r - 1 <= Len(data) /\ r + n - 1 > Len(data) => Len(v) = Len(data) - r + 1
      <4> HIDE DEF r
      <4> QED  BY <3>0, SliceIs
    <3>3. r + n - 1 <= Len(data) => Len(v) = n
      <4> HIDE DEF r
      <4> QED  BY <3>0, SliceIs
    <3> HIDE DEF v
    <3>4. PICK k \in Nat : k = Len(v)  BY <3>1, LenProperties
    <3>5. r \in Nat  BY <1>10 DEF Position
    <3>6. r + k - 1 <= l
      <4>1. CASE r + n - 1 <= l
        <5>1. k = n  BY <1>1, <3>3, <3>4, <4>1
        <5> QED  BY <4>1, <5>1
      <4>2. CASE r + n - 1 > l
        <5>1. k = l - r + 1  BY <1>1, <1>15, <3>2, <3>4, <4>2
        <5> QED  BY <3>5, <5>1
      <4> QED  BY <3>5, <4>1, <4>2
    <3>7. k <= n /\ \A i \in 1..k : i \in 1..n /\ r + i - 1 <= l  BY <3>1, <3>4, <3>5, <3>6
    <3>8. \A i \in 1..k : v[i] = bytes[i]
      <4> TAKE i \in 1..k
      <4>1. i \in 1..Len(bytes) /\ r + i - 1 <= Len(data)  BY <1>1, <3>7
      <4>2. data[r + i - 1] = bytes[i]  BY <1>11, <4>1 DEF Agrees
      <4>3. v[i] = data[r + i - 1]  BY <3>1, <3>4
      <4> QED  BY <4>2, <4>3
    <3>9. SubSeq(v, 1, k) = SubSeq(bytes, 1, k)
      <4> DEFINE a == SubSeq(v, 1, k)
                 b == SubSeq(bytes, 1, k)
      <4>1. \A i \in 1..k : v[i] \in Byte /\ bytes[i] \in Byte
        <5> TAKE i \in 1..k
        <5>1. i \in 1..Len(v)  BY <3>4
        <5>2. v[i] \in Byte  BY <3>1, <5>1, ElementOfSeq
        <5> QED  BY <3>8, <5>2
      <4>2. 1 \in Int /\ k \in Int /\ (IF 1 <= k THEN k - 1 + 1 ELSE 0) = k
            /\ k - 1 + 1 = k /\ \A i \in 1..k : 1 + i - 1 = i
        OBVIOUS
      <4>3. a \in Seq(Byte) /\ Len(a) = k /\ \A i \in 1..k : a[i] = v[i]
        BY <4>1, <4>2, SubSeqProperties
      <4>4. b \in Seq(Byte) /\ Len(b) = k /\ \A i \in 1..k : b[i] = bytes[i]
        BY <4>1, <4>2, SubSeqProperties
      <4> HIDE DEF a, b
      <4>5. \A i \in 1..Len(a) : a[i] = b[i]  BY <3>8, <4>3, <4>4
      <4>6. a = b  BY <4>3, <4>4, <4>5, SeqEqual
      <4> QED  BY <4>6 DEF a, b
    <3> QED  BY <1>1, <3>1, <3>4, <3>7, <3>9, Zenon DEF IsPrefix
  <2>5. Found(data, wires, p, number, 2) = ValueIf(at, number, 2)
    <3>1. p <= Len(data) /\ ~at.raised /\ at.wire \in wires /\ at.next = r + n
      BY <1>1, <1>15, <2>3
    <3>2. Found(data, wires, p, number, 2) =
            ValueIf(at, number, 2) \o Found(data, wires, at.next, number, 2)
      BY <3>1, FoundNext
    <3>3. r + n \in Position  BY <1>10 DEF Position
    <3>4. Found(data, wires, r + n, number, 2) = <<>>  BY <1>1, <1>10, <3>3, FoundAtEnd
    <3>5. ValueIf(at, number, 2) \in Seq(Content)
      <4>1. at.value \in Content  BY <2>3, <2>4 DEF Content
      <4>2. <<>> \in Seq(Content) /\ <<at.value>> \in Seq(Content)  BY <4>1
      <4> QED  BY <4>2 DEF ValueIf
    <3>6. ValueIf(at, number, 2) \o <<>> = ValueIf(at, number, 2)  BY <3>5, ConcatEmptySeq
    <3> HIDE DEF at
    <3> QED  BY <3>1, <3>2, <3>4, <3>6, Zenon
  <2>6. ValueIf(at, number, 2) = OneIf(tag \div 8 = number, v)  BY <2>3 DEF ValueIf, OneIf
  <2> HIDE DEF v, at
  <2>7. CASE tag \div 8 = number
    <3>1. Found(data, wires, p, number, 2) = <<v>>  BY <2>5, <2>6, <2>7 DEF OneIf
    <3> QED  BY <2>4, <2>7, <3>1
  <2>8. CASE tag \div 8 # number
    <3>1. Found(data, wires, p, number, 2) = <<>>  BY <2>5, <2>6, <2>8 DEF OneIf
    <3> QED  BY <3>1
  <2> QED  BY <2>7, <2>8
<1>16. r - 1 \in Nat  BY <1>10 DEF Position
<1> QED  BY <1>2, <1>13, <1>14, <1>15, <1>16

\* What was read are the first messages, the last of them perhaps cut short.
Salvaged(got, messages) ==
  /\ Len(got) <= Len(messages)
  /\ \A i \in 1..(Len(got) - 1) : got[i] = messages[i]
  /\ got # <<>> => IsPrefix(got[Len(got)], messages[Len(got)])

\* The first messages, whole.
LEMMA SalvagedWhole ==
  ASSUME NEW messages \in Seq(Seq(Byte)), NEW i \in 0..Len(messages)
  PROVE  Salvaged(SubSeq(messages, 1, i), messages)
<1> DEFINE got == SubSeq(messages, 1, i)
<1>1. PICK n \in Nat : n = Len(messages)  BY LenProperties
<1>2. i \in Nat /\ i <= n /\ \A j \in 1..i : j \in 1..n /\ messages[j] \in Seq(Byte)
  <2>1. i \in Nat /\ i <= n /\ \A j \in 1..i : j \in 1..Len(messages)  BY <1>1
  <2> QED  BY <1>1, <2>1, ElementOfSeq
<1>3. got \in Seq(Seq(Byte)) /\ Len(got) = i /\ \A j \in 1..i : got[j] = messages[j]
  <2>1. 1 \in Int /\ i \in Int /\ (IF 1 <= i THEN i - 1 + 1 ELSE 0) = i
        /\ i - 1 + 1 = i /\ \A j \in 1..i : 1 + j - 1 = j
    BY <1>2
  <2> QED  BY <1>2, <2>1, SubSeqProperties
<1> HIDE DEF got
<1>4. ASSUME got # <<>>  PROVE IsPrefix(got[i], messages[i])
  <2>1. i \in 1..i
    <3>1. i # 0  BY <1>3, <1>4, EmptySeq
    <3> QED  BY <1>2, <3>1
  <2>2. got[i] = messages[i] /\ messages[i] \in Seq(Byte)  BY <1>2, <1>3, <2>1
  <2>3. Len(messages[i]) \in Nat  BY <2>2, LenProperties
  <2> QED  BY <2>2, <2>3 DEF IsPrefix
<1>5. \A j \in 1..(i - 1) : j \in 1..i  BY <1>2
<1>6. Salvaged(got, messages)  BY <1>1, <1>2, <1>3, <1>4, <1>5 DEF Salvaged
<1> QED  BY <1>6 DEF got

\* The first messages and the beginning of the next.
LEMMA SalvagedCut ==
  ASSUME NEW messages \in Seq(Seq(Byte)), NEW i \in 0..Len(messages), i < Len(messages),
         NEW v \in Seq(Byte), IsPrefix(v, messages[i + 1])
  PROVE  Salvaged(SubSeq(messages, 1, i) \o <<v>>, messages)
<1> DEFINE first == SubSeq(messages, 1, i)
           last == <<v>>
           got == first \o last
<1>1. PICK n \in Nat : n = Len(messages)  BY LenProperties
<1>2. i \in Nat /\ i < n /\ \A j \in 1..i : j \in 1..n /\ messages[j] \in Seq(Byte)
  <2>1. i \in Nat /\ i < n /\ \A j \in 1..i : j \in 1..Len(messages)  BY <1>1
  <2> QED  BY <1>1, <2>1, ElementOfSeq
<1>3. first \in Seq(Seq(Byte)) /\ Len(first) = i /\ \A j \in 1..i : first[j] = messages[j]
  <2>1. 1 \in Int /\ i \in Int /\ (IF 1 <= i THEN i - 1 + 1 ELSE 0) = i
        /\ i - 1 + 1 = i /\ \A j \in 1..i : 1 + j - 1 = j
    BY <1>2
  <2> QED  BY <1>2, <2>1, SubSeqProperties
<1> HIDE DEF first
<1>4. last \in Seq(Seq(Byte)) /\ Len(last) = 1 /\ last[1] = v  OBVIOUS
<1> HIDE DEF last
<1>5. /\ got \in Seq(Seq(Byte)) /\ Len(got) = i + 1 /\ got[i + 1] = v
      /\ \A j \in 1..i : got[j] = first[j]
  <2>1. /\ got \in Seq(Seq(Byte)) /\ Len(got) = Len(first) + Len(last)
        /\ \A j \in 1..Len(first) : got[j] = first[j]
        /\ \A j \in 1..Len(last) : got[Len(first) + j] = last[j]
    <3> DEFINE S == Seq(Byte)
    <3>1. first \in Seq(S) /\ last \in Seq(S)  BY <1>3, <1>4
    <3> HIDE DEF S
    <3>2. /\ first \o last \in Seq(S) /\ Len(first \o last) = Len(first) + Len(last)
          /\ \A j \in 1..Len(first) : (first \o last)[j] = first[j]
          /\ \A j \in 1..Len(last) : (first \o last)[Len(first) + j] = last[j]
      BY <3>1, Joint
    <3> QED  BY <3>2 DEF S
  <2> HIDE DEF got
  <2>2. 1 \in 1..Len(last)  BY <1>4
  <2>3. got[Len(first) + 1] = last[1]  BY <2>1, <2>2
  <2>4. Len(got) = i + 1 /\ got[i + 1] = v  BY <1>3, <1>4, <2>1, <2>3
  <2>5. \A j \in 1..i : got[j] = first[j]  BY <1>3, <2>1
  <2> QED  BY <2>1, <2>4, <2>5
<1> HIDE DEF got
<1>6. (i + 1) - 1 = i /\ i + 1 <= n  BY <1>1, <1>2
<1>7. Salvaged(got, messages)  BY <1>1, <1>3, <1>5, <1>6 DEF Salvaged
<1> QED  BY <1>7 DEF got, first, last

\* The bytes of the first messages, and of the next one, stand in the file.
LEMMA BatchHolds ==
  ASSUME NEW messages \in Seq(Seq(Byte)), NEW f, Batched(f, messages),
         NEW whole \in Seq(Byte), Holds(whole, 1, f[Len(messages)]),
         NEW i \in 0..Len(messages)
  PROVE  /\ f[i] \in Seq(Byte) /\ Holds(whole, 1, f[i])
         /\ i < Len(messages) =>
              /\ LengthDelimited(10, messages[i + 1]) \in Seq(Byte) /\ messages[i + 1] \in Seq(Byte)
              /\ f[i + 1] = f[i] \o LengthDelimited(10, messages[i + 1])
              /\ Holds(whole, 1 + Len(f[i]), LengthDelimited(10, messages[i + 1]))
<1>1. PICK n \in Nat : n = Len(messages)  BY LenProperties
<1>2. /\ f \in [0..n -> Seq(Byte)]
      /\ \A j \in 1..n : f[j] = f[j - 1] \o LengthDelimited(10, messages[j])
  BY <1>1 DEF Batched
<1>3. \A j \in 1..n : messages[j] \in Seq(Byte) /\ LengthDelimited(10, messages[j]) \in Seq(Byte)
  <2>1. 10 \in Byte  BY DEF Byte
  <2> QED  BY <1>1, <2>1, ElementOfSeq, LengthDelimitedIs
<1>4. ASSUME NEW j \in 1..n, Holds(whole, 1, f[j])
      PROVE  /\ Holds(whole, 1, f[j - 1])
             /\ Holds(whole, 1 + Len(f[j - 1]), LengthDelimited(10, messages[j]))
  <2> DEFINE e == f[j - 1]
             d == LengthDelimited(10, messages[j])
  <2>1. e \in Seq(Byte) /\ d \in Seq(Byte) /\ f[j] = e \o d
    <3>1. j - 1 \in 0..n  OBVIOUS
    <3> QED  BY <1>2, <1>3, <3>1
  <2> HIDE DEF e, d
  <2>2. Holds(whole, 1, e \o d) /\ 1 \in Position  BY <1>4, <2>1 DEF Position
  <2>3. Holds(whole, 1, e) /\ Holds(whole, 1 + Len(e), d)  BY <2>1, <2>2, HoldsParts
  <2> QED  BY <2>3 DEF e, d
<1> DEFINE T == {m \in Nat : m <= n => Holds(whole, 1, f[n - m])}
<1>5. T = Nat
  <2>1. 0 \in T
    <3>1. n - 0 = n  OBVIOUS
    <3>2. Holds(whole, 1, f[n - 0])  BY <1>1, <3>1
    <3> QED  BY <3>2
  <2>2. ASSUME NEW m \in T  PROVE m + 1 \in T
    <3> SUFFICES ASSUME m + 1 <= n  PROVE Holds(whole, 1, f[n - (m + 1)])
      OBVIOUS
    <3>1. m \in Nat /\ m <= n /\ n - m \in 1..n /\ (n - m) - 1 = n - (m + 1)  BY <1>1
    <3>2. Holds(whole, 1, f[n - m])  BY <3>1
    <3>3. Holds(whole, 1, f[(n - m) - 1])
      <4> HIDE DEF T
      <4> QED  BY <1>4, <3>1, <3>2
    <3> QED  BY <3>1, <3>3
  <2>3. T \in SUBSET Nat  OBVIOUS
  <2> HIDE DEF T
  <2> QED  BY <2>1, <2>2, <2>3, SetInduction
<1>6. \A j \in 0..n : Holds(whole, 1, f[j])
  <2> TAKE j \in 0..n
  <2>1. n - j \in Nat /\ n - j <= n /\ n - (n - j) = j  BY <1>1
  <2>2. n - j \in {m \in Nat : m <= n => Holds(whole, 1, f[n - m])}  BY <1>5, <2>1 DEF T
  <2>3. Holds(whole, 1, f[n - (n - j)])
    <3> HIDE DEF T
    <3> QED  BY <2>1, <2>2
  <2> QED  BY <2>1, <2>3
<1> HIDE DEF T
<1>7. i \in 0..n /\ i \in Nat  BY <1>1
<1>8. ASSUME i < n
      PROVE  /\ LengthDelimited(10, messages[i + 1]) \in Seq(Byte) /\ messages[i + 1] \in Seq(Byte)
             /\ f[i + 1] = f[i] \o LengthDelimited(10, messages[i + 1])
             /\ Holds(whole, 1 + Len(f[i]), LengthDelimited(10, messages[i + 1]))
  <2>1. i + 1 \in 1..n /\ i + 1 \in 0..n /\ (i + 1) - 1 = i  BY <1>7, <1>8
  <2>2. Holds(whole, 1, f[i + 1])  BY <1>6, <2>1
  <2>3. Holds(whole, 1 + Len(f[(i + 1) - 1]), LengthDelimited(10, messages[i + 1]))
    BY <1>4, <2>1, <2>2
  <2>4. f[i + 1] = f[(i + 1) - 1] \o LengthDelimited(10, messages[i + 1])  BY <1>2, <2>1
  <2> QED  BY <1>3, <2>1, <2>3, <2>4
<1> QED  BY <1>1, <1>2, <1>6, <1>7, <1>8

(* What is left of a file that was cut off agrees with the whole of it.      *)
LEMMA PrefixAgrees ==
  ASSUME NEW whole \in Seq(Byte), NEW k \in 0..Len(whole)
  PROVE  /\ SubSeq(whole, 1, k) \in Seq(Byte) /\ Len(SubSeq(whole, 1, k)) = k
         /\ \A p \in Position, s \in Seq(Byte) :
              Holds(whole, p, s) => Agrees(SubSeq(whole, 1, k), p, s)
<1> DEFINE data == SubSeq(whole, 1, k)
<1>1. PICK w \in Nat : w = Len(whole)  BY LenProperties
<1>2. k \in Nat /\ k <= w /\ \A j \in 1..k : whole[j] \in Byte
  <2>1. k \in Nat /\ k <= w /\ \A j \in 1..k : j \in 1..Len(whole)  BY <1>1
  <2> QED  BY <2>1, ElementOfSeq
<1>3. data \in Seq(Byte) /\ Len(data) = k /\ \A j \in 1..k : data[j] = whole[j]
  <2>1. 1 \in Int /\ k \in Int /\ (IF 1 <= k THEN k - 1 + 1 ELSE 0) = k
        /\ k - 1 + 1 = k /\ \A j \in 1..k : 1 + j - 1 = j
    BY <1>2
  <2> QED  BY <1>2, <2>1, SubSeqProperties
<1> HIDE DEF data
<1>4. ASSUME NEW p \in Position, NEW s \in Seq(Byte), Holds(whole, p, s)  PROVE Agrees(data, p, s)
  <2>1. p \in Nat /\ p >= 1  BY DEF Position
  <2>2. ASSUME NEW j \in 1..Len(s), p + j - 1 <= k  PROVE data[p + j - 1] = s[j]
    <3>1. p + j - 1 \in 1..k
      <4>1. j \in Nat /\ j >= 1  BY LenProperties
      <4> QED  BY <2>1, <2>2, <4>1, <1>2
    <3>2. whole[p + j - 1] = s[j]  BY <1>4, <2>2 DEF Holds
    <3> QED  BY <1>3, <3>1, <3>2
  <2> QED  BY <1>3, <2>2 DEF Agrees
<1> QED  BY <1>3, <1>4 DEF data

(* Of growing beginnings, the empty one first, some one is the last that fits. *)
LEMMA LastThatFits ==
  ASSUME NEW n \in Nat, NEW size, \A j \in 0..n : size[j] \in Nat, size[0] = 0, NEW k \in Nat
  PROVE  \E i \in 0..n : size[i] <= k /\ (i < n => size[i + 1] > k)
<1> SUFFICES ASSUME \A i \in 0..n : size[i] <= k => i < n /\ ~(size[i + 1] > k)
             PROVE  FALSE
  OBVIOUS
<1> DEFINE T == {m \in Nat : m <= n => size[m] <= k}
<1>1. 0 \in T  OBVIOUS
<1>2. ASSUME NEW m \in T  PROVE m + 1 \in T
  <2> SUFFICES ASSUME m + 1 <= n  PROVE size[m + 1] <= k
    OBVIOUS
  <2>1. m \in 0..n /\ m + 1 \in 0..n /\ size[m] <= k  OBVIOUS
  <2>2. ~(size[m + 1] > k) /\ size[m + 1] \in Nat  BY <2>1
  <2> QED  BY <2>2
<1>3. T \in SUBSET Nat  OBVIOUS
<1>4. n \in T
  <2> HIDE DEF T
  <2> QED  BY <1>1, <1>2, <1>3, SetInduction
<1>5. n \in 0..n /\ size[n] <= k  BY <1>4
<1> QED  BY <1>5

(* Where the first i messages stand, the decoder finds them.                 *)
LEMMA BatchFound ==
  ASSUME NEW messages \in Seq(Seq(Byte)), NEW f, Batched(f, messages),
         NEW i \in 0..Len(messages), NEW data \in Seq(Byte), Holds(data, 1, f[i])
  PROVE  /\ 1 + Len(f[i]) \in Position
         /\ Found(data, BatchWires, 1, 1, 2) =
              SubSeq(messages, 1, i) \o Found(data, BatchWires, 1 + Len(f[i]), 1, 2)
<1> DEFINE first == SubSeq(messages, 1, i)
           e == f[i]
<1>1. Yields(e, BatchWires, 1, 2, first)  BY DEF Batched
<1>2. Holds(data, 1, e) /\ 1 \in Position  BY DEF Position
<1> HIDE DEF first, e
<1>3. /\ 1 + Len(e) \in Position
      /\ Found(data, BatchWires, 1, 1, 2) = first \o Found(data, BatchWires, 1 + Len(e), 1, 2)
  BY <1>1, <1>2, Zenon DEF Yields
<1> QED  BY <1>3 DEF first, e

(* A BatchIngestRequest that was cut off at any byte reads as its first      *)
(* messages, the last of them perhaps cut short.                             *)
LEMMA CutBatch ==
  ASSUME NEW messages \in Seq(Seq(Byte)), NEW id \in Seq(Byte),
         NEW k \in 0..Len(WriteBatch(messages, id))
  PROVE  Salvaged(ReadMessages(SubSeq(WriteBatch(messages, id), 1, k)).messages, messages)
<1> DEFINE whole == WriteBatch(messages, id)
           tail == IF id = <<>> THEN <<>> ELSE LengthDelimited(18, id)
           data == SubSeq(whole, 1, k)
<1>1. PICK n \in Nat : n = Len(messages)  BY LenProperties
<1>2. PICK f : Batched(f, messages) /\ whole = f[n] \o tail  BY <1>1, BatchedExists
<1>3. /\ \A j \in 0..n : f[j] \in Seq(Byte)
      /\ f[0] = <<>>
  BY <1>1, <1>2 DEF Batched
<1>4. tail \in Seq(Byte)
  <2>1. 18 \in Byte  BY DEF Byte
  <2> QED  BY <2>1, LengthDelimitedIs
<1> DEFINE e == f[n]
<1>5. e \in Seq(Byte) /\ whole = e \o tail  BY <1>2, <1>3
<1>6. k \in 0..Len(whole)  OBVIOUS
<1>7. id # <<>> => tail = LengthDelimited(18, id)  OBVIOUS
<1>8. id = <<>> => tail = <<>>  OBVIOUS
<1>9. ReadMessages(data).messages = Found(data, BatchWires, 1, 1, 2)
  BY DEF ReadMessages, Fields, Found
<1> HIDE DEF whole, tail, e
<1>10. whole \in Seq(Byte)  BY <1>4, <1>5, Joint
<1>11. /\ data \in Seq(Byte) /\ Len(data) = k
       /\ \A p \in Position, s \in Seq(Byte) : Holds(whole, p, s) => Agrees(data, p, s)
  BY <1>6, <1>10, PrefixAgrees
<1> HIDE DEF data
<1>12. Holds(whole, 1, e) /\ Holds(whole, 1 + Len(e), tail) /\ 1 + Len(e) \in Position
  <2>1. Holds(whole, 1, whole)  BY <1>10, HoldsWhole
  <2>2. Holds(whole, 1, e \o tail) /\ 1 \in Position
    <3>1. Holds(whole, 1, e \o tail)  BY <1>5, <2>1, Zenon
    <3> QED  BY <3>1 DEF Position
  <2> QED  BY <1>4, <1>5, <1>10, <2>2, HoldsParts
<1>13. k \in Nat  BY <1>6
<1>14. PICK i \in 0..n : Len(f[i]) <= k /\ (i < n => Len(f[i + 1]) > k)
  <2> DEFINE size == [j \in 0..n |-> Len(f[j])]
  <2>1. \A j \in 0..n : size[j] = Len(f[j]) /\ size[j] \in Nat  BY <1>3, LenProperties
  <2>2. size[0] = 0  BY <1>1, <1>3, <2>1
  <2> HIDE DEF size
  <2>3. PICK i \in 0..n : size[i] <= k /\ (i < n => size[i + 1] > k)  BY <1>13, <2>1, <2>2, LastThatFits
  <2>4. i < n => i + 1 \in 0..n  OBVIOUS
  <2> QED  BY <2>1, <2>3, <2>4
<1>15. i \in 0..Len(messages) /\ Holds(whole, 1, f[Len(messages)])  BY <1>1, <1>12 DEF e
<1> DEFINE first == SubSeq(messages, 1, i)
           b == f[i]
           p == 1 + Len(b)
<1>16. /\ b \in Seq(Byte) /\ Holds(whole, 1, b)
       /\ i < n => /\ LengthDelimited(10, messages[i + 1]) \in Seq(Byte) /\ messages[i + 1] \in Seq(Byte)
                   /\ f[i + 1] = b \o LengthDelimited(10, messages[i + 1])
                   /\ Holds(whole, p, LengthDelimited(10, messages[i + 1]))
  <2>1. Batched(f, messages)  BY <1>2
  <2>2. /\ f[i] \in Seq(Byte) /\ Holds(whole, 1, f[i])
        /\ i < Len(messages) =>
             /\ LengthDelimited(10, messages[i + 1]) \in Seq(Byte) /\ messages[i + 1] \in Seq(Byte)
             /\ f[i + 1] = f[i] \o LengthDelimited(10, messages[i + 1])
             /\ Holds(whole, 1 + Len(f[i]), LengthDelimited(10, messages[i + 1]))
    BY <1>10, <1>15, <2>1, BatchHolds
  <2> QED  BY <1>1, <2>2, Zenon
<1>17. Holds(data, 1, b)
  <2>1. 1 \in Position  BY DEF Position
  <2>2. Agrees(data, 1, b)  BY <1>11, <1>16, <2>1
  <2>3. 1 + Len(b) - 1 <= Len(data)
    <3>1. PICK c \in Nat : c = Len(b)  BY <1>16, LenProperties
    <3> QED  BY <1>11, <1>13, <1>14, <3>1
  <2> QED  BY <1>11, <1>16, <2>1, <2>2, <2>3, AgreesHolds
<1>18. p \in Position /\ Found(data, BatchWires, 1, 1, 2) = first \o Found(data, BatchWires, p, 1, 2)
  BY <1>2, <1>11, <1>15, <1>17, BatchFound
<1>19. Salvaged(first, messages)  BY <1>15, SalvagedWhole
<1>20. first \o <<>> = first
  <2>1. first \in Seq(Seq(Byte))  BY <1>15, SubSeqProperties
  <2> QED  BY <2>1, ConcatEmptySeq
<1>21. \A v \in Seq(Byte) : i < n /\ IsPrefix(v, messages[i + 1]) => Salvaged(first \o <<v>>, messages)
  BY <1>1, <1>15, SalvagedCut
<1> HIDE DEF first
<1>22. Found(data, BatchWires, p, 1, 2) = <<>> => Salvaged(Found(data, BatchWires, 1, 1, 2), messages)
  BY <1>18, <1>19, <1>20, Zenon
<1>23. ASSUME i < n
       PROVE  Salvaged(Found(data, BatchWires, 1, 1, 2), messages)
  <2> DEFINE m == messages[i + 1]
             d == LengthDelimited(10, m)
  <2>1. m \in Seq(Byte) /\ d \in Seq(Byte) /\ f[i + 1] = b \o d /\ Holds(whole, p, d)  BY <1>16, <1>23
  <2>2. p + Len(d) > Len(data)
    <3>1. Len(f[i + 1]) > k  BY <1>14, <1>23
    <3> HIDE DEF d
    <3>2. PICK c \in Nat, l \in Nat : c = Len(b) /\ l = Len(d)  BY <1>16, <2>1, LenProperties
    <3>3. Len(b \o d) = c + l  BY <1>16, <2>1, <3>2, Joint
    <3>4. c + l > k  BY <2>1, <3>1, <3>3
    <3> HIDE DEF b
    <3>5. p = 1 + c  BY <3>2
    <3> QED  BY <1>11, <1>13, <3>2, <3>4, <3>5
  <2>3. Agrees(data, p, d)  BY <1>11, <1>18, <2>1
  <2>4. 10 \in 0..127 /\ 10 % 8 = 2 /\ 2 \in BatchWires  BY DEF BatchWires
  <2> HIDE DEF p, m
  <2>5. \/ Found(data, BatchWires, p, 1, 2) = <<>>
        \/ \E v \in Seq(Byte) : IsPrefix(v, m) /\ Found(data, BatchWires, p, 1, 2) = <<v>>
    BY <1>11, <1>18, <2>1, <2>2, <2>3, <2>4, CutField
  <2>6. ASSUME NEW v \in Seq(Byte), IsPrefix(v, m), Found(data, BatchWires, p, 1, 2) = <<v>>
        PROVE  Salvaged(Found(data, BatchWires, 1, 1, 2), messages)
    <3>1. Salvaged(first \o <<v>>, messages)  BY <1>21, <1>23, <2>6 DEF m
    <3> QED  BY <1>18, <2>6, <3>1, Zenon
  <2> QED  BY <1>22, <2>5, <2>6, Zenon
<1>24. ASSUME ~(i < n)
       PROVE  Salvaged(Found(data, BatchWires, 1, 1, 2), messages)
  <2>1. i = n  BY <1>24
  <2>2. b = e  BY <2>1 DEF e
  <2> DEFINE found == Found(data, BatchWires, p, 1, 2)
  <2>3. Holds(whole, p, tail)  BY <1>12, <2>2
  <2>4. Agrees(data, p, tail)  BY <1>4, <1>11, <1>18, <2>3
  <2>5. p + Len(tail) > Len(data)
    <3>1. PICK c \in Nat, l \in Nat : c = Len(b) /\ l = Len(tail)  BY <1>4, <1>16, LenProperties
    <3>2. Len(whole) = c + l  BY <1>4, <1>5, <2>2, <3>1, Joint
    <3>3. k <= c + l  BY <1>6, <3>2
    <3> HIDE DEF b
    <3>4. p = 1 + c  BY <3>1
    <3> QED  BY <1>11, <1>13, <3>1, <3>3, <3>4
  <2> HIDE DEF p
  <2>6. CASE id = <<>>
    <3>1. tail = <<>>  BY <1>8, <2>6
    <3>2. Len(tail) = 0  BY <3>1
    <3>3. p > Len(data)
      <4>1. p \in Nat  BY <1>18 DEF Position
      <4> QED  BY <2>5, <3>2, <4>1
    <3>4. Found(data, BatchWires, p, 1, 2) = <<>>  BY <1>11, <1>18, <3>3, FoundAtEnd
    <3> QED  BY <1>22, <3>4, Zenon
  <2>7. CASE id # <<>>
    <3>1. 18 \in 0..127 /\ 18 % 8 = 2 /\ 2 \in BatchWires /\ 18 \div 8 # 1  BY DEF BatchWires
    <3>2. tail = LengthDelimited(18, id)  BY <1>7, <2>7
    <3>3. /\ Agrees(data, p, LengthDelimited(18, id))
          /\ p + Len(LengthDelimited(18, id)) > Len(data)
      BY <2>4, <2>5, <3>2
    <3>4. Found(data, BatchWires, p, 1, 2) = <<>>
      BY <1>11, <1>18, <3>1, <3>3, CutField
    <3> QED  BY <1>22, <3>4, Zenon
  <2> QED  BY <2>6, <2>7
<1>25. Salvaged(Found(data, BatchWires, 1, 1, 2), messages)  BY <1>23, <1>24, Zenon
<1> QED  BY <1>9, <1>25 DEF data, whole

\* The temporary file is there only once a write has begun, and is the beginning
\* of what that write writes.
TmpInv ==
  /\ pc \in {"connect", "session"} => tmp = Absent
  /\ tmp = Absent \/ \E k \in 0..Len(WriteBatch(raw, ident)) : tmp = SubSeq(WriteBatch(raw, ident), 1, k)

\* A BatchIngestRequest is bytes.
LEMMA WholeIs ==
  ASSUME NEW messages \in Seq(Seq(Byte)), NEW id \in Seq(Byte)
  PROVE  WriteBatch(messages, id) \in Seq(Byte)
<1> DEFINE tail == IF id = <<>> THEN <<>> ELSE LengthDelimited(18, id)
           n == Len(messages)
<1>1. PICK f : Batched(f, messages) /\ WriteBatch(messages, id) = f[n] \o tail  BY BatchedExists
<1>2. tail \in Seq(Byte)
  <2>1. 18 \in Byte  BY DEF Byte
  <2> QED  BY <2>1, LengthDelimitedIs
<1>3. f[n] \in Seq(Byte)
  <2>1. n \in 0..n  BY LenProperties
  <2> QED  BY <1>1, <2>1 DEF Batched
<1> HIDE DEF tail
<1> QED  BY <1>1, <1>2, <1>3, Joint

\* That is so at every moment.
LEMMA TmpStep == Spec => []TmpInv
<1>1. Init => TmpInv  BY DEF Init, TmpInv
<1>2. FileInv /\ TmpInv /\ [Next]_vars => TmpInv'
  <2> SUFFICES ASSUME FileInv, TmpInv, [Next]_vars  PROVE TmpInv'
    OBVIOUS
  <2>1. ASSUME NEW m \in Mtu, NEW i \in Index, Connect(m, i)  PROVE TmpInv'
    BY <2>1 DEF Connect, TmpInv
  <2>2. ASSUME NEW c \in Command, SendCommand(c)  PROVE TmpInv'
    BY <2>2 DEF SendCommand, TmpInv
  <2>3. ASSUME NEW m \in Message, NEW size \in Size, NEW style \in Style, Capture(m, size, style)
        PROVE TmpInv'
    BY <2>3 DEF Capture, TmpInv
  <2>4. ASSUME NEW id \in Identifier, BeginWrite(id)  PROVE TmpInv'
    <3> DEFINE whole == WriteBatch(raw, id)
    <3>1. pc' = "write" /\ tmp' = <<>> /\ raw' = raw /\ ident' = id  BY <2>4 DEF BeginWrite
    <3>2. whole \in Seq(Byte)
      <4>1. raw \in Seq(Seq(Byte)) /\ id \in Seq(Byte)  BY ContentsAssumption, SeqMonotonic DEF FileInv
      <4> QED  BY <4>1, WholeIs
    <3> HIDE DEF whole
    <3>3. 0 \in 0..Len(whole)  BY <3>2, LenProperties
    <3>4. SubSeq(whole, 1, 0) = <<>>
      <4>1. SubSeq(whole, 1, 0) \in Seq(Byte) /\ Len(SubSeq(whole, 1, 0)) = 0  BY <3>2, <3>3, PrefixAgrees
      <4> QED  BY <4>1, EmptySeq
    <3>5. \E k \in 0..Len(whole) : tmp' = SubSeq(whole, 1, k)  BY <3>1, <3>3, <3>4
    <3> QED  BY <3>1, <3>5 DEF TmpInv, whole
  <2>5. CASE WriteCut
    <3> DEFINE whole == WriteBatch(raw, ident)
    <3>1. /\ pc' = "failed" /\ raw' = raw /\ ident' = ident
          /\ \E k \in 0..Len(whole) : tmp' = SubSeq(whole, 1, k)
      BY <2>5 DEF WriteCut, Prefixes
    <3> HIDE DEF whole
    <3> QED  BY <3>1 DEF TmpInv, whole
  <2>6. CASE Replace  BY <2>6 DEF Replace, TmpInv
  <2>7. CASE UNCHANGED vars  BY <2>7 DEF vars, TmpInv
  <2> QED  BY <2>1, <2>2, <2>3, <2>4, <2>5, <2>6, <2>7 DEF Next
<1> QED  BY <1>1, <1>2, FileStep, PTL DEF Spec

(* Whatever messages were captured, however many, and at whatever byte the    *)
(* write was cut off, the temporary file reads as the first of these messages, *)
(* the last of them perhaps cut short.                                         *)
THEOREM SalvageIsFaithful == Spec => []SalvageIsPrefix
<1>1. FileInv /\ TmpInv => SalvageIsPrefix
  <2> SUFFICES ASSUME FileInv, TmpInv, tmp # Absent
               PROVE  Salvaged(ReadMessages(tmp).messages, raw)
    BY DEF SalvageIsPrefix, Salvaged
  <2>1. PICK k \in 0..Len(WriteBatch(raw, ident)) : tmp = SubSeq(WriteBatch(raw, ident), 1, k)
    BY DEF TmpInv
  <2>2. raw \in Seq(Seq(Byte)) /\ ident \in Seq(Byte)  BY ContentsAssumption, SeqMonotonic DEF FileInv
  <2>3. Salvaged(ReadMessages(SubSeq(WriteBatch(raw, ident), 1, k)).messages, raw)
    BY <2>2, CutBatch
  <2> QED  BY <2>1, <2>3, Zenon
<1> QED  BY <1>1, FileStep, TmpStep, PTL
=============================================================================
