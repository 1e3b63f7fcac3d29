------------------------- MODULE DocumentTextProofs -------------------------
(* What the server has of the editor's text after edits; and why following   *)
(* the owners of fragments always ends, whatever includes what, and that     *)
(* what includes a fragment owns it.                                         *)
EXTENDS DocumentEdits, IncludeFragments, FiniteSetTheorems, SequenceTheorems, TLAPS

----------------------------------------------------------------------------
(* Parts of a sequence                                                       *)

(* The part before an offset and the part behind it.                         *)
LEMMA Parts ==
  ASSUME NEW S, NEW q \in Seq(S), NEW k \in 0..Len(q)
  PROVE  /\ Before(q, k) \in Seq(S) /\ Len(Before(q, k)) = k
         /\ \A i \in 1..k : Before(q, k)[i] = q[i]
         /\ After(q, k) \in Seq(S) /\ Len(After(q, k)) = Len(q) - k
         /\ \A i \in 1..(Len(q) - k) : After(q, k)[i] = q[k + i]
         /\ Before(q, k) \o After(q, k) = q
<1>1. Len(q) \in Nat /\ \A i \in 1..Len(q) : q[i] \in S  OBVIOUS
<1>2. /\ Before(q, k) \in Seq(S) /\ Len(Before(q, k)) = k
      /\ \A i \in 1..k : Before(q, k)[i] = q[i]
  <2>1. \A i \in 1..k : q[i] \in S  BY <1>1
  <2>2. /\ SubSeq(q, 1, k) \in Seq(S)
        /\ Len(SubSeq(q, 1, k)) = IF 1 <= k THEN k - 1 + 1 ELSE 0
        /\ \A i \in 1..(k - 1 + 1) : SubSeq(q, 1, k)[i] = q[1 + i - 1]
    BY <1>1, <2>1, SubSeqProperties
  <2> QED  BY <1>1, <2>2 DEF Before
<1>3. /\ After(q, k) \in Seq(S) /\ Len(After(q, k)) = Len(q) - k
      /\ \A i \in 1..(Len(q) - k) : After(q, k)[i] = q[k + i]
  <2>1. \A i \in (k + 1)..Len(q) : q[i] \in S  BY <1>1
  <2>2. /\ SubSeq(q, k + 1, Len(q)) \in Seq(S)
        /\ Len(SubSeq(q, k + 1, Len(q))) = IF k + 1 <= Len(q) THEN Len(q) - (k + 1) + 1 ELSE 0
        /\ \A i \in 1..(Len(q) - (k + 1) + 1) : SubSeq(q, k + 1, Len(q))[i] = q[k + 1 + i - 1]
    BY <1>1, <2>1, SubSeqProperties
  <2> QED  BY <1>1, <2>2 DEF After
<1>4. Before(q, k) \o After(q, k) = q
  <2>1. 1 \in 1..(Len(q) + 1) /\ k \in (1 - 1)..Len(q) /\ Len(q) \in k..Len(q)  BY <1>1
  <2>2. SubSeq(q, 1, k) \o SubSeq(q, k + 1, Len(q)) = SubSeq(q, 1, Len(q))
    BY <2>1, ConcatAdjacentSubSeq
  <2> QED  BY <2>2, SubSeqFull DEF Before, After
<1> QED  BY <1>2, <1>3, <1>4

(* A sequence that ends earlier, and one that ends one element later.        *)
LEMMA OneMore ==
  ASSUME NEW S, NEW q \in Seq(S), NEW k \in 0..(Len(q) - 1)
  PROVE  Before(q, k + 1) = Append(Before(q, k), q[k + 1])
<1>1. Len(q) \in Nat /\ k \in 0..Len(q) /\ k + 1 \in 0..Len(q)  OBVIOUS
<1>2. /\ Before(q, k) \in Seq(S) /\ Len(Before(q, k)) = k
      /\ \A i \in 1..k : Before(q, k)[i] = q[i]
  BY <1>1, Parts
<1>3. /\ Before(q, k + 1) \in Seq(S) /\ Len(Before(q, k + 1)) = k + 1
      /\ \A i \in 1..(k + 1) : Before(q, k + 1)[i] = q[i]
  BY <1>1, Parts
<1>4. q[k + 1] \in S  BY <1>1
<1> DEFINE r == Append(Before(q, k), q[k + 1])
<1>5. /\ r \in Seq(S) /\ Len(r) = k + 1
      /\ \A i \in 1..(k + 1) : r[i] = IF i = k + 1 THEN q[k + 1] ELSE Before(q, k)[i]
  BY <1>2, <1>4
<1> HIDE DEF r
<1>6. \A i \in 1..Len(r) : Before(q, k + 1)[i] = r[i]
  BY <1>1, <1>2, <1>3, <1>5
<1>7. Before(q, k + 1) = r  BY <1>3, <1>5, <1>6, SeqEqual
<1> QED  BY <1>7 DEF r

(* The ends of a sequence.                                                   *)
LEMMA BothEnds ==
  ASSUME NEW S, NEW q \in Seq(S)
  PROVE  /\ Before(q, 0) = <<>> /\ Before(q, Len(q)) = q
         /\ After(q, 0) = q /\ After(q, Len(q)) = <<>>
<1>1. Len(q) \in Nat  OBVIOUS
<1>2. SubSeq(q, 1, 0) = <<>> /\ SubSeq(q, Len(q) + 1, Len(q)) = <<>>
  BY <1>1, SubSeqEmpty
<1>3. SubSeq(q, 1, Len(q)) = q  BY SubSeqFull
<1> QED  BY <1>2, <1>3 DEF Before, After

----------------------------------------------------------------------------
(* The bytes of a text                                                       *)

ByteSet == (Chars \cup {"zero"}) \X (0..3)
NL == <<Newline, 1>>
Encoding(c) == [j \in 1..Width[c] |-> <<c, j>>]

\* A loop over the changes of a notification is at the text it should be at.
AtText(texts, n, s) == s.error = "none"
Encodes == INSTANCE FoldTheorems WITH Step <- Encode, Good <- AtText

LEMMA EncodingIs ==
  ASSUME NEW c \in Chars
  PROVE  /\ Encoding(c) \in Seq(ByteSet) /\ Len(Encoding(c)) = Width[c] /\ Width[c] \in 1..3
         /\ \A j \in 1..Width[c] : Encoding(c)[j] = <<c, j>>
<1>1. Width[c] \in 1..3  BY EditsAssumption
<1>2. \A j \in 1..Width[c] : <<c, j>> \in ByteSet  BY <1>1 DEF ByteSet
<1>3. Encoding(c) \in [1..Width[c] -> ByteSet]  BY <1>2 DEF Encoding
<1>4. Encoding(c) \in Seq(ByteSet) /\ Len(Encoding(c)) = Width[c]  BY <1>1, <1>3
<1> QED  BY <1>1, <1>4 DEF Encoding

LEMMA BytesOf ==
  ASSUME NEW tx \in Seq(Chars), NEW c \in Chars
  PROVE  Bytes(<<>>) = <<>> /\ Bytes(Append(tx, c)) = Bytes(tx) \o Encoding(c)
<1>1. \A e, q : Encodes!FoldLeft(Encode, e, q) = FoldLeft(Encode, e, q)
  BY DEF Encodes!FoldLeft, FoldLeft, Encodes!MapThenFoldSet, MapThenFoldSet, Encodes!Max, Max
<1>2. /\ Encodes!FoldLeft(Encode, <<>>, <<>>) = <<>>
      /\ Encodes!FoldLeft(Encode, <<>>, Append(tx, c)) = Encode(Encodes!FoldLeft(Encode, <<>>, tx), c)
  BY Encodes!FoldAppend
<1> QED  BY <1>1, <1>2 DEF Bytes, Encode, Encoding

(* Each text has bytes.                                                      *)
LEMMA BytesType ==
  ASSUME NEW tx \in Seq(Chars)
  PROVE  Bytes(tx) \in Seq(ByteSet)
<1>1. Len(tx) \in Nat  OBVIOUS
<1> DEFINE T == {n \in Nat : n <= Len(tx) => Bytes(Before(tx, n)) \in Seq(ByteSet)}
<1>2. 0 \in T
  <2>1. Before(tx, 0) = <<>>  BY BothEnds
  <2>2. Newline \in Chars  BY EditsAssumption
  <2>3. Bytes(<<>>) = <<>>  BY <2>2, BytesOf
  <2>4. <<>> \in Seq(ByteSet)  OBVIOUS
  <2> QED  BY <2>1, <2>3, <2>4
<1>3. ASSUME NEW n \in T PROVE n + 1 \in T
  <2> SUFFICES ASSUME n + 1 <= Len(tx) PROVE Bytes(Before(tx, n + 1)) \in Seq(ByteSet)
    OBVIOUS
  <2>1. n \in 0..(Len(tx) - 1) /\ n \in 0..Len(tx) /\ Bytes(Before(tx, n)) \in Seq(ByteSet)
    BY <1>1
  <2>2. Before(tx, n + 1) = Append(Before(tx, n), tx[n + 1])  BY <2>1, OneMore
  <2>3. Before(tx, n) \in Seq(Chars) /\ tx[n + 1] \in Chars  BY <1>1, <2>1, Parts
  <2>4. Bytes(Before(tx, n + 1)) = Bytes(Before(tx, n)) \o Encoding(tx[n + 1])
    BY <2>2, <2>3, BytesOf
  <2> QED  BY <2>1, <2>3, <2>4, EncodingIs, ConcatProperties, ZenonT(60)
<1> HIDE DEF T
<1>4. T \in SUBSET Nat  BY DEF T
<1>5. T = Nat  BY <1>2, <1>3, <1>4, Encodes!SetInduction
<1>6. Bytes(Before(tx, Len(tx))) \in Seq(ByteSet)  BY <1>1, <1>5 DEF T
<1> QED  BY <1>6, BothEnds

(* The bytes of two texts are those of the one and then those of the other.  *)
LEMMA BytesConcat ==
  ASSUME NEW tx \in Seq(Chars), NEW ty \in Seq(Chars)
  PROVE  Bytes(tx \o ty) = Bytes(tx) \o Bytes(ty)
<1>1. Len(ty) \in Nat  OBVIOUS
<1> DEFINE T == {n \in Nat : n <= Len(ty) =>
                   Bytes(tx \o Before(ty, n)) = Bytes(tx) \o Bytes(Before(ty, n))}
<1>2. 0 \in T
  <2>1. Before(ty, 0) = <<>>  BY BothEnds
  <2>2. Newline \in Chars  BY EditsAssumption
  <2>3. Bytes(<<>>) = <<>>  BY <2>2, BytesOf
  <2>4. Bytes(tx) \o <<>> = Bytes(tx) /\ tx \o <<>> = tx  BY BytesType, ConcatEmptySeq
  <2> QED  BY <2>1, <2>3, <2>4
<1>3. ASSUME NEW n \in T PROVE n + 1 \in T
  <2> SUFFICES ASSUME n + 1 <= Len(ty)
               PROVE  Bytes(tx \o Before(ty, n + 1)) = Bytes(tx) \o Bytes(Before(ty, n + 1))
    OBVIOUS
  <2>1. /\ n \in 0..(Len(ty) - 1) /\ n \in 0..Len(ty)
        /\ Bytes(tx \o Before(ty, n)) = Bytes(tx) \o Bytes(Before(ty, n))
    BY <1>1
  <2> DEFINE p == Before(ty, n)
             c == ty[n + 1]
  <2>2. Before(ty, n + 1) = Append(p, c)  BY <2>1, OneMore
  <2>3. p \in Seq(Chars) /\ c \in Chars
    <3>1. Before(ty, n) \in Seq(Chars)  BY <2>1, Parts
    <3>2. n + 1 \in 1..Len(ty)  BY <1>1, <2>1
    <3> QED  BY <3>1, <3>2
  <2> HIDE DEF p, c
  <2>4. Bytes(Append(p, c)) = Bytes(p) \o Encoding(c)  BY <2>3, BytesOf
  <2>5. tx \o p \in Seq(Chars)  BY <2>3, ConcatProperties
  <2>6. tx \o Append(p, c) = Append(tx \o p, c)  BY <2>3
  <2>7. Bytes(tx \o Append(p, c)) = Bytes(tx \o p) \o Encoding(c)  BY <2>3, <2>5, <2>6, BytesOf
  <2>8. Bytes(tx) \in Seq(ByteSet) /\ Bytes(p) \in Seq(ByteSet) /\ Encoding(c) \in Seq(ByteSet)
    BY <2>3, BytesType, EncodingIs
  <2>9. (Bytes(tx) \o Bytes(p)) \o Encoding(c) = Bytes(tx) \o (Bytes(p) \o Encoding(c))
    BY <2>8, ConcatAssociative, SMTT(30)
  <2> QED  BY <2>1, <2>2, <2>4, <2>7, <2>9 DEF p
<1> HIDE DEF T
<1>4. T \in SUBSET Nat  BY DEF T
<1>5. T = Nat  BY <1>2, <1>3, <1>4, Encodes!SetInduction
<1>6. Bytes(tx \o Before(ty, Len(ty))) = Bytes(tx) \o Bytes(Before(ty, Len(ty)))
  BY <1>1, <1>5 DEF T
<1> QED  BY <1>6, BothEnds

----------------------------------------------------------------------------
(* A buffer in chunks                                                        *)

\* The server's bytes, up to the final zero, as one chunk for each character of
\* the editor's text: chunk k ends at m[k], and is a line's end, or ends with one,
\* where the character is.  The text in UTF-8 is one such buffer; but edits that
\* went to a wrong column leave one too.
Chunks(tx, b, m) ==
  /\ b \in Seq(ByteSet) /\ m \in [0..Len(tx) -> Nat]
  /\ m[0] = 0 /\ m[Len(tx)] < Len(b) /\ b[Len(b)] = Zero
  /\ \A k \in 1..Len(tx) : m[k - 1] < m[k]
  /\ \A k \in 1..Len(tx) : tx[k] = Newline => b[m[k]] = NL
  /\ \A i \in 1..Len(b) : b[i] = NL => \E k \in 1..Len(tx) : tx[k] = Newline /\ m[k] = i

LEMMA NotZero == NL # Zero /\ NL \in ByteSet /\ Zero \in ByteSet
BY EditsAssumption DEF NL, Zero, ByteSet

(* No chunk is empty.                                                        *)
LEMMA Ascending ==
  ASSUME NEW tx \in Seq(Chars), NEW b, NEW m, Chunks(tx, b, m)
  PROVE  \A i, j \in 0..Len(tx) : i <= j => m[j] - m[i] >= j - i
<1>1. /\ Len(tx) \in Nat /\ m \in [0..Len(tx) -> Nat]
      /\ \A k \in 1..Len(tx) : m[k - 1] < m[k]
  BY DEF Chunks
<1> DEFINE T == {n \in Nat : \A i \in 0..Len(tx) : i + n <= Len(tx) => m[i + n] - m[i] >= n}
<1>2. 0 \in T  BY <1>1
<1>3. ASSUME NEW n \in T PROVE n + 1 \in T
  <2> SUFFICES ASSUME NEW i \in 0..Len(tx), i + (n + 1) <= Len(tx)
               PROVE  m[i + (n + 1)] - m[i] >= n + 1
    OBVIOUS
  <2>1. m[i + n] - m[i] >= n  BY <1>1
  <2>2. i + (n + 1) \in 1..Len(tx) /\ (i + (n + 1)) - 1 = i + n /\ i + n \in 0..Len(tx)
    BY <1>1
  <2>3. m[i + n] < m[i + (n + 1)]  BY <1>1, <2>2
  <2>4. m[i + n] \in Nat /\ m[i + (n + 1)] \in Nat /\ m[i] \in Nat  BY <1>1, <2>2, SMTT(30)
  <2> QED  BY <2>1, <2>3, <2>4
<1> HIDE DEF T
<1>4. T \in SUBSET Nat  BY DEF T
<1>5. T = Nat  BY <1>2, <1>3, <1>4, Encodes!SetInduction
<1> SUFFICES ASSUME NEW i \in 0..Len(tx), NEW j \in 0..Len(tx), i <= j
             PROVE  m[j] - m[i] >= j - i
  OBVIOUS
<1>6. j - i \in T /\ i + (j - i) = j  BY <1>1, <1>5
<1> QED  BY <1>1, <1>6 DEF T

\* where each character of a text ends in its bytes
Offsets(tx) == [k \in 0..Len(tx) |-> Len(Bytes(Before(tx, k)))]

\* the first n characters, in the bytes of these
Prefix(tx, n) ==
  LET b == Bytes(Before(tx, n)) IN
  /\ \A i \in 1..Len(b) : b[i] # Zero
  /\ \A k \in 1..n : tx[k] = Newline => Offsets(tx)[k] \in 1..Len(b) /\ b[Offsets(tx)[k]] = NL
  /\ \A i \in 1..Len(b) : b[i] = NL => \E k \in 1..n : tx[k] = Newline /\ Offsets(tx)[k] = i

LEMMA OffsetsAre ==
  ASSUME NEW tx \in Seq(Chars)
  PROVE  /\ Offsets(tx) \in [0..Len(tx) -> Nat]
         /\ Offsets(tx)[0] = 0 /\ Offsets(tx)[Len(tx)] = Len(Bytes(tx))
         /\ \A k \in 0..(Len(tx) - 1) :
              /\ tx[k + 1] \in Chars /\ Bytes(Before(tx, k)) \in Seq(ByteSet)
              /\ Bytes(Before(tx, k + 1)) = Bytes(Before(tx, k)) \o Encoding(tx[k + 1])
              /\ Offsets(tx)[k + 1] = Offsets(tx)[k] + Width[tx[k + 1]]
<1>1. Len(tx) \in Nat  OBVIOUS
<1>2. \A k \in 0..Len(tx) : Before(tx, k) \in Seq(Chars)  BY Parts
<1>3. \A k \in 0..Len(tx) : Bytes(Before(tx, k)) \in Seq(ByteSet)  BY <1>2, BytesType
<1>4. \A k \in 0..Len(tx) : Len(Bytes(Before(tx, k))) \in Nat  BY <1>3
<1>5. Offsets(tx) \in [0..Len(tx) -> Nat]  BY <1>4 DEF Offsets
<1>6. Offsets(tx)[0] = 0
  <2>1. Before(tx, 0) = <<>>  BY BothEnds
  <2>2. Newline \in Chars  BY EditsAssumption
  <2>3. Bytes(<<>>) = <<>> /\ Len(<<>>) = 0  BY <2>2, BytesOf
  <2> QED  BY <1>1, <2>1, <2>3 DEF Offsets
<1>7. Offsets(tx)[Len(tx)] = Len(Bytes(tx))  BY <1>1, BothEnds DEF Offsets
<1>8. ASSUME NEW k \in 0..(Len(tx) - 1)
      PROVE  /\ tx[k + 1] \in Chars
             /\ Bytes(Before(tx, k + 1)) = Bytes(Before(tx, k)) \o Encoding(tx[k + 1])
             /\ Offsets(tx)[k + 1] = Offsets(tx)[k] + Width[tx[k + 1]]
  <2>1. k \in 0..Len(tx) /\ k + 1 \in 0..Len(tx) /\ k + 1 \in 1..Len(tx)  BY <1>1
  <2>2. tx[k + 1] \in Chars  BY <2>1
  <2>3. Before(tx, k + 1) = Append(Before(tx, k), tx[k + 1])  BY OneMore
  <2>4. Bytes(Before(tx, k + 1)) = Bytes(Before(tx, k)) \o Encoding(tx[k + 1])
    BY <1>2, <2>1, <2>2, <2>3, BytesOf
  <2>5. Len(Bytes(Before(tx, k + 1))) = Len(Bytes(Before(tx, k))) + Width[tx[k + 1]]
    BY <1>3, <2>1, <2>2, <2>4, EncodingIs, ConcatProperties
  <2> QED  BY <2>1, <2>2, <2>4, <2>5 DEF Offsets
<1>9. \A k \in 0..(Len(tx) - 1) : Bytes(Before(tx, k)) \in Seq(ByteSet)  BY <1>1, <1>3
<1> QED  BY <1>5, <1>6, <1>7, <1>8, <1>9

LEMMA PrefixIs ==
  ASSUME NEW tx \in Seq(Chars)
  PROVE  Prefix(tx, Len(tx))
<1>1. Len(tx) \in Nat  OBVIOUS
<1> DEFINE m == Offsets(tx)
           T == {n \in Nat : n <= Len(tx) => Prefix(tx, n)}
<1>2. 0 \in T
  <2>1. Offsets(tx)[0] = 0  BY OffsetsAre
  <2>2. Offsets(tx)[0] = Len(Bytes(Before(tx, 0)))  BY <1>1 DEF Offsets
  <2>3. Len(Bytes(Before(tx, 0))) = 0  BY <2>1, <2>2
  <2> QED  BY <2>3 DEF Prefix
<1>3. ASSUME NEW n \in T PROVE n + 1 \in T
  <2> SUFFICES ASSUME n + 1 <= Len(tx) PROVE Prefix(tx, n + 1)
    OBVIOUS
  <2> DEFINE b == Bytes(Before(tx, n))
             c == tx[n + 1]
             e == Encoding(c)
             bc == Bytes(Before(tx, n + 1))
  <2>1. n \in 0..(Len(tx) - 1) /\ n \in Nat /\ Prefix(tx, n)  BY <1>1
  <2>2. c \in Chars /\ b \in Seq(ByteSet) /\ bc = b \o e /\ m[n + 1] = m[n] + Width[c]
    BY <2>1, OffsetsAre
  <2>3. m[n] = Len(b)  BY <1>1, <2>1 DEF Offsets
  <2>4. /\ \A i \in 1..Len(b) : b[i] # Zero
        /\ \A k \in 1..n : tx[k] = Newline => m[k] \in 1..Len(b) /\ b[m[k]] = NL
        /\ \A i \in 1..Len(b) : b[i] = NL => \E k \in 1..n : tx[k] = Newline /\ m[k] = i
    BY <2>1 DEF Prefix
  <2>5. /\ e \in Seq(ByteSet) /\ Len(e) = Width[c] /\ Width[c] \in 1..3
        /\ \A j \in 1..Width[c] : e[j] = <<c, j>>
    BY <2>2, EncodingIs
  <2>c. c = tx[n + 1]  OBVIOUS
  <2> HIDE DEF b, c, e, bc, m
  <2>6. /\ Len(bc) = Len(b) + Width[c] /\ Len(b) \in Nat
        /\ \A i \in 1..Len(bc) : /\ i <= Len(b) => bc[i] = b[i] /\ i \in 1..Len(b)
                                 /\ i > Len(b) => /\ bc[i] = <<c, i - Len(b)>>
                                                  /\ i - Len(b) \in 1..Width[c]
    <3>1. /\ Len(b \o e) = Len(b) + Len(e)
          /\ \A i \in 1..(Len(b) + Len(e)) : (b \o e)[i] = IF i <= Len(b) THEN b[i] ELSE e[i - Len(b)]
      BY <2>2, <2>5, ConcatProperties
    <3>2. Len(b) \in Nat  BY <2>2
    <3>3. Len(bc) = Len(b) + Width[c]  BY <2>2, <2>5, <3>1
    <3>4. ASSUME NEW i \in 1..Len(bc)
          PROVE  /\ i <= Len(b) => bc[i] = b[i] /\ i \in 1..Len(b)
                 /\ i > Len(b) => bc[i] = <<c, i - Len(b)>> /\ i - Len(b) \in 1..Width[c]
      <4>1. i \in 1..(Len(b) + Len(e))  BY <2>5, <3>3
      <4>2. bc[i] = IF i <= Len(b) THEN b[i] ELSE e[i - Len(b)]  BY <2>2, <3>1, <4>1
      <4>3. i > Len(b) => i - Len(b) \in 1..Width[c]  BY <2>5, <3>2, <4>1
      <4>4. i > Len(b) => e[i - Len(b)] = <<c, i - Len(b)>>  BY <2>5, <4>3
      <4> QED  BY <3>2, <4>1, <4>2, <4>3, <4>4
    <3> QED  BY <3>2, <3>3, <3>4
  <2>7. \A i \in 1..Len(bc) : bc[i] # Zero
    <3> SUFFICES ASSUME NEW i \in 1..Len(bc) PROVE bc[i] # Zero
      OBVIOUS
    <3>1. CASE i <= Len(b)
      BY <2>4, <2>6, <3>1
    <3>2. CASE i > Len(b)
      <4>1. bc[i] = <<c, i - Len(b)>> /\ i - Len(b) # 0  BY <2>6, <3>2
      <4> QED  BY <4>1 DEF Zero
    <3> QED  BY <2>6, <3>1, <3>2
  <2>8. ASSUME NEW k \in 1..(n + 1), tx[k] = Newline
        PROVE  m[k] \in 1..Len(bc) /\ bc[m[k]] = NL
    <3>1. CASE k = n + 1
      <4>1. c = Newline /\ Width[c] = 1  BY <2>8, <2>c, <3>1, EditsAssumption
      <4>2. m[k] = Len(b) + 1  BY <2>2, <2>3, <3>1, <4>1
      <4> QED  BY <2>6, <4>1, <4>2 DEF NL
    <3>2. CASE k # n + 1
      <4>1. k \in 1..n  BY <2>1, <3>2
      <4>2. m[k] \in 1..Len(b) /\ b[m[k]] = NL  BY <2>4, <2>8, <4>1
      <4>3. m[k] \in 1..Len(bc) /\ m[k] <= Len(b)  BY <2>5, <2>6, <4>2
      <4> QED  BY <2>6, <4>2, <4>3
    <3> QED  BY <3>1, <3>2
  <2>9. ASSUME NEW i \in 1..Len(bc), bc[i] = NL
        PROVE  \E k \in 1..(n + 1) : tx[k] = Newline /\ m[k] = i
    <3>1. CASE i <= Len(b)
      <4>1. i \in 1..Len(b) /\ b[i] = NL  BY <2>6, <2>9, <3>1
      <4>2. \E k \in 1..n : tx[k] = Newline /\ m[k] = i  BY <2>4, <4>1
      <4> QED  BY <2>1, <4>2
    <3>2. CASE i > Len(b)
      <4>1. <<c, i - Len(b)>> = NL  BY <2>6, <2>9, <3>2
      <4>2. c = Newline /\ i - Len(b) = 1  BY <4>1 DEF NL
      <4>3. m[n + 1] = i  BY <2>2, <2>3, <2>6, <4>2, EditsAssumption
      <4>4. n + 1 \in 1..(n + 1)  BY <2>1
      <4> QED  BY <2>c, <4>2, <4>3, <4>4
    <3>3. i <= Len(b) \/ i > Len(b)  BY <2>6
    <3> QED  BY ONLY <3>1, <3>2, <3>3
  <2> QED  BY <2>7, <2>8, <2>9 DEF Prefix, bc, m
<1> HIDE DEF T
<1>4. T \in SUBSET Nat  BY DEF T
<1>5. T = Nat  BY <1>2, <1>3, <1>4, Encodes!SetInduction
<1> QED  BY <1>1, <1>5 DEF T

(* The bytes of a text are in chunks.                                        *)
LEMMA BytesInChunks ==
  ASSUME NEW tx \in Seq(Chars)
  PROVE  Chunks(tx, BufferOf(tx), Offsets(tx))
<1> DEFINE b == Bytes(tx)
           m == Offsets(tx)
           z == BufferOf(tx)
<1>1. Len(tx) \in Nat /\ b \in Seq(ByteSet)  BY BytesType
<1>2. /\ m \in [0..Len(tx) -> Nat] /\ m[0] = 0 /\ m[Len(tx)] = Len(b)
      /\ \A k \in 0..(Len(tx) - 1) : tx[k + 1] \in Chars /\ m[k + 1] = m[k] + Width[tx[k + 1]]
  BY OffsetsAre
<1>3. /\ \A k \in 1..Len(tx) : tx[k] = Newline => m[k] \in 1..Len(b) /\ b[m[k]] = NL
      /\ \A i \in 1..Len(b) : b[i] = NL => \E k \in 1..Len(tx) : tx[k] = Newline /\ m[k] = i
  <2>1. Before(tx, Len(tx)) = tx  BY BothEnds
  <2> QED  BY <2>1, PrefixIs DEF Prefix
<1>4. z = Append(b, Zero)  BY DEF BufferOf
<1> HIDE DEF b, m, z
<1>5. /\ z \in Seq(ByteSet) /\ Len(b) \in Nat /\ Len(z) = Len(b) + 1 /\ z[Len(z)] = Zero
      /\ \A i \in 1..Len(b) : z[i] = b[i]
  BY <1>1, <1>4, NotZero
<1>6. \A k \in 1..Len(tx) : m[k - 1] < m[k]
  <2> SUFFICES ASSUME NEW k \in 1..Len(tx) PROVE m[k - 1] < m[k]
    OBVIOUS
  <2>1. k - 1 \in 0..(Len(tx) - 1) /\ k - 1 \in 0..Len(tx) /\ (k - 1) + 1 = k  BY <1>1
  <2>2. tx[k] \in Chars /\ m[k] = m[k - 1] + Width[tx[k]]  BY <1>2, <2>1
  <2>3. Width[tx[k]] \in 1..3 /\ m[k - 1] \in Nat  BY <1>2, <2>1, <2>2, EditsAssumption
  <2> QED  BY <2>2, <2>3
<1>7. \A k \in 1..Len(tx) : tx[k] = Newline => z[m[k]] = NL  BY <1>3, <1>5
<1>8. ASSUME NEW i \in 1..Len(z), z[i] = NL
      PROVE  \E k \in 1..Len(tx) : tx[k] = Newline /\ m[k] = i
  <2>1. i # Len(z)  BY <1>5, <1>8, NotZero
  <2>2. i \in 1..Len(b)  BY <1>5, <2>1
  <2> QED  BY <1>3, <1>5, <1>8, <2>2
<1>9. m[Len(tx)] < Len(z)  BY <1>2, <1>5
<1> QED  BY <1>2, <1>5, <1>6, <1>7, <1>8, <1>9 DEF Chunks, m, z

----------------------------------------------------------------------------
(* Lines                                                                     *)

(* Numbers up to a bound have a largest one.                                 *)
LEMMA Largest ==
  ASSUME NEW n \in Nat, NEW L \in SUBSET (0..n), L # {}
  PROVE  Max(L) \in L /\ \A i \in L : i <= Max(L)
<1> DEFINE T == {k \in Nat : \A A \in SUBSET (0..k) :
                   A # {} => \E x \in A : \A i \in A : i <= x}
<1>1. 0 \in T
  <2> SUFFICES ASSUME NEW A \in SUBSET (0..0), A # {} PROVE \E x \in A : \A i \in A : i <= x
    OBVIOUS
  <2>1. \A i \in A : i = 0  OBVIOUS
  <2>2. PICK x \in A : TRUE  OBVIOUS
  <2>3. x = 0 /\ x \in A  BY <2>1
  <2> QED  BY <2>1, <2>3
<1>2. ASSUME NEW k \in T PROVE k + 1 \in T
  <2> SUFFICES ASSUME NEW A \in SUBSET (0..(k + 1)), A # {}
               PROVE  \E x \in A : \A i \in A : i <= x
    OBVIOUS
  <2>1. CASE k + 1 \in A
    BY <2>1
  <2>2. CASE k + 1 \notin A
    <3>1. A \in SUBSET (0..k)  BY <2>2
    <3> QED  BY <3>1
  <2> QED  BY <2>1, <2>2
<1> HIDE DEF T
<1>3. T \in SUBSET Nat  BY DEF T
<1>4. T = Nat  BY <1>1, <1>2, <1>3, Encodes!SetInduction
<1>5. PICK x \in L : \A i \in L : i <= x  BY <1>4 DEF T
<1>6. L \in SUBSET Int  OBVIOUS
<1>7. Encodes!Max(L) = x  BY <1>5, <1>6, Encodes!MaxIs
<1>8. Max(L) = x  BY <1>7 DEF Encodes!Max, Max
<1> QED  BY <1>5, <1>8

\* the start of the line of an offset of the text
LineAt(tx, k) == Max(LineOffsets(Before(tx, k), Newline))

LEMMA LineAtIs ==
  ASSUME NEW tx \in Seq(Chars), NEW k \in 0..Len(tx)
  PROVE  /\ LineAt(tx, k) \in 0..k /\ LineAt(tx, k) \in Nat
         /\ LineAt(tx, k) = 0 \/ tx[LineAt(tx, k)] = Newline
         /\ \A j \in (LineAt(tx, k) + 1)..k : tx[j] # Newline
         /\ PositionAt(tx, k).character = k - LineAt(tx, k)
         /\ LineOffsets(Before(tx, k), Newline) = {0} \cup {j \in 1..k : tx[j] = Newline}
<1> DEFINE L == LineOffsets(Before(tx, k), Newline)
<1>1. k \in Nat /\ Len(tx) \in Nat  OBVIOUS
<1>2. /\ DOMAIN Before(tx, k) = 1..k
      /\ \A j \in 1..k : Before(tx, k)[j] = tx[j]
  <2>1. /\ Before(tx, k) \in Seq(Chars) /\ Len(Before(tx, k)) = k
        /\ \A j \in 1..k : Before(tx, k)[j] = tx[j]
    BY Parts
  <2> QED  BY <2>1
<1>3. L = {0} \cup {j \in 1..k : tx[j] = Newline}  BY <1>2 DEF LineOffsets
<1>4. PositionAt(tx, k).character = k - LineAt(tx, k)  BY DEF PositionAt, LineAt
<1>5. LineAt(tx, k) = Max(L)  BY DEF LineAt
<1> HIDE DEF L
<1>6. L \in SUBSET (0..k) /\ L # {}  BY <1>1, <1>3
<1>7. Max(L) \in L /\ \A i \in L : i <= Max(L)  BY <1>1, <1>6, Largest
<1>8. Max(L) \in 0..k /\ Max(L) \in Nat
  <2>1. Max(L) \in 0..k  BY <1>6, <1>7
  <2> QED  BY <1>1, <2>1
<1>9. Max(L) = 0 \/ tx[Max(L)] = Newline  BY <1>3, <1>7
<1>10. \A j \in (Max(L) + 1)..k : tx[j] # Newline
  <2> SUFFICES ASSUME NEW j \in (Max(L) + 1)..k, tx[j] = Newline PROVE FALSE
    OBVIOUS
  <2>1. j \in 1..k /\ j > Max(L)  BY <1>1, <1>8
  <2>2. j \in L  BY <1>3, <2>1
  <2> QED  BY <1>7, <1>8, <2>1, <2>2
<1> QED  BY <1>3, <1>4, <1>5, <1>8, <1>9, <1>10 DEF L

(* The line that the server takes for the one of a position starts where the *)
(* chunk before it ends.                                                     *)
LEMMA LineFound ==
  ASSUME NEW tx \in Seq(Chars), NEW b, NEW m, Chunks(tx, b, m), NEW k \in 0..Len(tx)
  PROVE  LET offsets == LineOffsets(b, NL)
             line == PositionAt(tx, k).line
         IN  /\ line < Cardinality(offsets)
             /\ StartOf(offsets, line) = m[LineAt(tx, k)]
<1> DEFINE M == LineOffsets(b, NL)
           L == LineOffsets(Before(tx, k), Newline)
           s == LineAt(tx, k)
           A == L \ {s}
           Below(i) == {j \in M : j < i}
           line == PositionAt(tx, k).line
<1>1. /\ Len(tx) \in Nat /\ m \in [0..Len(tx) -> Nat] /\ m[0] = 0
      /\ b \in Seq(ByteSet) /\ m[Len(tx)] < Len(b)
      /\ \A j \in 1..Len(tx) : tx[j] = Newline => b[m[j]] = NL
      /\ \A i \in 1..Len(b) : b[i] = NL => \E j \in 1..Len(tx) : tx[j] = Newline /\ m[j] = i
  BY DEF Chunks
<1>2. \A i, j \in 0..Len(tx) : i <= j => m[j] - m[i] >= j - i  BY Ascending
<1>3. /\ s \in 0..k /\ s \in Nat /\ k \in Nat
      /\ s = 0 \/ tx[s] = Newline
      /\ \A j \in (s + 1)..k : tx[j] # Newline
      /\ L = {0} \cup {j \in 1..k : tx[j] = Newline}
  BY LineAtIs
<1>4. line = Cardinality(L) - 1  BY DEF PositionAt
<1>5. M = {0} \cup {i \in 1..Len(b) : b[i] = NL}
  <2>1. DOMAIN b = 1..Len(b)  BY <1>1
  <2> QED  BY <2>1 DEF LineOffsets
<1> HIDE DEF M, L, s, line
<1>6. s \in L /\ \A j \in L : j \in 0..k /\ j <= s /\ j \in 0..Len(tx)
  <2>1. s \in L  BY <1>1, <1>3
  <2>2. ASSUME NEW j \in L PROVE j \in 0..k /\ j <= s /\ j \in 0..Len(tx)
    <3>1. j \in 0..k  BY <1>3
    <3>2. j > s => j \in (s + 1)..k  BY <1>3, <3>1
    <3>3. j > s => j \in 1..k /\ tx[j] = Newline  BY <1>3
    <3>4. ~(j > s)  BY <1>3, <3>2, <3>3
    <3> QED  BY <1>1, <1>3, <3>1, <3>4
  <2> QED  BY <2>1, <2>2
<1>7. \A j \in 1..Len(tx) : m[j] \in 1..Len(b) /\ m[j] \in Nat
  <2> SUFFICES ASSUME NEW j \in 1..Len(tx) PROVE m[j] \in 1..Len(b) /\ m[j] \in Nat
    OBVIOUS
  <2>1. 0 \in 0..Len(tx) /\ j \in 0..Len(tx) /\ Len(tx) \in 0..Len(tx) /\ 0 <= j /\ j <= Len(tx)
    BY <1>1
  <2>2. m[j] - m[0] >= j - 0 /\ m[Len(tx)] - m[j] >= Len(tx) - j  BY <1>2, <2>1
  <2>3. m[j] \in Nat /\ m[Len(tx)] \in Nat /\ Len(b) \in Nat  BY <1>1, <2>1
  <2> QED  BY <1>1, <2>2, <2>3
<1>8. \A j \in L : m[j] \in M
  <2> SUFFICES ASSUME NEW j \in L PROVE m[j] \in M
    OBVIOUS
  <2>1. CASE j = 0
    BY <1>1, <1>5, <2>1
  <2>2. CASE j # 0
    <3>1. j \in 1..Len(tx) /\ tx[j] = Newline  BY <1>1, <1>3, <2>2
    <3> QED  BY <1>1, <1>5, <1>7, <3>1
  <2> QED  BY <2>1, <2>2
<1>9. /\ IsFiniteSet(M) /\ Cardinality(M) \in Nat
      /\ IsFiniteSet(L) /\ Cardinality(L) \in Nat
  <2>1. Len(b) \in Nat  BY <1>1
  <2>2. M \in SUBSET Nat /\ \A i \in M : i <= Len(b)  BY <1>5, <2>1
  <2>3. L \in SUBSET Nat /\ \A i \in L : i <= k  BY <1>3, <1>6
  <2> QED  BY <1>3, <2>1, <2>2, <2>3, FS_BoundedSetOfNaturals, FS_CardinalityType
<1>10. /\ IsFiniteSet(A) /\ Cardinality(A) = line /\ line \in Nat
  <2>1. Cardinality(A) = Cardinality(L) - 1 /\ IsFiniteSet(A)  BY <1>6, <1>9, FS_RemoveElement
  <2> QED  BY <1>4, <1>9, <2>1, FS_CardinalityType
<1>11. Cardinality(Below(m[s])) = line
  <2> DEFINE f == [j \in A |-> m[j]]
             B == Below(m[s])
  <2>0. m[s] \in Nat /\ s \in 0..Len(tx)  BY <1>1, <1>6
  <2>1. \A j \in A : m[j] \in B
    <3> SUFFICES ASSUME NEW j \in A PROVE m[j] \in B
      OBVIOUS
    <3>1. j \in 0..Len(tx) /\ j < s /\ j \in Nat  BY <1>3, <1>6
    <3>2. m[s] - m[j] >= s - j  BY <1>2, <2>0, <3>1
    <3>3. m[j] < m[s]  BY <1>1, <1>3, <2>0, <3>1, <3>2
    <3> QED  BY <1>8, <3>3
  <2>2. \A i, j \in A : m[i] = m[j] => i = j
    <3> SUFFICES ASSUME NEW i \in A, NEW j \in A, i # j PROVE m[i] # m[j]
      OBVIOUS
    <3>1. i \in 0..Len(tx) /\ j \in 0..Len(tx) /\ m[i] \in Nat /\ m[j] \in Nat  BY <1>1, <1>6
    <3>2. (i <= j => m[j] - m[i] >= j - i) /\ (j <= i => m[i] - m[j] >= i - j)  BY <1>2, <3>1
    <3> QED  BY <1>1, <3>1, <3>2
  <2>3. \A i \in B : \E j \in A : m[j] = i
    <3> SUFFICES ASSUME NEW i \in M, i < m[s] PROVE \E j \in A : m[j] = i
      OBVIOUS
    <3>1. CASE i = 0
      <4>1. s # 0  BY <1>1, <3>1
      <4>2. 0 \in A  BY <1>3, <4>1
      <4> QED  BY <1>1, <3>1, <4>2
    <3>2. CASE i # 0
      <4>1. PICK j \in 1..Len(tx) : tx[j] = Newline /\ m[j] = i  BY <1>1, <1>5, <3>2
      <4>2. s <= j => m[j] - m[s] >= j - s  BY <1>1, <1>2, <2>0
      <4>3. m[j] \in Nat /\ m[j] < m[s]  BY <1>7, <4>1
      <4>4. j < s  BY <1>3, <2>0, <4>2, <4>3
      <4>5. j \in L  BY <1>3, <4>1, <4>4
      <4> QED  BY <4>1, <4>4, <4>5
    <3> QED  BY <3>1, <3>2
  <2> HIDE DEF A, B
  <2>4. f \in Bijection(A, B)
    <3>1. f \in [A -> B]  BY <2>1
    <3>2. f \in Injection(A, B)  BY <2>2, <3>1 DEF Injection, IsInjective
    <3>3. f \in Surjection(A, B)  BY <2>3, <3>1 DEF Surjection
    <3> QED  BY <3>2, <3>3 DEF Bijection
  <2>5. ExistsBijection(A, B)  BY <2>4 DEF ExistsBijection
  <2>6. Cardinality(B) = Cardinality(A)  BY <1>10, <2>5, FS_Bijection
  <2> QED  BY <1>10, <2>6 DEF B
<1>12. m[s] \in M /\ \A i \in M : i \in Nat
  BY <1>1, <1>5, <1>6, <1>8
<1>13. \A i \in M : IsFiniteSet(Below(i)) /\ Cardinality(Below(i)) \in Nat
  BY <1>9, FS_Subset, FS_CardinalityType
<1>14. \A i, j \in M : i < j => Cardinality(Below(i)) < Cardinality(Below(j))
  <2> SUFFICES ASSUME NEW i \in M, NEW j \in M, i < j
               PROVE  Cardinality(Below(i)) < Cardinality(Below(j))
    OBVIOUS
  <2>1. i \in Below(j) /\ i \notin Below(i)  BY <1>12
  <2>2. Below(i) \in SUBSET Below(j)  BY <1>12
  <2> HIDE DEF Below
  <2>3. /\ Cardinality(Below(i)) <= Cardinality(Below(j))
        /\ Cardinality(Below(j)) = Cardinality(Below(i)) => Below(j) = Below(i)
    BY <1>13, <2>2, FS_Subset
  <2> QED  BY <1>13, <2>1, <2>3
<1>15. StartOf(M, line) = m[s]
  <2>1. \A i \in M : Cardinality(Below(i)) = line <=> i = m[s]
    <3> SUFFICES ASSUME NEW i \in M, i # m[s] PROVE Cardinality(Below(i)) # line
      BY <1>11
    <3>1. i < m[s] \/ m[s] < i  BY <1>12
    <3> HIDE DEF Below
    <3> QED  BY <1>11, <1>12, <1>13, <1>14, <3>1
  <2>2. StartOf(M, line) = CHOOSE i \in M : Cardinality(Below(i)) = line  BY DEF StartOf
  <2> HIDE DEF Below
  <2> QED  BY <1>12, <2>1, <2>2
<1>16. line < Cardinality(M)
  <2>1. Below(m[s]) \in SUBSET M /\ m[s] \notin Below(m[s])  BY <1>12
  <2> HIDE DEF Below
  <2>2. /\ Cardinality(Below(m[s])) <= Cardinality(M)
        /\ Cardinality(M) = Cardinality(Below(m[s])) => M = Below(m[s])
    BY <1>9, <2>1, FS_Subset
  <2> QED  BY <1>9, <1>10, <1>11, <1>12, <2>1, <2>2
<1> QED  BY <1>15, <1>16 DEF M, s, line

----------------------------------------------------------------------------
(* What an edit leaves                                                       *)

\* where the server finds the offset k of the text
End(tx, m, k) == m[LineAt(tx, k)] + (k - LineAt(tx, k))

(* It is not behind the chunk it is meant for, and no end of a line is       *)
(* between.                                                                  *)
LEMMA EndIs ==
  ASSUME NEW tx \in Seq(Chars), NEW b, NEW m, Chunks(tx, b, m), NEW k \in 0..Len(tx)
  PROVE  /\ End(tx, m, k) \in Nat /\ End(tx, m, k) <= m[k] /\ End(tx, m, k) < Len(b)
         /\ m[LineAt(tx, k)] <= End(tx, m, k)
         /\ Offset(LineOffsets(b, NL), PositionAt(tx, k)) = End(tx, m, k)
         /\ PositionAt(tx, k).line < Cardinality(LineOffsets(b, NL))
         /\ \A j \in 1..Len(tx) : tx[j] = Newline /\ j <= k => j <= LineAt(tx, k) /\ m[j] <= End(tx, m, k)
         /\ \A j \in 1..Len(tx) : j > k => m[j] > End(tx, m, k)
<1> DEFINE s == LineAt(tx, k)
           o == End(tx, m, k)
<1>1. /\ Len(tx) \in Nat /\ m \in [0..Len(tx) -> Nat] /\ b \in Seq(ByteSet)
      /\ m[Len(tx)] < Len(b)
  BY DEF Chunks
<1>2. \A i, j \in 0..Len(tx) : i <= j => m[j] - m[i] >= j - i  BY Ascending
<1>3. /\ s \in 0..k /\ s \in Nat /\ k \in Nat
      /\ \A j \in (s + 1)..k : tx[j] # Newline
      /\ PositionAt(tx, k).character = k - s
  BY LineAtIs
<1>4. o = m[s] + (k - s)  BY DEF End
<1>5. /\ PositionAt(tx, k).line < Cardinality(LineOffsets(b, NL))
      /\ StartOf(LineOffsets(b, NL), PositionAt(tx, k).line) = m[s]
  BY LineFound
<1>6. Offset(LineOffsets(b, NL), PositionAt(tx, k)) = o  BY <1>3, <1>4, <1>5 DEF Offset
<1> HIDE DEF s, o
<1>7. s \in 0..Len(tx) /\ k \in 0..Len(tx) /\ m[s] \in Nat /\ m[k] \in Nat /\ s <= k
  BY <1>1, <1>3, SMTT(30)
<1>8. o \in Nat /\ o <= m[k] /\ m[s] <= o
  <2>1. m[k] - m[s] >= k - s  BY <1>2, <1>7
  <2> QED  BY <1>3, <1>4, <1>7, <2>1
<1>9. o < Len(b)
  <2>1. m[Len(tx)] - m[k] >= Len(tx) - k  BY <1>1, <1>2, <1>7
  <2>2. m[Len(tx)] \in Nat /\ Len(b) \in Nat /\ k <= Len(tx)  BY <1>1
  <2> QED  BY <1>1, <1>3, <1>7, <1>8, <2>1, <2>2
<1>10. ASSUME NEW j \in 1..Len(tx), tx[j] = Newline, j <= k PROVE j <= s /\ m[j] <= o
  <2>1. ~(j > s)
    <3>1. j > s => j \in (s + 1)..k  BY <1>3, <1>10
    <3> QED  BY <1>3, <1>10, <3>1
  <2>2. j <= s /\ j \in 0..Len(tx) /\ m[j] \in Nat  BY <1>1, <1>3, <2>1
  <2>3. m[s] - m[j] >= s - j  BY <1>2, <1>7, <2>2
  <2> QED  BY <1>3, <1>7, <1>8, <2>2, <2>3
<1>11. ASSUME NEW j \in 1..Len(tx), j > k PROVE m[j] > o
  <2>1. j \in 0..Len(tx) /\ m[j] \in Nat  BY <1>1
  <2>2. m[j] - m[k] >= j - k  BY <1>2, <1>7, <1>11, <2>1
  <2> QED  BY <1>7, <1>8, <1>11, <2>1, <2>2
<1> QED  BY <1>5, <1>6, <1>8, <1>9, <1>10, <1>11 DEF s, o

(* The two ends of a range stay in order.                                    *)
LEMMA EndsInOrder ==
  ASSUME NEW tx \in Seq(Chars), NEW b, NEW m, Chunks(tx, b, m),
         NEW i \in 0..Len(tx), NEW j \in i..Len(tx)
  PROVE  End(tx, m, i) <= End(tx, m, j)
<1> DEFINE p == LineAt(tx, i)
           q == LineAt(tx, j)
<1>1. Len(tx) \in Nat /\ m \in [0..Len(tx) -> Nat] /\ i \in 0..Len(tx) /\ j \in 0..Len(tx)
  BY DEF Chunks
<1>2. /\ p \in 0..i /\ p \in Nat /\ (p = 0 \/ tx[p] = Newline)
      /\ \A k \in (p + 1)..i : tx[k] # Newline
  BY <1>1, LineAtIs
<1>3. /\ q \in 0..j /\ q \in Nat /\ (q = 0 \/ tx[q] = Newline)
      /\ \A k \in (q + 1)..j : tx[k] # Newline
  BY <1>1, LineAtIs
<1>4. End(tx, m, i) \in Nat /\ (q > i /\ q \in 1..Len(tx) => m[q] > End(tx, m, i))
  BY <1>1, EndIs
<1>5. End(tx, m, j) \in Nat /\ m[q] <= End(tx, m, j)  BY <1>1, EndIs
<1>6. End(tx, m, i) = m[p] + (i - p) /\ End(tx, m, j) = m[q] + (j - q)  BY DEF End
<1> HIDE DEF p, q
<1>7. p = q \/ q > i
  <2>1. ASSUME p < q, q <= i PROVE FALSE
    <3>1. q \in (p + 1)..i /\ q # 0  BY <1>2, <1>3, <2>1
    <3> QED  BY <1>2, <1>3, <3>1
  <2>2. ASSUME q < p PROVE FALSE
    <3>1. p \in (q + 1)..j /\ p # 0  BY <1>1, <1>2, <1>3, <2>2
    <3> QED  BY <1>2, <1>3, <3>1
  <2> QED  BY <1>1, <1>2, <1>3, <2>1, <2>2
<1>8. CASE p = q
  <2>1. m[p] \in Nat  BY <1>1, <1>2
  <2> QED  BY <1>1, <1>2, <1>6, <1>8, <2>1
<1>9. CASE q > i
  <2>1. q \in 1..Len(tx)  BY <1>1, <1>3, <1>9
  <2>2. m[q] \in Nat  BY <1>1, <2>1
  <2> QED  BY <1>4, <1>5, <1>9, <2>1, <2>2
<1> QED  BY <1>7, <1>8, <1>9

\* three sequences, one behind the other
Joined(u, p, q, r) ==
  /\ Len(u) = Len(p) + Len(q) + Len(r)
  /\ \A x \in 1..Len(p) : u[x] = p[x]
  /\ \A x \in 1..Len(q) : u[Len(p) + x] = q[x]
  /\ \A x \in 1..Len(r) : u[Len(p) + Len(q) + x] = r[x]

LEMMA Three ==
  ASSUME NEW S, NEW p \in Seq(S), NEW q \in Seq(S), NEW r \in Seq(S)
  PROVE  p \o q \o r \in Seq(S) /\ Joined(p \o q \o r, p, q, r)
<1> DEFINE t == p \o q
           u == t \o r
<1>1. Len(p) \in Nat /\ Len(q) \in Nat /\ Len(r) \in Nat  OBVIOUS
<1>2. /\ t \in Seq(S) /\ Len(t) = Len(p) + Len(q)
      /\ \A x \in 1..(Len(p) + Len(q)) : t[x] = IF x <= Len(p) THEN p[x] ELSE q[x - Len(p)]
  BY ConcatProperties
<1> HIDE DEF t
<1>3. /\ u \in Seq(S) /\ Len(u) = Len(t) + Len(r)
      /\ \A x \in 1..(Len(t) + Len(r)) : u[x] = IF x <= Len(t) THEN t[x] ELSE r[x - Len(t)]
  <2>1. t \in Seq(S)  BY <1>2
  <2> QED  BY ONLY r \in Seq(S), <2>1, ConcatProperties, Zenon
<1> HIDE DEF u
<1>4. ASSUME NEW x \in 1..Len(p) PROVE u[x] = p[x]
  <2>1. x \in 1..(Len(p) + Len(q)) /\ x <= Len(p)  BY <1>1
  <2>2. x \in 1..(Len(t) + Len(r)) /\ x <= Len(t)  BY <1>1, <1>2
  <2> QED  BY <1>2, <1>3, <2>1, <2>2
<1>5. ASSUME NEW x \in 1..Len(q) PROVE u[Len(p) + x] = q[x]
  <2>1. Len(p) + x \in 1..(Len(p) + Len(q)) /\ ~(Len(p) + x <= Len(p)) /\ Len(p) + x - Len(p) = x
    BY <1>1
  <2>2. Len(p) + x \in 1..(Len(t) + Len(r)) /\ Len(p) + x <= Len(t)  BY <1>1, <1>2
  <2>3. u[Len(p) + x] = t[Len(p) + x]  BY <1>3, <2>2
  <2>4. t[Len(p) + x] = q[Len(p) + x - Len(p)]  BY <1>2, <2>1
  <2> QED  BY <2>1, <2>3, <2>4
<1>6. ASSUME NEW x \in 1..Len(r) PROVE u[Len(p) + Len(q) + x] = r[x]
  <2>1. /\ Len(t) + x \in 1..(Len(t) + Len(r)) /\ ~(Len(t) + x <= Len(t)) /\ Len(t) + x - Len(t) = x
    BY <1>1, <1>2
  <2>2. u[Len(t) + x] = r[Len(t) + x - Len(t)]  BY <1>3, <2>1
  <2> QED  BY <1>2, <2>1, <2>2
<1> QED  BY <1>2, <1>3, <1>4, <1>5, <1>6 DEF Joined, t, u

\* a sequence with a part of it replaced
Replaced(q, o, new, p) == Before(q, o) \o new \o After(q, p)

\* what is in it
Replaces(r, q, o, new, p) ==
  /\ Len(r) = o + Len(new) + (Len(q) - p)
  /\ \A k \in 1..o : r[k] = q[k]
  /\ \A k \in 1..Len(new) : r[o + k] = new[k]
  /\ \A k \in 1..(Len(q) - p) : r[o + Len(new) + k] = q[p + k]

LEMMA ReplacedIs ==
  ASSUME NEW S, NEW q \in Seq(S), NEW o \in 0..Len(q), NEW p \in 0..Len(q), NEW new \in Seq(S)
  PROVE  /\ Replaced(q, o, new, p) \in Seq(S)
         /\ Replaces(Replaced(q, o, new, p), q, o, new, p)
<1> DEFINE q1 == Before(q, o)
           q2 == After(q, p)
           r == Replaced(q, o, new, p)
<1>1. /\ q1 \in Seq(S) /\ Len(q1) = o /\ \A k \in 1..o : q1[k] = q[k]
      /\ q2 \in Seq(S) /\ Len(q2) = Len(q) - p
      /\ \A k \in 1..(Len(q) - p) : q2[k] = q[p + k]
  BY Parts
<1>2. r = q1 \o new \o q2  BY DEF Replaced
<1> HIDE DEF q1, q2, r
<1>3. q1 \in Seq(S) /\ q2 \in Seq(S)  BY <1>1
<1>4. q1 \o new \o q2 \in Seq(S) /\ Joined(q1 \o new \o q2, q1, new, q2)
  BY ONLY <1>3, new \in Seq(S), Three, Zenon
<1>5. r \in Seq(S) /\ Joined(r, q1, new, q2)  BY ONLY <1>2, <1>4
<1> QED  BY <1>1, <1>5 DEF r, Joined, Replaces

\* the ends of the chunks after characters from i to j were replaced
NewEnds(tx, m, i, j, ins) ==
  LET n == Len(ins) IN
  [k \in 0..(i + n + (Len(tx) - j)) |->
     IF k <= i THEN IF k <= LineAt(tx, i) THEN m[k] ELSE m[LineAt(tx, i)] + (k - LineAt(tx, i))
     ELSE IF k <= i + n THEN End(tx, m, i) + Offsets(ins)[k - i]
     ELSE End(tx, m, i) + Len(Bytes(ins)) + (m[k - i - n + j] - End(tx, m, j))]

(* A buffer in chunks is one after an edit too, though the edit may go to a  *)
(* wrong column.                                                             *)
LEMMA ReplacedInChunks ==
  ASSUME NEW tx \in Seq(Chars), NEW b, NEW m, Chunks(tx, b, m),
         NEW i \in 0..Len(tx), NEW j \in i..Len(tx), NEW ins \in Seq(Chars)
  PROVE  LET o == End(tx, m, i)
             p == End(tx, m, j)
             ty == Replaced(tx, i, ins, j)
         IN  Chunks(ty, Replaced(b, o, Bytes(ins), p), NewEnds(tx, m, i, j, ins))
<1> DEFINE o == End(tx, m, i)
           p == End(tx, m, j)
           ty == Replaced(tx, i, ins, j)
           new == Bytes(ins)
           r == Replaced(b, o, new, p)
           mi == Offsets(ins)
           m2 == NewEnds(tx, m, i, j, ins)
           s == LineAt(tx, i)
           n == Len(ins)
           N == Len(new)
           l == Len(tx) - j
           z == Len(b) - p
<1>1. /\ Len(tx) \in Nat /\ m \in [0..Len(tx) -> Nat] /\ b \in Seq(ByteSet) /\ Len(b) \in Nat
      /\ m[0] = 0 /\ m[Len(tx)] < Len(b) /\ b[Len(b)] = Zero
      /\ \A k \in 1..Len(tx) : m[k - 1] < m[k]
      /\ \A k \in 1..Len(tx) : tx[k] = Newline => b[m[k]] = NL
      /\ \A x \in 1..Len(b) : b[x] = NL => \E k \in 1..Len(tx) : tx[k] = Newline /\ m[k] = x
  BY DEF Chunks
<1>2. i \in 0..Len(tx) /\ j \in 0..Len(tx) /\ i \in Nat /\ j \in Nat /\ i <= j /\ l \in Nat
  BY <1>1
<1>3. /\ o \in Nat /\ o <= m[i] /\ o < Len(b) /\ m[s] <= o
      /\ \A k \in 1..Len(tx) : tx[k] = Newline /\ k <= i => k <= s /\ m[k] <= o
      /\ \A k \in 1..Len(tx) : k > i => m[k] > o
  BY <1>2, EndIs
<1>4. /\ p \in Nat /\ p <= m[j] /\ p < Len(b)
      /\ \A k \in 1..Len(tx) : tx[k] = Newline /\ k <= j => m[k] <= p
      /\ \A k \in 1..Len(tx) : k > j => m[k] > p
  BY <1>2, EndIs
<1>5. s \in 0..i /\ s \in Nat /\ m[s] \in Nat
  <2>1. s \in 0..i  BY <1>2, LineAtIs
  <2>2. s \in 0..Len(tx) /\ s \in Nat  BY <1>1, <1>2, <2>1
  <2> QED  BY <1>1, <2>1, <2>2
<1>6. o = m[s] + (i - s)  BY DEF End
<1>7. /\ n \in Nat /\ new \in Seq(ByteSet) /\ N \in Nat
      /\ mi \in [0..n -> Nat] /\ mi[0] = 0 /\ mi[n] = N
  BY BytesType, OffsetsAre
<1>8. \A k \in 1..n : mi[k - 1] < mi[k]
  BY BytesInChunks DEF Chunks
<1>9. /\ \A x \in 1..N : new[x] # Zero
      /\ \A k \in 1..n : ins[k] = Newline => mi[k] \in 1..N /\ new[mi[k]] = NL
      /\ \A x \in 1..N : new[x] = NL => \E k \in 1..n : ins[k] = Newline /\ mi[k] = x
  <2>1. Before(ins, n) = ins  BY BothEnds
  <2> QED  BY <2>1, PrefixIs DEF Prefix
<1>10. /\ ty \in Seq(Chars) /\ Len(ty) = i + n + l
       /\ \A k \in 1..i : ty[k] = tx[k]
       /\ \A k \in 1..n : ty[i + k] = ins[k]
       /\ \A k \in 1..l : ty[i + n + k] = tx[j + k]
  <2>1. ty \in Seq(Chars) /\ Replaces(ty, tx, i, ins, j)
    BY <1>2, ReplacedIs, Zenon
  <2> HIDE DEF ty
  <2> QED  BY <2>1 DEF Replaces
<1>11. /\ r \in Seq(ByteSet) /\ Len(r) = o + N + z /\ z \in Nat /\ z > 0
       /\ \A k \in 1..o : r[k] = b[k]
       /\ \A k \in 1..N : r[o + k] = new[k]
       /\ \A k \in 1..z : r[o + N + k] = b[p + k]
  <2>1. o \in 0..Len(b) /\ p \in 0..Len(b) /\ z \in Nat /\ z > 0  BY <1>1, <1>3, <1>4
  <2> HIDE DEF o, p, new
  <2>2. r \in Seq(ByteSet) /\ Replaces(r, b, o, new, p)
    BY <1>1, <1>7, <2>1, ReplacedIs, Zenon
  <2> HIDE DEF r
  <2> QED  BY <2>1, <2>2 DEF Replaces
<1>12. /\ m2 = [k \in 0..(i + n + l) |-> m2[k]]
       /\ \A k \in 0..i : m2[k] = IF k <= s THEN m[k] ELSE m[s] + (k - s)
       /\ \A k \in 1..n : m2[i + k] = o + mi[k]
       /\ \A k \in 1..l : m2[i + n + k] = o + N + (m[j + k] - p)
  <2>1. \A k \in 0..i : k \in 0..(i + n + l) /\ k <= i  BY <1>2, <1>7
  <2>2. \A k \in 1..n : /\ i + k \in 0..(i + n + l) /\ ~(i + k <= i) /\ i + k <= i + n
                        /\ (i + k) - i = k
    BY <1>2, <1>7
  <2>3. \A k \in 1..l : /\ i + n + k \in 0..(i + n + l) /\ ~(i + n + k <= i)
                        /\ ~(i + n + k <= i + n) /\ (i + n + k) - i - n + j = j + k
    BY <1>2, <1>7
  <2> QED  BY <2>1, <2>2, <2>3 DEF NewEnds
<1> HIDE DEF o, p, ty, new, r, mi, m2, s, n, N, l, z
<1>13. m2[i] = o /\ \A k \in 0..n : m2[i + k] = o + mi[k]
  <2>1. m2[i] = o
    <3>1. i \in 0..i  BY <1>2
    <3>2. m2[i] = IF i <= s THEN m[i] ELSE m[s] + (i - s)  BY <1>12, <3>1
    <3>3. CASE i = s
      <4>1. i <= s /\ o = m[s]  BY <1>2, <1>5, <1>6, <3>3
      <4> QED  BY <3>2, <3>3, <4>1
    <3>4. CASE i # s
      <4>1. ~(i <= s)  BY <1>2, <1>5, <3>4
      <4> QED  BY <1>6, <3>2, <4>1
    <3> QED  BY <3>3, <3>4
  <2>2. ASSUME NEW k \in 0..n PROVE m2[i + k] = o + mi[k]
    <3>1. k = 0 \/ k \in 1..n  BY <1>7
    <3>2. k = 0 => i + k = i /\ o + mi[k] = o  BY <1>2, <1>3, <1>7
    <3> QED  BY <1>12, <2>1, <3>1, <3>2
  <2> QED  BY <2>1, <2>2
<1>14. \A k \in 0..(i + n + l) : \/ k \in 0..i
                                 \/ \E x \in 1..n : k = i + x
                                 \/ \E x \in 1..l : k = i + n + x
  <2> SUFFICES ASSUME NEW k \in 0..(i + n + l), k > i
               PROVE  (\E x \in 1..n : k = i + x) \/ (\E x \in 1..l : k = i + n + x)
    BY <1>2, <1>7
  <2>1. CASE k <= i + n
    <3>1. k - i \in 1..n /\ k = i + (k - i)  BY <1>2, <1>7, <2>1
    <3> QED  BY <3>1
  <2>2. CASE k > i + n
    <3>1. k - i - n \in 1..l /\ k = i + n + (k - i - n)  BY <1>2, <1>7, <2>2
    <3> QED  BY <3>1
  <2> QED  BY <1>2, <1>7, <2>1, <2>2
<1>15. m2 \in [0..(i + n + l) -> Nat]
  <2>1. ASSUME NEW k \in 0..(i + n + l) PROVE m2[k] \in Nat
    <3>1. CASE k \in 0..i
      <4>1. k \in 0..Len(tx) /\ m[k] \in Nat /\ m[s] \in Nat
        <5>1. k \in 0..Len(tx)  BY <1>1, <1>2, <3>1
        <5> QED  BY <1>1, <1>5, <5>1
      <4>2. k <= s \/ k - s \in Nat  BY <1>2, <1>5, <3>1
      <4>3. m2[k] = m[k] \/ (~(k <= s) /\ m2[k] = m[s] + (k - s))  BY <1>12, <3>1
      <4> QED  BY <4>1, <4>2, <4>3
    <3>2. ASSUME NEW x \in 1..n, k = i + x PROVE m2[k] \in Nat
      <4>1. m2[k] = o + mi[x]  BY <1>12, <3>2
      <4>2. mi[x] \in Nat
        <5>1. x \in 0..n  BY <1>7
        <5> QED  BY <1>7, <5>1
      <4> QED  BY <1>3, <4>1, <4>2
    <3>3. ASSUME NEW x \in 1..l, k = i + n + x PROVE m2[k] \in Nat
      <4>1. j + x \in 1..Len(tx) /\ j + x > j /\ j + x \in 0..Len(tx)  BY <1>1, <1>2, <3>3 DEF l
      <4>2. m[j + x] > p /\ m[j + x] \in Nat  BY <1>1, <1>4, <4>1
      <4>3. m2[k] = o + N + (m[j + x] - p)  BY <1>12, <3>3
      <4>4. m[j + x] - p \in Nat  BY <1>4, <4>2
      <4> QED  BY <1>3, <1>7, <4>3, <4>4, SMTT(30)
    <3> QED  BY <1>14, <3>1, <3>2, <3>3
  <2> QED  BY <1>12, <2>1
<1>16. m2[0] = 0
  <2>1. 0 \in 0..i /\ 0 <= s  BY <1>2, <1>5
  <2> QED  BY <1>1, <1>12, <2>1
<1>17. m2[i + n] = o + N
  <2>1. n \in 0..n  BY <1>7
  <2> QED  BY <1>7, <1>13, <2>1
<1>18. m2[i + n + l] < Len(r)
  <2>1. CASE l = 0
    <3>1. i + n + l = i + n  BY <1>2, <1>7, <2>1
    <3> QED  BY <1>3, <1>7, <1>11, <1>17, <3>1
  <2>2. CASE l # 0
    <3>1. l \in 1..l /\ j + l = Len(tx) /\ Len(tx) \in 0..Len(tx)  BY <1>1, <1>2, <2>2 DEF l
    <3>2. m2[i + n + l] = o + N + (m[Len(tx)] - p)  BY <1>12, <3>1
    <3>3. m[Len(tx)] \in Nat  BY <1>1, <3>1
    <3> QED  BY <1>1, <1>3, <1>4, <1>7, <1>11, <3>2, <3>3, SMTT(30) DEF z
  <2> QED  BY <2>1, <2>2
<1>19. r[Len(r)] = Zero
  <2>1. z \in 1..z /\ p + z = Len(b)  BY <1>1, <1>4, <1>11 DEF z
  <2>2. r[o + N + z] = b[p + z]  BY <1>11, <2>1
  <2> QED  BY <1>1, <1>11, <2>1, <2>2
<1>20. ASSUME NEW k \in 1..(i + n + l) PROVE m2[k - 1] < m2[k]
  <2>0. k \in 0..(i + n + l)  OBVIOUS
  <2>1. CASE k \in 0..i
    <3>1. k - 1 \in 0..i /\ k \in 1..Len(tx)  BY <1>1, <1>2, <2>1
    <3>2. m[k - 1] < m[k] /\ m[s] \in Nat  BY <1>1, <1>2, <1>5, <3>1
    <3>3. CASE k <= s
      <4>1. k - 1 <= s  BY <1>5, <3>3
      <4>2. m2[k - 1] = m[k - 1]  BY <1>12, <3>1, <4>1
      <4>3. m2[k] = m[k]  BY <1>12, <2>1, <3>3
      <4> QED  BY <3>2, <4>2, <4>3
    <3>4. CASE k = s + 1
      <4>1. k - 1 = s /\ k - 1 <= s /\ ~(k <= s) /\ k - s = 1  BY <1>5, <3>4
      <4>2. m2[k - 1] = m[s]
        <5>1. m2[k - 1] = m[k - 1]  BY <1>12, <3>1, <4>1
        <5> QED  BY <4>1, <5>1
      <4>3. m2[k] = m[s] + (k - s)  BY <1>12, <2>1, <4>1
      <4> QED  BY <3>2, <4>1, <4>2, <4>3
    <3>5. CASE k > s + 1
      <4>1. ~(k - 1 <= s) /\ ~(k <= s) /\ k - s = (k - 1 - s) + 1 /\ k - 1 - s \in Nat
        BY <1>5, <3>5
      <4>2. m2[k - 1] = m[s] + (k - 1 - s)  BY <1>12, <3>1, <4>1
      <4>3. m2[k] = m[s] + (k - s)  BY <1>12, <2>1, <4>1
      <4> QED  BY <3>2, <4>1, <4>2, <4>3
    <3> QED  BY <1>5, <3>3, <3>4, <3>5
  <2>2. ASSUME NEW x \in 1..n, k = i + x PROVE m2[k - 1] < m2[k]
    <3>1. x - 1 \in 0..n /\ x \in 0..n /\ k - 1 = i + (x - 1)  BY <1>2, <1>7, <2>2
    <3>2. mi[x - 1] < mi[x] /\ mi[x - 1] \in Nat /\ mi[x] \in Nat  BY <1>7, <1>8, <3>1
    <3> QED  BY <1>3, <1>13, <2>2, <3>1, <3>2
  <2>3. ASSUME NEW x \in 1..l, k = i + n + x PROVE m2[k - 1] < m2[k]
    <3>1. j + x \in 1..Len(tx) /\ j + x > j /\ (j + x) - 1 \in 0..Len(tx) /\ j + x \in 0..Len(tx)
      BY <1>1, <1>2, <2>3 DEF l
    <3>2. /\ m[j + x] > p /\ m[j + x] \in Nat /\ m[(j + x) - 1] \in Nat
          /\ m[(j + x) - 1] < m[j + x]
      <4>1. m[j + x] > p /\ m[(j + x) - 1] < m[j + x]  BY <1>1, <1>4, <3>1
      <4>2. m[j + x] \in Nat /\ m[(j + x) - 1] \in Nat  BY <1>1, <3>1
      <4> QED  BY <4>1, <4>2
    <3>3. m2[k] = o + N + (m[j + x] - p)  BY <1>12, <2>3
    <3>4. CASE x = 1
      <4>1. k - 1 = i + n  BY <1>2, <1>7, <2>3, <3>4
      <4> QED  BY <1>3, <1>4, <1>7, <1>17, <3>2, <3>3, <4>1, SMTT(30)
    <3>5. CASE x # 1
      <4>1. x - 1 \in 1..l /\ k - 1 = i + n + (x - 1) /\ j + (x - 1) = (j + x) - 1
        BY <1>2, <1>7, <2>3, <3>5
      <4>2. m2[k - 1] = o + N + (m[(j + x) - 1] - p)  BY <1>12, <4>1
      <4>3. \A y, y1 \in Nat : y < y1 => o + N + (y - p) < o + N + (y1 - p)
        BY <1>3, <1>4, <1>7
      <4> QED  BY <3>2, <3>3, <4>2, <4>3
    <3> QED  BY <3>4, <3>5
  <2> QED  BY <1>14, <2>0, <2>1, <2>2, <2>3
<1>21. ASSUME NEW k \in 1..(i + n + l), ty[k] = Newline PROVE r[m2[k]] = NL
  <2>0. k \in 0..(i + n + l)  OBVIOUS
  <2>1. CASE k \in 0..i
    <3>1. k \in 1..i /\ k \in 1..Len(tx) /\ k <= i  BY <1>1, <1>2, <2>1
    <3>2. tx[k] = Newline  BY <1>10, <1>21, <3>1
    <3>3. k <= s /\ m[k] <= o /\ b[m[k]] = NL  BY <1>1, <1>3, <3>1, <3>2
    <3>4. m2[k] = m[k]  BY <1>12, <2>1, <3>3
    <3>5. m[k] \in 1..o
      <4>1. k - 1 \in 0..Len(tx) /\ k \in 0..Len(tx)  BY <1>1, <3>1
      <4>2. m[k - 1] < m[k] /\ m[k - 1] \in Nat /\ m[k] \in Nat  BY <1>1, <3>1, <4>1
      <4> QED  BY <1>3, <3>3, <4>2
    <3> QED  BY <1>11, <3>3, <3>4, <3>5
  <2>2. ASSUME NEW x \in 1..n, k = i + x PROVE r[m2[k]] = NL
    <3>1. ins[x] = Newline  BY <1>10, <1>21, <2>2
    <3>2. mi[x] \in 1..N /\ new[mi[x]] = NL  BY <1>9, <3>1
    <3> QED  BY <1>11, <1>12, <2>2, <3>2
  <2>3. ASSUME NEW x \in 1..l, k = i + n + x PROVE r[m2[k]] = NL
    <3>1. tx[j + x] = Newline  BY <1>10, <1>21, <2>3
    <3>2. j + x \in 1..Len(tx) /\ j + x > j /\ j + x \in 0..Len(tx) /\ j + x <= Len(tx)
      BY <1>1, <1>2, <2>3 DEF l
    <3>3. b[m[j + x]] = NL /\ m[j + x] > p /\ m[j + x] \in Nat  BY <1>1, <1>4, <3>1, <3>2
    <3>4. m[j + x] < Len(b)
      <4>1. m[Len(tx)] - m[j + x] >= Len(tx) - (j + x)
        <5>1. Len(tx) \in 0..Len(tx)  BY <1>1
        <5> QED  BY <3>2, <5>1, Ascending
      <4>2. Len(tx) \in 0..Len(tx)  BY <1>1
      <4>3. m[Len(tx)] \in Nat  BY <1>1, <4>2
      <4> QED  BY <1>1, <1>2, <3>2, <3>3, <4>1, <4>3
    <3>5. m[j + x] - p \in 1..z /\ p + (m[j + x] - p) = m[j + x]
      <4>1. z = Len(b) - p  BY DEF z
      <4>2. \A y \in Nat : y > p /\ y < Len(b) => y - p \in 1..z /\ p + (y - p) = y
        BY <1>1, <1>4, <4>1
      <4> QED  BY <3>3, <3>4, <4>2
    <3> QED  BY <1>11, <1>12, <2>3, <3>3, <3>5
  <2> QED  BY <1>14, <2>0, <2>1, <2>2, <2>3
<1>22. ASSUME NEW x \in 1..Len(r), r[x] = NL
       PROVE  \E k \in 1..(i + n + l) : ty[k] = Newline /\ m2[k] = x
  <2>1. CASE x <= o
    <3>1. x \in 1..o /\ x \in 1..Len(b)  BY <1>1, <1>3, <2>1
    <3>2. b[x] = NL  BY <1>11, <1>22, <3>1
    <3>3. PICK k \in 1..Len(tx) : tx[k] = Newline /\ m[k] = x  BY <1>1, <3>1, <3>2
    <3>4. k <= i  BY <1>1, <1>2, <1>3, <2>1, <3>3
    <3>5. k <= s /\ k \in 1..i /\ k \in 0..i /\ k \in 1..(i + n + l)
      BY <1>2, <1>3, <1>7, <3>3, <3>4
    <3>6. ty[k] = Newline /\ m2[k] = x  BY <1>10, <1>12, <3>3, <3>5
    <3> QED  BY <3>5, <3>6
  <2>2. CASE x > o /\ x <= o + N
    <3>1. x - o \in 1..N /\ o + (x - o) = x  BY <1>3, <1>7, <2>2
    <3>2. new[x - o] = NL  BY <1>11, <1>22, <3>1
    <3>3. PICK k \in 1..n : ins[k] = Newline /\ mi[k] = x - o  BY <1>9, <3>1, <3>2
    <3>4. i + k \in 1..(i + n + l)  BY <1>2, <1>7
    <3>5. ty[i + k] = Newline /\ m2[i + k] = x  BY <1>10, <1>12, <3>1, <3>3
    <3> QED  BY <3>4, <3>5
  <2>3. CASE x > o + N
    <3> DEFINE y == x - o - N
    <3>1. y \in 1..z /\ o + N + y = x /\ p + y \in 1..Len(b) /\ p + y > p
      BY <1>1, <1>3, <1>4, <1>7, <1>11, <2>3 DEF z
    <3> HIDE DEF y
    <3>2. b[p + y] = NL  BY <1>11, <1>22, <3>1
    <3>3. PICK k \in 1..Len(tx) : tx[k] = Newline /\ m[k] = p + y  BY <1>1, <3>1, <3>2
    <3>4. ~(k <= j)
      <4>1. k <= j => m[k] <= p  BY <1>4, <3>3
      <4> QED  BY <1>4, <3>1, <3>3, <4>1
    <3>5. k - j \in 1..l /\ j + (k - j) = k  BY <1>1, <1>2, <3>4 DEF l
    <3>6. i + n + (k - j) \in 1..(i + n + l)  BY <1>2, <1>7, <3>5
    <3>7. ty[i + n + (k - j)] = Newline  BY <1>10, <3>3, <3>5
    <3>8. m2[i + n + (k - j)] = x
      <4>1. m2[i + n + (k - j)] = o + N + (m[k] - p)  BY <1>12, <3>5
      <4>2. y \in Nat  BY <1>11, <3>1
      <4> QED  BY <1>3, <1>4, <1>7, <3>1, <3>3, <4>1, <4>2
    <3> QED  BY <3>6, <3>7, <3>8
  <2> QED  BY <1>3, <1>7, <1>11, <2>1, <2>2, <2>3
<1> QED
  BY <1>10, <1>11, <1>15, <1>16, <1>18, <1>19, <1>20, <1>21, <1>22 DEF Chunks, o, p, ty, new, r, m2

(* The two parts of a sequence that was put together.                        *)
LEMMA Cut ==
  ASSUME NEW S, NEW u \in Seq(S), NEW v \in Seq(S)
  PROVE  /\ u \o v \in Seq(S) /\ Len(u) \in 0..Len(u \o v)
         /\ Before(u \o v, Len(u)) = u /\ After(u \o v, Len(u)) = v
<1> DEFINE w == u \o v
           p == Before(w, Len(u))
           q == After(w, Len(u))
<1>1. /\ w \in Seq(S) /\ Len(w) = Len(u) + Len(v) /\ Len(u) \in Nat /\ Len(v) \in Nat
      /\ \A i \in 1..(Len(u) + Len(v)) : w[i] = IF i <= Len(u) THEN u[i] ELSE v[i - Len(u)]
  BY ConcatProperties
<1> HIDE DEF w
<1>2. Len(u) \in 0..Len(w)  BY <1>1
<1>3. /\ p \in Seq(S) /\ Len(p) = Len(u) /\ \A i \in 1..Len(u) : p[i] = w[i]
      /\ q \in Seq(S) /\ Len(q) = Len(w) - Len(u)
      /\ \A i \in 1..(Len(w) - Len(u)) : q[i] = w[Len(u) + i]
  BY <1>1, <1>2, Parts
<1> HIDE DEF p, q
<1>4. p = u
  <2>1. \A i \in 1..Len(p) : p[i] = u[i]
    <3> SUFFICES ASSUME NEW i \in 1..Len(p) PROVE p[i] = u[i]
      OBVIOUS
    <3>1. i \in 1..Len(u) /\ i \in 1..(Len(u) + Len(v)) /\ i <= Len(u)  BY <1>1, <1>3
    <3> QED  BY <1>1, <1>3, <3>1
  <2> QED  BY <1>3, <2>1, SeqEqual
<1>5. q = v
  <2>1. Len(q) = Len(v)  BY <1>1, <1>3
  <2>2. \A i \in 1..Len(q) : q[i] = v[i]
    <3> SUFFICES ASSUME NEW i \in 1..Len(q) PROVE q[i] = v[i]
      OBVIOUS
    <3>1. /\ i \in 1..(Len(w) - Len(u)) /\ Len(u) + i \in 1..(Len(u) + Len(v))
          /\ ~(Len(u) + i <= Len(u)) /\ (Len(u) + i) - Len(u) = i
      BY <1>1, <1>3
    <3> QED  BY <1>1, <1>3, <3>1
  <2> QED  BY <1>3, <2>1, <2>2, SeqEqual
<1> QED  BY <1>1, <1>2, <1>4, <1>5 DEF p, q, w

(* What the two branches of the loop make of the buffer.                     *)
LEMMA Reworked ==
  ASSUME NEW b \in Seq(ByteSet), NEW o \in 0..Len(b), NEW p \in o..Len(b), NEW new \in Seq(ByteSet)
  PROVE  Rework(b, o, p, new) = Replaced(b, o, new, p)
<1>1. Len(b) \in Nat /\ o \in 0..Len(b) /\ p \in 0..Len(b) /\ o \in Nat /\ p \in Nat  OBVIOUS
<1> DEFINE u == Before(b, o)
           v == After(b, p)
<1>2. u \in Seq(ByteSet) /\ Len(u) = o  BY Parts
<1>3. v \in Seq(ByteSet)  BY <1>1, Parts
<1>4. CASE p > o
  <2> HIDE DEF u, v
  <2>1. Before(u \o v, o) = u /\ After(u \o v, o) = v  BY <1>2, <1>3, Cut
  <2>2. Rework(b, o, p, new) = Before(u \o v, o) \o new \o After(u \o v, o)
    BY <1>4 DEF Rework, u, v
  <2> QED  BY <2>1, <2>2 DEF Replaced, u, v
<1>5. CASE p = o
  <2>1. ~(p > o)  BY <1>1, <1>5
  <2> QED  BY <1>5, <2>1 DEF Rework, Replaced
<1> QED  BY <1>1, <1>4, <1>5

(* A text as it comes: none of its bytes is a zero.                          *)
LEMMA WholeText ==
  ASSUME NEW tx \in Seq(Chars)
  PROVE  EnsureTerminated(Bytes(tx)) = BufferOf(tx)
<1> DEFINE b == Bytes(tx)
<1>1. b \in Seq(ByteSet) /\ Len(b) \in Nat  BY BytesType
<1>2. \A i \in 1..Len(b) : b[i] # Zero
  <2>1. Before(tx, Len(tx)) = tx  BY BothEnds
  <2> QED  BY <2>1, PrefixIs DEF Prefix
<1>3. b = <<>> \/ b[Len(b)] # Zero
  <2>1. b = <<>> \/ Len(b) \in 1..Len(b)  BY <1>1
  <2> QED  BY <1>2, <2>1
<1> QED  BY <1>3 DEF EnsureTerminated, BufferOf

(* The buffer of a text, cut at a character.                                 *)
LEMMA BufferCut ==
  ASSUME NEW tx \in Seq(Chars), NEW k \in 0..Len(tx)
  PROVE  /\ Before(tx, k) \in Seq(Chars) /\ After(tx, k) \in Seq(Chars)
         /\ Bytes(Before(tx, k)) \in Seq(ByteSet) /\ BufferOf(After(tx, k)) \in Seq(ByteSet)
         /\ Offsets(tx)[k] \in 0..Len(BufferOf(tx))
         /\ Before(BufferOf(tx), Offsets(tx)[k]) = Bytes(Before(tx, k))
         /\ After(BufferOf(tx), Offsets(tx)[k]) = BufferOf(After(tx, k))
<1> DEFINE u == Before(tx, k)
           v == After(tx, k)
           z == <<Zero>>
<1>1. u \in Seq(Chars) /\ v \in Seq(Chars) /\ u \o v = tx  BY Parts
<1>2. Offsets(tx)[k] = Len(Bytes(u))  BY DEF Offsets
<1> HIDE DEF u, v
<1>3. Bytes(u) \in Seq(ByteSet) /\ Bytes(v) \in Seq(ByteSet)  BY <1>1, BytesType
<1>4. z \in Seq(ByteSet)  BY NotZero
<1>5. BufferOf(v) = Bytes(v) \o z  BY <1>3, NotZero, AppendIsConcat DEF BufferOf
<1>6. BufferOf(v) \in Seq(ByteSet)  BY <1>3, NotZero DEF BufferOf
<1>7. BufferOf(tx) = Bytes(u) \o BufferOf(v)
  <2>1. Bytes(tx) \in Seq(ByteSet) /\ Bytes(tx) = Bytes(u) \o Bytes(v)
    BY <1>1, BytesConcat, BytesType
  <2>2. BufferOf(tx) = (Bytes(u) \o Bytes(v)) \o z
    BY <2>1, NotZero, AppendIsConcat DEF BufferOf
  <2> HIDE DEF z
  <2>3. (Bytes(u) \o Bytes(v)) \o z = Bytes(u) \o (Bytes(v) \o z)
    BY <1>3, <1>4, ConcatAssociative
  <2> QED  BY <1>5, <2>2, <2>3
<1>8. /\ Len(Bytes(u)) \in 0..Len(BufferOf(tx))
      /\ Before(BufferOf(tx), Len(Bytes(u))) = Bytes(u)
      /\ After(BufferOf(tx), Len(Bytes(u))) = BufferOf(v)
  BY <1>3, <1>6, <1>7, Cut
<1> QED  BY <1>1, <1>2, <1>3, <1>6, <1>8 DEF u, v

(* Where the columns of a position are the same in bytes, the server finds   *)
(* the offset.                                                               *)
LEMMA ExactEnd ==
  ASSUME NEW tx \in Seq(Chars), NEW k \in 0..Len(tx),
         LET units == PositionAt(tx, k).character
         IN  Len(Bytes(SubSeq(tx, k - units + 1, k))) = units
  PROVE  End(tx, Offsets(tx), k) = Offsets(tx)[k]
<1> DEFINE s == LineAt(tx, k)
           u == SubSeq(tx, 1, s)
           v == SubSeq(tx, s + 1, k)
<1>1. Len(tx) \in Nat /\ k \in Nat  OBVIOUS
<1>2. s \in 0..k /\ s \in Nat /\ PositionAt(tx, k).character = k - s  BY LineAtIs
<1> HIDE DEF s
<1>3. k - (k - s) + 1 = s + 1  BY <1>1, <1>2
<1>4. Len(Bytes(v)) = k - s  BY <1>2, <1>3
<1>5. s \in 0..Len(tx) /\ k \in s..Len(tx)  BY <1>1, <1>2
<1>6. u \in Seq(Chars) /\ Offsets(tx)[s] = Len(Bytes(u))
  BY <1>5, Parts DEF Before, Offsets
<1>7. u \o v = Before(tx, k)
  <2>1. 1 \in 1..(Len(tx) + 1) /\ s \in (1 - 1)..Len(tx)  BY <1>1, <1>5
  <2> QED  BY <1>5, <2>1, ConcatAdjacentSubSeq DEF Before
<1>8. v \in Seq(Chars)
  <2>1. \A x \in (s + 1)..k : tx[x] \in Chars  BY <1>1, <1>2
  <2> QED  BY <1>1, <1>2, <2>1, SubSeqProperties
<1> HIDE DEF u, v
<1>9. Bytes(Before(tx, k)) = Bytes(u) \o Bytes(v)  BY <1>6, <1>7, <1>8, BytesConcat
<1>10. Bytes(u) \in Seq(ByteSet) /\ Bytes(v) \in Seq(ByteSet)  BY <1>6, <1>8, BytesType
<1>11. Len(Bytes(Before(tx, k))) = Len(Bytes(u)) + Len(Bytes(v))
  BY <1>9, <1>10, ConcatProperties
<1>12. Offsets(tx)[k] = Offsets(tx)[s] + (k - s)  BY <1>4, <1>6, <1>11 DEF Offsets
<1> QED  BY <1>12 DEF End, s

(* So an exact change is followed.                                           *)
LEMMA ExactReplaced ==
  ASSUME NEW tx \in Seq(Chars), NEW i \in 0..Len(tx), NEW j \in i..Len(tx), NEW ins \in Seq(Chars)
  PROVE  Replaced(BufferOf(tx), Offsets(tx)[i], Bytes(ins), Offsets(tx)[j])
           = BufferOf(Replaced(tx, i, ins, j))
<1> DEFINE t == Before(tx, i)
           v == After(tx, j)
           w == t \o ins
           z == <<Zero>>
<1>1. i \in 0..Len(tx) /\ j \in 0..Len(tx)  OBVIOUS
<1>2. t \in Seq(Chars) /\ Before(BufferOf(tx), Offsets(tx)[i]) = Bytes(t)
  BY <1>1, BufferCut
<1>3. v \in Seq(Chars) /\ After(BufferOf(tx), Offsets(tx)[j]) = BufferOf(v)
  BY <1>1, BufferCut
<1>4. Replaced(BufferOf(tx), Offsets(tx)[i], Bytes(ins), Offsets(tx)[j])
        = Bytes(t) \o Bytes(ins) \o BufferOf(v)
  BY <1>2, <1>3 DEF Replaced
<1>5. Replaced(tx, i, ins, j) = w \o v  BY DEF Replaced
<1> HIDE DEF t, v
<1>6. w \in Seq(Chars) /\ Bytes(w) = Bytes(t) \o Bytes(ins)
  BY <1>2, ConcatProperties, BytesConcat
<1> HIDE DEF w
<1>7. Bytes(w \o v) = Bytes(w) \o Bytes(v)  BY <1>3, <1>6, BytesConcat
<1>8. Bytes(w) \in Seq(ByteSet) /\ Bytes(v) \in Seq(ByteSet) /\ z \in Seq(ByteSet)
  <2>1. Bytes(w) \in Seq(ByteSet) /\ Bytes(v) \in Seq(ByteSet)  BY <1>3, <1>6, BytesType
  <2>2. z \in Seq(ByteSet)  BY NotZero
  <2> QED  BY <2>1, <2>2
<1>9. BufferOf(v) = Bytes(v) \o z  BY <1>8, NotZero, AppendIsConcat DEF BufferOf
<1>10. BufferOf(w \o v) = (Bytes(w) \o Bytes(v)) \o z
  <2>1. Bytes(w \o v) \in Seq(ByteSet)  BY <1>7, <1>8, ConcatProperties
  <2> QED  BY <1>7, <2>1, NotZero, AppendIsConcat DEF BufferOf
<1> HIDE DEF z
<1>11. (Bytes(w) \o Bytes(v)) \o z = Bytes(w) \o (Bytes(v) \o z)
  BY <1>8, ConcatAssociative
<1> QED  BY <1>4, <1>5, <1>6, <1>9, <1>10, <1>11

----------------------------------------------------------------------------
(* The loop over the changes of a notification                               *)

LEMMA ChangeIs ==
  ASSUME NEW tx \in Seq(Chars), NEW c \in Changes(tx)
  PROVE  /\ c.from \in 0..Len(tx) /\ c.to \in 0..Len(tx) /\ c.to \in c.from..Len(tx)
         /\ c.whole \in BOOLEAN /\ c.text \in Seq(Chars)
         /\ c.whole => c.from = 0 /\ c.to = Len(tx)
         /\ Edited(tx, c) = Replaced(tx, c.from, c.text, c.to)
         /\ Edited(tx, c) \in Seq(Chars)
         /\ c.whole => Edited(tx, c) = c.text
<1>1. Len(tx) \in Nat  OBVIOUS
<1>2. /\ c.whole \in BOOLEAN /\ c.from \in 0..Len(tx) /\ c.to \in 0..Len(tx)
      /\ c.text \in Inserts
      /\ IF c.whole THEN c.from = 0 /\ c.to = Len(tx) ELSE c.from <= c.to
  BY DEF Changes
<1>3. c.text \in Seq(Chars)  BY <1>2, EditsAssumption
<1>4. c.to \in c.from..Len(tx)  BY <1>1, <1>2
<1>5. Edited(tx, c) = Replaced(tx, c.from, c.text, c.to)  BY DEF Edited, Replaced
<1>6. Replaced(tx, c.from, c.text, c.to) \in Seq(Chars)  BY <1>2, <1>3, ReplacedIs
<1>7. ASSUME c.whole PROVE Edited(tx, c) = c.text
  <2>1. Before(tx, c.from) = <<>> /\ After(tx, c.to) = <<>>  BY <1>2, <1>7, BothEnds
  <2>2. <<>> \o c.text = c.text /\ c.text \o <<>> = c.text  BY <1>3, ConcatEmptySeq
  <2> QED  BY <2>1, <2>2 DEF Edited
<1> QED  BY <1>2, <1>3, <1>4, <1>5, <1>6, <1>7

\* The loop has gone well so far, and the editor's text is tx.
Going(s, tx) ==
  /\ s \in [text : Seq(ByteSet), first : BOOLEAN, error : {"none"}]
  /\ \E m : Chunks(tx, s.text, m)

LEMMA Terminated ==
  ASSUME NEW tx \in Seq(Chars), NEW b, NEW m, Chunks(tx, b, m)
  PROVE  b \in Seq(ByteSet) /\ b # <<>> /\ b[Len(b)] = Zero
<1>1. /\ b \in Seq(ByteSet) /\ m \in [0..Len(tx) -> Nat] /\ m[Len(tx)] < Len(b)
      /\ b[Len(b)] = Zero
  BY DEF Chunks
<1>2. Len(tx) \in 0..Len(tx) /\ Len(b) \in Nat  BY <1>1
<1>3. m[Len(tx)] \in Nat  BY <1>1, <1>2
<1>4. Len(b) # 0  BY <1>1, <1>2, <1>3
<1> QED  BY <1>1, <1>4

(* A range replaces what is between its two ends.                            *)
InRange(tx, c, b, m) == Replaced(b, End(tx, m, c.from), Bytes(c.text), End(tx, m, c.to))

WithText(s, new) == [s EXCEPT !.text = new, !.first = FALSE]

LEMMA RangeApplied ==
  ASSUME NEW tx \in Seq(Chars), NEW c \in Changes(tx), ~c.whole,
         NEW s \in [text : Seq(ByteSet), first : BOOLEAN, error : {"none"}],
         NEW m, Chunks(tx, s.text, m)
  PROVE  /\ ApplyNext(s, Event(tx, c)) = WithText(s, InRange(tx, c, s.text, m))
         /\ InRange(tx, c, s.text, m) \in Seq(ByteSet)
         /\ Chunks(Edited(tx, c), InRange(tx, c, s.text, m), NewEnds(tx, m, c.from, c.to, c.text))
<1> DEFINE b == s.text
           o == End(tx, m, c.from)
           p == End(tx, m, c.to)
           ins == Bytes(c.text)
           new == Replaced(b, o, ins, p)
           e == Event(tx, c)
           offsets == LineOffsets(b, NL)
<1>1. /\ c.from \in 0..Len(tx) /\ c.to \in 0..Len(tx) /\ c.to \in c.from..Len(tx)
      /\ c.text \in Seq(Chars)
      /\ Edited(tx, c) = Replaced(tx, c.from, c.text, c.to)
  BY ChangeIs
<1>2. b \in Seq(ByteSet) /\ Len(b) \in Nat /\ s.error = "none" /\ s.first \in BOOLEAN
  OBVIOUS
<1>3. /\ o \in Nat /\ o < Len(b) /\ Offset(offsets, PositionAt(tx, c.from)) = o
      /\ PositionAt(tx, c.from).line < Cardinality(offsets)
  BY <1>1, EndIs
<1>4. /\ p \in Nat /\ p < Len(b) /\ Offset(offsets, PositionAt(tx, c.to)) = p
      /\ PositionAt(tx, c.to).line < Cardinality(offsets)
  BY <1>1, EndIs
<1>5. o <= p  BY <1>1, EndsInOrder
<1>6. ins \in Seq(ByteSet)  BY <1>1, BytesType
<1>7. Chunks(Edited(tx, c), new, NewEnds(tx, m, c.from, c.to, c.text))
  BY <1>1, ReplacedInChunks
<1>8. e.whole = c.whole /\ e.text = ins /\ e.start = PositionAt(tx, c.from)
      /\ e.end = PositionAt(tx, c.to)
  BY DEF Event
<1> HIDE DEF b, o, p, ins, new, e, offsets
<1>9. new \in Seq(ByteSet) /\ new # <<>> /\ new[Len(new)] = Zero
  BY <1>7, ChangeIs, Terminated
<1>10. Splice(b, o, p, ins) = new
  <2>1. Splice(b, o, p, ins) = EnsureTerminated(new)  BY DEF Splice, new, Replaced
  <2> QED  BY <1>9, <2>1 DEF EnsureTerminated
<1>11. Rework(b, o, p, ins) = new
  <2>1. o \in 0..Len(b) /\ p \in o..Len(b)  BY <1>2, <1>3, <1>4, <1>5
  <2> QED  BY <1>2, <1>6, <2>1, Reworked DEF new
<1>12. InBounds(offsets, e)  BY <1>3, <1>4, <1>8 DEF InBounds
<1>13. b # Unknown  BY <1>2, <1>3 DEF Unknown
<1>14. Offset(offsets, e.start) = o /\ Offset(offsets, e.end) = p /\ ~(o > Len(b) \/ p > Len(b))
  BY <1>2, <1>3, <1>4, <1>8
<1>15. Apply(s, e, offsets) =
         [s EXCEPT !.first = FALSE,
                   !.text = IF s.first THEN Splice(@, o, p, ins) ELSE Rework(@, o, p, ins)]
  BY <1>2, <1>8, <1>12, <1>13, <1>14 DEF Apply, b
<1>16. Apply(s, e, offsets) = [s EXCEPT !.first = FALSE, !.text = new]
  BY <1>10, <1>11, <1>15 DEF b
<1>17. ApplyNext(s, e) = Apply(s, e, offsets)  BY DEF ApplyNext, offsets, b, NL
<1> QED  BY <1>7, <1>9, <1>16, <1>17 DEF new, b, o, p, ins, e, InRange, WithText

(* Each change keeps the buffer in chunks, and the editor's text in it.      *)
LEMMA ApplyKeeps ==
  ASSUME NEW tx \in Seq(Chars), NEW c \in Changes(tx), NEW s, Going(s, tx)
  PROVE  LET t == ApplyNext(s, Event(tx, c))
         IN  /\ Going(t, Edited(tx, c)) /\ Edited(tx, c) \in Seq(Chars)
             /\ (c.whole \/ s.text = BufferOf(tx)) /\ Exact(tx, c) => t.text = BufferOf(Edited(tx, c))
<1> DEFINE t == ApplyNext(s, Event(tx, c))
<1>1. /\ c.from \in 0..Len(tx) /\ c.to \in 0..Len(tx) /\ c.to \in c.from..Len(tx)
      /\ c.whole \in BOOLEAN /\ c.text \in Seq(Chars)
      /\ Edited(tx, c) = Replaced(tx, c.from, c.text, c.to)
      /\ Edited(tx, c) \in Seq(Chars)
      /\ c.whole => Edited(tx, c) = c.text
  BY ChangeIs
<1>2. s \in [text : Seq(ByteSet), first : BOOLEAN, error : {"none"}]  BY DEF Going
<1>3. CASE c.whole
  <2>1. t = [s EXCEPT !.text = BufferOf(c.text), !.first = FALSE]
    BY <1>1, <1>2, <1>3, WholeText DEF ApplyNext, Apply, Event
  <2>2. Chunks(c.text, BufferOf(c.text), Offsets(c.text))  BY <1>1, BytesInChunks
  <2>3. BufferOf(c.text) \in Seq(ByteSet)  BY <2>2 DEF Chunks
  <2> HIDE DEF t
  <2>4. t \in [text : Seq(ByteSet), first : BOOLEAN, error : {"none"}] /\ t.text = BufferOf(c.text)
    BY <1>2, <2>1, <2>3
  <2>5. Going(t, c.text)  BY <2>2, <2>4 DEF Going
  <2> QED  BY <1>1, <1>3, <2>4, <2>5 DEF t
<1>4. CASE ~c.whole
  <2>1. Going(t, Edited(tx, c))
    <3>1. PICK m : Chunks(tx, s.text, m)  BY DEF Going
    <3>2. PICK new : /\ t = WithText(s, new) /\ new \in Seq(ByteSet)
                     /\ Chunks(Edited(tx, c), new, NewEnds(tx, m, c.from, c.to, c.text))
      BY <1>2, <1>4, <3>1, RangeApplied
    <3> HIDE DEF t
    <3>3. t \in [text : Seq(ByteSet), first : BOOLEAN, error : {"none"}] /\ t.text = new
      BY <1>2, <3>2 DEF WithText
    <3> QED  BY <3>2, <3>3 DEF Going
  <2>2. ASSUME s.text = BufferOf(tx), Exact(tx, c) PROVE t.text = BufferOf(Edited(tx, c))
    <3>0. PICK m : m = Offsets(tx)  OBVIOUS
    <3>1. Chunks(tx, s.text, m)  BY <2>2, <3>0, BytesInChunks
    <3>2. t = WithText(s, InRange(tx, c, s.text, m))  BY <1>2, <1>4, <3>1, RangeApplied
    <3>3. End(tx, m, c.from) = m[c.from] /\ End(tx, m, c.to) = m[c.to]
      BY <1>1, <1>4, <2>2, <3>0, ExactEnd DEF Exact
    <3>4. InRange(tx, c, s.text, m) = BufferOf(Edited(tx, c))
      BY <1>1, <2>2, <3>0, <3>3, ExactReplaced DEF InRange
    <3> HIDE DEF t
    <3>5. t.text = InRange(tx, c, s.text, m)  BY <1>2, <3>2 DEF WithText
    <3> QED  BY <3>4, <3>5
  <2> QED  BY <1>1, <1>4, <2>1, <2>2
<1> QED  BY <1>1, <1>3, <1>4

Loops == INSTANCE FoldTheorems WITH Step <- ApplyNext, Good <- AtText
Texting == INSTANCE FoldTheorems WITH Step <- Edited, Good <- AtText

LEMMA Short ==
  ASSUME NEW x, NEW y
  PROVE  /\ <<>> \in Seq({x, y}) /\ <<x>> \in Seq({x, y}) /\ x \in {x, y} /\ y \in {x, y}
         /\ Append(<<>>, x) = <<x>> /\ Append(<<x>>, y) = <<x, y>>
<1>1. <<>> \in Seq({x, y}) /\ <<x>> \in Seq({x, y})  OBVIOUS
<1>2. Append(<<>>, x) = <<x>>  OBVIOUS
<1> DEFINE p == Append(<<x>>, y)
           q == <<x, y>>
<1>3. p \in Seq({x, y}) /\ Len(p) = 2 /\ p[1] = x /\ p[2] = y  BY <1>1
<1>4. q \in Seq({x, y}) /\ Len(q) = 2 /\ q[1] = x /\ q[2] = y  OBVIOUS
<1> HIDE DEF p, q
<1>5. \A i \in 1..Len(p) : p[i] = q[i]  BY <1>3, <1>4
<1>6. p = q  BY <1>3, <1>4, <1>5
<1> QED  BY <1>1, <1>2, <1>6 DEF p, q

(* The two loops over changes, with one or two of them.                      *)
LEMMA LoopsAre ==
  ASSUME NEW s, NEW x
  PROVE  FoldLeft(ApplyNext, s, <<x>>) = ApplyNext(s, x)
<1>1. \A q : Loops!FoldLeft(ApplyNext, s, q) = FoldLeft(ApplyNext, s, q)
  BY DEF Loops!FoldLeft, FoldLeft, Loops!MapThenFoldSet, MapThenFoldSet, Loops!Max, Max
<1>2. /\ Loops!FoldLeft(ApplyNext, s, <<>>) = s
      /\ Loops!FoldLeft(ApplyNext, s, Append(<<>>, x)) = ApplyNext(Loops!FoldLeft(ApplyNext, s, <<>>), x)
  BY Short, Loops!FoldAppend, ZenonT(60)
<1> QED  BY <1>1, <1>2, Short

LEMMA LoopOfTwo ==
  ASSUME NEW s, NEW x, NEW y
  PROVE  FoldLeft(ApplyNext, s, Append(<<x>>, y)) = ApplyNext(FoldLeft(ApplyNext, s, <<x>>), y)
<1>1. \A q : Loops!FoldLeft(ApplyNext, s, q) = FoldLeft(ApplyNext, s, q)
  BY DEF Loops!FoldLeft, FoldLeft, Loops!MapThenFoldSet, MapThenFoldSet, Loops!Max, Max
<1>2. Loops!FoldLeft(ApplyNext, s, Append(<<x>>, y)) = ApplyNext(Loops!FoldLeft(ApplyNext, s, <<x>>), y)
  BY Short, Loops!FoldAppend, ZenonT(60)
<1> QED  BY <1>1, <1>2

LEMMA TextsAre ==
  ASSUME NEW s, NEW x
  PROVE  FoldLeft(Edited, s, <<>>) = s /\ FoldLeft(Edited, s, <<x>>) = Edited(s, x)
<1>1. \A q : Texting!FoldLeft(Edited, s, q) = FoldLeft(Edited, s, q)
  BY DEF Texting!FoldLeft, FoldLeft, Texting!MapThenFoldSet, MapThenFoldSet, Texting!Max, Max
<1>2. /\ Texting!FoldLeft(Edited, s, <<>>) = s
      /\ Texting!FoldLeft(Edited, s, Append(<<>>, x)) = Edited(Texting!FoldLeft(Edited, s, <<>>), x)
  BY Short, Texting!FoldAppend, ZenonT(60)
<1> QED  BY <1>1, <1>2, Short

LEMMA TextOfTwo ==
  ASSUME NEW s, NEW x, NEW y
  PROVE  FoldLeft(Edited, s, Append(<<x>>, y)) = Edited(FoldLeft(Edited, s, <<x>>), y)
<1>1. \A q : Texting!FoldLeft(Edited, s, q) = FoldLeft(Edited, s, q)
  BY DEF Texting!FoldLeft, FoldLeft, Texting!MapThenFoldSet, MapThenFoldSet, Texting!Max, Max
<1>2. Texting!FoldLeft(Edited, s, Append(<<x>>, y)) = Edited(Texting!FoldLeft(Edited, s, <<x>>), y)
  BY Short, Texting!FoldAppend, ZenonT(60)
<1> QED  BY <1>1, <1>2

(* The first of two.                                                         *)
LEMMA FirstOf ==
  ASSUME NEW x, NEW y
  PROVE  /\ Before(<<x>>, 0) = <<>> /\ Before(<<x>>, 1) = <<x>>
         /\ Before(<<x, y>>, 0) = <<>> /\ Before(<<x, y>>, 1) = <<x>>
         /\ Before(<<x, y>>, 2) = <<x, y>>
<1> DEFINE S == {x, y}
<1>1. <<x>> \in Seq(S) /\ <<x, y>> \in Seq(S) /\ Len(<<x>>) = 1 /\ Len(<<x, y>>) = 2
  OBVIOUS
<1>2. Before(<<x>>, 0) = <<>> /\ Before(<<x>>, Len(<<x>>)) = <<x>>  BY ONLY <1>1, BothEnds
<1>3. Before(<<x, y>>, 0) = <<>> /\ Before(<<x, y>>, Len(<<x, y>>)) = <<x, y>>
  BY ONLY <1>1, BothEnds
<1>4. Before(<<x, y>>, 1) = <<x>>
  <2> DEFINE q == <<x, y>>
             p == Before(q, 1)
  <2>1. 1 \in 0..Len(q) /\ q \in Seq(S) /\ q[1] = x  BY <1>1
  <2> HIDE DEF q, S
  <2>2. p \in Seq(S) /\ Len(p) = 1 /\ \A i \in 1..1 : p[i] = q[i]
    BY ONLY <2>1, Parts, Zenon
  <2> HIDE DEF p
  <2>3. \A i \in 1..Len(p) : p[i] = <<x>>[i]  BY <2>1, <2>2
  <2>4. p = <<x>>  BY <1>1, <2>2, <2>3
  <2> QED  BY <2>4 DEF p, q
<1> QED  BY <1>1, <1>2, <1>3, <1>4

----------------------------------------------------------------------------
(* The invariant                                                             *)

EditsInv ==
  /\ typed \in Texts /\ exact \in BOOLEAN
  /\ \E m : Chunks(typed, buffer, m)
  /\ ExactChangesAreFollowed

LEMMA TextHasChunks ==
  ASSUME NEW tx \in Seq(Chars)
  PROVE  \E m : Chunks(tx, BufferOf(tx), m)
BY BytesInChunks, Zenon

LEMMA StartGoes ==
  ASSUME NEW tx \in Seq(Chars), NEW b, NEW m, Chunks(tx, b, m)
  PROVE  Going(Started(b), tx) /\ Started(b).text = b
<1>1. b \in Seq(ByteSet)  BY Terminated
<1>2. /\ Started(b) \in [text : Seq(ByteSet), first : BOOLEAN, error : {"none"}]
      /\ Started(b).text = b
  BY <1>1 DEF Started
<1> QED  BY <1>2 DEF Going

LEMMA OneChange ==
  ASSUME NEW c \in Changes(typed), EditsInv, ChangeText(<<c>>)
  PROVE  EditsInv'
<1> DEFINE s == Started(buffer)
           e == Event(typed, c)
           tx == Edited(typed, c)
           t == ApplyNext(s, e)
           changes == <<c>>
           texts == [i \in 0..Len(changes) |-> FoldLeft(Edited, typed, Before(changes, i))]
<1>1. typed \in Seq(Chars) /\ exact \in BOOLEAN  BY EditsAssumption DEF EditsInv
<1>2. PICK m : Chunks(typed, buffer, m)  BY DEF EditsInv
<1>3. Going(s, typed) /\ s.text = buffer  BY <1>1, <1>2, StartGoes
<1>4. /\ Going(t, tx) /\ tx \in Seq(Chars)
      /\ (c.whole \/ s.text = BufferOf(typed)) /\ Exact(typed, c) => t.text = BufferOf(tx)
  BY <1>1, <1>3, ApplyKeeps
<1>5. texts[0] = typed /\ texts[1] = tx /\ Len(changes) = 1 /\ DOMAIN changes = {1}
      /\ changes[1] = c
  <2>1. Before(changes, 0) = <<>> /\ Before(changes, 1) = changes  BY FirstOf
  <2>2. FoldLeft(Edited, typed, <<>>) = typed /\ FoldLeft(Edited, typed, changes) = tx
    BY TextsAre
  <2>3. Len(changes) = 1 /\ 0 \in 0..1 /\ 1 \in 0..1 /\ DOMAIN changes = {1} /\ changes[1] = c
    OBVIOUS
  <2> HIDE DEF changes, tx
  <2> QED  BY <2>1, <2>2, <2>3
<1>6. [i \in DOMAIN changes |-> Event(texts[i - 1], changes[i])] = <<e>>
  <2> HIDE DEF texts, changes
  <2> QED  BY <1>5
<1>7. /\ texts[Len(changes)] \in Texts /\ typed' = texts[Len(changes)]
      /\ buffer' = OnChange(buffer, [i \in DOMAIN changes |-> Event(texts[i - 1], changes[i])])
      /\ exact' = /\ exact \/ changes[1].whole
                  /\ \A i \in DOMAIN changes : Exact(texts[i - 1], changes[i])
  BY DEF ChangeText
<1> HIDE DEF s, e, tx, t, changes, texts
<1>8. typed' = tx /\ tx \in Texts  BY <1>5, <1>7
<1>9. buffer' = t.text
  <2>1. OnChange(buffer, <<e>>) = Result(buffer, t)  BY LoopsAre DEF OnChange, s, t
  <2>2. t.error = "none"  BY <1>4 DEF Going
  <2> QED  BY <1>6, <1>7, <2>1, <2>2 DEF Result
<1>10. exact' = ((exact \/ c.whole) /\ Exact(typed, c))
  <2>1. texts[1 - 1] = typed  BY <1>5
  <2>2. (\A i \in DOMAIN changes : Exact(texts[i - 1], changes[i])) <=> Exact(typed, c)
    BY <1>5, <2>1
  <2> QED  BY <1>5, <1>7, <2>2
<1>11. exact' => buffer' = BufferOf(tx)
  BY <1>3, <1>4, <1>9, <1>10 DEF EditsInv, ExactChangesAreFollowed
<1>12. \E m1 : Chunks(tx, buffer', m1)  BY <1>4, <1>9 DEF Going
<1>13. exact' \in BOOLEAN  BY <1>10
<1> QED  BY <1>8, <1>11, <1>12, <1>13 DEF EditsInv, ExactChangesAreFollowed

LEMMA TwoChanges ==
  ASSUME NEW c \in Changes(typed), NEW d \in Changes(Edited(typed, c)), EditsInv,
         ChangeText(<<c, d>>)
  PROVE  EditsInv'
<1>a. FoldLeft(Edited, typed, Append(<<c>>, d)) = Edited(FoldLeft(Edited, typed, <<c>>), d)
  BY ONLY TextOfTwo
<1>b. \A s, x, y : FoldLeft(ApplyNext, s, Append(<<x>>, y)) = ApplyNext(FoldLeft(ApplyNext, s, <<x>>), y)
  BY ONLY LoopOfTwo
<1> DEFINE s == Started(buffer)
           one == Edited(typed, c)
           two == Edited(one, d)
           e == Event(typed, c)
           f == Event(one, d)
           t == ApplyNext(s, e)
           u == ApplyNext(t, f)
           changes == <<c, d>>
           texts == [i \in 0..Len(changes) |-> FoldLeft(Edited, typed, Before(changes, i))]
<1>1. typed \in Seq(Chars) /\ exact \in BOOLEAN  BY EditsAssumption DEF EditsInv
<1>2. PICK m : Chunks(typed, buffer, m)  BY DEF EditsInv
<1>3. Going(s, typed) /\ s.text = buffer  BY <1>1, <1>2, StartGoes
<1>4. /\ Going(t, one) /\ one \in Seq(Chars)
      /\ (c.whole \/ s.text = BufferOf(typed)) /\ Exact(typed, c) => t.text = BufferOf(one)
  BY <1>1, <1>3, ApplyKeeps
<1>5. /\ Going(u, two)
      /\ (d.whole \/ t.text = BufferOf(one)) /\ Exact(one, d) => u.text = BufferOf(two)
  <2> HIDE DEF t, one
  <2> QED  BY <1>4, ApplyKeeps DEF one
<1>6. /\ texts[0] = typed /\ texts[1] = one /\ texts[2] = two
      /\ Len(changes) = 2 /\ DOMAIN changes = {1, 2} /\ changes[1] = c /\ changes[2] = d
  <2>1. Before(changes, 0) = <<>> /\ Before(changes, 1) = <<c>> /\ Before(changes, 2) = changes
    BY FirstOf
  <2>2. /\ FoldLeft(Edited, typed, <<>>) = typed /\ FoldLeft(Edited, typed, <<c>>) = one
        /\ FoldLeft(Edited, typed, changes) = two
    <3>1. FoldLeft(Edited, typed, <<>>) = typed /\ FoldLeft(Edited, typed, <<c>>) = one
      BY TextsAre
    <3> QED  BY <1>a, <3>1, Short
  <2>3. /\ Len(changes) = 2 /\ 0 \in 0..2 /\ 1 \in 0..2 /\ 2 \in 0..2
        /\ DOMAIN changes = {1, 2} /\ changes[1] = c /\ changes[2] = d
    OBVIOUS
  <2> HIDE DEF changes, one, two
  <2> QED  BY <2>1, <2>2, <2>3
<1>7. [i \in DOMAIN changes |-> Event(texts[i - 1], changes[i])] = <<e, f>>
  <2> DEFINE q == [i \in DOMAIN changes |-> Event(texts[i - 1], changes[i])]
  <2>1. 1 - 1 = 0 /\ 2 - 1 = 1 /\ DOMAIN changes = 1..2  BY <1>6
  <2> HIDE DEF texts, changes
  <2>2. q = [i \in 1..2 |-> Event(texts[i - 1], changes[i])]  BY <2>1
  <2>3. q[1] = e /\ q[2] = f  BY <1>6, <2>1, <2>2
  <2> HIDE DEF q, e, f
  <2>4. q = [i \in 1..2 |-> q[i]]  BY <2>1 DEF q
  <2>5. q = <<q[1], q[2]>>  BY <2>4
  <2>6. q = <<e, f>>  BY <2>3, <2>5
  <2> QED  BY <2>6 DEF q
<1>8. /\ texts[Len(changes)] \in Texts /\ typed' = texts[Len(changes)]
      /\ buffer' = OnChange(buffer, [i \in DOMAIN changes |-> Event(texts[i - 1], changes[i])])
      /\ exact' = /\ exact \/ changes[1].whole
                  /\ \A i \in DOMAIN changes : Exact(texts[i - 1], changes[i])
  BY DEF ChangeText
<1> HIDE DEF s, e, f, one, two, t, u, changes, texts
<1>9. typed' = two /\ two \in Texts  BY <1>6, <1>8
<1>10. buffer' = u.text
  <2>1. OnChange(buffer, <<e, f>>) = Result(buffer, u)
    <3>1. FoldLeft(ApplyNext, s, Append(<<e>>, f)) = ApplyNext(FoldLeft(ApplyNext, s, <<e>>), f)
      BY <1>b DEF s, e, f, one
    <3>2. Append(<<e>>, f) = <<e, f>>  BY Short
    <3>3. FoldLeft(ApplyNext, s, <<e>>) = t  BY LoopsAre DEF t
    <3> QED  BY <3>1, <3>2, <3>3 DEF OnChange, s, u
  <2>2. u.error = "none"  BY <1>5 DEF Going
  <2> QED  BY <1>7, <1>8, <2>1, <2>2 DEF Result
<1>11. exact' = ((exact \/ c.whole) /\ Exact(typed, c) /\ Exact(one, d))
  <2>1. texts[1 - 1] = typed /\ texts[2 - 1] = one  BY <1>6
  <2>2. (\A i \in DOMAIN changes : Exact(texts[i - 1], changes[i]))
          <=> Exact(typed, c) /\ Exact(one, d)
    BY <1>6, <2>1
  <2> QED  BY <1>6, <1>8, <2>2
<1>12. exact' => buffer' = BufferOf(two)
  BY <1>3, <1>4, <1>5, <1>10, <1>11 DEF EditsInv, ExactChangesAreFollowed
<1>13. \E m1 : Chunks(two, buffer', m1)  BY <1>5, <1>10 DEF Going
<1>14. exact' \in BOOLEAN  BY <1>11
<1> QED  BY <1>9, <1>12, <1>13, <1>14 DEF EditsInv, ExactChangesAreFollowed

LEMMA SaveKeeps ==
  ASSUME EditsInv, SaveText
  PROVE  EditsInv'
<1>1. typed \in Texts /\ typed \in Seq(Chars)  BY EditsAssumption DEF EditsInv
<1>2. typed' = typed /\ exact' = TRUE /\ buffer' = BufferOf(typed)
  BY DEF SaveText, SavedBytes, BufferOf
<1>3. \E m : Chunks(typed, BufferOf(typed), m)  BY <1>1, TextHasChunks
<1> QED  BY <1>1, <1>2, <1>3 DEF EditsInv, ExactChangesAreFollowed

(* The server's buffer is always the editor's text in chunks.                *)
THEOREM EditsInvHolds == EditsSpec => []EditsInv
<1>1. EditsInit => EditsInv
  <2> SUFFICES ASSUME EditsInit PROVE EditsInv
    OBVIOUS
  <2>1. typed \in Texts /\ typed \in Seq(Chars)  BY EditsAssumption DEF EditsInit
  <2>2. \E m : Chunks(typed, BufferOf(typed), m)  BY <2>1, TextHasChunks
  <2> QED  BY <2>1, <2>2 DEF EditsInit, EditsInv, ExactChangesAreFollowed
<1>2. EditsInv /\ [EditsNext]_editsVars => EditsInv'
  <2> SUFFICES ASSUME EditsInv, [EditsNext]_editsVars PROVE EditsInv'
    OBVIOUS
  <2>1. ASSUME NEW c \in Changes(typed), ChangeText(<<c>>) PROVE EditsInv'
    BY <2>1, OneChange
  <2>2. ASSUME NEW c \in Changes(typed), NEW d \in Changes(Edited(typed, c)), ChangeText(<<c, d>>)
        PROVE  EditsInv'
    BY <2>2, TwoChanges
  <2>3. CASE SaveText  BY <2>3, SaveKeeps
  <2>4. CASE UNCHANGED editsVars
    BY <2>4 DEF editsVars, EditsInv, ExactChangesAreFollowed
  <2> QED  BY <2>1, <2>2, <2>3, <2>4 DEF EditsNext
<1> QED  BY <1>1, <1>2, PTL DEF EditsSpec

(* Whatever the texts and the changes: the server has the editor's text as   *)
(* long as the columns are the same in bytes, and has it after a save.       *)
THEOREM ExactChangesAreFollowedHolds == EditsSpec => []ExactChangesAreFollowed
<1>1. EditsInv => ExactChangesAreFollowed  BY DEF EditsInv
<1> QED  BY <1>1, EditsInvHolds, PTL

(* A buffer in chunks has each line of the editor's text, and no line of it  *)
(* is shorter than its characters: no change is out of its bounds.           *)
THEOREM EditsStayInBoundsHolds == EditsSpec => []EditsStayInBounds
<1>1. EditsInv => EditsStayInBounds
  <2> SUFFICES ASSUME EditsInv PROVE EditsStayInBounds
    OBVIOUS
  <2>1. typed \in Seq(Chars)  BY EditsAssumption DEF EditsInv
  <2>2. PICK m : Chunks(typed, buffer, m)  BY DEF EditsInv
  <2>3. buffer # Unknown  BY <2>1, <2>2, Terminated DEF Unknown
  <2>4. Going(Started(buffer), typed)  BY <2>1, <2>2, StartGoes
  <2>5. ASSUME NEW c \in Changes(typed)
        PROVE  ApplyNext(Started(buffer), Event(typed, c)).error = "none"
    <3>1. Going(ApplyNext(Started(buffer), Event(typed, c)), Edited(typed, c))
      BY <2>1, <2>4, ApplyKeeps
    <3> QED  BY <3>1 DEF Going
  <2> QED  BY <2>3, <2>5 DEF EditsStayInBounds
<1> QED  BY <1>1, EditsInvHolds, PTL

----------------------------------------------------------------------------
(* The owners of fragments                                                   *)

OwnersType == made \in [Files -> 0..MaxObjects] /\ owners \in [Objects -> Seq(Objects)]

Ends(ow) == \A ds \in (SUBSET Objects) \ {{}} : \E d \in ds : Range(ow[d]) \cap ds = {}

\* What a step may add: owners that are not fragments when it is done.
AddsPlainOwners(ow, new) ==
  \A x \in Objects : \A o \in Range(new[x]) \ Range(ow[x]) : new[o] = <<>>

(* A set of documents in which each owns another has no document without     *)
(* owners, and owners without owners are all that is new.                    *)
LEMMA PlainOwnersEnd ==
  ASSUME NEW ow \in [Objects -> Seq(Objects)], NEW new \in [Objects -> Seq(Objects)],
         Ends(ow), AddsPlainOwners(ow, new)
  PROVE  Ends(new)
<1> SUFFICES ASSUME NEW ds \in (SUBSET Objects) \ {{}}
             PROVE  \E d \in ds : Range(new[d]) \cap ds = {}
  BY DEF Ends
<1>1. CASE \E d \in ds : new[d] = <<>>
  <2>1. PICK d \in ds : new[d] = <<>>
    BY <1>1
  <2>2. Range(new[d]) = {}
    BY <2>1 DEF Range
  <2> QED
    BY <2>2
<1>2. CASE \A d \in ds : new[d] # <<>>
  <2>1. PICK d \in ds : Range(ow[d]) \cap ds = {}
    BY DEF Ends
  <2>2. \A o \in Range(new[d]) \cap ds : o \in Range(ow[d])
    BY <1>2 DEF AddsPlainOwners
  <2> QED
    BY <2>1, <2>2
<1> QED
  BY <1>1, <1>2

(* What is collected from docs in some order is a sequence of just that.     *)
LEMMA OrdersAreSequences ==
  ASSUME NEW S, IsFiniteSet(S), NEW q \in Orders(S)
  PROVE  q \in Seq(S) /\ Range(q) \subseteq S
<1>1. Cardinality(S) \in Nat
  BY FS_CardinalityType
<1>2. q \in [1..Cardinality(S) -> S]
  BY DEF Orders
<1> QED
  BY <1>1, <1>2 DEF Range

(* The owners that findIncludeOwners returns are other documents, and no     *)
(* fragments.                                                                *)
LEMMA FoundOwnersArePlain ==
  ASSUME OwnersType, NEW f \in Files
  PROVE  /\ FindOwners(f) \subseteq Objects /\ IsFiniteSet(FindOwners(f))
         /\ \A o \in FindOwners(f) : o[1] # f /\ owners[o] = <<>>
<1>1. FindOwners(f) \subseteq Objects
  <2>1. \A g \in Loaded : Object(g) \in Objects
    BY FragmentAssumption DEF Object, Objects, Loaded, OwnersType
  <2> QED
    BY <2>1 DEF FindOwners
<1>2. \A o \in FindOwners(f) : o[1] # f /\ owners[o] = <<>>
  <2> SUFFICES ASSUME NEW o \in FindOwners(f)
               PROVE  o[1] # f /\ owners[o] = <<>>
    OBVIOUS
  <2>1. PICK g \in Loaded \ {f} : o = Object(g) /\ ~IsFragment(owners, Object(g))
    BY DEF FindOwners
  <2>2. o[1] = g
    BY <2>1 DEF Object
  <2> QED
    BY <2>1, <2>2 DEF IsFragment
<1>3. IsFiniteSet(Objects)
  <2>1. IsFiniteSet(1..MaxObjects)
    BY FS_Interval, FragmentAssumption
  <2>2. IsFiniteSet(Files)
    BY FragmentAssumption
  <2> QED
    BY <2>1, <2>2, FS_Product DEF Objects
<1> QED
  BY <1>1, <1>2, <1>3, FS_Subset
(* Binding one object to found owners, or leaving it bound as it is.         *)
LEMMA BindEnds ==
  ASSUME OwnersType, OwnersEnd, NEW f \in Files, NEW d \in Objects, d[1] = f,
         NEW bound \in {<<>>, owners[d]} \cup Orders(FindOwners(f))
  PROVE  LET new == [owners EXCEPT ![d] = bound]
         IN  new \in [Objects -> Seq(Objects)] /\ Ends(new)
<1> DEFINE new == [owners EXCEPT ![d] = bound]
<1>1. owners \in [Objects -> Seq(Objects)]
  BY DEF OwnersType
<1>2. /\ bound \in Seq(Objects)
      /\ \A o \in Range(bound) : o \in FindOwners(f) \/ o \in Range(owners[d])
  <2>1. CASE bound = <<>>
    BY <2>1 DEF Range
  <2>2. CASE bound = owners[d]
    BY <2>2, <1>1
  <2>3. CASE bound \in Orders(FindOwners(f))
    <3>1. FindOwners(f) \subseteq Objects /\ IsFiniteSet(FindOwners(f))
      BY FoundOwnersArePlain
    <3>2. bound \in Seq(FindOwners(f)) /\ Range(bound) \subseteq FindOwners(f)
      BY <2>3, <3>1, OrdersAreSequences
    <3> QED
      BY <3>1, <3>2
  <2> QED
    BY <2>1, <2>2, <2>3
<1>3. new \in [Objects -> Seq(Objects)]
  BY <1>1, <1>2
<1>4. AddsPlainOwners(owners, new)
  <2> SUFFICES ASSUME NEW x \in Objects, NEW o \in Range(new[x]) \ Range(owners[x])
               PROVE  new[o] = <<>>
    BY DEF AddsPlainOwners
  <2>1. x = d /\ new[x] = bound
    BY <1>1
  <2>2. o \in FindOwners(f)
    BY <2>1, <1>2
  <2>3. o # d /\ o \in Objects /\ owners[o] = <<>>
    BY <2>2, FoundOwnersArePlain
  <2> QED
    BY <2>3, <1>1
<1>5. Ends(owners)
  BY DEF Ends, OwnersEnd
<1>6. Ends(new)
  BY <1>1, <1>3, <1>4, <1>5, PlainOwnersEnd
<1> QED
  BY <1>3, <1>6

(* Adopting: documents other than d, when d is no fragment.                  *)
LEMMA AdoptEnds ==
  ASSUME NEW ow \in [Objects -> Seq(Objects)], Ends(ow), NEW adopted \in SUBSET Objects,
         NEW d \in Objects, adopted # {} => d \notin adopted /\ ow[d] = <<>>
  PROVE  AddOwner(ow, adopted, d) \in [Objects -> Seq(Objects)] /\ Ends(AddOwner(ow, adopted, d))
<1> DEFINE new == AddOwner(ow, adopted, d)
<1>1. new \in [Objects -> Seq(Objects)]
  BY DEF AddOwner
<1>2. AddsPlainOwners(ow, new)
  <2> SUFFICES ASSUME NEW x \in Objects, NEW o \in Range(new[x]) \ Range(ow[x])
               PROVE  new[o] = <<>>
    BY DEF AddsPlainOwners
  <2>1. x \in adopted /\ new[x] = Append(ow[x], d)
    BY DEF AddOwner
  <2>2. Range(Append(ow[x], d)) \subseteq Range(ow[x]) \cup {d}
    BY DEF Range
  <2>3. o = d
    BY <2>1, <2>2
  <2> QED
    BY <2>1, <2>3 DEF AddOwner
<1> QED
  BY <1>1, <1>2, PlainOwnersEnd

(* What openDocument does to objects and owners: the document is as ow says, *)
(* and then the fragments that it includes are bound to it.                  *)
LEMMA OpenedEnds ==
  ASSUME NEW f \in Files, NEW m \in [Files -> 0..MaxObjects], m[f] > 0,
         NEW ow \in [Objects -> Seq(Objects)], Ends(ow), NEW known, NEW same,
         Opened(f, m, ow, known, same)
  PROVE  OwnersType' /\ OwnersEnd'
<1> DEFINE d == <<f, m[f]>>
           l == [latest EXCEPT ![f] = disk[f]]
           adopted == IF known \/ IsFragment(ow, d) THEN {} ELSE Orphans(m, ow, l, d)
<1>1. made' = m /\ owners' = AddOwner(ow, adopted, d)
  BY DEF Opened
<1>2. \A g \in Files : m[g] > 0 => <<g, m[g]>> \in Objects
  BY FragmentAssumption DEF Objects
<1>3. \A x \in adopted : \E g \in Files \ {f} : m[g] > 0 /\ x = <<g, m[g]>>
  BY DEF Orphans, Included
<1>4. d \in Objects /\ adopted \subseteq Objects /\ d \notin adopted
  BY <1>2, <1>3
<1>5. adopted # {} => ow[d] = <<>>
  BY DEF IsFragment
<1>6. owners' \in [Objects -> Seq(Objects)] /\ Ends(owners')
  BY <1>1, <1>4, <1>5, AdoptEnds
<1> QED
  BY <1>1, <1>6 DEF OwnersType, OwnersEnd, Ends

(* The types that the argument needs come with it.                           *)
LEMMA OwnersInvariant == Spec => [](OwnersType /\ OwnersEnd)
<1>1. Init => OwnersType /\ OwnersEnd
  <2> SUFFICES ASSUME Init PROVE OwnersType /\ OwnersEnd
    OBVIOUS
  <2>1. OwnersType
    BY FragmentAssumption DEF Init, OwnersType
  <2>2. \A d \in Objects : Range(owners[d]) = {}
    BY DEF Init, Range
  <2> QED
    BY <2>1, <2>2 DEF OwnersEnd
<1>2. OwnersType /\ OwnersEnd /\ [Next]_vars => OwnersType' /\ OwnersEnd'
  <2> SUFFICES ASSUME OwnersType, OwnersEnd, [Next]_vars
               PROVE  OwnersType' /\ OwnersEnd'
    OBVIOUS
  <2>1. ASSUME NEW f \in Files, DidOpen(f)
        PROVE  OwnersType' /\ OwnersEnd'
    <3>1. CASE Matches(f) /\ \E bound \in Rebind(f) :
                 Opened(f, made, [owners EXCEPT ![Object(f)] = @ \o bound],
                        bound = <<>>, bound = <<>>)
      <4>1. PICK bound \in Rebind(f) :
              Opened(f, made, [owners EXCEPT ![Object(f)] = @ \o bound],
                     bound = <<>>, bound = <<>>)
        BY <3>1
      <4> DEFINE ow == [owners EXCEPT ![Object(f)] = @ \o bound]
      <4>2. made \in [Files -> 0..MaxObjects] /\ made[f] > 0 /\ Object(f) \in Objects /\ Object(f)[1] = f
        BY <3>1, FragmentAssumption DEF Matches, Loaded, OwnersType, Object, Objects
      <4>3. owners[Object(f)] \in Seq(Objects)
        BY <4>2 DEF OwnersType
      <4>4. owners[Object(f)] \o bound \in {<<>>, owners[Object(f)]} \cup Orders(FindOwners(f))
        <5>1. CASE bound = <<>>
          BY <5>1, <4>3
        <5>2. CASE bound # <<>>
          <6>1. bound \in Orders(FindOwners(f)) /\ owners[Object(f)] = <<>>
            BY <5>2 DEF Rebind, IsFragment
          <6>2. bound \in Seq(FindOwners(f))
            BY <6>1, FoundOwnersArePlain, OrdersAreSequences
          <6> QED
            BY <6>1, <6>2
        <5> QED
          BY <5>1, <5>2
      <4>5. ow \in [Objects -> Seq(Objects)] /\ Ends(ow)
        BY <4>2, <4>4, BindEnds
      <4> QED
        BY <4>1, <4>2, <4>5, OpenedEnds
    <3>2. CASE ~Matches(f) /\ made[f] < MaxObjects /\ \E bound \in Resolve(f) :
                 Opened(f, [made EXCEPT ![f] = @ + 1],
                        [owners EXCEPT ![<<f, made[f] + 1>>] = bound], FALSE, ReadsBuildFile(f))
      <4> DEFINE d == <<f, made[f] + 1>>
                 m == [made EXCEPT ![f] = @ + 1]
      <4>1. PICK bound \in Resolve(f) :
              Opened(f, m, [owners EXCEPT ![d] = bound], FALSE, ReadsBuildFile(f))
        BY <3>2
      <4> DEFINE ow == [owners EXCEPT ![d] = bound]
      <4>2. d \in Objects /\ d[1] = f /\ m \in [Files -> 0..MaxObjects] /\ m[f] > 0
        BY <3>2, FragmentAssumption DEF OwnersType, Objects
      <4>3. bound \in {<<>>} \cup Orders(FindOwners(f))
        BY DEF Resolve
      <4>4. ow \in [Objects -> Seq(Objects)] /\ Ends(ow)
        BY <4>2, <4>3, BindEnds
      <4> QED
        BY <4>1, <4>2, <4>4, OpenedEnds
    <3> QED
      BY <2>1, <3>1, <3>2 DEF DidOpen
  <2>2. ASSUME NEW f \in Files, Navigate(f)
        PROVE  OwnersType' /\ OwnersEnd'
    <3>1. PICK bound \in Resolve(f) : owners' = [owners EXCEPT ![<<f, 1>>] = bound]
      BY <2>2 DEF Navigate
    <3>2. <<f, 1>> \in Objects /\ <<f, 1>>[1] = f
      BY FragmentAssumption DEF Objects
    <3>3. bound \in {<<>>} \cup Orders(FindOwners(f))
      BY DEF Resolve
    <3>4. owners' \in [Objects -> Seq(Objects)] /\ Ends(owners')
      BY <3>1, <3>2, <3>3, BindEnds
    <3>5. made' \in [Files -> 0..MaxObjects]
      BY <2>2, FragmentAssumption DEF Navigate, OwnersType
    <3> QED
      BY <3>4, <3>5 DEF OwnersType, OwnersEnd, Ends
  <2>3. ASSUME UNCHANGED <<made, owners>>
        PROVE  OwnersType' /\ OwnersEnd'
    BY <2>3 DEF OwnersType, OwnersEnd
  <2>4. ASSUME NEW f \in Files, NEW t, DidChange(f, t) \/ DidChangeCut(f, t)
        PROVE  UNCHANGED <<made, owners>>
    BY <2>4 DEF DidChange, DidChangeCut, Typed
  <2>5. ASSUME NEW f \in Files, DidSave(f) \/ DidClose(f) \/ Query(f)
        PROVE  UNCHANGED <<made, owners>>
    BY <2>5 DEF DidSave, DidClose, Query
  <2>6. CASE UNCHANGED vars
    BY <2>3, <2>6 DEF vars
  <2> QED
    BY <2>1, <2>2, <2>3, <2>4, <2>5, <2>6 DEF Next
<1> QED
  BY <1>1, <1>2, PTL DEF Spec

(* analyzeDocument's recursion into owners and getSyntaxTree's end, for every *)
(* project, however many files and owners there are.                         *)
THEOREM OwnersEndTheorem == Spec => []OwnersEnd
BY OwnersInvariant, PTL


(* What includes a fragment owns it                                          *)

(* Every owner that is found is bound, in whatever order.                    *)
LEMMA OrdersHaveAll ==
  ASSUME NEW S, IsFiniteSet(S), NEW q \in Orders(S)
  PROVE  S \subseteq Range(q) /\ (q = <<>> => S = {})
<1> DEFINE n == Cardinality(S)
<1>1. n \in Nat /\ IsFiniteSet(1..n) /\ Cardinality(1..n) = n
  BY FS_CardinalityType, FS_Interval
<1>2. q \in Injection(1..n, S)
  BY DEF Orders, Injection, IsInjective
<1>3. q \in Surjection(1..n, S)
  BY <1>1, <1>2, FS_Injection
<1>4. S \subseteq Range(q)
  BY <1>3 DEF Surjection, Range
<1> QED
  BY <1>4 DEF Range

(* A document with owners found for it has all that there are; without any   *)
(* it holds together, or there are none.                                     *)
Asked(f, bound) ==
  /\ bound # <<>> => FindOwners(f) \subseteq Range(bound)
  /\ bound = <<>> => Standalone(latest, f) \/ FindOwners(f) = {}

LEMMA ResolveAsks ==
  ASSUME OwnersType, NEW f \in Files, NEW bound \in Resolve(f)
  PROVE  Asked(f, bound)
<1>1. CASE Standalone(latest, f)
  BY <1>1 DEF Resolve, Asked
<1>2. CASE ~Standalone(latest, f)
  <2>1. bound \in Orders(FindOwners(f)) /\ IsFiniteSet(FindOwners(f))
    BY <1>2, FoundOwnersArePlain DEF Resolve
  <2> QED
    BY <2>1, OrdersHaveAll DEF Asked
<1> QED
  BY <1>1, <1>2

LEMMA OwnerFound ==
  ASSUME ResolveFragments, NEW f \in Files, NEW g \in Loaded \ {f},
         f \in Included(latest, g), ~IsFragment(owners, Object(g))
  PROVE  Object(g) \in FindOwners(f)
BY DEF FindOwners

(* A loaded document that a new one includes and that is a fragment, or does *)
(* not hold together by itself, is adopted.                                  *)
LEMMA OrphansAre ==
  ASSUME NEW m, NEW ow, NEW l, NEW d, NEW g \in Files, m[g] > 0, g \in Included(l, d[1]),
         IsFragment(ow, <<g, m[g]>>) \/ ~Standalone(l, g), ResolveFragments,
         d \notin Range(ow[<<g, m[g]>>])
  PROVE  <<g, m[g]>> \in Orphans(m, ow, l, d)
<1> DEFINE x == <<g, m[g]>>
<1>1. x[1] = g /\ x \in {<<h, m[h]>> : h \in {h \in Files : m[h] > 0 /\ h \in Included(l, d[1])}}
  OBVIOUS
<1> QED
  BY <1>1 DEF Orphans

(* A document that is opened: known, with a scan that has been run for it    *)
(* before; bound already; or bound now to what was found.                    *)
LEMMA OpenedKeeps ==
  ASSUME OwnersType, IncludersAreOwners, ResolveFragments, NEW f \in Files,
         NEW m \in [Files -> 0..MaxObjects], m[f] > 0, \A g \in Files \ {f} : m[g] = made[g],
         NEW ow \in [Objects -> Seq(Objects)], \A o \in Objects : o[1] # f => ow[o] = owners[o],
         NEW known, NEW same, Opened(f, m, ow, known, same),
         known => m = made /\ ow = owners /\ made[f] > 0,
         \/ m = made /\ ow = owners /\ made[f] > 0 /\ IsFragment(owners, <<f, m[f]>>)
         \/ Asked(f, ow[<<f, m[f]>>])
  PROVE  IncludersAreOwners'
<1> DEFINE d == <<f, m[f]>>
           l == [latest EXCEPT ![f] = disk[f]]
           adopted == IF known \/ IsFragment(ow, d) THEN {} ELSE Orphans(m, ow, l, d)
           asked == IF IsFragment(owners, d) THEN {} ELSE {f} \X Files
           scanned == IF known \/ IsFragment(ow, d) THEN {} ELSE Files \X {f}
           O(g) == <<g, m[g]>>
<1>1. /\ made' = m /\ latest' = l /\ owners' = AddOwner(ow, adopted, d)
      /\ missed' = ((missed \ asked) \cup Parted(m, latest, l)) \ scanned
  BY DEF Opened
<1>2. SUFFICES ASSUME NEW g \in Files, m[g] > 0, NEW x \in Files, m[x] > 0, x \in Included(l, g),
                      IsFragment(owners', O(x)) \/ ~Standalone(l, x),
                      ~IsFragment(owners', O(g)), <<x, g>> \notin missed'
               PROVE  O(g) \in Range(owners'[O(x)])
  BY <1>1 DEF IncludersAreOwners, Loaded, Object
<1> HIDE DEF l
<1>3. x # g /\ O(x) \in Objects /\ O(g) \in Objects /\ d \in Objects
  BY <1>2, FragmentAssumption DEF Included, Objects
<1>4. /\ \A o \in Objects : owners'[o] = IF o \in adopted THEN Append(ow[o], d) ELSE ow[o]
      /\ owners'[d] = ow[d] /\ ow[O(x)] \in Seq(Objects)
  <2>1. \A y \in adopted : y # d
    BY DEF Orphans, Included
  <2> QED
    BY <1>1, <1>3, <2>1 DEF AddOwner
<1>5. ow[O(g)] = <<>>
  <2>1. owners'[O(g)] = <<>>
    BY <1>2 DEF IsFragment
  <2>2. O(g) \notin adopted
    <3> SUFFICES ASSUME O(g) \in adopted PROVE FALSE
      OBVIOUS
    <3>1. owners'[O(g)] = Append(ow[O(g)], d) /\ ow[O(g)] \in Seq(Objects)
      BY <1>3, <1>4
    <3>2. Len(Append(ow[O(g)], d)) = Len(ow[O(g)]) + 1 /\ Len(ow[O(g)]) \in Nat
      BY <3>1, <1>3
    <3> QED
      BY <2>1, <3>1, <3>2
  <2> QED
    BY <1>3, <1>4, <2>1, <2>2
<1>6. ASSUME O(g) \in Range(ow[O(x)])
      PROVE  O(g) \in Range(owners'[O(x)])
  <2>1. CASE O(x) \in adopted
    <3>1. owners'[O(x)] = Append(ow[O(x)], d)
      BY <1>3, <1>4, <2>1
    <3>2. PICK i \in DOMAIN ow[O(x)] : O(g) = ow[O(x)][i]
      BY <1>6 DEF Range
    <3>3. i \in 1..Len(ow[O(x)]) /\ Len(ow[O(x)]) \in Nat
      BY <1>4, <3>2
    <3>4. /\ DOMAIN Append(ow[O(x)], d) = 1..(Len(ow[O(x)]) + 1)
          /\ Append(ow[O(x)], d)[i] = ow[O(x)][i]
      BY <1>3, <1>4, <3>3
    <3>5. i \in 1..(Len(ow[O(x)]) + 1)
      BY <3>3
    <3>6. i \in DOMAIN Append(ow[O(x)], d) /\ Append(ow[O(x)], d)[i] = O(g)
      BY <3>2, <3>4, <3>5
    <3> QED
      BY <3>1, <3>6 DEF Range
  <2> QED
    BY <1>3, <1>4, <1>6, <2>1
<1>7. ASSUME <<x, g>> \notin scanned
      PROVE  /\ x \in Included(latest, g)
             /\ Standalone(latest, x) => Standalone(l, x)
             /\ <<x, g>> \in asked \/ <<x, g>> \notin missed
  <2>1. <<x, g>> \notin Parted(m, latest, l)
    BY <1>1, <1>2, <1>7
  <2>2. <<x, g>>[1] = x /\ <<x, g>>[2] = g /\ <<x, g>> \in Files \X Files
    OBVIOUS
  <2> QED
    BY <1>1, <1>2, <1>7, <2>1, <2>2 DEF Parted
\* the pair as it was
<1>8. ASSUME made[x] > 0, made[g] > 0, x \in Included(latest, g), <<x, g>> \notin missed,
             IsFragment(owners, <<x, made[x]>>) \/ ~Standalone(latest, x),
             ~IsFragment(owners, <<g, made[g]>>)
      PROVE  <<g, made[g]>> \in Range(owners[<<x, made[x]>>])
  BY <1>8 DEF IncludersAreOwners, Loaded, Object
<1>9. CASE g = f
  <2>1. CASE known
    <3>1. adopted = {} /\ scanned = {} /\ <<x, g>> \notin asked
      BY <1>3, <1>9, <2>1
    <3>2. owners'[O(x)] = owners[O(x)] /\ O(x) = <<x, made[x]>> /\ O(g) = <<g, made[g]>>
      BY <1>3, <1>4, <2>1, <3>1
    <3>3. IsFragment(owners, O(x)) \/ ~Standalone(latest, x)
      BY <1>2, <1>7, <3>1, <3>2 DEF IsFragment
    <3> QED
      BY <1>2, <1>5, <1>7, <1>8, <1>9, <2>1, <3>1, <3>2, <3>3 DEF IsFragment
  <2>2. CASE ~known
    <3>1. adopted = Orphans(m, ow, l, d) /\ O(g) = d
      BY <1>5, <1>9, <2>2 DEF IsFragment
    <3>2. CASE O(x) \in adopted
      <4>1. owners'[O(x)] = Append(ow[O(x)], d)
        BY <1>3, <1>4, <3>2
      <4>2. Append(ow[O(x)], d)[Len(ow[O(x)]) + 1] = d
            /\ Len(ow[O(x)]) + 1 \in DOMAIN Append(ow[O(x)], d)
        BY <1>3, <1>4
      <4> QED
        BY <3>1, <4>1, <4>2 DEF Range
    <3>3. CASE O(x) \notin adopted
      <4>1. owners'[O(x)] = ow[O(x)]
        BY <1>3, <1>4, <3>3
      <4>2. IsFragment(ow, O(x)) \/ ~Standalone(l, x)
        BY <1>2, <4>1 DEF IsFragment
      <4>3. x \in Included(l, d[1])
        BY <1>2, <1>9
      <4>4. d \in Range(ow[O(x)])
        <5> HIDE DEF d
        <5> QED
          BY <1>2, <3>1, <3>3, <4>2, <4>3, OrphansAre
      <4> QED
        BY <3>1, <4>1, <4>4
    <3> QED
      BY <3>2, <3>3
  <2> QED
    BY <2>1, <2>2
<1>10. CASE g # f /\ x = f
  <2>1. <<x, g>> \notin scanned /\ O(g) = <<g, made[g]>> /\ owners[O(g)] = <<>>
    BY <1>3, <1>5, <1>10
  <2>2. CASE m = made /\ ow = owners /\ made[f] > 0 /\ IsFragment(owners, d)
    <3>1. <<x, g>> \notin missed
      BY <1>7, <2>1, <2>2
    <3> QED
      BY <1>2, <1>6, <1>7, <1>8, <1>10, <2>1, <2>2, <3>1 DEF IsFragment
  <2>3. CASE Asked(f, ow[d])
    <3>1. O(g) \in FindOwners(f)
      <4>1. g \in Loaded \ {f} /\ Object(g) = O(g)
        BY <1>2, <1>10, <2>1 DEF Loaded, Object
      <4>2. f \in Included(latest, g) /\ ~IsFragment(owners, Object(g))
        BY <1>7, <1>10, <2>1, <4>1 DEF IsFragment
      <4> QED
        BY <4>1, <4>2, OwnerFound
    <3>2. CASE ow[d] = <<>>
      BY <1>2, <1>4, <1>7, <1>10, <2>1, <2>3, <3>1, <3>2 DEF Asked, IsFragment
    <3> QED
      BY <1>4, <1>10, <2>3, <3>1, <3>2 DEF Asked
  <2> QED
    BY <2>2, <2>3
<1>11. CASE g # f /\ x # f
  <2>1. /\ <<x, g>> \notin scanned /\ <<x, g>> \notin asked
        /\ O(g) = <<g, made[g]>> /\ O(x) = <<x, made[x]>>
        /\ ow[O(g)] = owners[O(g)] /\ ow[O(x)] = owners[O(x)]
    BY <1>3, <1>11
  <2>2. IsFragment(ow, O(x)) \/ ~Standalone(l, x)
    <3>1. CASE O(x) \in adopted
      BY <3>1 DEF Orphans
    <3>2. CASE O(x) \notin adopted
      BY <1>2, <1>3, <1>4, <3>2 DEF IsFragment
    <3> QED
      BY <3>1, <3>2
  <2>3. IsFragment(owners, O(x)) \/ ~Standalone(latest, x)
    BY <1>7, <2>1, <2>2 DEF IsFragment
  <2> QED
    BY <1>2, <1>5, <1>6, <1>7, <1>8, <1>11, <2>1, <2>3 DEF IsFragment
<1> QED
  BY <1>9, <1>10, <1>11

(* A document that is read looks for owners, and is missed by what it        *)
(* includes.                                                                 *)
LEMMA NavigateKeeps ==
  ASSUME OwnersType, IncludersAreOwners, ResolveFragments, NEW f \in Files, Navigate(f)
  PROVE  IncludersAreOwners'
<1>1. PICK bound \in Resolve(f) : owners' = [owners EXCEPT ![<<f, 1>>] = bound]
  BY DEF Navigate
<1>2. /\ made' = [made EXCEPT ![f] = 1] /\ latest' = latest /\ made[f] = 0
      /\ missed' = (missed \ ({f} \X Files)) \cup ((Included(latest, f) \cap Loaded) \X {f})
  BY DEF Navigate, Loaded, OwnersType
<1> DEFINE O(g) == <<g, made'[g]>>
<1>3. SUFFICES ASSUME NEW g \in Files, made'[g] > 0, NEW x \in Files, made'[x] > 0,
                      x \in Included(latest, g),
                      IsFragment(owners', O(x)) \/ ~Standalone(latest, x),
                      ~IsFragment(owners', O(g)), <<x, g>> \notin missed'
               PROVE  O(g) \in Range(owners'[O(x)])
  BY <1>2 DEF IncludersAreOwners, Loaded, Object
<1>4. x # g /\ Asked(f, bound)
  BY <1>3, ResolveAsks DEF Included
<1>5. /\ \A h \in Files \ {f} : made'[h] = made[h]
      /\ made'[f] = 1 /\ <<f, 1>> \in Objects
      /\ owners'[<<f, 1>>] = bound
      /\ \A o \in Objects : o[1] # f => owners'[o] = owners[o]
  BY <1>1, <1>2, FragmentAssumption DEF OwnersType, Objects
<1>6. O(x) \in Objects /\ O(g) \in Objects
  <2>1. made' \in [Files -> 0..MaxObjects]
    BY <1>2, FragmentAssumption DEF OwnersType
  <2> QED
    BY <1>3, <2>1 DEF Objects
<1>7. CASE g = f
  <2>1. x \in Loaded
    BY <1>3, <1>4, <1>5, <1>7 DEF Loaded
  <2> QED
    BY <1>2, <1>3, <1>7, <2>1
<1>8. CASE g # f /\ x = f
  <2>1. g \in Loaded \ {f} /\ Object(g) = O(g) /\ ~IsFragment(owners, Object(g))
    BY <1>3, <1>5, <1>6, <1>8 DEF Loaded, Object, IsFragment
  <2>2. O(g) \in FindOwners(f)
    BY <1>3, <1>8, <2>1, OwnerFound
  <2> QED
    BY <1>3, <1>4, <1>5, <1>8, <2>2 DEF Asked, IsFragment
<1>9. CASE g # f /\ x # f
  <2>1. <<x, g>> \notin missed /\ O(g) = Object(g) /\ O(x) = Object(x)
        /\ owners'[O(g)] = owners[O(g)] /\ owners'[O(x)] = owners[O(x)]
        /\ g \in Loaded /\ x \in Loaded
    BY <1>2, <1>3, <1>5, <1>6, <1>9 DEF Object, Loaded
  <2> QED
    BY <1>3, <2>1 DEF IncludersAreOwners, IsFragment
<1> QED
  BY <1>7, <1>8, <1>9

(* In whatever order files are opened, reopened and read: a fragment, or     *)
(* what would be one, is owned by all that include it, but where a change    *)
(* came after both had looked or the includer was only read.                 *)
THEOREM IncludersAreOwnersTheorem == Spec => []IncludersAreOwners
<1>1. Init => IncludersAreOwners
  <2> SUFFICES ASSUME Init, NEW f \in Loaded
               PROVE  ~IsFragment(owners, Object(f)) /\ Standalone(latest, f)
    BY DEF IncludersAreOwners
  <2>1. made[f] = 1 /\ latest[f].kind = "unit" /\ f \in Files
    BY DEF Init, Loaded
  <2>2. Object(f) \in Objects
    BY <2>1, FragmentAssumption DEF Object, Objects
  <2>3. f \in TreeFiles(latest, f)
    BY DEF TreeFiles
  <2> QED
    BY <2>1, <2>2, <2>3 DEF Init, IsFragment, Standalone
<1>2. OwnersType /\ IncludersAreOwners /\ [Next]_vars => IncludersAreOwners'
  <2> SUFFICES ASSUME OwnersType, IncludersAreOwners, ResolveFragments, [Next]_vars
               PROVE  IncludersAreOwners'
    BY DEF IncludersAreOwners
  <2>1. ASSUME NEW f \in Files, DidOpen(f)
        PROVE  IncludersAreOwners'
    <3>1. CASE Matches(f) /\ \E bound \in Rebind(f) :
                 Opened(f, made, [owners EXCEPT ![Object(f)] = @ \o bound],
                        bound = <<>>, bound = <<>>)
      <4>1. PICK bound \in Rebind(f) :
              Opened(f, made, [owners EXCEPT ![Object(f)] = @ \o bound],
                     bound = <<>>, bound = <<>>)
        BY <3>1
      <4> DEFINE ow == [owners EXCEPT ![Object(f)] = @ \o bound]
      <4>2. /\ made \in [Files -> 0..MaxObjects] /\ made[f] > 0
            /\ Object(f) = <<f, made[f]>> /\ Object(f) \in Objects
            /\ owners[Object(f)] \in Seq(Objects)
        BY <3>1, FragmentAssumption DEF Matches, Loaded, OwnersType, Object, Objects
      <4>3. /\ bound # <<>> => bound \in Orders(FindOwners(f)) /\ owners[Object(f)] = <<>>
            /\ owners[Object(f)] = <<>> => bound \in Resolve(f)
        BY DEF Rebind, Resolve, IsFragment
      <4>4. bound \in Seq(Objects)
        <5>1. CASE bound # <<>>
          BY <4>3, <5>1, FoundOwnersArePlain, OrdersAreSequences
        <5>2. CASE bound = <<>>
          BY <5>2
        <5> QED
          BY <5>1, <5>2
      <4>5. ow[Object(f)] = owners[Object(f)] \o bound
        BY <4>2 DEF OwnersType
      <4>6. ow \in [Objects -> Seq(Objects)] /\ \A o \in Objects : o[1] # f => ow[o] = owners[o]
        <5>1. owners[Object(f)] \o bound \in Seq(Objects)
          BY <4>2, <4>4
        <5>2. owners \in [Objects -> Seq(Objects)] /\ Object(f)[1] = f
          BY <4>2 DEF OwnersType
        <5> QED
          BY <5>1, <5>2
      <4>7. ASSUME bound = <<>> PROVE ow = owners
        <5>1. ow[Object(f)] = owners[Object(f)]
          BY <4>2, <4>5, <4>7
        <5>2. ow \in [Objects -> Seq(Objects)] /\ owners \in [Objects -> Seq(Objects)]
          BY <4>6 DEF OwnersType
        <5>3. \A o \in Objects : ow[o] = owners[o]
          BY <5>1 DEF OwnersType
        <5> HIDE DEF ow
        <5> QED
          BY <5>2, <5>3
      <4>8. CASE owners[Object(f)] = <<>>
        <5>1. ow[Object(f)] = bound
          BY <4>4, <4>5, <4>8
        <5>2. Asked(f, ow[<<f, made[f]>>])
          BY <4>2, <4>3, <4>8, <5>1, ResolveAsks
        <5> HIDE DEF ow
        <5> QED
          BY <4>1, <4>2, <4>6, <4>7, <5>2, OpenedKeeps DEF ow
      <4>9. CASE owners[Object(f)] # <<>>
        <5>1. bound = <<>> /\ ow = owners /\ IsFragment(owners, <<f, made[f]>>)
          BY <4>2, <4>3, <4>7, <4>9 DEF IsFragment
        <5> QED
          BY <4>1, <4>2, <4>6, <5>1, OpenedKeeps
      <4> QED
        BY <4>8, <4>9
    <3>2. CASE ~Matches(f) /\ made[f] < MaxObjects /\ \E bound \in Resolve(f) :
                 Opened(f, [made EXCEPT ![f] = @ + 1],
                        [owners EXCEPT ![<<f, made[f] + 1>>] = bound], FALSE, ReadsBuildFile(f))
      <4> DEFINE d == <<f, made[f] + 1>>
                 m == [made EXCEPT ![f] = @ + 1]
      <4>1. PICK bound \in Resolve(f) :
              Opened(f, m, [owners EXCEPT ![d] = bound], FALSE, ReadsBuildFile(f))
        BY <3>2
      <4> DEFINE ow == [owners EXCEPT ![d] = bound]
      <4>2. /\ d \in Objects /\ m \in [Files -> 0..MaxObjects] /\ m[f] = made[f] + 1 /\ m[f] > 0
            /\ \A g \in Files \ {f} : m[g] = made[g]
        BY <3>2, FragmentAssumption DEF OwnersType, Objects
      <4>3. bound \in Seq(Objects)
        <5>1. CASE Standalone(latest, f)
          BY <5>1 DEF Resolve
        <5>2. CASE ~Standalone(latest, f)
          BY <5>2, FoundOwnersArePlain, OrdersAreSequences DEF Resolve
        <5> QED
          BY <5>1, <5>2
      <4>4. /\ ow \in [Objects -> Seq(Objects)] /\ ow[<<f, m[f]>>] = bound
            /\ \A o \in Objects : o[1] # f => ow[o] = owners[o]
        BY <4>2, <4>3 DEF OwnersType
      <4>5. Asked(f, ow[<<f, m[f]>>])
        BY <4>4, ResolveAsks
      <4> HIDE DEF m, ow
      <4> QED
        BY <4>1, <4>2, <4>4, <4>5, OpenedKeeps DEF ow
    <3> QED
      BY <2>1, <3>1, <3>2 DEF DidOpen
  <2>2. ASSUME NEW f \in Files, Navigate(f)
        PROVE  IncludersAreOwners'
    BY <2>2, NavigateKeeps
  <2>3. ASSUME NEW f \in Files, NEW t, DidChange(f, t) \/ DidChangeCut(f, t)
        PROVE  IncludersAreOwners'
    <3>1. made' = made /\ owners' = owners /\ missed' = missed \cup Parted(made, latest, latest')
      BY <2>3 DEF DidChange, DidChangeCut, Typed
    <3>2. SUFFICES ASSUME NEW g \in Loaded, NEW x \in Included(latest', g) \cap Loaded,
                          IsFragment(owners, Object(x)) \/ ~Standalone(latest', x),
                          ~IsFragment(owners, Object(g)), <<x, g>> \notin missed'
                   PROVE  Object(g) \in Range(owners[Object(x)])
      BY <3>1 DEF IncludersAreOwners, Loaded, Object
    <3>3. <<x, g>> \notin missed /\ <<x, g>> \notin Parted(made, latest, latest')
      BY <3>1, <3>2
    <3>4. /\ <<x, g>>[1] = x /\ <<x, g>>[2] = g /\ <<x, g>> \in Files \X Files
          /\ made[x] > 0 /\ made[g] > 0
      BY DEF Loaded
    <3>5. x \in Included(latest, g) /\ (Standalone(latest, x) => Standalone(latest', x))
      BY <3>2, <3>3, <3>4 DEF Parted
    <3> QED
      BY <3>2, <3>3, <3>5 DEF IncludersAreOwners
  <2>4. ASSUME NEW f \in Files, DidSave(f) \/ DidClose(f) \/ Query(f)
        PROVE  UNCHANGED <<made, owners, latest, missed>>
    BY <2>4 DEF DidSave, DidClose, Query
  <2>5. ASSUME UNCHANGED <<made, owners, latest, missed>>
        PROVE  IncludersAreOwners'
    BY <2>5 DEF IncludersAreOwners, Loaded, Object
  <2>6. CASE UNCHANGED vars
    BY <2>5, <2>6 DEF vars
  <2> QED
    BY <2>1, <2>2, <2>3, <2>4, <2>5, <2>6 DEF Next
<1> QED
  BY <1>1, <1>2, OwnersInvariant, PTL DEF Spec
=============================================================================
