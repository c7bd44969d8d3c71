---- MODULE IoBufProofs ----
(***************************************************************************)
(* IoBuf is a queue of bytes, for every size of its vector and every       *)
(* length of a call.  Each member function gets a lemma that says it keeps *)
(* the buffer well formed and what it does to the readable bytes; the      *)
(* theorems follow action by action.                                       *)
(***************************************************************************)
EXTENDS IoBuf, SequenceTheorems, TLAPS

IsBuffer(b) ==
  /\ b.size \in Nat /\ b.read \in Nat /\ b.write \in Nat
  /\ b.data \in [0..(b.size - 1) -> Byte]
  /\ PrependSize <= b.size
  /\ b.read <= b.write /\ b.write <= b.size


----------------------------------------------------------------------------
\* Sequences of bytes

\* The readable bytes are a sequence as long as GetReadableSize says.
LEMMA ContentsSeq ==
  ASSUME NEW b, IsBuffer(b)
  PROVE  /\ Contents(b) \in Seq(Byte)
         /\ Len(Contents(b)) = Readable(b)
         /\ \A i \in 1..Readable(b) : Contents(b)[i] = b.data[b.read + (i - 1)]
<1>1. Readable(b) \in Nat
  BY DEF IsBuffer, Readable
<1>2. ASSUME NEW i \in 1..Readable(b)
      PROVE  b.data[b.read + (i - 1)] \in Byte
  <2>1. b.read + (i - 1) \in 0..(b.size - 1)
    BY DEF IsBuffer, Readable
  <2> QED
    BY <2>1 DEF IsBuffer
<1>3. Contents(b) \in [1..Readable(b) -> Byte]
  BY <1>2 DEF Contents
<1>4. Contents(b) \in Seq(Byte)
  BY <1>1, <1>3, SeqDef
<1>5. DOMAIN Contents(b) = 1..Readable(b)
  BY DEF Contents
<1>6. Len(Contents(b)) = Readable(b)
  BY <1>1, <1>4, <1>5, LenProperties
<1> QED
  BY <1>4, <1>6 DEF Contents

\* What a call is given is a sequence of bytes.
LEMMA BytesSeq ==
  ASSUME NEW items \in Bytes
  PROVE  items \in Seq(Byte) /\ Len(items) \in 0..MaxLen
<1>1. PICK n \in 0..MaxLen : items \in [1..n -> Byte]
  BY DEF Bytes
<1>2. items \in Seq(Byte)
  BY <1>1, SeqDef
<1>3. Len(items) = n
  BY <1>1, <1>2, LenProperties
<1> QED
  BY <1>2, <1>3

----------------------------------------------------------------------------
\* Making room

\* EnsureWritableBytes makes the room it is asked for, keeps the readable
\* bytes, and lets the vector grow only if they would not fit.
LEMMA Room ==
  ASSUME NEW b, IsBuffer(b), NEW len \in Nat
  PROVE  LET r == EnsureWritableBytes(b, len) IN
         /\ IsBuffer(r)
         /\ Writeable(r) >= len
         /\ Readable(r) = Readable(b)
         /\ Contents(r) = Contents(b)
         /\ r.size >= b.size
         /\ r.size > b.size => PrependSize + Readable(b) + len > b.size
<1> DEFINE r == EnsureWritableBytes(b, len)
<1>n. /\ b.size \in Nat /\ b.read \in Nat /\ b.write \in Nat
      /\ b.read <= b.write /\ b.write <= b.size
      /\ PrependSize <= b.size /\ PrependSize \in Nat
  BY SizeAssumption DEF IsBuffer
<1>d. b.data \in [0..(b.size - 1) -> Byte]
  BY DEF IsBuffer
<1>1. CASE Writeable(b) >= len
  <2>1. r = b
    BY <1>1 DEF EnsureWritableBytes
  <2> QED
    BY <1>n, <1>1, <2>1 DEF Writeable, Readable
<1>2. CASE Writeable(b) < len /\ MustGrow(b, len)
  <2>1. r = Resized(b, len + b.write)
    BY <1>n, <1>2 DEF EnsureWritableBytes, Writeable
  <2>2. r.size = len + b.write /\ r.read = b.read /\ r.write = b.write
    BY <2>1 DEF Resized
  <2>3. len + b.write > b.size
    BY <1>n, <1>2 DEF Writeable
  <2>4. r.data = [i \in 0..((len + b.write) - 1) |->
                    IF i < b.size THEN b.data[i] ELSE Zero]
    BY <2>1 DEF Resized
  <2>5. r.data \in [0..(r.size - 1) -> Byte]
    BY <1>d, <1>n, <2>2, <2>4, ByteAssumption
  <2>6. IsBuffer(r)
    BY <1>n, <2>2, <2>3, <2>5 DEF IsBuffer
  <2>7. \A i \in 0..(b.size - 1) : r.data[i] = b.data[i]
    BY <1>n, <2>3, <2>4
  <2> HIDE DEF r
  <2>8. ASSUME NEW i \in 1..Readable(b)
        PROVE  r.data[r.read + (i - 1)] = b.data[b.read + (i - 1)]
    <3>1. b.read + (i - 1) \in 0..(b.size - 1)
      BY <1>n DEF Readable
    <3> QED
      BY <2>2, <2>7, <3>1
  <2>9. Readable(r) = Readable(b)
    BY <2>2 DEF Readable
  <2>10. Contents(r) = Contents(b)
    BY <2>8, <2>9 DEF Contents
  <2> QED
    BY <1>n, <1>2, <2>2, <2>3, <2>6, <2>9, <2>10 DEF Writeable, Readable, MustGrow, r
<1>3. CASE Writeable(b) < len /\ ~MustGrow(b, len)
  <2>1. r = Compacted(b)
    BY <1>n, <1>3 DEF EnsureWritableBytes, Writeable
  <2>2. r.size = b.size /\ r.read = PrependSize
        /\ r.write = PrependSize + Readable(b)
    BY <2>1 DEF Compacted
  <2>3. PrependSize < b.read /\ PrependSize + Readable(b) <= b.size
    BY <1>n, <1>3 DEF Writeable, Readable, MustGrow
  <2>4. r.data = [i \in 0..(b.size - 1) |->
                    IF PrependSize <= i /\ i < PrependSize + Readable(b)
                    THEN b.data[b.read + (i - PrependSize)]
                    ELSE b.data[i]]
    BY <2>1 DEF Compacted
  <2> HIDE DEF r
  <2>5. r.data \in [0..(r.size - 1) -> Byte]
    <3>1. ASSUME NEW i \in 0..(b.size - 1),
                 PrependSize <= i, i < PrependSize + Readable(b)
          PROVE  b.data[b.read + (i - PrependSize)] \in Byte
      <4>1. b.read + (i - PrependSize) \in 0..(b.size - 1)
        BY <1>n, <3>1 DEF Readable
      <4> QED
        BY <1>d, <4>1
    <3> QED
      BY <1>d, <2>2, <2>4, <3>1
  <2>6. IsBuffer(r)
    BY <1>n, <2>2, <2>3, <2>5 DEF IsBuffer, Readable
  <2>7. Readable(r) = Readable(b)
    BY <1>n, <2>2 DEF Readable
  <2>8. ASSUME NEW i \in 1..Readable(b)
        PROVE  r.data[r.read + (i - 1)] = b.data[b.read + (i - 1)]
    <3>1. PrependSize + (i - 1) \in 0..(b.size - 1)
      BY <1>n, <2>3 DEF Readable
    <3> DEFINE k == PrependSize + (i - 1)
    <3>2. PrependSize <= k /\ k < PrependSize + Readable(b)
      BY <1>n DEF Readable
    <3>3. b.read + (k - PrependSize) = b.read + (i - 1)
      BY <1>n
    <3> HIDE DEF k
    <3>4. r.data[k] = b.data[b.read + (k - PrependSize)]
      BY <2>4, <3>1, <3>2 DEF k
    <3> QED
      BY <2>2, <3>3, <3>4 DEF k
  <2>9. Contents(r) = Contents(b)
    BY <2>7, <2>8 DEF Contents
  <2> QED
    BY <1>n, <1>3, <2>2, <2>6, <2>7, <2>9 DEF Writeable, Readable, MustGrow, r
<1>4. Writeable(b) >= len \/ Writeable(b) < len
  BY <1>n DEF Writeable
<1> QED
  BY <1>1, <1>2, <1>3, <1>4

----------------------------------------------------------------------------
\* Filling

\* A copy to the write index that fits appends to the readable bytes.
LEMMA StoredAppends ==
  ASSUME NEW b, IsBuffer(b), NEW items \in Seq(Byte),
         Len(items) <= Writeable(b)
  PROVE  /\ IsBuffer(Stored(b, items))
         /\ Stored(b, items).size = b.size
         /\ Writeable(Stored(b, items)) = Writeable(b) - Len(items)
         /\ Readable(Stored(b, items)) = Readable(b) + Len(items)
         /\ Contents(Stored(b, items)) = Contents(b) \o items
<1> DEFINE s == Stored(b, items)
<1>n. /\ b.size \in Nat /\ b.read \in Nat /\ b.write \in Nat
      /\ b.read <= b.write /\ b.write <= b.size
      /\ PrependSize <= b.size /\ PrependSize \in Nat
  BY SizeAssumption DEF IsBuffer
<1>d. b.data \in [0..(b.size - 1) -> Byte]
  BY DEF IsBuffer
<1>1. Len(items) \in Nat /\ items \in [1..Len(items) -> Byte]
  BY LenProperties
<1>2. s.size = b.size /\ s.read = b.read /\ s.write = b.write + Len(items)
  BY DEF Stored
<1>3. s.data = [i \in 0..(b.size - 1) |->
                  IF b.write <= i /\ i < b.write + Len(items)
                  THEN items[i - b.write + 1]
                  ELSE b.data[i]]
  BY DEF Stored
<1>4. s.data \in [0..(b.size - 1) -> Byte]
  <2>1. ASSUME NEW i \in 0..(b.size - 1), b.write <= i, i < b.write + Len(items)
        PROVE  items[i - b.write + 1] \in Byte
    <3>1. i - b.write + 1 \in 1..Len(items)
      BY <1>n, <1>1, <2>1, SMTT(60)
    <3> QED
      BY <1>1, <3>1
  <2> HIDE DEF s
  <2> QED
    BY <1>d, <1>3, <2>1
<1> HIDE DEF s
<1>5. IsBuffer(s)
  BY <1>n, <1>1, <1>2, <1>4 DEF IsBuffer, Writeable
<1>6. Readable(s) = Readable(b) + Len(items)
  BY <1>n, <1>1, <1>2 DEF Readable
<1>7. Writeable(s) = Writeable(b) - Len(items)
  BY <1>n, <1>1, <1>2 DEF Writeable
<1>8. Readable(b) \in Nat
  BY <1>n DEF Readable
<1>9. ASSUME NEW i \in 1..(Readable(b) + Len(items))
      PROVE  Contents(s)[i] = (Contents(b) \o items)[i]
  <2>1. Contents(s)[i] = s.data[b.read + (i - 1)]
    BY <1>2, <1>5, <1>6, ContentsSeq
  <2>2. b.read + (i - 1) \in 0..(b.size - 1)
    BY <1>n, <1>1, SMTT(60) DEF Readable, Writeable
  <2>3. (Contents(b) \o items)[i]
          = IF i <= Readable(b) THEN Contents(b)[i] ELSE items[i - Readable(b)]
    BY ContentsSeq, ConcatProperties
  <2>4. CASE i <= Readable(b)
    <3>1. s.data[b.read + (i - 1)] = b.data[b.read + (i - 1)]
      <4>1. b.read + (i - 1) < b.write
        BY <1>n, <2>4 DEF Readable
      <4> QED
        BY <1>n, <1>3, <2>2, <4>1
    <3> QED
      BY <1>8, <2>1, <2>3, <2>4, <3>1, ContentsSeq
  <2>5. CASE i > Readable(b)
    <3> DEFINE k == b.read + (i - 1)
    <3>1. b.write <= k /\ k < b.write + Len(items)
      BY <1>n, <1>1, <2>5 DEF Readable
    <3>2. k - b.write + 1 = i - Readable(b)
      BY <1>n DEF Readable
    <3> HIDE DEF k
    <3>3. s.data[k] = items[k - b.write + 1]
      BY <1>3, <2>2, <3>1 DEF k
    <3>4. ~(i <= Readable(b))
      BY <1>8, <2>5
    <3> QED
      BY <2>1, <2>3, <3>2, <3>3, <3>4 DEF k
  <2>6. i <= Readable(b) \/ i > Readable(b)
    BY <1>1, <1>8
  <2> QED
    BY <2>4, <2>5, <2>6
<1>10. Contents(s) \in Seq(Byte) /\ Len(Contents(s)) = Readable(b) + Len(items)
  BY <1>5, <1>6, ContentsSeq
<1>11. /\ Contents(b) \o items \in Seq(Byte)
       /\ Len(Contents(b) \o items) = Readable(b) + Len(items)
  BY ContentsSeq, ConcatProperties
<1>12. Contents(s) = Contents(b) \o items
  BY <1>9, <1>10, <1>11, SeqEqual
<1> QED
  BY <1>2, <1>5, <1>6, <1>7, <1>12 DEF s

\* Append appends, whatever EnsureWritableBytes had to do for it.
LEMMA AppendedAppends ==
  ASSUME NEW b, IsBuffer(b), NEW items \in Seq(Byte)
  PROVE  /\ IsBuffer(Appended(b, items))
         /\ Readable(Appended(b, items)) = Readable(b) + Len(items)
         /\ Contents(Appended(b, items)) = Contents(b) \o items
         /\ Appended(b, items).size > b.size
              => PrependSize + Readable(b) + Len(items) > b.size
<1> DEFINE r == EnsureWritableBytes(b, Len(items))
<1>1. Len(items) \in Nat
  BY LenProperties
<1>2. /\ IsBuffer(r)
      /\ Writeable(r) >= Len(items)
      /\ Readable(r) = Readable(b)
      /\ Contents(r) = Contents(b)
      /\ r.size > b.size => PrependSize + Readable(b) + Len(items) > b.size
  BY <1>1, Room
<1>3. Appended(b, items) = Stored(r, items)
  BY DEF Appended
<1> HIDE DEF r
<1>4. Len(items) <= Writeable(r)
  BY <1>1, <1>2 DEF IsBuffer, Writeable
<1>5. /\ IsBuffer(Stored(r, items))
      /\ Stored(r, items).size = r.size
      /\ Readable(Stored(r, items)) = Readable(r) + Len(items)
      /\ Contents(Stored(r, items)) = Contents(r) \o items
  BY <1>2, <1>4, StoredAppends
<1> QED
  BY <1>2, <1>3, <1>5

\* So does the scattered read of HandleRead, although its two parts take
\* different ways into the buffer.
LEMMA ReadAheadAppends ==
  ASSUME NEW b, IsBuffer(b), NEW items \in Seq(Byte)
  PROVE  /\ IsBuffer(ReadAhead(b, items))
         /\ Readable(ReadAhead(b, items)) = Readable(b) + Len(items)
         /\ Contents(ReadAhead(b, items)) = Contents(b) \o items
         /\ ReadAhead(b, items).size > b.size
              => PrependSize + Readable(b) + Len(items) > b.size
<1>1. Len(items) \in Nat
  BY LenProperties
<1>2. Writeable(b) \in Nat /\ Readable(b) \in Nat /\ b.size \in Nat
  BY DEF IsBuffer, Writeable, Readable
<1>3. CASE Len(items) <= Writeable(b)
  <2>1. ReadAhead(b, items) = Stored(b, items)
    BY <1>3 DEF ReadAhead
  <2>2. /\ IsBuffer(Stored(b, items))
        /\ Stored(b, items).size = b.size
        /\ Readable(Stored(b, items)) = Readable(b) + Len(items)
        /\ Contents(Stored(b, items)) = Contents(b) \o items
    BY <1>3, StoredAppends
  <2> QED
    BY <1>2, <2>1, <2>2
<1>4. CASE Len(items) > Writeable(b)
  <2> DEFINE w == Writeable(b)
             s1 == SubSeq(items, 1, w)
             s2 == SubSeq(items, w + 1, Len(items))
             m == Stored(b, s1)
  <2>1. s1 \in Seq(Byte) /\ Len(s1) = w
    <3>1. \A i \in 1..w : items[i] \in Byte
      BY <1>1, <1>2, <1>4, ElementOfSeq
    <3> QED
      BY <1>2, <3>1, SubSeqProperties
  <2>2. s2 \in Seq(Byte) /\ Len(s2) = Len(items) - w
    <3>1. \A i \in (w + 1)..Len(items) : items[i] \in Byte
      BY <1>1, <1>2, <1>4, ElementOfSeq
    <3> QED
      BY <1>1, <1>2, <1>4, <3>1, SubSeqProperties
  <2>3. s1 \o s2 = items
    <3>1. 1 \in 1..(Len(items) + 1) /\ w \in (1 - 1)..Len(items)
          /\ Len(items) \in w..Len(items)
      BY <1>1, <1>2, <1>4
    <3>2. s1 \o s2 = SubSeq(items, 1, Len(items))
      BY <3>1, ConcatAdjacentSubSeq
    <3> QED
      BY <3>2, SubSeqFull
  <2>4. ReadAhead(b, items) = Appended(m, s2)
    BY <1>1, <1>2, <1>4 DEF ReadAhead
  <2> HIDE DEF s1, s2, m
  <2>5. /\ IsBuffer(m)
        /\ m.size = b.size
        /\ Readable(m) = Readable(b) + w
        /\ Contents(m) = Contents(b) \o s1
    BY <1>2, <2>1, StoredAppends, SMTT(60) DEF m
  <2>6. /\ IsBuffer(Appended(m, s2))
        /\ Readable(Appended(m, s2)) = Readable(m) + Len(s2)
        /\ Contents(Appended(m, s2)) = Contents(m) \o s2
        /\ Appended(m, s2).size > m.size
             => PrependSize + Readable(m) + Len(s2) > m.size
    BY <2>2, <2>5, AppendedAppends
  <2>7. (Contents(b) \o s1) \o s2 = Contents(b) \o items
    <3> DEFINE c == Contents(b)
    <3>1. c \in Seq(Byte)
      BY ContentsSeq
    <3>2. s1 \in Seq(Byte)
      BY <2>1
    <3>3. s2 \in Seq(Byte)
      BY <2>2
    <3> HIDE DEF c
    <3>4. (c \o s1) \o s2 = c \o (s1 \o s2)
      BY <3>1, <3>2, <3>3, ConcatAssociative, SMTT(60)
    <3> QED
      BY <2>3, <3>4 DEF c
  <2>8. Readable(m) + Len(s2) = Readable(b) + Len(items)
    BY <1>1, <1>2, <2>2, <2>5
  <2>9. PrependSize + Readable(m) + Len(s2) = PrependSize + Readable(b) + Len(items)
    BY <1>1, <1>2, <2>2, <2>5, SizeAssumption
  <2> QED
    BY <2>4, <2>5, <2>6, <2>7, <2>8, <2>9
<1> QED
  BY <1>1, <1>2, <1>3, <1>4

\* A header goes before the readable bytes.
LEMMA PrependedPushes ==
  ASSUME NEW b, IsBuffer(b), NEW items \in Seq(Byte), Len(items) <= b.read
  PROVE  /\ IsBuffer(Prepended(b, items))
         /\ Contents(Prepended(b, items)) = items \o Contents(b)
<1> DEFINE s == Prepended(b, items)
<1>n. /\ b.size \in Nat /\ b.read \in Nat /\ b.write \in Nat
      /\ b.read <= b.write /\ b.write <= b.size
      /\ PrependSize <= b.size /\ PrependSize \in Nat
  BY SizeAssumption DEF IsBuffer
<1>d. b.data \in [0..(b.size - 1) -> Byte]
  BY DEF IsBuffer
<1>1. Len(items) \in Nat /\ items \in [1..Len(items) -> Byte]
  BY LenProperties
<1>2. s.size = b.size /\ s.read = b.read - Len(items) /\ s.write = b.write
  BY DEF Prepended
<1>3. s.data = [i \in 0..(b.size - 1) |->
                  IF b.read - Len(items) <= i /\ i < b.read
                  THEN items[i - b.read + Len(items) + 1]
                  ELSE b.data[i]]
  BY DEF Prepended
<1> HIDE DEF s
<1>4. s.data \in [0..(b.size - 1) -> Byte]
  <2>1. ASSUME NEW i \in 0..(b.size - 1), b.read - Len(items) <= i, i < b.read
        PROVE  items[i - b.read + Len(items) + 1] \in Byte
    <3>1. i - b.read + Len(items) + 1 \in 1..Len(items)
      BY <1>n, <1>1, <2>1
    <3> QED
      BY <1>1, <3>1
  <2> QED
    BY <1>d, <1>3, <2>1
<1>5. IsBuffer(s)
  BY <1>n, <1>1, <1>2, <1>4 DEF IsBuffer
<1>6. Readable(s) = Len(items) + Readable(b)
  BY <1>n, <1>1, <1>2 DEF Readable
<1>7. Readable(b) \in Nat
  BY <1>n DEF Readable
<1>8. Contents(b) \in Seq(Byte) /\ Len(Contents(b)) = Readable(b)
      /\ \A i \in 1..Readable(b) : Contents(b)[i] = b.data[b.read + (i - 1)]
  BY ContentsSeq
<1>9. ASSUME NEW i \in 1..(Len(items) + Readable(b))
      PROVE  Contents(s)[i] = (items \o Contents(b))[i]
  <2> DEFINE k == s.read + (i - 1)
  <2>1. Contents(s)[i] = s.data[k]
    BY <1>5, <1>6, ContentsSeq
  <2>2. k \in 0..(b.size - 1)
    <3>1. k = (b.read - Len(items)) + (i - 1)
      BY <1>2
    <3>2. i \in Nat /\ 1 <= i /\ i <= Len(items) + (b.write - b.read)
      BY <1>1, <1>7 DEF Readable
    <3> HIDE DEF k
    <3> QED
      BY <1>n, <1>1, <3>1, <3>2, SMTT(60)
  <2>3. (items \o Contents(b))[i]
          = IF i <= Len(items) THEN items[i] ELSE Contents(b)[i - Len(items)]
    BY <1>8, ConcatProperties
  <2>4. CASE i <= Len(items)
    <3>1. b.read - Len(items) <= k /\ k < b.read
      BY <1>n, <1>1, <1>2, <2>4
    <3>2. k - b.read + Len(items) + 1 = i
      BY <1>n, <1>1, <1>2
    <3> HIDE DEF k
    <3>3. s.data[k] = items[k - b.read + Len(items) + 1]
      BY <1>3, <2>2, <3>1
    <3> QED
      BY <2>1, <2>3, <2>4, <3>2, <3>3
  <2>5. CASE i > Len(items)
    <3>1. ~(k < b.read)
      BY <1>n, <1>1, <1>2, <2>5
    <3>2. k = b.read + ((i - Len(items)) - 1) /\ i - Len(items) \in 1..Readable(b)
      BY <1>n, <1>1, <1>2, <1>7, <2>5
    <3> HIDE DEF k
    <3>3. s.data[k] = b.data[k]
      BY <1>3, <2>2, <3>1
    <3>4. Contents(b)[i - Len(items)] = b.data[k]
      BY <1>8, <3>2
    <3>5. ~(i <= Len(items))
      BY <1>1, <2>5
    <3> QED
      BY <2>1, <2>3, <3>3, <3>4, <3>5
  <2>6. i <= Len(items) \/ i > Len(items)
    BY <1>1, <1>7
  <2> QED
    BY <2>4, <2>5, <2>6
<1>10. Contents(s) \in Seq(Byte) /\ Len(Contents(s)) = Len(items) + Readable(b)
  BY <1>5, <1>6, ContentsSeq
<1>11. /\ items \o Contents(b) \in Seq(Byte)
       /\ Len(items \o Contents(b)) = Len(items) + Readable(b)
  <2> DEFINE c == Contents(b)
  <2>1. c \in Seq(Byte) /\ Len(c) = Readable(b)
    BY <1>8
  <2>2. items \in Seq(Byte)
    OBVIOUS
  <2> HIDE DEF c
  <2>3. items \o c \in Seq(Byte) /\ Len(items \o c) = Len(items) + Len(c)
    BY <2>1, <2>2, ConcatProperties, Zenon
  <2>4. items \o c \in Seq(Byte) /\ Len(items \o c) = Len(items) + Readable(b)
    BY <2>1, <2>3
  <2> QED
    BY <2>4 DEF c
<1>12. Contents(s) = items \o Contents(b)
  BY <1>9, <1>10, <1>11, SeqEqual
<1> QED
  BY <1>5, <1>12 DEF s

----------------------------------------------------------------------------
\* Draining

\* Refresh leaves nothing to read.
LEMMA RefreshedEmpties ==
  ASSUME NEW b, IsBuffer(b)
  PROVE  /\ IsBuffer(Refreshed(b))
         /\ Contents(Refreshed(b)) = <<>>
<1>1. /\ Refreshed(b).data = b.data /\ Refreshed(b).size = b.size
      /\ Refreshed(b).read = PrependSize /\ Refreshed(b).write = PrependSize
  BY DEF Refreshed
<1>2. IsBuffer(Refreshed(b)) /\ Readable(Refreshed(b)) = 0
  BY <1>1, SizeAssumption DEF IsBuffer, Readable
<1> QED
  BY <1>2, ContentsSeq, EmptySeq

\* Retrieve drops from the front; all that is left is dropped by Refresh.
LEMMA RetrievedDrains ==
  ASSUME NEW b, IsBuffer(b), NEW len \in 0..Readable(b)
  PROVE  /\ IsBuffer(Retrieved(b, len))
         /\ Contents(Retrieved(b, len))
              = SubSeq(Contents(b), len + 1, Len(Contents(b)))
<1>1. Readable(b) \in Nat /\ len \in Nat /\ len <= Readable(b)
  BY DEF IsBuffer, Readable
<1>2. /\ Contents(b) \in Seq(Byte) /\ Len(Contents(b)) = Readable(b)
      /\ \A i \in 1..Readable(b) : Contents(b)[i] = b.data[b.read + (i - 1)]
  BY ContentsSeq
<1>3. CASE len < Readable(b)
  <2> DEFINE s == Retrieved(b, len)
             t == SubSeq(Contents(b), len + 1, Readable(b))
  <2>1. s.data = b.data /\ s.size = b.size /\ s.read = b.read + len
        /\ s.write = b.write
    BY <1>3 DEF Retrieved
  <2> HIDE DEF s
  <2>2. IsBuffer(s) /\ Readable(s) = Readable(b) - len
    <3>1. /\ b.size \in Nat /\ b.read \in Nat /\ b.write \in Nat
          /\ b.data \in [0..(b.size - 1) -> Byte]
          /\ PrependSize <= b.size
          /\ b.read <= b.write /\ b.write <= b.size
      BY DEF IsBuffer
    <3>2. b.read + len \in Nat /\ b.read + len <= b.write
      BY <1>1, <3>1 DEF Readable
    <3>3. IsBuffer(s)
      BY <2>1, <3>1, <3>2 DEF IsBuffer
    <3>4. b.write - (b.read + len) = (b.write - b.read) - len
      BY <1>1, <3>1
    <3> QED
      BY <2>1, <3>3, <3>4 DEF Readable
  <2>3. /\ t \in Seq(Byte) /\ Len(t) = Readable(b) - len
        /\ \A i \in 1..(Readable(b) - len) : t[i] = Contents(b)[len + i]
    <3>1. \A i \in (len + 1)..Readable(b) : Contents(b)[i] \in Byte
      BY <1>1, <1>2, ElementOfSeq
    <3>2. /\ t \in Seq(Byte)
          /\ Len(t) = IF len + 1 <= Readable(b) THEN Readable(b) - (len + 1) + 1 ELSE 0
          /\ \A i \in 1..(Readable(b) - (len + 1) + 1) :
               t[i] = Contents(b)[(len + 1) + i - 1]
      BY <1>1, <3>1, SubSeqProperties
    <3> HIDE DEF t
    <3>3. Readable(b) - (len + 1) + 1 = Readable(b) - len
          /\ len + 1 <= Readable(b)
      BY <1>1, <1>3
    <3>4. ASSUME NEW i \in 1..(Readable(b) - len)
          PROVE  (len + 1) + i - 1 = len + i
      BY <1>1
    <3> QED
      BY <3>2, <3>3, <3>4
  <2> HIDE DEF t
  <2>4. Contents(s) \in Seq(Byte) /\ Len(Contents(s)) = Readable(b) - len
        /\ \A i \in 1..(Readable(b) - len) :
             Contents(s)[i] = b.data[s.read + (i - 1)]
    BY <2>1, <2>2, ContentsSeq
  <2>5. ASSUME NEW i \in 1..(Readable(b) - len)
        PROVE  Contents(s)[i] = t[i]
    <3>1. s.read + (i - 1) = b.read + ((len + i) - 1) /\ len + i \in 1..Readable(b)
      BY <1>1, <2>1 DEF IsBuffer
    <3> QED
      BY <1>2, <2>3, <2>4, <3>1
  <2>6. Contents(s) = t
    BY <2>3, <2>4, <2>5, SeqEqual
  <2> QED
    BY <1>2, <2>2, <2>6 DEF s, t
<1>4. CASE ~(len < Readable(b))
  <2>1. Retrieved(b, len) = Refreshed(b)
    BY <1>4 DEF Retrieved
  <2>2. SubSeq(Contents(b), len + 1, Len(Contents(b))) = <<>>
    BY <1>1, <1>2, <1>4, SubSeqEmpty
  <2> QED
    BY <2>1, <2>2, RefreshedEmpties
<1> QED
  BY <1>3, <1>4

----------------------------------------------------------------------------
\* The steps

\* What any step does: it fills, pushes or drains, and grows only if it must.
LEMMA StepEffect ==
  ASSUME IsBuffer(buf), Next
  PROVE  /\ IsBuffer(buf')
         /\ \/ \E items \in Bytes : Contents(buf') = Contents(buf) \o items
            \/ \E items \in Bytes : Contents(buf') = items \o Contents(buf)
            \/ \E n \in 0..Len(Contents(buf)) :
                 Contents(buf') = SubSeq(Contents(buf), n + 1, Len(Contents(buf)))
         /\ buf'.size > buf.size => PrependSize + Readable(buf') > buf.size
         /\ buf'.size = buf.size \/ WithinBound
<1>n. buf.size \in Nat /\ Readable(buf) \in Nat /\ PrependSize \in Nat
  BY SizeAssumption DEF IsBuffer, Readable
<1>1. ASSUME NEW items \in Bytes, AppendData(items)
      PROVE  /\ IsBuffer(buf')
             /\ Contents(buf') = Contents(buf) \o items
             /\ buf'.size > buf.size => PrependSize + Readable(buf') > buf.size
  <2>1. items \in Seq(Byte) /\ Len(items) \in Nat
    BY BytesSeq, LenProperties
  <2>2. buf' = Appended(buf, items)
    BY <1>1 DEF AppendData
  <2>3. /\ IsBuffer(buf')
        /\ Readable(buf') = Readable(buf) + Len(items)
        /\ Contents(buf') = Contents(buf) \o items
        /\ buf'.size > buf.size => PrependSize + Readable(buf) + Len(items) > buf.size
    BY <2>1, <2>2, AppendedAppends
  <2>4. PrependSize + Readable(buf) + Len(items)
          = PrependSize + (Readable(buf) + Len(items))
    BY <1>n, <2>1
  <2> QED
    BY <2>3, <2>4
<1>2. ASSUME NEW items \in Bytes, ReadV(items)
      PROVE  /\ IsBuffer(buf')
             /\ Contents(buf') = Contents(buf) \o items
             /\ buf'.size > buf.size => PrependSize + Readable(buf') > buf.size
  <2>1. items \in Seq(Byte) /\ Len(items) \in Nat
    BY BytesSeq, LenProperties
  <2>2. buf' = ReadAhead(buf, items)
    BY <1>2 DEF ReadV
  <2>3. /\ IsBuffer(buf')
        /\ Readable(buf') = Readable(buf) + Len(items)
        /\ Contents(buf') = Contents(buf) \o items
        /\ buf'.size > buf.size => PrependSize + Readable(buf) + Len(items) > buf.size
    BY <2>1, <2>2, ReadAheadAppends
  <2>4. PrependSize + Readable(buf) + Len(items)
          = PrependSize + (Readable(buf) + Len(items))
    BY <1>n, <2>1
  <2> QED
    BY <2>3, <2>4
<1>3. ASSUME NEW items \in Bytes, Prepend(items)
      PROVE  /\ IsBuffer(buf')
             /\ Contents(buf') = items \o Contents(buf)
             /\ buf'.size = buf.size
  <2>1. items \in Seq(Byte)
    BY BytesSeq
  <2>2. buf' = Prepended(buf, items) /\ Len(items) <= buf.read
    BY <1>3 DEF Prepend
  <2>3. IsBuffer(buf') /\ Contents(buf') = items \o Contents(buf)
    BY <2>1, <2>2, PrependedPushes
  <2> QED
    BY <2>2, <2>3 DEF Prepended
<1>4. ASSUME NEW len \in 0..MaxSize, Retrieve(len)
      PROVE  /\ IsBuffer(buf')
             /\ len \in 0..Len(Contents(buf))
             /\ Contents(buf') = SubSeq(Contents(buf), len + 1, Len(Contents(buf)))
             /\ buf'.size = buf.size
  <2>1. buf' = Retrieved(buf, len) /\ len \in 0..Readable(buf)
    BY <1>n, <1>4, SizeAssumption DEF Retrieve
  <2>2. buf'.size = buf.size
    BY <2>1 DEF Retrieved, Refreshed
  <2> QED
    BY <2>1, <2>2, RetrievedDrains, ContentsSeq
<1>5. ASSUME Refresh
      PROVE  /\ IsBuffer(buf')
             /\ Len(Contents(buf)) \in 0..Len(Contents(buf))
             /\ Contents(buf') = SubSeq(Contents(buf), Len(Contents(buf)) + 1,
                                        Len(Contents(buf)))
             /\ buf'.size = buf.size
  <2>1. buf' = Refreshed(buf)
    BY <1>5 DEF Refresh
  <2>2. IsBuffer(buf') /\ Contents(buf') = <<>>
    BY <2>1, RefreshedEmpties
  <2>3. Len(Contents(buf)) \in Nat
    BY <1>n, ContentsSeq
  <2>4. SubSeq(Contents(buf), Len(Contents(buf)) + 1, Len(Contents(buf))) = <<>>
    BY <2>3, SubSeqEmpty
  <2>5. buf'.size = buf.size
    BY <2>1 DEF Refreshed
  <2> QED
    BY <2>2, <2>3, <2>4, <2>5
<1>6. \/ \E items \in Bytes : AppendData(items) \/ ReadV(items) \/ Prepend(items)
      \/ \E len \in 0..MaxSize : Retrieve(len)
      \/ Refresh
  BY DEF Next
<1>b. \A items \in Bytes : AppendData(items) \/ ReadV(items) => WithinBound
  BY DEF AppendData, ReadV
<1>7. buf'.size = buf.size => ~(buf'.size > buf.size)
  BY <1>n
<1> QED
  BY <1>1, <1>2, <1>3, <1>4, <1>5, <1>6, <1>7, <1>b

\* The type invariant of IoBuf is inductive: whatever is appended, read ahead,
\* prepended and retrieved, the indices stay in order and inside the vector.
THEOREM TypeCorrect == Spec => []TypeOK
<1>1. Init => TypeOK
  BY ByteAssumption, SizeAssumption DEF Init, TypeOK
<1>2. TypeOK /\ [Next]_buf => TypeOK'
  <2> SUFFICES ASSUME TypeOK, [Next]_buf
               PROVE  TypeOK'
    OBVIOUS
  <2>1. IsBuffer(buf) /\ buf.size \in 0..MaxSize
    BY DEF TypeOK, IsBuffer
  <2>2. CASE Next
    <3>1. IsBuffer(buf')
      BY <2>1, <2>2, StepEffect
    <3>2. buf'.size <= MaxSize
      BY <2>1, <2>2, StepEffect, SizeAssumption DEF WithinBound
    <3> QED
      BY <3>1, <3>2, SizeAssumption DEF IsBuffer, TypeOK
  <2>3. CASE UNCHANGED buf
    BY <2>3 DEF TypeOK
  <2> QED
    BY <2>2, <2>3
<1> QED
  BY <1>1, <1>2, PTL DEF Spec

\* A well-formed buffer meets the assertions of MakeSpace and Append, however
\* much is to be appended: so no assertion of iobuf.cc ever fails.
THEOREM NoAssertFails == Spec => []AssertsHold
<1>1. TypeOK => AssertsHold
  <2> SUFFICES ASSUME TypeOK, NEW len \in 0..MaxLen
               PROVE  LET room == EnsureWritableBytes(buf, len) IN
                      /\ Writeable(buf) < len /\ ~MustGrow(buf, len)
                           => PrependSize < buf.read
                      /\ Readable(room) = Readable(buf)
                      /\ Writeable(room) >= len
    BY DEF AssertsHold
  <2>1. IsBuffer(buf) /\ len \in Nat
    BY SizeAssumption DEF TypeOK, IsBuffer
  <2>2. Writeable(buf) < len /\ ~MustGrow(buf, len) => PrependSize < buf.read
    BY <2>1, SizeAssumption DEF IsBuffer, Writeable, MustGrow
  <2> QED
    BY <2>1, <2>2, Room
<1> QED
  BY <1>1, TypeCorrect, PTL

\* The vector never grows while the bytes and the header's room fit into it.
THEOREM NoNeedlessGrowth == Spec => GrowsOnlyWhenFull
<1>1. TypeOK /\ [Next]_buf
        => [buf'.size > buf.size => PrependSize + Readable(buf') > buf.size]_buf
  <2> SUFFICES ASSUME TypeOK, Next
               PROVE  buf'.size > buf.size => PrependSize + Readable(buf') > buf.size
    OBVIOUS
  <2>1. IsBuffer(buf)
    BY DEF TypeOK, IsBuffer
  <2> QED
    BY <2>1, StepEffect
<1> QED
  BY <1>1, TypeCorrect, PTL DEF Spec, GrowsOnlyWhenFull

\* The buffer implements ByteQueue: moving the bytes, letting the vector grow
\* and reading into two places at once lose, repeat and reorder nothing.
THEOREM Refinement == Spec => ImplementsByteQueue
<1>1. Init => Queue!Init
  <2> SUFFICES ASSUME Init
               PROVE  Contents(buf) = <<>>
    BY DEF Queue!Init
  <2>1. IsBuffer(buf) /\ Readable(buf) = 0
    BY ByteAssumption, SizeAssumption DEF Init, IsBuffer, Readable
  <2> QED
    BY <2>1, ContentsSeq, EmptySeq
<1>2. TypeOK /\ [Next]_buf => [Queue!Next]_(Contents(buf))
  <2> SUFFICES ASSUME TypeOK, [Next]_buf
               PROVE  Queue!Next \/ UNCHANGED Contents(buf)
    OBVIOUS
  <2>1. IsBuffer(buf)
    BY DEF TypeOK, IsBuffer
  <2>2. CASE Next
    <3> DEFINE c == Contents(buf)
               d == Contents(buf')
    <3>1. \/ \E items \in Bytes : d = c \o items
          \/ \E items \in Bytes : d = items \o c
          \/ \E n \in 0..Len(c) : d = SubSeq(c, n + 1, Len(c))
      BY <2>1, <2>2, StepEffect
    <3>2. Queue!Chunk = Bytes
      BY DEF Queue!Chunk, Bytes
    <3>3. d = c'
      BY DEF Contents, Readable
    <3> QED
      BY <3>1, <3>2, <3>3 DEF Queue!Next, Queue!Fill, Queue!Push, Queue!Drain
  <2>3. CASE UNCHANGED buf
    BY <2>3 DEF Contents, Readable
  <2> QED
    BY <2>2, <2>3
<1> QED
  BY <1>1, <1>2, TypeCorrect, PTL DEF Spec, ImplementsByteQueue, Queue!Spec
====
