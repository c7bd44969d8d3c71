---- MODULE IoBuf ----
(***************************************************************************)
(* The byte buffer of a connection: IoBuf (tohka/iobuf.cc, iobuf.h) and    *)
(* the scattered read of TcpEvent::HandleRead (tohka/tcpevent.cc) that     *)
(* fills it behind its back.                                               *)
(*                                                                         *)
(* The readable bytes lie between two indices of a vector.  The room in    *)
(* front of them is kept for headers; an append that finds no room behind  *)
(* them moves them to the front, or lets the vector grow.  Every operator  *)
(* maps a buffer to the buffer the member function leaves.                 *)
(***************************************************************************)
EXTENDS Integers, Sequences

CONSTANTS
  Byte,          \* the values of a char
  Zero,          \* the one vector::resize fills with
  PrependSize,   \* kPrependSize
  InitSize,      \* size of a new buffer
  ExtSize,       \* sizeof ext_buf in HandleRead
  MaxLen,        \* bound: bytes in one call
  MaxSize        \* bound: size of the vector

ASSUME ByteAssumption == Zero \in Byte
ASSUME SizeAssumption ==
  /\ {PrependSize, InitSize, ExtSize, MaxLen, MaxSize} \subseteq Nat
  /\ PrependSize <= InitSize /\ InitSize <= MaxSize

VARIABLE buf    \* data_, data_.size(), read_index_ and write_index_

Bytes == UNION {[1..n -> Byte] : n \in 0..MaxLen}

Readable(b) == b.write - b.read
Writeable(b) == b.size - b.write

Init == buf = [data |-> [i \in 0..(InitSize - 1) |-> Zero], size |-> InitSize,
               read |-> PrependSize, write |-> PrependSize]

----------------------------------------------------------------------------
\* Making room

\* Mutant: the vector keeps its size.
Unresized(b, size) == b

Resized(b, size) ==
  [data |-> [i \in 0..(size - 1) |-> IF i < b.size THEN b.data[i] ELSE Zero],
   size |-> size, read |-> b.read, write |-> b.write]

\* Mutant: the bytes are taken from where they will be.
CompactedInPlace(b) ==
  [data |-> b.data, size |-> b.size,
   read |-> PrependSize, write |-> PrependSize + Readable(b)]

Compacted(b) ==
  [data |-> [i \in 0..(b.size - 1) |->
               IF PrependSize <= i /\ i < PrependSize + Readable(b)
               THEN b.data[b.read + (i - PrependSize)]
               ELSE b.data[i]],
   size |-> b.size, read |-> PrependSize, write |-> PrependSize + Readable(b)]

\* Mutant: the room for headers counts as room for data.
TightMustGrow(b, len) == Writeable(b) + b.read < len

MustGrow(b, len) == Writeable(b) + b.read < len + PrependSize

EnsureWritableBytes(b, len) ==
  IF Writeable(b) >= len THEN b
  ELSE IF MustGrow(b, len) THEN Resized(b, len + b.write)
  ELSE Compacted(b)

----------------------------------------------------------------------------
\* Filling and draining

\* The copy to the write index.
Stored(b, items) ==
  [data |-> [i \in 0..(b.size - 1) |->
               IF b.write <= i /\ i < b.write + Len(items)
               THEN items[i - b.write + 1]
               ELSE b.data[i]],
   size |-> b.size, read |-> b.read, write |-> b.write + Len(items)]

Appended(b, items) == Stored(EnsureWritableBytes(b, Len(items)), items)

\* HandleRead reads into the room that is left and into a second buffer,
\* whose part is then appended.
ReadAhead(b, items) ==
  IF Len(items) <= Writeable(b) THEN Stored(b, items)
  ELSE Appended(Stored(b, SubSeq(items, 1, Writeable(b))),
                SubSeq(items, Writeable(b) + 1, Len(items)))

Prepended(b, items) ==
  [data |-> [i \in 0..(b.size - 1) |->
               IF b.read - Len(items) <= i /\ i < b.read
               THEN items[i - b.read + Len(items) + 1]
               ELSE b.data[i]],
   size |-> b.size, read |-> b.read - Len(items), write |-> b.write]

Refreshed(b) ==
  [data |-> b.data, size |-> b.size, read |-> PrependSize, write |-> PrependSize]

Retrieved(b, len) ==
  IF len < Readable(b)
  THEN [data |-> b.data, size |-> b.size, read |-> b.read + len, write |-> b.write]
  ELSE Refreshed(b)

----------------------------------------------------------------------------
\* The vector of the model is bounded.
WithinBound == buf'.size <= MaxSize

\* IoBuf::Append, from TcpEvent::Send.
AppendData(items) ==
  /\ buf' = Appended(buf, items)
  /\ WithinBound

\* readv(2) fills at most the two parts it is given.
ReadV(items) ==
  /\ Len(items) <= Writeable(buf) + (IF Writeable(buf) < ExtSize THEN ExtSize ELSE 0)
  /\ buf' = ReadAhead(buf, items)
  /\ WithinBound

\* The caller sees to the room, as the assertion demands.
Prepend(items) ==
  /\ Len(items) <= buf.read
  /\ buf' = Prepended(buf, items)

\* Retrieve, RetrieveUntil and both Read.
Retrieve(len) ==
  /\ len <= Readable(buf)
  /\ buf' = Retrieved(buf, len)

\* Refresh, and ReceiveAllAsString, which ends with it.
Refresh == buf' = Refreshed(buf)

Next ==
  \/ \E items \in Bytes : AppendData(items) \/ ReadV(items) \/ Prepend(items)
  \/ \E len \in 0..MaxSize : Retrieve(len)
  \/ Refresh

Spec == Init /\ [][Next]_buf

----------------------------------------------------------------------------
\* Properties

\* The indices are in order and in the vector, whose front has room for a
\* header: no copy of iobuf.cc reads or writes outside of it.
TypeOK ==
  /\ buf.size \in 0..MaxSize /\ buf.read \in Nat /\ buf.write \in Nat
  /\ buf.data \in [0..(buf.size - 1) -> Byte]
  /\ PrependSize <= buf.size
  /\ buf.read <= buf.write /\ buf.write <= buf.size

\* The assertions of MakeSpace and Append: bytes are only moved towards the
\* front, and afterwards there is room for what is to be appended.
AssertsHold ==
  \A len \in 0..MaxLen :
    LET room == EnsureWritableBytes(buf, len) IN
    /\ Writeable(buf) < len /\ ~MustGrow(buf, len) => PrependSize < buf.read
    /\ Readable(room) = Readable(buf)
    /\ Writeable(room) >= len

\* The vector grows only when its readable bytes, the new ones and the room
\* for a header do not fit into it.
GrowsOnlyWhenFull ==
  [][buf'.size > buf.size => PrependSize + Readable(buf') > buf.size]_buf

\* Whatever was appended, read ahead or prepended is read in order, nothing
\* is lost or read twice when the bytes are moved or the vector grows.
Contents(b) == [i \in 1..Readable(b) |-> b.data[b.read + (i - 1)]]

Queue == INSTANCE ByteQueue WITH queue <- Contents(buf)

ImplementsByteQueue == Queue!Spec
====
