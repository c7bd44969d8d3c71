---- MODULE ByteQueue ----
(***************************************************************************)
(* What a connection needs of a buffer: a queue of bytes that is filled at *)
(* the back, drained at the front, and may get a header put before it.     *)
(***************************************************************************)
EXTENDS Sequences, Naturals

CONSTANTS Byte, MaxLen

VARIABLE queue

Chunk == UNION {[1..n -> Byte] : n \in 0..MaxLen}

Init == queue = <<>>

Fill(items) == queue' = queue \o items
Push(items) == queue' = items \o queue
Drain(n) == queue' = SubSeq(queue, n + 1, Len(queue))

Next ==
  \/ \E items \in Chunk : Fill(items) \/ Push(items)
  \/ \E n \in 0..Len(queue) : Drain(n)

Spec == Init /\ [][Next]_queue
====
