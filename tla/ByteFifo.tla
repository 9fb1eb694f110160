------------------------------ MODULE ByteFifo ------------------------------
(***************************************************************************)
(* What a CircularBuffer promises to the code that fills it and drains it: *)
(* a bounded queue of bytes.  A write is appended whole, behind everything *)
(* that is stored; a removal drops the oldest bytes and touches no other.  *)
(***************************************************************************)
EXTENDS Integers, Sequences

CONSTANTS
  Chunk,                (* the byte sequences that are written at once *)
  Capacity              (* the number of bytes the queue may hold *)

VARIABLE queue

Init == queue = << >>

Write(bytes) ==
  /\ Len(queue) + Len(bytes) <= Capacity
  /\ queue' = queue \o bytes

\* A reset is the removal of every byte.
Remove(n) == queue' = SubSeq(queue, n + 1, Len(queue))

Next ==
  \/ \E bytes \in Chunk : Write(bytes)
  \/ \E n \in 0 .. Len(queue) : Remove(n)

Spec == Init /\ [][Next]_queue
=============================================================================
