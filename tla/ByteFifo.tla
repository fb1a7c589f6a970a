------------------------------ MODULE ByteFifo ------------------------------
(***************************************************************************)
(* What the users of a CircularBuffer rely on: a first-in first-out queue  *)
(* of at most Bound bytes.  seen is what the last read or peek handed out. *)
(***************************************************************************)
EXTENDS Integers, Sequences

CONSTANTS Chunk,    \* the byte sequences that are ever appended
          Bound

VARIABLES queue, seen

Init == queue = <<>> /\ seen = <<>>

(* Bytes are appended whole or not at all.                                 *)
Put(data) ==
  /\ Len(queue) + Len(data) <= Bound
  /\ queue' = queue \o data
  /\ UNCHANGED seen

(* The n oldest bytes are handed out, and leave the queue when taken.      *)
Look(n) ==
  /\ n <= Len(queue)
  /\ seen' = SubSeq(queue, 1, n)
  /\ UNCHANGED queue

Take(n) ==
  /\ n <= Len(queue)
  /\ seen' = SubSeq(queue, 1, n)
  /\ queue' = SubSeq(queue, n + 1, Len(queue))

Drop(n) ==
  /\ n <= Len(queue)
  /\ queue' = SubSeq(queue, n + 1, Len(queue))
  /\ UNCHANGED seen

Next ==
  \/ \E data \in Chunk : Put(data)
  \/ \E n \in 0 .. Bound : Look(n) \/ Take(n) \/ Drop(n)

Spec == Init /\ [][Next]_<<queue, seen>>
=============================================================================
