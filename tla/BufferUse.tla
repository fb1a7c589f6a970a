----------------------------- MODULE BufferUse ------------------------------
(***************************************************************************)
(* One CircularBuffer and every way the program uses it: PostSend writes   *)
(* packets into it, SendCompletion removes what was sent, PostRecv and     *)
(* RecvCompletion let the kernel fill its free space and commit the bytes, *)
(* OnRead peeks at headers and reads packets.  Each buffer is used by one  *)
(* thread at a time (under mSendBufferLock, or by the one completion of    *)
(* the session's receive chain), so each use is one step.  The names     *)
(* UseInit, UseNext, ... are its own, so that proofs about a session can   *)
(* extend the proofs about this module.                                    *)
(***************************************************************************)
EXTENDS CircularBuffer

CONSTANT Chunk       \* the byte sequences that are written or received

ASSUME ChunkAssumption == Chunk \subseteq Seq(Byte)

VARIABLES buf,       \* the object
          seen       \* what the last Peek or Read copied out

useVars == <<buf, seen>>

UseInit == (\E m \in Memory : buf = New(m)) /\ seen = <<>>

WriteStep(data) ==
  /\ buf' = Write(buf, data)
  /\ UNCHANGED seen

(* A receive: the kernel is given the free space behind GetBuffer, fills   *)
(* it with data, and the completion commits Len(data) bytes.  Both callers *)
(* ask for the free space first and give up when there is none.            *)
ReceiveStep(data) ==
  LET s == SwitchRegion(buf)
  IN  /\ Len(data) <= GetFreeSpaceSize(buf)
      /\ buf' = Commit(Store(s, GetBuffer(s), data), Len(data))
      /\ UNCHANGED seen

PeekStep(n) ==
  /\ n <= GetStoredSize(buf)
  /\ seen' = Peek(buf, n)
  /\ UNCHANGED buf

ReadStep(n) ==
  /\ buf' = Read(buf, n)
  /\ seen' = IF n <= GetStoredSize(buf) THEN Peek(buf, n) ELSE seen

RemoveStep(n) ==
  /\ buf' = Remove(buf, n)
  /\ UNCHANGED seen

UseNext ==
  \/ \E data \in Chunk : WriteStep(data) \/ ReceiveStep(data)
  \/ \E n \in 0 .. Capacity : PeekStep(n) \/ ReadStep(n) \/ RemoveStep(n)

UseSpec == UseInit /\ [][UseNext]_useVars

-----------------------------------------------------------------------------
(* Properties.                                                             *)

UseTypeOK == buf \in Object /\ seen \in Seq(Byte)

(* The two regions of the object never overlap, never leave the memory and *)
(* B is only ever in front of A (Layout), after any sequence of Write,     *)
(* Commit, Read and Remove calls.                                          *)
RegionsApart == Layout(buf)

(* Fragmentation never costs more than half of the memory: a packet is     *)
(* accepted by Write, and PostRecv finds free space, as long as what is    *)
(* stored together with it fills at most half of the capacity, wherever    *)
(* earlier calls have left the two regions.                                *)
HalfIsUsable ==
  \A n \in 1 .. Capacity :
     2 * (GetStoredSize(buf) + n) <= Capacity + 1 => WriteOk(buf, n)

(* The buffer implements a queue: bytes come out of Peek, Read and Remove  *)
(* in the order in which Write and Commit put them in, none lost, none     *)
(* repeated, across every switch between the regions and every memmove.    *)
Fifo == INSTANCE ByteFifo WITH queue <- Contents(buf), Bound <- Capacity
IsFifo == Fifo!Spec
=============================================================================
