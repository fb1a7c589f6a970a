--------------------------- MODULE CircularBuffer ---------------------------
(***************************************************************************)
(* The class CircularBuffer (GameLiftGameServer/CircularBuffer.h, .cpp;    *)
(* the same algorithm is in DummyClients, the Linux server and the Cocos   *)
(* client): a bip buffer of Capacity bytes.  Stored bytes live in region A *)
(* and, once there is more room in front of A than behind it, in a second  *)
(* region B that starts at the beginning of the memory.  Readers see A     *)
(* followed by B; writers append to B when it exists, to A otherwise.      *)
(*                                                                         *)
(* A buffer object is a record.  Pointers are offsets from mBuffer, and    *)
(* NULL is the null pointer.  A method that changes the object is an       *)
(* operator from the object to the object it leaves behind; its returned   *)
(* value, where the callers use it, is an operator of its own.             *)
(***************************************************************************)
EXTENDS Integers, Sequences

CONSTANTS Byte,      \* the values a byte of the buffer can hold
          Capacity   \* mCapacity

ASSUME CapacityAssumption == Capacity \in Nat \ {0}

NULL == -1

Memory == [0 .. Capacity - 1 -> Byte]

Object == [mBuffer         : Memory,
           mARegionPointer : 0 .. Capacity,
           mARegionSize    : 0 .. Capacity,
           mBRegionPointer : {NULL} \cup (0 .. Capacity),
           mBRegionSize    : 0 .. Capacity]

(* The constructor leaves the memory uninitialised: m is what it holds.    *)
New(m) == [mBuffer |-> m, mARegionPointer |-> 0, mARegionSize |-> 0,
           mBRegionPointer |-> NULL, mBRegionSize |-> 0]

-----------------------------------------------------------------------------
(* Sizes and positions.                                                    *)

GetAFreeSpace(b) == Capacity - b.mARegionPointer - b.mARegionSize

GetSpaceBeforeA(b) == b.mARegionPointer

(* Mutant: B may grow up to the end of the memory, over A.                 *)
GetBFreeSpaceToEnd(b) ==
  IF b.mBRegionPointer = NULL
  THEN 0
  ELSE Capacity - b.mBRegionPointer - b.mBRegionSize

GetBFreeSpace(b) ==
  IF b.mBRegionPointer = NULL
  THEN 0
  ELSE b.mARegionPointer - b.mBRegionPointer - b.mBRegionSize

GetStoredSize(b) == b.mARegionSize + b.mBRegionSize

GetContiguiousBytes(b) ==
  IF b.mARegionSize > 0 THEN b.mARegionSize ELSE b.mBRegionSize

(* Where the next byte is stored, and where the first stored byte is.      *)
GetBuffer(b) ==
  IF b.mBRegionPointer # NULL
  THEN b.mBRegionPointer + b.mBRegionSize
  ELSE b.mARegionPointer + b.mARegionSize

GetBufferStart(b) ==
  IF b.mARegionSize > 0 THEN b.mARegionPointer ELSE b.mBRegionPointer

-----------------------------------------------------------------------------
(* Storing bytes.                                                          *)

AllocateB(b) == [b EXCEPT !.mBRegionPointer = 0]

(* Mutant: B is opened in front of A although A still has more room.       *)
SwitchRegionEagerly(b) ==
  IF b.mBRegionPointer = NULL /\ GetSpaceBeforeA(b) > 0
  THEN AllocateB(b)
  ELSE b

(* What GetFreeSpaceSize and Write do to the object before they look at    *)
(* the room: open B when the space in front of A has become the larger.    *)
SwitchRegion(b) ==
  IF b.mBRegionPointer = NULL /\ GetAFreeSpace(b) < GetSpaceBeforeA(b)
  THEN AllocateB(b)
  ELSE b

(* The room in the region writers append to.                               *)
Room(b) ==
  IF b.mBRegionPointer # NULL THEN GetBFreeSpace(b) ELSE GetAFreeSpace(b)

(* GetFreeSpaceSize returns this and leaves SwitchRegion(b) behind.        *)
GetFreeSpaceSize(b) == Room(SwitchRegion(b))

Commit(b, len) ==
  IF b.mBRegionPointer # NULL
  THEN [b EXCEPT !.mBRegionSize = @ + len]
  ELSE [b EXCEPT !.mARegionSize = @ + len]

(* memcpy(mBuffer + at, data, Len(data)).                                  *)
Store(b, at, data) ==
  [b EXCEPT !.mBuffer =
     [k \in 0 .. Capacity - 1 |->
        IF at <= k /\ k < at + Len(data) THEN data[k - at + 1] ELSE @[k]]]

(* Write returns WriteOk and leaves Write(b, data) behind; a refused write *)
(* may still have opened B.                                                *)
WriteOk(b, bytes) == bytes <= Room(SwitchRegion(b))

Write(b, data) ==
  LET s == SwitchRegion(b)
  IN  IF Room(s) < Len(data)
      THEN s
      ELSE Commit(Store(s, GetBuffer(s), data), Len(data))

-----------------------------------------------------------------------------
(* Taking bytes out.                                                       *)

Smaller(m, n) == IF m < n THEN m ELSE n

(* The bytes Peek and Read copy out, when bytes <= GetStoredSize(b).       *)
Peek(b, bytes) ==
  LET aRead == Smaller(bytes, b.mARegionSize)
  IN  [i \in 1 .. bytes |->
         IF i <= aRead
         THEN b.mBuffer[b.mARegionPointer + i - 1]
         ELSE b.mBuffer[b.mBRegionPointer + i - aRead - 1]]

(* Advance over up to n bytes of A and then over the rest of them in B.    *)
Consume(b, n) ==
  LET a == Smaller(n, b.mARegionSize)
      c == Smaller(n - a, b.mBRegionSize)
  IN  [b EXCEPT !.mARegionSize = @ - a, !.mARegionPointer = @ + a,
                !.mBRegionSize = @ - c,
                !.mBRegionPointer = IF c > 0 THEN @ + c ELSE @]

(* Mutant: B becomes A where it is told to start, but is not moved there.  *)
PromoteBWithoutMove(b) ==
  IF b.mARegionSize > 0
  THEN b
  ELSE [b EXCEPT !.mARegionPointer = 0, !.mARegionSize = b.mBRegionSize,
                 !.mBRegionPointer = NULL, !.mBRegionSize = 0]

(* Once A is empty, B is moved to the start of the memory and becomes A.   *)
PromoteB(b) ==
  IF b.mARegionSize > 0
  THEN b
  ELSE [mBuffer |-> [k \in 0 .. Capacity - 1 |->
                       IF k < b.mBRegionSize
                       THEN b.mBuffer[b.mBRegionPointer + k]
                       ELSE b.mBuffer[k]],
        mARegionPointer |-> 0, mARegionSize |-> b.mBRegionSize,
        mBRegionPointer |-> NULL, mBRegionSize |-> 0]

Read(b, bytes) ==
  IF GetStoredSize(b) < bytes THEN b ELSE PromoteB(Consume(b, bytes))

Remove(b, len) == PromoteB(Consume(b, len))

-----------------------------------------------------------------------------
(* What the object is meant to hold, and its layout.                       *)

(* The stored bytes, first to be read first.                               *)
Contents(b) == Peek(b, GetStoredSize(b))

(* The layout every method relies on: both regions lie inside the memory,  *)
(* B ends before A starts, B exists only at the start of the memory and    *)
(* only in front of a non-empty A that has less room behind it than in     *)
(* front of it, and an empty buffer starts over at offset 0.               *)
Layout(b) ==
  /\ b.mARegionPointer + b.mARegionSize <= Capacity
  /\ b.mBRegionPointer \in {NULL, 0}
  /\ b.mBRegionPointer = NULL => b.mBRegionSize = 0
  /\ b.mBRegionPointer = 0 =>
       /\ b.mBRegionSize <= b.mARegionPointer
       /\ GetAFreeSpace(b) < GetSpaceBeforeA(b)
  /\ b.mARegionSize = 0 =>
       b.mBRegionPointer = NULL /\ b.mARegionPointer = 0
=============================================================================
