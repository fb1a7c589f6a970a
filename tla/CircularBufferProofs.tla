------------------------ MODULE CircularBufferProofs ------------------------
(***************************************************************************)
(* What the methods of CircularBuffer do, for every capacity and byte set: *)
(* each keeps an object of the right type and layout, and each does to the *)
(* stored bytes, first to be read first, what it does to a queue.  The     *)
(* proofs about Session rest on these lemmas, and so do those about        *)
(* BufferUse at the end.                                                   *)
(***************************************************************************)
EXTENDS BufferUse, SequenceTheorems, TLAPS

(* An object a method may be called on.                                    *)
Good(b) == b \in Object /\ Layout(b)

-----------------------------------------------------------------------------
(* The methods keep the object good.                                       *)

(* The constructor makes a good, empty object.                             *)
LEMMA NewGood == ASSUME NEW m \in Memory
                 PROVE  Good(New(m)) /\ GetStoredSize(New(m)) = 0
  BY CapacityAssumption
  DEF Good, New, Object, Layout, NULL, GetStoredSize

(* Opening B keeps the object good and neither the memory nor A changes.   *)
LEMMA SwitchGood ==
  ASSUME NEW b, Good(b)
  PROVE  LET s == SwitchRegion(b) IN
         /\ Good(s)
         /\ s.mBuffer = b.mBuffer
         /\ s.mARegionPointer = b.mARegionPointer
         /\ s.mARegionSize = b.mARegionSize
         /\ s.mBRegionSize = b.mBRegionSize
  BY CapacityAssumption
  DEF Good, SwitchRegion, AllocateB, Object, Layout, NULL, GetAFreeSpace,
      GetSpaceBeforeA

(* Storing at most Room(s) bytes after the region writers append to, and   *)
(* committing them, keeps the object good.                                 *)
LEMMA AppendGood ==
  ASSUME NEW s, Good(s), NEW data \in Seq(Byte), Len(data) <= Room(s)
  PROVE  Good(Commit(Store(s, GetBuffer(s), data), Len(data)))
<1> DEFINE at == GetBuffer(s)
           mem == [k \in 0 .. Capacity - 1 |->
                     IF at <= k /\ k < at + Len(data)
                     THEN data[k - at + 1] ELSE s.mBuffer[k]]
<1>1. mem \in Memory
  BY CapacityAssumption
  DEF Memory, Good, Object, GetBuffer, Layout, NULL
<1>2. Store(s, at, data) = [s EXCEPT !.mBuffer = mem]
  BY DEF Store
<1> HIDE DEF mem, at
<1> DEFINE t == [s EXCEPT !.mBuffer = mem]
<1>3. /\ Good(t)
      /\ t.mARegionPointer = s.mARegionPointer
      /\ t.mARegionSize = s.mARegionSize
      /\ t.mBRegionPointer = s.mBRegionPointer
      /\ t.mBRegionSize = s.mBRegionSize
  BY <1>1 DEF Good, Object, Layout, GetAFreeSpace, GetSpaceBeforeA
<1>4. Len(data) \in Nat /\ Len(data) <= Room(t)
  BY <1>3 DEF Room, GetAFreeSpace, GetBFreeSpace
<1> HIDE DEF t
<1>5. Good(Commit(t, Len(data)))
  <2> DEFINE n == Len(data)
  <2> HIDE DEF n
  <2> SUFFICES Good(Commit(t, n)) BY DEF n
  <2>1. n \in Nat /\ n <= Room(t) BY <1>4 DEF n
  <2>2. CASE t.mBRegionPointer = NULL
    <3>1. Commit(t, n) = [t EXCEPT !.mARegionSize = @ + n]
      BY <2>2 DEF Commit
    <3> QED
      BY <2>1, <2>2, <3>1, <1>3, CapacityAssumption
      DEF Good, Object, Layout, Room, GetAFreeSpace, GetSpaceBeforeA, NULL
  <2>3. CASE t.mBRegionPointer # NULL
    <3>1. Commit(t, n) = [t EXCEPT !.mBRegionSize = @ + n]
      BY <2>3 DEF Commit
    <3>2. t.mBRegionPointer = 0 /\ t.mBRegionSize + n <= t.mARegionPointer
      BY <2>1, <2>3, <1>3 DEF Good, Object, Layout, Room, GetBFreeSpace, NULL
    <3> QED
      BY <2>1, <3>1, <3>2, <1>3, CapacityAssumption
      DEF Good, Object, Layout, GetAFreeSpace, GetSpaceBeforeA, NULL
  <2> QED BY <2>2, <2>3
<1> QED BY <1>2, <1>5 DEF at, t

(* Consuming at most what is stored advances A first, then B, and leaves   *)
(* the rest of both regions where it was.                                  *)
LEMMA ConsumeFields ==
  ASSUME NEW b, Good(b), NEW n \in Nat, n <= GetStoredSize(b)
  PROVE  LET c == Consume(b, n)
             a == Smaller(n, b.mARegionSize) IN
         /\ a \in 0 .. b.mARegionSize /\ n - a \in 0 .. b.mBRegionSize
         /\ a < n => a = b.mARegionSize
         /\ c.mBuffer = b.mBuffer
         /\ c.mARegionPointer = b.mARegionPointer + a
         /\ c.mARegionSize = b.mARegionSize - a
         /\ c.mBRegionSize = b.mBRegionSize - (n - a)
         /\ c.mBRegionPointer =
              IF n - a > 0 THEN b.mBRegionPointer + (n - a) ELSE b.mBRegionPointer
         /\ c \in [mBuffer : Memory, mARegionPointer : Int,
                   mARegionSize : Int, mBRegionPointer : Int,
                   mBRegionSize : Int]
<1> DEFINE a == Smaller(n, b.mARegionSize)
           c == Smaller(n - a, b.mBRegionSize)
<1>1. /\ a \in 0 .. b.mARegionSize /\ n - a \in 0 .. b.mBRegionSize
      /\ a < n => a = b.mARegionSize
  BY DEF Good, Object, Smaller, GetStoredSize
<1>2. c = n - a
  BY <1>1 DEF Good, Object, Smaller
<1>3. Consume(b, n) =
        [b EXCEPT !.mARegionSize = @ - a, !.mARegionPointer = @ + a,
                  !.mBRegionSize = @ - c,
                  !.mBRegionPointer = IF c > 0 THEN @ + c ELSE @]
  BY DEF Consume
<1> HIDE DEF a, c
<1>4. Consume(b, n) =
        [b EXCEPT !.mARegionSize = @ - a, !.mARegionPointer = @ + a,
                  !.mBRegionSize = @ - (n - a),
                  !.mBRegionPointer = IF n - a > 0 THEN @ + (n - a) ELSE @]
  BY <1>2, <1>3
<1>5. b.mBRegionPointer \in Int /\ b.mARegionPointer \in Int
      /\ b.mARegionSize \in Int /\ b.mBRegionSize \in Int
      /\ b.mBuffer \in Memory
  BY CapacityAssumption DEF Good, Object, NULL
<1>6. b \in [mBuffer : Memory, mARegionPointer : Int, mARegionSize : Int,
             mBRegionPointer : Int, mBRegionSize : Int]
  BY <1>5 DEF Good, Object
<1> HIDE DEF Good
<1>7. /\ n - a \in Int /\ a \in Int
      /\ b.mBRegionPointer + (n - a) \in Int
      /\ b.mARegionSize - a \in Int
      /\ b.mBRegionSize - (n - a) \in Int
      /\ b.mARegionPointer + a \in Int
  BY <1>1, <1>5
<1> QED BY <1>1, <1>4, <1>6, <1>7 DEF a

(* Read and Remove keep the object good.                                   *)
LEMMA RemoveGood ==
  ASSUME NEW b, Good(b), NEW n \in Nat, n <= GetStoredSize(b)
  PROVE  Good(Remove(b, n))
<1> DEFINE c == Consume(b, n)
           a == Smaller(n, b.mARegionSize)
<1>1. /\ a \in 0 .. b.mARegionSize /\ n - a \in 0 .. b.mBRegionSize
      /\ a < n => a = b.mARegionSize
      /\ c.mBuffer = b.mBuffer
      /\ c.mARegionPointer = b.mARegionPointer + a
      /\ c.mARegionSize = b.mARegionSize - a
      /\ c.mBRegionSize = b.mBRegionSize - (n - a)
      /\ c.mBRegionPointer =
           IF n - a > 0 THEN b.mBRegionPointer + (n - a) ELSE b.mBRegionPointer
      /\ c \in [mBuffer : Memory, mARegionPointer : Int,
                mARegionSize : Int, mBRegionPointer : Int,
                mBRegionSize : Int]
  BY ConsumeFields
<1> HIDE DEF c, a
<1>2. CASE c.mARegionSize > 0
  <2>1. a = n /\ Remove(b, n) = c
    BY <1>1, <1>2 DEF Remove, PromoteB, c, Good, Object
  <2> QED
    BY <2>1, <1>1, <1>2, CapacityAssumption
    DEF Good, Object, Layout, GetAFreeSpace, GetSpaceBeforeA, NULL
<1>3. CASE ~ (c.mARegionSize > 0)
  <2> DEFINE mem == [k \in 0 .. Capacity - 1 |->
                       IF k < c.mBRegionSize
                       THEN c.mBuffer[c.mBRegionPointer + k]
                       ELSE c.mBuffer[k]]
  <2>1. Remove(b, n) =
          [mBuffer |-> mem, mARegionPointer |-> 0,
           mARegionSize |-> c.mBRegionSize,
           mBRegionPointer |-> NULL, mBRegionSize |-> 0]
    BY <1>3 DEF Remove, PromoteB, c
  <2>2. /\ c.mBRegionSize \in 0 .. Capacity
        /\ c.mBRegionSize > 0 =>
             /\ c.mBRegionPointer >= 0
             /\ c.mBRegionPointer + c.mBRegionSize <= Capacity
    BY <1>1, CapacityAssumption DEF Good, Object, Layout, NULL
  <2>3. mem \in Memory
    <3>1. /\ c.mBuffer \in [0 .. Capacity - 1 -> Byte]
          /\ c.mBRegionPointer \in Int /\ c.mBRegionSize \in Int
      BY <1>1 DEF Memory
    <3>2. ASSUME NEW k \in 0 .. Capacity - 1
          PROVE  IF k < c.mBRegionSize
                 THEN c.mBuffer[c.mBRegionPointer + k] \in Byte
                 ELSE c.mBuffer[k] \in Byte
      BY <2>2, <3>1, CapacityAssumption
    <3> QED BY <3>2 DEF Memory
  <2> HIDE DEF mem
  <2> DEFINE size == c.mBRegionSize
  <2>4. Remove(b, n) \in Object
    <3>1. size \in 0 .. Capacity /\ 0 \in 0 .. Capacity
      BY <2>2, CapacityAssumption
    <3>2. Remove(b, n) =
            [mBuffer |-> mem, mARegionPointer |-> 0, mARegionSize |-> size,
             mBRegionPointer |-> NULL, mBRegionSize |-> 0]
      BY <2>1
    <3> HIDE DEF size
    <3> QED BY <3>1, <3>2, <2>3 DEF Object
  <2>5. Layout(Remove(b, n))
    BY <2>1, <2>2, CapacityAssumption DEF Layout, NULL
  <2> QED BY <2>4, <2>5 DEF Good
<1> QED BY <1>2, <1>3

-----------------------------------------------------------------------------
(* What the object holds.                                                  *)

(* The i-th stored byte.                                                   *)
Cell(b, i) ==
  IF i <= b.mARegionSize
  THEN b.mBuffer[b.mARegionPointer + i - 1]
  ELSE b.mBuffer[b.mBRegionPointer + i - b.mARegionSize - 1]

(* Peek copies out the first n stored bytes.                               *)
LEMMA PeekCells ==
  ASSUME NEW b, Good(b), NEW n \in Nat, n <= GetStoredSize(b)
  PROVE  /\ Peek(b, n) \in Seq(Byte)
         /\ Len(Peek(b, n)) = n
         /\ \A i \in 1 .. n : Peek(b, n)[i] = Cell(b, i)
<1> DEFINE a == Smaller(n, b.mARegionSize)
           p == [i \in 1 .. n |->
                   IF i <= a THEN b.mBuffer[b.mARegionPointer + i - 1]
                   ELSE b.mBuffer[b.mBRegionPointer + i - a - 1]]
<1>1. Peek(b, n) = p
  BY DEF Peek
<1>2. a \in 0 .. b.mARegionSize /\ (a < n => a = b.mARegionSize) /\ a <= n
  BY DEF Good, Object, Smaller
<1> HIDE DEF a
<1>3. ASSUME NEW i \in 1 .. n
      PROVE  p[i] = Cell(b, i) /\ p[i] \in Byte
  <2>1. CASE i <= a
    BY <2>1, <1>2, CapacityAssumption
    DEF Cell, Good, Object, Layout, Memory
  <2>2. CASE ~ (i <= a)
    <3>1. a = b.mARegionSize /\ b.mBRegionPointer = 0
      BY <2>2, <1>2 DEF Good, Object, Layout, GetStoredSize
    <3> QED
      BY <2>2, <3>1, CapacityAssumption
      DEF Cell, Good, Object, Layout, Memory, GetStoredSize
  <2> QED BY <2>1, <2>2
<1>4. p \in [1 .. n -> Byte]
  BY <1>3
<1>5. p \in Seq(Byte) /\ Len(p) = n
  BY <1>4
<1> QED BY <1>1, <1>3, <1>5

(* Opening B does not change what is stored.                               *)
LEMMA SwitchContents ==
  ASSUME NEW b, Good(b)
  PROVE  Contents(SwitchRegion(b)) = Contents(b)
<1> DEFINE s == SwitchRegion(b)
           n == GetStoredSize(b)
<1>1. /\ Good(s) /\ s.mBuffer = b.mBuffer
      /\ s.mARegionPointer = b.mARegionPointer
      /\ s.mARegionSize = b.mARegionSize
      /\ s.mBRegionSize = b.mBRegionSize
  BY SwitchGood
<1>2. n \in Nat /\ GetStoredSize(s) = n
  BY <1>1 DEF Good, Object, GetStoredSize
<1>3. b.mBRegionSize > 0 => s.mBRegionPointer = b.mBRegionPointer
  BY DEF SwitchRegion, Good, Layout, Object
<1>4. \A i \in 1 .. n : Cell(s, i) = Cell(b, i)
  BY <1>1, <1>3 DEF Cell, Good, Object, GetStoredSize
<1> HIDE DEF s, n
<1>5. /\ Peek(s, n) \in Seq(Byte) /\ Peek(b, n) \in Seq(Byte)
      /\ Len(Peek(s, n)) = Len(Peek(b, n)) /\ Len(Peek(s, n)) = n
      /\ \A i \in 1 .. n : Peek(s, n)[i] = Peek(b, n)[i]
  BY <1>1, <1>2, <1>4, PeekCells DEF n
<1>6. Peek(s, n) = Peek(b, n)
  BY <1>5, SeqEqual
<1> QED BY <1>2, <1>6 DEF Contents, s, n

(* Storing and committing data appends it to what is stored.               *)
LEMMA AppendContents ==
  ASSUME NEW s, Good(s), NEW data \in Seq(Byte), Len(data) <= Room(s)
  PROVE  Contents(Commit(Store(s, GetBuffer(s), data), Len(data)))
           = Contents(s) \o data
<1> DEFINE c == Commit(Store(s, GetBuffer(s), data), Len(data))
           n == GetStoredSize(s)
           l == Len(data)
           at == GetBuffer(s)
           mem == [k \in 0 .. Capacity - 1 |->
                     IF at <= k /\ k < at + l
                     THEN data[k - at + 1] ELSE s.mBuffer[k]]
<1>1. Good(c)
  BY AppendGood
<1>2. /\ n \in Nat /\ l \in Nat /\ at \in Nat
      /\ at + l <= Capacity
  <2>1. n \in Nat /\ l \in Nat
    BY DEF Good, Object, GetStoredSize
  <2>2. CASE s.mBRegionPointer = NULL
    BY <2>1, <2>2, CapacityAssumption
    DEF Good, Object, Layout, GetBuffer, Room, GetAFreeSpace
  <2>3. CASE s.mBRegionPointer # NULL
    BY <2>1, <2>3, CapacityAssumption
    DEF Good, Object, Layout, NULL, GetBuffer, Room, GetBFreeSpace
  <2> QED BY <2>2, <2>3
<1>3. /\ c.mBuffer = mem
      /\ c.mARegionPointer = s.mARegionPointer
      /\ c.mBRegionPointer = s.mBRegionPointer
      /\ IF s.mBRegionPointer # NULL
         THEN c.mARegionSize = s.mARegionSize
              /\ c.mBRegionSize = s.mBRegionSize + l
         ELSE c.mARegionSize = s.mARegionSize + l
              /\ c.mBRegionSize = s.mBRegionSize
  BY DEF Commit, Store, Good, Object
<1>4. GetStoredSize(c) = n + l
  BY <1>2, <1>3 DEF GetStoredSize, Good, Object
<1> HIDE DEF c
<1>5. ASSUME NEW i \in 1 .. n + l
      PROVE  Cell(c, i) = IF i <= n THEN Cell(s, i) ELSE data[i - n]
  <2>1. CASE s.mBRegionPointer = NULL
    <3>1. n = s.mARegionSize /\ at = s.mARegionPointer + n
      BY <2>1 DEF Good, Object, Layout, GetStoredSize, GetBuffer
    <3>2. Cell(c, i) = mem[s.mARegionPointer + i - 1]
      BY <1>2, <1>3, <2>1, <3>1 DEF Cell, Good, Object
    <3>3. s.mARegionPointer + i - 1 \in 0 .. Capacity - 1
      BY <1>2, <3>1, CapacityAssumption DEF Good, Object
    <3>4. CASE i <= n
      BY <1>2, <3>1, <3>2, <3>3, <3>4 DEF Cell, Good, Object
    <3>5. CASE ~ (i <= n)
      <4>1. /\ at <= s.mARegionPointer + i - 1
            /\ s.mARegionPointer + i - 1 < at + l
            /\ (s.mARegionPointer + i - 1) - at + 1 = i - n
        BY <1>2, <3>1, <3>5 DEF Good, Object
      <4> QED BY <3>2, <3>3, <3>5, <4>1
    <3> QED BY <3>4, <3>5
  <2>2. CASE s.mBRegionPointer # NULL
    <3>1. /\ s.mBRegionPointer = 0 /\ at = s.mBRegionSize
          /\ n = s.mARegionSize + at /\ at + l <= s.mARegionPointer
          /\ s.mARegionPointer + s.mARegionSize <= Capacity
      BY <2>2
      DEF Good, Object, Layout, NULL, GetStoredSize, GetBuffer, Room,
          GetBFreeSpace
    <3>2. CASE i <= s.mARegionSize
      <4>1. Cell(c, i) = mem[s.mARegionPointer + i - 1]
        BY <1>3, <2>2, <3>2 DEF Cell
      <4>2. s.mARegionPointer + i - 1 \in 0 .. Capacity - 1
        BY <3>1, <3>2, CapacityAssumption DEF Good, Object
      <4> QED
        BY <1>2, <3>1, <3>2, <4>1, <4>2, CapacityAssumption
        DEF Cell, Good, Object
    <3>3. CASE ~ (i <= s.mARegionSize)
      <4>1. Cell(c, i) = mem[i - s.mARegionSize - 1]
        BY <1>3, <2>2, <3>1, <3>3 DEF Cell, Good, Object
      <4>2. i - s.mARegionSize - 1 \in 0 .. Capacity - 1
        BY <1>2, <3>1, <3>3, CapacityAssumption DEF Good, Object
      <4>3. CASE i <= n
        BY <1>2, <3>1, <3>3, <4>1, <4>2, <4>3 DEF Cell, Good, Object
      <4>4. CASE ~ (i <= n)
        <5>1. /\ at <= i - s.mARegionSize - 1
              /\ i - s.mARegionSize - 1 < at + l
              /\ (i - s.mARegionSize - 1) - at + 1 = i - n
          BY <1>2, <3>1, <4>4 DEF Good, Object
        <5> QED BY <4>1, <4>2, <4>4, <5>1
      <4> QED BY <4>3, <4>4
    <3> QED BY <3>2, <3>3
  <2> QED BY <2>1, <2>2
<1> HIDE DEF n, l, at, mem
<1>6. /\ Peek(c, n + l) \in Seq(Byte) /\ Len(Peek(c, n + l)) = n + l
      /\ \A i \in 1 .. n + l : Peek(c, n + l)[i] = Cell(c, i)
  BY <1>1, <1>2, <1>4, PeekCells
<1>7. /\ Peek(s, n) \in Seq(Byte) /\ Len(Peek(s, n)) = n
      /\ \A i \in 1 .. n : Peek(s, n)[i] = Cell(s, i)
  BY <1>2, PeekCells DEF n
<1>8. /\ Peek(s, n) \o data \in Seq(Byte)
      /\ Len(Peek(s, n) \o data) = n + l
      /\ \A i \in 1 .. n + l : (Peek(s, n) \o data)[i] =
            IF i <= n THEN Peek(s, n)[i] ELSE data[i - n]
  <2> DEFINE p == Peek(s, n)
  <2>1. p \in Seq(Byte) /\ data \in Seq(Byte) /\ Len(p) = n /\ Len(data) = l
    BY <1>7 DEF l
  <2> HIDE DEF p
  <2>2. /\ p \o data \in Seq(Byte)
        /\ Len(p \o data) = Len(p) + Len(data)
        /\ \A i \in 1 .. Len(p) + Len(data) : (p \o data)[i] =
              IF i <= Len(p) THEN p[i] ELSE data[i - Len(p)]
    BY <2>1, ConcatProperties, Zenon
  <2>3. /\ p \o data \in Seq(Byte)
        /\ Len(p \o data) = n + l
        /\ \A i \in 1 .. n + l : (p \o data)[i] =
              IF i <= n THEN p[i] ELSE data[i - n]
    BY <2>1, <2>2, Zenon
  <2> QED BY <2>3 DEF p
<1>9. \A i \in 1 .. n + l : Peek(c, n + l)[i] = (Peek(s, n) \o data)[i]
  BY <1>2, <1>5, <1>6, <1>7, <1>8
<1>10. Peek(c, n + l) = Peek(s, n) \o data
  BY <1>6, <1>8, <1>9, SeqEqual
<1> QED BY <1>4, <1>10 DEF Contents, c, n

(* Taking n bytes out shifts the rest n places forward, also when B is     *)
(* moved to the start of the memory.                                       *)
LEMMA RemoveCells ==
  ASSUME NEW b, Good(b), NEW n \in Nat, n <= GetStoredSize(b)
  PROVE  LET r == Remove(b, n) IN
         /\ GetStoredSize(r) = GetStoredSize(b) - n
         /\ \A i \in 1 .. GetStoredSize(b) - n : Cell(r, i) = Cell(b, n + i)
<1> DEFINE c == Consume(b, n)
           a == Smaller(n, b.mARegionSize)
           r == Remove(b, n)
<1>1. /\ a \in 0 .. b.mARegionSize /\ n - a \in 0 .. b.mBRegionSize
      /\ a < n => a = b.mARegionSize
      /\ c.mBuffer = b.mBuffer
      /\ c.mARegionPointer = b.mARegionPointer + a
      /\ c.mARegionSize = b.mARegionSize - a
      /\ c.mBRegionSize = b.mBRegionSize - (n - a)
      /\ c.mBRegionPointer =
           IF n - a > 0 THEN b.mBRegionPointer + (n - a)
           ELSE b.mBRegionPointer
  BY ConsumeFields
<1>2. /\ b.mARegionSize \in Nat /\ b.mBRegionSize \in Nat /\ a \in Nat
      /\ b.mARegionPointer \in Nat /\ b.mBRegionPointer \in Int
      /\ a <= n
      /\ b.mARegionSize + b.mBRegionSize = GetStoredSize(b)
      /\ b.mBRegionSize > 0 => b.mBRegionPointer = 0
      /\ b.mBRegionSize + b.mARegionSize <= Capacity
  BY <1>1, CapacityAssumption
  DEF Good, Object, NULL, GetStoredSize, Layout
<1>3. r = PromoteB(c)
  BY DEF Remove
<1> HIDE DEF c, a, r
<1>4. CASE c.mARegionSize > 0
  <2>1. a = n /\ r = c
    BY <1>1, <1>2, <1>3, <1>4 DEF PromoteB
  <2>2. GetStoredSize(r) = GetStoredSize(b) - n
    BY <1>1, <1>2, <2>1 DEF GetStoredSize
  <2>3. ASSUME NEW i \in 1 .. GetStoredSize(b) - n
        PROVE  Cell(r, i) = Cell(b, n + i)
    <3>1. CASE i <= c.mARegionSize
      <4>1. Cell(r, i) = b.mBuffer[b.mARegionPointer + n + i - 1]
        BY <1>1, <2>1, <3>1 DEF Cell
      <4>2. n + i <= b.mARegionSize
        BY <1>1, <1>2, <2>1, <3>1
      <4>3. b.mARegionPointer + n + i - 1 = b.mARegionPointer + (n + i) - 1
        BY <1>2
      <4> QED BY <4>1, <4>2, <4>3 DEF Cell
    <3>2. CASE ~ (i <= c.mARegionSize)
      <4>1. Cell(r, i) =
              b.mBuffer[b.mBRegionPointer + i - (b.mARegionSize - n) - 1]
        BY <1>1, <2>1, <3>2 DEF Cell
      <4>2. ~ (n + i <= b.mARegionSize)
        BY <1>1, <1>2, <2>1, <3>2
      <4>3. b.mBRegionPointer + i - (b.mARegionSize - n) - 1
              = b.mBRegionPointer + (n + i) - b.mARegionSize - 1
        BY <1>2
      <4> QED BY <4>1, <4>2, <4>3 DEF Cell
    <3> QED BY <3>1, <3>2
  <2> QED BY <2>2, <2>3 DEF r
<1>5. CASE ~ (c.mARegionSize > 0)
  <2>1. a = b.mARegionSize
    BY <1>1, <1>2, <1>5
  <2> DEFINE size == b.mBRegionSize - (n - a)
             mem == [k \in 0 .. Capacity - 1 |->
                       IF k < c.mBRegionSize
                       THEN c.mBuffer[c.mBRegionPointer + k]
                       ELSE c.mBuffer[k]]
  <2>2. /\ r.mBuffer = mem
        /\ r.mARegionPointer = 0 /\ r.mARegionSize = c.mBRegionSize
        /\ r.mBRegionSize = 0
    BY <1>3, <1>5 DEF PromoteB
  <2>3. GetStoredSize(r) = GetStoredSize(b) - n /\ size = GetStoredSize(b) - n
    <3>1. GetStoredSize(r) = c.mBRegionSize + 0
      BY <2>2 DEF GetStoredSize
    <3>2. c.mBRegionSize = b.mBRegionSize - (n - b.mARegionSize)
      BY <1>1, <2>1
    <3>3. size = b.mBRegionSize - (n - b.mARegionSize)
      BY <2>1
    <3> QED BY <1>2, <3>1, <3>2, <3>3
  <2>4. ASSUME NEW i \in 1 .. GetStoredSize(b) - n
        PROVE  Cell(r, i) = Cell(b, n + i)
    <3>1. /\ i <= c.mBRegionSize /\ i - 1 < c.mBRegionSize
          /\ i - 1 \in 0 .. Capacity - 1
      BY <1>1, <1>2, <2>3, CapacityAssumption
    <3>2. Cell(r, i) = mem[i - 1]
      <4>1. r.mARegionPointer + i - 1 = i - 1
        BY <2>2
      <4> QED BY <2>2, <3>1, <4>1 DEF Cell
    <3>3. mem[i - 1] = b.mBuffer[c.mBRegionPointer + (i - 1)]
      BY <3>1, <1>1
    <3>4. ~ (n + i <= b.mARegionSize)
      BY <1>1, <1>2, <2>1
    <3>5. c.mBRegionPointer + (i - 1)
            = b.mBRegionPointer + (n + i) - b.mARegionSize - 1
      BY <1>1, <1>2, <2>1
    <3> QED BY <3>2, <3>3, <3>4, <3>5 DEF Cell
  <2> QED BY <2>3, <2>4 DEF r
<1> QED BY <1>4, <1>5

(* Peek hands out the oldest bytes, and Remove leaves the others.          *)
LEMMA TakenAndLeft ==
  ASSUME NEW b, Good(b), NEW n \in Nat, n <= GetStoredSize(b)
  PROVE  /\ Len(Contents(b)) = GetStoredSize(b)
         /\ Peek(b, n) = SubSeq(Contents(b), 1, n)
         /\ Contents(Remove(b, n))
              = SubSeq(Contents(b), n + 1, Len(Contents(b)))
<1> DEFINE q == Contents(b)
           l == GetStoredSize(b)
           r == Remove(b, n)
<1>1. l \in Nat
  BY DEF Good, Object, GetStoredSize
<1>2. q \in Seq(Byte) /\ Len(q) = l /\ \A i \in 1 .. l : q[i] = Cell(b, i)
  BY <1>1, PeekCells DEF Contents
<1>3. \A i \in 1 .. l : q[i] \in Byte
  BY <1>2, ElementOfSeq
<1>4. /\ Peek(b, n) \in Seq(Byte) /\ Len(Peek(b, n)) = n
      /\ \A i \in 1 .. n : Peek(b, n)[i] = Cell(b, i)
  BY PeekCells
<1>5. Good(r) /\ GetStoredSize(r) = l - n
      /\ \A i \in 1 .. l - n : Cell(r, i) = Cell(b, n + i)
  BY RemoveGood, RemoveCells
<1> HIDE DEF q, r, l
<1>6. /\ Contents(r) \in Seq(Byte) /\ Len(Contents(r)) = l - n
      /\ \A i \in 1 .. l - n : Contents(r)[i] = Cell(r, i)
  <2>1. l - n \in Nat
    BY <1>1 DEF l
  <2> QED BY <2>1, <1>5, PeekCells DEF Contents
<1>7. Peek(b, n) = SubSeq(q, 1, n)
  <2>1. /\ SubSeq(q, 1, n) \in Seq(Byte) /\ Len(SubSeq(q, 1, n)) = n
        /\ \A i \in 1 .. n : SubSeq(q, 1, n)[i] = q[i]
    BY <1>1, <1>2, <1>3, SubSeqProperties DEF l
  <2>2. \A i \in 1 .. n : Peek(b, n)[i] = SubSeq(q, 1, n)[i]
    BY <1>1, <1>2, <1>4, <2>1 DEF l
  <2> QED BY <1>4, <2>1, <2>2, SeqEqual
<1>8. Contents(r) = SubSeq(q, n + 1, l)
  <2>1. /\ SubSeq(q, n + 1, l) \in Seq(Byte)
        /\ Len(SubSeq(q, n + 1, l)) = l - n
        /\ \A i \in 1 .. l - n : SubSeq(q, n + 1, l)[i] = q[n + i]
    BY <1>1, <1>2, <1>3, SubSeqProperties DEF l
  <2>2. \A i \in 1 .. l - n : Contents(r)[i] = SubSeq(q, n + 1, l)[i]
    BY <1>1, <1>2, <1>5, <1>6, <2>1 DEF l
  <2> QED BY <1>6, <2>1, <2>2, SeqEqual
<1> QED BY <1>2, <1>7, <1>8 DEF q, r, l

(* Asking for more than is stored removes everything.                      *)
LEMMA RemoveAll ==
  ASSUME NEW b, Good(b), NEW n \in Nat, n > GetStoredSize(b)
  PROVE  Remove(b, n) = Remove(b, GetStoredSize(b))
<1> DEFINE m == GetStoredSize(b)
<1>1. /\ Smaller(n, b.mARegionSize) = b.mARegionSize
      /\ Smaller(m, b.mARegionSize) = b.mARegionSize
      /\ Smaller(n - b.mARegionSize, b.mBRegionSize) = b.mBRegionSize
      /\ Smaller(m - b.mARegionSize, b.mBRegionSize) = b.mBRegionSize
  BY DEF Good, Object, GetStoredSize, Smaller
<1>2. Consume(b, n) = Consume(b, m)
  BY <1>1 DEF Consume
<1> QED BY <1>2 DEF Remove

(* A write is refused, leaving at most B open, or appends all its data.    *)
LEMMA WriteCases ==
  ASSUME NEW b, Good(b), NEW data \in Seq(Byte)
  PROVE  /\ Good(Write(b, data))
         /\ \/ Contents(Write(b, data)) = Contents(b)
            \/ Contents(Write(b, data)) = Contents(b) \o data
<1> DEFINE s == SwitchRegion(b)
<1>1. Good(s) /\ Contents(s) = Contents(b)
  BY SwitchGood, SwitchContents
<1>2. CASE Room(s) < Len(data)
  <2>1. Write(b, data) = s
    BY <1>2 DEF Write
  <2> QED BY <1>1, <2>1
<1>3. CASE ~ (Room(s) < Len(data))
  <2>1. Write(b, data) = Commit(Store(s, GetBuffer(s), data), Len(data))
    BY <1>3 DEF Write
  <2>2. Len(data) <= Room(s)
    <3>1. Room(s) \in Int /\ Len(data) \in Int
      BY <1>1, CapacityAssumption
      DEF Good, Object, Room, GetAFreeSpace, GetBFreeSpace, NULL
    <3> QED BY <1>3, <3>1
  <2> HIDE DEF s
  <2> QED BY <1>1, <2>1, <2>2, AppendGood, AppendContents
<1> QED BY <1>2, <1>3

-----------------------------------------------------------------------------
(* A buffer under any sequence of calls (BufferUse).                       *)

(* The inductive invariant: type and layout of the one object.  Each       *)
(* method keeps them; the queue refinement needs them because Contents     *)
(* reads the memory through the regions.                                   *)
UseInv == Good(buf) /\ seen \in Seq(Byte)

(* The constructor's empty object satisfies it, whatever its memory.       *)
LEMMA InitUseInv == UseInit => UseInv
  BY NewGood DEF UseInit, UseInv

(* Every use of the buffer keeps the invariant and, seen through Contents, *)
(* is a step of the queue.                                                 *)
LEMMA StepUseInv ==
  ASSUME UseInv, [UseNext]_useVars
  PROVE  UseInv' /\ [Fifo!Next]_<<Contents(buf), seen>>
<1>0. Good(buf) /\ seen \in Seq(Byte)
  BY DEF UseInv
<1>1. GetStoredSize(buf) \in 0 .. Capacity
  BY <1>0, CapacityAssumption
  DEF Good, Object, Layout, NULL, GetStoredSize
<1>2. CASE UNCHANGED useVars
  BY <1>0, <1>2 DEF UseInv, useVars
<1>3. ASSUME NEW data \in Chunk, WriteStep(data) \/ ReceiveStep(data)
      PROVE  UseInv' /\ [Fifo!Next]_<<Contents(buf), seen>>
  <2>1. data \in Seq(Byte) /\ seen' = seen
    BY <1>3, ChunkAssumption DEF WriteStep, ReceiveStep
  <2>2. /\ Good(buf')
        /\ \/ Contents(buf') = Contents(buf)
           \/ Contents(buf') = Contents(buf) \o data
    <3>1. CASE WriteStep(data)
      BY <1>0, <2>1, <3>1, WriteCases DEF WriteStep
    <3>2. CASE ReceiveStep(data)
      <4> DEFINE s == SwitchRegion(buf)
      <4>1. Good(s) /\ Contents(s) = Contents(buf)
        BY <1>0, SwitchGood, SwitchContents
      <4>2. /\ Len(data) <= Room(s)
            /\ buf' = Commit(Store(s, GetBuffer(s), data), Len(data))
        BY <3>2 DEF ReceiveStep, GetFreeSpaceSize
      <4> HIDE DEF s
      <4> QED BY <2>1, <4>1, <4>2, AppendGood, AppendContents
    <3> QED BY <1>3, <3>1, <3>2
  <2>3. CASE Contents(buf') = Contents(buf) \o data
    <3>1. /\ Len(Contents(buf)) = GetStoredSize(buf)
          /\ Len(Contents(buf')) = GetStoredSize(buf')
          /\ GetStoredSize(buf') <= Capacity
      <4>1. GetStoredSize(buf') \in 0 .. Capacity
        BY <2>2, CapacityAssumption
        DEF Good, Object, Layout, NULL, GetStoredSize
      <4> QED BY <1>0, <1>1, <2>2, <4>1, PeekCells DEF Contents
    <3>2. Contents(buf) \in Seq(Byte)
      BY <1>0, <1>1, PeekCells DEF Contents
    <3>3. Len(Contents(buf)) + Len(data) <= Capacity
      BY <2>1, <2>3, <3>1, <3>2, ConcatProperties
    <3> QED BY <2>1, <2>2, <2>3, <3>3 DEF UseInv, Fifo!Next, Fifo!Put
  <2>4. CASE Contents(buf') = Contents(buf)
    BY <2>1, <2>2, <2>4 DEF UseInv
  <2> QED BY <2>2, <2>3, <2>4
<1>4. ASSUME NEW n \in 0 .. Capacity, PeekStep(n)
      PROVE  UseInv' /\ [Fifo!Next]_<<Contents(buf), seen>>
  <2>1. n \in Nat /\ n <= GetStoredSize(buf) /\ buf' = buf
        /\ seen' = Peek(buf, n)
    BY <1>4, CapacityAssumption DEF PeekStep
  <2>2. seen' \in Seq(Byte) /\ seen' = SubSeq(Contents(buf), 1, n)
        /\ n <= Len(Contents(buf))
    BY <1>0, <2>1, PeekCells, TakenAndLeft
  <2> QED BY <1>0, <2>1, <2>2 DEF UseInv, Fifo!Next, Fifo!Look
<1>5. ASSUME NEW n \in 0 .. Capacity, ReadStep(n)
      PROVE  UseInv' /\ [Fifo!Next]_<<Contents(buf), seen>>
  <2>1. CASE n <= GetStoredSize(buf)
    <3>1. n \in Nat /\ buf' = Remove(buf, n) /\ seen' = Peek(buf, n)
      BY <1>1, <1>5, <2>1, CapacityAssumption DEF ReadStep, Read, Remove
    <3>2. /\ Good(buf') /\ seen' \in Seq(Byte)
          /\ seen' = SubSeq(Contents(buf), 1, n)
          /\ n <= Len(Contents(buf))
          /\ Contents(buf') = SubSeq(Contents(buf), n + 1, Len(Contents(buf)))
      BY <1>0, <2>1, <3>1, PeekCells, TakenAndLeft, RemoveGood
    <3> QED BY <1>5, <3>2 DEF UseInv, Fifo!Next, Fifo!Take
  <2>2. CASE ~ (n <= GetStoredSize(buf))
    <3>1. buf' = buf /\ seen' = seen
      BY <1>1, <1>5, <2>2 DEF ReadStep, Read
    <3> QED BY <1>0, <3>1 DEF UseInv
  <2> QED BY <2>1, <2>2
<1>6. ASSUME NEW n \in 0 .. Capacity, RemoveStep(n)
      PROVE  UseInv' /\ [Fifo!Next]_<<Contents(buf), seen>>
  <2>1. PICK m \in 0 .. Capacity :
          m <= GetStoredSize(buf) /\ buf' = Remove(buf, m)
    <3>1. CASE n <= GetStoredSize(buf)
      BY <1>6, <3>1 DEF RemoveStep
    <3>2. CASE ~ (n <= GetStoredSize(buf))
      <4>1. n \in Nat /\ n > GetStoredSize(buf)
        BY <1>1, <3>2, CapacityAssumption
      <4> QED BY <1>0, <1>1, <1>6, <4>1, RemoveAll DEF RemoveStep
    <3> QED BY <3>1, <3>2
  <2>2. m \in Nat /\ seen' = seen
    BY <1>6, CapacityAssumption DEF RemoveStep
  <2>3. /\ Good(buf') /\ m <= Len(Contents(buf))
        /\ Contents(buf') = SubSeq(Contents(buf), m + 1, Len(Contents(buf)))
    BY <1>0, <2>1, <2>2, TakenAndLeft, RemoveGood
  <2> QED BY <1>0, <2>1, <2>2, <2>3 DEF UseInv, Fifo!Next, Fifo!Drop
<1> QED BY <1>2, <1>3, <1>4, <1>5, <1>6 DEF UseNext

(* UseTypeOK: sizes stay within the capacity and every byte handed out by     *)
(* Peek or Read is a stored byte, never memory outside mBuffer.            *)
THEOREM TypeCorrect == UseSpec => []UseTypeOK
<1>1. UseInv => UseTypeOK
  BY DEF UseInv, Good, UseTypeOK
<1> QED BY <1>1, InitUseInv, StepUseInv, PTL DEF UseSpec

(* RegionsApart: no sequence of Write, Commit, Read and Remove calls makes *)
(* the two regions of the buffer overlap or leave its memory.              *)
THEOREM RegionsStayApart == UseSpec => []RegionsApart
<1>1. UseInv => RegionsApart
  BY DEF UseInv, Good, RegionsApart
<1> QED BY <1>1, InitUseInv, StepUseInv, PTL DEF UseSpec

(* HalfIsUsable: Write accepts a packet, and PostRecv finds room, whenever *)
(* the packet and what is stored fill at most half of the capacity.        *)
THEOREM HalfStaysUsable == UseSpec => []HalfIsUsable
<1>1. UseInv => HalfIsUsable
  <2> SUFFICES ASSUME Good(buf), NEW n \in 1 .. Capacity,
                      2 * (GetStoredSize(buf) + n) <= Capacity + 1
               PROVE  WriteOk(buf, n)
    BY DEF UseInv, HalfIsUsable
  <2>1. CASE buf.mBRegionPointer # NULL
    BY <2>1, CapacityAssumption
    DEF Good, Object, Layout, NULL, GetStoredSize, WriteOk, Room,
        SwitchRegion, GetBFreeSpace, GetAFreeSpace, GetSpaceBeforeA
  <2>2. CASE buf.mBRegionPointer = NULL
             /\ GetAFreeSpace(buf) < GetSpaceBeforeA(buf)
    <3>1. /\ SwitchRegion(buf).mBRegionPointer = 0
          /\ SwitchRegion(buf).mARegionPointer = buf.mARegionPointer
          /\ SwitchRegion(buf).mBRegionSize = 0
      BY <2>2 DEF SwitchRegion, AllocateB, Good, Object, Layout, NULL
    <3>2. Room(SwitchRegion(buf)) = buf.mARegionPointer
      BY <3>1 DEF Room, GetBFreeSpace, NULL, Good, Object
    <3> QED
      BY <2>2, <3>2, CapacityAssumption
      DEF Good, Object, Layout, GetStoredSize, WriteOk, GetAFreeSpace,
          GetSpaceBeforeA
  <2>3. CASE buf.mBRegionPointer = NULL
             /\ ~ (GetAFreeSpace(buf) < GetSpaceBeforeA(buf))
    <3>1. SwitchRegion(buf) = buf
      BY <2>3 DEF SwitchRegion
    <3> QED
      BY <2>3, <3>1, CapacityAssumption
      DEF Good, Object, Layout, GetStoredSize, WriteOk, Room, GetAFreeSpace,
          GetSpaceBeforeA
  <2> QED BY <2>1, <2>2, <2>3
<1> QED BY <1>1, InitUseInv, StepUseInv, PTL DEF UseSpec

(* IsFifo: the buffer implements the byte queue ByteFifo.                  *)
THEOREM BufferIsFifo == UseSpec => IsFifo
<1>1. UseInit => Fifo!Init
  <2> SUFFICES ASSUME UseInit PROVE Fifo!Init OBVIOUS
  <2>1. PICK m \in Memory : buf = New(m)
    BY DEF UseInit
  <2>2. Good(buf) /\ GetStoredSize(buf) = 0
    BY <2>1, NewGood
  <2>3. Contents(buf) \in Seq(Byte) /\ Len(Contents(buf)) = 0
    BY <2>2, PeekCells DEF Contents
  <2>4. Contents(buf) = <<>>
    BY <2>3, EmptySeq
  <2> QED BY <2>4 DEF UseInit, Fifo!Init
<1> QED BY <1>1, InitUseInv, StepUseInv, PTL DEF UseSpec, IsFifo, Fifo!Spec
=============================================================================
