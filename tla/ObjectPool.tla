----------------------------- MODULE ObjectPool -----------------------------
(***************************************************************************)
(* ObjectPool<T>, the cache of memory blocks behind operator new and       *)
(* operator delete of I/O contexts, jobs and sessions.  The pool is a ring *)
(* of pointers.  Both operators first take a position with one interlocked *)
(* increment and then exchange the slot at that position with another      *)
(* interlocked instruction; between the two, other threads run.  Neither   *)
(* operator compares the two positions: a new may look into a slot whose   *)
(* delete has taken its position and not stored yet, and the head may run  *)
(* ahead of the tail.  What keeps a block from being handed out twice is   *)
(* only that a slot is emptied by the exchange that reads it.              *)
(*                                                                         *)
(* An object may be deleted by another thread than the one that allocated  *)
(* it (an I/O context is deleted by the thread that handles its            *)
(* completion), so live objects belong to the process, not to a thread.    *)
(***************************************************************************)
EXTENDS Integers, FiniteSets

CONSTANTS
  Thread,         \* the threads of the process
  Block,          \* the blocks _aligned_malloc may return
  nullptr,        \* an empty slot
  POOL_MAX_SIZE,  \* slots of the ring
  Wrap            \* where the positions overflow: 2^64 in the code

ASSUME PoolAssumption ==
  /\ POOL_MAX_SIZE \in Nat \ {0}
  /\ Wrap \in Nat \ {0}
  /\ nullptr \notin Block

VARIABLES
  mPool,     \* the ring
  mHeadPos,  \* the next position a new takes
  mTailPos,  \* the next position a delete takes
  heap,      \* the blocks the C heap owns
  live,      \* the blocks that hold an object
  pc,        \* where each thread stands
  pos,       \* its popPos or insPos
  hand       \* the block it is deleting or freeing: obj or prevVal

vars == <<mPool, mHeadPos, mTailPos, heap, live, pc, pos, hand>>

Slots == 0 .. POOL_MAX_SIZE - 1
Labels == {"out", "pop", "malloc", "insert", "free"}

Init ==
  /\ mPool = [i \in Slots |-> nullptr]
  /\ mHeadPos = 0
  /\ mTailPos = 0
  /\ heap = Block
  /\ live = {}
  /\ pc = [t \in Thread |-> "out"]
  /\ pos = [t \in Thread |-> 0]
  /\ hand = [t \in Thread |-> nullptr]

(* position & POOL_SIZE_MASK; POOL_MAX_SIZE is a power of two.             *)
SlotOf(p) == p % POOL_MAX_SIZE

(* The position after p: an interlocked 64-bit increment.                  *)
After(p) == (p + 1) % Wrap

(* The optional pre-allocation fills the ring, before anything else runs.  *)
PrepareAllocation ==
  /\ heap = Block
  /\ mHeadPos = 0 /\ mTailPos = 0
  /\ \A t \in Thread : pc[t] = "out"
  /\ \E f \in [Slots -> heap] :
       /\ \A i, j \in Slots : f[i] = f[j] => i = j
       /\ mPool' = f
       /\ heap' = heap \ {f[i] : i \in Slots}
  /\ mTailPos' = POOL_MAX_SIZE % Wrap
  /\ UNCHANGED <<mHeadPos, live, pc, pos, hand>>

(* _aligned_malloc has a block for every thread inside operator new: the   *)
(* code does not survive running out of memory, and the model stops short  *)
(* of it.                                                                  *)
MemoryLeft ==
  Cardinality({t \in Thread : pc[t] \in {"pop", "malloc"}}) < Cardinality(heap)

(* operator new: the position,                                             *)
NewPosition(t) ==
  /\ pc[t] = "out"
  /\ MemoryLeft
  /\ mHeadPos' = After(mHeadPos)
  /\ pos' = [pos EXCEPT ![t] = mHeadPos]
  /\ pc' = [pc EXCEPT ![t] = "pop"]
  /\ UNCHANGED <<mPool, mTailPos, heap, live, hand>>

(* Mutant: the slot is read and not emptied.                               *)
NewReadsOnly(t) ==
  LET slot == SlotOf(pos[t]) IN
  /\ pc[t] = "pop"
  /\ live' = IF mPool[slot] = nullptr THEN live ELSE live \cup {mPool[slot]}
  /\ pc' = [pc EXCEPT ![t] = IF mPool[slot] = nullptr THEN "malloc" ELSE "out"]
  /\ UNCHANGED <<mPool, mHeadPos, mTailPos, heap, pos, hand>>

(* the exchange, which returns a block or finds the slot empty,            *)
NewExchange(t) ==
  LET slot == SlotOf(pos[t]) IN
  /\ pc[t] = "pop"
  /\ mPool' = [mPool EXCEPT ![slot] = nullptr]
  /\ \/ /\ mPool[slot] # nullptr
        /\ live' = live \cup {mPool[slot]}
        /\ pc' = [pc EXCEPT ![t] = "out"]
     \/ /\ mPool[slot] = nullptr
        /\ pc' = [pc EXCEPT ![t] = "malloc"]
        /\ UNCHANGED live
  /\ UNCHANGED <<mHeadPos, mTailPos, heap, pos, hand>>

(* and the C heap when the slot was empty.                                 *)
NewMalloc(t) ==
  /\ pc[t] = "malloc"
  /\ \E b \in heap : heap' = heap \ {b} /\ live' = live \cup {b}
  /\ pc' = [pc EXCEPT ![t] = "out"]
  /\ UNCHANGED <<mPool, mHeadPos, mTailPos, pos, hand>>

(* operator delete of a live object: the position,                         *)
DeletePosition(t, obj) ==
  /\ pc[t] = "out"
  /\ live' = live \ {obj}
  /\ hand' = [hand EXCEPT ![t] = obj]
  /\ mTailPos' = After(mTailPos)
  /\ pos' = [pos EXCEPT ![t] = mTailPos]
  /\ pc' = [pc EXCEPT ![t] = "insert"]
  /\ UNCHANGED <<mPool, mHeadPos, heap>>

(* Mutant: a plain store, which forgets the block it overwrites.           *)
DeleteStores(t) ==
  /\ pc[t] = "insert"
  /\ mPool' = [mPool EXCEPT ![SlotOf(pos[t])] = hand[t]]
  /\ hand' = [hand EXCEPT ![t] = nullptr]
  /\ pc' = [pc EXCEPT ![t] = "out"]
  /\ UNCHANGED <<mHeadPos, mTailPos, heap, live, pos>>

(* the exchange, which may push another block out of the slot,             *)
DeleteExchange(t) ==
  LET slot == SlotOf(pos[t]) IN
  /\ pc[t] = "insert"
  /\ mPool' = [mPool EXCEPT ![slot] = hand[t]]
  /\ hand' = [hand EXCEPT ![t] = mPool[slot]]
  /\ pc' = [pc EXCEPT ![t] = IF mPool[slot] = nullptr THEN "out" ELSE "free"]
  /\ UNCHANGED <<mHeadPos, mTailPos, heap, live, pos>>

(* and the return of that block to the C heap.                             *)
DeleteFree(t) ==
  /\ pc[t] = "free"
  /\ heap' = heap \cup {hand[t]}
  /\ hand' = [hand EXCEPT ![t] = nullptr]
  /\ pc' = [pc EXCEPT ![t] = "out"]
  /\ UNCHANGED <<mPool, mHeadPos, mTailPos, live, pos>>

Step(t) ==
  \/ NewPosition(t) \/ NewExchange(t) \/ NewMalloc(t)
  \/ \E obj \in live : DeletePosition(t, obj)
  \/ DeleteExchange(t) \/ DeleteFree(t)

Next == PrepareAllocation \/ \E t \in Thread : Step(t)

Spec == Init /\ [][Next]_vars

-----------------------------------------------------------------------------
TypeOK ==
  /\ mPool \in [Slots -> Block \cup {nullptr}]
  /\ mHeadPos \in Nat
  /\ mTailPos \in Nat
  /\ heap \subseteq Block
  /\ live \subseteq Block
  /\ pc \in [Thread -> Labels]
  /\ pos \in [Thread -> Nat]
  /\ hand \in [Thread -> Block \cup {nullptr}]

(* A block of memory has one place: it holds a live object, or waits in    *)
(* one slot of the ring, or is on its way through one thread's operator    *)
(* delete, or belongs to the C heap.  So operator new never returns memory *)
(* that an object occupies or that another thread is about to give back,   *)
(* whatever the positions say and wherever the threads stop between their  *)
(* increment and their exchange (ObjectPool.h, operator new and delete).   *)
OnePlace ==
  /\ live \cap heap = {}
  /\ \A i \in Slots : mPool[i] \notin live \cup heap
  /\ \A i, j \in Slots : mPool[i] = mPool[j] /\ mPool[i] # nullptr => i = j
  /\ \A t \in Thread : hand[t] \notin live \cup heap
  /\ \A t, u \in Thread : hand[t] = hand[u] /\ hand[t] # nullptr => t = u
  /\ \A t \in Thread, i \in Slots : hand[t] = mPool[i] => hand[t] = nullptr

(* No block is lost: one that is neither live nor the C heap's waits in a  *)
(* slot or is in the hand of a thread that will store or free it.  A delete*)
(* that finds its slot taken frees what it pushed out (_aligned_free).     *)
NothingLost ==
  \A b \in Block :
    \/ b \in live
    \/ b \in heap
    \/ \E i \in Slots : mPool[i] = b
    \/ \E t \in Thread : hand[t] = b /\ pc[t] \in {"insert", "free"}

=============================================================================
