-------------------------- MODULE ObjectPoolProofs --------------------------
(***************************************************************************)
(* ObjectPool hands no block out twice and loses none, for every set of    *)
(* threads, every ring size and every heap.                                *)
(***************************************************************************)
EXTENDS ObjectPool, TLAPS

(* A thread has a block in its hand exactly while it deletes.              *)
HandInUse ==
  \A t \in Thread : (hand[t] # nullptr) <=> (pc[t] \in {"insert", "free"})

(* The inductive invariant: OnePlace and NothingLost speak of hands, and   *)
(* only HandInUse says that a hand is empty when its thread is outside.    *)
Inv == TypeOK /\ HandInUse /\ OnePlace /\ NothingLost

(* The mask keeps positions inside the ring, also where they overflow.     *)
LEMMA Positions ==
  ASSUME NEW p \in Nat
  PROVE  SlotOf(p) \in Slots /\ After(p) \in Nat
<1>1. POOL_MAX_SIZE \in Nat \ {0} /\ Wrap \in Nat \ {0}
  BY PoolAssumption
<1>2. \A n \in Nat \ {0}, k \in Nat : k % n \in 0 .. n - 1
  OBVIOUS
<1> QED
  BY <1>1, <1>2 DEF SlotOf, Slots, After

(* The invariant holds when the program starts.                            *)
LEMMA InitInv == Init => Inv
<1> SUFFICES ASSUME Init PROVE Inv
  OBVIOUS
<1>1. TypeOK
  BY DEF Init, TypeOK, Labels
<1>2. HandInUse
  BY DEF Init, HandInUse
<1>3. OnePlace
  BY PoolAssumption DEF Init, OnePlace
<1>4. NothingLost
  BY DEF Init, NothingLost
<1> QED
  BY <1>1, <1>2, <1>3, <1>4 DEF Inv

(* PrepareAllocation keeps the invariant.                                  *)
LEMMA PrepareInv == Inv /\ PrepareAllocation => Inv'
<1> SUFFICES ASSUME Inv, PrepareAllocation PROVE Inv'
  OBVIOUS
<1> USE DEF Inv, PrepareAllocation
<1>1. PICK f \in [Slots -> heap] :
        /\ \A i, j \in Slots : f[i] = f[j] => i = j
        /\ mPool' = f
        /\ heap' = heap \ {f[i] : i \in Slots}
  OBVIOUS
<1>2. POOL_MAX_SIZE % Wrap \in Nat
  BY PoolAssumption
<1>3. TypeOK'
  BY <1>1, <1>2 DEF TypeOK
<1>4. HandInUse'
  BY DEF HandInUse
<1>5. \A t \in Thread : hand[t] = nullptr
  BY DEF HandInUse
<1>6. live = {}
  BY DEF OnePlace, TypeOK
<1>7. OnePlace'
  BY <1>1, <1>5, <1>6, PoolAssumption DEF OnePlace, TypeOK
<1>8. NothingLost'
  BY <1>1 DEF NothingLost, TypeOK
<1> QED
  BY <1>3, <1>4, <1>7, <1>8

(* One step per operation; each thread's steps change one slot, one hand   *)
(* and the two sets.                                                       *)
LEMMA StepInv ==
  ASSUME NEW t \in Thread, Inv, Step(t)
  PROVE  Inv'
<1> USE DEF Inv
<1>0. pos[t] \in Nat /\ mHeadPos \in Nat /\ mTailPos \in Nat
  BY DEF TypeOK
<1>1. CASE NewPosition(t)
  <2>1. TypeOK'
    BY <1>0, <1>1, Positions DEF NewPosition, TypeOK, Labels
  <2>2. HandInUse'
    BY <1>1 DEF NewPosition, HandInUse, TypeOK
  <2>3. OnePlace'
    BY <1>1 DEF NewPosition, OnePlace
  <2>4. NothingLost'
    BY <1>1 DEF NewPosition, NothingLost, TypeOK
  <2> QED
    BY <2>1, <2>2, <2>3, <2>4
<1>2. CASE NewExchange(t)
  <2> DEFINE slot == SlotOf(pos[t])
  <2>1. slot \in Slots
    BY <1>0, Positions
  <2>2. PICK b \in Block \cup {nullptr} : b = mPool[slot]
    BY <2>1 DEF TypeOK
  <2> HIDE DEF slot
  <2>3. /\ mPool' = [mPool EXCEPT ![slot] = nullptr]
        /\ live' = IF b = nullptr THEN live ELSE live \cup {b}
        /\ pc' = [pc EXCEPT ![t] = IF b = nullptr THEN "malloc" ELSE "out"]
        /\ pc[t] = "pop"
        /\ UNCHANGED <<mHeadPos, mTailPos, heap, pos, hand>>
    BY <1>2, <2>2 DEF NewExchange, slot
  <2>4. TypeOK'
    BY <2>1, <2>3 DEF TypeOK, Labels
  <2>5. HandInUse'
    BY <2>3 DEF HandInUse, TypeOK
  <2>6. OnePlace'
    BY <2>1, <2>2, <2>3, PoolAssumption DEF OnePlace, TypeOK
  <2>7. NothingLost'
    BY <2>1, <2>2, <2>3 DEF NothingLost, TypeOK
  <2> QED
    BY <2>4, <2>5, <2>6, <2>7
<1>3. CASE NewMalloc(t)
  <2>1. PICK b \in heap : heap' = heap \ {b} /\ live' = live \cup {b}
    BY <1>3 DEF NewMalloc
  <2>2. TypeOK'
    BY <1>3, <2>1 DEF NewMalloc, TypeOK, Labels
  <2>3. HandInUse'
    BY <1>3 DEF NewMalloc, HandInUse, TypeOK
  <2>4. OnePlace'
    BY <1>3, <2>1 DEF NewMalloc, OnePlace
  <2>5. NothingLost'
    BY <1>3, <2>1 DEF NewMalloc, NothingLost, TypeOK
  <2> QED
    BY <2>2, <2>3, <2>4, <2>5
<1>4. ASSUME NEW obj \in live, DeletePosition(t, obj)
      PROVE  Inv'
  <2>1. obj \in Block /\ obj # nullptr
    BY PoolAssumption DEF TypeOK
  <2>2. TypeOK'
    BY <1>0, <1>4, <2>1, Positions DEF DeletePosition, TypeOK, Labels
  <2>3. HandInUse'
    BY <1>4, <2>1 DEF DeletePosition, HandInUse, TypeOK
  <2>4. hand[t] = nullptr
    BY <1>4 DEF DeletePosition, HandInUse
  <2>5. OnePlace'
    BY <1>4, <2>1, <2>4 DEF DeletePosition, OnePlace, TypeOK
  <2>6. NothingLost'
    BY <1>4, <2>1, <2>4 DEF DeletePosition, NothingLost, TypeOK
  <2> QED
    BY <2>2, <2>3, <2>5, <2>6
<1>5. CASE DeleteExchange(t)
  <2> DEFINE slot == SlotOf(pos[t])
  <2>1. slot \in Slots
    BY <1>0, Positions
  <2>2. PICK b \in Block \cup {nullptr} : b = mPool[slot]
    BY <2>1 DEF TypeOK
  <2>3. PICK h \in Block : h = hand[t]
    BY <1>5 DEF DeleteExchange, HandInUse, TypeOK
  <2> HIDE DEF slot
  <2>4. /\ mPool' = [mPool EXCEPT ![slot] = h]
        /\ hand' = [hand EXCEPT ![t] = b]
        /\ pc' = [pc EXCEPT ![t] = IF b = nullptr THEN "out" ELSE "free"]
        /\ UNCHANGED <<mHeadPos, mTailPos, heap, live, pos>>
    BY <1>5, <2>2, <2>3 DEF DeleteExchange, slot
  <2>5. TypeOK'
    BY <2>1, <2>4 DEF TypeOK, Labels
  <2>6. HandInUse'
    BY <2>4 DEF HandInUse, TypeOK
  <2>7. h # nullptr
    BY <2>3, PoolAssumption
  <2>8. OnePlace'
    BY <2>1, <2>2, <2>3, <2>4, <2>7 DEF OnePlace, TypeOK
  <2>9. NothingLost'
    BY <2>1, <2>2, <2>3, <2>4, <2>7, PoolAssumption DEF NothingLost, TypeOK
  <2> QED
    BY <2>5, <2>6, <2>8, <2>9
<1>6. CASE DeleteFree(t)
  <2>1. PICK h \in Block : h = hand[t]
    BY <1>6 DEF DeleteFree, HandInUse, TypeOK
  <2>2. h # nullptr
    BY <2>1, PoolAssumption
  <2>3. TypeOK'
    BY <1>6, <2>1 DEF DeleteFree, TypeOK, Labels
  <2>4. HandInUse'
    BY <1>6 DEF DeleteFree, HandInUse, TypeOK
  <2>5. OnePlace'
    BY <1>6, <2>1, <2>2, PoolAssumption DEF DeleteFree, OnePlace, TypeOK
  <2>6. NothingLost'
    BY <1>6, <2>1, <2>2 DEF DeleteFree, NothingLost, TypeOK
  <2> QED
    BY <2>3, <2>4, <2>5, <2>6
<1> QED
  BY <1>1, <1>2, <1>3, <1>4, <1>5, <1>6 DEF Step

(* The invariant holds always.                                             *)
LEMMA InvInductive == Spec => []Inv
<1>1. Inv /\ UNCHANGED vars => Inv'
  BY DEF Inv, TypeOK, HandInUse, OnePlace, NothingLost, vars
<1>2. Inv /\ [Next]_vars => Inv'
  BY <1>1, PrepareInv, StepInv DEF Next
<1> QED
  BY <1>2, InitInv, PTL DEF Spec

(* Whatever the threads do between their increment and their exchange in   *)
(* operator new and operator delete, every block has at most one place.    *)
THEOREM BlocksApart == Spec => []OnePlace
<1>1. Inv => OnePlace
  BY DEF Inv
<1> QED
  BY <1>1, InvInductive, PTL

(* No block is forgotten by a delete that finds its slot taken or by a new *)
(* that finds it empty (ObjectPool.h, operator new and operator delete).   *)
THEOREM BlocksKept == Spec => []NothingLost
<1>1. Inv => NothingLost
  BY DEF Inv
<1> QED
  BY <1>1, InvInductive, PTL
=============================================================================
