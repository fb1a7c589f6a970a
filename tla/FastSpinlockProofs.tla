------------------------- MODULE FastSpinlockProofs -------------------------
(***************************************************************************)
(* FastSpinlock excludes and implements ReadWriteLock, for every set of    *)
(* fewer than 2048 threads.                                                *)
(***************************************************************************)
EXTENDS FastSpinlock, FiniteSetTheorems, TLAPS

WriterLabels == {"write drain", "write undo", "write"}
ReaderLabels == {"read undo", "read"}

(* mLockFlag with n writers and m readers counted in it.                   *)
Word(n, m) == LF_WRITE_FLAG * n + m

(* The counts that fit.                                                    *)
Small == 0 .. 2047

(* The masks take the two counts apart while both fit in their bits.       *)
LEMMA Bits ==
  ASSUME NEW n \in Small, NEW m \in Small
  PROVE  WriteBits(Word(n, m)) = n /\ ReadBits(Word(n, m)) = m
<1>1. (1048576 * n + m) \div 1048576 = n
  BY SMT DEF Small
<1>2. n % 2048 = n
  BY SMT DEF Small
<1>3. (1048576 * n + m) % 1048576 = m
  BY SMT DEF Small
<1> QED
  BY <1>1, <1>2, <1>3 DEF WriteBits, ReadBits, LF_WRITE_FLAG, Word

(* The interlocked additions count one writer or one reader.               *)
LEMMA WordArithmetic ==
  ASSUME NEW n \in Small, NEW m \in Small
  PROVE  /\ Word(n, m) + LF_WRITE_FLAG = Word(n + 1, m)
         /\ Word(n, m) - LF_WRITE_FLAG = Word(n - 1, m)
         /\ Word(n, m) + 1 = Word(n, m + 1)
         /\ Word(n, m) - 1 = Word(n, m - 1)
BY SMT DEF LF_WRITE_FLAG, Word, Small

(* How many threads stand at the labels L.                                 *)
Tally(f, L) == Cardinality({u \in Thread : f[u] \in L})

(* A tally is bounded by the threads, and zero when nobody stands there.   *)
LEMMA Count ==
  ASSUME NEW f, NEW L
  PROVE  /\ Tally(f, L) \in Small
         /\ Tally(f, L) = 0 => \A u \in Thread : f[u] \notin L
<1> DEFINE here == {u \in Thread : f[u] \in L}
<1>1. here \in SUBSET Thread
  OBVIOUS
<1>2. here = {} => \A u \in Thread : f[u] \notin L
  OBVIOUS
<1> HIDE DEF here
<1>3. Cardinality(Thread) \in Nat /\ Cardinality(Thread) < 2048
  BY FS_CardinalityType, ThreadAssumption
<1>4. IsFiniteSet(here) /\ Cardinality(here) <= Cardinality(Thread)
  BY <1>1, FS_Subset, ThreadAssumption
<1>5. Cardinality(here) \in Nat /\ (Cardinality(here) = 0 => here = {})
  BY <1>4, FS_CardinalityType, FS_EmptySet
<1>6. Cardinality(here) \in Small
  <2> DEFINE n == Cardinality(Thread) h == Cardinality(here)
  <2>1. n \in Nat /\ n < 2048 /\ h \in Nat /\ h <= n
    BY <1>3, <1>4, <1>5
  <2> HIDE DEF n, h
  <2>2. h \in 0 .. 2047
    BY <2>1
  <2> QED
    BY <2>2 DEF h, Small
<1>7. Tally(f, L) = Cardinality(here)
  BY DEF Tally, here
<1> QED
  BY <1>2, <1>5, <1>6, <1>7

(* What a move does to a tally.                                            *)
LEMMA MoveCount ==
  ASSUME NEW L, NEW t \in Thread, NEW from \in Label, NEW to \in Label,
         pc \in [Thread -> Label], Move(t, from, to)
  PROVE  /\ from \in L /\ to \in L => Tally(pc', L) = Tally(pc, L)
         /\ from \in L /\ to \notin L => Tally(pc', L) = Tally(pc, L) - 1
         /\ from \notin L /\ to \in L => Tally(pc', L) = Tally(pc, L) + 1
         /\ from \notin L /\ to \notin L => Tally(pc', L) = Tally(pc, L)
<1> DEFINE before == {u \in Thread : pc[u] \in L}
           after  == {u \in Thread : pc'[u] \in L}
<1>1. IsFiniteSet(before)
  BY FS_Subset, ThreadAssumption
<1>2. pc[t] = from /\ pc'[t] = to /\ \A u \in Thread \ {t} : pc'[u] = pc[u]
  BY DEF Move
<1>3. /\ from \in L /\ to \in L => after = before
      /\ from \in L /\ to \notin L => after = before \ {t} /\ t \in before
      /\ from \notin L /\ to \in L => after = before \cup {t} /\ t \notin before
      /\ from \notin L /\ to \notin L => after = before
  BY <1>2
<1>4. Tally(pc, L) = Cardinality(before) /\ Tally(pc', L) = Cardinality(after)
  BY DEF Tally
<1> HIDE DEF before, after
<1>5. /\ t \in before => Cardinality(before \ {t}) = Cardinality(before) - 1
      /\ t \notin before => Cardinality(before \cup {t}) = Cardinality(before) + 1
  BY <1>1, FS_AddElement, FS_RemoveElement
<1> QED
  BY <1>3, <1>4, <1>5

-----------------------------------------------------------------------------
(* At most one writer has got past its addition.                           *)
OneOwner ==
  \A t, u \in Thread :
     pc[t] \in {"write drain", "write"} /\ pc[u] \in {"write drain", "write"}
       => t = u

(* Nobody reads while somebody writes.                                     *)
NoReader ==
  \A t, u \in Thread : pc[t] = "write" => pc[u] # "read"

(* Exclusion alone is not inductive: it does not say that the word counts  *)
(* the threads, nor that the writer waiting for readers is alone.          *)
IInv == TypeOK /\ OneOwner /\ NoReader

(* The writers and the readers that are counted.                           *)
W(f) == Tally(f, WriterLabels)
R(f) == Tally(f, ReaderLabels)

(* TypeOK in terms of the tallies.                                         *)
LEMMA WordFacts ==
  /\ TypeOK <=> pc \in [Thread -> Label] /\ mLockFlag = Word(W(pc), R(pc))
  /\ pc' \in [Thread -> Label] /\ mLockFlag' = Word(W(pc'), R(pc')) => TypeOK'
BY DEF TypeOK, Word, W, R, Tally, Writers, Readers, Standing, WriterLabels,
       ReaderLabels

(* What the word tells of where the threads stand.                         *)
LEMMA WordTells ==
  ASSUME TypeOK
  PROVE  /\ W(pc) \in Small /\ R(pc) \in Small
         /\ mLockFlag = Word(W(pc), R(pc))
         /\ WriteBits(mLockFlag) = W(pc)
         /\ ReadBits(mLockFlag) = R(pc)
<1>1. W(pc) \in Small /\ R(pc) \in Small
  BY Count DEF W, R
<1>2. mLockFlag = Word(W(pc), R(pc))
  BY WordFacts
<1> QED
  BY <1>1, <1>2, Bits

(* A step that moves a thread, and the word with the tallies.              *)
LEMMA MoveKept ==
  ASSUME TypeOK, NEW t \in Thread, NEW from \in Label, NEW to \in Label,
         Move(t, from, to)
  PROVE  /\ pc \in [Thread -> Label] /\ pc[t] = from
         /\ pc' = [pc EXCEPT ![t] = to]
         /\ mLockFlag' = Word(W(pc'), R(pc')) => TypeOK'
<1>1. pc \in [Thread -> Label]
  BY DEF TypeOK
<1>2. pc' \in [Thread -> Label]
  BY <1>1 DEF Move
<1> QED
  BY <1>1, <1>2, WordFacts DEF Move

-----------------------------------------------------------------------------
(* Initially nobody is counted.                                            *)
LEMMA InitIInv == Init => IInv
<1> SUFFICES ASSUME Init PROVE IInv
  OBVIOUS
<1>1. Writers = {} /\ Readers = {}
  BY DEF Init, Writers, Readers, Standing
<1>2. TypeOK
  BY <1>1, FS_EmptySet DEF Init, TypeOK, Label, LF_WRITE_FLAG
<1> QED
  BY <1>2 DEF Init, IInv, OneOwner, NoReader

(* The moves that leave the word alone.                                    *)
LEMMA QuietStep ==
  ASSUME IInv, NEW t \in Thread, NEW from \in Label, NEW to \in Label,
         Move(t, from, to), UNCHANGED mLockFlag,
         from \in WriterLabels <=> to \in WriterLabels,
         from \in ReaderLabels <=> to \in ReaderLabels
  PROVE  TypeOK'
<1>1. TypeOK /\ pc \in [Thread -> Label]
  BY DEF IInv, TypeOK
<1>2. W(pc') = W(pc) /\ R(pc') = R(pc)
  BY <1>1, MoveCount DEF W, R
<1>3. mLockFlag' = Word(W(pc'), R(pc'))
  BY <1>1, <1>2, WordTells
<1> QED
  BY <1>1, <1>3, MoveKept

(* A writer announces itself.                                              *)
LEMMA AddWriter ==
  ASSUME IInv, NEW t \in Thread, NEW from \in Label, NEW to \in Label,
         Move(t, from, to), mLockFlag' = mLockFlag + LF_WRITE_FLAG,
         from \notin WriterLabels, to \in WriterLabels,
         from \notin ReaderLabels, to \notin ReaderLabels
  PROVE  TypeOK' /\ WriteBits(mLockFlag') = W(pc) + 1
<1>1. TypeOK /\ pc \in [Thread -> Label]
  BY DEF IInv, TypeOK
<1>2. W(pc') = W(pc) + 1 /\ R(pc') = R(pc)
  BY <1>1, MoveCount DEF W, R
<1>3. mLockFlag' = Word(W(pc'), R(pc'))
  BY <1>1, <1>2, WordTells, WordArithmetic
<1>4. TypeOK'
  BY <1>1, <1>3, MoveKept
<1>5. W(pc') \in Small /\ R(pc') \in Small
  BY Count DEF W, R
<1> QED
  BY <1>2, <1>3, <1>4, <1>5, Bits

(* A writer takes its announcement back.                                   *)
LEMMA DropWriter ==
  ASSUME IInv, NEW t \in Thread, NEW from \in Label, NEW to \in Label,
         Move(t, from, to), mLockFlag' = mLockFlag - LF_WRITE_FLAG,
         from \in WriterLabels, to \notin WriterLabels,
         from \notin ReaderLabels, to \notin ReaderLabels
  PROVE  TypeOK'
<1>1. TypeOK /\ pc \in [Thread -> Label]
  BY DEF IInv, TypeOK
<1>2. W(pc') = W(pc) - 1 /\ R(pc') = R(pc)
  BY <1>1, MoveCount DEF W, R
<1>3. mLockFlag' = Word(W(pc'), R(pc'))
  BY <1>1, <1>2, WordTells, WordArithmetic
<1> QED
  BY <1>1, <1>3, MoveKept

(* A reader announces itself.                                              *)
LEMMA AddReader ==
  ASSUME IInv, NEW t \in Thread, NEW from \in Label, NEW to \in Label,
         Move(t, from, to), mLockFlag' = mLockFlag + 1,
         from \notin WriterLabels, to \notin WriterLabels,
         from \notin ReaderLabels, to \in ReaderLabels
  PROVE  TypeOK' /\ WriteBits(mLockFlag') = W(pc)
<1>1. TypeOK /\ pc \in [Thread -> Label]
  BY DEF IInv, TypeOK
<1>2. W(pc') = W(pc) /\ R(pc') = R(pc) + 1
  BY <1>1, MoveCount DEF W, R
<1>3. mLockFlag' = Word(W(pc'), R(pc'))
  BY <1>1, <1>2, WordTells, WordArithmetic
<1>4. TypeOK'
  BY <1>1, <1>3, MoveKept
<1>5. W(pc') \in Small /\ R(pc') \in Small
  BY Count DEF W, R
<1> QED
  BY <1>2, <1>3, <1>4, <1>5, Bits

(* A reader takes its announcement back.                                   *)
LEMMA DropReader ==
  ASSUME IInv, NEW t \in Thread, NEW from \in Label, NEW to \in Label,
         Move(t, from, to), mLockFlag' = mLockFlag - 1,
         from \notin WriterLabels, to \notin WriterLabels,
         from \in ReaderLabels, to \notin ReaderLabels
  PROVE  TypeOK'
<1>1. TypeOK /\ pc \in [Thread -> Label]
  BY DEF IInv, TypeOK
<1>2. W(pc') = W(pc) /\ R(pc') = R(pc) - 1
  BY <1>1, MoveCount DEF W, R
<1>3. mLockFlag' = Word(W(pc'), R(pc'))
  BY <1>1, <1>2, WordTells, WordArithmetic
<1> QED
  BY <1>1, <1>3, MoveKept

(* A move that brings nobody further into the lock keeps the rest of IInv. *)
LEMMA BackwardStep ==
  ASSUME IInv, NEW t \in Thread, NEW from \in Label, NEW to \in Label,
         Move(t, from, to), TypeOK',
         to \notin {"write drain", "write", "read"}
  PROVE  IInv'
<1>1. pc \in [Thread -> Label] /\ pc' = [pc EXCEPT ![t] = to]
  BY MoveKept DEF IInv
<1> QED
  BY <1>1 DEF IInv, OneOwner, NoReader

-----------------------------------------------------------------------------
(* Every step keeps the inductive invariant.                               *)
LEMMA StepIInv == IInv /\ [Next]_vars => IInv'
<1> SUFFICES ASSUME IInv, [Next]_vars PROVE IInv'
  OBVIOUS
<1> USE DEF Label, WriterLabels, ReaderLabels
<1>1. CASE UNCHANGED vars
  BY <1>1 DEF vars, IInv, OneOwner, NoReader, TypeOK, Writers, Readers, Standing
<1>2. ASSUME NEW t \in Thread, EnterWriteLock(t) PROVE IInv'
  BY <1>2, QuietStep, BackwardStep DEF EnterWriteLock
<1>3. ASSUME NEW t \in Thread, WriteTest(t) PROVE IInv'
  BY <1>3, QuietStep, BackwardStep DEF WriteTest
<1>4. ASSUME NEW t \in Thread, WriteAdd(t) PROVE IInv'
  <2>1. CASE WriteBits(mLockFlag') = 1
    <3>1. /\ Move(t, "write add", "write drain")
          /\ mLockFlag' = mLockFlag + LF_WRITE_FLAG
      BY <1>4, <2>1 DEF WriteAdd
    <3>2. TypeOK' /\ W(pc) + 1 = 1
      BY <2>1, <3>1, AddWriter
    <3>3. W(pc) = 0
      BY <3>2, WordTells DEF IInv, Small
    <3>4. \A u \in Thread : pc[u] \notin WriterLabels
      BY <3>3, Count DEF W
    <3>5. pc \in [Thread -> Label] /\ pc' = [pc EXCEPT ![t] = "write drain"]
      BY <3>1, MoveKept DEF IInv
    <3> QED
      BY <3>2, <3>4, <3>5 DEF IInv, OneOwner, NoReader
  <2>2. CASE WriteBits(mLockFlag') # 1
    <3>1. /\ Move(t, "write add", "write undo")
          /\ mLockFlag' = mLockFlag + LF_WRITE_FLAG
      BY <1>4, <2>2 DEF WriteAdd
    <3> QED
      BY <3>1, AddWriter, BackwardStep
  <2> QED
    BY <2>1, <2>2
<1>5. ASSUME NEW t \in Thread, WriteDrain(t) PROVE IInv'
  <2>1. /\ Move(t, "write drain", "write") /\ UNCHANGED mLockFlag
        /\ ReadBits(mLockFlag) = 0
    BY <1>5 DEF WriteDrain
  <2>2. TypeOK'
    BY <2>1, QuietStep
  <2>3. \A u \in Thread : pc[u] \notin ReaderLabels
    BY <2>1, WordTells, Count DEF R, IInv
  <2>4. /\ pc \in [Thread -> Label] /\ pc[t] = "write drain"
        /\ pc' = [pc EXCEPT ![t] = "write"]
    BY <2>1, MoveKept DEF IInv
  <2> QED
    BY <2>2, <2>3, <2>4 DEF IInv, OneOwner, NoReader
<1>6. ASSUME NEW t \in Thread, WriteUndo(t) PROVE IInv'
  BY <1>6, DropWriter, BackwardStep DEF WriteUndo
<1>7. ASSUME NEW t \in Thread, LeaveWriteLock(t) PROVE IInv'
  BY <1>7, DropWriter, BackwardStep DEF LeaveWriteLock
<1>8. ASSUME NEW t \in Thread, EnterReadLock(t) PROVE IInv'
  BY <1>8, QuietStep, BackwardStep DEF EnterReadLock
<1>9. ASSUME NEW t \in Thread, ReadTest(t) PROVE IInv'
  BY <1>9, QuietStep, BackwardStep DEF ReadTest
<1>10. ASSUME NEW t \in Thread, ReadAdd(t) PROVE IInv'
  <2>1. CASE WriteBits(mLockFlag') = 0
    <3>1. Move(t, "read add", "read") /\ mLockFlag' = mLockFlag + 1
      BY <1>10, <2>1 DEF ReadAdd
    <3>2. TypeOK' /\ W(pc) = 0
      BY <2>1, <3>1, AddReader
    <3>3. \A u \in Thread : pc[u] \notin WriterLabels
      BY <3>2, Count DEF W
    <3>4. pc \in [Thread -> Label] /\ pc' = [pc EXCEPT ![t] = "read"]
      BY <3>1, MoveKept DEF IInv
    <3> QED
      BY <3>2, <3>3, <3>4 DEF IInv, OneOwner, NoReader
  <2>2. CASE WriteBits(mLockFlag') # 0
    <3>1. Move(t, "read add", "read undo") /\ mLockFlag' = mLockFlag + 1
      BY <1>10, <2>2 DEF ReadAdd
    <3> QED
      BY <3>1, AddReader, BackwardStep
  <2> QED
    BY <2>1, <2>2
<1>11. ASSUME NEW t \in Thread, ReadUndo(t) PROVE IInv'
  BY <1>11, DropReader, BackwardStep DEF ReadUndo
<1>12. ASSUME NEW t \in Thread, LeaveReadLock(t) PROVE IInv'
  BY <1>12, DropReader, BackwardStep DEF LeaveReadLock
<1> QED
  BY <1>1, <1>2, <1>3, <1>4, <1>5, <1>6, <1>7, <1>8, <1>9, <1>10, <1>11, <1>12
  DEF Next, Write, Read

(* The inductive invariant holds in every reachable state.                 *)
THEOREM Invariance == Spec => []IInv
<1>1. Init => IInv
  BY InitIInv
<1>2. IInv /\ [Next]_vars => IInv'
  BY StepIInv
<1> QED
  BY <1>1, <1>2, PTL DEF Spec

(* mLockFlag always counts exactly the announced writers and readers, so   *)
(* neither half of the word overflows into the other.                      *)
THEOREM WordCounts == Spec => []TypeOK
<1>1. IInv => TypeOK
  BY DEF IInv
<1> QED
  BY <1>1, Invariance, PTL

(* EnterWriteLock returns to one thread at a time and never while          *)
(* EnterReadLock has let a reader in.                                      *)
THEOREM MutualExclusion == Spec => []Exclusion
<1>1. IInv => Exclusion
  BY DEF IInv, OneOwner, NoReader, Exclusion
<1> QED
  BY <1>1, Invariance, PTL

-----------------------------------------------------------------------------
(* Every step of FastSpinlock is a step of ReadWriteLock, or none.         *)
LEMMA StepRefines ==
  ASSUME IInv, IInv', [Next]_vars
  PROVE  [Lock!Next]_<<Standing({"write"}), Standing({"read"})>>
<1>1. CASE UNCHANGED vars
  BY <1>1 DEF vars, Standing
<1>2. ASSUME NEW t \in Thread, NEW from \in Label, NEW to \in Label,
             Move(t, from, to),
             from \notin {"write", "read"}, to \notin {"write", "read"}
      PROVE  UNCHANGED <<Standing({"write"}), Standing({"read"})>>
  <2>1. /\ pc \in [Thread -> Label] /\ pc[t] = from
        /\ pc' = [pc EXCEPT ![t] = to]
    BY <1>2, MoveKept DEF IInv
  <2>2. \A u \in Thread : pc'[u] = "write" <=> pc[u] = "write"
    BY <1>2, <2>1
  <2>3. \A u \in Thread : pc'[u] = "read" <=> pc[u] = "read"
    BY <1>2, <2>1
  <2> QED
    BY <2>2, <2>3 DEF Standing
<1>3. ASSUME NEW t \in Thread, WriteDrain(t) PROVE Lock!EnterWrite(t)
  <2>1. /\ pc \in [Thread -> Label] /\ pc[t] = "write drain"
        /\ pc' = [pc EXCEPT ![t] = "write"]
    BY <1>3, MoveKept DEF IInv, WriteDrain, Label
  <2>2. \A u \in Thread : pc[u] # "write"
    BY <2>1 DEF IInv, OneOwner
  <2>3. \A u \in Thread : pc'[u] # "read"
    BY <2>1 DEF IInv, NoReader
  <2> QED
    BY <2>1, <2>2, <2>3 DEF Lock!EnterWrite, Standing
<1>4. ASSUME NEW t \in Thread, LeaveWriteLock(t) PROVE Lock!LeaveWrite(t)
  <2>1. /\ pc \in [Thread -> Label] /\ pc[t] = "write"
        /\ pc' = [pc EXCEPT ![t] = "out"]
    BY <1>4, MoveKept DEF IInv, LeaveWriteLock, Label
  <2>2. \A u \in Thread : pc[u] = "write" => u = t
    BY <2>1 DEF IInv, OneOwner
  <2> QED
    BY <2>1, <2>2 DEF Lock!LeaveWrite, Standing
<1>5. ASSUME NEW t \in Thread, ReadAdd(t)
      PROVE  Lock!EnterRead(t) \/ UNCHANGED <<Standing({"write"}), Standing({"read"})>>
  <2>1. CASE Move(t, "read add", "read")
    <3>1. /\ pc \in [Thread -> Label] /\ pc[t] = "read add"
          /\ pc' = [pc EXCEPT ![t] = "read"]
      BY <2>1, MoveKept DEF IInv, Label
    <3>2. \A u \in Thread : pc[u] # "write"
      BY <3>1 DEF IInv, NoReader
    <3> QED
      BY <3>1, <3>2 DEF Lock!EnterRead, Standing
  <2>2. CASE Move(t, "read add", "read undo")
    BY <2>2, <1>2 DEF Label
  <2> QED
    BY <1>5, <2>1, <2>2 DEF ReadAdd
<1>6. ASSUME NEW t \in Thread, LeaveReadLock(t) PROVE Lock!LeaveRead(t)
  <2>1. /\ pc \in [Thread -> Label] /\ pc[t] = "read"
        /\ pc' = [pc EXCEPT ![t] = "out"]
    BY <1>6, MoveKept DEF IInv, LeaveReadLock, Label
  <2> QED
    BY <2>1 DEF Lock!LeaveRead, Standing
<1>7. ASSUME NEW t \in Thread,
             EnterWriteLock(t) \/ WriteTest(t) \/ WriteAdd(t) \/ WriteUndo(t)
               \/ EnterReadLock(t) \/ ReadTest(t) \/ ReadUndo(t)
      PROVE  UNCHANGED <<Standing({"write"}), Standing({"read"})>>
  <2>1. PICK from \in Label \ {"write", "read"}, to \in Label \ {"write", "read"} :
          Move(t, from, to)
    BY <1>7 DEF EnterWriteLock, WriteTest, WriteAdd, WriteUndo, EnterReadLock,
                ReadTest, ReadUndo, Label
  <2> QED
    BY <2>1, <1>2
<1> QED
  BY <1>1, <1>3, <1>4, <1>5, <1>6, <1>7 DEF Next, Write, Read, Lock!Next

(* FastSpinlock implements the read-write lock on which the models of its  *)
(* users rely.                                                             *)
THEOREM ImplementsLock == Spec => IsLock
<1>1. Init => Lock!Init
  BY DEF Init, Lock!Init, Standing
<1>2. IInv /\ IInv' /\ [Next]_vars
        => [Lock!Next]_<<Standing({"write"}), Standing({"read"})>>
  BY StepRefines
<1> QED
  BY <1>1, <1>2, Invariance, PTL DEF Spec, IsLock, Lock!Spec
=============================================================================
