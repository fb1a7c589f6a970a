---------------------------- MODULE FastSpinlock ----------------------------
(***************************************************************************)
(* FastSpinlock (FastSpinlock.cpp), the lock behind mLock, mSendBufferLock *)
(* and the object pools' ClassTypeLocks: one word, mLockFlag, that counts  *)
(* the writers from bit 20 up and the readers below.  A thread announces   *)
(* itself with an interlocked addition, looks at the other half, and takes *)
(* the announcement back when it has lost.  Every access to mLockFlag is   *)
(* one step.                                                               *)
(***************************************************************************)
EXTENDS Integers, FiniteSets

CONSTANT Thread

(* The 11 bits of LF_WRITE_MASK bound the threads.                         *)
ASSUME ThreadAssumption ==
  IsFiniteSet(Thread) /\ Cardinality(Thread) < 2048

VARIABLES mLockFlag,
          pc           \* where each thread stands; "out" holds nothing

vars == <<mLockFlag, pc>>

LF_WRITE_FLAG == 1048576

(* mLockFlag & LF_WRITE_MASK, in units of LF_WRITE_FLAG, and               *)
(* mLockFlag & LF_READ_MASK.                                               *)
WriteBits(flag) == (flag \div LF_WRITE_FLAG) % 2048
ReadBits(flag)  == flag % LF_WRITE_FLAG

Label == {"out", "write test", "write add", "write drain", "write undo",
          "write", "read test", "read add", "read undo", "read"}

Move(t, from, to) == pc[t] = from /\ pc' = [pc EXCEPT ![t] = to]

Init == mLockFlag = 0 /\ pc = [t \in Thread |-> "out"]

-----------------------------------------------------------------------------
(* EnterWriteLock and LeaveWriteLock.                                      *)

EnterWriteLock(t) == Move(t, "out", "write test") /\ UNCHANGED mLockFlag

(* wait a writelock                                                        *)
WriteTest(t) ==
  /\ WriteBits(mLockFlag) = 0
  /\ Move(t, "write test", "write add")
  /\ UNCHANGED mLockFlag

(* Mutant: the result of the addition is not looked at.                    *)
WriteAddBlindly(t) ==
  /\ mLockFlag' = mLockFlag + LF_WRITE_FLAG
  /\ Move(t, "write add", "write drain")

WriteAdd(t) ==
  /\ mLockFlag' = mLockFlag + LF_WRITE_FLAG
  /\ Move(t, "write add",
          IF WriteBits(mLockFlag') = 1 THEN "write drain" ELSE "write undo")

(* Mutant: the readers are not waited for.                                 *)
WriteDrainAtOnce(t) == Move(t, "write drain", "write") /\ UNCHANGED mLockFlag

(* wait a readlock                                                         *)
WriteDrain(t) ==
  /\ ReadBits(mLockFlag) = 0
  /\ Move(t, "write drain", "write")
  /\ UNCHANGED mLockFlag

(* Mutant: a writer that lost tries again without taking its flag back.    *)
WriteUndoForgotten(t) ==
  Move(t, "write undo", "write test") /\ UNCHANGED mLockFlag

WriteUndo(t) ==
  /\ mLockFlag' = mLockFlag - LF_WRITE_FLAG
  /\ Move(t, "write undo", "write test")

LeaveWriteLock(t) ==
  /\ mLockFlag' = mLockFlag - LF_WRITE_FLAG
  /\ Move(t, "write", "out")

-----------------------------------------------------------------------------
(* EnterReadLock and LeaveReadLock.                                        *)

EnterReadLock(t) == Move(t, "out", "read test") /\ UNCHANGED mLockFlag

(* wait a writelock                                                        *)
ReadTest(t) ==
  /\ WriteBits(mLockFlag) = 0
  /\ Move(t, "read test", "read add")
  /\ UNCHANGED mLockFlag

ReadAdd(t) ==
  /\ mLockFlag' = mLockFlag + 1
  /\ Move(t, "read add",
          IF WriteBits(mLockFlag') = 0 THEN "read" ELSE "read undo")

(* Mutant: a reader that lost retries without taking its count back.       *)
ReadUndoForgotten(t) ==
  Move(t, "read undo", "read test") /\ UNCHANGED mLockFlag

ReadUndo(t) ==
  /\ mLockFlag' = mLockFlag - 1
  /\ Move(t, "read undo", "read test")

LeaveReadLock(t) ==
  /\ mLockFlag' = mLockFlag - 1
  /\ Move(t, "read", "out")

-----------------------------------------------------------------------------
Write(t) ==
  WriteTest(t) \/ WriteAdd(t) \/ WriteDrain(t) \/ WriteUndo(t)
    \/ LeaveWriteLock(t)

Read(t) == ReadTest(t) \/ ReadAdd(t) \/ ReadUndo(t) \/ LeaveReadLock(t)

Next ==
  \E t \in Thread :
    EnterWriteLock(t) \/ EnterReadLock(t) \/ Write(t) \/ Read(t)

(* A thread that is in a call, or inside the lock, is scheduled and comes  *)
(* out in the end; nothing makes a thread want the lock.                   *)
Fairness == \A t \in Thread : WF_vars(Write(t) \/ Read(t))

Spec == Init /\ [][Next]_vars /\ Fairness

-----------------------------------------------------------------------------
(* Properties.                                                             *)

Standing(labels) == {t \in Thread : pc[t] \in labels}

(* Writers and readers that are counted in mLockFlag.                      *)
Writers == Standing({"write drain", "write undo", "write"})
Readers == Standing({"read undo", "read"})

(* The word never overflows its halves: it is exactly the number of        *)
(* writers and readers that have announced themselves.                     *)
TypeOK ==
  /\ pc \in [Thread -> Label]
  /\ mLockFlag = LF_WRITE_FLAG * Cardinality(Writers) + Cardinality(Readers)

(* Exclusive mode excludes everybody else, whatever the order of the       *)
(* interlocked additions and the tests between them.                       *)
Exclusion ==
  \A t, u \in Thread : pc[t] = "write" /\ t # u => pc[u] \notin {"write", "read"}

(* FastSpinlock implements the lock its users rely on.                     *)
Lock == INSTANCE ReadWriteLock WITH
          writing <- Standing({"write"}), reading <- Standing({"read"})
IsLock == Lock!Spec

(* The spinning is never in vain: while threads want the lock, some thread *)
(* gets it (though not every one: writers and readers may starve).         *)
Progress ==
  (\E t \in Thread : pc[t] # "out") ~> (\E t \in Thread : pc[t] \in {"write", "read"})
=============================================================================
