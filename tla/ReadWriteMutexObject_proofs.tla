-------------------- MODULE ReadWriteMutexObject_proofs --------------------
(* Machine-checked proofs about ReadWriteMutexObject, for any finite set of *)
(* threads.                                                                 *)
EXTENDS ReadWriteMutexObject, FiniteSetTheorems, TLAPS

\* The counter counts the threads between their increment and decrement.
Readers == {t \in Threads : pc[t] \in {"counted", "reading"}}

CountIsReaders == m_read_lock_count = Cardinality(Readers)

Holding == {"count", "counted", "recheck", "backOff", "writing"}

MutexIsHeld ==
  \A t \in Threads : m_write_lock = t <=> pc[t] \in Holding

Locations ==
  {"idle", "wantRead", "count", "counted", "reading", "waitReaders",
   "wantWrite", "recheck", "backOff", "writing"}

\* What holds of the members' types without knowing that the counter counts.
WeakType ==
  /\ m_read_lock_count \in Int
  /\ m_write_lock \in Threads \cup {"free"}
  /\ pc \in [Threads -> Locations]

\* The readers that m_read_lock counts are finitely many.
LEMMA ReadersFinite ==
  /\ IsFiniteSet(Readers)
  /\ Cardinality(Readers) \in Nat
  /\ Cardinality(Readers) = 0 <=> Readers = {}
<1>1. IsFiniteSet(Readers)
  BY ThreadsAssumption, FS_Subset DEF Readers
<1> QED
  BY <1>1, FS_CardinalityType, FS_EmptySet

\* A step that is not a reader's in- or decrement keeps the set of readers.
LEMMA CountStep ==
  ASSUME WeakType, CountIsReaders, [Next]_vars
  PROVE  CountIsReaders'
<1> USE DEF WeakType, Goto, Acquire, Free, vars, lockVars, CountIsReaders
<1>1. ASSUME NEW t \in Threads, CountReader(t)
      PROVE  CountIsReaders'
  <2>1. Readers' = Readers \cup {t} /\ t \notin Readers
    BY <1>1 DEF CountReader, Readers
  <2>2. Cardinality(Readers') = Cardinality(Readers) + 1
    BY <2>1, ReadersFinite, FS_AddElement
  <2> QED
    BY <1>1, <2>2 DEF CountReader
<1>2. ASSUME NEW t \in Threads, EndRead(t)
      PROVE  CountIsReaders'
  <2>1. Readers' = Readers \ {t} /\ t \in Readers
    BY <1>2 DEF EndRead, Readers
  <2>2. Cardinality(Readers') = Cardinality(Readers) - 1
    BY <2>1, ReadersFinite, FS_RemoveElement
  <2> QED
    BY <1>2, <2>2 DEF EndRead
<1>3. ASSUME NEW t \in Threads,
             CallRead(t) \/ CallWrite(t) \/ Lock(t) \/ UnlockForRead(t)
               \/ WaitReaders(t) \/ Recheck(t) \/ BackOff(t) \/ EndWrite(t)
      PROVE  CountIsReaders'
  <2>1. Readers' = Readers /\ UNCHANGED m_read_lock_count
    BY <1>3 DEF CallRead, CallWrite, Lock, LockForRead, LockForWrite,
                UnlockForRead, WaitReaders, Recheck, BackOff, EndWrite, Readers
  <2> QED
    BY <2>1
<1>4. CASE UNCHANGED vars
  BY <1>4 DEF Readers
<1> QED
  BY <1>1, <1>2, <1>3, <1>4 DEF Next, Step

\* The mutex is held by the thread whose location says so.
LEMMA MutexStep ==
  ASSUME WeakType, MutexIsHeld, [Next]_vars
  PROVE  WeakType' /\ MutexIsHeld'
<1> USE ThreadsAssumption
    DEF WeakType, MutexIsHeld, Locations, Holding, Goto, Acquire, Free, vars,
        lockVars
<1>1. ASSUME NEW t \in Threads,
             CallRead(t) \/ CallWrite(t) \/ CountReader(t) \/ EndRead(t)
               \/ WaitReaders(t) \/ Recheck(t)
      PROVE  WeakType' /\ MutexIsHeld'
  BY <1>1 DEF CallRead, CallWrite, CountReader, EndRead, WaitReaders, Recheck
<1>2. ASSUME NEW t \in Threads, Lock(t)
      PROVE  WeakType' /\ MutexIsHeld'
  BY <1>2 DEF Lock, LockForRead, LockForWrite
<1>3. ASSUME NEW t \in Threads, UnlockForRead(t) \/ BackOff(t) \/ EndWrite(t)
      PROVE  WeakType' /\ MutexIsHeld'
  BY <1>3 DEF UnlockForRead, BackOff, EndWrite
<1>4. CASE UNCHANGED vars
  BY <1>4
<1> QED
  BY <1>1, <1>2, <1>3, <1>4 DEF Next, Step

\* A writer excludes everybody: it saw no reader while it held the mutex.
LEMMA ExclusionStep ==
  ASSUME WeakType, MutexIsHeld, CountIsReaders, Exclusion, [Next]_vars
  PROVE  Exclusion'
<1> USE DEF Exclusion, WeakType, Locations, Goto, vars, lockVars
<1>1. ASSUME NEW t \in Threads, CountReader(t)
      PROVE  Exclusion'
  <2>1. \A u \in Threads \ {t} : pc[u] # "writing"
    BY <1>1 DEF CountReader, MutexIsHeld, Holding
  <2> QED
    BY <1>1, <2>1 DEF CountReader
<1>2. ASSUME NEW t \in Threads, Recheck(t)
      PROVE  Exclusion'
  <2>1. \A u \in Threads \ {t} : pc[u] \notin {"writing", "counted"}
    BY <1>2 DEF Recheck, MutexIsHeld, Holding
  <2>2. CASE m_read_lock_count = 0
    <3>1. Readers = {}
      BY <2>2, ReadersFinite DEF CountIsReaders
    <3>2. \A u \in Threads : pc[u] \notin {"counted", "reading"}
      BY <3>1 DEF Readers
    <3> QED
      BY <1>2, <2>1, <3>2 DEF Recheck
  <2>3. CASE m_read_lock_count # 0
    BY <1>2, <2>3 DEF Recheck
  <2> QED
    BY <2>2, <2>3
<1>3. ASSUME NEW t \in Threads,
             CallRead(t) \/ CallWrite(t) \/ Lock(t) \/ UnlockForRead(t)
               \/ EndRead(t) \/ WaitReaders(t) \/ BackOff(t) \/ EndWrite(t)
      PROVE  Exclusion'
  BY <1>3 DEF CallRead, CallWrite, Lock, LockForRead, LockForWrite,
              UnlockForRead, EndRead, WaitReaders, BackOff, EndWrite
<1>4. CASE UNCHANGED vars
  BY <1>4
<1> QED
  BY <1>1, <1>2, <1>3, <1>4 DEF Next, Step

\* The three parts hold together from the constructor on.
LEMMA InvariantHolds ==
  Spec => [](WeakType /\ MutexIsHeld /\ CountIsReaders /\ Exclusion)
<1>1. Init => WeakType /\ MutexIsHeld /\ CountIsReaders /\ Exclusion
  <2> SUFFICES ASSUME Init
               PROVE  WeakType /\ MutexIsHeld /\ CountIsReaders /\ Exclusion
    OBVIOUS
  <2>1. Readers = {}
    BY DEF Init, Readers
  <2>2. CountIsReaders
    BY <2>1, FS_EmptySet DEF Init, CountIsReaders
  <2>3. WeakType /\ MutexIsHeld /\ Exclusion
    BY ThreadsAssumption
       DEF Init, WeakType, Locations, MutexIsHeld, Holding, Exclusion
  <2> QED
    BY <2>2, <2>3
<1>2. WeakType /\ MutexIsHeld /\ CountIsReaders /\ Exclusion /\ [Next]_vars
      => (WeakType /\ MutexIsHeld /\ CountIsReaders /\ Exclusion)'
  BY CountStep, MutexStep, ExclusionStep
<1> QED
  BY <1>1, <1>2, PTL DEF Spec

\* The counter never goes below 0 and the mutex has a thread or nobody.
THEOREM TypeCorrect == Spec => []TypeOK
<1>1. WeakType /\ CountIsReaders => TypeOK
  BY ReadersFinite DEF WeakType, Locations, CountIsReaders, TypeOK
<1> QED
  BY <1>1, InvariantHolds, PTL

\* Readers and writers exclude each other as the class promises.
THEOREM ExclusionCorrect == Spec => []Exclusion
<1> QED
  BY InvariantHolds, PTL
=============================================================================
