------------------------ MODULE ReadWriteMutexObject ------------------------
(***************************************************************************)
(* xhn::ReadWriteMutexObject (xstl/xhn_lock.hpp): a counter of readers and *)
(* a mutex.  A reader holds the mutex only to count itself; a writer waits *)
(* for the counter to be 0, takes the mutex, and looks at the counter      *)
(* again before it keeps the mutex for the life of its Instance.           *)
(***************************************************************************)
EXTENDS Integers, FiniteSets

CONSTANT Threads

ASSUME ThreadsAssumption == IsFiniteSet(Threads) /\ "free" \notin Threads

VARIABLES
  m_read_lock_count,
  m_write_lock,       \* the thread that holds the mutex, or "free"
  pc                  \* where each thread is

lockVars == <<m_read_lock_count, m_write_lock>>
vars     == <<lockVars, pc>>

Init ==
  /\ m_read_lock_count = 0
  /\ m_write_lock = "free"
  /\ pc = [t \in Threads |-> "idle"]

Goto(t, from, to) == pc[t] = from /\ pc' = [pc EXCEPT ![t] = to]
Acquire(t) == m_write_lock = "free" /\ m_write_lock' = t
Free       == m_write_lock' = "free"
-----------------------------------------------------------------------------
(* Operations with a mistake in them, each refuted by the property named. *)

NoRecheck(t) ==                      \* Exclusion
  Goto(t, "recheck", "writing") /\ UNCHANGED lockVars

KeepMutex(t) ==                      \* ReaderGetsIn, WriterGetsIn
  Goto(t, "backOff", "waitReaders") /\ UNCHANGED lockVars

ReleaseTwice(t) ==                   \* TypeOK
  /\ Goto(t, "reading", "idle")
  /\ m_read_lock_count' = m_read_lock_count - 2
  /\ UNCHANGED m_write_lock
-----------------------------------------------------------------------------
\* A thread asks for one access at a time.
CallRead(t)  == Goto(t, "idle", "wantRead") /\ UNCHANGED lockVars
CallWrite(t) == Goto(t, "idle", "waitReaders") /\ UNCHANGED lockVars

(* ReadLock(), and ~Instance() of a read lock. *)

LockForRead(t) ==
  Goto(t, "wantRead", "count") /\ Acquire(t) /\ UNCHANGED m_read_lock_count

CountReader(t) ==
  /\ Goto(t, "count", "counted")
  /\ m_read_lock_count' = m_read_lock_count + 1
  /\ UNCHANGED m_write_lock

UnlockForRead(t) ==
  Goto(t, "counted", "reading") /\ Free /\ UNCHANGED m_read_lock_count

EndRead(t) ==
  /\ Goto(t, "reading", "idle")
  /\ m_read_lock_count' = m_read_lock_count - 1
  /\ UNCHANGED m_write_lock

(* WriteLock(), and ~Instance() of a write lock. *)

WaitReaders(t) ==
  /\ m_read_lock_count = 0
  /\ Goto(t, "waitReaders", "wantWrite")
  /\ UNCHANGED lockVars

LockForWrite(t) ==
  Goto(t, "wantWrite", "recheck") /\ Acquire(t) /\ UNCHANGED m_read_lock_count

Recheck(t) ==
  /\ Goto(t, "recheck", IF m_read_lock_count = 0 THEN "writing" ELSE "backOff")
  /\ UNCHANGED lockVars

BackOff(t) ==
  Goto(t, "backOff", "waitReaders") /\ Free /\ UNCHANGED m_read_lock_count

EndWrite(t) ==
  Goto(t, "writing", "idle") /\ Free /\ UNCHANGED m_read_lock_count

Step(t) ==
  \/ CountReader(t) \/ UnlockForRead(t) \/ EndRead(t) \/ WaitReaders(t)
  \/ Recheck(t) \/ BackOff(t) \/ EndWrite(t)

Lock(t) == LockForRead(t) \/ LockForWrite(t)

Next == \E t \in Threads : CallRead(t) \/ CallWrite(t) \/ Lock(t) \/ Step(t)

\* Threads run, give their accesses back, and the mutex starves nobody.  A
\* writer's wait is only tested now and then: a counter that is 0 for moments
\* may be missed.
Fairness == \A t \in Threads : WF_vars(Step(t)) /\ SF_vars(Lock(t))

Spec == Init /\ [][Next]_vars /\ Fairness
-----------------------------------------------------------------------------
(* Properties. *)

\* Every variable keeps its type; the counter never drops below 0.
TypeOK ==
  /\ m_read_lock_count \in Nat
  /\ m_write_lock \in Threads \cup {"free"}
  /\ pc \in [Threads ->
       {"idle", "wantRead", "count", "counted", "reading", "waitReaders",
        "wantWrite", "recheck", "backOff", "writing"}]

\* Nobody reads or writes under a writer, although a reader may be counted
\* between a writer's wait for the counter and its lock of the mutex.
Exclusion ==
  \A t, u \in Threads :
    t # u /\ pc[t] = "writing" => pc[u] \notin {"counted", "reading", "writing"}

\* A reader gets in, whatever the writers do: they back off with the mutex free.
ReaderGetsIn == \A t \in Threads : pc[t] = "wantRead" ~> pc[t] = "reading"

\* A writer gets in once no more readers come.  While readers keep coming
\* it may wait for ever.
WriterGetsIn ==
  <>[](m_read_lock_count = 0)
  => \A t \in Threads : pc[t] = "waitReaders" ~> pc[t] = "writing"
=============================================================================
