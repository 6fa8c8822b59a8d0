------------------------------ MODULE SmartPtr ------------------------------
(***************************************************************************)
(* SmartPtr, WeakPtr, RefObjectBase and the WeakCounter between them       *)
(* (xstl/xhn_smart_ptr.hpp, xstl/xhn_memory.hpp).                          *)
(*                                                                         *)
(* An object counts its strong pointers in ref_count and has a counter of  *)
(* its weak ones that outlives it while there are any.  Every thread has a *)
(* SmartPtr and a WeakPtr of its own, and threads share the weak pointers  *)
(* in Weaks.  The atomic operations are one step each; a critical section  *)
(* is one up to its unlock when nothing in it can wait.                    *)
(***************************************************************************)
EXTENDS Integers, FiniteSets

CONSTANTS
  Threads,
  Weaks,       \* the WeakPtr variables that threads share
  Objects,     \* the RefObjects there will ever be
  Assignments, \* the pairs <<dst, src>> for which somebody executes dst = src
  MaxLost      \* bound on the references that overlapping stores lose

\* A thread stands for its own WeakPtr.
Slots      == Weaks \cup Threads
SlotsOf(t) == Weaks \cup {t}

\* dst = src keeps src locked while it locks dst: the users must not assign in
\* a circle, nor a pointer to itself.
ASSUME SmartPtrAssumption ==
  /\ IsFiniteSet(Threads) /\ IsFiniteSet(Weaks)
  /\ Threads \cap Weaks = {}
  /\ "free" \notin Threads /\ "null" \notin Objects
  /\ Assignments \subseteq Slots \X Slots /\ MaxLost \in Nat

VARIABLES
  object,        \* the life of each object
  ref_count,     \* RefObjectBase::ref_count
  counter,       \* the life of each object's WeakCounter
  ref_object,    \* WeakCounter::ref_object is not null
  weak_count,    \* WeakCounter::weak_count
  content_lock,  \* WeakCounter::content_lock: its holder, or "free"
  m_weak_count,  \* per WeakPtr: the object whose counter it has, or "null"
  m_count_lock,  \* per WeakPtr: the holder of its lock, or "free"
  m_ptr,         \* per thread: what its SmartPtr points to, or "null"
  pc,            \* what each thread is executing
  op,            \* the locals of that
  lost,          \* history: references to a counter that were stored over
  resurrected    \* history: objects promoted after ref_count had dropped to 0

countVars   == <<counter, ref_object, weak_count, content_lock>>
objectVars  == <<object, ref_count>>
weakVars    == <<m_weak_count, m_count_lock>>
historyVars == <<lost, resurrected>>
vars == <<objectVars, countVars, weakVars, m_ptr, pc, op, historyVars>>

Null  == "null"
Lives == {"none", "alive", "deleted"}
Pointers == Objects \cup {Null}

\* carried is the counter reference that was counted and is not stored yet,
\* victim the object in its destructor, must_delete_count the flag of that name.
NoOp == [kind |-> "none", dst |-> Null, src |-> Null, carried |-> Null,
         victim |-> Null, must_delete_count |-> FALSE]

Goto(t, from, to) == pc[t] = from /\ pc' = [pc EXCEPT ![t] = to]
Begin(t, to, o)   == Goto(t, "idle", to) /\ op' = [op EXCEPT ![t] = o]
Return(t, from)   == Goto(t, from, "idle") /\ op' = [op EXCEPT ![t] = NoOp]

Init ==
  /\ object = [o \in Objects |-> "none"]
  /\ counter = [o \in Objects |-> "none"]
  /\ ref_count = [o \in Objects |-> 0] /\ weak_count = [o \in Objects |-> 0]
  /\ ref_object = [o \in Objects |-> FALSE]
  /\ content_lock = [o \in Objects |-> "free"]
  /\ m_weak_count = [s \in Slots |-> Null]
  /\ m_count_lock = [s \in Slots |-> "free"]
  /\ m_ptr = [t \in Threads |-> Null]
  /\ pc = [t \in Threads |-> "idle"] /\ op = [t \in Threads |-> NoOp]
  /\ lost = [o \in Objects |-> 0] /\ resurrected = {}

\* Two stores to one pointer may overlap while the bound allows it.
MayStore(dst) ==
  (\E t \in Threads : op[t].dst = dst) => \A o \in Objects : lost[o] < MaxLost

Acquire(lock, x, t) == lock[x] = "free" /\ lock' = [lock EXCEPT ![x] = t]
Release(lock, x)    == lock' = [lock EXCEPT ![x] = "free"]

Count(f, o, n) == f' = [f EXCEPT ![o] = @ + n]

\* A count that is kept for nothing when the pointer is null.
CountIfAny(f, o) == f' = IF o = Null THEN f ELSE [f EXCEPT ![o] = @ + 1]
-----------------------------------------------------------------------------
(* Operations with a mistake in them, each refuted by the property named. *)

DestContentAtZero(t) ==         \* CounterOutlivesUsers: object not looked at
  /\ Goto(t, "destContent", "destUnlock")
  /\ LET o == m_weak_count[op[t].dst]
     IN  /\ Acquire(content_lock, o, t)
         /\ Count(weak_count, o, -1)
         /\ op' = [op EXCEPT ![t].must_delete_count = weak_count[o] = 1]
  /\ UNCHANGED <<objectVars, counter, ref_object, weakVars, m_ptr, historyVars>>

DestContentTwice(t) ==          \* TypeOK
  /\ Goto(t, "destContent", "destUnlock")
  /\ LET o == m_weak_count[op[t].dst]
     IN  Acquire(content_lock, o, t) /\ Count(weak_count, o, -2)
  /\ UNCHANGED <<objectVars, counter, ref_object, weakVars, m_ptr, op,
                 historyVars>>

SourceUncounted(t) ==           \* WeakCountExact: the copy is not counted
  /\ Goto(t, "source", "destLock")
  /\ Acquire(m_count_lock, op[t].src, t)
  /\ op' = [op EXCEPT ![t].carried = m_weak_count[op[t].src]]
  /\ UNCHANGED <<objectVars, countVars, m_weak_count, m_ptr, historyVars>>

DtorKeepsRefObject(t) ==        \* NoCounterLeak
  /\ Goto(t, "dtor", "dtorUnlock")
  /\ LET o == op[t].victim
     IN  /\ Acquire(content_lock, o, t)
         /\ op' = [op EXCEPT ![t].must_delete_count = weak_count[o] = 0]
  /\ UNCHANGED <<objectVars, counter, ref_object, weak_count, weakVars, m_ptr,
                 historyVars>>

StrongUncounted(t) ==           \* StrongPtrsAreAlive: ret is not counted
  /\ Goto(t, "strongContent", "strongUnlock")
  /\ LET o == m_weak_count[op[t].src]
     IN  /\ Acquire(content_lock, o, t)
         /\ m_ptr' = [m_ptr EXCEPT ![t] = IF ref_object[o] THEN o ELSE Null]
  /\ UNCHANGED <<objectVars, counter, ref_object, weak_count, weakVars, op,
                 historyVars>>

AssignReleaseKeeps(t) ==        \* OperationsReturn: src stays locked
  /\ Return(t, "assignRelease")
  /\ UNCHANGED <<objectVars, countVars, weakVars, m_ptr, historyVars>>
-----------------------------------------------------------------------------
(* SmartPtr: what an access to a deleted object does is undefined, and no  *)
(* step of the model.                                                      *)

\* SmartPtr(VNEW T): the constructor of RefObjectBase makes the counter.
Create(t, o) ==
  /\ pc[t] = "idle" /\ m_ptr[t] = Null
  /\ object[o] = "none"
  /\ object' = [object EXCEPT ![o] = "alive"]
  /\ ref_count' = [ref_count EXCEPT ![o] = 1]
  /\ counter' = [counter EXCEPT ![o] = "alive"]
  /\ ref_object' = [ref_object EXCEPT ![o] = TRUE]
  /\ m_ptr' = [m_ptr EXCEPT ![t] = o]
  /\ UNCHANGED <<weak_count, content_lock, weakVars, pc, op, historyVars>>

\* A copy of t's SmartPtr that is handed to u.
Copy(t, u) ==
  /\ pc[t] = "idle" /\ pc[u] = "idle"
  /\ m_ptr[t] # Null /\ m_ptr[u] = Null
  /\ object[m_ptr[t]] = "alive"
  /\ Count(ref_count, m_ptr[t], 1)
  /\ m_ptr' = [m_ptr EXCEPT ![u] = m_ptr[t]]
  /\ UNCHANGED <<object, countVars, weakVars, pc, op, historyVars>>

\* ~SmartPtr() or an assignment of null: whoever counts down to 0 deletes.
Drop(t) ==
  /\ m_ptr[t] # Null
  /\ object[m_ptr[t]] = "alive"
  /\ LET o == m_ptr[t]
     IN  /\ Count(ref_count, o, -1)
         /\ IF ref_count[o] = 1
            THEN Begin(t, "dtor", [NoOp EXCEPT !.kind = "delete", !.victim = o])
            ELSE pc[t] = "idle" /\ UNCHANGED <<pc, op>>
  /\ m_ptr' = [m_ptr EXCEPT ![t] = Null]
  /\ UNCHANGED <<object, countVars, weakVars, historyVars>>

\* ~RefObjectBase()
Dtor(t) ==
  /\ Goto(t, "dtor", "dtorUnlock")
  /\ LET o == op[t].victim
     IN  /\ Acquire(content_lock, o, t)
         /\ ref_object' = [ref_object EXCEPT ![o] = FALSE]
         /\ op' = [op EXCEPT ![t].must_delete_count = weak_count[o] = 0]
  /\ UNCHANGED <<objectVars, counter, weak_count, weakVars, m_ptr, historyVars>>

DtorUnlock(t) ==
  /\ Goto(t, "dtorUnlock", "dtorDelete")
  /\ Release(content_lock, op[t].victim)
  /\ UNCHANGED <<objectVars, counter, ref_object, weak_count, weakVars, m_ptr,
                 op, historyVars>>

\* The counter, when it must go, and the memory of the object.
DtorDelete(t) ==
  /\ Return(t, "dtorDelete")
  /\ LET o == op[t].victim
     IN  /\ object' = [object EXCEPT ![o] = "deleted"]
         /\ counter' = IF op[t].must_delete_count
                       THEN [counter EXCEPT ![o] = "deleted"] ELSE counter
  /\ UNCHANGED <<ref_count, ref_object, weak_count, content_lock, weakVars,
                 m_ptr, historyVars>>

\* ToWeakPtr(dst) counts first, when the SmartPtr is not null.
ToWeakPtr(t, dst) ==
  /\ MayStore(dst)
  /\ m_ptr[t] # Null => object[m_ptr[t]] = "alive"
  /\ Begin(t, "destLock", [NoOp EXCEPT !.kind = "toWeak", !.dst = dst,
                                       !.carried = m_ptr[t]])
  /\ CountIfAny(weak_count, m_ptr[t])
  /\ UNCHANGED <<objectVars, counter, ref_object, content_lock, weakVars,
                 m_ptr, historyVars>>
-----------------------------------------------------------------------------
(* WeakPtr::Dest(), and what follows it in its callers. *)

DestLock(t) ==
  /\ Goto(t, "destLock", IF m_weak_count[op[t].dst] = Null
                         THEN "destClear" ELSE "destContent")
  /\ Acquire(m_count_lock, op[t].dst, t)
  /\ UNCHANGED <<objectVars, countVars, m_weak_count, m_ptr, op, historyVars>>

DestContent(t) ==
  /\ Goto(t, "destContent", "destUnlock")
  /\ LET o == m_weak_count[op[t].dst]
     IN  /\ Acquire(content_lock, o, t)
         /\ Count(weak_count, o, -1)
         /\ op' = [op EXCEPT ![t].must_delete_count =
                     weak_count[o] = 1 /\ ~ref_object[o]]
  /\ UNCHANGED <<objectVars, counter, ref_object, weakVars, m_ptr, historyVars>>

DestUnlock(t) ==
  /\ Goto(t, "destUnlock", "destClear")
  /\ Release(content_lock, m_weak_count[op[t].dst])
  /\ UNCHANGED <<objectVars, counter, ref_object, weak_count, weakVars, m_ptr,
                 op, historyVars>>

\* Deletes the counter when it must go, and gives up the lock of the pointer.
DestClear(t) ==
  /\ IF op[t].kind = "assign" \/ op[t].carried # Null
     THEN /\ Goto(t, "destClear", "store")
          /\ op' = [op EXCEPT ![t].must_delete_count = FALSE]
     ELSE Return(t, "destClear")
  /\ counter' = IF op[t].must_delete_count
                THEN [counter EXCEPT ![m_weak_count[op[t].dst]] = "deleted"]
                ELSE counter
  /\ m_weak_count' = [m_weak_count EXCEPT ![op[t].dst] = Null]
  /\ Release(m_count_lock, op[t].dst)
  /\ UNCHANGED <<objectVars, ref_object, weak_count, content_lock, m_ptr,
                 historyVars>>

\* Takes the lock a second time: what another thread has stored since is lost.
Store(t) ==
  /\ IF op[t].kind = "assign"
     THEN /\ Goto(t, "store", "assignRelease")
          /\ op' = [op EXCEPT ![t].carried = Null]
     ELSE Return(t, "store")
  /\ LET dst == op[t].dst
     IN  /\ m_count_lock[dst] = "free"
         /\ m_weak_count' = [m_weak_count EXCEPT ![dst] = op[t].carried]
         /\ CountIfAny(lost, m_weak_count[dst])
  /\ UNCHANGED <<objectVars, countVars, m_count_lock, m_ptr, resurrected>>

\* ~WeakPtr(), of the thread's own.
DestroyWeakPtr(t) ==
  /\ m_weak_count[t] # Null
  /\ Begin(t, "destLock", [NoOp EXCEPT !.kind = "destroy", !.dst = t])
  /\ UNCHANGED <<objectVars, countVars, weakVars, m_ptr, historyVars>>
-----------------------------------------------------------------------------
(* WeakPtr: assignment, copy and promotion. *)

Assign(t, dst, src) ==
  /\ MayStore(dst)
  /\ Begin(t, "source", [NoOp EXCEPT !.kind = "assign", !.dst = dst, !.src = src])
  /\ UNCHANGED <<objectVars, countVars, weakVars, m_ptr, historyVars>>

\* Counts without content_lock; the lock of src is kept.
Source(t) ==
  /\ Goto(t, "source", "destLock")
  /\ Acquire(m_count_lock, op[t].src, t)
  /\ CountIfAny(weak_count, m_weak_count[op[t].src])
  /\ op' = [op EXCEPT ![t].carried = m_weak_count[op[t].src]]
  /\ UNCHANGED <<objectVars, counter, ref_object, content_lock, m_weak_count,
                 m_ptr, historyVars>>

AssignRelease(t) ==
  /\ Return(t, "assignRelease")
  /\ Release(m_count_lock, op[t].src)
  /\ UNCHANGED <<objectVars, countVars, m_weak_count, m_ptr, historyVars>>

\* WeakPtr(src), into the thread's own.
CopyWeakPtr(t, src) ==
  /\ m_weak_count[t] = Null
  /\ Begin(t, "copyLock", [NoOp EXCEPT !.kind = "copy", !.dst = t, !.src = src])
  /\ UNCHANGED <<objectVars, countVars, weakVars, m_ptr, historyVars>>

ToStrongPtr(t, src) ==
  /\ m_ptr[t] = Null
  /\ Begin(t, "strongLock", [NoOp EXCEPT !.kind = "promote", !.src = src])
  /\ UNCHANGED <<objectVars, countVars, weakVars, m_ptr, historyVars>>

\* Both look at a pointer under its lock ...
LookLock(t, from, content) ==
  /\ Goto(t, from, IF m_weak_count[op[t].src] = Null
                   THEN "lookRelease" ELSE content)
  /\ Acquire(m_count_lock, op[t].src, t)
  /\ UNCHANGED <<objectVars, countVars, m_weak_count, m_ptr, op, historyVars>>

CopyLock(t)   == LookLock(t, "copyLock", "copyContent")
StrongLock(t) == LookLock(t, "strongLock", "strongContent")

\* ... and at its counter under content_lock.
CopyContent(t) ==
  /\ Goto(t, "copyContent", "copyUnlock")
  /\ LET o == m_weak_count[op[t].src]
     IN  /\ Acquire(content_lock, o, t)
         /\ Count(weak_count, o, 1)
         /\ op' = [op EXCEPT ![t].carried = o]
  /\ UNCHANGED <<objectVars, counter, ref_object, weakVars, m_ptr, historyVars>>

CopyUnlock(t) ==
  /\ Goto(t, "copyUnlock", "lookRelease")
  /\ Release(content_lock, op[t].carried)
  /\ m_weak_count' = [m_weak_count EXCEPT ![t] = op[t].carried]
  /\ op' = [op EXCEPT ![t].carried = Null]
  /\ UNCHANGED <<objectVars, counter, ref_object, weak_count, m_count_lock,
                 m_ptr, historyVars>>

StrongContent(t) ==
  /\ Goto(t, "strongContent", "strongUnlock")
  /\ LET o == m_weak_count[op[t].src]
     IN  /\ Acquire(content_lock, o, t)
         /\ IF ref_object[o]
            THEN /\ m_ptr' = [m_ptr EXCEPT ![t] = o]
                 /\ Count(ref_count, o, 1)
                 /\ resurrected' = IF ref_count[o] = 0
                                   THEN resurrected \cup {o} ELSE resurrected
            ELSE UNCHANGED <<m_ptr, ref_count, resurrected>>
  /\ UNCHANGED <<object, counter, ref_object, weak_count, weakVars, op, lost>>

StrongUnlock(t) ==
  /\ Goto(t, "strongUnlock", "lookRelease")
  /\ Release(content_lock, m_weak_count[op[t].src])
  /\ UNCHANGED <<objectVars, counter, ref_object, weak_count, weakVars, m_ptr,
                 op, historyVars>>

LookRelease(t) ==
  /\ Return(t, "lookRelease")
  /\ Release(m_count_lock, op[t].src)
  /\ UNCHANGED <<objectVars, countVars, m_weak_count, m_ptr, historyVars>>
-----------------------------------------------------------------------------
Call(t) ==
  \/ \E o \in Objects : Create(t, o)
  \/ \E u \in Threads : Copy(t, u)
  \/ Drop(t) \/ DestroyWeakPtr(t)
  \/ \E s \in SlotsOf(t) : ToWeakPtr(t, s) \/ ToStrongPtr(t, s)
  \/ \E s \in Weaks : CopyWeakPtr(t, s)
  \/ \E dst, src \in SlotsOf(t) : <<dst, src>> \in Assignments /\ Assign(t, dst, src)

Step(t) ==
  \/ Dtor(t) \/ DtorUnlock(t) \/ DtorDelete(t)
  \/ DestLock(t) \/ DestContent(t) \/ DestUnlock(t) \/ DestClear(t) \/ Store(t)
  \/ Source(t) \/ AssignRelease(t)
  \/ CopyLock(t) \/ StrongLock(t) \/ CopyContent(t)
  \/ CopyUnlock(t) \/ StrongContent(t) \/ StrongUnlock(t) \/ LookRelease(t)

Next == \E t \in Threads : Call(t) \/ Step(t)

\* A thread inside an operation goes on; nobody has to begin one.
Fairness == \A t \in Threads : WF_vars(Step(t))

Spec == Init /\ [][Next]_vars /\ Fairness
-----------------------------------------------------------------------------
(* Properties.  ToStrongPtr() may meet the last drop: what it has brought  *)
(* back (resurrected) is past saving, and SmartPtr_promotion shows it.     *)

Operations == [kind : {"none", "delete", "toWeak", "destroy", "assign", "copy",
                       "promote"},
               dst : Slots \cup {Null}, src : Slots \cup {Null},
               carried : Pointers, victim : Pointers,
               must_delete_count : BOOLEAN]

Locations == {"idle", "dtor", "dtorUnlock", "dtorDelete", "destLock",
              "destContent", "destUnlock", "destClear", "store", "source",
              "assignRelease", "copyLock", "copyContent", "copyUnlock",
              "strongLock", "strongContent", "strongUnlock", "lookRelease"}

\* Every variable keeps its type; no count drops below 0.
TypeOK ==
  /\ object \in [Objects -> Lives] /\ counter \in [Objects -> Lives]
  /\ ref_count \in [Objects -> Nat] /\ weak_count \in [Objects -> Nat]
  /\ ref_object \in [Objects -> BOOLEAN]
  /\ content_lock \in [Objects -> Threads \cup {"free"}]
  /\ m_weak_count \in [Slots -> Pointers]
  /\ m_count_lock \in [Slots -> Threads \cup {"free"}]
  /\ m_ptr \in [Threads -> Pointers]
  /\ pc \in [Threads -> Locations] /\ op \in [Threads -> Operations]
  /\ lost \in [Objects -> Nat] /\ resurrected \subseteq Objects

\* The weak pointers whose reference is in weak_count: not the one that Dest()
\* has uncounted and has still to clear.
Counted(o) ==
  {s \in Slots : /\ m_weak_count[s] = o
                 /\ \A t \in Threads : pc[t] \in {"destUnlock", "destClear"}
                                      => op[t].dst # s}

\* The threads on their way to store a reference that is counted.
Carried(o) == {t \in Threads : op[t].carried = o}

\* Increments made with and without content_lock, decrements and the stores of
\* the pointers agree in the end: weak_count is the number of pointers that
\* will give theirs back, and of those that two assignments to one pointer lost.
WeakCountExact ==
  \A o \in Objects :
    weak_count[o] = Cardinality(Counted(o)) + Cardinality(Carried(o)) + lost[o]

\* content_lock is inside the counter: whoever deletes it, the destructor or
\* the last Dest(), nobody has it, waits for its lock or holds that any more.
CounterOutlivesUsers ==
  \A o \in Objects \ resurrected : counter[o] = "deleted" =>
    /\ Counted(o) = {} /\ Carried(o) = {}
    /\ content_lock[o] = "free"
    /\ \A t \in Threads : pc[t] = "dtor" => op[t].victim # o

\* Destructor and Dest() never leave the deletion to each other: the counter of
\* a deleted object has a pointer or an assignment in flight that will release
\* it, or is on its way out.  Not so a counter of which two assignments to one
\* pointer have lost a reference: nobody ever gives that one back.
NoCounterLeak ==
  \A o \in Objects \ resurrected :
    object[o] = "deleted" /\ counter[o] = "alive" /\ lost[o] = 0 =>
    \/ Counted(o) # {} \/ Carried(o) # {}
    \/ \E t \in Threads : /\ pc[t] \in {"destUnlock", "destClear"}
                         /\ op[t].must_delete_count
                         /\ m_weak_count[op[t].dst] = o

\* A SmartPtr, copied, handed over or promoted, points to a live object.
StrongPtrsAreAlive ==
  \A t \in Threads : m_ptr[t] \in Objects \ resurrected => object[m_ptr[t]] = "alive"

\* Every operation ends, if new ones stop coming: no thread waits for a lock
\* whose holder waits for it.
OperationsReturn ==
  /\ [](resurrected = {})
  /\ <>[][\A t \in Threads : pc[t] = "idle" => pc'[t] = "idle"]_vars
  => \A t \in Threads : pc[t] # "idle" ~> pc[t] = "idle"

\* The tests require "t.get() == nullptr" of ToStrongPtr() once the last
\* SmartPtr is gone: what it returns is never an object that is deleted.
PromotedIsAlive ==
  \A t \in Threads : m_ptr[t] # Null => object[m_ptr[t]] = "alive"
=============================================================================
