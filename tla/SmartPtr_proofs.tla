--------------------------- MODULE SmartPtr_proofs ---------------------------
(* Machine-checked proofs about SmartPtr, for any number of threads, weak   *)
(* pointers and objects, and any assignments between the pointers.          *)
EXTENDS SmartPtr, FiniteSetTheorems, TLAPS

\* The types alone: that no count drops below 0 needs the counts to be exact.
Shape ==
  /\ object \in [Objects -> Lives] /\ counter \in [Objects -> Lives]
  /\ ref_count \in [Objects -> Int] /\ weak_count \in [Objects -> Int]
  /\ ref_object \in [Objects -> BOOLEAN]
  /\ content_lock \in [Objects -> Threads \cup {"free"}]
  /\ m_weak_count \in [Slots -> Pointers]
  /\ m_count_lock \in [Slots -> Threads \cup {"free"}]
  /\ m_ptr \in [Threads -> Pointers]
  /\ pc \in [Threads -> Locations] /\ op \in [Threads -> Operations]
  /\ lost \in [Objects -> Nat]

InDtor == {"dtor", "dtorUnlock", "dtorDelete"}
InDest == {"destLock", "destContent", "destUnlock", "destClear"}
InCopy == {"copyLock", "copyContent", "copyUnlock"}
InLook == InCopy \cup {"strongLock", "strongContent", "strongUnlock"}

\* What the locals of a thread are, where it is.
Locals(t) ==
  /\ pc[t] = "idle" => op[t] = NoOp
  /\ pc[t] \in InDtor => op[t].victim \in Objects /\ op[t].carried = Null
  /\ pc[t] \notin InDtor => op[t].victim = Null
  /\ pc[t] \in InDest \cup {"store", "source", "assignRelease"} =>
       op[t].dst \in SlotsOf(t)
  /\ pc[t] \in InLook \cup {"lookRelease", "source", "assignRelease"}
       \/ op[t].kind = "assign" => op[t].src \in SlotsOf(t)
  /\ pc[t] \in {"source", "assignRelease"} => op[t].kind = "assign"
  /\ pc[t] \in InLook \cup {"lookRelease"} => op[t].kind # "assign"
  /\ pc[t] \in InCopy => op[t].src \in Weaks
  /\ pc[t] \in {"copyLock", "copyContent", "strongLock", "strongContent",
                "strongUnlock", "lookRelease", "source", "assignRelease"} =>
       op[t].carried = Null
  /\ pc[t] \notin {"dtorUnlock", "dtorDelete", "destUnlock", "destClear"} =>
       ~op[t].must_delete_count

LocalsOK == \A t \in Threads : Locals(t)

\* What counting does to a count.
LEMMA CountTypes ==
  ASSUME NEW f \in [Objects -> Int], NEW o
  PROVE  /\ [f EXCEPT ![o] = @ + 1] \in [Objects -> Int]
         /\ [f EXCEPT ![o] = @ + -1] \in [Objects -> Int]
<1>1. \A x \in Objects : f[x] + 1 \in Int /\ f[x] + -1 \in Int
  OBVIOUS
<1> QED
  BY <1>1

\* A store that loses a reference keeps lost a count.
LEMMA LostTypes ==
  ASSUME NEW f \in [Objects -> Nat], NEW o
  PROVE  [f EXCEPT ![o] = @ + 1] \in [Objects -> Nat]
<1>1. \A x \in Objects : f[x] + 1 \in Nat
  OBVIOUS
<1> QED
  BY <1>1

\* An operation begins with the record of one ...
LEMMA NoOpTypes ==
  /\ NoOp \in Operations
  /\ \A o \in Objects :
       [NoOp EXCEPT !.kind = "delete", !.victim = o] \in Operations
  /\ \A s \in Slots, p \in Pointers :
       [NoOp EXCEPT !.kind = "toWeak", !.dst = s, !.carried = p] \in Operations
  /\ \A s \in Slots :
       /\ [NoOp EXCEPT !.kind = "destroy", !.dst = s] \in Operations
       /\ [NoOp EXCEPT !.kind = "promote", !.src = s] \in Operations
  /\ \A d, s \in Slots :
       /\ [NoOp EXCEPT !.kind = "assign", !.dst = d, !.src = s] \in Operations
       /\ [NoOp EXCEPT !.kind = "copy", !.dst = d, !.src = s] \in Operations
  BY DEF NoOp, Operations, Pointers

\* ... in which its steps change one local.
LEMMA UpdateTypes ==
  ASSUME NEW r \in Operations
  PROVE  /\ \A b \in BOOLEAN : [r EXCEPT !.must_delete_count = b] \in Operations
         /\ \A p \in Pointers : [r EXCEPT !.carried = p] \in Operations
  BY DEF Operations

\* Every step keeps the program counters and the locals of their types.
LEMMA OpTypes ==
  ASSUME op \in [Threads -> Operations], m_ptr \in [Threads -> Pointers],
         m_weak_count \in [Slots -> Pointers],
         NEW t \in Threads, Call(t) \/ Step(t),
         pc[t] \in {"source", "copyContent"} => op[t].src \in Slots
  PROVE  op' \in [Threads -> Operations]
<1> USE DEF Goto, Begin, Return
<1> SlotsOf(t) \subseteq Slots /\ Weaks \subseteq Slots /\ t \in Slots
  BY DEF SlotsOf, Slots
<1>1. ASSUME NEW o \in Objects, Create(t, o)
      PROVE  UNCHANGED op
  BY <1>1 DEF Create
<1>2. ASSUME NEW u \in Threads, Copy(t, u)
      PROVE  UNCHANGED op
  BY <1>2 DEF Copy
<1>3. CASE Drop(t)
  <2>1. m_ptr[t] \in Objects
    BY <1>3 DEF Drop, Pointers
  <2>2. [NoOp EXCEPT !.kind = "delete", !.victim = m_ptr[t]] \in Operations
    BY <2>1, NoOpTypes
  <2> QED
    BY <1>3, <2>2 DEF Drop
<1>4. CASE DestroyWeakPtr(t)
  BY <1>4, NoOpTypes DEF DestroyWeakPtr
<1>5. ASSUME NEW s \in SlotsOf(t), ToWeakPtr(t, s)
      PROVE  op' \in [Threads -> Operations]
  BY <1>5, NoOpTypes DEF ToWeakPtr
<1>13. ASSUME NEW s \in SlotsOf(t), ToStrongPtr(t, s)
      PROVE  op' \in [Threads -> Operations]
  BY <1>13, NoOpTypes DEF ToStrongPtr
<1>6. ASSUME NEW s \in Weaks, CopyWeakPtr(t, s)
      PROVE  op' \in [Threads -> Operations]
  BY <1>6, NoOpTypes DEF CopyWeakPtr
<1>7. ASSUME NEW d \in SlotsOf(t), NEW s \in SlotsOf(t), Assign(t, d, s)
      PROVE  op' \in [Threads -> Operations]
  BY <1>7, NoOpTypes DEF Assign
<1>8. ASSUME \/ Dtor(t) \/ DestContent(t)
             \/ Source(t) \/ CopyContent(t) \/ CopyUnlock(t)
      PROVE  op' \in [Threads -> Operations]
  <2>1. CASE Dtor(t)
    BY <2>1, UpdateTypes DEF Dtor
  <2>2. CASE DestContent(t)
    BY <2>2, UpdateTypes DEF DestContent
  <2>3. CASE Source(t)
    <3>1. m_weak_count[op[t].src] \in Pointers
      BY <2>3 DEF Source
    <3> QED
      BY <2>3, <3>1, UpdateTypes DEF Source
  <2>4. CASE CopyContent(t)
    <3>1. m_weak_count[op[t].src] \in Pointers
      BY <2>4 DEF CopyContent
    <3> QED
      BY <2>4, <3>1, UpdateTypes DEF CopyContent
  <2>5. CASE CopyUnlock(t)
    BY <2>5, UpdateTypes DEF CopyUnlock, Pointers
  <2> QED
    BY <1>8, <2>1, <2>2, <2>3, <2>4, <2>5
<1>9. CASE DestClear(t)
  <2>1. [op[t] EXCEPT !.must_delete_count = FALSE] \in Operations
    BY UpdateTypes
  <2> QED
    BY <1>9, <2>1, NoOpTypes DEF DestClear
<1>10. CASE Store(t)
  <2>1. [op[t] EXCEPT !.carried = Null] \in Operations
    BY UpdateTypes DEF Pointers
  <2> QED
    BY <1>10, <2>1, NoOpTypes DEF Store
<1>11. CASE DtorDelete(t) \/ AssignRelease(t) \/ LookRelease(t)
  BY <1>11, NoOpTypes DEF DtorDelete, AssignRelease, LookRelease
<1>12. CASE \/ DtorUnlock(t) \/ DestLock(t) \/ DestUnlock(t) \/ CopyLock(t)
            \/ StrongLock(t) \/ StrongContent(t) \/ StrongUnlock(t)
  BY <1>12 DEF DtorUnlock, DestLock, DestUnlock, CopyLock, StrongLock, LookLock,
               StrongContent, StrongUnlock
<1> QED
  BY <1>1, <1>2, <1>3, <1>4, <1>5, <1>6, <1>7, <1>8, <1>9, <1>10, <1>11, <1>12, <1>13
     DEF Call, Step

\* Every step keeps the three counts numbers.
LEMMA CountsTypes ==
  ASSUME weak_count \in [Objects -> Int], ref_count \in [Objects -> Int],
         lost \in [Objects -> Nat],
         NEW t \in Threads, Call(t) \/ Step(t)
  PROVE  /\ weak_count' \in [Objects -> Int] /\ ref_count' \in [Objects -> Int]
         /\ lost' \in [Objects -> Nat]
<1> USE DEF Count, CountIfAny, countVars, objectVars, historyVars
<1>1. ASSUME NEW o \in Objects, Create(t, o)
      PROVE  UNCHANGED <<weak_count, lost>> /\ ref_count' \in [Objects -> Int]
  BY <1>1 DEF Create
<1>2. ASSUME NEW u \in Threads, Copy(t, u)
      PROVE  UNCHANGED <<weak_count, lost>> /\ ref_count' \in [Objects -> Int]
  <2>1. UNCHANGED <<weak_count, lost>>
    BY <1>2 DEF Copy
  <2>2. ref_count' \in [Objects -> Int]
    BY <1>2, CountTypes DEF Copy
  <2> QED
    BY <2>1, <2>2
<1>3. CASE Drop(t) \/ StrongContent(t)
  <2> UNCHANGED <<weak_count, lost>>
    BY <1>3 DEF Drop, StrongContent
  <2>1. CASE Drop(t)
    BY <2>1, CountTypes DEF Drop
  <2>2. CASE StrongContent(t)
    BY <2>2, CountTypes DEF StrongContent
  <2> QED
    BY <1>3, <2>1, <2>2
<1>4. ASSUME NEW s \in SlotsOf(t), ToWeakPtr(t, s)
      PROVE  UNCHANGED <<ref_count, lost>> /\ weak_count' \in [Objects -> Int]
  <2>1. UNCHANGED <<ref_count, lost>>
    BY <1>4 DEF ToWeakPtr
  <2>2. weak_count' \in [Objects -> Int]
    BY <1>4, CountTypes DEF ToWeakPtr
  <2> QED
    BY <2>1, <2>2
<1>5. CASE DestContent(t)
  <2>1. UNCHANGED <<ref_count, lost>>
    BY <1>5 DEF DestContent
  <2>2. weak_count' \in [Objects -> Int]
    BY <1>5, CountTypes DEF DestContent
  <2> QED
    BY <2>1, <2>2
<1>6. CASE Source(t)
  <2>1. UNCHANGED <<ref_count, lost>>
    BY <1>6 DEF Source
  <2>2. weak_count' \in [Objects -> Int]
    BY <1>6, CountTypes DEF Source
  <2> QED
    BY <2>1, <2>2
<1>7. CASE CopyContent(t)
  <2>1. UNCHANGED <<ref_count, lost>>
    BY <1>7 DEF CopyContent
  <2>2. weak_count' \in [Objects -> Int]
    BY <1>7, CountTypes DEF CopyContent
  <2> QED
    BY <2>1, <2>2
<1>8. CASE Store(t)
  <2>1. UNCHANGED <<ref_count, weak_count>>
    BY <1>8 DEF Store
  <2>2. lost' \in [Objects -> Nat]
    BY <1>8, LostTypes DEF Store
  <2> QED
    BY <2>1, <2>2
<1>9. ASSUME NEW s \in Slots, NEW d \in Slots,
             ToStrongPtr(t, s) \/ CopyWeakPtr(t, s) \/ Assign(t, d, s)
      PROVE  UNCHANGED <<ref_count, weak_count, lost>>
  BY <1>9 DEF ToStrongPtr, CopyWeakPtr, Assign
<1>10. CASE \/ DestroyWeakPtr(t) \/ Dtor(t) \/ DtorUnlock(t) \/ DtorDelete(t)
            \/ DestLock(t) \/ DestUnlock(t) \/ DestClear(t) \/ AssignRelease(t)
            \/ CopyLock(t) \/ StrongLock(t) \/ CopyUnlock(t)
            \/ StrongUnlock(t) \/ LookRelease(t)
  BY <1>10 DEF DestroyWeakPtr, Dtor, DtorUnlock, DtorDelete, DestLock, DestUnlock,
       DestClear, AssignRelease, CopyLock, StrongLock, LookLock, CopyUnlock,
       StrongUnlock, LookRelease
<1> QED
  <2> SlotsOf(t) \subseteq Slots /\ Weaks \subseteq Slots
    BY DEF SlotsOf, Slots
  <2> QED
    BY <1>1, <1>2, <1>3, <1>4, <1>5, <1>6, <1>7, <1>8, <1>9, <1>10
       DEF Call, Step

\* Every step keeps the other variables of their types.
LEMMA OtherTypes ==
  ASSUME Shape, LocalsOK, NEW t \in Threads, Call(t) \/ Step(t)
  PROVE  /\ object' \in [Objects -> Lives] /\ counter' \in [Objects -> Lives]
         /\ ref_object' \in [Objects -> BOOLEAN]
         /\ content_lock' \in [Objects -> Threads \cup {"free"}]
         /\ m_weak_count' \in [Slots -> Pointers]
         /\ m_count_lock' \in [Slots -> Threads \cup {"free"}]
         /\ m_ptr' \in [Threads -> Pointers]
         /\ pc' \in [Threads -> Locations]
<1> DEFINE Types ==
         /\ object \in [Objects -> Lives] /\ counter \in [Objects -> Lives]
         /\ ref_object \in [Objects -> BOOLEAN]
         /\ content_lock \in [Objects -> Threads \cup {"free"}]
         /\ m_weak_count \in [Slots -> Pointers]
         /\ m_count_lock \in [Slots -> Threads \cup {"free"}]
         /\ m_ptr \in [Threads -> Pointers]
         /\ pc \in [Threads -> Locations]
<1>0. Types
  BY DEF Shape
<1> /\ Null \in Pointers /\ \A o \in Objects : o \in Pointers
    /\ op[t].carried \in Pointers
  BY DEF Shape, Operations, Pointers
<1>1. Types'
  <2> USE DEF Goto, Begin, Return, Acquire, Release, objectVars, countVars,
              weakVars, historyVars, Lives, Locations
  <2> HIDE DEF Call
  <2> USE <1>0
  <2>1. ASSUME NEW obj \in Objects, Create(t, obj)
        PROVE  Types'
    BY <2>1 DEF Create
  <2>2. ASSUME NEW peer \in Threads, Copy(t, peer)
        PROVE  Types'
    BY <2>2 DEF Copy
  <2>3. CASE Drop(t)
    BY <2>3 DEF Drop
  <2>4. CASE DestroyWeakPtr(t)
    BY <2>4 DEF DestroyWeakPtr
  <2>5. ASSUME NEW dst \in SlotsOf(t), ToWeakPtr(t, dst)
        PROVE  Types'
    BY <2>5 DEF ToWeakPtr
  <2>6. ASSUME NEW src \in SlotsOf(t), ToStrongPtr(t, src)
        PROVE  Types'
    BY <2>6 DEF ToStrongPtr
  <2>7. ASSUME NEW src \in Weaks, CopyWeakPtr(t, src)
        PROVE  Types'
    BY <2>7 DEF CopyWeakPtr
  <2>8. ASSUME NEW dst \in SlotsOf(t), NEW src \in SlotsOf(t), Assign(t, dst, src)
        PROVE  Types'
    BY <2>8 DEF Assign
  <2>9. CASE Dtor(t)
    BY <2>9 DEF Dtor
  <2>10. CASE DtorUnlock(t)
    BY <2>10 DEF DtorUnlock
  <2>11. CASE DtorDelete(t)
    BY <2>11 DEF DtorDelete
  <2>12. CASE DestLock(t)
    BY <2>12 DEF DestLock
  <2>13. CASE DestContent(t)
    BY <2>13 DEF DestContent
  <2>14. CASE DestUnlock(t)
    BY <2>14 DEF DestUnlock
  <2>15. CASE DestClear(t)
    BY <2>15 DEF DestClear
  <2>16. CASE Store(t)
    BY <2>16 DEF Store
  <2>17. CASE Source(t)
    BY <2>17 DEF Source
  <2>18. CASE AssignRelease(t)
    BY <2>18 DEF AssignRelease
  <2>19. CASE CopyLock(t)
    BY <2>19 DEF CopyLock, LookLock
  <2>20. CASE StrongLock(t)
    BY <2>20 DEF StrongLock, LookLock
  <2>21. CASE CopyContent(t)
    BY <2>21 DEF CopyContent
  <2>22. CASE CopyUnlock(t)
    BY <2>22 DEF CopyUnlock
  <2>23. CASE StrongContent(t)
    <3>1. m_weak_count[op[t].src] \in Pointers
      BY <2>23 DEF StrongContent, Shape, LocalsOK, Locals, InCopy, InLook,
         SlotsOf, Slots
    <3> QED
      BY <2>23, <3>1 DEF StrongContent
  <2>24. CASE StrongUnlock(t)
    BY <2>24 DEF StrongUnlock
  <2>25. CASE LookRelease(t)
    BY <2>25 DEF LookRelease
  <2> HIDE DEF Types
  <2> QED
    BY <2>1, <2>2, <2>3, <2>4, <2>5, <2>6, <2>7, <2>8, <2>9, <2>10, <2>11,
       <2>12, <2>13, <2>14, <2>15, <2>16, <2>17, <2>18, <2>19, <2>20, <2>21,
       <2>22, <2>23, <2>24, <2>25 DEF Call, Step
<1> QED
  BY <1>1

\* Every step keeps the types.
LEMMA ShapeStep ==
  ASSUME Shape, LocalsOK, NEW t \in Threads, Call(t) \/ Step(t)
  PROVE  Shape'
<1>1. op' \in [Threads -> Operations]
  <2>1. pc[t] \in {"source", "copyContent"} => op[t].src \in Slots
    BY DEF LocalsOK, Locals, InCopy, InLook, SlotsOf, Slots
  <2> QED
    BY <2>1, OpTypes DEF Shape
<1>2. /\ weak_count' \in [Objects -> Int] /\ ref_count' \in [Objects -> Int]
      /\ lost' \in [Objects -> Nat]
  BY CountsTypes DEF Shape
<1> QED
  BY <1>1, <1>2, OtherTypes DEF Shape

\* A step changes the locals of nobody but the thread that takes it.
LEMMA OthersKeepLocals ==
  ASSUME Shape, NEW t \in Threads, Call(t) \/ Step(t)
  PROVE  \A u \in Threads \ {t} : op'[u] = op[u] /\ pc'[u] = pc[u]
<1> USE DEF Goto, Begin, Return, Shape
<1>1. ASSUME NEW obj \in Objects, Create(t, obj)
      PROVE  \A u \in Threads \ {t} : op'[u] = op[u] /\ pc'[u] = pc[u]
    BY <1>1 DEF Create
<1>2. ASSUME NEW peer \in Threads, Copy(t, peer)
      PROVE  \A u \in Threads \ {t} : op'[u] = op[u] /\ pc'[u] = pc[u]
    BY <1>2 DEF Copy
<1>3. CASE \/ Drop(t) \/ DestroyWeakPtr(t) \/ Dtor(t) \/ DtorUnlock(t)
           \/ DtorDelete(t) \/ DestLock(t) \/ DestContent(t) \/ DestUnlock(t)
           \/ DestClear(t) \/ Store(t) \/ Source(t) \/ AssignRelease(t)
           \/ CopyLock(t) \/ StrongLock(t) \/ CopyContent(t) \/ CopyUnlock(t)
           \/ StrongContent(t) \/ StrongUnlock(t) \/ LookRelease(t)
    BY <1>3 DEF Drop, DestroyWeakPtr, Dtor, DtorUnlock, DtorDelete, DestLock,
       DestContent, DestUnlock, DestClear, Store, Source, AssignRelease,
       CopyLock, StrongLock, CopyContent, CopyUnlock, StrongContent,
       StrongUnlock, LookRelease, LookLock
<1>4. ASSUME NEW dst \in SlotsOf(t), ToWeakPtr(t, dst)
      PROVE  \A u \in Threads \ {t} : op'[u] = op[u] /\ pc'[u] = pc[u]
    BY <1>4 DEF ToWeakPtr
<1>5. ASSUME NEW src \in SlotsOf(t), ToStrongPtr(t, src)
      PROVE  \A u \in Threads \ {t} : op'[u] = op[u] /\ pc'[u] = pc[u]
    BY <1>5 DEF ToStrongPtr
<1>6. ASSUME NEW src \in Weaks, CopyWeakPtr(t, src)
      PROVE  \A u \in Threads \ {t} : op'[u] = op[u] /\ pc'[u] = pc[u]
    BY <1>6 DEF CopyWeakPtr
<1>7. ASSUME NEW dst \in SlotsOf(t), NEW src \in SlotsOf(t), Assign(t, dst, src)
      PROVE  \A u \in Threads \ {t} : op'[u] = op[u] /\ pc'[u] = pc[u]
    BY <1>7 DEF Assign
<1> QED
  BY <1>1, <1>2, <1>3, <1>4, <1>5, <1>6, <1>7 DEF Call, Step

\* Every step leaves every thread with the locals that belong where it is.
LEMMA LocalsStep ==
  ASSUME Shape, LocalsOK, NEW t \in Threads, Call(t) \/ Step(t)
  PROVE  LocalsOK'
<1>1. \A u \in Threads \ {t} : Locals(u)'
  BY OthersKeepLocals DEF LocalsOK, Locals
<1>2. Locals(t)'
  <2> op[t] \in Operations /\ Locals(t) /\ pc[t] \in Locations
    BY DEF Shape, LocalsOK
  <2> pc \in [Threads -> Locations] /\ op \in [Threads -> Operations]
    BY DEF Shape
  <2> m_ptr[t] # Null => m_ptr[t] \in Objects
    BY DEF Shape, Pointers
  <2> USE DEF Goto, Begin, Return, Locals, InDtor, InDest, InCopy, InLook, SlotsOf, NoOp
  <2>1. ASSUME NEW obj \in Objects, Create(t, obj)
        PROVE  Locals(t)'
    BY <2>1 DEF Create, Operations
  <2>2. ASSUME NEW peer \in Threads, Copy(t, peer)
        PROVE  Locals(t)'
    BY <2>2 DEF Copy, Operations
  <2>3. CASE Drop(t)
    <3>1. CASE ref_count[m_ptr[t]] = 1
      <4>1. /\ pc'[t] = "dtor" /\ m_ptr[t] \in Objects
            /\ op'[t] = [NoOp EXCEPT !.kind = "delete", !.victim = m_ptr[t]]
        BY <2>3, <3>1 DEF Drop
      <4> QED
        BY <4>1
    <3>2. CASE ~(ref_count[m_ptr[t]] = 1)
      BY <2>3, <3>2 DEF Drop
    <3> QED
      BY <3>1, <3>2
  <2>4. CASE DestroyWeakPtr(t)
    BY <2>4 DEF DestroyWeakPtr, Operations
  <2>5. ASSUME NEW dst \in SlotsOf(t), ToWeakPtr(t, dst)
        PROVE  Locals(t)'
    BY <2>5 DEF ToWeakPtr, Operations
  <2>6. ASSUME NEW src \in SlotsOf(t), ToStrongPtr(t, src)
        PROVE  Locals(t)'
    BY <2>6 DEF ToStrongPtr, Operations
  <2>7. ASSUME NEW src \in Weaks, CopyWeakPtr(t, src)
        PROVE  Locals(t)'
    BY <2>7 DEF CopyWeakPtr, Operations
  <2>8. ASSUME NEW dst \in SlotsOf(t), NEW src \in SlotsOf(t), Assign(t, dst, src)
        PROVE  Locals(t)'
    BY <2>8 DEF Assign, Operations
  <2>9. CASE Dtor(t)
    BY <2>9 DEF Dtor, Operations
  <2>10. CASE DtorUnlock(t)
    BY <2>10 DEF DtorUnlock, Operations
  <2>11. CASE DtorDelete(t)
    BY <2>11 DEF DtorDelete, Operations
  <2>12. CASE DestLock(t)
    BY <2>12 DEF DestLock, Operations
  <2>13. CASE DestContent(t)
    BY <2>13 DEF DestContent, Operations
  <2>14. CASE DestUnlock(t)
    BY <2>14 DEF DestUnlock, Operations
  <2>15. CASE DestClear(t)
    <3>1. CASE op[t].kind = "assign" \/ op[t].carried # Null
      BY <2>15, <3>1 DEF DestClear, Operations
    <3>2. CASE ~(op[t].kind = "assign" \/ op[t].carried # Null)
      BY <2>15, <3>2 DEF DestClear
    <3> QED
      BY <3>1, <3>2
  <2>16. CASE Store(t)
    <3>1. CASE op[t].kind = "assign"
      BY <2>16, <3>1 DEF Store, Operations
    <3>2. CASE ~(op[t].kind = "assign")
      BY <2>16, <3>2 DEF Store
    <3> QED
      BY <3>1, <3>2
  <2>17. CASE Source(t)
    BY <2>17 DEF Source, Operations
  <2>18. CASE AssignRelease(t)
    BY <2>18 DEF AssignRelease, Operations
  <2>19. CASE CopyLock(t)
    BY <2>19 DEF CopyLock, LookLock, Operations
  <2>20. CASE StrongLock(t)
    BY <2>20 DEF StrongLock, LookLock, Operations
  <2>21. CASE CopyContent(t)
    BY <2>21 DEF CopyContent, Operations
  <2>22. CASE CopyUnlock(t)
    BY <2>22 DEF CopyUnlock, Operations
  <2>23. CASE StrongContent(t)
    BY <2>23 DEF StrongContent, Operations
  <2>24. CASE StrongUnlock(t)
    BY <2>24 DEF StrongUnlock, Operations
  <2>25. CASE LookRelease(t)
    BY <2>25 DEF LookRelease, Operations
  <2> HIDE DEF Locals
  <2> QED
    BY <2>1, <2>2, <2>3, <2>4, <2>5, <2>6, <2>7, <2>8, <2>9, <2>10, <2>11,
       <2>12, <2>13, <2>14, <2>15, <2>16, <2>17, <2>18, <2>19, <2>20, <2>21,
       <2>22, <2>23, <2>24, <2>25 DEF Call, Step
<1> QED
  BY <1>1, <1>2 DEF LocalsOK

\* Every variable keeps its type, counts apart, and the locals of a thread are
\* those of the operation it is in.
THEOREM ShapeCorrect == Spec => [](Shape /\ LocalsOK)
<1>1. Init => Shape /\ LocalsOK
  <2> SUFFICES ASSUME Init
               PROVE  Shape /\ LocalsOK
    OBVIOUS
  <2>1. Shape
    <3>1. /\ pc \in [Threads -> Locations] /\ op \in [Threads -> Operations]
      BY NoOpTypes DEF Init, Locations
    <3>2. /\ m_weak_count \in [Slots -> Pointers]
          /\ m_ptr \in [Threads -> Pointers]
      BY DEF Init, Pointers
    <3>3. /\ object \in [Objects -> Lives] /\ counter \in [Objects -> Lives]
      BY DEF Init, Lives
    <3> QED
      BY <3>1, <3>2, <3>3 DEF Init, Shape
  <2>2. LocalsOK
    BY DEF Init, LocalsOK, Locals, NoOp, InDtor, InDest, InCopy, InLook
  <2> QED
    BY <2>1, <2>2
<1>2. Shape /\ LocalsOK /\ [Next]_vars => (Shape /\ LocalsOK)'
  <2>1. Shape /\ LocalsOK /\ UNCHANGED vars => (Shape /\ LocalsOK)'
    BY DEF vars, objectVars, countVars, weakVars, historyVars, Shape, LocalsOK, Locals
  <2> QED
    BY <2>1, ShapeStep, LocalsStep DEF Next
<1> QED
  BY <1>1, <1>2, PTL DEF Spec

\* The locks of weak pointers that a thread has, where it is.
Holds(t, s) ==
  \/ pc[t] \in {"destContent", "destUnlock", "destClear"} /\ op[t].dst = s
  \/ /\ pc[t] \in {"copyContent", "copyUnlock", "strongContent", "strongUnlock",
                   "lookRelease"}
     /\ op[t].src = s
  \/ op[t].kind = "assign" /\ pc[t] # "source" /\ op[t].src = s

\* The object in whose counter it has content_lock, or is after it.
AtContent(t) ==
  IF pc[t] \in {"destContent", "destUnlock"}
  THEN m_weak_count[op[t].dst] ELSE m_weak_count[op[t].src]

Owns(t) ==
  /\ \A s \in Slots : Holds(t, s) => m_count_lock[s] = t
  /\ pc[t] \in {"destContent", "destUnlock", "copyContent", "copyUnlock",
                "strongContent", "strongUnlock"} => AtContent(t) \in Objects
  /\ pc[t] \in {"destUnlock", "copyUnlock", "strongUnlock"} =>
       content_lock[AtContent(t)] = t
  /\ pc[t] = "dtorUnlock" => content_lock[op[t].victim] = t
  /\ pc[t] = "copyUnlock" => op[t].carried = AtContent(t)
  /\ pc[t] = "destClear" /\ op[t].must_delete_count =>
       m_weak_count[op[t].dst] \in Objects
  /\ pc[t] \in {"destContent", "destUnlock", "destClear"} =>
       ~(op[t].kind = "assign" /\ op[t].src = op[t].dst)
  /\ pc[t] \in InCopy => m_weak_count[t] = Null /\ op[t].dst = t

OwnsOK == \A t \in Threads : Owns(t)

SlotKept(u, s) ==
  /\ m_count_lock[s] = u =>
       m_weak_count'[s] = m_weak_count[s] /\ m_count_lock'[s] = u
  /\ s = u => m_weak_count'[s] = m_weak_count[s]

\* A step leaves the weak pointers alone that another thread has locked, and
\* the other threads' own ones.
LEMMA HeldSlots ==
  ASSUME Shape, LocalsOK, OwnsOK,
         NEW t \in Threads, Call(t) \/ Step(t),
         NEW u \in Threads \ {t}, NEW s \in SlotsOf(u)
  PROVE  SlotKept(u, s)
<1> /\ m_count_lock \in [Slots -> Threads \cup {"free"}]
    /\ m_weak_count \in [Slots -> Pointers]
    /\ s \in Slots /\ s # t /\ "free" \notin Threads
    /\ u \in Threads /\ u \notin SlotsOf(t) /\ SlotsOf(t) \subseteq Slots
    /\ Locals(t) /\ Owns(t)
  BY SmartPtrAssumption DEF Shape, SlotsOf, Slots, LocalsOK, OwnsOK
<1> USE DEF Goto, Begin, Return, Acquire, Release, weakVars, Owns, Holds, SlotKept
<1>1. ASSUME NEW obj \in Objects, Create(t, obj)
      PROVE  SlotKept(u, s)
    BY <1>1 DEF Create
<1>2. ASSUME NEW peer \in Threads, Copy(t, peer)
      PROVE  SlotKept(u, s)
    BY <1>2 DEF Copy
<1>3. CASE \/ Drop(t) \/ DestroyWeakPtr(t) \/ Dtor(t) \/ DtorUnlock(t)
           \/ DtorDelete(t) \/ DestContent(t) \/ DestUnlock(t)
           \/ CopyContent(t) \/ StrongContent(t) \/ StrongUnlock(t)
    BY <1>3 DEF Drop, DestroyWeakPtr, Dtor, DtorUnlock, DtorDelete, DestContent,
       DestUnlock, CopyContent, StrongContent, StrongUnlock
<1>4. ASSUME NEW dst \in SlotsOf(t), ToWeakPtr(t, dst)
      PROVE  SlotKept(u, s)
    BY <1>4 DEF ToWeakPtr
<1>5. ASSUME NEW src \in SlotsOf(t), ToStrongPtr(t, src)
      PROVE  SlotKept(u, s)
    BY <1>5 DEF ToStrongPtr
<1>6. ASSUME NEW src \in Weaks, CopyWeakPtr(t, src)
      PROVE  SlotKept(u, s)
    BY <1>6 DEF CopyWeakPtr
<1>7. ASSUME NEW dst \in SlotsOf(t), NEW src \in SlotsOf(t), Assign(t, dst, src)
      PROVE  SlotKept(u, s)
    BY <1>7 DEF Assign
<1>8. CASE \/ DestLock(t) \/ DestClear(t) \/ Store(t) \/ Source(t)
            \/ AssignRelease(t) \/ CopyLock(t) \/ StrongLock(t)
            \/ CopyUnlock(t) \/ LookRelease(t)
    BY <1>8 DEF DestLock, DestClear, Store, Source, AssignRelease, CopyLock,
       StrongLock, CopyUnlock, LookRelease, LookLock, Locals, InDest, InLook,
       InCopy
<1> HIDE DEF Owns, Holds, SlotKept
<1> QED
  BY <1>1, <1>2, <1>3, <1>4, <1>5, <1>6, <1>7, <1>8 DEF Call, Step

\* So with the counters.
LEMMA HeldContents ==
  ASSUME Shape, LocalsOK, OwnsOK,
         NEW t \in Threads, Call(t) \/ Step(t),
         NEW u \in Threads \ {t}, NEW o \in Objects, content_lock[o] = u
  PROVE  content_lock'[o] = u
<1> /\ content_lock \in [Objects -> Threads \cup {"free"}]
    /\ "free" \notin Threads
    /\ u # t /\ u # "free" /\ Locals(t) /\ Owns(t)
  BY SmartPtrAssumption DEF Shape, LocalsOK, OwnsOK
<1> USE DEF Goto, Begin, Return, Acquire, Release, countVars, Owns, AtContent
<1>1. ASSUME NEW obj \in Objects, Create(t, obj)
      PROVE  content_lock'[o] = u
    BY <1>1 DEF Create
<1>2. ASSUME NEW peer \in Threads, Copy(t, peer)
      PROVE  content_lock'[o] = u
    BY <1>2 DEF Copy
<1>3. CASE \/ Drop(t) \/ DestroyWeakPtr(t) \/ Dtor(t) \/ DtorDelete(t)
           \/ DestLock(t) \/ DestContent(t) \/ DestUnlock(t) \/ DestClear(t)
           \/ Store(t) \/ Source(t) \/ AssignRelease(t) \/ CopyLock(t)
           \/ StrongLock(t) \/ CopyContent(t) \/ StrongContent(t)
           \/ StrongUnlock(t) \/ LookRelease(t)
    BY <1>3 DEF Drop, DestroyWeakPtr, Dtor, DtorDelete, DestLock, DestContent,
       DestUnlock, DestClear, Store, Source, AssignRelease, CopyLock,
       StrongLock, CopyContent, StrongContent, StrongUnlock, LookRelease,
       LookLock
<1>4. ASSUME NEW dst \in SlotsOf(t), ToWeakPtr(t, dst)
      PROVE  content_lock'[o] = u
    BY <1>4 DEF ToWeakPtr
<1>5. ASSUME NEW src \in SlotsOf(t), ToStrongPtr(t, src)
      PROVE  content_lock'[o] = u
    BY <1>5 DEF ToStrongPtr
<1>6. ASSUME NEW src \in Weaks, CopyWeakPtr(t, src)
      PROVE  content_lock'[o] = u
    BY <1>6 DEF CopyWeakPtr
<1>7. ASSUME NEW dst \in SlotsOf(t), NEW src \in SlotsOf(t), Assign(t, dst, src)
      PROVE  content_lock'[o] = u
    BY <1>7 DEF Assign
<1>8. CASE \/ DtorUnlock(t) \/ CopyUnlock(t)
    BY <1>8 DEF DtorUnlock, CopyUnlock, Locals, InDtor
<1> QED
  BY <1>1, <1>2, <1>3, <1>4, <1>5, <1>6, <1>7, <1>8 DEF Call, Step

\* A step takes no lock from another thread, nor the counter from under one.
LEMMA OthersOwn ==
  ASSUME Shape, LocalsOK, OwnsOK,
         NEW t \in Threads, Call(t) \/ Step(t), NEW u \in Threads \ {t}
  PROVE  Owns(u)'
<1> u \in Threads /\ Owns(u) /\ Locals(u)
  BY DEF OwnsOK, LocalsOK
<1>1. op'[u] = op[u] /\ pc'[u] = pc[u]
  BY OthersKeepLocals
<1>2. \A s \in SlotsOf(u) : SlotKept(u, s)
  BY HeldSlots
<1>3. \A o \in Objects : content_lock[o] = u => content_lock'[o] = u
  BY HeldContents
<1>4. \A s \in Slots : Holds(u, s) => s \in SlotsOf(u) /\ m_count_lock[s] = u
  <2>1. \A s \in Slots : Holds(u, s) => s \in SlotsOf(u)
    BY DEF Holds, Locals, InDest, InLook, InCopy
  <2> QED
    BY <2>1 DEF Owns
<1>5. \A s \in Slots : Holds(u, s)' = Holds(u, s)
  BY <1>1 DEF Holds
<1>6. \A s \in Slots : Holds(u, s)' => m_count_lock'[s] = u
  BY <1>2, <1>4, <1>5 DEF SlotKept
<1>7. \A s \in Slots : Holds(u, s) => m_weak_count'[s] = m_weak_count[s]
  BY <1>2, <1>4 DEF SlotKept
<1>8. pc[u] \in InCopy => m_weak_count'[u] = Null /\ op[u].dst = u
  BY <1>2 DEF SlotKept, SlotsOf, Owns
<1>9. pc[u] \in {"destContent", "destUnlock", "copyContent", "copyUnlock",
                "strongContent", "strongUnlock"} => AtContent(u)' = AtContent(u)
  <2>1. CASE pc[u] \in {"destContent", "destUnlock"}
    <3>1. op[u].dst \in Slots /\ Holds(u, op[u].dst)
      BY <2>1 DEF Locals, Holds, InDest, SlotsOf, Slots
    <3> QED
      BY <3>1, <2>1, <1>1, <1>7 DEF AtContent
  <2>2. CASE pc[u] \in {"copyContent", "copyUnlock", "strongContent", "strongUnlock"}
    <3>1. op[u].src \in Slots /\ Holds(u, op[u].src)
      BY <2>2 DEF Locals, Holds, InLook, InCopy, SlotsOf, Slots
    <3> QED
      BY <3>1, <2>2, <1>1, <1>7 DEF AtContent
  <2> QED
    BY <2>1, <2>2
<1>10. pc[u] = "destClear" => m_weak_count'[op[u].dst] = m_weak_count[op[u].dst]
  <2> SUFFICES ASSUME pc[u] = "destClear"
               PROVE  m_weak_count'[op[u].dst] = m_weak_count[op[u].dst]
    OBVIOUS
  <2>1. op[u].dst \in Slots /\ Holds(u, op[u].dst)
    BY DEF Locals, Holds, InDest, SlotsOf, Slots
  <2> QED
    BY <2>1, <1>7
<1>11. pc[u] = "dtorUnlock" => content_lock'[op[u].victim] = u
  BY <1>3 DEF Owns, Locals, InDtor
<1>12. pc[u] \in {"destUnlock", "copyUnlock", "strongUnlock"} =>
         content_lock'[AtContent(u)] = u
  BY <1>3 DEF Owns
<1> QED
  BY <1>1, <1>6, <1>8, <1>9, <1>10, <1>11, <1>12 DEF Owns

\* The thread that takes the step has the locks that it needs where it arrives.
LEMMA OwnStep ==
  ASSUME Shape, LocalsOK, OwnsOK, NEW t \in Threads, Call(t) \/ Step(t)
  PROVE  Owns(t)'
<1> /\ content_lock \in [Objects -> Threads \cup {"free"}]
    /\ m_count_lock \in [Slots -> Threads \cup {"free"}]
    /\ m_weak_count \in [Slots -> Pointers] /\ pc \in [Threads -> Locations]
    /\ op \in [Threads -> Operations] /\ op[t] \in Operations
    /\ t \in Slots /\ Owns(t) /\ Locals(t) /\ SlotsOf(t) \subseteq Slots
    /\ t \in SlotsOf(t) /\ t \notin Weaks /\ "free" # t
  BY SmartPtrAssumption DEF Shape, OwnsOK, LocalsOK, SlotsOf, Slots
<1> USE DEF Goto, Begin, Return, Acquire, Release, weakVars, countVars, Owns,
            Holds, AtContent, Locals, InDest, InDtor, InCopy, InLook, NoOp
<1>1. ASSUME NEW obj \in Objects, Create(t, obj)
      PROVE  Owns(t)'
  BY <1>1 DEF Create, Operations
<1>2. ASSUME NEW peer \in Threads, Copy(t, peer)
      PROVE  Owns(t)'
  BY <1>2 DEF Copy, Operations
<1>3. CASE Drop(t)
  <2>1. CASE ref_count[m_ptr[t]] = 1
    <3>1. pc'[t] = "dtor"
      BY <1>3, <2>1 DEF Drop
    <3>2. op'[t].kind = "delete"
      <4>1. op'[t] = [NoOp EXCEPT !.kind = "delete", !.victim = m_ptr[t]]
        BY <1>3, <2>1 DEF Drop
      <4> QED
        BY <4>1
    <3> QED
      BY <3>1, <3>2
  <2>2. CASE ~(ref_count[m_ptr[t]] = 1)
    BY <1>3, <2>2 DEF Drop
  <2> QED
    BY <2>1, <2>2
<1>4. CASE DestroyWeakPtr(t)
  BY <1>4 DEF DestroyWeakPtr, Operations
<1>5. ASSUME NEW dst \in SlotsOf(t), ToWeakPtr(t, dst)
      PROVE  Owns(t)'
  BY <1>5 DEF ToWeakPtr, Operations
<1>6. ASSUME NEW src \in SlotsOf(t), ToStrongPtr(t, src)
      PROVE  Owns(t)'
  BY <1>6 DEF ToStrongPtr, Operations
<1>7. ASSUME NEW src \in Weaks, CopyWeakPtr(t, src)
      PROVE  Owns(t)'
  BY <1>7 DEF CopyWeakPtr, Operations
<1>8. ASSUME NEW dst \in SlotsOf(t), NEW src \in SlotsOf(t), Assign(t, dst, src)
      PROVE  Owns(t)'
  BY <1>8 DEF Assign, Operations
<1>9. CASE Dtor(t)
  BY <1>9 DEF Dtor, Operations
<1>10. CASE DtorUnlock(t)
  BY <1>10 DEF DtorUnlock, Operations
<1>11. CASE DtorDelete(t)
  BY <1>11 DEF DtorDelete, Operations
<1>12. CASE DestLock(t)
  <2>1. CASE m_weak_count[op[t].dst] = Null
    BY <1>12, <2>1 DEF DestLock
  <2>2. CASE ~(m_weak_count[op[t].dst] = Null)
    BY <1>12, <2>2 DEF DestLock, Pointers
  <2> QED
    BY <2>1, <2>2
<1>13. CASE DestContent(t)
  BY <1>13 DEF DestContent, Operations
<1>14. CASE DestUnlock(t)
  BY <1>14 DEF DestUnlock, Operations
<1>15. CASE DestClear(t)
  BY <1>15 DEF DestClear, Operations
<1>16. CASE Store(t)
  BY <1>16 DEF Store, Operations
<1>17. CASE Source(t)
  BY <1>17 DEF Source, Operations
<1>18. CASE AssignRelease(t)
  BY <1>18 DEF AssignRelease, Operations
<1>19. CASE CopyLock(t)
  <2>1. CASE m_weak_count[op[t].src] = Null
    BY <1>19, <2>1 DEF CopyLock, LookLock
  <2>2. CASE ~(m_weak_count[op[t].src] = Null)
    BY <1>19, <2>2 DEF CopyLock, LookLock, Pointers
  <2> QED
    BY <2>1, <2>2
<1>20. CASE StrongLock(t)
  <2>1. CASE m_weak_count[op[t].src] = Null
    BY <1>20, <2>1 DEF StrongLock, LookLock
  <2>2. CASE ~(m_weak_count[op[t].src] = Null)
    BY <1>20, <2>2 DEF StrongLock, LookLock, Pointers
  <2> QED
    BY <2>1, <2>2
<1>21. CASE CopyContent(t)
  BY <1>21 DEF CopyContent, Operations
<1>22. CASE CopyUnlock(t)
  BY <1>22 DEF CopyUnlock, Operations
<1>23. CASE StrongContent(t)
  BY <1>23 DEF StrongContent, Operations
<1>24. CASE StrongUnlock(t)
  BY <1>24 DEF StrongUnlock, Operations
<1>25. CASE LookRelease(t)
  BY <1>25 DEF LookRelease, Operations
<1> HIDE DEF Owns
<1> QED
  BY <1>1, <1>2, <1>3, <1>4, <1>5, <1>6, <1>7, <1>8, <1>9, <1>10, <1>11, <1>12,
     <1>13, <1>14, <1>15, <1>16, <1>17, <1>18, <1>19, <1>20, <1>21, <1>22,
     <1>23, <1>24, <1>25 DEF Call, Step

\* A thread inside a critical section has its lock: what it read under the lock
\* of a weak pointer is there until it gives that lock up.
THEOREM OwnersCorrect == Spec => [](Shape /\ LocalsOK /\ OwnsOK)
<1>1. Init => OwnsOK
  BY DEF Init, OwnsOK, Owns, Holds, NoOp, InCopy
<1>2. Shape /\ LocalsOK /\ OwnsOK /\ [Next]_vars => OwnsOK'
  <2>1. Shape /\ LocalsOK /\ OwnsOK /\ UNCHANGED vars => OwnsOK'
    BY DEF vars, objectVars, countVars, weakVars, historyVars, OwnsOK, Owns, Holds,
           AtContent
  <2> QED
    BY <2>1, OwnStep, OthersOwn DEF Next, OwnsOK
<1> QED
  BY <1>1, <1>2, ShapeCorrect, PTL DEF Spec
-----------------------------------------------------------------------------
(* Who is counted. *)

Leaving == {"destUnlock", "destClear"}

\* What is counted and what is carried are finite sets.
LEMMA FiniteCounts ==
  ASSUME NEW o
  PROVE  /\ IsFiniteSet(Counted(o)) /\ IsFiniteSet(Carried(o))
         /\ IsFiniteSet(Counted(o))' /\ IsFiniteSet(Carried(o))'
<1>1. IsFiniteSet(Slots)
  BY SmartPtrAssumption, FS_Union DEF Slots
<1>2. /\ Counted(o) \subseteq Slots /\ Counted(o)' \subseteq Slots
      /\ Carried(o) \subseteq Threads /\ Carried(o)' \subseteq Threads
  BY DEF Counted, Carried
<1> QED
  BY <1>1, <1>2, FS_Subset, SmartPtrAssumption

\* Only the thread that takes the step changes what is counted.
LEMMA CountedByOne ==
  ASSUME Shape, NEW t \in Threads, Call(t) \/ Step(t), NEW o \in Objects,
         NEW s \in Slots,
         \A u \in Threads \ {t} : ~(pc[u] \in Leaving /\ op[u].dst = s)
  PROVE  /\ s \in Counted(o) <=>
              m_weak_count[s] = o /\ ~(pc[t] \in Leaving /\ op[t].dst = s)
         /\ s \in Counted(o)' <=>
              m_weak_count'[s] = o /\ ~(pc'[t] \in Leaving /\ op'[t].dst = s)
  BY OthersKeepLocals DEF Counted, Leaving

\* The pointer another thread is clearing is not counted, before and after.
LEMMA CountedByOthers ==
  ASSUME Shape, NEW t \in Threads, Call(t) \/ Step(t), NEW o \in Objects,
         NEW s \in Slots,
         NEW u \in Threads \ {t}, pc[u] \in Leaving, op[u].dst = s
  PROVE  s \notin Counted(o) /\ s \notin Counted(o)'
  BY OthersKeepLocals DEF Counted, Leaving

\* Only the thread that takes the step changes what is carried.
LEMMA CarriedByOne ==
  ASSUME Shape, NEW t \in Threads, Call(t) \/ Step(t), NEW o \in Objects
  PROVE  /\ op'[t].carried = op[t].carried => Carried(o)' = Carried(o)
         /\ op'[t].carried = o => Carried(o)' = Carried(o) \cup {t}
         /\ op'[t].carried # o => Carried(o)' = Carried(o) \ {t}
  BY OthersKeepLocals DEF Carried

SameCounted(o) == Counted(o)' = Counted(o)
SameCarried(o) == Carried(o)' = Carried(o)
SameWeak(o)    == weak_count'[o] = weak_count[o]
SameLost(o)    == lost'[o] = lost[o]

\* What a step does to the counts of one object.
Untouched(o)  == SameCounted(o) /\ SameCarried(o) /\ SameWeak(o) /\ SameLost(o)
PickUp(t, o)  == /\ t \notin Carried(o) /\ Carried(o)' = Carried(o) \cup {t}
                 /\ weak_count'[o] = weak_count[o] + 1
                 /\ SameCounted(o) /\ SameLost(o)
GiveUp(o)     == /\ \E s \in Counted(o) : Counted(o)' = Counted(o) \ {s}
                 /\ weak_count'[o] = weak_count[o] - 1
                 /\ SameCarried(o) /\ SameLost(o)
PutDown(t, o) == /\ t \in Carried(o) /\ Carried(o)' = Carried(o) \ {t}
                 /\ \E s \in Slots \ Counted(o) : Counted(o)' = Counted(o) \cup {s}
                 /\ SameWeak(o) /\ SameLost(o)
StoreOver(o)  == /\ \E s \in Counted(o) : Counted(o)' = Counted(o) \ {s}
                 /\ lost'[o] = lost[o] + 1
                 /\ SameWeak(o) /\ SameCarried(o)
StoreAgain(t, o) == /\ t \in Carried(o) /\ Carried(o)' = Carried(o) \ {t}
                    /\ lost'[o] = lost[o] + 1
                    /\ SameWeak(o) /\ SameCounted(o)

Change(t, o) == \/ Untouched(o) \/ PickUp(t, o) \/ GiveUp(o) \/ PutDown(t, o)
                \/ StoreOver(o) \/ StoreAgain(t, o)

\* A step that stores in no weak pointer and begins or ends no leaving.
LEMMA SameCountedIf ==
  ASSUME Shape, NEW t \in Threads, Call(t) \/ Step(t), NEW o \in Objects,
         UNCHANGED m_weak_count,
         pc'[t] \in Leaving <=> pc[t] \in Leaving,
         pc[t] \in Leaving => op'[t].dst = op[t].dst
  PROVE  SameCounted(o)
<1>1. \A s \in Slots : s \in Counted(o)' <=> s \in Counted(o)
  <2> TAKE s \in Slots
  <2>1. CASE \E u \in Threads \ {t} : pc[u] \in Leaving /\ op[u].dst = s
    BY <2>1, CountedByOthers
  <2>2. CASE \A u \in Threads \ {t} : ~(pc[u] \in Leaving /\ op[u].dst = s)
    BY <2>2, CountedByOne
  <2> QED
    BY <2>1, <2>2
<1> QED
  BY <1>1 DEF SameCounted, Counted

\* A step that changes one weak pointer at most.
LEMMA CountedElsewhere ==
  ASSUME Shape, NEW t \in Threads, Call(t) \/ Step(t), NEW o \in Objects,
         NEW s \in Slots,
         \A r \in Slots \ {s} : /\ m_weak_count'[r] = m_weak_count[r]
                              /\ ~(pc[t] \in Leaving /\ op[t].dst = r)
                              /\ ~(pc'[t] \in Leaving /\ op'[t].dst = r)
  PROVE  /\ (s \in Counted(o)' <=> s \in Counted(o)) => SameCounted(o)
         /\ s \in Counted(o)' => Counted(o)' = Counted(o) \cup {s}
         /\ s \notin Counted(o)' => Counted(o)' = Counted(o) \ {s}
<1>1. \A r \in Slots \ {s} : r \in Counted(o)' <=> r \in Counted(o)
  <2> TAKE r \in Slots \ {s}
  <2>1. CASE \E u \in Threads \ {t} : pc[u] \in Leaving /\ op[u].dst = r
    BY <2>1, CountedByOthers
  <2>2. CASE \A u \in Threads \ {t} : ~(pc[u] \in Leaving /\ op[u].dst = r)
    BY <2>2, CountedByOne
  <2> QED
    BY <2>1, <2>2
<1>2. Counted(o) \subseteq Slots /\ Counted(o)' \subseteq Slots
  BY DEF Counted
<1> QED
  BY <1>1, <1>2 DEF SameCounted

\* Whoever is leaving has the lock, and nobody else has a thread's own pointer.
LEMMA NobodyLeaves ==
  ASSUME LocalsOK, OwnsOK, NEW t \in Threads, NEW s \in Slots,
         m_count_lock[s] \in {t, "free"} \/ s = t
  PROVE  \A u \in Threads \ {t} : ~(pc[u] \in Leaving /\ op[u].dst = s)
<1> SUFFICES ASSUME NEW u \in Threads \ {t}, pc[u] \in Leaving, op[u].dst = s
             PROVE  FALSE
  OBVIOUS
<1>1. Holds(u, s) /\ s \in SlotsOf(u)
  BY DEF Holds, Leaving, LocalsOK, Locals, InDest
<1>2. m_count_lock[s] = u
  BY <1>1 DEF OwnsOK, Owns
<1> QED
  BY <1>1, <1>2, SmartPtrAssumption DEF SlotsOf

\* Every step changes weak_count by what it changes in the pointers counted, the
\* references carried and the references lost.
LEMMA ChangeStep ==
  ASSUME Shape, LocalsOK, OwnsOK,
         NEW t \in Threads, Call(t) \/ Step(t), NEW o \in Objects
  PROVE  Change(t, o)
<1> /\ pc \in [Threads -> Locations] /\ op \in [Threads -> Operations]
    /\ op[t] \in Operations /\ Locals(t) /\ SlotsOf(t) \subseteq Slots
    /\ weak_count \in [Objects -> Int] /\ lost \in [Objects -> Nat]
    /\ o # Null
  BY SmartPtrAssumption DEF Shape, LocalsOK, SlotsOf, Slots, Null
<1>1. ASSUME NEW obj \in Objects, Create(t, obj)
      PROVE  Change(t, o)
  <2>1. /\ UNCHANGED m_weak_count /\ (pc'[t] \in Leaving <=> pc[t] \in Leaving)
        /\ (pc[t] \in Leaving => op'[t].dst = op[t].dst)
        /\ op'[t].carried = op[t].carried
    BY <1>1 DEF Create, Goto, Begin, Return, weakVars, Leaving, NoOp, Locals,
       InDtor, InLook, InCopy
  <2>2. UNCHANGED <<weak_count, lost>>
    BY <1>1 DEF Create, countVars, historyVars
  <2> QED
    BY <2>1, <2>2, SameCountedIf, CarriedByOne
       DEF Change, Untouched, SameCarried, SameWeak, SameLost
<1>2. ASSUME NEW peer \in Threads, Copy(t, peer)
      PROVE  Change(t, o)
  <2>1. /\ UNCHANGED m_weak_count /\ (pc'[t] \in Leaving <=> pc[t] \in Leaving)
        /\ (pc[t] \in Leaving => op'[t].dst = op[t].dst)
        /\ op'[t].carried = op[t].carried
    BY <1>2 DEF Copy, Goto, Begin, Return, weakVars, Leaving, NoOp, Locals,
       InDtor, InLook, InCopy
  <2>2. UNCHANGED <<weak_count, lost>>
    BY <1>2 DEF Copy, countVars, historyVars
  <2> QED
    BY <2>1, <2>2, SameCountedIf, CarriedByOne
       DEF Change, Untouched, SameCarried, SameWeak, SameLost
<1>3. CASE Drop(t)
  <2>1. UNCHANGED <<m_weak_count, weak_count, lost>>
    BY <1>3 DEF Drop, weakVars, countVars, historyVars
  <2>2. (pc'[t] \notin Leaving /\ pc[t] \notin Leaving) /\ op'[t].carried = op[t].carried
    <3>1. CASE ref_count[m_ptr[t]] = 1
      <4>1. /\ pc[t] = "idle" /\ pc'[t] = "dtor"
            /\ op'[t] = [NoOp EXCEPT !.kind = "delete", !.victim = m_ptr[t]]
        BY <1>3, <3>1 DEF Drop, Begin, Goto
      <4> QED
        BY <4>1 DEF Leaving, Locals, NoOp
    <3>2. CASE ref_count[m_ptr[t]] # 1
      BY <1>3, <3>2 DEF Drop, Leaving
    <3> QED
      BY <3>1, <3>2
  <2> QED
    BY <2>1, <2>2, SameCountedIf, CarriedByOne
       DEF Change, Untouched, SameCarried, SameWeak, SameLost
<1>4. CASE DestroyWeakPtr(t)
  <2>1. /\ UNCHANGED m_weak_count /\ (pc'[t] \in Leaving <=> pc[t] \in Leaving)
        /\ (pc[t] \in Leaving => op'[t].dst = op[t].dst)
        /\ op'[t].carried = op[t].carried
    BY <1>4 DEF DestroyWeakPtr, Goto, Begin, Return, weakVars, Leaving, NoOp,
       Locals, InDtor, InLook, InCopy
  <2>2. UNCHANGED <<weak_count, lost>>
    BY <1>4 DEF DestroyWeakPtr, countVars, historyVars
  <2> QED
    BY <2>1, <2>2, SameCountedIf, CarriedByOne
       DEF Change, Untouched, SameCarried, SameWeak, SameLost
<1>5. ASSUME NEW dst \in SlotsOf(t), ToWeakPtr(t, dst)
      PROVE  Change(t, o)
  <2>1. /\ UNCHANGED m_weak_count /\ pc'[t] \notin Leaving /\ pc[t] \notin Leaving
        /\ op[t].carried = Null /\ op'[t].carried = m_ptr[t]
    BY <1>5 DEF ToWeakPtr, Goto, Begin, weakVars, Leaving, NoOp, Locals, InLook,
       InCopy, Operations
  <2>2. SameCounted(o) /\ SameLost(o) /\ t \notin Carried(o)
    BY <1>5, <2>1, SameCountedIf DEF ToWeakPtr, historyVars, SameLost, Carried
  <2>3. CASE m_ptr[t] = o
    <3>1. weak_count'[o] = weak_count[o] + 1
      BY <1>5, <2>3 DEF ToWeakPtr, Count, CountIfAny
    <3> QED
      BY <2>1, <2>2, <2>3, <3>1, CarriedByOne DEF Change, PickUp
  <2>4. CASE m_ptr[t] # o
    <3>1. SameWeak(o)
      BY <1>5, <2>4 DEF ToWeakPtr, Count, CountIfAny, SameWeak
    <3>2. Carried(o)' = Carried(o) \ {t}
      BY <2>1, <2>4, CarriedByOne
    <3>3. SameCarried(o)
      BY <2>2, <3>2 DEF SameCarried
    <3> QED
      BY <2>2, <3>1, <3>3 DEF Change, Untouched
  <2> QED
    BY <2>3, <2>4
<1>6. ASSUME NEW src \in SlotsOf(t), ToStrongPtr(t, src)
      PROVE  Change(t, o)
  <2>1. /\ UNCHANGED m_weak_count /\ (pc'[t] \in Leaving <=> pc[t] \in Leaving)
        /\ (pc[t] \in Leaving => op'[t].dst = op[t].dst)
        /\ op'[t].carried = op[t].carried
    BY <1>6 DEF ToStrongPtr, Goto, Begin, Return, weakVars, Leaving, NoOp,
       Locals, InDtor, InLook, InCopy
  <2>2. UNCHANGED <<weak_count, lost>>
    BY <1>6 DEF ToStrongPtr, countVars, historyVars
  <2> QED
    BY <2>1, <2>2, SameCountedIf, CarriedByOne
       DEF Change, Untouched, SameCarried, SameWeak, SameLost
<1>7. ASSUME NEW src \in Weaks, CopyWeakPtr(t, src)
      PROVE  Change(t, o)
  <2>1. /\ UNCHANGED m_weak_count /\ (pc'[t] \in Leaving <=> pc[t] \in Leaving)
        /\ (pc[t] \in Leaving => op'[t].dst = op[t].dst)
        /\ op'[t].carried = op[t].carried
    BY <1>7 DEF CopyWeakPtr, Goto, Begin, Return, weakVars, Leaving, NoOp,
       Locals, InDtor, InLook, InCopy
  <2>2. UNCHANGED <<weak_count, lost>>
    BY <1>7 DEF CopyWeakPtr, countVars, historyVars
  <2> QED
    BY <2>1, <2>2, SameCountedIf, CarriedByOne
       DEF Change, Untouched, SameCarried, SameWeak, SameLost
<1>8. ASSUME NEW dst \in SlotsOf(t), NEW src \in SlotsOf(t), Assign(t, dst, src)
      PROVE  Change(t, o)
  <2>1. /\ UNCHANGED m_weak_count /\ (pc'[t] \in Leaving <=> pc[t] \in Leaving)
        /\ (pc[t] \in Leaving => op'[t].dst = op[t].dst)
        /\ op'[t].carried = op[t].carried
    BY <1>8 DEF Assign, Goto, Begin, Return, weakVars, Leaving, NoOp, Locals,
       InDtor, InLook, InCopy
  <2>2. UNCHANGED <<weak_count, lost>>
    BY <1>8 DEF Assign, countVars, historyVars
  <2> QED
    BY <2>1, <2>2, SameCountedIf, CarriedByOne
       DEF Change, Untouched, SameCarried, SameWeak, SameLost
<1>9. CASE Dtor(t)
  <2>1. /\ UNCHANGED m_weak_count /\ (pc'[t] \in Leaving <=> pc[t] \in Leaving)
        /\ (pc[t] \in Leaving => op'[t].dst = op[t].dst)
        /\ op'[t].carried = op[t].carried
    BY <1>9 DEF Dtor, Goto, Begin, Return, weakVars, Leaving, NoOp, Locals,
       InDtor, InLook, InCopy
  <2>2. UNCHANGED <<weak_count, lost>>
    BY <1>9 DEF Dtor, countVars, historyVars
  <2> QED
    BY <2>1, <2>2, SameCountedIf, CarriedByOne
       DEF Change, Untouched, SameCarried, SameWeak, SameLost
<1>10. CASE DtorUnlock(t)
  <2>1. /\ UNCHANGED m_weak_count /\ (pc'[t] \in Leaving <=> pc[t] \in Leaving)
        /\ (pc[t] \in Leaving => op'[t].dst = op[t].dst)
        /\ op'[t].carried = op[t].carried
    BY <1>10 DEF DtorUnlock, Goto, Begin, Return, weakVars, Leaving, NoOp,
       Locals, InDtor, InLook, InCopy
  <2>2. UNCHANGED <<weak_count, lost>>
    BY <1>10 DEF DtorUnlock, countVars, historyVars
  <2> QED
    BY <2>1, <2>2, SameCountedIf, CarriedByOne
       DEF Change, Untouched, SameCarried, SameWeak, SameLost
<1>11. CASE DtorDelete(t)
  <2>1. /\ UNCHANGED m_weak_count /\ (pc'[t] \in Leaving <=> pc[t] \in Leaving)
        /\ (pc[t] \in Leaving => op'[t].dst = op[t].dst)
        /\ op'[t].carried = op[t].carried
    BY <1>11 DEF DtorDelete, Goto, Begin, Return, weakVars, Leaving, NoOp,
       Locals, InDtor, InLook, InCopy
  <2>2. UNCHANGED <<weak_count, lost>>
    BY <1>11 DEF DtorDelete, countVars, historyVars
  <2> QED
    BY <2>1, <2>2, SameCountedIf, CarriedByOne
       DEF Change, Untouched, SameCarried, SameWeak, SameLost
<1>12. CASE DestLock(t)
  <2> DEFINE s == op[t].dst
  <2>0. s \in Slots /\ m_count_lock[s] \in {t, "free"}
    <3>1. pc[t] = "destLock"
      BY <1>12 DEF DestLock, Goto, Return
    <3>2. s \in Slots
      BY <3>1 DEF Locals, InDest
    <3>3. m_count_lock[s] \in {t, "free"}
      BY <1>12 DEF DestLock, Acquire
    <3> QED
      BY <3>2, <3>3
  <2> HIDE DEF s
  <2>1. \A u \in Threads \ {t} : ~(pc[u] \in Leaving /\ op[u].dst = s)
    BY <2>0, NobodyLeaves
  <2>2. UNCHANGED <<m_weak_count, op>> /\ pc[t] = "destLock"
    BY <1>12 DEF DestLock, Goto
  <2>3. pc'[t] \in Leaving => m_weak_count[s] = Null
    BY <1>12 DEF DestLock, Goto, Leaving, s
  <2>4. SameCounted(o)
    <3>1. \A r \in Slots \ {s} : /\ m_weak_count'[r] = m_weak_count[r]
                              /\ ~(pc[t] \in Leaving /\ op[t].dst = r)
                              /\ ~(pc'[t] \in Leaving /\ op'[t].dst = r)
      BY <2>2 DEF s
    <3>2. s \in Counted(o) <=> m_weak_count[s] = o
      BY <2>0, <2>1, <2>2, CountedByOne DEF Leaving
    <3>3. s \in Counted(o)' <=> m_weak_count[s] = o
      BY <2>0, <2>1, <2>2, <2>3, CountedByOne
    <3> QED
      BY <2>0, <3>1, <3>2, <3>3, CountedElsewhere
  <2>5. SameCarried(o) /\ SameWeak(o) /\ SameLost(o)
    BY <1>12, <2>2, CarriedByOne DEF DestLock, countVars, historyVars, SameCarried,
       SameWeak, SameLost
  <2> QED
    BY <2>4, <2>5 DEF Change, Untouched
<1>13. CASE DestContent(t)
  <2> DEFINE s == op[t].dst
  <2>0. s \in Slots /\ m_count_lock[s] \in {t, "free"}
    <3>1. pc[t] = "destContent"
      BY <1>13 DEF DestContent, Goto, Return
    <3>2. s \in Slots
      BY <3>1 DEF Locals, InDest
    <3>3. m_count_lock[s] \in {t, "free"}
      BY <3>1, <3>2 DEF OwnsOK, Owns, Holds
    <3> QED
      BY <3>2, <3>3
  <2> HIDE DEF s
  <2>1. \A u \in Threads \ {t} : ~(pc[u] \in Leaving /\ op[u].dst = s)
    BY <2>0, NobodyLeaves
  <2>2. UNCHANGED m_weak_count /\ pc[t] = "destContent" /\ pc'[t] = "destUnlock"
        /\ op'[t].dst = s /\ op'[t].carried = op[t].carried
    BY <1>13 DEF DestContent, Goto, weakVars, s, Operations
  <2>3. \A r \in Slots \ {s} : /\ m_weak_count'[r] = m_weak_count[r]
                            /\ ~(pc[t] \in Leaving /\ op[t].dst = r)
                            /\ ~(pc'[t] \in Leaving /\ op'[t].dst = r)
    BY <2>2 DEF Leaving, s
  <2>4. (s \in Counted(o) <=> m_weak_count[s] = o) /\ s \notin Counted(o)'
    BY <2>0, <2>1, <2>2, CountedByOne DEF Leaving
  <2>5. SameCarried(o) /\ SameLost(o)
    BY <1>13, <2>2, CarriedByOne DEF DestContent, historyVars, SameCarried, SameLost
  <2>6. CASE m_weak_count[s] = o
    <3>1. weak_count'[o] = weak_count[o] - 1
      BY <1>13, <2>6 DEF DestContent, Count, s
    <3>2. Counted(o)' = Counted(o) \ {s} /\ s \in Counted(o)
      BY <2>0, <2>3, <2>4, <2>6, CountedElsewhere
    <3> QED
      BY <2>5, <3>1, <3>2 DEF Change, GiveUp
  <2>7. CASE m_weak_count[s] # o
    <3>1. SameWeak(o)
      BY <1>13, <2>7 DEF DestContent, Count, s, SameWeak
    <3>2. SameCounted(o)
      BY <2>0, <2>3, <2>4, <2>7, CountedElsewhere
    <3> QED
      BY <2>5, <3>1, <3>2 DEF Change, Untouched
  <2> QED
    BY <2>6, <2>7
<1>14. CASE DestUnlock(t)
  <2>1. /\ UNCHANGED m_weak_count /\ (pc'[t] \in Leaving <=> pc[t] \in Leaving)
        /\ (pc[t] \in Leaving => op'[t].dst = op[t].dst)
        /\ op'[t].carried = op[t].carried
    BY <1>14 DEF DestUnlock, Goto, Begin, Return, weakVars, Leaving, NoOp,
       Locals, InDtor, InLook, InCopy
  <2>2. UNCHANGED <<weak_count, lost>>
    BY <1>14 DEF DestUnlock, countVars, historyVars
  <2> QED
    BY <2>1, <2>2, SameCountedIf, CarriedByOne
       DEF Change, Untouched, SameCarried, SameWeak, SameLost
<1>15. CASE DestClear(t)
  <2> DEFINE s == op[t].dst
  <2>0. s \in Slots /\ m_count_lock[s] \in {t, "free"}
    <3>1. pc[t] = "destClear"
      BY <1>15 DEF DestClear, Goto, Return
    <3>2. s \in Slots
      BY <3>1 DEF Locals, InDest
    <3>3. m_count_lock[s] \in {t, "free"}
      BY <3>1, <3>2 DEF OwnsOK, Owns, Holds
    <3> QED
      BY <3>2, <3>3
  <2> HIDE DEF s
  <2>1. \A u \in Threads \ {t} : ~(pc[u] \in Leaving /\ op[u].dst = s)
    BY <2>0, NobodyLeaves
  <2>2. /\ pc[t] = "destClear" /\ pc'[t] \notin Leaving
        /\ m_weak_count' = [m_weak_count EXCEPT ![s] = Null]
        /\ op'[t].carried = op[t].carried
    <3>1. /\ pc[t] = "destClear"
          /\ m_weak_count' = [m_weak_count EXCEPT ![s] = Null]
      BY <1>15 DEF DestClear, Goto, Return, s
    <3>2. CASE op[t].kind = "assign" \/ op[t].carried # Null
      <4>1. /\ pc'[t] = "store"
            /\ op'[t] = [op[t] EXCEPT !.must_delete_count = FALSE]
        BY <1>15, <3>2 DEF DestClear, Goto
      <4> QED
        BY <3>1, <4>1 DEF Leaving, Operations
    <3>3. CASE ~(op[t].kind = "assign" \/ op[t].carried # Null)
      <4>1. pc'[t] = "idle" /\ op'[t] = NoOp
        BY <1>15, <3>3 DEF DestClear, Goto, Return
      <4> QED
        BY <3>1, <3>3, <4>1 DEF Leaving, NoOp
    <3> QED
      BY <3>1, <3>2, <3>3
  <2>3. \A r \in Slots \ {s} : /\ m_weak_count'[r] = m_weak_count[r]
                            /\ ~(pc[t] \in Leaving /\ op[t].dst = r)
                            /\ ~(pc'[t] \in Leaving /\ op'[t].dst = r)
    BY <2>2 DEF s, Shape
  <2>4. s \notin Counted(o) /\ s \notin Counted(o)'
    <3>1. m_weak_count'[s] = Null
      BY <2>0, <2>2 DEF Shape
    <3> QED
      BY <2>0, <2>1, <2>2, <3>1, CountedByOne DEF Leaving, s
  <2>5. SameCarried(o) /\ SameWeak(o) /\ SameLost(o)
    BY <1>15, <2>2, CarriedByOne DEF DestClear, historyVars, SameCarried,
       SameWeak, SameLost
  <2> QED
    BY <2>0, <2>3, <2>4, <2>5, CountedElsewhere DEF Change, Untouched
<1>16. CASE Store(t)
  <2> DEFINE s == op[t].dst
  <2>0. s \in Slots /\ m_count_lock[s] \in {t, "free"}
    <3>1. pc[t] = "store"
      BY <1>16 DEF Store, Goto, Return
    <3>2. s \in Slots
      BY <3>1 DEF Locals, InDest
    <3>3. m_count_lock[s] \in {t, "free"}
      BY <1>16 DEF Store
    <3> QED
      BY <3>2, <3>3
  <2> HIDE DEF s
  <2>1. \A u \in Threads \ {t} : ~(pc[u] \in Leaving /\ op[u].dst = s)
    BY <2>0, NobodyLeaves
  <2>2. /\ pc[t] = "store" /\ pc'[t] \notin Leaving
        /\ m_weak_count' = [m_weak_count EXCEPT ![s] = op[t].carried]
        /\ op'[t].carried = Null
    <3>1. /\ pc[t] = "store"
          /\ m_weak_count' = [m_weak_count EXCEPT ![s] = op[t].carried]
      BY <1>16 DEF Store, Goto, Return, s
    <3>2. CASE op[t].kind = "assign"
      <4>1. /\ pc'[t] = "assignRelease"
            /\ op'[t] = [op[t] EXCEPT !.carried = Null]
        BY <1>16, <3>2 DEF Store, Goto
      <4> QED
        BY <3>1, <4>1 DEF Leaving, Operations
    <3>3. CASE op[t].kind # "assign"
      <4>1. pc'[t] = "idle" /\ op'[t] = NoOp
        BY <1>16, <3>3 DEF Store, Goto, Return
      <4> QED
        BY <3>1, <4>1 DEF Leaving, NoOp
    <3> QED
      BY <3>1, <3>2, <3>3
  <2>3. \A r \in Slots \ {s} : /\ m_weak_count'[r] = m_weak_count[r]
                            /\ ~(pc[t] \in Leaving /\ op[t].dst = r)
                            /\ ~(pc'[t] \in Leaving /\ op'[t].dst = r)
    BY <2>2 DEF s, Shape, Leaving
  <2>4. /\ s \in Counted(o) <=> m_weak_count[s] = o
        /\ s \in Counted(o)' <=> op[t].carried = o
    <3>1. m_weak_count'[s] = op[t].carried
      BY <2>0, <2>2 DEF Shape
    <3> QED
      BY <2>0, <2>1, <2>2, <3>1, CountedByOne DEF Leaving
  <2>5. /\ SameWeak(o)
        /\ m_weak_count[s] = o => lost'[o] = lost[o] + 1
        /\ m_weak_count[s] # o => SameLost(o)
    BY <1>16 DEF Store, countVars, CountIfAny, SameWeak, SameLost, s
  <2>6. /\ t \in Carried(o) <=> op[t].carried = o
        /\ Carried(o)' = Carried(o) \ {t}
    BY <2>2, CarriedByOne DEF Carried
  <2>7. CASE m_weak_count[s] = o /\ op[t].carried = o
    <3>1. SameCounted(o)
      BY <2>0, <2>3, <2>4, <2>7, CountedElsewhere
    <3> QED
      BY <2>5, <2>6, <2>7, <3>1 DEF Change, StoreAgain
  <2>8. CASE m_weak_count[s] = o /\ op[t].carried # o
    <3>1. Counted(o)' = Counted(o) \ {s} /\ s \in Counted(o)
      BY <2>0, <2>3, <2>4, <2>8, CountedElsewhere
    <3>2. SameCarried(o)
      BY <2>6, <2>8 DEF SameCarried
    <3> QED
      BY <2>5, <2>8, <3>1, <3>2 DEF Change, StoreOver
  <2>9. CASE m_weak_count[s] # o /\ op[t].carried = o
    <3>1. Counted(o)' = Counted(o) \cup {s} /\ s \notin Counted(o)
      BY <2>0, <2>3, <2>4, <2>9, CountedElsewhere
    <3> QED
      BY <2>0, <2>5, <2>6, <2>9, <3>1 DEF Change, PutDown
  <2>10. CASE m_weak_count[s] # o /\ op[t].carried # o
    <3>1. SameCounted(o)
      BY <2>0, <2>3, <2>4, <2>10, CountedElsewhere
    <3>2. SameCarried(o)
      BY <2>6, <2>10 DEF SameCarried
    <3> QED
      BY <2>5, <2>10, <3>1, <3>2 DEF Change, Untouched
  <2> QED
    BY <2>7, <2>8, <2>9, <2>10
<1>17. CASE Source(t)
  <2>1. /\ UNCHANGED m_weak_count /\ pc'[t] \notin Leaving /\ pc[t] \notin Leaving
        /\ op[t].carried = Null /\ op'[t].carried = m_weak_count[op[t].src]
    BY <1>17 DEF Source, Goto, Begin, weakVars, Leaving, NoOp, Locals, InLook,
       InCopy, Operations
  <2>2. SameCounted(o) /\ SameLost(o) /\ t \notin Carried(o)
    BY <1>17, <2>1, SameCountedIf DEF Source, historyVars, SameLost, Carried
  <2>3. CASE m_weak_count[op[t].src] = o
    <3>1. weak_count'[o] = weak_count[o] + 1
      BY <1>17, <2>3 DEF Source, Count, CountIfAny
    <3> QED
      BY <2>1, <2>2, <2>3, <3>1, CarriedByOne DEF Change, PickUp
  <2>4. CASE m_weak_count[op[t].src] # o
    <3>1. SameWeak(o)
      BY <1>17, <2>4 DEF Source, Count, CountIfAny, SameWeak
    <3>2. Carried(o)' = Carried(o) \ {t}
      BY <2>1, <2>4, CarriedByOne
    <3>3. SameCarried(o)
      BY <2>2, <3>2 DEF SameCarried
    <3> QED
      BY <2>2, <3>1, <3>3 DEF Change, Untouched
  <2> QED
    BY <2>3, <2>4
<1>18. CASE AssignRelease(t)
  <2>1. /\ UNCHANGED m_weak_count /\ (pc'[t] \in Leaving <=> pc[t] \in Leaving)
        /\ (pc[t] \in Leaving => op'[t].dst = op[t].dst)
        /\ op'[t].carried = op[t].carried
    BY <1>18 DEF AssignRelease, Goto, Begin, Return, weakVars, Leaving, NoOp,
       Locals, InDtor, InLook, InCopy
  <2>2. UNCHANGED <<weak_count, lost>>
    BY <1>18 DEF AssignRelease, countVars, historyVars
  <2> QED
    BY <2>1, <2>2, SameCountedIf, CarriedByOne
       DEF Change, Untouched, SameCarried, SameWeak, SameLost
<1>19. CASE CopyLock(t)
  <2>1. /\ UNCHANGED m_weak_count /\ (pc'[t] \in Leaving <=> pc[t] \in Leaving)
        /\ (pc[t] \in Leaving => op'[t].dst = op[t].dst)
        /\ op'[t].carried = op[t].carried
    BY <1>19 DEF CopyLock, LookLock, Goto, Begin, Return, weakVars, Leaving,
       NoOp, Locals, InDtor, InLook, InCopy
  <2>2. UNCHANGED <<weak_count, lost>>
    BY <1>19 DEF CopyLock, LookLock, countVars, historyVars
  <2> QED
    BY <2>1, <2>2, SameCountedIf, CarriedByOne
       DEF Change, Untouched, SameCarried, SameWeak, SameLost
<1>20. CASE StrongLock(t)
  <2>1. /\ UNCHANGED m_weak_count /\ (pc'[t] \in Leaving <=> pc[t] \in Leaving)
        /\ (pc[t] \in Leaving => op'[t].dst = op[t].dst)
        /\ op'[t].carried = op[t].carried
    BY <1>20 DEF StrongLock, LookLock, Goto, Begin, Return, weakVars, Leaving,
       NoOp, Locals, InDtor, InLook, InCopy
  <2>2. UNCHANGED <<weak_count, lost>>
    BY <1>20 DEF StrongLock, LookLock, countVars, historyVars
  <2> QED
    BY <2>1, <2>2, SameCountedIf, CarriedByOne
       DEF Change, Untouched, SameCarried, SameWeak, SameLost
<1>21. CASE CopyContent(t)
  <2>1. /\ UNCHANGED m_weak_count /\ pc'[t] \notin Leaving /\ pc[t] \notin Leaving
        /\ op[t].carried = Null /\ op'[t].carried = m_weak_count[op[t].src]
    BY <1>21 DEF CopyContent, Goto, Begin, weakVars, Leaving, NoOp, Locals,
       InLook, InCopy, Operations
  <2>2. SameCounted(o) /\ SameLost(o) /\ t \notin Carried(o)
    BY <1>21, <2>1, SameCountedIf DEF CopyContent, historyVars, SameLost, Carried
  <2>3. CASE m_weak_count[op[t].src] = o
    <3>1. weak_count'[o] = weak_count[o] + 1
      BY <1>21, <2>3 DEF CopyContent, Count, CountIfAny
    <3> QED
      BY <2>1, <2>2, <2>3, <3>1, CarriedByOne DEF Change, PickUp
  <2>4. CASE m_weak_count[op[t].src] # o
    <3>1. SameWeak(o)
      BY <1>21, <2>4 DEF CopyContent, Count, CountIfAny, SameWeak
    <3>2. Carried(o)' = Carried(o) \ {t}
      BY <2>1, <2>4, CarriedByOne
    <3>3. SameCarried(o)
      BY <2>2, <3>2 DEF SameCarried
    <3> QED
      BY <2>2, <3>1, <3>3 DEF Change, Untouched
  <2> QED
    BY <2>3, <2>4
<1>22. CASE CopyUnlock(t)
  <2>0. t \in Slots /\ Owns(t)
    BY DEF Slots, OwnsOK
  <2>1. \A u \in Threads \ {t} : ~(pc[u] \in Leaving /\ op[u].dst = t)
    BY <2>0, NobodyLeaves
  <2>2. /\ pc[t] = "copyUnlock" /\ pc'[t] \notin Leaving
        /\ m_weak_count' = [m_weak_count EXCEPT ![t] = op[t].carried]
        /\ m_weak_count[t] = Null /\ op'[t].carried = Null
    BY <1>22, <2>0 DEF CopyUnlock, Goto, Leaving, Owns, InCopy, Operations
  <2>3. \A r \in Slots \ {t} : /\ m_weak_count'[r] = m_weak_count[r]
                            /\ ~(pc[t] \in Leaving /\ op[t].dst = r)
                            /\ ~(pc'[t] \in Leaving /\ op'[t].dst = r)
    BY <2>2 DEF Shape, Leaving
  <2>4. t \notin Counted(o) /\ (t \in Counted(o)' <=> op[t].carried = o)
    <3>1. m_weak_count'[t] = op[t].carried
      BY <2>0, <2>2 DEF Shape
    <3> QED
      BY <2>0, <2>1, <2>2, <3>1, CountedByOne DEF Leaving
  <2>5. SameWeak(o) /\ SameLost(o)
    BY <1>22 DEF CopyUnlock, historyVars, SameWeak, SameLost
  <2>6. /\ t \in Carried(o) <=> op[t].carried = o
        /\ Carried(o)' = Carried(o) \ {t}
    BY <2>2, CarriedByOne DEF Carried
  <2>7. CASE op[t].carried = o
    <3>1. Counted(o)' = Counted(o) \cup {t}
      BY <2>0, <2>3, <2>4, <2>7, CountedElsewhere
    <3> QED
      BY <2>0, <2>4, <2>5, <2>6, <2>7, <3>1 DEF Change, PutDown
  <2>8. CASE op[t].carried # o
    <3>1. SameCounted(o)
      BY <2>0, <2>3, <2>4, <2>8, CountedElsewhere
    <3>2. SameCarried(o)
      BY <2>6, <2>8 DEF SameCarried
    <3> QED
      BY <2>5, <3>1, <3>2 DEF Change, Untouched
  <2> QED
    BY <2>7, <2>8
<1>23. CASE StrongContent(t)
  <2>1. /\ UNCHANGED m_weak_count /\ (pc'[t] \in Leaving <=> pc[t] \in Leaving)
        /\ (pc[t] \in Leaving => op'[t].dst = op[t].dst)
        /\ op'[t].carried = op[t].carried
    BY <1>23 DEF StrongContent, Goto, Begin, Return, weakVars, Leaving, NoOp,
       Locals, InDtor, InLook, InCopy
  <2>2. UNCHANGED <<weak_count, lost>>
    BY <1>23 DEF StrongContent, countVars, historyVars
  <2> QED
    BY <2>1, <2>2, SameCountedIf, CarriedByOne
       DEF Change, Untouched, SameCarried, SameWeak, SameLost
<1>24. CASE StrongUnlock(t)
  <2>1. /\ UNCHANGED m_weak_count /\ (pc'[t] \in Leaving <=> pc[t] \in Leaving)
        /\ (pc[t] \in Leaving => op'[t].dst = op[t].dst)
        /\ op'[t].carried = op[t].carried
    BY <1>24 DEF StrongUnlock, Goto, Begin, Return, weakVars, Leaving, NoOp,
       Locals, InDtor, InLook, InCopy
  <2>2. UNCHANGED <<weak_count, lost>>
    BY <1>24 DEF StrongUnlock, countVars, historyVars
  <2> QED
    BY <2>1, <2>2, SameCountedIf, CarriedByOne
       DEF Change, Untouched, SameCarried, SameWeak, SameLost
<1>25. CASE LookRelease(t)
  <2>1. /\ UNCHANGED m_weak_count /\ (pc'[t] \in Leaving <=> pc[t] \in Leaving)
        /\ (pc[t] \in Leaving => op'[t].dst = op[t].dst)
        /\ op'[t].carried = op[t].carried
    BY <1>25 DEF LookRelease, Goto, Begin, Return, weakVars, Leaving, NoOp,
       Locals, InDtor, InLook, InCopy
  <2>2. UNCHANGED <<weak_count, lost>>
    BY <1>25 DEF LookRelease, countVars, historyVars
  <2> QED
    BY <2>1, <2>2, SameCountedIf, CarriedByOne
       DEF Change, Untouched, SameCarried, SameWeak, SameLost
<1> QED
  BY <1>1, <1>2, <1>3, <1>4, <1>5, <1>6, <1>7, <1>8, <1>9, <1>10, <1>11, <1>12,
     <1>13, <1>14, <1>15, <1>16, <1>17, <1>18, <1>19, <1>20, <1>21, <1>22,
     <1>23, <1>24, <1>25 DEF Call, Step

\* Every step keeps weak_count the number of the references.
LEMMA WeakExactStep ==
  ASSUME Shape, LocalsOK, OwnsOK, WeakCountExact, [Next]_vars
  PROVE  WeakCountExact'
<1>1. CASE UNCHANGED vars
  BY <1>1 DEF vars, countVars, weakVars, historyVars, WeakCountExact, Counted, Carried
<1>2. ASSUME NEW t \in Threads, Call(t) \/ Step(t)
      PROVE  WeakCountExact'
  <2> SUFFICES ASSUME NEW o \in Objects
               PROVE  weak_count'[o] = Cardinality(Counted(o)')
                                         + Cardinality(Carried(o)') + lost'[o]
    BY DEF WeakCountExact
  <2> DEFINE n == Cardinality(Counted(o))
             m == Cardinality(Carried(o))
  <2>1. /\ IsFiniteSet(Counted(o)) /\ IsFiniteSet(Carried(o))
        /\ n \in Nat /\ m \in Nat /\ lost[o] \in Nat
        /\ weak_count[o] = n + m + lost[o]
    BY FiniteCounts, FS_CardinalityType DEF WeakCountExact, Shape
  <2>2. \A s \in Counted(o) : Cardinality(Counted(o) \ {s}) = n - 1
    BY <2>1, FS_RemoveElement
  <2>3. \A s : s \notin Counted(o) => Cardinality(Counted(o) \cup {s}) = n + 1
    BY <2>1, FS_AddElement
  <2>4. t \notin Carried(o) => Cardinality(Carried(o) \cup {t}) = m + 1
    BY <2>1, FS_AddElement
  <2>5. t \in Carried(o) => Cardinality(Carried(o) \ {t}) = m - 1
    BY <2>1, FS_RemoveElement
  <2> HIDE DEF n, m
  <2> USE DEF SameCounted, SameCarried, SameWeak, SameLost
  <2>6. CASE Untouched(o)
    BY <2>1, <2>6 DEF Untouched, n, m
  <2>7. CASE PickUp(t, o)
    BY <2>1, <2>4, <2>7 DEF PickUp, n
  <2>8. CASE GiveUp(o)
    BY <2>1, <2>2, <2>8 DEF GiveUp, m
  <2>9. CASE PutDown(t, o)
    BY <2>1, <2>3, <2>5, <2>9 DEF PutDown
  <2>10. CASE StoreOver(o)
    BY <2>1, <2>2, <2>10 DEF StoreOver, m
  <2>11. CASE StoreAgain(t, o)
    BY <2>1, <2>5, <2>11 DEF StoreAgain, n
  <2> QED
    BY <1>2, <2>6, <2>7, <2>8, <2>9, <2>10, <2>11, ChangeStep DEF Change
<1> QED
  BY <1>1, <1>2 DEF Next

\* Increments made with and without content_lock, decrements and the stores of
\* the pointers agree: weak_count is the number of references that somebody
\* will give back, and of those that two assignments to one pointer lost.
THEOREM WeakCountExactCorrect == Spec => []WeakCountExact
<1>1. Init => WeakCountExact
  <2> SUFFICES ASSUME Init, NEW o \in Objects
               PROVE  weak_count[o] = Cardinality(Counted(o))
                                        + Cardinality(Carried(o)) + lost[o]
    BY DEF WeakCountExact
  <2>1. Counted(o) = {} /\ Carried(o) = {}
    BY SmartPtrAssumption DEF Init, Counted, Carried, NoOp, Null
  <2> QED
    BY <2>1, FS_EmptySet DEF Init
<1>2. Shape /\ LocalsOK /\ OwnsOK /\ WeakCountExact /\ [Next]_vars => WeakCountExact'
  BY WeakExactStep
<1> QED
  BY <1>1, <1>2, OwnersCorrect, PTL DEF Spec
-----------------------------------------------------------------------------
(* The count of strong pointers. *)

Pointing(o) == {t \in Threads : m_ptr[t] = o}

PromotersEmpty ==
  \A t \in Threads : pc[t] \in {"strongLock", "strongContent"} => m_ptr[t] = Null

RefCountExact ==
  /\ \A o \in Objects : ref_count[o] = Cardinality(Pointing(o))
  /\ \A o \in Objects : object[o] = "none" => ref_count[o] = 0 /\ ~ref_object[o]
  /\ PromotersEmpty
  /\ \A t \in Threads : pc[t] \in InDtor => object[op[t].victim] # "none"

\* The threads that point to an object are finitely many.
LEMMA FinitePointing ==
  ASSUME NEW o
  PROVE  IsFiniteSet(Pointing(o)) /\ IsFiniteSet(Pointing(o))'
<1>1. Pointing(o) \subseteq Threads /\ Pointing(o)' \subseteq Threads
  BY DEF Pointing
<1> QED
  BY <1>1, FS_Subset, SmartPtrAssumption

\* An object that a SmartPtr points to has a count above 0.
LEMMA PointedIsCounted ==
  ASSUME RefCountExact, NEW t \in Threads, m_ptr[t] \in Objects
  PROVE  ref_count[m_ptr[t]] \in Nat \ {0}
<1>1. t \in Pointing(m_ptr[t])
  BY DEF Pointing
<1> QED
  BY <1>1, FinitePointing, FS_CardinalityType, FS_EmptySet DEF RefCountExact

PointersChange(o) ==
  \/ UNCHANGED m_ptr /\ ref_count'[o] = ref_count[o]
  \/ /\ Pointing(o)' = Pointing(o) /\ ref_count'[o] = ref_count[o]
  \/ /\ \E u \in Threads \ Pointing(o) : Pointing(o)' = Pointing(o) \cup {u}
     /\ ref_count'[o] = ref_count[o] + 1
  \/ /\ \E u \in Pointing(o) : Pointing(o)' = Pointing(o) \ {u}
     /\ ref_count'[o] = ref_count[o] - 1

\* Only the steps that make, copy, promote or drop a SmartPtr change who points
\* to an object, and they change ref_count as much.
LEMMA PointersStep ==
  ASSUME Shape, LocalsOK, OwnsOK, RefCountExact, NEW t \in Threads,
         Call(t) \/ Step(t), NEW o \in Objects
  PROVE  PointersChange(o)
<1> m_ptr \in [Threads -> Pointers] /\ ref_count \in [Objects -> Int] /\ o # Null
  BY SmartPtrAssumption DEF Shape, Null
<1> USE DEF PointersChange
<1>1. ASSUME NEW obj \in Objects, Create(t, obj)
      PROVE  PointersChange(o)
  <2>1. m_ptr[t] = Null /\ m_ptr' = [m_ptr EXCEPT ![t] = obj]
        /\ ref_count' = [ref_count EXCEPT ![obj] = 1] /\ object[obj] = "none"
    BY <1>1 DEF Create
  <2>2. CASE obj = o
    <3>1. t \notin Pointing(o) /\ Pointing(o)' = Pointing(o) \cup {t}
      BY <2>1, <2>2 DEF Pointing
    <3>2. ref_count[o] = 0 /\ ref_count'[o] = 1
      BY <2>1, <2>2 DEF RefCountExact
    <3> QED
      BY <3>1, <3>2
  <2>3. CASE obj # o
    BY <2>1, <2>3 DEF Pointing
  <2> QED
    BY <2>2, <2>3
<1>2. ASSUME NEW peer \in Threads, Copy(t, peer)
      PROVE  PointersChange(o)
  <2>1. m_ptr[peer] = Null /\ m_ptr' = [m_ptr EXCEPT ![peer] = m_ptr[t]]
        /\ ref_count' = [ref_count EXCEPT ![m_ptr[t]] = @ + 1]
    BY <1>2 DEF Copy, Count
  <2>2. CASE m_ptr[t] = o
    <3>1. peer \notin Pointing(o) /\ Pointing(o)' = Pointing(o) \cup {peer}
      BY <2>1, <2>2 DEF Pointing
    <3> QED
      BY <2>1, <2>2, <3>1
  <2>3. CASE m_ptr[t] # o
    BY <2>1, <2>3 DEF Pointing
  <2> QED
    BY <2>2, <2>3
<1>3. CASE Drop(t)
  <2>1. m_ptr' = [m_ptr EXCEPT ![t] = Null]
        /\ ref_count' = [ref_count EXCEPT ![m_ptr[t]] = @ + -1]
    BY <1>3 DEF Drop, Count
  <2>2. CASE m_ptr[t] = o
    <3>1. t \in Pointing(o) /\ Pointing(o)' = Pointing(o) \ {t}
      BY <2>1, <2>2 DEF Pointing
    <3>2. ref_count'[o] = ref_count[o] - 1
      BY <2>1, <2>2
    <3> QED
      BY <3>1, <3>2
  <2>3. CASE m_ptr[t] # o
    BY <2>1, <2>3 DEF Pointing
  <2> QED
    BY <2>2, <2>3
<1>4. CASE \/ DestroyWeakPtr(t) \/ Dtor(t) \/ DtorUnlock(t) \/ DtorDelete(t)
           \/ DestLock(t) \/ DestContent(t) \/ DestUnlock(t) \/ DestClear(t)
           \/ Store(t) \/ Source(t) \/ AssignRelease(t) \/ CopyLock(t)
           \/ StrongLock(t) \/ CopyContent(t) \/ CopyUnlock(t)
           \/ StrongUnlock(t) \/ LookRelease(t)
  BY <1>4 DEF DestroyWeakPtr, Dtor, DtorUnlock, DtorDelete, DestLock,
     DestContent, DestUnlock, DestClear, Store, Source, AssignRelease, CopyLock,
     StrongLock, CopyContent, CopyUnlock, StrongUnlock, LookRelease, LookLock,
     objectVars
<1>5. ASSUME NEW dst \in SlotsOf(t), ToWeakPtr(t, dst)
      PROVE  PointersChange(o)
  BY <1>5 DEF ToWeakPtr, objectVars
<1>6. ASSUME NEW src \in SlotsOf(t), ToStrongPtr(t, src)
      PROVE  PointersChange(o)
  BY <1>6 DEF ToStrongPtr, objectVars
<1>7. ASSUME NEW src \in Weaks, CopyWeakPtr(t, src)
      PROVE  PointersChange(o)
  BY <1>7 DEF CopyWeakPtr, objectVars
<1>8. ASSUME NEW dst \in SlotsOf(t), NEW src \in SlotsOf(t), Assign(t, dst, src)
      PROVE  PointersChange(o)
  BY <1>8 DEF Assign, objectVars
<1>9. CASE StrongContent(t)
  <2>1. CASE ref_object[m_weak_count[op[t].src]]
    <3> DEFINE p == m_weak_count[op[t].src]
    <3>1. m_ptr[t] = Null /\ m_ptr' = [m_ptr EXCEPT ![t] = p]
          /\ ref_count' = [ref_count EXCEPT ![p] = @ + 1]
      BY <1>9, <2>1 DEF StrongContent, Count, Goto, RefCountExact, PromotersEmpty
    <3> HIDE DEF p
    <3>2. CASE p = o
      <4>1. t \notin Pointing(o) /\ Pointing(o)' = Pointing(o) \cup {t}
        BY <3>1, <3>2 DEF Pointing
      <4> QED
        BY <3>1, <3>2, <4>1
    <3>3. CASE p # o
      BY <3>1, <3>3 DEF Pointing
    <3> QED
      BY <3>2, <3>3
  <2>2. CASE ~ref_object[m_weak_count[op[t].src]]
    BY <1>9, <2>2 DEF StrongContent
  <2> QED
    BY <2>1, <2>2
<1> HIDE DEF PointersChange
<1> QED
  BY <1>1, <1>2, <1>3, <1>4, <1>5, <1>6, <1>7, <1>8, <1>9 DEF Call, Step

\* Every step keeps ref_count the number of the SmartPtrs.
LEMMA RefCountStep ==
  ASSUME Shape, LocalsOK, OwnsOK, RefCountExact, NEW t \in Threads, Call(t) \/ Step(t)
  PROVE  \A o \in Objects : ref_count'[o] = Cardinality(Pointing(o)')
<1> TAKE o \in Objects
<1> DEFINE n == Cardinality(Pointing(o))
<1>1. IsFiniteSet(Pointing(o)) /\ n \in Nat /\ ref_count[o] = n
  BY FinitePointing, FS_CardinalityType DEF RefCountExact
<1>2. \A u \in Pointing(o) : Cardinality(Pointing(o) \ {u}) = n - 1
  BY <1>1, FS_RemoveElement
<1>3. \A u : u \notin Pointing(o) => Cardinality(Pointing(o) \cup {u}) = n + 1
  BY <1>1, FS_AddElement
<1>4. UNCHANGED m_ptr => Pointing(o)' = Pointing(o)
  BY DEF Pointing
<1> HIDE DEF n
<1> QED
  <2>1. CASE UNCHANGED m_ptr /\ ref_count'[o] = ref_count[o]
    BY <1>1, <1>4, <2>1 DEF n
  <2>2. CASE Pointing(o)' = Pointing(o) /\ ref_count'[o] = ref_count[o]
    BY <1>1, <2>2 DEF n
  <2>3. CASE /\ \E u \in Threads \ Pointing(o) : Pointing(o)' = Pointing(o) \cup {u}
             /\ ref_count'[o] = ref_count[o] + 1
    BY <1>1, <1>3, <2>3
  <2>4. CASE /\ \E u \in Pointing(o) : Pointing(o)' = Pointing(o) \ {u}
             /\ ref_count'[o] = ref_count[o] - 1
    BY <1>1, <1>2, <2>4
  <2> QED
    BY <2>1, <2>2, <2>3, <2>4, PointersStep DEF PointersChange

\* Who promotes has no SmartPtr that the result would overwrite.
LEMMA PromotionStep ==
  ASSUME Shape, LocalsOK, RefCountExact, NEW t \in Threads, Call(t) \/ Step(t)
  PROVE  PromotersEmpty'
<1> m_ptr \in [Threads -> Pointers] /\ pc \in [Threads -> Locations]
  BY DEF Shape
<1> USE DEF Goto, Begin, Return, RefCountExact, PromotersEmpty
<1>1. ASSUME NEW obj \in Objects, Create(t, obj)
      PROVE  PromotersEmpty'
  BY <1>1 DEF Create
<1>2. ASSUME NEW peer \in Threads, Copy(t, peer)
      PROVE  PromotersEmpty'
  BY <1>2 DEF Copy
<1>3. CASE \/ Drop(t) \/ DestroyWeakPtr(t) \/ Dtor(t) \/ DtorUnlock(t)
           \/ DtorDelete(t) \/ DestLock(t) \/ DestContent(t) \/ DestUnlock(t)
           \/ DestClear(t) \/ Store(t) \/ Source(t) \/ AssignRelease(t)
           \/ CopyLock(t) \/ StrongLock(t) \/ CopyContent(t) \/ CopyUnlock(t)
           \/ StrongContent(t) \/ StrongUnlock(t) \/ LookRelease(t)
  BY <1>3 DEF Drop, DestroyWeakPtr, Dtor, DtorUnlock, DtorDelete, DestLock,
     DestContent, DestUnlock, DestClear, Store, Source, AssignRelease, CopyLock,
     StrongLock, CopyContent, CopyUnlock, StrongContent, StrongUnlock,
     LookRelease, LookLock
<1>4. ASSUME NEW dst \in SlotsOf(t), ToWeakPtr(t, dst)
      PROVE  PromotersEmpty'
  BY <1>4 DEF ToWeakPtr
<1>5. ASSUME NEW src \in SlotsOf(t), ToStrongPtr(t, src)
      PROVE  PromotersEmpty'
  BY <1>5 DEF ToStrongPtr
<1>6. ASSUME NEW src \in Weaks, CopyWeakPtr(t, src)
      PROVE  PromotersEmpty'
  BY <1>6 DEF CopyWeakPtr
<1>7. ASSUME NEW dst \in SlotsOf(t), NEW src \in SlotsOf(t), Assign(t, dst, src)
      PROVE  PromotersEmpty'
  BY <1>7 DEF Assign
<1> QED
  BY <1>1, <1>2, <1>3, <1>4, <1>5, <1>6, <1>7 DEF Call, Step

Born(o) ==
  /\ object'[o] = "none" =>
       object[o] = "none" /\ ref_count'[o] = 0 /\ ~ref_object'[o]
  /\ object[o] # "none" => object'[o] # "none"

\* Nothing is counted of an object before it is made.
LEMMA UnbornStep ==
  ASSUME Shape, LocalsOK, OwnsOK, RefCountExact, NEW t \in Threads, Call(t) \/ Step(t),
         NEW o \in Objects
  PROVE  Born(o)
<1> /\ m_ptr \in [Threads -> Pointers] /\ pc \in [Threads -> Locations]
    /\ object \in [Objects -> Lives] /\ ref_count \in [Objects -> Int]
    /\ ref_object \in [Objects -> BOOLEAN]
    /\ (object[o] = "none" => ref_count[o] = 0 /\ ~ref_object[o])
    /\ o # Null
  BY SmartPtrAssumption DEF Shape, RefCountExact, Null
<1> USE DEF Born
<1>1. ASSUME NEW obj \in Objects, Create(t, obj)
      PROVE  Born(o)
  BY <1>1 DEF Create, objectVars, countVars, Count, Lives
<1>2. ASSUME NEW peer \in Threads, Copy(t, peer)
      PROVE  Born(o)
  BY <1>2 DEF Copy, objectVars, countVars, Count, Lives
<1>3. CASE Drop(t)
  <2>1. m_ptr[t] # Null /\ object[m_ptr[t]] = "alive"
    BY <1>3 DEF Drop
  <2>2. m_ptr[t] = o => object[o] # "none"
    BY <2>1
  <2>3. m_ptr[t] # o => ref_count'[o] = ref_count[o]
    BY <1>3 DEF Drop, Count
  <2>4. UNCHANGED <<object, ref_object>>
    BY <1>3 DEF Drop, countVars
  <2> QED
    BY <2>2, <2>3, <2>4
<1>4. CASE \/ DestroyWeakPtr(t) \/ Dtor(t) \/ DtorUnlock(t) \/ DestLock(t)
           \/ DestContent(t) \/ DestUnlock(t) \/ DestClear(t) \/ Store(t)
           \/ Source(t) \/ AssignRelease(t) \/ CopyLock(t) \/ StrongLock(t)
           \/ CopyContent(t) \/ CopyUnlock(t) \/ StrongContent(t)
           \/ StrongUnlock(t) \/ LookRelease(t)
  BY <1>4 DEF DestroyWeakPtr, Dtor, DtorUnlock, DestLock, DestContent,
     DestUnlock, DestClear, Store, Source, AssignRelease, CopyLock, StrongLock,
     CopyContent, CopyUnlock, StrongContent, StrongUnlock, LookRelease,
     LookLock, objectVars, countVars, Count, Lives
<1>5. ASSUME NEW dst \in SlotsOf(t), ToWeakPtr(t, dst)
      PROVE  Born(o)
  BY <1>5 DEF ToWeakPtr, objectVars, countVars, Count, Lives
<1>6. ASSUME NEW src \in SlotsOf(t), ToStrongPtr(t, src)
      PROVE  Born(o)
  BY <1>6 DEF ToStrongPtr, objectVars, countVars, Count, Lives
<1>7. ASSUME NEW src \in Weaks, CopyWeakPtr(t, src)
      PROVE  Born(o)
  BY <1>7 DEF CopyWeakPtr, objectVars, countVars, Count, Lives
<1>8. ASSUME NEW dst \in SlotsOf(t), NEW src \in SlotsOf(t), Assign(t, dst, src)
      PROVE  Born(o)
  BY <1>8 DEF Assign, objectVars, countVars, Count, Lives
<1>9. CASE DtorDelete(t)
  <2>1. /\ object' = [object EXCEPT ![op[t].victim] = "deleted"]
        /\ UNCHANGED <<ref_count, ref_object>>
    BY <1>9 DEF DtorDelete
  <2> QED
    BY <2>1
<1> HIDE DEF Born
<1> QED
  BY <1>1, <1>2, <1>3, <1>4, <1>5, <1>6, <1>7, <1>8, <1>9 DEF Call, Step

OnTheWayOut(t) ==
  \/ Drop(t) \/ Dtor(t) \/ DtorUnlock(t)
  \/ UNCHANGED <<pc, op>> /\ pc[t] \in InDtor

\* Only the last drop leads into the destructor.
LEMMA EntersDtor ==
  ASSUME Shape, LocalsOK, NEW t \in Threads, Call(t) \/ Step(t), pc'[t] \in InDtor
  PROVE  OnTheWayOut(t)
<1> pc \in [Threads -> Locations]
  BY DEF Shape
<1> USE DEF OnTheWayOut, Goto, Begin, Return, InDtor
<1>1. ASSUME NEW obj \in Objects, Create(t, obj)
      PROVE  OnTheWayOut(t)
  BY <1>1 DEF Create
<1>2. ASSUME NEW peer \in Threads, Copy(t, peer)
      PROVE  OnTheWayOut(t)
  BY <1>2 DEF Copy
<1>3. CASE \/ Drop(t) \/ DestroyWeakPtr(t) \/ Dtor(t) \/ DtorUnlock(t)
           \/ DtorDelete(t) \/ DestLock(t) \/ DestContent(t) \/ DestUnlock(t)
           \/ DestClear(t) \/ Store(t) \/ Source(t) \/ AssignRelease(t)
           \/ CopyLock(t) \/ StrongLock(t) \/ CopyContent(t) \/ CopyUnlock(t)
           \/ StrongContent(t) \/ StrongUnlock(t) \/ LookRelease(t)
  BY <1>3 DEF Drop, DestroyWeakPtr, Dtor, DtorUnlock, DtorDelete, DestLock,
     DestContent, DestUnlock, DestClear, Store, Source, AssignRelease, CopyLock,
     StrongLock, CopyContent, CopyUnlock, StrongContent, StrongUnlock,
     LookRelease, LookLock
<1>4. ASSUME NEW dst \in SlotsOf(t), ToWeakPtr(t, dst)
      PROVE  OnTheWayOut(t)
  BY <1>4 DEF ToWeakPtr
<1>5. ASSUME NEW src \in SlotsOf(t), ToStrongPtr(t, src)
      PROVE  OnTheWayOut(t)
  BY <1>5 DEF ToStrongPtr
<1>6. ASSUME NEW src \in Weaks, CopyWeakPtr(t, src)
      PROVE  OnTheWayOut(t)
  BY <1>6 DEF CopyWeakPtr
<1>7. ASSUME NEW dst \in SlotsOf(t), NEW src \in SlotsOf(t), Assign(t, dst, src)
      PROVE  OnTheWayOut(t)
  BY <1>7 DEF Assign
<1> QED
  BY <1>1, <1>2, <1>3, <1>4, <1>5, <1>6, <1>7 DEF Call, Step

\* Every step keeps ref_count exact, and a victim one that was made.
LEMMA RefCountExactStep ==
  ASSUME Shape, LocalsOK, OwnsOK, RefCountExact, [Next]_vars
  PROVE  RefCountExact'
<1>1. CASE UNCHANGED vars
  BY <1>1 DEF vars, objectVars, countVars, RefCountExact, PromotersEmpty, Pointing
<1>2. ASSUME NEW t \in Threads, Call(t) \/ Step(t)
      PROVE  RefCountExact'
  <2>1. \A o \in Objects : ref_count'[o] = Cardinality(Pointing(o)')
    BY <1>2, RefCountStep
  <2>2. PromotersEmpty'
    BY <1>2, PromotionStep
  <2>3. \A o \in Objects : object'[o] = "none" => ref_count'[o] = 0 /\ ~ref_object'[o]
    BY <1>2, UnbornStep DEF Born
  <2>4. ASSUME NEW u \in Threads, pc'[u] \in InDtor
        PROVE  object'[op'[u].victim] # "none"
    <3>1. CASE pc[u] \in InDtor /\ op'[u] = op[u]
      <4>1. op[u].victim \in Objects /\ object[op[u].victim] # "none"
        BY <3>1 DEF LocalsOK, Locals, RefCountExact
      <4> QED
        BY <3>1, <4>1, <1>2, UnbornStep DEF Born
    <3>2. CASE u # t
      <4>1. pc'[u] = pc[u] /\ op'[u] = op[u]
        BY <1>2, <3>2, OthersKeepLocals
      <4> QED
        BY <3>1, <4>1, <2>4
    <3>3. CASE u = t
      <4>1. CASE Drop(t)
        <5>1. CASE ref_count[m_ptr[t]] = 1
          <6>1. /\ object[m_ptr[t]] = "alive" /\ object' = object
                /\ op'[t] = [NoOp EXCEPT !.kind = "delete", !.victim = m_ptr[t]]
            BY <4>1, <5>1 DEF Drop, Begin, Goto, Shape
          <6> QED
            BY <3>3, <6>1 DEF NoOp
        <5>2. CASE ref_count[m_ptr[t]] # 1
          BY <4>1, <5>2, <2>4, <3>1, <3>3 DEF Drop
        <5> QED
          BY <5>1, <5>2
      <4>2. CASE Dtor(t)
        <5>1. pc[t] = "dtor" /\ op'[t].victim = op[t].victim /\ object' = object
          BY <4>2 DEF Dtor, Goto, Shape, Operations, objectVars
        <5> QED
          BY <3>3, <5>1 DEF RefCountExact, InDtor
      <4>3. CASE DtorUnlock(t)
        BY <3>1, <3>3, <4>3 DEF DtorUnlock, Goto, InDtor
      <4>4. CASE UNCHANGED <<pc, op>> /\ pc[t] \in InDtor
        BY <3>1, <3>3, <4>4
      <4> QED
        BY <1>2, <2>4, <3>3, <4>1, <4>2, <4>3, <4>4, EntersDtor DEF OnTheWayOut
    <3> QED
      BY <3>2, <3>3
  <2> QED
    BY <2>1, <2>2, <2>3, <2>4 DEF RefCountExact
<1> QED
  BY <1>1, <1>2 DEF Next

\* An object in its destructor, or after it, has no strong pointer.
Dying(o) ==
  /\ \A t \in Threads : op[t].victim = o =>
       /\ object[o] = "alive" /\ ref_count[o] = 0
       /\ ref_object[o] <=> pc[t] = "dtor"
       /\ \A u \in Threads : op[u].victim = o => u = t
  /\ object[o] # "none" /\ ~ref_object[o] => ref_count[o] = 0
  /\ object[o] = "deleted" => ~ref_object[o]

DyingOK == \A o \in Objects \ resurrected : Dying(o)

\* A step that has nothing to do with an object.
Quiet(t, o) ==
  /\ object'[o] = object[o] /\ ref_count'[o] = ref_count[o]
  /\ ref_object'[o] = ref_object[o]
  /\ \/ op'[t].victim # o
     \/ op'[t].victim = op[t].victim /\ (pc'[t] = "dtor" <=> pc[t] = "dtor")

\* A step that has nothing to do with a dying object leaves it dying.
LEMMA QuietDying ==
  ASSUME Shape, NEW t \in Threads, Call(t) \/ Step(t), NEW o \in Objects, Dying(o),
         Quiet(t, o)
  PROVE  Dying(o)'
<1>1. \A u \in Threads \ {t} : op'[u] = op[u] /\ pc'[u] = pc[u]
  BY OthersKeepLocals
<1>2. ASSUME NEW u \in Threads, op'[u].victim = o
      PROVE  op[u].victim = o /\ (pc'[u] = "dtor" <=> pc[u] = "dtor")
  BY <1>1, <1>2 DEF Quiet
<1> QED
  BY <1>2 DEF Dying, Quiet

\* An object that no promotion brings back stays in the hands of the one thread
\* that deletes it.
LEMMA DyingStep ==
  ASSUME Shape, LocalsOK, OwnsOK, RefCountExact, DyingOK, LocalsOK',
         NEW t \in Threads, Call(t) \/ Step(t), NEW o \in Objects \ resurrected',
         resurrected \subseteq resurrected'
  PROVE  Dying(o)'
<1> /\ pc \in [Threads -> Locations] /\ op \in [Threads -> Operations]
    /\ object \in [Objects -> Lives] /\ ref_count \in [Objects -> Int]
    /\ ref_object \in [Objects -> BOOLEAN] /\ m_ptr \in [Threads -> Pointers]
    /\ o \in Objects /\ o \notin resurrected /\ o # Null /\ Dying(o)
    /\ Locals(t) /\ Locals(t)'
  BY SmartPtrAssumption DEF Shape, Null, DyingOK, LocalsOK
<1>0. \A u \in Threads \ {t} : op'[u] = op[u] /\ pc'[u] = pc[u]
  BY OthersKeepLocals
<1>1. ASSUME NEW obj \in Objects, Create(t, obj)
      PROVE  Dying(o)'
  <2>1. object[obj] = "none" /\ pc[t] = "idle" /\ UNCHANGED <<pc, op>>
        /\ object' = [object EXCEPT ![obj] = "alive"]
        /\ ref_count' = [ref_count EXCEPT ![obj] = 1]
        /\ ref_object' = [ref_object EXCEPT ![obj] = TRUE]
    BY <1>1 DEF Create
  <2>2. CASE obj = o
    <3>1. \A u \in Threads : op[u].victim # o
      BY <2>1, <2>2 DEF Dying
    <3> QED
      BY <2>1, <2>2, <3>1 DEF Dying
  <2>3. CASE obj # o
    <3> Quiet(t, o)
      BY <2>1, <2>3 DEF Quiet
    <3> QED
      BY QuietDying
  <2> QED
    BY <2>2, <2>3
<1>2. ASSUME NEW peer \in Threads, Copy(t, peer)
      PROVE  Dying(o)'
  <2>1. UNCHANGED <<pc, op, object, ref_object>> /\ m_ptr[t] # Null
        /\ ref_count' = [ref_count EXCEPT ![m_ptr[t]] = @ + 1]
    BY <1>2 DEF Copy, Count, countVars
  <2>2. CASE m_ptr[t] = o
    <3>1. ref_count[o] # 0
      BY <2>2, PointedIsCounted
    <3>2. /\ \A u \in Threads : op[u].victim # o
          /\ object[o] # "none" => ref_object[o]
      BY <3>1 DEF Dying
    <3>3. object[o] # "none"
      BY <3>1 DEF RefCountExact
    <3> QED
      BY <2>1, <3>2, <3>3 DEF Dying
  <2>3. CASE m_ptr[t] # o
    <3> Quiet(t, o)
      BY <2>1, <2>3 DEF Quiet
    <3> QED
      BY QuietDying
  <2> QED
    BY <2>2, <2>3
<1>3. CASE Drop(t)
  <2>1. /\ UNCHANGED <<object, ref_object>> /\ m_ptr[t] # Null
        /\ object[m_ptr[t]] = "alive"
        /\ ref_count' = [ref_count EXCEPT ![m_ptr[t]] = @ + -1]
    BY <1>3 DEF Drop, Count, countVars
  <2>2. ref_count[m_ptr[t]] = 1 =>
          /\ pc'[t] = "dtor" /\ pc[t] = "idle"
          /\ op'[t] = [NoOp EXCEPT !.kind = "delete", !.victim = m_ptr[t]]
    BY <1>3 DEF Drop, Begin, Goto
  <2>3. ref_count[m_ptr[t]] # 1 => UNCHANGED <<pc, op>>
    BY <1>3 DEF Drop
  <2>4. CASE m_ptr[t] = o
    <3>1. ref_count[o] # 0
      BY <2>4, PointedIsCounted
    <3>2. (\A u \in Threads : op[u].victim # o) /\ ref_object[o]
      BY <2>1, <2>4, <3>1 DEF Dying
    <3>3. CASE ref_count[o] = 1
      <4>1. ref_count'[o] = 0 /\ object'[o] = "alive" /\ ref_object'[o] = ref_object[o]
        BY <2>1, <2>4, <3>3
      <4>2. \A u \in Threads : op'[u].victim = o => u = t
        BY <1>0, <3>2
      <4> QED
        BY <2>2, <2>4, <3>2, <3>3, <4>1, <4>2 DEF Dying
    <3>4. CASE ref_count[o] # 1
      BY <2>1, <2>3, <2>4, <3>2, <3>4 DEF Dying
    <3> QED
      BY <3>3, <3>4
  <2>5. CASE m_ptr[t] # o
    <3>1. op'[t].victim # o \/ UNCHANGED <<pc, op>>
      BY <2>2, <2>3, <2>5 DEF NoOp
    <3> QED
      <4> Quiet(t, o)
        BY <2>1, <2>5, <3>1 DEF Quiet
      <4> QED
        BY QuietDying
  <2> QED
    BY <2>4, <2>5
<1>4. CASE \/ DestroyWeakPtr(t) \/ DestLock(t) \/ DestContent(t)
           \/ DestUnlock(t) \/ DestClear(t) \/ Store(t) \/ Source(t)
           \/ AssignRelease(t) \/ CopyLock(t) \/ StrongLock(t)
           \/ CopyContent(t) \/ CopyUnlock(t) \/ StrongUnlock(t)
           \/ LookRelease(t)
  <2>1. /\ UNCHANGED <<object, ref_count, ref_object>>
        /\ pc'[t] \notin InDtor
    BY <1>4 DEF DestroyWeakPtr, DestLock, DestContent, DestUnlock, DestClear,
       Store, Source, AssignRelease, CopyLock, StrongLock, CopyContent,
       CopyUnlock, StrongUnlock, LookRelease, LookLock, Goto, Begin, Return,
       objectVars, countVars, InDtor
  <2> QED
    <3> Quiet(t, o)
      BY <2>1 DEF Quiet, Locals
    <3> QED
      BY QuietDying
<1>5. ASSUME NEW dst \in SlotsOf(t), ToWeakPtr(t, dst)
      PROVE  Dying(o)'
  <2>1. /\ UNCHANGED <<object, ref_count, ref_object>>
        /\ pc'[t] \notin InDtor
    BY <1>5 DEF ToWeakPtr, Goto, Begin, Return, objectVars, countVars, InDtor
  <2> QED
    <3> Quiet(t, o)
      BY <2>1 DEF Quiet, Locals
    <3> QED
      BY QuietDying
<1>6. ASSUME NEW src \in SlotsOf(t), ToStrongPtr(t, src)
      PROVE  Dying(o)'
  <2>1. /\ UNCHANGED <<object, ref_count, ref_object>>
        /\ pc'[t] \notin InDtor
    BY <1>6 DEF ToStrongPtr, Goto, Begin, Return, objectVars, countVars, InDtor
  <2> QED
    <3> Quiet(t, o)
      BY <2>1 DEF Quiet, Locals
    <3> QED
      BY QuietDying
<1>7. ASSUME NEW src \in Weaks, CopyWeakPtr(t, src)
      PROVE  Dying(o)'
  <2>1. /\ UNCHANGED <<object, ref_count, ref_object>>
        /\ pc'[t] \notin InDtor
    BY <1>7 DEF CopyWeakPtr, Goto, Begin, Return, objectVars, countVars, InDtor
  <2> QED
    <3> Quiet(t, o)
      BY <2>1 DEF Quiet, Locals
    <3> QED
      BY QuietDying
<1>8. ASSUME NEW dst \in SlotsOf(t), NEW src \in SlotsOf(t), Assign(t, dst, src)
      PROVE  Dying(o)'
  <2>1. /\ UNCHANGED <<object, ref_count, ref_object>>
        /\ pc'[t] \notin InDtor
    BY <1>8 DEF Assign, Goto, Begin, Return, objectVars, countVars, InDtor
  <2> QED
    <3> Quiet(t, o)
      BY <2>1 DEF Quiet, Locals
    <3> QED
      BY QuietDying
<1>9. CASE Dtor(t)
  <2>1. /\ pc[t] = "dtor" /\ pc'[t] = "dtorUnlock"
        /\ UNCHANGED <<object, ref_count>>
        /\ ref_object' = [ref_object EXCEPT ![op[t].victim] = FALSE]
        /\ op'[t].victim = op[t].victim
    BY <1>9 DEF Dtor, Goto, objectVars, Operations
  <2>2. CASE op[t].victim = o
    <3>1. \A u \in Threads : op'[u].victim = o => u = t
      BY <1>0, <2>1, <2>2 DEF Dying
    <3> QED
      BY <2>1, <2>2, <3>1 DEF Dying
  <2>3. CASE op[t].victim # o
    <3> Quiet(t, o)
      BY <2>1, <2>3 DEF Quiet
    <3> QED
      BY QuietDying
  <2> QED
    BY <2>2, <2>3
<1>10. CASE DtorUnlock(t)
  <2>1. /\ pc[t] = "dtorUnlock" /\ pc'[t] = "dtorDelete"
        /\ UNCHANGED <<object, ref_count, ref_object, op>>
    BY <1>10 DEF DtorUnlock, Goto, objectVars
  <2> QED
    <3> Quiet(t, o)
      BY <2>1 DEF Quiet
    <3> QED
      BY QuietDying
<1>11. CASE DtorDelete(t)
  <2>1. /\ pc[t] = "dtorDelete" /\ op'[t] = NoOp
        /\ object' = [object EXCEPT ![op[t].victim] = "deleted"]
        /\ UNCHANGED <<ref_object, ref_count>>
    BY <1>11 DEF DtorDelete, Return, Goto
  <2>2. CASE op[t].victim = o
    <3>1. \A u \in Threads : op'[u].victim # o
      BY <1>0, <2>1, <2>2 DEF Dying, NoOp
    <3> QED
      BY <2>1, <2>2, <3>1 DEF Dying
  <2>3. CASE op[t].victim # o
    <3> Quiet(t, o)
      BY <2>1, <2>3 DEF Quiet, NoOp
    <3> QED
      BY QuietDying
  <2> QED
    BY <2>2, <2>3
<1>12. CASE StrongContent(t)
  <2> DEFINE p == m_weak_count[op[t].src]
  <2>1. /\ UNCHANGED <<object, ref_object, op>> /\ pc[t] = "strongContent"
        /\ pc'[t] = "strongUnlock"
    BY <1>12 DEF StrongContent, Goto
  <2>2. CASE ref_object[o] /\ p = o
    <3>1. ref_count'[o] = ref_count[o] + 1
      BY <1>12, <2>2 DEF StrongContent, Count
    <3>2. ref_count[o] # 0
      BY <1>12, <2>2 DEF StrongContent
    <3>3. \A u \in Threads : op[u].victim # o
      BY <3>2 DEF Dying
    <3> QED
      BY <2>1, <2>2, <3>3 DEF Dying
  <2>3. CASE ~(ref_object[o] /\ p = o)
    <3>1. ref_count'[o] = ref_count[o]
      BY <1>12, <2>3 DEF StrongContent, Count
    <3> QED
      <4> Quiet(t, o)
        BY <2>1, <3>1 DEF Quiet
      <4> QED
        BY QuietDying
  <2> QED
    BY <2>2, <2>3
<1> HIDE DEF Dying
<1> QED
  BY <1>1, <1>2, <1>3, <1>4, <1>5, <1>6, <1>7, <1>8, <1>9, <1>10, <1>11, <1>12
     DEF Call, Step

\* A thread that has found the counter of o to be its own to delete.
Pending(t, o) ==
  /\ op[t].must_delete_count
  /\ \/ pc[t] \in {"dtorUnlock", "dtorDelete"} /\ op[t].victim = o
     \/ pc[t] \in Leaving /\ m_weak_count[op[t].dst] = o

\* Neither the object nor a weak pointer needs the counter any more.
Gone(o) == object[o] # "none" /\ weak_count[o] = 0 /\ ~ref_object[o]

CounterKept(o) ==
  /\ \A t \in Threads : Pending(t, o) =>
       Gone(o) /\ (pc[t] \in {"dtorDelete", "destClear"} => content_lock[o] = "free")
  /\ counter[o] = "deleted" => Gone(o) /\ content_lock[o] = "free"
  /\ object[o] # "none" /\ ~ref_object[o] /\ counter[o] = "alive" =>
       weak_count[o] # 0 \/ \E t \in Threads : Pending(t, o)
  /\ object[o] = "none" => weak_count[o] = 0

CounterOK == \A o \in Objects \ resurrected : CounterKept(o)

\* What a thread looks at under the lock of a weak pointer is counted.
LEMMA LookedAtIsCounted ==
  ASSUME Shape, LocalsOK, OwnsOK, WeakCountExact,
         NEW t \in Threads, NEW s \in Slots, m_weak_count[s] \in Objects,
         m_count_lock[s] \in {t, "free"}, ~(pc[t] \in Leaving /\ op[t].dst = s)
  PROVE  weak_count[m_weak_count[s]] \in Nat \ {0}
<1> DEFINE o == m_weak_count[s]
<1>1. s \in Counted(o)
  BY NobodyLeaves DEF Counted, Leaving
<1>2. /\ IsFiniteSet(Counted(o)) /\ IsFiniteSet(Carried(o))
      /\ Cardinality(Counted(o)) \in Nat /\ Cardinality(Carried(o)) \in Nat
      /\ Cardinality(Counted(o)) # 0
  BY <1>1, FiniteCounts, FS_CardinalityType, FS_EmptySet
<1>3. /\ weak_count[o] = Cardinality(Counted(o)) + Cardinality(Carried(o)) + lost[o]
      /\ lost[o] \in Nat
  BY DEF WeakCountExact, Shape
<1> QED
  BY <1>2, <1>3

\* Nobody refers again to a counter without references, once ref_count is 0.
LEMMA WeakStaysZero ==
  ASSUME Shape, LocalsOK, OwnsOK, WeakCountExact, RefCountExact,
         NEW t \in Threads, Call(t) \/ Step(t), NEW o \in Objects,
         weak_count[o] = 0, ref_count[o] = 0
  PROVE  weak_count'[o] = 0
<1> /\ weak_count \in [Objects -> Int] /\ Locals(t) /\ SlotsOf(t) \subseteq Slots
    /\ op[t] \in Operations /\ Owns(t) /\ o # Null
  BY SmartPtrAssumption DEF Shape, LocalsOK, OwnsOK, SlotsOf, Slots, Null
<1>1. ASSUME NEW obj \in Objects, Create(t, obj)
      PROVE  weak_count'[o] = 0
  BY <1>1 DEF Create
<1>2. ASSUME NEW peer \in Threads, Copy(t, peer)
      PROVE  weak_count'[o] = 0
  BY <1>2 DEF Copy, countVars
<1>3. CASE \/ Drop(t) \/ DestroyWeakPtr(t) \/ Dtor(t) \/ DtorUnlock(t)
           \/ DtorDelete(t) \/ DestLock(t) \/ DestUnlock(t) \/ DestClear(t)
           \/ Store(t) \/ AssignRelease(t) \/ CopyLock(t) \/ StrongLock(t)
           \/ CopyUnlock(t) \/ StrongContent(t) \/ StrongUnlock(t)
           \/ LookRelease(t)
  BY <1>3 DEF Drop, DestroyWeakPtr, Dtor, DtorUnlock, DtorDelete, DestLock,
     DestUnlock, DestClear, Store, AssignRelease, CopyLock, StrongLock,
     CopyUnlock, StrongContent, StrongUnlock, LookRelease, LookLock, countVars
<1>4. ASSUME NEW dst \in SlotsOf(t), ToWeakPtr(t, dst)
      PROVE  weak_count'[o] = 0
  <2>1. m_ptr[t] # o
    BY PointedIsCounted
  <2> QED
    BY <1>4, <2>1 DEF ToWeakPtr, CountIfAny
<1>5. ASSUME NEW src \in SlotsOf(t), ToStrongPtr(t, src)
      PROVE  weak_count'[o] = 0
  BY <1>5 DEF ToStrongPtr, countVars
<1>6. ASSUME NEW src \in Weaks, CopyWeakPtr(t, src)
      PROVE  weak_count'[o] = 0
  BY <1>6 DEF CopyWeakPtr, countVars
<1>7. ASSUME NEW dst \in SlotsOf(t), NEW src \in SlotsOf(t), Assign(t, dst, src)
      PROVE  weak_count'[o] = 0
  BY <1>7 DEF Assign, countVars
<1>8. CASE DestContent(t)
  <2>1. pc[t] = "destContent"
    BY <1>8 DEF DestContent, Goto
  <2>2. op[t].dst \in Slots
    BY <2>1 DEF Locals, InDest, InLook, InCopy
  <2>3. m_count_lock[op[t].dst] \in {t, "free"}
    BY <2>1, <2>2 DEF Owns, Holds
  <2>4. m_weak_count[op[t].dst] # o
    BY <2>1, <2>2, <2>3, LookedAtIsCounted DEF Leaving
  <2> QED
    BY <1>8, <2>4 DEF DestContent, Count
<1>9. CASE Source(t)
  <2>1. pc[t] = "source"
    BY <1>9 DEF Source, Goto
  <2>2. op[t].src \in Slots
    BY <2>1 DEF Locals, InDest, InLook, InCopy
  <2>3. m_count_lock[op[t].src] \in {t, "free"}
    BY <1>9 DEF Source, Acquire
  <2>4. m_weak_count[op[t].src] # o
    BY <2>1, <2>2, <2>3, LookedAtIsCounted DEF Leaving
  <2> QED
    BY <1>9, <2>4 DEF Source, CountIfAny
<1>10. CASE CopyContent(t)
  <2>1. pc[t] = "copyContent"
    BY <1>10 DEF CopyContent, Goto
  <2>2. op[t].src \in Slots
    BY <2>1 DEF Locals, InDest, InLook, InCopy
  <2>3. m_count_lock[op[t].src] \in {t, "free"}
    BY <2>1, <2>2 DEF Owns, Holds
  <2>4. m_weak_count[op[t].src] # o
    BY <2>1, <2>2, <2>3, LookedAtIsCounted DEF Leaving
  <2> QED
    BY <1>10, <2>4 DEF CopyContent, Count
<1> QED
  BY <1>1, <1>2, <1>3, <1>4, <1>5, <1>6, <1>7, <1>8, <1>9, <1>10 DEF Call, Step

\* Nobody is after the lock in a counter that nobody refers to.
LEMMA ContentStaysFree ==
  ASSUME Shape, LocalsOK, OwnsOK, WeakCountExact, NEW o \in Objects, Dying(o),
         NEW t \in Threads, Call(t) \/ Step(t),
         weak_count[o] = 0, ~ref_object[o], content_lock[o] = "free"
  PROVE  content_lock'[o] = "free"
<1> /\ content_lock \in [Objects -> Threads \cup {"free"}] /\ Locals(t)
    /\ SlotsOf(t) \subseteq Slots /\ Owns(t)
  BY DEF Shape, LocalsOK, OwnsOK, SlotsOf, Slots
<1>1. ASSUME NEW obj \in Objects, Create(t, obj)
      PROVE  content_lock'[o] = "free"
  BY <1>1 DEF Create, countVars, Release
<1>2. ASSUME NEW peer \in Threads, Copy(t, peer)
      PROVE  content_lock'[o] = "free"
  BY <1>2 DEF Copy, countVars, Release
<1>3. CASE \/ Drop(t) \/ DestroyWeakPtr(t) \/ DtorUnlock(t) \/ DtorDelete(t)
           \/ DestLock(t) \/ DestUnlock(t) \/ DestClear(t) \/ Store(t)
           \/ Source(t) \/ AssignRelease(t) \/ CopyLock(t) \/ StrongLock(t)
           \/ CopyUnlock(t) \/ StrongUnlock(t) \/ LookRelease(t)
  BY <1>3 DEF Drop, DestroyWeakPtr, DtorUnlock, DtorDelete, DestLock,
     DestUnlock, DestClear, Store, Source, AssignRelease, CopyLock, StrongLock,
     CopyUnlock, StrongUnlock, LookRelease, LookLock, countVars, Release
<1>4. ASSUME NEW dst \in SlotsOf(t), ToWeakPtr(t, dst)
      PROVE  content_lock'[o] = "free"
  BY <1>4 DEF ToWeakPtr, countVars, Release
<1>5. ASSUME NEW src \in SlotsOf(t), ToStrongPtr(t, src)
      PROVE  content_lock'[o] = "free"
  BY <1>5 DEF ToStrongPtr, countVars, Release
<1>6. ASSUME NEW src \in Weaks, CopyWeakPtr(t, src)
      PROVE  content_lock'[o] = "free"
  BY <1>6 DEF CopyWeakPtr, countVars, Release
<1>7. ASSUME NEW dst \in SlotsOf(t), NEW src \in SlotsOf(t), Assign(t, dst, src)
      PROVE  content_lock'[o] = "free"
  BY <1>7 DEF Assign, countVars, Release
<1>8. CASE Dtor(t)
  <2>1. pc[t] = "dtor"
    BY <1>8 DEF Dtor, Goto
  <2>2. op[t].victim # o
    BY <2>1 DEF Dying
  <2> QED
    BY <1>8, <2>2 DEF Dtor, Acquire
<1>9. CASE DestContent(t)
  <2>1. pc[t] = "destContent"
    BY <1>9 DEF DestContent, Goto
  <2>2. op[t].dst \in Slots
    BY <2>1 DEF Locals, InDest, InLook, InCopy
  <2>3. m_count_lock[op[t].dst] \in {t, "free"}
    BY <2>1, <2>2 DEF Owns, Holds
  <2>4. m_weak_count[op[t].dst] # o
    BY <2>1, <2>2, <2>3, LookedAtIsCounted DEF Leaving
  <2> QED
    BY <1>9, <2>4 DEF DestContent, Acquire
<1>10. CASE CopyContent(t)
  <2>1. pc[t] = "copyContent"
    BY <1>10 DEF CopyContent, Goto
  <2>2. op[t].src \in Slots
    BY <2>1 DEF Locals, InDest, InLook, InCopy
  <2>3. m_count_lock[op[t].src] \in {t, "free"}
    BY <2>1, <2>2 DEF Owns, Holds
  <2>4. m_weak_count[op[t].src] # o
    BY <2>1, <2>2, <2>3, LookedAtIsCounted DEF Leaving
  <2> QED
    BY <1>10, <2>4 DEF CopyContent, Acquire
<1>11. CASE StrongContent(t)
  <2>1. pc[t] = "strongContent"
    BY <1>11 DEF StrongContent, Goto
  <2>2. op[t].src \in Slots
    BY <2>1 DEF Locals, InDest, InLook, InCopy
  <2>3. m_count_lock[op[t].src] \in {t, "free"}
    BY <2>1, <2>2 DEF Owns, Holds
  <2>4. m_weak_count[op[t].src] # o
    BY <2>1, <2>2, <2>3, LookedAtIsCounted DEF Leaving
  <2> QED
    BY <1>11, <2>4 DEF StrongContent, Acquire
<1> QED
  BY <1>1, <1>2, <1>3, <1>4, <1>5, <1>6, <1>7, <1>8, <1>9, <1>10, <1>11 DEF Call, Step

\* What other threads have found stays as it is.
LEMMA PendingOthers ==
  ASSUME Shape, LocalsOK, OwnsOK, NEW t \in Threads, Call(t) \/ Step(t),
         NEW u \in Threads \ {t}, NEW o \in Objects
  PROVE  (Pending(u, o)' <=> Pending(u, o)) /\ pc'[u] = pc[u]
<1>1. op'[u] = op[u] /\ pc'[u] = pc[u]
  BY OthersKeepLocals
<1>2. pc[u] \in Leaving => m_weak_count'[op[u].dst] = m_weak_count[op[u].dst]
  <2> SUFFICES ASSUME pc[u] \in Leaving
               PROVE  m_weak_count'[op[u].dst] = m_weak_count[op[u].dst]
    OBVIOUS
  <2>1. op[u].dst \in SlotsOf(u) /\ op[u].dst \in Slots /\ Holds(u, op[u].dst)
    BY DEF LocalsOK, Locals, Leaving, InDest, Holds, SlotsOf, Slots
  <2>2. m_count_lock[op[u].dst] = u
    BY <2>1 DEF OwnsOK, Owns
  <2> QED
    BY <2>1, <2>2, HeldSlots DEF SlotKept
<1> QED
  BY <1>1, <1>2 DEF Pending

\* What the step finds, forgets or deletes.
Finds(t, o) ==
  Pending(t, o)' =>
    \/ Dtor(t) /\ op[t].victim = o /\ weak_count[o] = 0
    \/ /\ DestContent(t) /\ m_weak_count[op[t].dst] = o
       /\ weak_count[o] = 1 /\ ~ref_object[o]
    \/ /\ Pending(t, o)
       /\ pc'[t] \in {"dtorDelete", "destClear"} => content_lock'[o] = "free"

Deletes(t, o) ==
  /\ Pending(t, o) => Pending(t, o)' \/ counter'[o] = "deleted"
  /\ counter'[o] = "deleted" =>
       \/ counter[o] = "deleted"
       \/ Pending(t, o) /\ pc[t] \in {"dtorDelete", "destClear"}
  /\ counter'[o] = "alive" => counter[o] = "alive" \/ ref_object'[o]
  /\ ref_object'[o] => ref_object[o] \/ object[o] = "none"
  /\ ~ref_object'[o] /\ ref_object[o] => Dtor(t) /\ op[t].victim = o
  /\ weak_count[o] # 0 /\ weak_count'[o] = 0 =>
       DestContent(t) /\ m_weak_count[op[t].dst] = o /\ weak_count[o] = 1

\* weak_count is never below 0.
LEMMA WeakNat ==
  ASSUME Shape, WeakCountExact, NEW o \in Objects
  PROVE  weak_count[o] \in Nat
<1>1. /\ Cardinality(Counted(o)) \in Nat /\ Cardinality(Carried(o)) \in Nat
      /\ lost[o] \in Nat
  BY FiniteCounts, FS_CardinalityType DEF Shape
<1> QED
  BY <1>1 DEF WeakCountExact

\* A thread finds a counter to be its own to delete in the destructor or in
\* Dest(), and has given up content_lock before it deletes it.
LEMMA FindsStep ==
  ASSUME Shape, LocalsOK, OwnsOK, LocalsOK', NEW t \in Threads, Call(t) \/ Step(t),
         NEW o \in Objects
  PROVE  Finds(t, o)
<1> /\ Locals(t)' /\ Locals(t) /\ Owns(t) /\ pc \in [Threads -> Locations]
    /\ content_lock \in [Objects -> Threads \cup {"free"}]
    /\ op \in [Threads -> Operations] /\ op[t] \in Operations
  BY DEF Shape, LocalsOK, OwnsOK
<1> USE DEF Finds, Pending
<1>1. ASSUME NEW obj \in Objects, Create(t, obj)
      PROVE  Finds(t, o)
  <2>1. pc'[t] \notin {"dtorUnlock", "dtorDelete"} \cup Leaving
    BY <1>1 DEF Create, Goto, Leaving
  <2> QED
    BY <2>1 DEF Leaving
<1>2. ASSUME NEW peer \in Threads, Copy(t, peer)
      PROVE  Finds(t, o)
  <2>1. pc'[t] \notin {"dtorUnlock", "dtorDelete"} \cup Leaving
    BY <1>2 DEF Copy, Goto, Leaving
  <2> QED
    BY <2>1 DEF Leaving
<1>3. CASE Drop(t)
  <2>1. pc'[t] \notin {"dtorUnlock", "dtorDelete"} \cup Leaving
           \/ UNCHANGED <<pc, op, m_weak_count, content_lock>>
    BY <1>3 DEF Drop, Begin, Goto, Leaving, weakVars, countVars
  <2>2. pc[t] = "idle" \/ pc'[t] \notin {"dtorUnlock", "dtorDelete"} \cup Leaving
    BY <1>3, <2>1 DEF Drop, Begin, Goto
  <2> QED
    BY <2>1, <2>2 DEF Leaving
<1>4. CASE \/ DestroyWeakPtr(t) \/ DtorDelete(t) \/ DestClear(t) \/ Store(t)
           \/ Source(t) \/ AssignRelease(t) \/ CopyLock(t) \/ StrongLock(t)
           \/ CopyContent(t) \/ CopyUnlock(t) \/ StrongUnlock(t)
           \/ LookRelease(t)
  <2>1. pc'[t] \notin {"dtorUnlock", "dtorDelete"} \cup Leaving
    BY <1>4 DEF DestroyWeakPtr, DtorDelete, DestClear, Store, Source,
       AssignRelease, CopyLock, StrongLock, CopyContent, CopyUnlock,
       StrongUnlock, LookRelease, LookLock, Begin, Goto, Return, Leaving
  <2> QED
    BY <2>1
<1>5. ASSUME NEW dst \in SlotsOf(t), ToWeakPtr(t, dst)
      PROVE  Finds(t, o)
  <2>1. pc'[t] \notin {"dtorUnlock", "dtorDelete"} \cup Leaving
    BY <1>5 DEF ToWeakPtr, Begin, Goto, Return, Leaving
  <2> QED
    BY <2>1
<1>6. ASSUME NEW src \in SlotsOf(t), ToStrongPtr(t, src)
      PROVE  Finds(t, o)
  <2>1. pc'[t] \notin {"dtorUnlock", "dtorDelete"} \cup Leaving
    BY <1>6 DEF ToStrongPtr, Begin, Goto, Return, Leaving
  <2> QED
    BY <2>1
<1>7. ASSUME NEW src \in Weaks, CopyWeakPtr(t, src)
      PROVE  Finds(t, o)
  <2>1. pc'[t] \notin {"dtorUnlock", "dtorDelete"} \cup Leaving
    BY <1>7 DEF CopyWeakPtr, Begin, Goto, Return, Leaving
  <2> QED
    BY <2>1
<1>8. ASSUME NEW dst \in SlotsOf(t), NEW src \in SlotsOf(t), Assign(t, dst, src)
      PROVE  Finds(t, o)
  <2>1. pc'[t] \notin {"dtorUnlock", "dtorDelete"} \cup Leaving
    BY <1>8 DEF Assign, Begin, Goto, Return, Leaving
  <2> QED
    BY <2>1
<1>9. CASE Dtor(t)
  <2>1. /\ pc'[t] = "dtorUnlock" /\ op'[t].victim = op[t].victim
        /\ op'[t].must_delete_count = (weak_count[op[t].victim] = 0)
    BY <1>9 DEF Dtor, Goto, Operations
  <2> QED
    BY <1>9, <2>1 DEF Leaving
<1>10. CASE DtorUnlock(t)
  <2>1. /\ pc[t] = "dtorUnlock" /\ pc'[t] = "dtorDelete" /\ UNCHANGED op
        /\ content_lock' = [content_lock EXCEPT ![op[t].victim] = "free"]
    BY <1>10 DEF DtorUnlock, Goto, Release
  <2> QED
    BY <2>1 DEF Leaving
<1>11. CASE DestLock(t)
  <2>1. pc[t] = "destLock" /\ UNCHANGED op
    BY <1>11 DEF DestLock, Goto
  <2> QED
    BY <2>1 DEF Locals
<1>12. CASE DestContent(t)
  <2>1. /\ pc'[t] = "destUnlock" /\ op'[t].dst = op[t].dst /\ UNCHANGED m_weak_count
        /\ op'[t].must_delete_count = (weak_count[m_weak_count[op[t].dst]] = 1
                                         /\ ~ref_object[m_weak_count[op[t].dst]])
    BY <1>12 DEF DestContent, Goto, Operations, weakVars
  <2> QED
    BY <1>12, <2>1 DEF Leaving
<1>13. CASE DestUnlock(t)
  <2>1. /\ pc[t] = "destUnlock" /\ pc'[t] = "destClear" /\ UNCHANGED <<op, m_weak_count>>
        /\ content_lock' = [content_lock EXCEPT ![m_weak_count[op[t].dst]] = "free"]
    BY <1>13 DEF DestUnlock, Goto, Release, weakVars
  <2> QED
    BY <2>1 DEF Leaving
<1>14. CASE StrongContent(t)
  <2>1. pc'[t] \notin {"dtorUnlock", "dtorDelete"} \cup Leaving
    BY <1>14 DEF StrongContent, Goto, Leaving
  <2> QED
    BY <2>1 DEF Leaving
<1> HIDE DEF Finds
<1> QED
  BY <1>1, <1>2, <1>3, <1>4, <1>5, <1>6, <1>7, <1>8, <1>9, <1>10, <1>11,
     <1>12, <1>13, <1>14 DEF Call, Step

\* A counter is deleted by a thread that has found it to be its own, and a
\* thread that has found it deletes it.
LEMMA DeletesStep ==
  ASSUME Shape, LocalsOK, OwnsOK, WeakCountExact, NEW t \in Threads, Call(t) \/ Step(t),
         NEW o \in Objects
  PROVE  Deletes(t, o)
<1> /\ Locals(t) /\ Owns(t) /\ pc \in [Threads -> Locations]
    /\ weak_count \in [Objects -> Int] /\ ref_object \in [Objects -> BOOLEAN]
    /\ counter \in [Objects -> Lives]
    /\ op \in [Threads -> Operations] /\ op[t] \in Operations
  BY DEF Shape, LocalsOK, OwnsOK
<1> USE DEF Deletes, Pending
<1>1. ASSUME NEW obj \in Objects, Create(t, obj)
      PROVE  Deletes(t, o)
  <2>1. /\ object[obj] = "none" /\ pc[t] = "idle" /\ UNCHANGED <<weak_count, op, pc>>
        /\ counter' = [counter EXCEPT ![obj] = "alive"]
        /\ ref_object' = [ref_object EXCEPT ![obj] = TRUE]
    BY <1>1 DEF Create
  <2>2. ~Pending(t, o)
    BY <2>1 DEF Leaving
  <2> QED
    BY <2>1, <2>2 DEF Lives
<1>2. ASSUME NEW peer \in Threads, Copy(t, peer)
      PROVE  Deletes(t, o)
  <2>1. UNCHANGED <<counter, ref_object, weak_count>>
    BY <1>2 DEF Copy, countVars
  <2>2. pc[t] = "idle" \/ UNCHANGED <<pc, op, m_weak_count>>
    BY <1>2 DEF Copy, Begin, Goto, weakVars
  <2>3. Pending(t, o) => Pending(t, o)'
    BY <2>2 DEF Leaving
  <2> QED
    BY <2>1, <2>3
<1>3. CASE Drop(t)
  <2>1. UNCHANGED <<counter, ref_object, weak_count>>
    BY <1>3 DEF Drop, countVars
  <2>2. pc[t] = "idle" \/ UNCHANGED <<pc, op, m_weak_count>>
    BY <1>3 DEF Drop, Begin, Goto, weakVars
  <2>3. Pending(t, o) => Pending(t, o)'
    BY <2>2 DEF Leaving
  <2> QED
    BY <2>1, <2>3
<1>4. CASE \/ DestroyWeakPtr(t) \/ DestLock(t) \/ Store(t) \/ AssignRelease(t)
           \/ CopyLock(t) \/ StrongLock(t) \/ CopyUnlock(t) \/ StrongContent(t)
           \/ StrongUnlock(t) \/ LookRelease(t)
  <2>1. /\ UNCHANGED <<counter, ref_object, weak_count>>
        /\ pc[t] \notin {"dtorUnlock", "dtorDelete"} \cup Leaving
    BY <1>4 DEF DestroyWeakPtr, DestLock, Store, AssignRelease, CopyLock,
       StrongLock, CopyUnlock, StrongContent, StrongUnlock, LookRelease,
       LookLock, Begin, Goto, Return, Leaving, countVars
  <2> QED
    BY <2>1
<1>5. ASSUME NEW dst \in SlotsOf(t), ToWeakPtr(t, dst)
      PROVE  Deletes(t, o)
  <2>1. /\ UNCHANGED <<counter, ref_object>>
        /\ pc[t] \notin {"dtorUnlock", "dtorDelete"} \cup Leaving
    BY <1>5 DEF ToWeakPtr, Begin, Goto, Leaving
  <2>3. ~(weak_count[o] # 0 /\ weak_count'[o] = 0)
    BY <1>5, WeakNat DEF ToWeakPtr, CountIfAny
  <2> QED
    BY <2>1, <2>3
<1>6. ASSUME NEW src \in SlotsOf(t), ToStrongPtr(t, src)
      PROVE  Deletes(t, o)
  <2>1. /\ UNCHANGED <<counter, ref_object, weak_count>>
        /\ pc[t] \notin {"dtorUnlock", "dtorDelete"} \cup Leaving
    BY <1>6 DEF ToStrongPtr, Begin, Goto, Return, Leaving, countVars
  <2> QED
    BY <2>1
<1>7. ASSUME NEW src \in Weaks, CopyWeakPtr(t, src)
      PROVE  Deletes(t, o)
  <2>1. /\ UNCHANGED <<counter, ref_object, weak_count>>
        /\ pc[t] \notin {"dtorUnlock", "dtorDelete"} \cup Leaving
    BY <1>7 DEF CopyWeakPtr, Begin, Goto, Return, Leaving, countVars
  <2> QED
    BY <2>1
<1>8. ASSUME NEW dst \in SlotsOf(t), NEW src \in SlotsOf(t), Assign(t, dst, src)
      PROVE  Deletes(t, o)
  <2>1. /\ UNCHANGED <<counter, ref_object, weak_count>>
        /\ pc[t] \notin {"dtorUnlock", "dtorDelete"} \cup Leaving
    BY <1>8 DEF Assign, Begin, Goto, Return, Leaving, countVars
  <2> QED
    BY <2>1
<1>9. CASE Dtor(t)
  <2>1. /\ UNCHANGED <<counter, weak_count>> /\ pc[t] = "dtor"
        /\ ref_object' = [ref_object EXCEPT ![op[t].victim] = FALSE]
    BY <1>9 DEF Dtor, Goto
  <2> QED
    BY <1>9, <2>1 DEF Leaving
<1>10. CASE DtorUnlock(t)
  <2>1. /\ pc[t] = "dtorUnlock" /\ pc'[t] = "dtorDelete"
        /\ UNCHANGED <<op, counter, ref_object, weak_count>>
    BY <1>10 DEF DtorUnlock, Goto
  <2> QED
    BY <2>1 DEF Leaving
<1>11. CASE DtorDelete(t)
  <2>1. /\ pc[t] = "dtorDelete" /\ UNCHANGED <<ref_object, weak_count>>
        /\ counter' = IF op[t].must_delete_count
                       THEN [counter EXCEPT ![op[t].victim] = "deleted"] ELSE counter
    BY <1>11 DEF DtorDelete, Return, Goto
  <2> QED
    BY <2>1 DEF Leaving
<1>12. CASE DestContent(t)
  <2>1. UNCHANGED <<counter, ref_object>> /\ pc[t] = "destContent"
    BY <1>12 DEF DestContent, Goto
  <2>2. weak_count[o] # 0 /\ weak_count'[o] = 0 =>
          m_weak_count[op[t].dst] = o /\ weak_count[o] = 1
    BY <1>12 DEF DestContent, Count
  <2> QED
    BY <1>12, <2>1, <2>2 DEF Leaving
<1>13. CASE DestUnlock(t)
  <2>1. /\ pc[t] = "destUnlock" /\ pc'[t] = "destClear"
        /\ UNCHANGED <<op, counter, ref_object, weak_count, m_weak_count>>
    BY <1>13 DEF DestUnlock, Goto, weakVars
  <2> QED
    BY <2>1 DEF Leaving
<1>14. CASE DestClear(t)
  <2>1. /\ pc[t] = "destClear" /\ UNCHANGED <<ref_object, weak_count>>
        /\ counter' = IF op[t].must_delete_count
                THEN [counter EXCEPT ![m_weak_count[op[t].dst]] = "deleted"]
                ELSE counter
    BY <1>14 DEF DestClear, Return, Goto
  <2> QED
    BY <2>1 DEF Leaving
<1>15. CASE Source(t)
  <2>1. /\ UNCHANGED <<counter, ref_object>>
        /\ pc[t] \notin {"dtorUnlock", "dtorDelete"} \cup Leaving
    BY <1>15 DEF Source, Begin, Goto, Leaving
  <2>3. ~(weak_count[o] # 0 /\ weak_count'[o] = 0)
    BY <1>15, WeakNat DEF Source, CountIfAny
  <2> QED
    BY <2>1, <2>3
<1>16. CASE CopyContent(t)
  <2>1. /\ UNCHANGED <<counter, ref_object>>
        /\ pc[t] \notin {"dtorUnlock", "dtorDelete"} \cup Leaving
    BY <1>16 DEF CopyContent, Begin, Goto, Leaving
  <2>3. ~(weak_count[o] # 0 /\ weak_count'[o] = 0)
    BY <1>16, WeakNat DEF CopyContent, Count
  <2> QED
    BY <2>1, <2>3
<1> HIDE DEF Deletes
<1> QED
  BY <1>1, <1>2, <1>3, <1>4, <1>5, <1>6, <1>7, <1>8, <1>9, <1>10, <1>11, <1>12,
     <1>13, <1>14, <1>15, <1>16 DEF Call, Step

\* A promotion that met the last drop is remembered.
LEMMA ResurrectedStep ==
  ASSUME Shape, LocalsOK, OwnsOK, resurrected \subseteq Objects, NEW t \in Threads,
         Call(t) \/ Step(t)
  PROVE  resurrected \subseteq resurrected' /\ resurrected' \subseteq Objects
<1>1. ASSUME NEW obj \in Objects, Create(t, obj)
      PROVE  resurrected \subseteq resurrected' /\ resurrected' \subseteq Objects
  BY <1>1 DEF Create, historyVars
<1>2. ASSUME NEW peer \in Threads, Copy(t, peer)
      PROVE  resurrected \subseteq resurrected' /\ resurrected' \subseteq Objects
  BY <1>2 DEF Copy, historyVars
<1>3. CASE \/ Drop(t) \/ DestroyWeakPtr(t) \/ Dtor(t) \/ DtorUnlock(t)
           \/ DtorDelete(t) \/ DestLock(t) \/ DestContent(t) \/ DestUnlock(t)
           \/ DestClear(t) \/ Store(t) \/ Source(t) \/ AssignRelease(t)
           \/ CopyLock(t) \/ StrongLock(t) \/ CopyContent(t) \/ CopyUnlock(t)
           \/ StrongUnlock(t) \/ LookRelease(t)
  BY <1>3 DEF Drop, DestroyWeakPtr, Dtor, DtorUnlock, DtorDelete, DestLock,
     DestContent, DestUnlock, DestClear, Store, Source, AssignRelease, CopyLock,
     StrongLock, CopyContent, CopyUnlock, StrongUnlock, LookRelease, LookLock,
     historyVars
<1>4. ASSUME NEW dst \in SlotsOf(t), ToWeakPtr(t, dst)
      PROVE  resurrected \subseteq resurrected' /\ resurrected' \subseteq Objects
  BY <1>4 DEF ToWeakPtr, historyVars
<1>5. ASSUME NEW src \in SlotsOf(t), ToStrongPtr(t, src)
      PROVE  resurrected \subseteq resurrected' /\ resurrected' \subseteq Objects
  BY <1>5 DEF ToStrongPtr, historyVars
<1>6. ASSUME NEW src \in Weaks, CopyWeakPtr(t, src)
      PROVE  resurrected \subseteq resurrected' /\ resurrected' \subseteq Objects
  BY <1>6 DEF CopyWeakPtr, historyVars
<1>7. ASSUME NEW dst \in SlotsOf(t), NEW src \in SlotsOf(t), Assign(t, dst, src)
      PROVE  resurrected \subseteq resurrected' /\ resurrected' \subseteq Objects
  BY <1>7 DEF Assign, historyVars
<1>8. CASE StrongContent(t)
  <2>1. m_weak_count[op[t].src] \in Objects
    BY <1>8 DEF StrongContent, Goto, OwnsOK, Owns, AtContent
  <2> QED
    BY <1>8, <2>1 DEF StrongContent
<1> QED
  BY <1>1, <1>2, <1>3, <1>4, <1>5, <1>6, <1>7, <1>8 DEF Call, Step

\* An object that is made has its counter.
LEMMA MadeStep ==
  ASSUME Shape, LocalsOK, RefCountExact, NEW t \in Threads, Call(t) \/ Step(t),
         NEW o \in Objects
  PROVE  object'[o] = "none" \/ object[o] # "none" \/ ref_object'[o]
<1> object \in [Objects -> Lives] /\ ref_object \in [Objects -> BOOLEAN]
  BY DEF Shape
<1>1. ASSUME NEW obj \in Objects, Create(t, obj)
      PROVE  object'[o] = "none" \/ object[o] # "none" \/ ref_object'[o]
  BY <1>1 DEF Create, objectVars
<1>2. ASSUME NEW peer \in Threads, Copy(t, peer)
      PROVE  object'[o] = "none" \/ object[o] # "none" \/ ref_object'[o]
  BY <1>2 DEF Copy, objectVars
<1>3. CASE \/ Drop(t) \/ DestroyWeakPtr(t) \/ Dtor(t) \/ DtorUnlock(t)
           \/ DestLock(t) \/ DestContent(t) \/ DestUnlock(t) \/ DestClear(t)
           \/ Store(t) \/ Source(t) \/ AssignRelease(t) \/ CopyLock(t)
           \/ StrongLock(t) \/ CopyContent(t) \/ CopyUnlock(t)
           \/ StrongContent(t) \/ StrongUnlock(t) \/ LookRelease(t)
  BY <1>3 DEF Drop, DestroyWeakPtr, Dtor, DtorUnlock, DestLock, DestContent,
     DestUnlock, DestClear, Store, Source, AssignRelease, CopyLock, StrongLock,
     CopyContent, CopyUnlock, StrongContent, StrongUnlock, LookRelease,
     LookLock, objectVars
<1>4. ASSUME NEW dst \in SlotsOf(t), ToWeakPtr(t, dst)
      PROVE  object'[o] = "none" \/ object[o] # "none" \/ ref_object'[o]
  BY <1>4 DEF ToWeakPtr, objectVars
<1>5. ASSUME NEW src \in SlotsOf(t), ToStrongPtr(t, src)
      PROVE  object'[o] = "none" \/ object[o] # "none" \/ ref_object'[o]
  BY <1>5 DEF ToStrongPtr, objectVars
<1>6. ASSUME NEW src \in Weaks, CopyWeakPtr(t, src)
      PROVE  object'[o] = "none" \/ object[o] # "none" \/ ref_object'[o]
  BY <1>6 DEF CopyWeakPtr, objectVars
<1>7. ASSUME NEW dst \in SlotsOf(t), NEW src \in SlotsOf(t), Assign(t, dst, src)
      PROVE  object'[o] = "none" \/ object[o] # "none" \/ ref_object'[o]
  BY <1>7 DEF Assign, objectVars
<1>8. CASE DtorDelete(t)
  <2>1. /\ pc[t] = "dtorDelete"
        /\ object' = [object EXCEPT ![op[t].victim] = "deleted"]
    BY <1>8 DEF DtorDelete, Return, Goto
  <2>2. object[op[t].victim] # "none"
    BY <2>1 DEF RefCountExact, InDtor
  <2> QED
    BY <2>1, <2>2
<1> QED
  BY <1>1, <1>2, <1>3, <1>4, <1>5, <1>6, <1>7, <1>8 DEF Call, Step

Counts == Shape /\ LocalsOK /\ OwnsOK /\ WeakCountExact /\ RefCountExact

\* A counter that nobody needs is needed by nobody ever after.
LEMMA GoneStays ==
  ASSUME Counts, NEW t \in Threads, Call(t) \/ Step(t), NEW o \in Objects, Dying(o),
         Gone(o)
  PROVE  Gone(o)' /\ (content_lock[o] = "free" => content_lock'[o] = "free")
<1>1. ref_count[o] = 0 /\ object[o] # "none" /\ weak_count[o] = 0 /\ ~ref_object[o]
  BY DEF Dying, Gone
<1>2. weak_count'[o] = 0
  BY <1>1, WeakStaysZero DEF Counts
<1>3. object'[o] # "none"
  BY <1>1, UnbornStep DEF Born, Counts
<1>4. ~ref_object'[o]
  BY <1>1, DeletesStep DEF Deletes, Counts
<1>5. content_lock[o] = "free" => content_lock'[o] = "free"
  BY <1>1, ContentStaysFree DEF Counts
<1> QED
  BY <1>2, <1>3, <1>4, <1>5 DEF Gone

\* Who finds a counter to be its own to delete finds one that nobody needs.
LEMMA FoundIsGone ==
  ASSUME Counts, LocalsOK', NEW t \in Threads, Call(t) \/ Step(t), NEW o \in Objects,
         Dying(o), CounterKept(o), NEW u \in Threads, Pending(u, o)'
  PROVE  Gone(o)' /\ (pc'[u] \in {"dtorDelete", "destClear"} => content_lock'[o] = "free")
<1>1. CASE u # t
  <2>1. Pending(u, o) /\ pc'[u] = pc[u]
    BY <1>1, PendingOthers DEF Counts
  <2>2. Gone(o) /\ (pc[u] \in {"dtorDelete", "destClear"} => content_lock[o] = "free")
    BY <2>1 DEF CounterKept
  <2> QED
    BY <2>1, <2>2, GoneStays
<1>2. CASE u = t
  <2>1. Finds(t, o)
    BY FindsStep DEF Counts
  <2>2. CASE Dtor(t) /\ op[t].victim = o /\ weak_count[o] = 0
    <3>1. object[o] # "none"
      BY <2>2 DEF Dying
    <3>2. /\ UNCHANGED <<object, weak_count>> /\ pc'[t] = "dtorUnlock"
          /\ ref_object' = [ref_object EXCEPT ![o] = FALSE]
          /\ ref_object \in [Objects -> BOOLEAN]
      BY <2>2 DEF Dtor, Goto, objectVars, Counts, Shape
    <3> QED
      BY <1>2, <2>2, <3>1, <3>2 DEF Gone
  <2>3. CASE /\ DestContent(t) /\ m_weak_count[op[t].dst] = o
             /\ weak_count[o] = 1 /\ ~ref_object[o]
    <3>1. object[o] # "none"
      BY <2>3 DEF CounterKept
    <3>2. /\ UNCHANGED <<object, ref_object>> /\ pc'[t] = "destUnlock"
          /\ weak_count' = [weak_count EXCEPT ![o] = @ + -1]
          /\ weak_count \in [Objects -> Int]
      BY <2>3 DEF DestContent, Goto, objectVars, Counts, Shape, Count
    <3> QED
      BY <1>2, <2>3, <3>1, <3>2 DEF Gone
  <2>4. CASE /\ Pending(t, o)
             /\ pc'[t] \in {"dtorDelete", "destClear"} => content_lock'[o] = "free"
    <3>1. Gone(o)
      BY <2>4 DEF CounterKept
    <3> QED
      BY <1>2, <2>4, <3>1, GoneStays
  <2> QED
    BY <1>2, <2>1, <2>2, <2>3, <2>4 DEF Finds
<1> QED
  BY <1>1, <1>2

\* Whoever leaves a counter without users finds it to be its own to delete.
LEMMA LastOneFinds ==
  ASSUME Counts, NEW t \in Threads, Call(t) \/ Step(t), NEW o \in Objects,
         Dying(o), CounterKept(o),
         object'[o] # "none", ~ref_object'[o], counter'[o] = "alive", weak_count'[o] = 0
  PROVE  \E u \in Threads : Pending(u, o)'
<1> Deletes(t, o)
  BY DeletesStep DEF Counts
<1>1. counter[o] = "alive"
  BY DEF Deletes
<1>2. object[o] # "none"
  BY MadeStep DEF Counts
<1>3. CASE ref_object[o]
  <2>1. Dtor(t) /\ op[t].victim = o
    BY <1>3 DEF Deletes
  <2>2. /\ weak_count' = weak_count /\ pc'[t] = "dtorUnlock"
        /\ op'[t].victim = o /\ op'[t].must_delete_count = (weak_count[o] = 0)
    BY <2>1 DEF Dtor, Goto, Counts, Shape, Operations
  <2> QED
    BY <2>2 DEF Pending
<1>4. CASE ~ref_object[o] /\ weak_count[o] # 0
  <2>1. DestContent(t) /\ m_weak_count[op[t].dst] = o /\ weak_count[o] = 1
    BY <1>4 DEF Deletes
  <2>2. /\ m_weak_count' = m_weak_count /\ pc'[t] = "destUnlock"
        /\ op'[t].dst = op[t].dst
        /\ op'[t].must_delete_count = (weak_count[o] = 1 /\ ~ref_object[o])
    BY <2>1 DEF DestContent, Goto, Counts, Shape, Operations, weakVars
  <2> QED
    BY <1>4, <2>1, <2>2 DEF Pending, Leaving
<1>5. CASE ~ref_object[o] /\ weak_count[o] = 0
  <2>1. PICK u \in Threads : Pending(u, o)
    BY <1>1, <1>2, <1>5 DEF CounterKept
  <2>2. CASE u # t
    BY <2>1, <2>2, PendingOthers DEF Counts
  <2>3. CASE u = t
    BY <2>1, <2>3 DEF Deletes
  <2> QED
    BY <2>2, <2>3
<1> QED
  BY <1>3, <1>4, <1>5

\* Every step keeps a counter exactly as long as it is needed.
LEMMA CounterStep ==
  ASSUME Counts, LocalsOK', NEW t \in Threads, Call(t) \/ Step(t), NEW o \in Objects,
         Dying(o), CounterKept(o)
  PROVE  CounterKept(o)'
<1>1. counter'[o] = "deleted" => Gone(o)' /\ content_lock'[o] = "free"
  <2> SUFFICES ASSUME counter'[o] = "deleted"
               PROVE  Gone(o)' /\ content_lock'[o] = "free"
    OBVIOUS
  <2>1. \/ counter[o] = "deleted"
        \/ Pending(t, o) /\ pc[t] \in {"dtorDelete", "destClear"}
    BY DeletesStep DEF Deletes, Counts
  <2>2. Gone(o) /\ content_lock[o] = "free"
    BY <2>1 DEF CounterKept
  <2> QED
    BY <2>2, GoneStays
<1>2. object'[o] = "none" => weak_count'[o] = 0
  <2> SUFFICES ASSUME object'[o] = "none"
               PROVE  weak_count'[o] = 0
    OBVIOUS
  <2>1. object[o] = "none"
    BY UnbornStep DEF Born, Counts
  <2>2. weak_count[o] = 0 /\ ref_count[o] = 0
    BY <2>1 DEF CounterKept, Counts, RefCountExact
  <2> QED
    BY <2>2, WeakStaysZero DEF Counts
<1>3. object'[o] # "none" /\ ~ref_object'[o] /\ counter'[o] = "alive" =>
        weak_count'[o] # 0 \/ \E u \in Threads : Pending(u, o)'
  BY LastOneFinds
<1>4. \A u \in Threads : Pending(u, o)' =>
        Gone(o)' /\ (pc'[u] \in {"dtorDelete", "destClear"} => content_lock'[o] = "free")
  BY FoundIsGone
<1> QED
  BY <1>1, <1>2, <1>3, <1>4 DEF CounterKept
-----------------------------------------------------------------------------
(* The theorems. *)

\* ref_count is the number of the SmartPtrs that point to the object.
THEOREM RefCountExactCorrect == Spec => [](RefCountExact /\ resurrected \subseteq Objects)
<1>1. Init => RefCountExact /\ resurrected \subseteq Objects
  <2> SUFFICES ASSUME Init
               PROVE  RefCountExact /\ resurrected \subseteq Objects
    OBVIOUS
  <2>1. \A o \in Objects : Pointing(o) = {}
    BY SmartPtrAssumption DEF Init, Pointing, Null
  <2> QED
    BY <2>1, FS_EmptySet DEF Init, RefCountExact, PromotersEmpty, InDtor
<1>2. Shape /\ LocalsOK /\ OwnsOK /\ RefCountExact
        /\ resurrected \subseteq Objects /\ [Next]_vars
        => (RefCountExact /\ resurrected \subseteq Objects)'
  <2> SUFFICES ASSUME Shape, LocalsOK, OwnsOK, RefCountExact,
                      resurrected \subseteq Objects, [Next]_vars
               PROVE  RefCountExact' /\ resurrected' \subseteq Objects
    OBVIOUS
  <2>1. resurrected' \subseteq Objects
    BY ResurrectedStep DEF Next, vars, historyVars
  <2> QED
    BY <2>1, RefCountExactStep
<1> QED
  BY <1>1, <1>2, OwnersCorrect, PTL DEF Spec

\* Unless a promotion met the last drop: one thread deletes an object, which has
\* no SmartPtr by then, and one thread its counter, which has no user by then.
LEMMA DyingInvariant == Spec => [](DyingOK /\ CounterOK)
<1> DEFINE Others == /\ Counts /\ resurrected \subseteq Objects
<1>1. Init => DyingOK /\ CounterOK
  <2> SUFFICES ASSUME Init, NEW o \in Objects
               PROVE  Dying(o) /\ CounterKept(o)
    BY DEF DyingOK, CounterOK
  <2>1. \A t \in Threads : op[t].victim # o /\ ~op[t].must_delete_count
    BY SmartPtrAssumption DEF Init, NoOp, Null
  <2>2. object[o] = "none" /\ counter[o] = "none" /\ weak_count[o] = 0
    BY DEF Init
  <2> QED
    BY <2>1, <2>2 DEF Dying, CounterKept, Pending
<1>2. Others /\ LocalsOK' /\ DyingOK /\ CounterOK /\ [Next]_vars => (DyingOK /\ CounterOK)'
  <2> SUFFICES ASSUME Others, LocalsOK', DyingOK, CounterOK, [Next]_vars
               PROVE  (DyingOK /\ CounterOK)'
    OBVIOUS
  <2>1. CASE UNCHANGED vars
    <3>1. DyingOK'
      BY <2>1 DEF vars, objectVars, countVars, historyVars, DyingOK, Dying
    <3>2. CounterOK'
      BY <2>1 DEF vars, objectVars, countVars, weakVars, historyVars, CounterOK,
                  CounterKept, Pending, Gone
    <3> QED
      BY <3>1, <3>2
  <2>2. ASSUME NEW t \in Threads, Call(t) \/ Step(t)
        PROVE  (DyingOK /\ CounterOK)'
    <3>1. resurrected \subseteq resurrected'
      BY <2>2, ResurrectedStep DEF Counts
    <3>2. \A o \in Objects \ resurrected' : Dying(o)'
      BY <2>2, <3>1, DyingStep DEF Counts
    <3>3. ASSUME NEW o \in Objects \ resurrected'
          PROVE  CounterKept(o)'
      <4>1. o \in Objects /\ Dying(o) /\ CounterKept(o)
        BY <3>1, <3>3 DEF DyingOK, CounterOK
      <4> QED
        BY <2>2, <4>1, CounterStep
    <3> QED
      BY <3>2, <3>3 DEF DyingOK, CounterOK
  <2> QED
    BY <2>1, <2>2 DEF Next
<1>3. Spec => []Others
  BY OwnersCorrect, WeakCountExactCorrect, RefCountExactCorrect, PTL DEF Counts
<1>4. Others => LocalsOK
  BY DEF Counts
<1> QED
  BY <1>1, <1>2, <1>3, <1>4, PTL DEF Spec

\* A SmartPtr, copied, handed over or promoted, points to a live object.
THEOREM StrongPtrsAreAliveCorrect == Spec => []StrongPtrsAreAlive
<1>1. Shape /\ RefCountExact /\ DyingOK => StrongPtrsAreAlive
  <2> SUFFICES ASSUME Shape, RefCountExact, DyingOK, NEW t \in Threads,
                      m_ptr[t] \in Objects \ resurrected
               PROVE  object[m_ptr[t]] = "alive"
    BY DEF StrongPtrsAreAlive
  <2>1. ref_count[m_ptr[t]] # 0
    BY PointedIsCounted
  <2>2. object[m_ptr[t]] # "none"
    BY <2>1 DEF RefCountExact
  <2>3. object[m_ptr[t]] # "deleted"
    BY <2>1 DEF DyingOK, Dying
  <2> QED
    BY <2>2, <2>3 DEF Shape, Lives
<1> QED
  BY <1>1, OwnersCorrect, RefCountExactCorrect, DyingInvariant, PTL

\* Nobody has a reference to a deleted counter, its lock, or a way to them:
\* Dest() and ~RefObjectBase() never delete it under another thread.
THEOREM CounterOutlivesUsersCorrect == Spec => []CounterOutlivesUsers
<1>1. Counts /\ DyingOK /\ CounterOK => CounterOutlivesUsers
  <2> SUFFICES ASSUME Counts, NEW o \in Objects \ resurrected, Dying(o), CounterKept(o),
                      counter[o] = "deleted"
               PROVE  /\ Counted(o) = {} /\ Carried(o) = {} /\ content_lock[o] = "free"
                      /\ \A t \in Threads : pc[t] = "dtor" => op[t].victim # o
    BY DEF CounterOutlivesUsers, DyingOK, CounterOK
  <2>1. Gone(o) /\ content_lock[o] = "free"
    BY DEF CounterKept
  <2>2. /\ IsFiniteSet(Counted(o)) /\ IsFiniteSet(Carried(o))
        /\ Cardinality(Counted(o)) \in Nat /\ Cardinality(Carried(o)) \in Nat
    BY FiniteCounts, FS_CardinalityType
  <2>3. lost[o] \in Nat /\ 0 = Cardinality(Counted(o)) + Cardinality(Carried(o)) + lost[o]
    BY <2>1 DEF Gone, Counts, Shape, WeakCountExact
  <2>4. Cardinality(Counted(o)) = 0 /\ Cardinality(Carried(o)) = 0
    BY <2>2, <2>3
  <2>5. Counted(o) = {} /\ Carried(o) = {}
    BY <2>2, <2>4, FS_EmptySet
  <2> QED
    BY <2>1, <2>5 DEF Gone, Dying
<1> QED
  BY <1>1, OwnersCorrect, WeakCountExactCorrect, RefCountExactCorrect,
     DyingInvariant, PTL
     DEF Counts

\* The counter of a deleted object is counted in a pointer, carried by an
\* assignment, or about to be deleted, unless a reference to it was lost: Dest()
\* and ~RefObjectBase() never leave the deletion to each other.
THEOREM NoCounterLeakCorrect == Spec => []NoCounterLeak
<1>1. Counts /\ DyingOK /\ CounterOK => NoCounterLeak
  <2> SUFFICES ASSUME Counts, NEW o \in Objects \ resurrected, Dying(o), CounterKept(o),
                      object[o] = "deleted", counter[o] = "alive", lost[o] = 0
               PROVE  \/ Counted(o) # {} \/ Carried(o) # {}
                      \/ \E t \in Threads : /\ pc[t] \in {"destUnlock", "destClear"}
                                           /\ op[t].must_delete_count
                                           /\ m_weak_count[op[t].dst] = o
    BY DEF NoCounterLeak, DyingOK, CounterOK
  <2>2. CASE weak_count[o] # 0
    <3>1. weak_count[o] = Cardinality(Counted(o)) + Cardinality(Carried(o)) + 0
      BY DEF Counts, WeakCountExact
    <3>2. Cardinality({}) = 0
      BY FS_EmptySet
    <3>3. CASE Counted(o) = {} /\ Carried(o) = {}
      BY <2>2, <3>1, <3>2, <3>3
    <3> QED
      BY <3>3
  <2>3. CASE weak_count[o] = 0
    <3>1. ~ref_object[o]
      BY DEF Dying
    <3>2. PICK t \in Threads : Pending(t, o)
      BY <2>3, <3>1 DEF CounterKept
    <3>3. op[t].victim # o
      BY DEF Dying
    <3> QED
      BY <3>2, <3>3 DEF Pending, Leaving
  <2> QED
    BY <2>2, <2>3
<1> QED
  BY <1>1, OwnersCorrect, WeakCountExactCorrect, RefCountExactCorrect,
     DyingInvariant, PTL
     DEF Counts

\* Every variable keeps its type, and no count ever drops below 0.
THEOREM TypeCorrect == Spec => []TypeOK
<1>1. Shape /\ WeakCountExact /\ RefCountExact /\ resurrected \subseteq Objects => TypeOK
  <2> SUFFICES ASSUME Shape, WeakCountExact, RefCountExact, resurrected \subseteq Objects
               PROVE  TypeOK
    OBVIOUS
  <2>1. \A o \in Objects : weak_count[o] \in Nat
    BY WeakNat
  <2>2. \A o \in Objects : ref_count[o] \in Nat
    BY FinitePointing, FS_CardinalityType DEF RefCountExact
  <2>3. weak_count \in [Objects -> Nat] /\ ref_count \in [Objects -> Nat]
    BY <2>1, <2>2 DEF Shape
  <2> QED
    BY <2>3 DEF Shape, TypeOK
<1> QED
  BY <1>1, OwnersCorrect, WeakCountExactCorrect, RefCountExactCorrect, PTL
=============================================================================
