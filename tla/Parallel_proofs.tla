--------------------------- MODULE Parallel_proofs ---------------------------
(* Machine-checked proofs about Parallel, for any number of workers, any    *)
(* finite set of callers, any ranges, and any number of loops and           *)
(* exceptions.                                                              *)
EXTENDS Parallel, FiniteSetTheorems, TLAPS

InLoop == {"submit", "remainder", "wait"}

Frames == [joins : BOOLEAN, a : Nat, b : Nat, works_per_thread : Nat,
           remainder_works : Nat, worked_thread_count : Int, next : Nat]

\* The types alone: that worked_thread_count stays above 0 is a theorem.
Shape ==
  /\ queue \in [Workers -> Seq(Tasks)]
  /\ running \in [Workers -> Tasks \cup {NoTask}]
  /\ workerPc \in [Workers -> {"idle", "run", "countOff", "finish", "restart"}]
  /\ completed \in [Workers -> BOOLEAN]
  /\ callerPc \in [Callers -> InLoop \cup {"idle", "whole", "poll"}]
  /\ frame \in [Callers -> Frames]
  /\ submitted \in [Workers -> Nat] /\ finished \in [Workers -> SUBSET Nat]
  /\ calls \in [Callers -> Seq(Ranges)]
  /\ done \in [CallIds -> [Indices -> Nat]]
  /\ failed \subseteq CallIds /\ joined \subseteq CallIds /\ throws \in Nat
  /\ \A c \in Callers :
       /\ Len(calls[c]) <= MaxCalls
       /\ callerPc[c] \in InLoop \cup {"whole"} => Len(calls[c]) > 0
  /\ \A w \in Workers :
       workerPc[w] \in {"run", "countOff", "finish"} => running[w] \in Tasks

\* func adds one to every index from a to b - 1.
LEMMA FuncAdds ==
  ASSUME done \in [CallIds -> [Indices -> Nat]], NEW call \in CallIds, NEW a, NEW b,
         Func(call, a, b)
  PROVE  /\ done' \in [CallIds -> [Indices -> Nat]]
         /\ \A k \in CallIds, i \in Indices :
              done'[k][i] = IF k = call /\ i \in a .. (b - 1) THEN done[k][i] + 1
                                                            ELSE done[k][i]
  BY DEF Func

\* A caller inside a loop has a call to its name.
LEMMA CurrentIsCall ==
  ASSUME Shape, NEW c \in Callers, callerPc[c] \in InLoop \cup {"whole"}
  PROVE  Current(c) \in CallIds /\ Len(calls[c]) \in 1 .. MaxCalls
<1>1. Len(calls[c]) \in Nat /\ Len(calls[c]) <= MaxCalls /\ Len(calls[c]) > 0
  BY DEF Shape
<1> QED
  BY <1>1, ParallelAssumption DEF Current, CallIds

\* A caller that begins a loop has room for one more.
LEMMA CallsBound ==
  ASSUME Shape, NEW c \in Callers, Cardinality(Started) < MaxCalls
  PROVE  Len(calls[c]) < MaxCalls
<1>1. Len(calls[c]) \in Nat /\ Len(calls[c]) <= MaxCalls /\ MaxCalls \in Nat
  BY ParallelAssumption DEF Shape
<1>2. SUFFICES ASSUME Len(calls[c]) = MaxCalls
               PROVE  FALSE
  BY <1>1
<1> DEFINE S == {c} \X (1 .. MaxCalls)
<1>3. S \subseteq Started
  BY <1>2 DEF Started, CallIds
<1>4. IsFiniteSet(Started)
  <2>1. IsFiniteSet(1 .. MaxCalls)
    BY <1>1, FS_Interval
  <2>2. IsFiniteSet(CallIds)
    BY <2>1, FS_Product, ParallelAssumption DEF CallIds
  <2> QED
    BY <2>2, FS_Subset DEF Started
<1>5. Cardinality(S) = MaxCalls
  <2>1. IsFiniteSet({c}) /\ Cardinality({c}) = 1
    BY FS_Singleton
  <2>2. IsFiniteSet(1 .. MaxCalls) /\ Cardinality(1 .. MaxCalls) = MaxCalls
    BY <1>1, FS_Interval
  <2>3. Cardinality(S) = Cardinality({c}) * Cardinality(1 .. MaxCalls)
    BY <2>1, <2>2, FS_Product
  <2> QED
    BY <1>1, <2>1, <2>2, <2>3
<1>6. Cardinality(S) <= Cardinality(Started) /\ Cardinality(Started) \in Nat
  BY <1>3, <1>4, FS_Subset, FS_CardinalityType
<1> QED
  BY <1>1, <1>5, <1>6

\* The numbers of a loop.
LEMMA SliceSizes ==
  ASSUME NEW r \in Ranges, r[2] - r[1] > 0
  PROVE  /\ r[1] \in Nat /\ r[2] \in Nat
         /\ (r[2] - r[1]) \div (NumWorkers + 1) \in Nat
         /\ (r[2] - r[1]) % (NumWorkers + 1) \in Nat
         /\ r[2] - r[1] = ((r[2] - r[1]) \div (NumWorkers + 1)) * (NumWorkers + 1)
                            + ((r[2] - r[1]) % (NumWorkers + 1))
<1>1. r[1] \in Nat /\ r[2] \in Nat /\ NumWorkers \in Nat \ {0}
  BY ParallelAssumption
<1>2. ASSUME NEW n \in Nat, NEW m \in Nat \ {0}
      PROVE  n \div m \in Nat /\ n % m \in Nat /\ n = (n \div m) * m + (n % m)
  OBVIOUS
<1>3. r[2] - r[1] \in Nat /\ NumWorkers + 1 \in Nat \ {0}
  BY <1>1
<1> QED
  BY <1>1, <1>2, <1>3

\* The locals keep their types.
LEMMA FrameTypes ==
  ASSUME NEW f \in Frames
  PROVE  /\ NextSlice(f) \in Frames /\ CountOffOne(f) \in Frames
         /\ [f EXCEPT !.next = @ + 1] \in Frames
         /\ NoFrame \in Frames /\ [NoFrame EXCEPT !.next = 1] \in Frames
<1>1. NextSlice(f) \in Frames
  <2>1. f.a \in Nat /\ f.works_per_thread \in Nat /\ f.next \in Nat
    BY DEF Frames
  <2>2. /\ f.a + f.works_per_thread \in Nat /\ f.a + 2 * f.works_per_thread \in Nat
        /\ f.next + 1 \in Nat
    BY <2>1
  <2> QED
    BY <2>2 DEF NextSlice, Frames
<1>2. CountOffOne(f) \in Frames
  BY DEF CountOffOne, Frames
<1>3. [f EXCEPT !.next = @ + 1] \in Frames
  BY DEF Frames
<1>4. NoFrame \in Frames
  BY DEF NoFrame, Frames
<1>5. [NoFrame EXCEPT !.next = 1] \in Frames
  BY <1>4 DEF Frames
<1> QED
  BY <1>1, <1>2, <1>3, <1>4, <1>5

\* The counts of func keep their type.
LEMMA FuncTypes ==
  ASSUME Shape, NEW call \in CallIds, NEW a, NEW b, Func(call, a, b)
  PROVE  done' \in [CallIds -> [Indices -> Nat]]
  BY FuncAdds DEF Shape

\* The caller's steps keep the types.
LEMMA CallerShape ==
  ASSUME Shape, NEW c \in Callers,
         \/ \E joins \in BOOLEAN, r \in Ranges : ParallelFor(c, joins, r)
         \/ IsCompleted(c) \/ CallerStep(c) \/ CallerThrows(c)
  PROVE  Shape'
<1> USE DEF CallerGoto, Return, workerVars, historyVars
<1>1. frame[c] \in Frames /\ NoFrame \in Frames /\ [NoFrame EXCEPT !.next = 1] \in Frames
      /\ [frame[c] EXCEPT !.next = @ + 1] \in Frames /\ NextSlice(frame[c]) \in Frames
  BY FrameTypes DEF Shape
<1>2. ASSUME NEW joins \in BOOLEAN, NEW r \in Ranges, ParallelFor(c, joins, r)
      PROVE  Shape'
  <2> DEFINE per == (r[2] - r[1]) \div (NumWorkers + 1)
             rem == (r[2] - r[1]) % (NumWorkers + 1)
  <2>1. /\ r[1] \in Nat /\ r[2] \in Nat /\ per \in Nat /\ rem \in Nat
        /\ NumWorkers \in Nat
    BY <1>2, SliceSizes, ParallelAssumption DEF ParallelFor
  <2>2. Len(calls[c]) < MaxCalls /\ Len(calls[c]) \in Nat /\ MaxCalls \in Nat
    <3>1. Cardinality(Started) < MaxCalls
      BY <1>2 DEF ParallelFor
    <3>2. Len(calls[c]) < MaxCalls
      BY <3>1, CallsBound
    <3>3. Len(calls[c]) \in Nat /\ MaxCalls \in Nat
      BY ParallelAssumption DEF Shape
    <3> QED
      BY <3>2, <3>3
  <2>3. /\ frame' = [frame EXCEPT ![c] =
             [joins |-> joins, next |-> 1, works_per_thread |-> per, a |-> r[1],
              b |-> IF per > 0 THEN r[1] + per ELSE r[2],
              remainder_works |-> rem, worked_thread_count |-> NumWorkers]]
        /\ calls' = [calls EXCEPT ![c] = Append(@, r)]
        /\ callerPc' = [callerPc EXCEPT ![c] = IF per > 0 THEN "submit" ELSE "whole"]
        /\ UNCHANGED <<queue, running, workerPc, completed, submitted, finished,
                       joined, done, failed, throws>>
    BY <1>2 DEF ParallelFor
  <2> HIDE DEF per, rem
  <2>4. frame' \in [Callers -> Frames]
    <3>1. [joins |-> joins, next |-> 1, works_per_thread |-> per, a |-> r[1],
           b |-> IF per > 0 THEN r[1] + per ELSE r[2],
           remainder_works |-> rem, worked_thread_count |-> NumWorkers] \in Frames
      BY <2>1 DEF Frames
    <3> QED
      BY <2>3, <3>1 DEF Shape
  <2>5. /\ calls' \in [Callers -> Seq(Ranges)]
        /\ Len(calls'[c]) = Len(calls[c]) + 1
        /\ \A d \in Callers \ {c} : calls'[d] = calls[d] /\ callerPc'[d] = callerPc[d]
    BY <2>3 DEF Shape
  <2>6. \A d \in Callers :
          /\ Len(calls'[d]) <= MaxCalls
          /\ callerPc'[d] \in InLoop \cup {"whole"} => Len(calls'[d]) > 0
    <3> TAKE d \in Callers
    <3>1. CASE d = c
      BY <2>2, <2>5, <3>1
    <3>2. CASE d # c
      BY <2>5, <3>2 DEF Shape
    <3> QED
      BY <3>1, <3>2
  <2>7. callerPc' \in [Callers -> InLoop \cup {"idle", "whole", "poll"}]
    BY <2>3 DEF Shape, InLoop
  <2> QED
    BY <2>3, <2>4, <2>5, <2>6, <2>7 DEF Shape
<1>3. CASE Submit(c)
  <2> DEFINE task == [id |-> submitted[frame[c].next] + 1, call |-> Current(c),
                      a |-> frame[c].a, b |-> frame[c].b, joins |-> frame[c].joins]
  <2>1. callerPc[c] = "submit" /\ frame[c].next \in Workers
    BY <1>3 DEF Submit
  <2>2. task \in Tasks
    <3>1. Current(c) \in CallIds
      BY <2>1, CurrentIsCall DEF InLoop
    <3>2. frame[c].a \in Nat /\ frame[c].b \in Nat /\ frame[c].joins \in BOOLEAN
      BY <1>1 DEF Frames
    <3>3. submitted[frame[c].next] + 1 \in Nat
      BY <2>1 DEF Shape
    <3> QED
      BY <3>1, <3>2, <3>3 DEF Tasks
  <2> HIDE DEF task
  <2>3. /\ queue' = [queue EXCEPT ![frame[c].next] = Append(@, task)]
        /\ completed' = [completed EXCEPT ![frame[c].next] = FALSE]
        /\ submitted' = [submitted EXCEPT ![frame[c].next] = @ + 1]
        /\ frame' = [frame EXCEPT ![c] = NextSlice(@)]
        /\ UNCHANGED <<running, workerPc, finished, callerPc, calls, joined,
                       done, failed, throws>>
    BY <1>3 DEF Submit, PushBack, task
  <2>4. queue' \in [Workers -> Seq(Tasks)]
    BY <2>1, <2>2, <2>3 DEF Shape
  <2> QED
    BY <1>1, <2>1, <2>3, <2>4 DEF Shape
<1>4. CASE Whole(c)
  <2>1. Current(c) \in CallIds
    BY <1>4, CurrentIsCall DEF Whole, InLoop
  <2>2. done' \in [CallIds -> [Indices -> Nat]]
    BY <1>4, <2>1, FuncTypes DEF Whole
  <2> QED
    BY <1>1, <1>4, <2>1, <2>2 DEF Whole, Shape
<1>5. CASE OwnSlice(c)
  <2>1. Current(c) \in CallIds
    BY <1>5, CurrentIsCall DEF OwnSlice, InLoop
  <2>2. done' \in [CallIds -> [Indices -> Nat]]
    BY <1>5, <2>1, FuncTypes DEF OwnSlice
  <2> QED
    BY <1>5, <2>2 DEF OwnSlice, InLoop, Shape
<1>6. CASE Remainder(c)
  <2>1. Current(c) \in CallIds
    BY <1>6, CurrentIsCall DEF Remainder, InLoop
  <2>2. done' \in [CallIds -> [Indices -> Nat]]
    BY <1>6, <2>1, FuncTypes DEF Remainder
  <2> QED
    BY <1>6, <2>2 DEF Remainder, InLoop, Shape
<1>7. CASE CallerThrows(c)
  <2>1. callerPc[c] \in InLoop \cup {"whole"}
    BY <1>7 DEF CallerThrows, InLoop
  <2>2. Current(c) \in CallIds
    BY <2>1, CurrentIsCall
  <2>3. /\ callerPc' = [callerPc EXCEPT ![c] = "idle"]
        /\ frame' = [frame EXCEPT ![c] = NoFrame]
        /\ throws' = throws + 1 /\ failed' = failed \cup {Current(c)}
        /\ UNCHANGED <<queue, running, workerPc, completed, submitted, finished,
                       calls, joined, done>>
    BY <1>7 DEF CallerThrows
  <2>4. \A d \in Callers : callerPc'[d] = callerPc[d] \/ callerPc'[d] = "idle"
    BY <2>3 DEF Shape
  <2>5. /\ callerPc' \in [Callers -> InLoop \cup {"idle", "whole", "poll"}]
        /\ frame' \in [Callers -> Frames] /\ throws' \in Nat /\ failed' \subseteq CallIds
    BY <1>1, <2>2, <2>3 DEF Shape
  <2> QED
    BY <2>3, <2>4, <2>5 DEF Shape, InLoop
<1>8. CASE Wait(c)
  <2>1. joined' \subseteq CallIds
    BY <1>8 DEF Wait, CallsOf, Started, Shape
  <2> QED
    BY <1>1, <1>8, <2>1 DEF Wait, Shape
<1>9. CASE IsCompleted(c)
  BY <1>1, <1>9 DEF IsCompleted, InLoop, Shape
<1>10. CASE PollNext(c)
  <2>1. CASE completed[frame[c].next]
    BY <1>1, <1>10, <2>1 DEF PollNext, Shape
  <2>2. CASE ~completed[frame[c].next]
    <3>1. /\ callerPc' = [callerPc EXCEPT ![c] = "idle"]
          /\ frame' = [frame EXCEPT ![c] = NoFrame]
          /\ UNCHANGED <<queue, running, workerPc, completed, submitted, finished,
                         calls, joined, done, failed, throws>>
      BY <1>10, <2>2 DEF PollNext
    <3> QED
      BY <1>1, <3>1 DEF Shape, InLoop
  <2> QED
    BY <2>1, <2>2
<1>11. CASE PollTrue(c)
  <2>1. joined' \subseteq CallIds
    BY <1>11 DEF PollTrue, CallsOf, Started, Shape
  <2> QED
    <3>1. /\ callerPc' = [callerPc EXCEPT ![c] = "idle"]
          /\ frame' = [frame EXCEPT ![c] = NoFrame]
          /\ UNCHANGED <<queue, running, workerPc, completed, submitted, finished,
                         calls, done, failed, throws>>
      BY <1>11 DEF PollTrue
    <3> QED
      BY <1>1, <2>1, <3>1 DEF Shape, InLoop
<1> HIDE DEF CallerGoto, Return, workerVars, historyVars
<1> QED
  BY <1>2, <1>3, <1>4, <1>5, <1>6, <1>7, <1>8, <1>9, <1>10, <1>11 DEF CallerStep

\* The steps of a worker keep the types.
LEMMA WorkerShape ==
  ASSUME Shape, NEW w \in Workers, WorkerStep(w) \/ WorkerThrows(w)
  PROVE  Shape'
<1> USE DEF WorkerGoto, callerVars, historyVars
<1>2. CASE Take(w)
  <2>1. queue[w] \in Seq(Tasks) /\ queue[w] # <<>>
    BY <1>2 DEF Take, Shape
  <2>2. Head(queue[w]) \in Tasks /\ Tail(queue[w]) \in Seq(Tasks)
    BY <2>1
  <2> QED
    BY <1>2, <2>2 DEF Take, Shape
<1>3. CASE Run(w)
  <2>1. done' \in [CallIds -> [Indices -> Nat]]
    BY <1>3, FuncTypes DEF Run, Shape, Tasks
  <2> QED
    BY <1>3, <2>1 DEF Run, Shape
<1>4. CASE CountOff(w)
  <2> DEFINE c == running[w].call[1]
  <2>1. ASSUME c \in Callers
        PROVE  [frame EXCEPT ![c] = CountOffOne(@)] \in [Callers -> Frames]
    BY <2>1, FrameTypes DEF Shape
  <2>2. c \notin Callers => [frame EXCEPT ![c] = CountOffOne(@)] = frame
    BY DEF Shape
  <2>3. frame' \in [Callers -> Frames]
    BY <1>4, <2>1, <2>2 DEF CountOff, Shape
  <2> QED
    BY <1>4, <2>3 DEF CountOff, Shape
<1>5. CASE Finish(w)
  <2>1. running[w].id \in Nat
    <3>1. running[w] \in Tasks \cup {NoTask}
      BY DEF Shape
    <3> QED
      BY <3>1 DEF Tasks, NoTask
  <2> QED
    BY <1>5, <2>1 DEF Finish, Shape
<1>6. CASE WorkerThrows(w)
  <2>1. running[w] \in Tasks
    BY <1>6 DEF WorkerThrows, Shape
  <2>2. running[w].call \in CallIds
    BY <2>1 DEF Tasks
  <2> QED
    BY <1>6, <2>2 DEF WorkerThrows, Shape
<1>7. CASE Restart(w)
  <2>1. failed' \subseteq CallIds
    <3>1. \A t \in Range(queue[w]) : t \in Tasks
      BY DEF Shape, Range
    <3>2. \A t \in Range(queue[w]) : t.call \in CallIds
      BY <3>1 DEF Tasks
    <3> QED
      BY <1>7, <3>2 DEF Restart, Shape
  <2> QED
    BY <1>7, <2>1 DEF Restart, Shape
<1> HIDE DEF WorkerGoto, callerVars, historyVars
<1> QED
  BY <1>2, <1>3, <1>4, <1>5, <1>6, <1>7 DEF WorkerStep

\* The tasks that a worker has not run, and those that it has not counted off.
Queued(w) == Range(queue[w])
Todo(w) == Queued(w) \cup {t \in {running[w]} : workerPc[w] = "run"}
Owed(w) == Queued(w) \cup {t \in {running[w]} : workerPc[w] \in {"run", "countOff"}}

Sorted(q) == \A i, j \in DOMAIN q : i < j => q[i].id < q[j].id

\* What a worker has is in the order in which it was given.
WorkerOK(w) ==
  /\ Sorted(queue[w])
  /\ \A t \in Queued(w) : running[w].id < t.id /\ t.id <= submitted[w]
  /\ workerPc[w] \in {"idle", "restart"} <=> running[w] = NoTask
  /\ running[w].id <= submitted[w]
  /\ running[w] # NoTask => running[w].id > 0
  /\ workerPc[w] = "countOff" => running[w].joins
  /\ completed[w] => queue[w] = <<>> /\ workerPc[w] = "idle"

\* The tasks of one caller are in the order of its calls.
TasksOK(w) ==
  /\ \A t \in Owed(w) : t.call \in Started
  /\ \A t, u \in Owed(w) :
       t.call[1] = u.call[1] /\ t.id < u.id => t.call[2] < u.call[2]

\* The oldest task is taken from the front of a queue.
LEMMA SortedTail ==
  ASSUME NEW q \in Seq(Tasks), q # <<>>, Sorted(q)
  PROVE  /\ Range(q) = {Head(q)} \cup Range(Tail(q)) /\ Head(q) \in Range(q)
         /\ \A t \in Range(Tail(q)) : Head(q).id < t.id
         /\ Sorted(Tail(q)) /\ Head(q) \in Tasks /\ Head(q) \notin Range(Tail(q))
<1>1. /\ Len(q) \in Nat /\ Len(q) > 0 /\ DOMAIN q = 1 .. Len(q)
      /\ Head(q) = q[1] /\ q[1] \in Tasks /\ Tail(q) \in Seq(Tasks)
      /\ DOMAIN Tail(q) = 1 .. (Len(q) - 1)
      /\ \A i \in 1 .. (Len(q) - 1) : Tail(q)[i] = q[i + 1]
  OBVIOUS
<1>2. Range(Tail(q)) = {q[i] : i \in 2 .. Len(q)}
  <2>1. ASSUME NEW i \in 2 .. Len(q)
        PROVE  q[i] \in Range(Tail(q))
    <3>1. i - 1 \in 1 .. (Len(q) - 1) /\ (i - 1) + 1 = i
      BY <1>1, <2>1
    <3>2. Tail(q)[i - 1] = q[i]
      BY <1>1, <3>1
    <3> QED
      BY <1>1, <3>1, <3>2 DEF Range
  <2>2. ASSUME NEW i \in 1 .. (Len(q) - 1)
        PROVE  Tail(q)[i] \in {q[j] : j \in 2 .. Len(q)}
    <3>1. i + 1 \in 2 .. Len(q)
      BY <1>1
    <3> QED
      BY <1>1, <3>1
  <2> QED
    BY <1>1, <2>1, <2>2 DEF Range
<1>3. Range(q) = {q[1]} \cup {q[i] : i \in 2 .. Len(q)}
  <2>1. 1 .. Len(q) = {1} \cup 2 .. Len(q)
    BY <1>1
  <2> QED
    BY <1>1, <2>1 DEF Range
<1>4. \A i \in 2 .. Len(q) : q[1].id < q[i].id
  BY <1>1 DEF Sorted
<1>5. \A t \in Range(Tail(q)) : Head(q).id < t.id
  BY <1>1, <1>2, <1>4
<1>6. Sorted(Tail(q))
  <2> SUFFICES ASSUME NEW i \in 1 .. (Len(q) - 1), NEW j \in 1 .. (Len(q) - 1), i < j
               PROVE  Tail(q)[i].id < Tail(q)[j].id
    BY <1>1 DEF Sorted
  <2>1. i + 1 \in 1 .. Len(q) /\ j + 1 \in 1 .. Len(q) /\ i + 1 < j + 1
    BY <1>1
  <2>2. q[i + 1].id < q[j + 1].id
    BY <1>1, <2>1 DEF Sorted
  <2> QED
    BY <1>1, <2>2
<1>7. Head(q).id \in Nat
  BY <1>1 DEF Tasks
<1> QED
  BY <1>1, <1>2, <1>3, <1>5, <1>6, <1>7

\* A new task goes to the back.
LEMMA SortedAppend ==
  ASSUME NEW q \in Seq(Tasks), NEW e \in Tasks, Sorted(q),
         \A t \in Range(q) : t.id < e.id
  PROVE  Range(Append(q, e)) = Range(q) \cup {e} /\ Sorted(Append(q, e))
<1> DEFINE p == Append(q, e)
<1>1. /\ Len(q) \in Nat /\ DOMAIN q = 1 .. Len(q) /\ DOMAIN p = 1 .. (Len(q) + 1)
      /\ \A i \in 1 .. Len(q) : p[i] = q[i]
      /\ p[Len(q) + 1] = e
  OBVIOUS
<1>2. 1 .. (Len(q) + 1) = (1 .. Len(q)) \cup {Len(q) + 1}
  BY <1>1
<1> HIDE DEF p
<1>3. Range(p) = Range(q) \cup {e}
  BY <1>1, <1>2 DEF Range
<1>4. Sorted(p)
  <2> SUFFICES ASSUME NEW i \in 1 .. (Len(q) + 1), NEW j \in 1 .. (Len(q) + 1), i < j
               PROVE  p[i].id < p[j].id
    BY <1>1 DEF Sorted
  <2>1. i \in 1 .. Len(q)
    BY <1>1
  <2>2. CASE j = Len(q) + 1
    BY <1>1, <2>1, <2>2 DEF Range
  <2>3. CASE j # Len(q) + 1
    <3>1. j \in 1 .. Len(q)
      BY <1>1, <2>3
    <3> QED
      BY <1>1, <2>1, <3>1 DEF Sorted
  <2> QED
    BY <2>2, <2>3
<1> QED
  BY <1>3, <1>4 DEF p

WorkersOK == \A w \in Workers : WorkerOK(w)

\* What a worker has left, seen as sets.
LEMMA Members ==
  ASSUME Shape, NEW w \in Workers
  PROVE  /\ queue[w] \in Seq(Tasks) /\ Queued(w) \subseteq Tasks
         /\ running[w] \in Tasks \cup {NoTask} /\ NoTask \notin Tasks
         /\ Todo(w) \subseteq Tasks /\ Owed(w) \subseteq Tasks
         /\ Queued(w) \subseteq Todo(w) /\ Todo(w) \subseteq Owed(w)
<1>1. queue[w] \in Seq(Tasks) /\ running[w] \in Tasks \cup {NoTask}
  BY DEF Shape
<1>2. Queued(w) \subseteq Tasks
  BY <1>1 DEF Queued, Range
<1>3. NoTask \notin Tasks
  <2> SUFFICES ASSUME NoTask \in Tasks
               PROVE  FALSE
    OBVIOUS
  <2>1. NoTask.call \in CallIds /\ NoTask.call = <<>>
    BY DEF Tasks, NoTask
  <2>2. <<>> \in Callers \X (1 .. MaxCalls)
    BY <2>1 DEF CallIds
  <2> QED
    BY <2>2
<1> QED
  BY <1>1, <1>2, <1>3 DEF Todo, Owed, Shape

\* Who runs something has it, and nobody has it twice.
LEMMA RunningIsNext ==
  ASSUME Shape, WorkersOK, NEW w \in Workers
  PROVE  running[w] \notin Queued(w)
<1>1. \A t \in Queued(w) : running[w].id < t.id /\ t.id \in Nat
  BY Members DEF WorkersOK, WorkerOK, Tasks
<1> QED
  BY <1>1

SameTasks(w) ==
  Queued(w)' = Queued(w) /\ Todo(w)' = Todo(w) /\ Owed(w)' = Owed(w)

\* What a worker has depends on its queue and on what it runs.
LEMMA SameTasksIf ==
  ASSUME NEW w, queue'[w] = queue[w], running'[w] = running[w], workerPc'[w] = workerPc[w]
  PROVE  SameTasks(w)
  BY DEF SameTasks, Queued, Todo, Owed

\* A worker takes the oldest of what it has.
LEMMA TakeEffect ==
  ASSUME Shape, WorkersOK, NEW w \in Workers, Take(w)
  PROVE  /\ Todo(w)' = Todo(w) /\ Owed(w)' = Owed(w)
         /\ Queued(w)' = Queued(w) \ {running'[w]} /\ running'[w] \in Queued(w)
         /\ WorkerOK(w)'
         /\ \A v \in Workers \ {w} : SameTasks(v) /\ (WorkerOK(v) => WorkerOK(v)')
<1>1. /\ queue[w] \in Seq(Tasks) /\ queue[w] # <<>> /\ Sorted(queue[w])
      /\ running' = [running EXCEPT ![w] = Head(queue[w])]
      /\ queue' = [queue EXCEPT ![w] = Tail(queue[w])]
      /\ workerPc[w] = "idle" /\ workerPc' = [workerPc EXCEPT ![w] = "run"]
      /\ UNCHANGED <<completed, submitted>>
  BY DEF Take, WorkerGoto, Shape, WorkersOK, WorkerOK
<1>2. /\ queue'[w] = Tail(queue[w]) /\ running'[w] = Head(queue[w])
      /\ workerPc'[w] = "run"
      /\ \A v \in Workers \ {w} : queue'[v] = queue[v] /\ running'[v] = running[v]
                                   /\ workerPc'[v] = workerPc[v]
  BY <1>1 DEF Shape
<1>3. /\ Queued(w) = {running'[w]} \cup Range(Tail(queue[w]))
      /\ \A t \in Range(Tail(queue[w])) : running'[w].id < t.id
      /\ Sorted(Tail(queue[w])) /\ running'[w] \in Tasks
      /\ running'[w] \notin Range(Tail(queue[w]))
  BY <1>1, <1>2, SortedTail DEF Queued
<1>4. Queued(w)' = Range(Tail(queue[w]))
  BY <1>2 DEF Queued
<1>5. Todo(w)' = Queued(w)' \cup {running'[w]} /\ Owed(w)' = Queued(w)' \cup {running'[w]}
  BY <1>2 DEF Todo, Owed
<1>6. Todo(w) = Queued(w) /\ Owed(w) = Queued(w)
  BY <1>1 DEF Todo, Owed
<1>7. ASSUME NEW v \in Workers \ {w}
      PROVE  SameTasks(v) /\ (WorkerOK(v) => WorkerOK(v)')
  BY <1>1, <1>2, SameTasksIf DEF WorkerOK, SameTasks
<1>8. WorkerOK(w)'
  <2>1. \A t \in Queued(w) : running[w].id < t.id /\ t.id <= submitted[w]
    BY DEF WorkersOK, WorkerOK
  <2>2. running[w] = NoTask /\ completed[w] = FALSE
    BY <1>1 DEF WorkersOK, WorkerOK, Shape
  <2>3. running'[w] \in Tasks /\ running'[w].id > 0 /\ running'[w].id <= submitted[w]
    BY <1>3, <2>1, <2>2 DEF NoTask, Tasks
  <2>4. running'[w] # NoTask
    BY <2>3, Members
  <2> QED
    BY <1>1, <1>2, <1>3, <1>4, <2>1, <2>2, <2>3, <2>4 DEF WorkerOK
<1> QED
  BY <1>3, <1>4, <1>5, <1>6, <1>7, <1>8

\* A worker that goes on with its task.
LEMMA RunEffect ==
  ASSUME Shape, WorkersOK, NEW w \in Workers, Run(w)
  PROVE  /\ running[w] \in Tasks /\ running[w] \in Todo(w)
         /\ Queued(w)' = Queued(w) /\ Todo(w)' = Todo(w) \ {running[w]}
         /\ Owed(w)' = IF running[w].joins THEN Owed(w) ELSE Owed(w) \ {running[w]}
         /\ WorkerOK(w)'
         /\ \A v \in Workers \ {w} : SameTasks(v) /\ (WorkerOK(v) => WorkerOK(v)')
<1>1. /\ workerPc[w] = "run" /\ UNCHANGED <<queue, running, completed, submitted>>
      /\ workerPc' = [workerPc EXCEPT ![w] = IF running[w].joins THEN "countOff" ELSE "finish"]
      /\ running[w] \in Tasks
  BY DEF Run, WorkerGoto, Shape
<1>2. /\ workerPc'[w] = IF running[w].joins THEN "countOff" ELSE "finish"
      /\ \A v \in Workers \ {w} : workerPc'[v] = workerPc[v]
  BY <1>1 DEF Shape
<1>3. running[w] \notin Queued(w)
  BY RunningIsNext
<1>4. Queued(w)' = Queued(w)
  BY <1>1 DEF Queued
<1>5. Todo(w)' = Todo(w) \ {running[w]} /\ running[w] \in Todo(w)
  BY <1>1, <1>2, <1>3, <1>4 DEF Todo
<1>6. Owed(w)' = IF running[w].joins THEN Owed(w) ELSE Owed(w) \ {running[w]}
  BY <1>1, <1>2, <1>3, <1>4 DEF Owed
<1>7. ASSUME NEW v \in Workers \ {w}
      PROVE  SameTasks(v) /\ (WorkerOK(v) => WorkerOK(v)')
  BY <1>1, <1>2, SameTasksIf DEF WorkerOK, SameTasks
<1>8. WorkerOK(w)'
  BY <1>1, <1>2, <1>4, Members DEF WorkersOK, WorkerOK
<1> QED
  BY <1>1, <1>4, <1>5, <1>6, <1>7, <1>8

\* Counting off is the last that a worker does for a slice.
LEMMA CountOffEffect ==
  ASSUME Shape, WorkersOK, NEW w \in Workers, CountOff(w)
  PROVE  /\ running[w] \in Tasks /\ running[w] \in Owed(w) /\ running[w].joins
         /\ Queued(w)' = Queued(w) /\ Todo(w)' = Todo(w)
         /\ Owed(w)' = Owed(w) \ {running[w]}
         /\ WorkerOK(w)'
         /\ \A v \in Workers \ {w} : SameTasks(v) /\ (WorkerOK(v) => WorkerOK(v)')
<1>1. /\ workerPc[w] = "countOff" /\ UNCHANGED <<queue, running, completed, submitted>>
      /\ workerPc' = [workerPc EXCEPT ![w] = "finish"]
      /\ running[w] \in Tasks
  BY DEF CountOff, WorkerGoto, Shape
<1>2. /\ workerPc'[w] = "finish"
      /\ \A v \in Workers \ {w} : workerPc'[v] = workerPc[v]
  BY <1>1 DEF Shape
<1>3. running[w] \notin Queued(w)
  BY RunningIsNext
<1>4. Queued(w)' = Queued(w)
  BY <1>1 DEF Queued
<1>5. Todo(w)' = Todo(w)
  BY <1>1, <1>2, <1>4 DEF Todo
<1>6. Owed(w)' = Owed(w) \ {running[w]} /\ running[w] \in Owed(w)
  BY <1>1, <1>2, <1>3, <1>4 DEF Owed
<1>7. ASSUME NEW v \in Workers \ {w}
      PROVE  SameTasks(v) /\ (WorkerOK(v) => WorkerOK(v)')
  BY <1>1, <1>2, SameTasksIf DEF WorkerOK, SameTasks
<1>8. WorkerOK(w)' /\ running[w].joins
  BY <1>1, <1>2, <1>4, Members DEF WorkersOK, WorkerOK
<1> QED
  BY <1>1, <1>4, <1>5, <1>6, <1>7, <1>8

\* Who has counted off, or need not, has nothing left of the task.
LEMMA FinishEffect ==
  ASSUME Shape, WorkersOK, NEW w \in Workers, Finish(w)
  PROVE  /\ SameTasks(w) /\ WorkerOK(w)'
         /\ \A v \in Workers \ {w} : SameTasks(v) /\ (WorkerOK(v) => WorkerOK(v)')
<1>1. /\ workerPc[w] = "finish" /\ UNCHANGED <<queue, submitted>>
      /\ workerPc' = [workerPc EXCEPT ![w] = "idle"]
      /\ running' = [running EXCEPT ![w] = NoTask]
      /\ completed' = [completed EXCEPT ![w] = completed[w] \/ queue[w] = <<>>]
  BY DEF Finish, WorkerGoto, Shape
<1>2. /\ workerPc'[w] = "idle" /\ running'[w] = NoTask
      /\ completed'[w] => completed[w] \/ queue[w] = <<>>
      /\ \A v \in Workers \ {w} : workerPc'[v] = workerPc[v] /\ running'[v] = running[v]
                                    /\ completed'[v] = completed[v]
  BY <1>1 DEF Shape
<1>4. Queued(w)' = Queued(w)
  BY <1>1 DEF Queued
<1>5. Todo(w)' = Todo(w) /\ Owed(w)' = Owed(w)
  BY <1>1, <1>2, <1>4 DEF Todo, Owed
<1>7. ASSUME NEW v \in Workers \ {w}
      PROVE  SameTasks(v) /\ (WorkerOK(v) => WorkerOK(v)')
  BY <1>1, <1>2, SameTasksIf DEF WorkerOK, SameTasks
<1>8. WorkerOK(w)'
  <2>1. \A t \in Queued(w) : t.id \in Nat /\ t.id > 0 /\ t.id <= submitted[w]
    <3>1. running[w].id \in Nat
      BY Members DEF Tasks, NoTask
    <3> QED
      BY <3>1, Members DEF WorkersOK, WorkerOK, Tasks
  <2>2. NoTask.id = 0 /\ submitted[w] \in Nat
    BY DEF NoTask, Shape
  <2>3. Sorted(queue[w]) /\ (completed[w] => queue[w] = <<>>)
    BY DEF WorkersOK, WorkerOK
  <2> QED
    BY <1>1, <1>2, <1>4, <2>1, <2>2, <2>3 DEF WorkerOK
<1> QED
  BY <1>4, <1>5, <1>7, <1>8 DEF SameTasks

\* An exception takes the task with it.
LEMMA ThrowEffect ==
  ASSUME Shape, WorkersOK, NEW w \in Workers, WorkerThrows(w)
  PROVE  /\ running[w] \in Tasks /\ running[w] \in Todo(w)
         /\ Queued(w)' = Queued(w) /\ Todo(w)' = Todo(w) \ {running[w]}
         /\ Owed(w)' = Owed(w) \ {running[w]}
         /\ WorkerOK(w)'
         /\ \A v \in Workers \ {w} : SameTasks(v) /\ (WorkerOK(v) => WorkerOK(v)')
<1>1. /\ workerPc[w] = "run" /\ UNCHANGED <<queue, submitted, completed>>
      /\ workerPc' = [workerPc EXCEPT ![w] = "restart"]
      /\ running' = [running EXCEPT ![w] = NoTask]
      /\ running[w] \in Tasks
  BY DEF WorkerThrows, WorkerGoto, Shape
<1>2. /\ workerPc'[w] = "restart" /\ running'[w] = NoTask
      /\ \A v \in Workers \ {w} : workerPc'[v] = workerPc[v] /\ running'[v] = running[v]
  BY <1>1 DEF Shape
<1>3. running[w] \notin Queued(w)
  BY RunningIsNext
<1>4. Queued(w)' = Queued(w)
  BY <1>1 DEF Queued
<1>5. Todo(w)' = Todo(w) \ {running[w]} /\ running[w] \in Todo(w)
  BY <1>1, <1>2, <1>3, <1>4 DEF Todo
<1>6. Owed(w)' = Owed(w) \ {running[w]}
  BY <1>1, <1>2, <1>3, <1>4 DEF Owed
<1>7. ASSUME NEW v \in Workers \ {w}
      PROVE  SameTasks(v) /\ (WorkerOK(v) => WorkerOK(v)')
  BY <1>1, <1>2, SameTasksIf DEF WorkerOK, SameTasks
<1>8. WorkerOK(w)'
  <2>1. \A t \in Queued(w) : t.id \in Nat /\ t.id > 0 /\ t.id <= submitted[w]
    <3>1. running[w].id \in Nat
      BY Members DEF Tasks, NoTask
    <3> QED
      BY <3>1, Members DEF WorkersOK, WorkerOK, Tasks
  <2>2. NoTask.id = 0 /\ submitted[w] \in Nat
    BY DEF NoTask, Shape
  <2>3. Sorted(queue[w]) /\ ~completed[w]
    BY <1>1 DEF WorkersOK, WorkerOK
  <2> QED
    BY <1>1, <1>2, <1>4, <2>1, <2>2, <2>3 DEF WorkerOK
<1> QED
  BY <1>1, <1>4, <1>5, <1>6, <1>7, <1>8

\* And what is queued behind it.
LEMMA RestartEffect ==
  ASSUME Shape, WorkersOK, NEW w \in Workers, Restart(w)
  PROVE  /\ Owed(w) = Queued(w) /\ Todo(w) = Queued(w)
         /\ Queued(w)' = {} /\ Todo(w)' = {} /\ Owed(w)' = {}
         /\ WorkerOK(w)'
         /\ \A v \in Workers \ {w} : SameTasks(v) /\ (WorkerOK(v) => WorkerOK(v)')
<1>1. /\ workerPc[w] = "restart" /\ UNCHANGED <<running, submitted>>
      /\ workerPc' = [workerPc EXCEPT ![w] = "idle"]
      /\ queue' = [queue EXCEPT ![w] = <<>>]
      /\ completed' = [completed EXCEPT ![w] = TRUE]
  BY DEF Restart, WorkerGoto, Shape
<1>2. /\ workerPc'[w] = "idle" /\ queue'[w] = <<>>
      /\ \A v \in Workers \ {w} : workerPc'[v] = workerPc[v] /\ queue'[v] = queue[v]
                                    /\ completed'[v] = completed[v]
  BY <1>1 DEF Shape
<1>4. Queued(w)' = {}
  BY <1>2 DEF Queued, Range
<1>5. Todo(w)' = {} /\ Owed(w)' = {} /\ Owed(w) = Queued(w) /\ Todo(w) = Queued(w)
  BY <1>1, <1>2, <1>4 DEF Todo, Owed
<1>7. ASSUME NEW v \in Workers \ {w}
      PROVE  SameTasks(v) /\ (WorkerOK(v) => WorkerOK(v)')
  BY <1>1, <1>2, SameTasksIf DEF WorkerOK, SameTasks
<1>8. WorkerOK(w)'
  <2>1. running[w] = NoTask /\ running'[w] = NoTask
    BY <1>1 DEF WorkersOK, WorkerOK
  <2>2. NoTask.id = 0 /\ submitted[w] \in Nat
    BY DEF NoTask, Shape
  <2>3. Sorted(<<>>)
    BY DEF Sorted
  <2> QED
    BY <1>1, <1>2, <1>4, <2>1, <2>2, <2>3 DEF WorkerOK
<1> QED
  BY <1>4, <1>5, <1>7, <1>8

NewTask(c) ==
  [id |-> submitted[frame[c].next] + 1, call |-> Current(c),
   a |-> frame[c].a, b |-> frame[c].b, joins |-> frame[c].joins]

\* A slice goes to the back of the queue of the next worker, with a new number.
LEMMA SubmitEffect ==
  ASSUME Shape, WorkersOK, NEW c \in Callers, Submit(c),
         NEW w, w = frame[c].next, NEW e, e = NewTask(c)
  PROVE  /\ w \in Workers /\ e \in Tasks
         /\ \A t \in Owed(w) : t.id < e.id
         /\ Queued(w)' = Queued(w) \cup {e}
         /\ Todo(w)' = Todo(w) \cup {e} /\ Owed(w)' = Owed(w) \cup {e}
         /\ WorkerOK(w)'
         /\ \A v \in Workers \ {w} : SameTasks(v) /\ (WorkerOK(v) => WorkerOK(v)')
<1>1. /\ w \in Workers /\ callerPc[c] = "submit"
      /\ queue' = [queue EXCEPT ![w] = Append(queue[w], e)]
      /\ completed' = [completed EXCEPT ![w] = FALSE]
      /\ submitted' = [submitted EXCEPT ![w] = submitted[w] + 1]
      /\ UNCHANGED <<running, workerPc>>
  BY DEF Submit, PushBack, NewTask, Shape
<1>2. e \in Tasks /\ e.id = submitted[w] + 1 /\ submitted[w] \in Nat
  <2>1. Current(c) \in CallIds
    BY <1>1, CurrentIsCall DEF InLoop
  <2>2. frame[c].a \in Nat /\ frame[c].b \in Nat /\ frame[c].joins \in BOOLEAN
    BY DEF Shape, Frames
  <2>3. submitted[w] \in Nat
    BY <1>1 DEF Shape
  <2> QED
    BY <2>1, <2>2, <2>3 DEF Tasks, NewTask
<1>3. /\ queue'[w] = Append(queue[w], e) /\ submitted'[w] = submitted[w] + 1 /\ ~completed'[w]
      /\ \A v \in Workers \ {w} : queue'[v] = queue[v] /\ submitted'[v] = submitted[v]
                                   /\ completed'[v] = completed[v]
  BY <1>1 DEF Shape
<1>a. running[w].id \in Nat
  BY <1>1, Members DEF Tasks, NoTask
<1>b. \A t \in Queued(w) : t.id \in Nat
  BY <1>1, Members DEF Tasks
<1>4. /\ queue[w] \in Seq(Tasks) /\ Sorted(queue[w])
      /\ \A t \in Queued(w) : running[w].id < t.id /\ t.id <= submitted[w] /\ t.id \in Nat
      /\ running[w].id \in Nat /\ running[w].id <= submitted[w]
  BY <1>1, <1>a, <1>b, Members DEF WorkersOK, WorkerOK
<1>5. Queued(w)' = Queued(w) \cup {e} /\ Sorted(Append(queue[w], e))
  <2>1. \A t \in Range(queue[w]) : t.id < e.id
    BY <1>2, <1>4 DEF Queued
  <2>2. /\ Sorted(Append(queue[w], e))
        /\ Range(Append(queue[w], e)) = Range(queue[w]) \cup {e}
    BY <1>2, <1>4, <2>1, SortedAppend
  <2> QED
    BY <1>3, <2>2 DEF Queued
<1>6. Todo(w)' = Todo(w) \cup {e} /\ Owed(w)' = Owed(w) \cup {e}
  BY <1>1, <1>5 DEF Todo, Owed
<1>7. ASSUME NEW v \in Workers \ {w}
      PROVE  SameTasks(v) /\ (WorkerOK(v) => WorkerOK(v)')
  BY <1>1, <1>3, SameTasksIf DEF WorkerOK, SameTasks
<1>8. WorkerOK(w)'
  <2>1. \A t \in Queued(w) \cup {e} : running[w].id < t.id /\ t.id <= submitted[w] + 1
    BY <1>2, <1>4
  <2>2. /\ workerPc[w] \in {"idle", "restart"} <=> running[w] = NoTask
        /\ running[w] # NoTask => running[w].id > 0
        /\ workerPc[w] = "countOff" => running[w].joins
    BY <1>1 DEF WorkersOK, WorkerOK
  <2>3. running'[w] = running[w] /\ workerPc'[w] = workerPc[w]
    BY <1>1
  <2>4. running[w].id <= submitted'[w]
    BY <1>2, <1>3, <1>4
  <2>5. \A t \in Queued(w)' : running'[w].id < t.id /\ t.id <= submitted'[w]
    BY <1>3, <1>5, <2>1, <2>3
  <2>6. Sorted(queue'[w])
    BY <1>3, <1>5
  <2> QED
    BY <1>3, <2>2, <2>3, <2>4, <2>5, <2>6 DEF WorkerOK
<1>9. \A t \in Owed(w) : t.id < e.id
  BY <1>2, <1>4 DEF Owed
<1> QED
  BY <1>1, <1>2, <1>5, <1>6, <1>7, <1>8, <1>9

\* The workers that have still to be given their slice, or to count it off.
Owing(c) == {w \in Workers : \/ frame[c].next <= w
                             \/ \E t \in Owed(w) : t.call = Current(c)}

LoopOK(c) ==
  /\ callerPc[c] \in InLoop =>
       /\ \A w \in Workers : \A t \in Owed(w) :
            t.call = Current(c) => w < frame[c].next /\ t.joins = frame[c].joins
       /\ frame[c].joins =>
            frame[c].worked_thread_count >=
              Cardinality(Owing(c)) + (IF Current(c) \in failed THEN 1 ELSE 0)
  /\ callerPc[c] \in {"remainder", "wait"} => frame[c].next > NumWorkers
  /\ callerPc[c] = "whole" =>
       \A w \in Workers : \A t \in Owed(w) : t.call # Current(c)
  /\ callerPc[c] # "idle" => frame[c].next >= 1
  /\ frame[c].worked_thread_count >= 0

TasksOutlived ==
  \A w \in Workers : \A t \in Owed(w) :
    t.joins => Alive(t.call) \/ t.call \in failed

TasksAllOK == \A w \in Workers : TasksOK(w)
LoopsOK    == \A c \in Callers : LoopOK(c)

\* A worker's step keeps it in order, and gives no worker anything to do.
LEMMA WorkerEffect ==
  ASSUME Shape, WorkersOK, NEW w \in Workers, WorkerStep(w) \/ WorkerThrows(w)
  PROVE  /\ WorkersOK'
         /\ \A v \in Workers : Owed(v)' \subseteq Owed(v) /\ Todo(v)' \subseteq Todo(v)
<1>1. /\ WorkerOK(w)' /\ Owed(w)' \subseteq Owed(w) /\ Todo(w)' \subseteq Todo(w)
      /\ \A v \in Workers \ {w} : SameTasks(v) /\ (WorkerOK(v) => WorkerOK(v)')
  <2>1. CASE Take(w)
    BY <2>1, TakeEffect
  <2>2. CASE Run(w)
    BY <2>2, RunEffect
  <2>3. CASE CountOff(w)
    BY <2>3, CountOffEffect
  <2>4. CASE Finish(w)
    BY <2>4, FinishEffect DEF SameTasks
  <2>5. CASE WorkerThrows(w)
    BY <2>5, ThrowEffect
  <2>6. CASE Restart(w)
    BY <2>6, RestartEffect
  <2> QED
    BY <2>1, <2>2, <2>3, <2>4, <2>5, <2>6 DEF WorkerStep
<1>2. WorkersOK'
  BY <1>1 DEF WorkersOK
<1> QED
  BY <1>1, <1>2 DEF SameTasks

\* Only Submit gives a worker something to do.
LEMMA CallerEffect ==
  ASSUME Shape, WorkersOK, NEW c \in Callers,
         \/ \E joins \in BOOLEAN, r \in Ranges : ParallelFor(c, joins, r)
         \/ IsCompleted(c) \/ CallerStep(c) \/ CallerThrows(c),
         ~Submit(c)
  PROVE  WorkersOK' /\ \A v \in Workers : SameTasks(v)
<1>1. UNCHANGED workerVars
  BY DEF ParallelFor, IsCompleted, CallerStep, CallerThrows, Whole, OwnSlice, Remainder,
         Wait, PollNext, PollTrue
<1>2. \A v \in Workers : SameTasks(v)
  BY <1>1, SameTasksIf DEF workerVars
<1>3. \A v \in Workers : WorkerOK(v)' <=> WorkerOK(v)
  BY <1>1 DEF WorkerOK, Queued, workerVars
<1> QED
  BY <1>2, <1>3 DEF WorkersOK

\* Once started is started.
LEMMA StartedGrows ==
  ASSUME Shape, NEW c \in Callers,
         \/ UNCHANGED calls
         \/ \E joins \in BOOLEAN, r \in Ranges : ParallelFor(c, joins, r)
  PROVE  /\ Started \subseteq Started'
         /\ \A d \in Callers \ {c} : Current(d)' = Current(d)
         /\ UNCHANGED calls => Current(c)' = Current(c) /\ Started' = Started
<1>1. CASE UNCHANGED calls
  BY <1>1 DEF Started, Current
<1>2. ASSUME NEW joins \in BOOLEAN, NEW r \in Ranges, ParallelFor(c, joins, r)
      PROVE  /\ \A d \in Callers : Len(calls'[d]) >= Len(calls[d])
             /\ \A d \in Callers \ {c} : calls'[d] = calls[d]
             /\ Len(calls'[c]) = Len(calls[c]) + 1
             /\ \A d \in Callers : Len(calls[d]) \in Nat
  <2>1. calls' = [calls EXCEPT ![c] = Append(calls[c], r)] /\ calls \in [Callers -> Seq(Ranges)]
    BY <1>2 DEF ParallelFor, Shape
  <2>2. calls'[c] = Append(calls[c], r) /\ \A d \in Callers \ {c} : calls'[d] = calls[d]
    BY <2>1
  <2>3. Len(calls'[c]) = Len(calls[c]) + 1 /\ \A d \in Callers : Len(calls[d]) \in Nat
    BY <2>1, <2>2
  <2> QED
    BY <2>2, <2>3
<1>3. ASSUME NEW joins \in BOOLEAN, NEW r \in Ranges, ParallelFor(c, joins, r)
      PROVE  /\ Started \subseteq Started'
             /\ \A d \in Callers \ {c} : Current(d)' = Current(d)
             /\ calls' # calls
  <2>1. ASSUME NEW k \in Started
        PROVE  k \in Started'
    <3>1. k \in CallIds /\ k[2] <= Len(calls[k[1]]) /\ k[1] \in Callers /\ k[2] \in Nat
      BY DEF Started, CallIds
    <3>2. k[2] <= Len(calls'[k[1]])
      BY <1>2, <1>3, <3>1
    <3> QED
      BY <3>1, <3>2 DEF Started
  <2>2. \A d \in Callers \ {c} : Current(d)' = Current(d)
    BY <1>2, <1>3 DEF Current
  <2>3. calls' # calls
    BY <1>2, <1>3
  <2> QED
    BY <2>1, <2>2, <2>3
<1> QED
  BY <1>1, <1>3

\* A caller that begins a loop begins one that nobody has anything of.
LEMMA NewCall ==
  ASSUME Shape, NEW c \in Callers, NEW joins \in BOOLEAN, NEW r \in Ranges,
         ParallelFor(c, joins, r)
  PROVE  /\ Current(c)' \in CallIds /\ Current(c)' \notin Started
         /\ calls' = [calls EXCEPT ![c] = Append(calls[c], r)]
         /\ calls'[c][Len(calls'[c])] = r
         /\ Current(c)' = <<c, Len(calls[c]) + 1>>
<1>1. calls' = [calls EXCEPT ![c] = Append(calls[c], r)] /\ calls \in [Callers -> Seq(Ranges)]
  BY DEF ParallelFor, Shape
<1>2. Len(calls[c]) \in Nat /\ Len(calls[c]) < MaxCalls
  <2>1. Cardinality(Started) < MaxCalls
    BY DEF ParallelFor
  <2> QED
    BY <1>1, <2>1, CallsBound
<1>3. calls'[c] = Append(calls[c], r) /\ Len(calls'[c]) = Len(calls[c]) + 1
      /\ calls'[c][Len(calls[c]) + 1] = r
  BY <1>1
<1>4. Current(c)' = <<c, Len(calls[c]) + 1>>
  BY <1>3 DEF Current
<1> QED
  BY <1>1, <1>2, <1>3, <1>4, ParallelAssumption DEF CallIds, Started

\* A caller between two loops has a current call only once it has begun one.
LEMMA CurrentStarted ==
  ASSUME Shape, NEW c \in Callers, callerPc[c] \in InLoop \cup {"whole"}
  PROVE  Current(c) \in Started
  BY CurrentIsCall DEF Started, Current, CallIds, Shape

\* A worker keeps its tasks in the order of the calls.
LEMMA TasksWorker ==
  ASSUME Shape, WorkersOK, TasksAllOK, NEW w \in Workers, WorkerStep(w) \/ WorkerThrows(w)
  PROVE  TasksAllOK'
<1>1. UNCHANGED calls
  BY DEF WorkerStep, WorkerThrows, Take, Run, CountOff, Finish, Restart, callerVars
<1>2. Started' = Started
  BY <1>1 DEF Started
<1>3. \A v \in Workers : Owed(v)' \subseteq Owed(v)
  BY WorkerEffect
<1>4. ASSUME NEW v \in Workers
      PROVE  TasksOK(v)'
  <2>1. TasksOK(v) /\ Owed(v)' \subseteq Owed(v)
    BY <1>3 DEF TasksAllOK
  <2> QED
    BY <1>2, <2>1 DEF TasksOK
<1> QED
  BY <1>4 DEF TasksAllOK

\* So do the callers that hand nothing out,
LEMMA TasksCaller ==
  ASSUME Shape, WorkersOK, TasksAllOK, NEW c \in Callers,
         \/ \E joins \in BOOLEAN, r \in Ranges : ParallelFor(c, joins, r)
         \/ IsCompleted(c) \/ CallerStep(c) \/ CallerThrows(c),
         ~Submit(c)
  PROVE  TasksAllOK'
<1>1. \/ UNCHANGED calls
      \/ \E joins \in BOOLEAN, r \in Ranges : ParallelFor(c, joins, r)
  BY DEF IsCompleted, CallerStep, CallerThrows, Whole, OwnSlice, Remainder,
     Wait, PollNext,
         PollTrue
<1>2. Started \subseteq Started'
  BY <1>1, StartedGrows
<1>3. \A v \in Workers : Owed(v)' = Owed(v)
  BY CallerEffect DEF SameTasks
<1>4. ASSUME NEW v \in Workers
      PROVE  TasksOK(v)'
  BY <1>2, <1>3 DEF TasksAllOK, TasksOK
<1> QED
  BY <1>4 DEF TasksAllOK

\* and the one that does: its call is the last of its own.
LEMMA TasksSubmit ==
  ASSUME Shape, WorkersOK, TasksAllOK, NEW c \in Callers, LoopOK(c), Submit(c)
  PROVE  TasksAllOK'
<1> DEFINE w == frame[c].next
           e == NewTask(c)
<1>1. UNCHANGED calls /\ callerPc[c] = "submit"
  BY DEF Submit
<1>2. Started' = Started /\ Current(c) \in Started
  BY <1>1, CurrentStarted DEF Started, InLoop
<1>3. /\ w \in Workers /\ e.call = Current(c) /\ e \in Tasks
      /\ \A t \in Owed(w) : t.id < e.id
      /\ \A t \in Owed(w) : t.call # Current(c)
  <2>1. w \in Workers /\ e \in Tasks /\ \A t \in Owed(w) : t.id < e.id
    BY SubmitEffect
  <2>2. \A t \in Owed(w) : t.call = Current(c) => w < frame[c].next
    BY <1>1, <2>1 DEF LoopOK, InLoop
  <2>3. w \in Nat
    BY <2>1 DEF Workers
  <2> QED
    BY <2>1, <2>2, <2>3 DEF NewTask
<1> HIDE DEF w, e
<1>4. \A t \in Owed(w) : t.call[1] = c => t.call[2] < e.call[2]
  <2> SUFFICES ASSUME NEW t \in Owed(w), t.call[1] = c
               PROVE  t.call[2] < Len(calls[c])
    BY <1>3 DEF Current
  <2>1. t.call \in Started /\ t.call # Current(c)
    BY <1>3 DEF TasksAllOK, TasksOK
  <2>2. t.call \in Callers \X (1 .. MaxCalls) /\ t.call[2] <= Len(calls[c])
    BY <2>1 DEF Started, CallIds
  <2>3. t.call = <<c, t.call[2]>> /\ t.call[2] \in Nat
    BY <2>2, ParallelAssumption
  <2>4. t.call[2] # Len(calls[c]) /\ Len(calls[c]) \in Nat
    BY <2>1, <2>3 DEF Current, Shape
  <2> QED
    BY <2>2, <2>3, <2>4
<1>5. ASSUME NEW v \in Workers
      PROVE  TasksOK(v)'
  <2>1. CASE v = w
    <3>1. Owed(v)' = Owed(v) \cup {e}
      BY <2>1, SubmitEffect DEF w, e
    <3>2. \A t \in Owed(v)' : t.call \in Started
      BY <1>2, <1>3, <3>1 DEF TasksAllOK, TasksOK
    <3>3. \A t \in Owed(v) : t.id \in Nat /\ e.id \in Nat
      BY <1>3, Members DEF Tasks
    <3>4. ASSUME NEW t \in Owed(v)', NEW u \in Owed(v)', t.call[1] = u.call[1], t.id < u.id
          PROVE  t.call[2] < u.call[2]
      <4>1. CASE u = e
        <5>1. t # e
          BY <4>1, <3>4, <1>3 DEF Tasks
        <5> QED
          BY <1>3, <1>4, <2>1, <3>1, <3>4, <4>1, <5>1 DEF Current
      <4>2. CASE u # e
        <5>1. u \in Owed(v)
          BY <3>1, <4>2
        <5>2. t # e
          BY <1>3, <2>1, <3>3, <3>4, <5>1
        <5> QED
          BY <3>1, <3>4, <5>1, <5>2 DEF TasksAllOK, TasksOK
      <4> QED
        BY <4>1, <4>2
    <3> QED
      BY <1>2, <3>2, <3>4 DEF TasksOK
  <2>2. CASE v # w
    <3>1. Owed(v)' = Owed(v)
      BY <2>2, SubmitEffect DEF SameTasks, w, e
    <3> QED
      BY <1>2, <3>1 DEF TasksAllOK, TasksOK
  <2> QED
    BY <2>1, <2>2
<1> QED
  BY <1>5 DEF TasksAllOK

\* The workers are finitely many, and so are those that owe a loop something.
LEMMA WorkersFinite ==
  /\ Workers \subseteq Nat /\ IsFiniteSet(Workers) /\ Cardinality(Workers) = NumWorkers
  /\ \A c : IsFiniteSet(Owing(c)) /\ Cardinality(Owing(c)) \in Nat
            /\ Cardinality(Owing(c)) <= NumWorkers
<1>1. NumWorkers \in Nat /\ NumWorkers > 0
  BY ParallelAssumption
<1>2. IsFiniteSet(Workers) /\ Cardinality(Workers) = NumWorkers
  BY <1>1, FS_Interval DEF Workers
<1>3. ASSUME NEW c
      PROVE  IsFiniteSet(Owing(c)) /\ Cardinality(Owing(c)) \in Nat
             /\ Cardinality(Owing(c)) <= NumWorkers
  <2>1. Owing(c) \in SUBSET Workers
    BY DEF Owing
  <2> QED
    BY <1>2, <2>1, FS_Subset, FS_CardinalityType
<1> QED
  BY <1>1, <1>2, <1>3 DEF Workers

\* A loop that nobody adds to: the debt does not grow, and a slice that is
\* lost with an exception is a worker less that counts off.
LEMMA LoopKept ==
  ASSUME Shape, Shape', NEW c \in Callers, LoopOK(c),
         callerPc'[c] = callerPc[c], frame'[c] = frame[c], Current(c)' = Current(c),
         \A v \in Workers : \A t \in Owed(v)' : t.call = Current(c) => t \in Owed(v),
         Current(c) \in failed' =>
           \/ Current(c) \in failed
           \/ \E w \in Workers : /\ \E t \in Owed(w) : t.call = Current(c)
                                 /\ \A t \in Owed(w)' : t.call # Current(c)
  PROVE  LoopOK(c)'
<1>1. Owing(c)' \in SUBSET Owing(c)
  BY DEF Owing
<1>2. /\ IsFiniteSet(Owing(c)) /\ Cardinality(Owing(c)) \in Nat
      /\ IsFiniteSet(Owing(c)') /\ Cardinality(Owing(c)') \in Nat
      /\ Cardinality(Owing(c)') <= Cardinality(Owing(c))
      /\ Cardinality(Owing(c)) = Cardinality(Owing(c)') => Owing(c)' = Owing(c)
  <2>1. IsFiniteSet(Owing(c)) /\ Cardinality(Owing(c)) \in Nat
    BY WorkersFinite
  <2> QED
    BY <1>1, <2>1, FS_Subset, FS_CardinalityType
<1>3. ASSUME callerPc[c] \in InLoop, frame[c].joins
      PROVE  frame[c].worked_thread_count >=
               Cardinality(Owing(c)') + (IF Current(c) \in failed' THEN 1 ELSE 0)
  <2>1. frame[c].worked_thread_count >=
          Cardinality(Owing(c)) + (IF Current(c) \in failed THEN 1 ELSE 0)
    BY <1>3 DEF LoopOK
  <2>2. frame[c].worked_thread_count \in Int
    BY DEF Shape, Frames
  <2>3. CASE Current(c) \in failed \/ Current(c) \notin failed'
    BY <1>2, <2>1, <2>2, <2>3
  <2>4. CASE Current(c) \notin failed /\ Current(c) \in failed'
    <3>1. PICK w \in Workers : /\ \E t \in Owed(w) : t.call = Current(c)
                               /\ \A t \in Owed(w)' : t.call # Current(c)
      BY <2>4
    <3>2. w < frame[c].next
      BY <1>3, <3>1 DEF LoopOK
    <3>3. w \in Nat /\ frame[c].next \in Nat
      BY WorkersFinite DEF Shape, Frames
    <3>4. w \in Owing(c)
      BY <3>1 DEF Owing
    <3>5. w \notin Owing(c)'
      BY <3>1, <3>2, <3>3 DEF Owing
    <3>6. Cardinality(Owing(c)) # Cardinality(Owing(c)')
      BY <1>2, <3>4, <3>5
    <3> QED
      BY <1>2, <2>1, <2>2, <2>4, <3>6
  <2> QED
    BY <2>3, <2>4
<1>4. callerPc[c] \in InLoop =>
        \A w \in Workers : \A t \in Owed(w)' :
          t.call = Current(c) => w < frame[c].next /\ t.joins = frame[c].joins
  BY DEF LoopOK
<1>5. callerPc[c] = "whole" => \A w \in Workers : \A t \in Owed(w)' : t.call # Current(c)
  BY DEF LoopOK
<1> QED
  BY <1>3, <1>4, <1>5 DEF LoopOK

\* Outside the loops there is little to say.
LEMMA LoopIdle ==
  ASSUME NEW c \in Callers, callerPc'[c] \in {"idle", "poll"}, frame'[c].next \in Nat,
         callerPc'[c] = "poll" => frame'[c].next >= 1, frame'[c].worked_thread_count = 0
  PROVE  LoopOK(c)'
  BY DEF LoopOK, InLoop

\* A call has one task at most with a worker.
LEMMA OneTask ==
  ASSUME Shape, WorkersOK, TasksAllOK, NEW w \in Workers, NEW t \in Owed(w), NEW u \in Owed(w),
         t.call = u.call
  PROVE  t = u
<1>1. t.id \in Nat /\ u.id \in Nat /\ t.call \in CallIds
  BY Members DEF Tasks
<1>2. t.call[2] \in Nat
  BY <1>1, ParallelAssumption DEF CallIds
<1>3. t.id = u.id
  <2>1. ~(t.id < u.id) /\ ~(u.id < t.id)
    BY <1>2 DEF TasksAllOK, TasksOK
  <2> QED
    BY <1>1, <2>1
<1>4. \A x \in Queued(w) : running[w].id < x.id
  BY DEF WorkersOK, WorkerOK
<1>5. CASE t \in Queued(w) /\ u \in Queued(w)
  <2>1. queue[w] \in Seq(Tasks) /\ Sorted(queue[w])
    BY Members DEF WorkersOK, WorkerOK
  <2>2. PICK i \in DOMAIN queue[w], j \in DOMAIN queue[w] : t = queue[w][i] /\ u = queue[w][j]
    BY <1>5 DEF Queued, Range
  <2>3. i \in Nat /\ j \in Nat
    BY <2>1, <2>2
  <2>4. ~(i < j) /\ ~(j < i)
    BY <1>1, <1>3, <2>1, <2>2 DEF Sorted
  <2> QED
    BY <2>2, <2>3, <2>4
<1>6. CASE ~(t \in Queued(w) /\ u \in Queued(w))
  <2>1. t = running[w] \/ t \in Queued(w)
    BY DEF Owed
  <2>2. u = running[w] \/ u \in Queued(w)
    BY DEF Owed
  <2> QED
    BY <1>1, <1>3, <1>4, <1>6, <2>1, <2>2
<1> QED
  BY <1>5, <1>6

\* The steps of a worker that leave the callers alone.
LEMMA LoopsWorker ==
  ASSUME Shape, Shape', WorkersOK, TasksAllOK, LoopsOK, failed \subseteq Started,
         NEW w \in Workers, WorkerStep(w) \/ WorkerThrows(w), ~CountOff(w)
  PROVE  LoopsOK' /\ (failed \subseteq Started)'
<1>1. UNCHANGED <<callerPc, frame, calls>>
  BY DEF WorkerStep, WorkerThrows, Take, Run, Finish, Restart, callerVars
<1>2. /\ \A c \in Callers : callerPc'[c] = callerPc[c] /\ frame'[c] = frame[c]
                             /\ Current(c)' = Current(c)
      /\ Started' = Started
  BY <1>1 DEF Current, Started
<1>3. \A v \in Workers : Owed(v)' \subseteq Owed(v)
  BY WorkerEffect
<1>4. \/ failed' = failed
      \/ /\ failed' = failed \cup {t.call : t \in Owed(w)}
         /\ Owed(w)' = {}
      \/ /\ failed' = failed \cup {running[w].call} /\ running[w] \in Owed(w)
         /\ Owed(w)' = Owed(w) \ {running[w]}
  <2>1. CASE Take(w) \/ Run(w) \/ Finish(w)
    BY <2>1 DEF Take, Run, Finish, historyVars
  <2>2. CASE WorkerThrows(w)
    <3>1. failed' = failed \cup {running[w].call}
      BY <2>2 DEF WorkerThrows
    <3>2. running[w] \in Owed(w) /\ Owed(w)' = Owed(w) \ {running[w]}
      BY <2>2, ThrowEffect, Members
    <3> QED
      BY <3>1, <3>2
  <2>3. CASE Restart(w)
    <3>1. failed' = failed \cup {t.call : t \in Range(queue[w])}
      BY <2>3 DEF Restart
    <3>2. Owed(w) = Queued(w) /\ Owed(w)' = {}
      BY <2>3, RestartEffect
    <3> QED
      BY <3>1, <3>2 DEF Queued
  <2> QED
    BY <2>1, <2>2, <2>3 DEF WorkerStep
<1>5. failed' \subseteq Started
  BY <1>4 DEF TasksAllOK, TasksOK
<1>6. ASSUME NEW c \in Callers
      PROVE  LoopOK(c)'
  <2>1. Current(c) \in failed' =>
          \/ Current(c) \in failed
          \/ \E x \in Workers : /\ \E t \in Owed(x) : t.call = Current(c)
                                /\ \A t \in Owed(x)' : t.call # Current(c)
    <3> SUFFICES ASSUME Current(c) \in failed', Current(c) \notin failed
                 PROVE  /\ \E t \in Owed(w) : t.call = Current(c)
                        /\ \A t \in Owed(w)' : t.call # Current(c)
      OBVIOUS
    <3>1. CASE failed' = failed \cup {t.call : t \in Owed(w)} /\ Owed(w)' = {}
      BY <3>1
    <3>2. CASE /\ failed' = failed \cup {running[w].call} /\ running[w] \in Owed(w)
               /\ Owed(w)' = Owed(w) \ {running[w]}
      <4>1. running[w].call = Current(c)
        BY <3>2
      <4>2. \A t \in Owed(w) : t.call = Current(c) => t = running[w]
        BY <3>2, <4>1, OneTask
      <4> QED
        BY <3>2, <4>1, <4>2
    <3> QED
      BY <1>4, <3>1, <3>2
  <2>2. \A v \in Workers : \A t \in Owed(v)' : t.call = Current(c) => t \in Owed(v)
    BY <1>3
  <2>3. LoopOK(c) /\ callerPc'[c] = callerPc[c] /\ frame'[c] = frame[c]
        /\ Current(c)' = Current(c)
    BY <1>2 DEF LoopsOK
  <2> QED
    BY <2>1, <2>2, <2>3, LoopKept
<1> QED
  BY <1>2, <1>5, <1>6 DEF LoopsOK

\* A worker that counts off pays what it owes.
LEMMA LoopsCountOff ==
  ASSUME Shape, Shape', WorkersOK, TasksAllOK, LoopsOK, failed \subseteq Started,
         NEW w \in Workers, CountOff(w)
  PROVE  LoopsOK' /\ (failed \subseteq Started)'
<1> DEFINE call == running[w].call
<1>1. UNCHANGED <<callerPc, calls, failed>>
  BY DEF CountOff, historyVars
<1>2. /\ \A c \in Callers : callerPc'[c] = callerPc[c] /\ Current(c)' = Current(c)
      /\ Started' = Started
  BY <1>1 DEF Current, Started
<1>3. /\ \A v \in Workers : Owed(v)' \subseteq Owed(v)
      /\ Owed(w)' = Owed(w) \ {running[w]} /\ running[w] \in Owed(w)
      /\ running[w].joins
  BY WorkerEffect, CountOffEffect DEF WorkerStep
<1>4. frame' = IF Alive(call) THEN [frame EXCEPT ![call[1]] = CountOffOne(frame[call[1]])]
                              ELSE frame
  BY DEF CountOff
<1>5. ASSUME NEW c \in Callers, frame'[c] = frame[c]
      PROVE  LoopOK(c)'
  <2>1. Current(c) \in failed' => Current(c) \in failed
    BY <1>1
  <2>2. \A v \in Workers : \A t \in Owed(v)' : t.call = Current(c) => t \in Owed(v)
    BY <1>3
  <2>3. LoopOK(c) /\ callerPc'[c] = callerPc[c] /\ Current(c)' = Current(c)
    BY <1>2 DEF LoopsOK
  <2> QED
    BY <1>5, <2>1, <2>2, <2>3, LoopKept
<1>6. ASSUME NEW c \in Callers, Alive(call), call[1] = c
      PROVE  LoopOK(c)'
  <2>1. /\ call = Current(c) /\ callerPc[c] \in InLoop
        /\ frame'[c] = CountOffOne(frame[c]) /\ frame[c] \in Frames
    BY <1>4, <1>6 DEF Alive, InLoop, Shape
  <2>2. /\ frame'[c].next = frame[c].next /\ frame'[c].joins = frame[c].joins
        /\ frame'[c].worked_thread_count = frame[c].worked_thread_count - 1
        /\ frame[c].worked_thread_count \in Int /\ frame[c].next \in Nat
    BY <2>1 DEF CountOffOne, Frames
  <2>3. frame[c].joins /\ w < frame[c].next
    BY <1>3, <2>1 DEF LoopsOK, LoopOK
  <2>4. w \in Owing(c)
    BY <1>3, <2>1 DEF Owing
  <2>5. w \notin Owing(c)'
    <3>1. \A t \in Owed(w) : t.call = call => t = running[w]
      BY <1>3, OneTask
    <3>2. \A t \in Owed(w)' : t.call # Current(c)'
      BY <1>2, <1>3, <2>1, <3>1
    <3>3. ~(frame'[c].next <= w)
      BY <2>2, <2>3, WorkersFinite
    <3> QED
      BY <3>2, <3>3 DEF Owing
  <2>6. Owing(c)' \subseteq Owing(c) \ {w}
    BY <1>2, <1>3, <2>2, <2>5 DEF Owing
  <2>7. /\ Cardinality(Owing(c)') <= Cardinality(Owing(c)) - 1
        /\ Cardinality(Owing(c)) \in Nat /\ Cardinality(Owing(c)') \in Nat
    <3>1. IsFiniteSet(Owing(c)) /\ Cardinality(Owing(c)) \in Nat
      BY WorkersFinite
    <3>2. IsFiniteSet(Owing(c) \ {w}) /\ Cardinality(Owing(c) \ {w}) = Cardinality(Owing(c)) - 1
      BY <2>4, <3>1, FS_RemoveElement
    <3> QED
      BY <2>6, <3>1, <3>2, FS_Subset, FS_CardinalityType
  <2>8. frame[c].worked_thread_count >=
          Cardinality(Owing(c)) + (IF Current(c) \in failed THEN 1 ELSE 0)
    BY <2>1, <2>3 DEF LoopsOK, LoopOK
  <2>9. /\ frame'[c].worked_thread_count >=
             Cardinality(Owing(c)') + (IF Current(c) \in failed THEN 1 ELSE 0)
        /\ frame'[c].worked_thread_count >= 0
    BY <2>2, <2>7, <2>8
  <2>10. /\ \A v \in Workers : \A t \in Owed(v)' :
              t.call = Current(c) => v < frame[c].next /\ t.joins = frame[c].joins
         /\ callerPc[c] \in {"remainder", "wait"} => frame[c].next > NumWorkers
         /\ callerPc[c] # "idle" => frame[c].next >= 1
    BY <1>3, <2>1 DEF LoopsOK, LoopOK
  <2>11. callerPc[c] # "whole"
    BY <2>1 DEF InLoop
  <2> QED
    BY <1>1, <1>2, <2>2, <2>9, <2>10, <2>11 DEF LoopOK
<1>7. ASSUME NEW c \in Callers
      PROVE  LoopOK(c)'
  <2>1. CASE Alive(call) /\ call[1] = c
    BY <1>6, <2>1
  <2>2. CASE ~(Alive(call) /\ call[1] = c)
    <3>1. frame'[c] = frame[c]
      BY <1>4, <2>2 DEF Shape
    <3> QED
      BY <1>5, <3>1
  <2> QED
    BY <2>1, <2>2
<1> QED
  BY <1>1, <1>2, <1>7 DEF LoopsOK

\* A caller's step that gives nobody a task.
LEMMA LoopsCaller ==
  ASSUME Shape, Shape', WorkersOK, TasksAllOK, LoopsOK, failed \subseteq Started,
         NEW c \in Callers,
         IsCompleted(c) \/ CallerStep(c) \/ CallerThrows(c), ~Submit(c)
  PROVE  LoopsOK' /\ (failed \subseteq Started)'
<1>1. UNCHANGED calls
  BY DEF IsCompleted, CallerStep, CallerThrows, Whole, OwnSlice, Remainder,
     Wait, PollNext,
         PollTrue
<1>2. Started' = Started /\ \A d \in Callers : Current(d)' = Current(d)
  BY <1>1 DEF Started, Current
<1>3. \A v \in Workers : Owed(v)' = Owed(v)
  BY CallerEffect DEF SameTasks
<1>4. /\ \A d \in Callers \ {c} : callerPc'[d] = callerPc[d] /\ frame'[d] = frame[d]
      /\ \/ failed' = failed
         \/ failed' = failed \cup {Current(c)} /\ Current(c) \in Started
  <2>1. /\ \/ UNCHANGED callerPc
           \/ \E to : callerPc' = [callerPc EXCEPT ![c] = to]
        /\ \/ UNCHANGED frame
           \/ \E f : frame' = [frame EXCEPT ![c] = f]
    <3>1. CASE IsCompleted(c)
      BY <3>1 DEF IsCompleted, CallerGoto
    <3>2. CASE Whole(c) \/ Wait(c) \/ PollTrue(c) \/ CallerThrows(c)
      BY <3>2 DEF Whole, Wait, PollTrue, CallerThrows, Return, CallerGoto
    <3>3. CASE OwnSlice(c) \/ Remainder(c)
      BY <3>3 DEF OwnSlice, Remainder, CallerGoto
    <3>4. CASE PollNext(c)
      BY <3>4 DEF PollNext, Return, CallerGoto
    <3> QED
      BY <3>1, <3>2, <3>3, <3>4 DEF CallerStep
  <2>2. \A d \in Callers \ {c} : callerPc'[d] = callerPc[d] /\ frame'[d] = frame[d]
    <3>1. callerPc \in [Callers -> InLoop \cup {"idle", "whole", "poll"}]
          /\ frame \in [Callers -> Frames]
      BY DEF Shape
    <3>2. \A d \in Callers \ {c} : callerPc'[d] = callerPc[d]
      BY <2>1, <3>1
    <3>3. \A d \in Callers \ {c} : frame'[d] = frame[d]
      BY <2>1, <3>1
    <3> QED
      BY <3>2, <3>3
  <2>3. CASE CallerThrows(c)
    <3>1. callerPc[c] \in InLoop \cup {"whole"}
      BY <2>3 DEF CallerThrows, Return, CallerGoto, InLoop
    <3>2. Current(c) \in Started
      BY <3>1, CurrentStarted
    <3> QED
      BY <2>2, <2>3, <3>2 DEF CallerThrows
  <2>4. CASE ~CallerThrows(c)
    <3>1. failed' = failed
      BY <2>4 DEF IsCompleted, CallerStep, Whole, OwnSlice, Remainder, Wait,
         PollNext, PollTrue,
                  historyVars
    <3> QED
      BY <2>2, <3>1
  <2> QED
    BY <2>3, <2>4
<1>5. failed' \subseteq Started
  BY <1>4
<1>6. ASSUME NEW d \in Callers \ {c}
      PROVE  LoopOK(d)'
  <2>1. Current(d) \in failed' => Current(d) \in failed
    BY <1>4 DEF Current
  <2>2. \A v \in Workers : \A t \in Owed(v)' : t.call = Current(d) => t \in Owed(v)
    BY <1>3
  <2>3. LoopOK(d) /\ callerPc'[d] = callerPc[d] /\ frame'[d] = frame[d]
        /\ Current(d)' = Current(d)
    BY <1>2, <1>4 DEF LoopsOK
  <2> QED
    BY <2>1, <2>2, <2>3, LoopKept
<1>7. LoopOK(c)'
  <2>1. CASE Whole(c) \/ Wait(c) \/ PollTrue(c) \/ CallerThrows(c)
    <3>1. callerPc' = [callerPc EXCEPT ![c] = "idle"] /\ frame' = [frame EXCEPT ![c] = NoFrame]
      BY <2>1 DEF Whole, Wait, PollTrue, CallerThrows, Return, CallerGoto
    <3>2. callerPc'[c] = "idle" /\ frame'[c] = NoFrame
      BY <3>1 DEF Shape
    <3> QED
      BY <3>2, LoopIdle DEF NoFrame
  <2>2. CASE IsCompleted(c)
    <3>1. callerPc' = [callerPc EXCEPT ![c] = "poll"]
          /\ frame' = [frame EXCEPT ![c] = [NoFrame EXCEPT !.next = 1]]
      BY <2>2 DEF IsCompleted, CallerGoto
    <3>2. callerPc'[c] = "poll" /\ frame'[c] = [NoFrame EXCEPT !.next = 1]
      BY <3>1 DEF Shape
    <3> QED
      BY <3>2, LoopIdle DEF NoFrame
  <2>3. CASE PollNext(c)
    <3>1. frame[c] \in Frames /\ frame[c].next >= 1 /\ callerPc[c] = "poll" /\ LoopOK(c)
      BY <2>3 DEF PollNext, Shape, LoopsOK, LoopOK
    <3>2. CASE /\ frame' = [frame EXCEPT ![c] = [frame[c] EXCEPT !.next = frame[c].next + 1]]
               /\ UNCHANGED callerPc
      <4>1. frame'[c] = [frame[c] EXCEPT !.next = frame[c].next + 1]
        BY <3>2 DEF Shape
      <4>2. /\ frame'[c].next = frame[c].next + 1 /\ frame[c].next \in Nat
            /\ frame'[c].worked_thread_count = frame[c].worked_thread_count
            /\ frame[c].worked_thread_count >= 0
        BY <3>1, <4>1 DEF Frames, LoopOK
      <4> QED
        BY <3>1, <3>2, <4>2 DEF LoopOK, InLoop
    <3>3. CASE /\ callerPc' = [callerPc EXCEPT ![c] = "idle"]
               /\ frame' = [frame EXCEPT ![c] = NoFrame]
      <4>1. callerPc'[c] = "idle" /\ frame'[c] = NoFrame
        BY <3>3 DEF Shape
      <4> QED
        BY <4>1, LoopIdle DEF NoFrame
    <3>4. \/ /\ frame' = [frame EXCEPT ![c] = [frame[c] EXCEPT !.next = frame[c].next + 1]]
             /\ UNCHANGED callerPc
          \/ /\ callerPc' = [callerPc EXCEPT ![c] = "idle"]
             /\ frame' = [frame EXCEPT ![c] = NoFrame]
      BY <2>3 DEF PollNext, Return, CallerGoto
    <3> QED
      BY <3>2, <3>3, <3>4
  <2>4. CASE OwnSlice(c) \/ Remainder(c)
    <3>1. /\ UNCHANGED <<frame, failed>> /\ callerPc[c] \in {"submit", "remainder"}
          /\ callerPc'[c] \in {"remainder", "wait"}
          /\ callerPc[c] = "submit" => frame[c].next \notin Workers
      BY <2>4 DEF OwnSlice, Remainder, CallerGoto, Shape
    <3>2. LoopOK(c) /\ frame[c].next >= 1 /\ frame[c].next \in Nat
      BY <3>1 DEF LoopsOK, LoopOK, Shape, Frames
    <3>3. frame[c].next > NumWorkers
      BY <3>1, <3>2, ParallelAssumption DEF LoopOK, Workers
    <3>4. Owing(c)' = Owing(c)
      BY <1>2, <1>3, <3>1 DEF Owing
    <3> QED
      BY <1>2, <1>3, <3>1, <3>2, <3>3, <3>4 DEF LoopOK, InLoop
  <2> QED
    BY <2>1, <2>2, <2>3, <2>4 DEF CallerStep
<1> QED
  BY <1>2, <1>5, <1>6, <1>7 DEF LoopsOK

\* A new loop owes every worker a slice.
LEMMA LoopsBegin ==
  ASSUME Shape, Shape', WorkersOK, TasksAllOK, LoopsOK, failed \subseteq Started,
         NEW c \in Callers, NEW joins \in BOOLEAN, NEW r \in Ranges,
         ParallelFor(c, joins, r)
  PROVE  LoopsOK' /\ (failed \subseteq Started)'
<1>1. /\ Started \subseteq Started' /\ \A d \in Callers \ {c} : Current(d)' = Current(d)
      /\ Current(c)' \notin Started
  BY StartedGrows, NewCall
<1>2. /\ failed' = failed
      /\ \A d \in Callers \ {c} : callerPc'[d] = callerPc[d] /\ frame'[d] = frame[d]
      /\ callerPc'[c] \in {"submit", "whole"}
      /\ frame'[c].next = 1 /\ frame'[c].worked_thread_count = NumWorkers
  BY DEF ParallelFor, CallerGoto, historyVars, Shape
<1>3. \A v \in Workers : Owed(v)' = Owed(v)
  BY CallerEffect DEF SameTasks, ParallelFor, Submit, CallerGoto
<1>4. \A v \in Workers : \A t \in Owed(v)' : t.call # Current(c)'
  BY <1>1, <1>3 DEF TasksAllOK, TasksOK
<1>5. ASSUME NEW d \in Callers \ {c}
      PROVE  LoopOK(d)'
  <2>1. Current(d) \in failed' => Current(d) \in failed
    BY <1>2
  <2>2. \A v \in Workers : \A t \in Owed(v)' : t.call = Current(d) => t \in Owed(v)
    BY <1>3
  <2>3. LoopOK(d) /\ callerPc'[d] = callerPc[d] /\ frame'[d] = frame[d]
        /\ Current(d)' = Current(d)
    BY <1>1, <1>2 DEF LoopsOK
  <2> QED
    BY <2>1, <2>2, <2>3, LoopKept
<1>6. LoopOK(c)'
  <2>1. Current(c)' \notin failed'
    BY <1>1, <1>2
  <2>2. /\ Cardinality(Owing(c)') <= NumWorkers /\ Cardinality(Owing(c)') \in Nat
        /\ NumWorkers \in Nat
    <3>1. Owing(c)' \in SUBSET Workers /\ IsFiniteSet(Workers)
          /\ Cardinality(Workers) = NumWorkers
      BY WorkersFinite DEF Owing
    <3> QED
      BY <3>1, FS_Subset, FS_CardinalityType, ParallelAssumption
  <2> QED
    BY <1>2, <1>4, <2>1, <2>2 DEF LoopOK
<1> QED
  BY <1>1, <1>2, <1>5, <1>6 DEF LoopsOK

\* A slice goes from the caller to the worker: it is owed as before.
LEMMA LoopsSubmit ==
  ASSUME Shape, Shape', WorkersOK, TasksAllOK, LoopsOK, failed \subseteq Started,
         NEW c \in Callers, Submit(c)
  PROVE  LoopsOK' /\ (failed \subseteq Started)'
<1>0. PICK w, e : w = frame[c].next /\ e = NewTask(c)
  OBVIOUS
<1>1. /\ UNCHANGED <<calls, callerPc, failed>> /\ callerPc[c] = "submit"
      /\ frame' = [frame EXCEPT ![c] = NextSlice(frame[c])]
  BY DEF Submit, historyVars
<1>2. Started' = Started /\ \A d \in Callers : Current(d)' = Current(d)
  BY <1>1 DEF Started, Current
<1>3. /\ w \in Workers /\ e.call = Current(c) /\ e.joins = frame[c].joins
      /\ Owed(w)' = Owed(w) \cup {e}
      /\ \A v \in Workers \ {w} : Owed(v)' = Owed(v)
  BY <1>0, SubmitEffect DEF SameTasks, NewTask
<1>4. /\ frame'[c] = NextSlice(frame[c]) /\ frame[c] \in Frames
      /\ \A d \in Callers \ {c} : frame'[d] = frame[d]
  BY <1>1 DEF Shape
<1>5. /\ frame'[c].next = w + 1 /\ frame'[c].joins = frame[c].joins
      /\ frame'[c].worked_thread_count = frame[c].worked_thread_count
      /\ w \in Nat /\ frame[c].worked_thread_count \in Int
  BY <1>0, <1>4 DEF NextSlice, Frames
<1>6. ASSUME NEW d \in Callers \ {c}
      PROVE  LoopOK(d)'
  <2>1. Current(d) \in failed' => Current(d) \in failed
    BY <1>1
  <2>2. \A v \in Workers : \A t \in Owed(v)' : t.call = Current(d) => t \in Owed(v)
    BY <1>3 DEF Current
  <2>3. LoopOK(d) /\ callerPc'[d] = callerPc[d] /\ frame'[d] = frame[d]
        /\ Current(d)' = Current(d)
    BY <1>1, <1>2, <1>4 DEF LoopsOK
  <2> QED
    BY <2>1, <2>2, <2>3, LoopKept
<1>7. LoopOK(c)'
  <2>1. LoopOK(c)
    BY DEF LoopsOK
  <2>2. \A v \in Workers : \A t \in Owed(v)' :
          t.call = Current(c) => v < w + 1 /\ t.joins = frame[c].joins
    <3> SUFFICES ASSUME NEW v \in Workers, NEW t \in Owed(v)', t.call = Current(c)
                 PROVE  v < w + 1 /\ t.joins = frame[c].joins
      OBVIOUS
    <3>1. v \in Nat
      BY WorkersFinite
    <3>2. CASE t \in Owed(v)
      BY <1>1, <1>5, <2>1, <3>1, <3>2, <1>0 DEF LoopOK, InLoop
    <3>3. CASE t \notin Owed(v)
      <4>1. v = w /\ t = e
        BY <1>3, <3>3
      <4> QED
        BY <1>3, <1>5, <4>1
    <3> QED
      BY <3>2, <3>3
  <2>3. Owing(c)' = Owing(c)
    <3>1. ASSUME NEW v \in Workers
          PROVE  v \in Owing(c)' <=> v \in Owing(c)
      <4>1. CASE v = w
        <5>1. \E t \in Owed(v)' : t.call = Current(c)
          BY <1>3, <4>1
        <5> QED
          BY <1>2, <1>5, <4>1, <5>1, <1>0 DEF Owing
      <4>2. CASE v # w
        <5>1. frame'[c].next <= v <=> frame[c].next <= v
          BY <1>5, <4>2, <1>0, WorkersFinite
        <5> QED
          BY <1>2, <1>3, <4>2, <5>1 DEF Owing
      <4> QED
        BY <4>1, <4>2
    <3> QED
      BY <3>1 DEF Owing
  <2>4. frame[c].joins => frame[c].worked_thread_count >=
              Cardinality(Owing(c)) + (IF Current(c) \in failed THEN 1 ELSE 0)
    BY <1>1, <2>1 DEF LoopOK, InLoop
  <2>5. frame[c].worked_thread_count >= 0
    BY <2>1 DEF LoopOK
  <2> QED
    BY <1>1, <1>2, <1>5, <2>2, <2>3, <2>4, <2>5 DEF LoopOK
<1> QED
  BY <1>1, <1>2, <1>6, <1>7 DEF LoopsOK

LoopInv == WorkersOK /\ TasksAllOK /\ LoopsOK /\ failed \subseteq Started /\ TasksOutlived

\* What a worker's step does to the tasks whose caller has gone.
LEMMA OutlivedWorker ==
  ASSUME Shape, WorkersOK, TasksOutlived, NEW w \in Workers, WorkerStep(w) \/ WorkerThrows(w)
  PROVE  TasksOutlived'
<1>1. UNCHANGED <<callerPc, calls>> /\ failed \subseteq failed'
  BY DEF WorkerStep, WorkerThrows, Take, Run, CountOff, Finish, Restart,
     callerVars, historyVars
<1>2. \A call : Alive(call)' <=> Alive(call)
  BY <1>1 DEF Alive, Current
<1>3. \A v \in Workers : Owed(v)' \subseteq Owed(v)
  BY WorkerEffect
<1> QED
  BY <1>1, <1>2, <1>3 DEF TasksOutlived

\* Nobody's call dies with a task of it left, other than by an exception.
LEMMA OutlivedCaller ==
  ASSUME Shape, WorkersOK, TasksAllOK, LoopsOK, TasksOutlived, NEW c \in Callers,
         \/ \E joins \in BOOLEAN, r \in Ranges : ParallelFor(c, joins, r)
         \/ IsCompleted(c) \/ CallerStep(c) \/ CallerThrows(c),
         ~Submit(c)
  PROVE  TasksOutlived'
<1>1. \A v \in Workers : Owed(v)' = Owed(v)
  BY CallerEffect DEF SameTasks
<1>2. failed \subseteq failed'
  BY DEF ParallelFor, IsCompleted, CallerStep, CallerThrows, Whole, OwnSlice,
     Remainder, Wait,
         PollNext, PollTrue, historyVars
<1>3. /\ \A d \in Callers \ {c} : callerPc'[d] = callerPc[d] /\ Current(d)' = Current(d)
      /\ callerPc[c] \in InLoop =>
           \/ Current(c)' = Current(c) /\ callerPc'[c] \in InLoop
           \/ Current(c) \in failed'
           \/ Wait(c)
  <2>1. /\ \/ UNCHANGED callerPc
           \/ \E to : callerPc' = [callerPc EXCEPT ![c] = to]
        /\ callerPc \in [Callers -> InLoop \cup {"idle", "whole", "poll"}]
    <3>1. \/ UNCHANGED callerPc
          \/ \E to : callerPc' = [callerPc EXCEPT ![c] = to]
      BY DEF ParallelFor, IsCompleted, CallerStep, CallerThrows, Whole,
         OwnSlice, Remainder,
             Wait, PollNext, PollTrue, Return, CallerGoto
    <3> QED
      BY <3>1 DEF Shape
  <2>2. \A d \in Callers \ {c} : callerPc'[d] = callerPc[d]
    BY <2>1
  <2>3. \/ UNCHANGED calls
        \/ \E joins \in BOOLEAN, r \in Ranges : ParallelFor(c, joins, r)
    BY DEF IsCompleted, CallerStep, CallerThrows, Whole, OwnSlice, Remainder,
       Wait, PollNext,
           PollTrue
  <2>4. \A d \in Callers \ {c} : Current(d)' = Current(d)
    BY <2>3, StartedGrows
  <2>5. ASSUME callerPc[c] \in InLoop
        PROVE  \/ Current(c)' = Current(c) /\ callerPc'[c] \in InLoop
               \/ Current(c) \in failed'
               \/ Wait(c)
    <3>1. CASE OwnSlice(c) \/ Remainder(c)
      BY <2>1, <3>1 DEF OwnSlice, Remainder, CallerGoto, Current, InLoop
    <3>2. CASE CallerThrows(c)
      BY <3>2 DEF CallerThrows
    <3>3. callerPc[c] \notin {"idle", "whole", "poll"}
      BY <2>5 DEF InLoop
    <3>4. OwnSlice(c) \/ Remainder(c) \/ CallerThrows(c) \/ Wait(c)
      BY <3>3 DEF ParallelFor, IsCompleted, CallerStep, Whole, PollNext,
         PollTrue, Return,
                  CallerGoto
    <3> QED
      BY <3>1, <3>2, <3>4
  <2> QED
    BY <2>2, <2>4, <2>5
<1>4. ASSUME NEW w \in Workers, NEW t \in Owed(w), t.joins, t.call \notin failed'
      PROVE  Alive(t.call)'
  <2>1. Alive(t.call)
    BY <1>2, <1>4 DEF TasksOutlived
  <2>2. t.call \in CallIds
    BY <1>4, Members DEF Tasks
  <2>3. t.call[1] \in Callers
    BY <2>2 DEF CallIds
  <2>4. CASE t.call[1] # c
    BY <1>3, <2>1, <2>3, <2>4 DEF Alive
  <2>5. CASE t.call[1] = c
    <3>1. t.call = Current(c) /\ callerPc[c] \in InLoop
      BY <2>1, <2>5 DEF Alive, InLoop
    <3>2. ~Wait(c)
      <4> SUFFICES ASSUME Wait(c)
                   PROVE  FALSE
        OBVIOUS
      <4>1. frame[c].joins /\ w \in Owing(c)
        BY <1>4, <3>1 DEF LoopsOK, LoopOK, Owing
      <4>2. frame[c].worked_thread_count = 0
        BY <4>1 DEF Wait
      <4>3. /\ 0 >= Cardinality(Owing(c)) + (IF Current(c) \in failed THEN 1 ELSE 0)
        BY <3>1, <4>1, <4>2 DEF LoopsOK, LoopOK
      <4>4. IsFiniteSet(Owing(c)) /\ Cardinality(Owing(c)) \in Nat
        BY WorkersFinite
      <4>5. Cardinality(Owing(c)) = 0
        BY <4>3, <4>4
      <4> QED
        BY <4>1, <4>4, <4>5, FS_EmptySet
    <3>3. Current(c)' = Current(c) /\ callerPc'[c] \in InLoop
      BY <1>3, <1>4, <3>1, <3>2
    <3> QED
      BY <2>5, <3>1, <3>3 DEF Alive, InLoop
  <2> QED
    BY <2>4, <2>5
<1> QED
  BY <1>1, <1>4 DEF TasksOutlived

\* A task is handed out by a call that is there.
LEMMA OutlivedSubmit ==
  ASSUME Shape, WorkersOK, TasksOutlived, NEW c \in Callers, Submit(c)
  PROVE  TasksOutlived'
<1>0. PICK w, e : w = frame[c].next /\ e = NewTask(c)
  OBVIOUS
<1>1. UNCHANGED <<callerPc, calls, failed>> /\ callerPc[c] = "submit"
  BY DEF Submit, historyVars
<1>2. \A call : Alive(call)' <=> Alive(call)
  BY <1>1 DEF Alive, Current
<1>3. /\ e.call = Current(c) /\ Owed(w)' = Owed(w) \cup {e}
      /\ \A v \in Workers \ {w} : Owed(v)' = Owed(v)
  BY <1>0, SubmitEffect DEF SameTasks, NewTask
<1>4. Alive(e.call)
  BY <1>1, <1>3 DEF Alive, Current
<1>5. ASSUME NEW v \in Workers, NEW t \in Owed(v)', t.joins
      PROVE  Alive(t.call)' \/ t.call \in failed'
  <2>1. t \in Owed(v) \/ t = e
    BY <1>3
  <2> QED
    BY <1>1, <1>2, <1>4, <1>5, <2>1 DEF TasksOutlived
<1> QED
  BY <1>5 DEF TasksOutlived

\* In the beginning nobody has anything.
LEMMA LoopInit == Init => Shape /\ LoopInv
<1> SUFFICES ASSUME Init
             PROVE  Shape /\ LoopInv
  OBVIOUS
<1>1. Shape
  <2>1. queue \in [Workers -> Seq(Tasks)] /\ running \in [Workers -> Tasks \cup {NoTask}]
    BY DEF Init
  <2>2. frame \in [Callers -> Frames]
    <3>1. NoFrame \in Frames
      BY DEF NoFrame, Frames
    <3> QED
      BY <3>1 DEF Init
  <2>3. finished \in [Workers -> SUBSET Nat] /\ submitted \in [Workers -> Nat]
    BY DEF Init
  <2>4. calls \in [Callers -> Seq(Ranges)] /\ \A c \in Callers : Len(calls[c]) = 0
    BY DEF Init
  <2>5. done \in [CallIds -> [Indices -> Nat]]
    BY DEF Init
  <2>6. /\ workerPc \in [Workers -> {"idle", "run", "countOff", "finish", "restart"}]
        /\ completed \in [Workers -> BOOLEAN]
        /\ callerPc \in [Callers -> InLoop \cup {"idle", "whole", "poll"}]
        /\ failed \subseteq CallIds /\ joined \subseteq CallIds /\ throws \in Nat
    BY DEF Init
  <2>7. /\ \A w \in Workers : workerPc[w] = "idle"
        /\ \A c \in Callers : callerPc[c] = "idle"
    BY DEF Init
  <2> QED
    BY <2>1, <2>2, <2>3, <2>4, <2>5, <2>6, <2>7, ParallelAssumption DEF Shape, InLoop
<1>2. \A w \in Workers : queue[w] = <<>> /\ running[w] = NoTask /\ workerPc[w] = "idle"
                          /\ submitted[w] = 0 /\ NoTask.id = 0
  BY DEF Init, NoTask
<1>3. \A w \in Workers : Queued(w) = {} /\ Owed(w) = {}
  BY <1>2 DEF Queued, Owed, Range
<1>4. WorkersOK
  BY <1>2, <1>3 DEF WorkersOK, WorkerOK, Sorted
<1>5. TasksAllOK /\ TasksOutlived
  BY <1>3 DEF TasksAllOK, TasksOK, TasksOutlived
<1>6. LoopsOK
  BY DEF Init, LoopsOK, LoopOK, NoFrame, InLoop
<1> QED
  BY <1>1, <1>4, <1>5, <1>6 DEF LoopInv, Init

\* Every step keeps the types.
LEMMA ShapeNext ==
  ASSUME Shape, [Next]_vars
  PROVE  Shape'
<1>1. ASSUME NEW c \in Callers,
             \/ \E joins \in BOOLEAN, r \in Ranges : ParallelFor(c, joins, r)
             \/ IsCompleted(c) \/ CallerStep(c) \/ CallerThrows(c)
      PROVE  Shape'
  BY <1>1, CallerShape
<1>2. ASSUME NEW w \in Workers, WorkerStep(w) \/ WorkerThrows(w)
      PROVE  Shape'
  BY <1>2, WorkerShape
<1>3. CASE UNCHANGED vars
  <2> USE <1>3 DEF vars, workerVars, callerVars, historyVars
  <2> QED
    BY DEF Shape
<1> QED
  BY <1>1, <1>2, <1>3 DEF Next

\* Every step keeps the debts of the loops.
LEMMA LoopInvNext ==
  ASSUME Shape, LoopInv, [Next]_vars
  PROVE  LoopInv'
<1>s. Shape'
  BY ShapeNext
<1>1. ASSUME NEW c \in Callers, Submit(c)
      PROVE  LoopInv'
  <2>1. WorkersOK'
    <3>0. PICK w, e : w = frame[c].next /\ e = NewTask(c)
      OBVIOUS
    <3> QED
      BY <1>1, <3>0, SubmitEffect DEF LoopInv, WorkersOK
  <2> QED
    BY <1>s, <1>1, <2>1, TasksSubmit, LoopsSubmit, OutlivedSubmit DEF LoopInv, LoopsOK
<1>2. ASSUME NEW c \in Callers, NEW joins \in BOOLEAN, NEW r \in Ranges,
             ParallelFor(c, joins, r)
      PROVE  LoopInv'
  <2>1. ~Submit(c)
    BY <1>2 DEF ParallelFor, Submit, CallerGoto
  <2>2. WorkersOK'
    BY <1>2, <2>1, CallerEffect DEF LoopInv
  <2>3. TasksAllOK' /\ TasksOutlived'
    BY <1>2, <2>1, TasksCaller, OutlivedCaller DEF LoopInv
  <2> QED
    BY <1>s, <1>2, <2>2, <2>3, LoopsBegin DEF LoopInv
<1>3. ASSUME NEW c \in Callers, IsCompleted(c) \/ CallerStep(c) \/ CallerThrows(c), ~Submit(c)
      PROVE  LoopInv'
  <2>2. WorkersOK'
    BY <1>3, CallerEffect DEF LoopInv
  <2>3. TasksAllOK' /\ TasksOutlived'
    BY <1>3, TasksCaller, OutlivedCaller DEF LoopInv
  <2> QED
    BY <1>s, <1>3, <2>2, <2>3, LoopsCaller DEF LoopInv
<1>4. ASSUME NEW w \in Workers, WorkerStep(w) \/ WorkerThrows(w)
      PROVE  LoopInv'
  <2>1. LoopsOK' /\ (failed \subseteq Started)'
    BY <1>s, <1>4, LoopsWorker, LoopsCountOff DEF LoopInv
  <2> QED
    BY <1>4, <2>1, WorkerEffect, TasksWorker, OutlivedWorker DEF LoopInv
<1>5. CASE UNCHANGED vars
  <2>1. UNCHANGED <<queue, running, workerPc, completed, submitted, callerPc, frame, calls,
                    failed>>
    BY <1>5 DEF vars, workerVars, callerVars, historyVars
  <2>2. /\ \A w \in Workers : Queued(w)' = Queued(w) /\ Owed(w)' = Owed(w)
        /\ \A c : Current(c)' = Current(c) /\ Owing(c)' = Owing(c)
        /\ \A call : Alive(call)' = Alive(call)
        /\ Started' = Started
    BY <2>1 DEF Queued, Owed, Current, Owing, Alive, Started
  <2>3. WorkersOK'
    BY <2>1, <2>2 DEF LoopInv, WorkersOK, WorkerOK
  <2>4. TasksAllOK' /\ TasksOutlived'
    BY <2>1, <2>2 DEF LoopInv, TasksAllOK, TasksOK, TasksOutlived
  <2>5. LoopsOK'
    BY <2>1, <2>2 DEF LoopInv, LoopsOK, LoopOK
  <2> QED
    BY <2>1, <2>2, <2>3, <2>4, <2>5 DEF LoopInv
<1> QED
  BY <1>1, <1>2, <1>3, <1>4, <1>5 DEF Next

\* The counter of a loop is never below the number of the workers that have still
\* to count off: the types, the order of the tasks and the debts are invariant.
THEOREM LoopInvariant == Spec => [](Shape /\ LoopInv)
<1>1. Init => Shape /\ LoopInv
  BY LoopInit
<1>2. (Shape /\ LoopInv) /\ [Next]_vars => (Shape /\ LoopInv)'
  BY ShapeNext, LoopInvNext
<1> QED
  BY <1>1, <1>2, PTL DEF Spec

\* Every variable keeps its type; worked_thread_count never drops below 0.
THEOREM TypeCorrect == Spec => []TypeOK
<1>1. Shape /\ LoopInv => TypeOK
  <2> SUFFICES ASSUME Shape, LoopInv
               PROVE  TypeOK
    OBVIOUS
  <2>1. \A c \in Callers : frame[c] \in Frames /\ frame[c].worked_thread_count >= 0
    BY DEF Shape, LoopInv, LoopsOK, LoopOK
  <2>2. ASSUME NEW f \in Frames, f.worked_thread_count >= 0
        PROVE  f \in [joins : BOOLEAN, a : Nat, b : Nat, works_per_thread : Nat,
                      remainder_works : Nat, worked_thread_count : Nat, next : Nat]
    BY <2>2 DEF Frames
  <2>3. frame \in [Callers ->
          [joins : BOOLEAN, a : Nat, b : Nat, works_per_thread : Nat,
           remainder_works : Nat, worked_thread_count : Nat, next : Nat]]
    <3>1. frame \in [Callers -> Frames]
      BY DEF Shape
    <3> QED
      BY <2>1, <2>2, <3>1
  <2> QED
    BY <2>3 DEF TypeOK, Shape, InLoop
<1> QED
  BY <1>1, LoopInvariant, PTL

\* A parallel_for() that no exception leaves is there, with func and the counter,
\* as long as a worker has a task of it.
THEOREM LocalsOutliveTasksCorrect == Spec => []LocalsOutliveTasks
<1>1. Shape /\ LoopInv => LocalsOutliveTasks
  <2> SUFFICES ASSUME Shape, LoopInv, NEW w \in Workers,
                      NEW t \in Range(queue[w]) \cup {running[w]}, t.joins,
                      t = running[w] => workerPc[w] \in {"run", "countOff"}
               PROVE  Alive(t.call) \/ t.call \in failed
    BY DEF LocalsOutliveTasks
  <2>1. t \in Owed(w)
    BY DEF Owed, Queued
  <2> QED
    BY <2>1 DEF LoopInv, TasksOutlived
<1> QED
  BY <1>1, LoopInvariant, PTL

\* Who has counted the current call off has nothing of the caller's left.
BehindOK(c) ==
  /\ callerPc[c] \in InLoop /\ Current(c) \notin failed =>
       \A w \in Workers \ Owing(c) : \A t \in Todo(w) : t.call[1] # c
  /\ callerPc[c] = "poll" =>
       \A w \in Workers : w < frame[c].next => \A t \in Todo(w) : t.call[1] # c

BehindsOK == \A c \in Callers : BehindOK(c)

\* What is joined has been run.
JoinedOK(k) == k \in joined \ failed =>
  /\ \A w \in Workers : \A t \in Todo(w) : t.call # k
  /\ k = Current(k[1]) => callerPc[k[1]] \in {"idle", "poll"}

AllJoinedOK == joined \subseteq Started /\ \A k \in CallIds : JoinedOK(k)

AnyCallerStep(c) ==
  \/ \E joins \in BOOLEAN, r \in Ranges : ParallelFor(c, joins, r)
  \/ IsCompleted(c) \/ CallerStep(c) \/ CallerThrows(c)

\* A caller's step leaves the other callers as they are.
LEMMA OthersSame ==
  ASSUME Shape, NEW c \in Callers, AnyCallerStep(c)
  PROVE  /\ \A d \in Callers \ {c} : callerPc'[d] = callerPc[d] /\ frame'[d] = frame[d]
                                      /\ calls'[d] = calls[d] /\ Current(d)' = Current(d)
         /\ failed \subseteq failed'
<1>1. /\ \/ UNCHANGED callerPc
         \/ \E to : callerPc' = [callerPc EXCEPT ![c] = to]
      /\ \/ UNCHANGED frame
         \/ \E f : frame' = [frame EXCEPT ![c] = f]
      /\ \/ UNCHANGED calls
         \/ \E q : calls' = [calls EXCEPT ![c] = q]
  <2>1. CASE \E joins \in BOOLEAN, r \in Ranges : ParallelFor(c, joins, r)
    BY <2>1 DEF ParallelFor, CallerGoto
  <2>2. CASE IsCompleted(c)
    BY <2>2 DEF IsCompleted, CallerGoto
  <2>3. CASE Whole(c) \/ Wait(c) \/ PollTrue(c) \/ CallerThrows(c)
    BY <2>3 DEF Whole, Wait, PollTrue, CallerThrows, Return, CallerGoto
  <2>4. CASE OwnSlice(c) \/ Remainder(c)
    BY <2>4 DEF OwnSlice, Remainder, CallerGoto
  <2>5. CASE PollNext(c)
    BY <2>5 DEF PollNext, Return, CallerGoto
  <2>6. CASE Submit(c)
    BY <2>6 DEF Submit
  <2> QED
    BY <2>1, <2>2, <2>3, <2>4, <2>5, <2>6 DEF CallerStep, AnyCallerStep
<1>2. callerPc \in [Callers -> InLoop \cup {"idle", "whole", "poll"}]
      /\ frame \in [Callers -> Frames] /\ calls \in [Callers -> Seq(Ranges)]
  BY DEF Shape
<1>3. \A d \in Callers \ {c} : callerPc'[d] = callerPc[d]
  BY <1>1, <1>2
<1>4. \A d \in Callers \ {c} : frame'[d] = frame[d]
  BY <1>1, <1>2
<1>5. \A d \in Callers \ {c} : calls'[d] = calls[d]
  BY <1>1, <1>2
<1>6. failed \subseteq failed'
  BY DEF AnyCallerStep, ParallelFor, IsCompleted, CallerStep, CallerThrows,
     Submit, Whole,
         OwnSlice, Remainder, Wait, PollNext, PollTrue, historyVars
<1> QED
  BY <1>3, <1>4, <1>5, <1>6 DEF Current

\* What a worker runs now comes before what it has queued.
LEMMA LastOfCaller ==
  ASSUME Shape, LoopInv, NEW w \in Workers, NEW c \in Callers,
         running[w] \in Owed(w), running[w].call = Current(c)
  PROVE  \A t \in Queued(w) : t.call[1] # c
<1> SUFFICES ASSUME NEW t \in Queued(w), t.call[1] = c
             PROVE  FALSE
  OBVIOUS
<1>1. t \in Owed(w)
  BY DEF Owed
<1>2. running[w].id < t.id
  BY DEF LoopInv, WorkersOK, WorkerOK
<1>3. running[w].call[1] = c /\ running[w].call[2] = Len(calls[c])
  BY DEF Current
<1>4. running[w].call[2] < t.call[2]
  BY <1>1, <1>2, <1>3 DEF LoopInv, TasksAllOK, TasksOK
<1>5. t.call \in Started
  BY <1>1 DEF LoopInv, TasksAllOK, TasksOK
<1>6. t.call[2] <= Len(calls[c]) /\ t.call[2] \in Nat /\ Len(calls[c]) \in Nat
  BY <1>5, ParallelAssumption DEF Started, CallIds, Shape
<1> QED
  BY <1>3, <1>4, <1>6

\* A step that gives no worker anything of c keeps it so.
LEMMA BehindKept ==
  ASSUME NEW c \in Callers, BehindOK(c), callerPc'[c] = callerPc[c], frame'[c] = frame[c],
         Current(c)' = Current(c), failed \subseteq failed',
         \A v \in Workers : \A t \in Todo(v)' : t.call[1] = c => t \in Todo(v),
         \A v \in Owing(c) \ Owing(c)' :
            Current(c) \in failed' \/ \A t \in Todo(v)' : t.call[1] # c
  PROVE  BehindOK(c)'
<1>1. ASSUME callerPc[c] \in InLoop, Current(c) \notin failed',
             NEW w \in Workers \ Owing(c)', NEW t \in Todo(w)'
      PROVE  t.call[1] # c
  <2>1. CASE w \in Owing(c)
    BY <1>1, <2>1
  <2>2. CASE w \notin Owing(c)
    BY <1>1, <2>2 DEF BehindOK
  <2> QED
    BY <2>1, <2>2
<1>2. ASSUME callerPc[c] = "poll", NEW w \in Workers, w < frame[c].next, NEW t \in Todo(w)'
      PROVE  t.call[1] # c
  BY <1>2 DEF BehindOK
<1> QED
  BY <1>1, <1>2 DEF BehindOK

\* A worker that is done with the current call has nothing of its caller left.
LEMMA BehindWorker ==
  ASSUME Shape, LoopInv, BehindsOK, NEW w \in Workers, WorkerStep(w) \/ WorkerThrows(w)
  PROVE  BehindsOK'
<1>1. /\ \A v \in Workers : Owed(v)' \subseteq Owed(v) /\ Todo(v)' \subseteq Todo(v)
      /\ \A v \in Workers \ {w} : Owed(v)' = Owed(v)
  <2>1. \A v \in Workers : Owed(v)' \subseteq Owed(v) /\ Todo(v)' \subseteq Todo(v)
    BY WorkerEffect DEF LoopInv
  <2>2. \A v \in Workers \ {w} : SameTasks(v)
    BY TakeEffect, RunEffect, CountOffEffect, FinishEffect, ThrowEffect, RestartEffect
       DEF LoopInv, WorkerStep
  <2> QED
    BY <2>1, <2>2 DEF SameTasks
<1>2. ASSUME NEW c \in Callers, ~CountOff(w)
      PROVE  BehindOK(c)'
  <2>1. UNCHANGED <<callerPc, frame, calls>> /\ failed \subseteq failed'
    BY <1>2 DEF WorkerStep, WorkerThrows, Take, Run, Finish, Restart,
       callerVars, historyVars
  <2>2. callerPc'[c] = callerPc[c] /\ frame'[c] = frame[c] /\ Current(c)' = Current(c)
    BY <2>1 DEF Current
  <2>3. ASSUME NEW v \in Owing(c) \ Owing(c)'
        PROVE  Current(c) \in failed' \/ \A t \in Todo(v)' : t.call[1] # c
    <3>1. v = w /\ \E t \in Owed(w) : t.call = Current(c) /\ t \notin Owed(w)'
      BY <1>1, <2>2, <2>3 DEF Owing
    <3>2. CASE Take(w) \/ Finish(w)
      BY <3>1, <3>2, TakeEffect, FinishEffect DEF LoopInv, SameTasks
    <3>3. CASE Run(w)
      <4>1. running[w].call = Current(c) /\ running[w] \in Owed(w)
        BY <3>1, <3>3, RunEffect DEF LoopInv
      <4>2. Todo(w)' \subseteq Queued(w)
        BY <3>3, RunEffect DEF LoopInv, Todo
      <4> QED
        BY <3>1, <4>1, <4>2, LastOfCaller
    <3>4. CASE WorkerThrows(w)
      <4>1. Owed(w)' = Owed(w) \ {running[w]}
        BY <3>4, ThrowEffect DEF LoopInv
      <4> QED
        BY <3>1, <3>4, <4>1 DEF WorkerThrows
    <3>5. CASE Restart(w)
      <4>1. Owed(w) = Queued(w)
        BY <3>5, RestartEffect DEF LoopInv
      <4> QED
        BY <3>1, <3>5, <4>1 DEF Restart, Queued
    <3> QED
      BY <1>2, <3>2, <3>3, <3>4, <3>5 DEF WorkerStep
  <2>4. BehindOK(c) /\ \A v \in Workers : \A t \in Todo(v)' : t.call[1] = c => t \in Todo(v)
    BY <1>1 DEF BehindsOK
  <2> QED
    BY <2>1, <2>2, <2>3, <2>4, BehindKept
<1>3. ASSUME NEW c \in Callers, CountOff(w)
      PROVE  BehindOK(c)'
  <2>1. UNCHANGED <<callerPc, calls, failed>> /\ Current(c)' = Current(c)
    BY <1>3 DEF CountOff, historyVars, Current
  <2>2. frame'[c].next = frame[c].next
    <3>1. frame' = IF Alive(running[w].call)
                   THEN [frame EXCEPT ![running[w].call[1]] =
                           CountOffOne(frame[running[w].call[1]])]
                   ELSE frame
      BY <1>3 DEF CountOff
    <3>2. frame[c] \in Frames /\ frame \in [Callers -> Frames]
      BY DEF Shape
    <3>3. frame'[c] = frame[c] \/ frame'[c] = CountOffOne(frame[c])
      BY <3>1, <3>2
    <3> QED
      BY <3>2, <3>3 DEF CountOffOne, Frames
  <2>3. ASSUME NEW v \in Owing(c) \ Owing(c)'
        PROVE  \A t \in Todo(v)' : t.call[1] # c
    <3>1. v = w /\ \E t \in Owed(w) : t.call = Current(c) /\ t \notin Owed(w)'
      BY <1>1, <2>1, <2>2, <2>3 DEF Owing
    <3>2. running[w].call = Current(c) /\ running[w] \in Owed(w)
      BY <1>3, <3>1, CountOffEffect DEF LoopInv
    <3>3. Todo(w) = Queued(w)
      BY <1>3 DEF CountOff, WorkerGoto, Todo
    <3> QED
      BY <1>1, <3>1, <3>2, <3>3, LastOfCaller
  <2>4. BehindOK(c) /\ \A v \in Workers : \A t \in Todo(v)' : t \in Todo(v)
    BY <1>1 DEF BehindsOK
  <2>5. ASSUME callerPc[c] \in InLoop, Current(c) \notin failed,
               NEW v \in Workers \ Owing(c)', NEW t \in Todo(v)'
        PROVE  t.call[1] # c
    <3>1. CASE v \in Owing(c)
      BY <2>3, <2>5, <3>1
    <3>2. CASE v \notin Owing(c)
      BY <2>4, <2>5, <3>2 DEF BehindOK
    <3> QED
      BY <3>1, <3>2
  <2>6. callerPc[c] = "poll" =>
          \A v \in Workers : v < frame[c].next => \A t \in Todo(v)' : t.call[1] # c
    BY <2>4 DEF BehindOK
  <2> QED
    BY <2>1, <2>2, <2>5, <2>6 DEF BehindOK
<1> QED
  BY <1>2, <1>3 DEF BehindsOK

\* Only Submit changes what the workers have to do.
LEMMA TodoSame ==
  ASSUME Shape, LoopInv, NEW c \in Callers, AnyCallerStep(c), ~Submit(c)
  PROVE  \A v \in Workers : Todo(v)' = Todo(v) /\ Owed(v)' = Owed(v)
  BY CallerEffect DEF LoopInv, SameTasks, AnyCallerStep

\* Submit gives the slice to one worker.
LEMMA TodoSubmit ==
  ASSUME Shape, LoopInv, NEW c \in Callers, Submit(c),
         NEW w, w = frame[c].next, NEW e, e = NewTask(c)
  PROVE  /\ w \in Workers /\ Todo(w)' = Todo(w) \cup {e} /\ Owed(w)' = Owed(w) \cup {e}
         /\ \A v \in Workers \ {w} : Todo(v)' = Todo(v) /\ Owed(v)' = Owed(v)
         /\ e.call = Current(c) /\ e \in Tasks
  BY SubmitEffect DEF LoopInv, SameTasks, NewTask

\* is_completed() goes past a worker only when that has nothing left.
LEMMA BehindCaller ==
  ASSUME Shape, Shape', LoopInv, BehindsOK, NEW c \in Callers, AnyCallerStep(c), ~Submit(c)
  PROVE  BehindsOK'
<1>1. \A v \in Workers : Todo(v)' = Todo(v) /\ Owed(v)' = Owed(v)
  BY TodoSame
<1>2. ASSUME NEW d \in Callers \ {c}
      PROVE  BehindOK(d)'
  <2>1. /\ callerPc'[d] = callerPc[d] /\ frame'[d] = frame[d]
        /\ Current(d)' = Current(d) /\ failed \subseteq failed'
    BY OthersSame
  <2>2. Owing(d)' = Owing(d)
    BY <1>1, <2>1 DEF Owing
  <2> QED
    BY <1>1, <2>1, <2>2, BehindKept DEF BehindsOK
<1>3. BehindOK(c)'
  <2>1. CASE Whole(c) \/ Wait(c) \/ PollTrue(c) \/ CallerThrows(c)
    <3>1. callerPc' = [callerPc EXCEPT ![c] = "idle"]
      BY <2>1 DEF Whole, Wait, PollTrue, CallerThrows, Return, CallerGoto
    <3>2. callerPc'[c] = "idle"
      BY <3>1 DEF Shape
    <3> QED
      BY <3>2 DEF BehindOK, InLoop
  <2>2. CASE IsCompleted(c)
    <3>1. callerPc' = [callerPc EXCEPT ![c] = "poll"]
          /\ frame' = [frame EXCEPT ![c] = [NoFrame EXCEPT !.next = 1]]
      BY <2>2 DEF IsCompleted, CallerGoto
    <3>2. callerPc'[c] = "poll" /\ frame'[c].next = 1
      BY <3>1 DEF Shape, NoFrame
    <3>3. \A w \in Workers : ~(w < 1)
      BY DEF Workers
    <3> QED
      BY <3>2, <3>3 DEF BehindOK, InLoop
  <2>3. CASE PollNext(c)
    <3>1. callerPc[c] = "poll" /\ frame[c].next \in Workers /\ BehindOK(c)
      BY <2>3 DEF PollNext, BehindsOK
    <3>2. CASE ~completed[frame[c].next]
      <4>1. callerPc'[c] = "idle"
        BY <2>3, <3>2 DEF PollNext, Return, CallerGoto, Shape
      <4> QED
        BY <4>1 DEF BehindOK, InLoop
    <3>3. CASE completed[frame[c].next]
      <4>1. callerPc'[c] = "poll" /\ frame'[c] = [frame[c] EXCEPT !.next = frame[c].next + 1]
        BY <2>3, <3>1, <3>3 DEF PollNext, Shape
      <4>2. frame'[c].next = frame[c].next + 1
        BY <4>1 DEF Shape, Frames
      <4>3. queue[frame[c].next] = <<>> /\ workerPc[frame[c].next] = "idle"
        BY <3>1, <3>3 DEF LoopInv, WorkersOK, WorkerOK
      <4>4. Todo(frame[c].next) = {}
        BY <4>3 DEF Todo, Queued, Range
      <4>5. \A w \in Workers : w < frame[c].next + 1 => w < frame[c].next \/ w = frame[c].next
        <5>1. Workers \subseteq Nat /\ frame[c].next \in Nat
          BY <3>1, WorkersFinite
        <5>2. ASSUME NEW w \in Nat, NEW n \in Nat, w < n + 1
              PROVE  w < n \/ w = n
          BY <5>2
        <5> QED
          BY <5>1, <5>2
      <4> QED
        BY <1>1, <3>1, <4>1, <4>2, <4>4, <4>5 DEF BehindOK, InLoop
    <3> QED
      BY <3>2, <3>3
  <2>4. CASE OwnSlice(c) \/ Remainder(c)
    <3>1. /\ UNCHANGED <<frame, failed, calls>> /\ callerPc[c] \in InLoop
          /\ callerPc'[c] \in InLoop
      BY <2>4 DEF OwnSlice, Remainder, CallerGoto, Shape, InLoop
    <3>2. Owing(c)' = Owing(c) /\ Current(c)' = Current(c)
      BY <1>1, <3>1 DEF Owing, Current
    <3>3. callerPc'[c] # "poll"
      BY <3>1 DEF InLoop
    <3> QED
      BY <1>1, <3>1, <3>2, <3>3 DEF BehindsOK, BehindOK
  <2>5. CASE \E joins \in BOOLEAN, r \in Ranges : ParallelFor(c, joins, r)
    <3>1. frame'[c].next = 1 /\ callerPc'[c] # "poll"
      BY <2>5 DEF ParallelFor, CallerGoto, Shape
    <3>2. \A w \in Workers : 1 <= w
      BY DEF Workers
    <3>3. Workers \ Owing(c)' = {}
      BY <3>1, <3>2 DEF Owing
    <3> QED
      BY <3>1, <3>3 DEF BehindOK
  <2> QED
    BY <2>1, <2>2, <2>3, <2>4, <2>5 DEF AnyCallerStep, CallerStep
<1> QED
  BY <1>2, <1>3 DEF BehindsOK

\* Who gets a slice has not counted it off.
LEMMA BehindSubmit ==
  ASSUME Shape, LoopInv, BehindsOK, NEW c \in Callers, Submit(c)
  PROVE  BehindsOK'
<1>0. PICK w, e : w = frame[c].next /\ e = NewTask(c)
  OBVIOUS
<1>1. /\ w \in Workers /\ Todo(w)' = Todo(w) \cup {e} /\ Owed(w)' = Owed(w) \cup {e}
      /\ \A v \in Workers \ {w} : Todo(v)' = Todo(v) /\ Owed(v)' = Owed(v)
      /\ e.call = Current(c)
  BY <1>0, TodoSubmit
<1>2. ASSUME NEW d \in Callers \ {c}
      PROVE  BehindOK(d)'
  <2>1. /\ callerPc'[d] = callerPc[d] /\ frame'[d] = frame[d]
        /\ Current(d)' = Current(d) /\ failed \subseteq failed'
    BY OthersSame DEF AnyCallerStep, CallerStep
  <2>2. \A v \in Workers : \A t \in Todo(v)' : t.call[1] = d => t \in Todo(v)
    BY <1>1 DEF Current
  <2>3. Owing(d) \subseteq Owing(d)'
    BY <1>1, <2>1 DEF Owing
  <2> QED
    BY <2>1, <2>2, <2>3, BehindKept DEF BehindsOK
<1>3. BehindOK(c)'
  <2>1. UNCHANGED <<callerPc, calls, failed>> /\ callerPc[c] = "submit" /\ Current(c)' = Current(c)
    BY DEF Submit, historyVars, Current
  <2>2. frame'[c] = NextSlice(frame[c]) /\ frame[c] \in Frames
    BY DEF Submit, Shape
  <2>3. frame'[c].next = w + 1 /\ w \in Nat
    BY <1>0, <2>2 DEF NextSlice, Frames
  <2>4. \A v \in Workers \ {w} : v \in Owing(c) => v \in Owing(c)'
    <3> SUFFICES ASSUME NEW v \in Workers \ {w}, v \in Owing(c)
                 PROVE  v \in Owing(c)'
      OBVIOUS
    <3>1. v \in Nat /\ v # w
      BY WorkersFinite
    <3>2. w <= v => w + 1 <= v
      BY <2>3, <3>1
    <3> QED
      BY <1>0, <1>1, <2>1, <2>3, <3>2 DEF Owing
  <2>5. w \in Owing(c)'
    BY <1>1, <2>1 DEF Owing
  <2>6. ASSUME Current(c) \notin failed, NEW v \in Workers \ Owing(c)', NEW t \in Todo(v)'
        PROVE  t.call[1] # c
    BY <1>1, <2>1, <2>4, <2>5, <2>6 DEF BehindsOK, BehindOK, InLoop
  <2> QED
    BY <2>1, <2>6 DEF BehindOK
<1> QED
  BY <1>2, <1>3 DEF BehindsOK

\* What is joined stays joined when workers go on,
LEMMA JoinedWorker ==
  ASSUME Shape, LoopInv, AllJoinedOK, NEW w \in Workers, WorkerStep(w) \/ WorkerThrows(w)
  PROVE  AllJoinedOK'
<1>1. \A v \in Workers : Todo(v)' \subseteq Todo(v)
  BY WorkerEffect DEF LoopInv
<1>2. UNCHANGED <<callerPc, calls, joined>> /\ failed \subseteq failed'
  BY DEF WorkerStep, WorkerThrows, Take, Run, CountOff, Finish, Restart,
     callerVars, historyVars
<1>3. Started' = Started /\ \A k : Current(k[1])' = Current(k[1])
  BY <1>2 DEF Started, Current
<1> QED
  BY <1>1, <1>2, <1>3 DEF AllJoinedOK, JoinedOK

\* Whoever knows a loop to be done knows it of all that came before.
LEMMA JoinedAll ==
  ASSUME Shape, LoopInv, BehindsOK, NEW c \in Callers,
         PollTrue(c) \/ (Wait(c) /\ frame[c].joins)
  PROVE  \A w \in Workers : \A t \in Todo(w) : t.call[1] # c
<1>1. CASE PollTrue(c)
  <2>1. callerPc[c] = "poll" /\ frame[c].next \notin Workers
    BY <1>1 DEF PollTrue, Return, CallerGoto
  <2>2. frame[c].next \in Nat /\ frame[c].next >= 1
    BY <2>1 DEF Shape, Frames, LoopInv, LoopsOK, LoopOK
  <2>3. \A w \in Workers : w < frame[c].next
    BY <2>1, <2>2, ParallelAssumption DEF Workers
  <2> QED
    BY <2>1, <2>3 DEF BehindsOK, BehindOK
<1>2. CASE Wait(c) /\ frame[c].joins
  <2>1. callerPc[c] = "wait" /\ frame[c].worked_thread_count = 0
    BY <1>2 DEF Wait, Return, CallerGoto
  <2>2. 0 >= Cardinality(Owing(c)) + (IF Current(c) \in failed THEN 1 ELSE 0)
    BY <1>2, <2>1 DEF LoopInv, LoopsOK, LoopOK, InLoop
  <2>3. IsFiniteSet(Owing(c)) /\ Cardinality(Owing(c)) \in Nat
    BY WorkersFinite
  <2>4. Cardinality(Owing(c)) = 0 /\ Current(c) \notin failed
    BY <2>2, <2>3
  <2>5. Owing(c) = {}
    BY <2>3, <2>4, FS_EmptySet
  <2> QED
    BY <2>1, <2>4, <2>5 DEF BehindsOK, BehindOK, InLoop
<1> QED
  BY <1>1, <1>2

\* and is joined by whoever has waited for it, or polled.
LEMMA JoinedCaller ==
  ASSUME Shape, Shape', LoopInv, BehindsOK, AllJoinedOK, NEW c \in Callers,
         AnyCallerStep(c), ~Submit(c)
  PROVE  AllJoinedOK'
<1>1. \A v \in Workers : Todo(v)' = Todo(v)
  BY TodoSame
<1>2. /\ \A d \in Callers \ {c} : callerPc'[d] = callerPc[d] /\ Current(d)' = Current(d)
      /\ failed \subseteq failed'
  BY OthersSame
<1>3. CASE PollTrue(c) \/ (Wait(c) /\ frame[c].joins)
  <2>1. joined' = joined \cup CallsOf(c) /\ UNCHANGED calls
    BY <1>3 DEF PollTrue, Wait
  <2>2. Started' = Started /\ Current(c)' = Current(c)
    BY <2>1 DEF Started, Current
  <2>3. callerPc'[c] = "idle"
    BY <1>3 DEF PollTrue, Wait, Return, CallerGoto, Shape
  <2>4. joined' \subseteq Started'
    BY <2>1, <2>2 DEF AllJoinedOK, CallsOf
  <2>5. ASSUME NEW k \in CallIds
        PROVE  JoinedOK(k)'
    <3>1. k[1] \in Callers
      BY DEF CallIds
    <3>2. CASE k[1] = c
      BY <1>1, <1>3, <2>3, <3>2, JoinedAll DEF JoinedOK
    <3>3. CASE k[1] # c
      <4>1. k \in joined' => k \in joined
        BY <2>1, <3>3 DEF CallsOf
      <4> QED
        BY <1>1, <1>2, <3>1, <3>3, <4>1 DEF JoinedOK, AllJoinedOK
    <3> QED
      BY <3>2, <3>3
  <2> QED
    BY <2>4, <2>5 DEF AllJoinedOK
<1>4. CASE Whole(c)
  <2>1. joined' = joined \cup {Current(c)} /\ UNCHANGED calls /\ callerPc[c] = "whole"
    BY <1>4 DEF Whole, Return, CallerGoto
  <2>2. Started' = Started /\ Current(c)' = Current(c) /\ Current(c) \in Started
    BY <2>1, CurrentStarted DEF Started, Current
  <2>3. callerPc'[c] = "idle"
    BY <1>4 DEF Whole, Return, CallerGoto, Shape
  <2>4. \A v \in Workers : \A t \in Todo(v) : t.call # Current(c)
    BY <2>1, Members DEF LoopInv, LoopsOK, LoopOK
  <2>5. ASSUME NEW k \in CallIds
        PROVE  JoinedOK(k)'
    <3>1. k[1] \in Callers /\ Current(c)[1] = c
      BY DEF CallIds, Current
    <3>2. CASE k = Current(c)
      BY <1>1, <2>3, <2>4, <3>1, <3>2 DEF JoinedOK
    <3>3. CASE k # Current(c)
      <4>1. k \in joined' => k \in joined
        BY <2>1, <3>3
      <4>2. k[1] = c => k # Current(k[1])'
        BY <2>2, <3>3
      <4> QED
        BY <1>1, <1>2, <3>1, <4>1, <4>2 DEF JoinedOK, AllJoinedOK
    <3> QED
      BY <3>2, <3>3
  <2> QED
    BY <2>1, <2>2, <2>5 DEF AllJoinedOK
<1>5. CASE \E joins \in BOOLEAN, r \in Ranges : ParallelFor(c, joins, r)
  <2>1. /\ Started \subseteq Started' /\ joined' = joined /\ Current(c)' \notin Started
    BY <1>5, StartedGrows, NewCall DEF ParallelFor
  <2>2. ASSUME NEW k \in CallIds
        PROVE  JoinedOK(k)'
    <3>1. k[1] \in Callers
      BY DEF CallIds
    <3>2. CASE k[1] = c
      BY <1>1, <1>2, <2>1, <3>2 DEF JoinedOK, AllJoinedOK
    <3>3. CASE k[1] # c
      BY <1>1, <1>2, <2>1, <3>1, <3>3 DEF JoinedOK, AllJoinedOK
    <3> QED
      BY <3>2, <3>3
  <2> QED
    BY <2>1, <2>2 DEF AllJoinedOK
<1>6. CASE \/ IsCompleted(c) \/ OwnSlice(c) \/ Remainder(c) \/ PollNext(c) \/ CallerThrows(c)
           \/ (Wait(c) /\ ~frame[c].joins)
  <2>1. UNCHANGED <<joined, calls>>
    BY <1>6 DEF IsCompleted, OwnSlice, Remainder, PollNext, CallerThrows, Wait
  <2>2. Started' = Started /\ Current(c)' = Current(c)
    BY <2>1 DEF Started, Current
  <2>3. callerPc[c] \in {"idle", "poll"} => callerPc'[c] \in {"idle", "poll"}
    BY <1>6 DEF IsCompleted, OwnSlice, Remainder, PollNext, CallerThrows, Wait, Return,
                CallerGoto, Shape
  <2>4. ASSUME NEW k \in CallIds
        PROVE  JoinedOK(k)'
    <3>1. k[1] \in Callers
      BY DEF CallIds
    <3>2. CASE k[1] = c
      BY <1>1, <1>2, <2>1, <2>2, <2>3, <3>2 DEF JoinedOK, AllJoinedOK
    <3>3. CASE k[1] # c
      BY <1>1, <1>2, <2>1, <3>1, <3>3 DEF JoinedOK, AllJoinedOK
    <3> QED
      BY <3>2, <3>3
  <2> QED
    BY <2>1, <2>2, <2>4 DEF AllJoinedOK
<1> QED
  BY <1>3, <1>4, <1>5, <1>6 DEF AnyCallerStep, CallerStep

\* A slice belongs to a call that is not joined.
LEMMA JoinedSubmit ==
  ASSUME Shape, LoopInv, AllJoinedOK, NEW c \in Callers, Submit(c)
  PROVE  AllJoinedOK'
<1>0. PICK w, e : w = frame[c].next /\ e = NewTask(c)
  OBVIOUS
<1>1. /\ w \in Workers /\ Todo(w)' = Todo(w) \cup {e}
      /\ \A v \in Workers \ {w} : Todo(v)' = Todo(v)
      /\ e.call = Current(c)
  BY <1>0, TodoSubmit
<1>2. UNCHANGED <<joined, calls, failed, callerPc>> /\ callerPc[c] = "submit"
  BY DEF Submit, historyVars
<1>3. Started' = Started /\ \A d : Current(d)' = Current(d)
  BY <1>2 DEF Started, Current
<1>4. Current(c) \notin joined \ failed
  <2>1. Current(c) \in CallIds /\ Current(c)[1] = c
    BY <1>2, CurrentIsCall DEF Current, InLoop
  <2> QED
    BY <1>2, <2>1 DEF AllJoinedOK, JoinedOK
<1>5. ASSUME NEW k \in CallIds
      PROVE  JoinedOK(k)'
  <2> SUFFICES ASSUME k \in joined \ failed
               PROVE  /\ \A v \in Workers : \A t \in Todo(v)' : t.call # k
                      /\ k = Current(k[1]) => callerPc[k[1]] \in {"idle", "poll"}
    BY <1>2, <1>3 DEF JoinedOK
  <2>1. k # Current(c)
    BY <1>4
  <2> QED
    BY <1>1, <2>1 DEF AllJoinedOK, JoinedOK
<1> QED
  BY <1>2, <1>3, <1>5 DEF AllJoinedOK

RangeOf(k) == calls[k[1]][k[2]]

\* The indices that the caller has still to hand out, or to call func for.
ToHandOut(c) ==
  LET end == RangeOf(Current(c))[2]
  IN  CASE callerPc[c] = "whole"     -> RangeOf(Current(c))[1] .. (end - 1)
        [] callerPc[c] = "submit"    -> frame[c].a .. (end - 1)
        [] callerPc[c] = "remainder" -> (frame[c].a + frame[c].works_per_thread) .. (end - 1)
        [] OTHER -> {}

\* The slices begin one after the other, and end where the range ends.
SlicesOK(c) ==
  LET f == frame[c]
      r == RangeOf(Current(c))
  IN  /\ callerPc[c] = "whole" => f.a = r[1] /\ f.b = r[2]
      /\ callerPc[c] \in {"submit", "remainder"} =>
           /\ f.next <= NumWorkers + 1
           /\ f.a = r[1] + (f.next - 1) * f.works_per_thread
           /\ f.b = f.a + f.works_per_thread
           /\ r[2] = r[1] + (NumWorkers + 1) * f.works_per_thread + f.remainder_works

AllSlicesOK == \A c \in Callers : SlicesOK(c)

\* The slices before, and with, the next one.
LEMMA Multiples ==
  ASSUME NEW n \in Nat, NEW p \in Nat, n >= 1, n <= NumWorkers + 1
  PROVE  /\ (n - 1) * p + p = n * p /\ ((n + 1) - 1) * p = n * p
         /\ n * p <= (NumWorkers + 1) * p
         /\ n * p \in Nat /\ (n - 1) * p \in Nat /\ (NumWorkers + 1) * p \in Nat
<1>1. NumWorkers \in Nat
  BY ParallelAssumption
<1>2. n * p = (n - 1) * p + p /\ n * p \in Nat /\ (n - 1) * p \in Nat
  OBVIOUS
<1> DEFINE m == (NumWorkers + 1) - n
<1>3. m \in Nat
  BY <1>1
<1>4. m * p \in Nat
  BY <1>3
<1>5. (NumWorkers + 1) = n + m
  BY <1>1
<1>6. (n + m) * p = n * p + m * p
  BY <1>3
<1>7. (NumWorkers + 1) * p = n * p + m * p
  BY <1>5, <1>6
<1>8. (n + 1) - 1 = n
  OBVIOUS
<1> HIDE DEF m
<1> QED
  BY <1>2, <1>4, <1>7, <1>8

\* What the current loop has to do with the slice that comes next.
LEMMA SliceFacts ==
  ASSUME Shape, LoopInv, AllSlicesOK, NEW c \in Callers, callerPc[c] \in {"submit", "remainder"}
  PROVE  LET f == frame[c]
             r == RangeOf(Current(c))
         IN  /\ f \in Frames /\ r \in Ranges /\ r[1] \in Nat /\ r[2] \in Nat
             /\ f.a \in Nat /\ f.works_per_thread \in Nat /\ f.remainder_works \in Nat
             /\ f.next \in Nat /\ f.next >= 1 /\ f.b = f.a + f.works_per_thread
             /\ r[1] <= f.a /\ f.b <= r[2]
             /\ f.next \notin Workers => f.b + f.remainder_works = r[2]
             /\ callerPc[c] = "remainder" => f.next \notin Workers
<1> DEFINE f == frame[c]
           r == RangeOf(Current(c))
<1>1. f \in Frames
  BY DEF Shape
<1>2. /\ f.a \in Nat /\ f.works_per_thread \in Nat /\ f.remainder_works \in Nat
      /\ f.next \in Nat
  BY <1>1 DEF Frames
<1>3. r \in Ranges
  <2>1. calls[c] \in Seq(Ranges) /\ Len(calls[c]) \in 1 .. Len(calls[c])
    BY CurrentIsCall DEF Shape, InLoop
  <2> QED
    BY <2>1 DEF RangeOf, Current
<1>4. r[1] \in Nat /\ r[2] \in Nat
  BY <1>3, ParallelAssumption
<1>5. f.next >= 1
  BY DEF LoopInv, LoopsOK, LoopOK
<1>6. /\ f.next <= NumWorkers + 1
      /\ f.a = r[1] + (f.next - 1) * f.works_per_thread
      /\ f.b = f.a + f.works_per_thread
      /\ r[2] = r[1] + (NumWorkers + 1) * f.works_per_thread + f.remainder_works
  BY DEF AllSlicesOK, SlicesOK
<1>7. /\ (f.next - 1) * f.works_per_thread + f.works_per_thread = f.next * f.works_per_thread
      /\ f.next * f.works_per_thread <= (NumWorkers + 1) * f.works_per_thread
      /\ f.next * f.works_per_thread \in Nat /\ (f.next - 1) * f.works_per_thread \in Nat
      /\ (NumWorkers + 1) * f.works_per_thread \in Nat
  BY <1>2, <1>5, <1>6, Multiples
<1>8. callerPc[c] = "remainder" => f.next \notin Workers
  <2>1. callerPc[c] = "remainder" => f.next > NumWorkers
    BY DEF LoopInv, LoopsOK, LoopOK
  <2> QED
    BY <1>2, <2>1, ParallelAssumption DEF Workers
<1>9. f.next \notin Workers => f.next = NumWorkers + 1
  <2>1. f.next <= NumWorkers + 1
    BY <1>6
  <2>2. NumWorkers \in Nat
    BY ParallelAssumption
  <2> HIDE DEF f
  <2> QED
    BY <1>2, <1>5, <2>1, <2>2 DEF Workers
<1> HIDE DEF f, r
<1>10. f.next \notin Workers => f.b + f.remainder_works = r[2]
  <2> SUFFICES ASSUME f.next \notin Workers
               PROVE  f.b + f.remainder_works = r[2]
    OBVIOUS
  <2>1. f.next * f.works_per_thread = (NumWorkers + 1) * f.works_per_thread
    BY <1>9
  <2> QED
    BY <1>2, <1>4, <1>6, <1>7, <2>1
<1>11. r[1] <= f.a /\ f.b <= r[2]
  BY <1>2, <1>4, <1>6, <1>7
<1> QED
  BY <1>1, <1>2, <1>3, <1>4, <1>5, <1>6, <1>8, <1>10, <1>11 DEF f, r

\* Every slice begins where the one before it ends.
LEMMA SlicesStep ==
  ASSUME Shape, Shape', LoopInv, AllSlicesOK, NEW c \in Callers, AnyCallerStep(c)
  PROVE  AllSlicesOK'
<1>1. ASSUME NEW d \in Callers \ {c}
      PROVE  SlicesOK(d)'
  <2>1. callerPc'[d] = callerPc[d] /\ frame'[d] = frame[d] /\ Current(d)' = Current(d)
        /\ calls'[d] = calls[d]
    BY OthersSame
  <2>2. RangeOf(Current(d))' = RangeOf(Current(d))
    BY <2>1 DEF RangeOf, Current
  <2> QED
    BY <2>1, <2>2 DEF SlicesOK, AllSlicesOK
<1>2. CASE Submit(c)
  <2>1. UNCHANGED <<callerPc, calls>> /\ callerPc[c] = "submit" /\ frame[c].next \in Workers
        /\ frame'[c] = NextSlice(frame[c])
    BY <1>2 DEF Submit, Shape
  <2>2. RangeOf(Current(c))' = RangeOf(Current(c))
    BY <2>1 DEF RangeOf, Current
  <2> DEFINE f == frame[c]
             g == NextSlice(f)
             r == RangeOf(Current(c))
  <2>3. /\ f \in Frames /\ r[1] \in Nat /\ f.next \in Nat /\ f.next >= 1
        /\ f.a \in Nat /\ f.works_per_thread \in Nat
    BY <2>1, SliceFacts
  <2>4. /\ g.next = f.next + 1 /\ g.a = f.a + f.works_per_thread
        /\ g.b = f.a + 2 * f.works_per_thread
        /\ g.works_per_thread = f.works_per_thread /\ g.remainder_works = f.remainder_works
    BY <2>3 DEF NextSlice, Frames
  <2>5. /\ f.a = r[1] + (f.next - 1) * f.works_per_thread
        /\ r[2] = r[1] + (NumWorkers + 1) * f.works_per_thread + f.remainder_works
    BY <2>1 DEF AllSlicesOK, SlicesOK
  <2>6. f.next <= NumWorkers
    BY <2>1 DEF Workers
  <2>7. /\ (f.next - 1) * f.works_per_thread + f.works_per_thread = f.next * f.works_per_thread
        /\ ((f.next + 1) - 1) * f.works_per_thread = f.next * f.works_per_thread
        /\ (f.next - 1) * f.works_per_thread \in Nat
    BY <2>3, <2>6, Multiples, ParallelAssumption
  <2> HIDE DEF f, g, r
  <2>8. /\ g.next <= NumWorkers + 1
        /\ g.a = r[1] + (g.next - 1) * g.works_per_thread
        /\ g.b = g.a + g.works_per_thread
        /\ r[2] = r[1] + (NumWorkers + 1) * g.works_per_thread + g.remainder_works
    <3>1. g.next <= NumWorkers + 1
      BY <2>3, <2>4, <2>6, ParallelAssumption
    <3>2. g.a = r[1] + (g.next - 1) * g.works_per_thread
      BY <2>3, <2>4, <2>5, <2>7
    <3>3. g.b = g.a + g.works_per_thread
      BY <2>3, <2>4
    <3> QED
      BY <2>4, <2>5, <3>1, <3>2, <3>3
  <2>9. callerPc'[c] = "submit" /\ frame'[c] = g /\ RangeOf(Current(c))' = r
    BY <2>1, <2>2 DEF f, g, r
  <2>10. SlicesOK(c)'
    BY <2>8, <2>9 DEF SlicesOK
  <2> QED
    BY <1>1, <2>10 DEF AllSlicesOK
<1>3. CASE \E joins \in BOOLEAN, s \in Ranges : ParallelFor(c, joins, s)
  <2>1. PICK joins \in BOOLEAN, s \in Ranges : ParallelFor(c, joins, s)
    BY <1>3
  <2> DEFINE per == (s[2] - s[1]) \div (NumWorkers + 1)
             rem == (s[2] - s[1]) % (NumWorkers + 1)
             f   == frame'[c]
  <2>2. RangeOf(Current(c))' = s
    BY <2>1, NewCall DEF RangeOf, Current
  <2>3. /\ s[2] - s[1] > 0 /\ f.next = 1 /\ f.works_per_thread = per /\ f.remainder_works = rem
        /\ f.a = s[1] /\ f.b = (IF per > 0 THEN s[1] + per ELSE s[2])
        /\ callerPc'[c] = IF per > 0 THEN "submit" ELSE "whole"
    BY <2>1 DEF ParallelFor, CallerGoto, Shape
  <2>4. /\ s[1] \in Nat /\ s[2] \in Nat /\ per \in Nat /\ rem \in Nat
        /\ s[2] - s[1] = per * (NumWorkers + 1) + rem
    BY <2>3, SliceSizes
  <2> HIDE DEF per, rem, f
  <2>5. CASE per > 0
    <3>1. s[2] = s[1] + (NumWorkers + 1) * per + rem
      <4>1. per * (NumWorkers + 1) = (NumWorkers + 1) * per /\ (NumWorkers + 1) * per \in Nat
        BY <2>4, ParallelAssumption
      <4> QED
        BY <2>4, <4>1
    <3>2. (1 - 1) * per = 0
      BY <2>4
    <3>3. /\ f.next <= NumWorkers + 1 /\ f.a = s[1] + (f.next - 1) * f.works_per_thread
          /\ f.b = f.a + f.works_per_thread
          /\ s[2] = s[1] + (NumWorkers + 1) * f.works_per_thread + f.remainder_works
          /\ callerPc'[c] = "submit"
      BY <2>3, <2>4, <2>5, <3>1, <3>2, ParallelAssumption
    <3>4. SlicesOK(c)'
      BY <2>2, <3>3 DEF SlicesOK, f
    <3> QED
      BY <1>1, <3>4 DEF AllSlicesOK
  <2>6. CASE ~(per > 0)
    <3>1. SlicesOK(c)'
      BY <2>2, <2>3, <2>6 DEF SlicesOK, f
    <3> QED
      BY <1>1, <3>1 DEF AllSlicesOK
  <2> QED
    BY <2>5, <2>6
<1>4. CASE OwnSlice(c)
  <2>1. UNCHANGED <<frame, calls>> /\ callerPc[c] = "submit"
        /\ callerPc'[c] \in {"remainder", "wait"}
    BY <1>4 DEF OwnSlice, CallerGoto, Shape
  <2>2. RangeOf(Current(c))' = RangeOf(Current(c))
    BY <2>1 DEF RangeOf, Current
  <2>3. SlicesOK(c)'
    BY <2>1, <2>2 DEF AllSlicesOK, SlicesOK
  <2> QED
    BY <1>1, <2>3 DEF AllSlicesOK
<1>5. CASE \/ IsCompleted(c) \/ Whole(c) \/ Remainder(c) \/ Wait(c) \/ PollNext(c)
           \/ PollTrue(c) \/ CallerThrows(c)
  <2>1. callerPc'[c] \in {"idle", "poll", "wait"}
    BY <1>5 DEF IsCompleted, Whole, Remainder, Wait, PollNext, PollTrue,
       CallerThrows, Return,
                CallerGoto, Shape
  <2>2. SlicesOK(c)'
    BY <2>1 DEF SlicesOK
  <2> QED
    BY <1>1, <2>2 DEF AllSlicesOK
<1> QED
  BY <1>2, <1>3, <1>4, <1>5 DEF AnyCallerStep, CallerStep

\* The workers do not touch the slices of a caller.
LEMMA SlicesWorker ==
  ASSUME Shape, LoopInv, AllSlicesOK, NEW w \in Workers, WorkerStep(w) \/ WorkerThrows(w)
  PROVE  AllSlicesOK'
<1>1. UNCHANGED <<callerPc, calls>>
  BY DEF WorkerStep, WorkerThrows, Take, Run, CountOff, Finish, Restart, callerVars
<1>2. frame' = frame \/ \E d : frame' = [frame EXCEPT ![d] = CountOffOne(frame[d])]
  BY DEF WorkerStep, WorkerThrows, Take, Run, CountOff, Finish, Restart, callerVars
<1>3. ASSUME NEW c \in Callers
      PROVE  SlicesOK(c)'
  <2>1. frame[c] \in Frames /\ (frame'[c] = frame[c] \/ frame'[c] = CountOffOne(frame[c]))
    BY <1>2 DEF Shape
  <2>2. /\ frame'[c].a = frame[c].a /\ frame'[c].b = frame[c].b
        /\ frame'[c].next = frame[c].next
        /\ frame'[c].works_per_thread = frame[c].works_per_thread
        /\ frame'[c].remainder_works = frame[c].remainder_works
    BY <2>1 DEF CountOffOne, Frames
  <2>3. RangeOf(Current(c))' = RangeOf(Current(c))
    BY <1>1 DEF RangeOf, Current
  <2> QED
    BY <1>1, <2>2, <2>3 DEF AllSlicesOK, SlicesOK
<1> QED
  BY <1>3 DEF AllSlicesOK

Covers(t, k, i)  == t.call = k /\ i \in t.a .. (t.b - 1)
HandsOut(k, i)   == k = Current(k[1]) /\ i \in ToHandOut(k[1])
Covered(k, i)    == \E w \in Workers : \E t \in Todo(w) : Covers(t, k, i)
InRange(k, i)    == k \in Started /\ i \in RangeOf(k)[1] .. (RangeOf(k)[2] - 1)

\* An index of a loop has been passed to func, or the caller has it still, or
\* a worker: never two of these.
CoverOK(k, i) ==
  /\ done[k][i] <= 1
  /\ Covered(k, i) \/ HandsOut(k, i) \/ k \notin Started => done[k][i] = 0
  /\ ~(Covered(k, i) /\ HandsOut(k, i))
  /\ \A v, w \in Workers : \A t \in Todo(v), u \in Todo(w) :
       Covers(t, k, i) /\ Covers(u, k, i) => v = w /\ t = u
  /\ k \notin failed /\ InRange(k, i) =>
       done[k][i] = 1 \/ HandsOut(k, i) \/ Covered(k, i)

AllCoverOK == \A k \in CallIds, i \in Indices : CoverOK(k, i)

\* A step that runs no index, and loses none but of a call that has failed.
LEMMA CoverKept ==
  ASSUME NEW k \in CallIds, NEW i \in Indices, CoverOK(k, i), done'[k][i] = done[k][i],
         InRange(k, i)' = InRange(k, i), k \in Started' <=> k \in Started,
         failed \subseteq failed',
         HandsOut(k, i)' => HandsOut(k, i),
         \A v \in Workers : \A t \in Todo(v)' : Covers(t, k, i) => t \in Todo(v),
         \/ k \in failed'
         \/ /\ HandsOut(k, i) => HandsOut(k, i)'
            /\ \A v \in Workers : \A t \in Todo(v) : Covers(t, k, i) => t \in Todo(v)'
  PROVE  CoverOK(k, i)'
<1>1. Covered(k, i)' => Covered(k, i)
  BY DEF Covered, Covers
<1>2. k \notin failed' => (Covered(k, i) => Covered(k, i)')
  BY DEF Covered, Covers
<1>3. \A v, w \in Workers : \A t \in Todo(v)', u \in Todo(w)' :
        Covers(t, k, i) /\ Covers(u, k, i) => v = w /\ t = u
  BY DEF CoverOK
<1>4. k \notin failed' /\ InRange(k, i) => done[k][i] = 1 \/ HandsOut(k, i)' \/ Covered(k, i)'
  BY <1>2 DEF CoverOK
<1>5. ~(Covered(k, i)' /\ HandsOut(k, i)')
  BY <1>1 DEF CoverOK
<1>6. done[k][i] <= 1 /\ (Covered(k, i)' \/ HandsOut(k, i)' \/ k \notin Started' => done[k][i] = 0)
  BY <1>1 DEF CoverOK
<1>7. \A v, w \in Workers : \A t \in Todo(v)', u \in Todo(w)' :
        Covers(t, k, i)' /\ Covers(u, k, i)' => v = w /\ t = u
  BY <1>3 DEF Covers
<1> QED
  BY <1>4, <1>5, <1>6, <1>7 DEF CoverOK

\* func is called for an index that somebody had.
LEMMA CoverDone ==
  ASSUME NEW k \in CallIds, NEW i \in Indices, done'[k][i] = 1,
         k \in Started', ~HandsOut(k, i)',
         \A v \in Workers : \A t \in Todo(v)' : ~Covers(t, k, i)
  PROVE  CoverOK(k, i)'
<1>1. ~Covered(k, i)'
  BY DEF Covered, Covers
<1>2. \A v \in Workers : \A t \in Todo(v)' : ~Covers(t, k, i)'
  BY DEF Covers
<1> QED
  BY <1>1, <1>2 DEF CoverOK

\* A worker calls func for what it has, once, or loses it in a call that failed.
LEMMA CoverWorker ==
  ASSUME Shape, LoopInv, AllCoverOK, NEW w \in Workers, WorkerStep(w) \/ WorkerThrows(w)
  PROVE  AllCoverOK'
<1>1. UNCHANGED <<callerPc, calls>> /\ failed \subseteq failed'
  BY DEF WorkerStep, WorkerThrows, Take, Run, CountOff, Finish, Restart,
     callerVars, historyVars
<1>2. \A c \in Callers : /\ frame'[c].a = frame[c].a
                         /\ frame'[c].works_per_thread = frame[c].works_per_thread
  <2>1. frame' = frame \/ \E d : frame' = [frame EXCEPT ![d] = CountOffOne(frame[d])]
    BY DEF WorkerStep, WorkerThrows, Take, Run, CountOff, Finish, Restart, callerVars
  <2> SUFFICES ASSUME NEW c \in Callers
               PROVE  /\ frame'[c].a = frame[c].a
                      /\ frame'[c].works_per_thread = frame[c].works_per_thread
    OBVIOUS
  <2>2. frame[c] \in Frames /\ (frame'[c] = frame[c] \/ frame'[c] = CountOffOne(frame[c]))
    BY <2>1 DEF Shape
  <2> QED
    BY <2>2 DEF CountOffOne, Frames
<1>3. /\ Started' = Started /\ \A k : Current(k[1])' = Current(k[1])
      /\ \A k, i : InRange(k, i)' = InRange(k, i)
  BY <1>1 DEF Started, Current, InRange, RangeOf
<1>4. \A c \in Callers : ToHandOut(c)' = ToHandOut(c)
  BY <1>1, <1>2 DEF ToHandOut, RangeOf, Current
<1>5. \A k \in CallIds : \A i : HandsOut(k, i)' = HandsOut(k, i)
  BY <1>3, <1>4 DEF HandsOut, CallIds
<1>6. \A v \in Workers : Todo(v)' \subseteq Todo(v)
  BY WorkerEffect DEF LoopInv
<1>7. \A v \in Workers \ {w} : Todo(v)' = Todo(v)
  BY TakeEffect, RunEffect, CountOffEffect, FinishEffect, ThrowEffect, RestartEffect
     DEF LoopInv, WorkerStep, SameTasks
<1>8. ASSUME NEW k \in CallIds, NEW i \in Indices, done'[k][i] = done[k][i],
             \A t \in Todo(w) : Covers(t, k, i) => t \in Todo(w)' \/ k \in failed'
      PROVE  CoverOK(k, i)'
  <2>1. CoverOK(k, i)
    BY DEF AllCoverOK
  <2>2. \A v \in Workers : \A t \in Todo(v)' : Covers(t, k, i) => t \in Todo(v)
    BY <1>6
  <2>3. \/ k \in failed'
        \/ \A v \in Workers : \A t \in Todo(v) : Covers(t, k, i) => t \in Todo(v)'
    BY <1>7, <1>8
  <2> QED
    BY <1>1, <1>3, <1>5, <1>8, <2>1, <2>2, <2>3, CoverKept
<1>9. CASE Run(w)
  <2>1. /\ running[w] \in Tasks /\ running[w] \in Todo(w) /\ running[w].call \in CallIds
        /\ Todo(w)' = Todo(w) \ {running[w]}
    BY <1>9, RunEffect DEF LoopInv, Tasks
  <2>2. \A k \in CallIds, i \in Indices :
          done'[k][i] = IF k = running[w].call /\ i \in running[w].a .. (running[w].b - 1)
                        THEN done[k][i] + 1 ELSE done[k][i]
    BY <1>9, <2>1, FuncAdds DEF Run, Shape
  <2>3. ASSUME NEW k \in CallIds, NEW i \in Indices
        PROVE  CoverOK(k, i)'
    <3>1. CASE Covers(running[w], k, i)
      <4>1. CoverOK(k, i) /\ Covered(k, i)
        BY <2>1, <3>1 DEF AllCoverOK, Covered
      <4>2. done[k][i] = 0 /\ ~HandsOut(k, i)
        BY <4>1 DEF CoverOK
      <4>3. done'[k][i] = 1
        BY <2>2, <3>1, <4>2 DEF Covers
      <4>4. \A v \in Workers : \A t \in Todo(v) : Covers(t, k, i) => v = w /\ t = running[w]
        BY <2>1, <3>1, <4>1 DEF CoverOK
      <4>5. \A v \in Workers : \A t \in Todo(v)' : ~Covers(t, k, i)
        BY <1>6, <2>1, <4>4
      <4>6. k \in Started'
        BY <1>3, <2>1, <3>1, Members DEF Covers, LoopInv, TasksAllOK, TasksOK
      <4> QED
        BY <1>5, <4>2, <4>3, <4>5, <4>6, CoverDone
    <3>2. CASE ~Covers(running[w], k, i)
      <4>1. done'[k][i] = done[k][i]
        BY <2>2, <3>2 DEF Covers
      <4> QED
        BY <1>8, <2>1, <3>2, <4>1
    <3> QED
      BY <3>1, <3>2
  <2> QED
    BY <2>3 DEF AllCoverOK
<1>10. CASE ~Run(w)
  <2>1. done' = done
    BY <1>10 DEF WorkerStep, WorkerThrows, Take, CountOff, Finish, Restart, historyVars
  <2>2. ASSUME NEW t \in Todo(w)
        PROVE  t \in Todo(w)' \/ t.call \in failed'
    <3>1. CASE Take(w) \/ CountOff(w) \/ Finish(w)
      BY <2>2, <3>1, TakeEffect, CountOffEffect, FinishEffect DEF LoopInv, SameTasks
    <3>2. CASE WorkerThrows(w)
      <4>1. Todo(w)' = Todo(w) \ {running[w]}
        BY <3>2, ThrowEffect DEF LoopInv
      <4> QED
        BY <2>2, <3>2, <4>1 DEF WorkerThrows
    <3>3. CASE Restart(w)
      <4>1. Todo(w) = Queued(w)
        BY <3>3, RestartEffect DEF LoopInv
      <4> QED
        BY <2>2, <3>3, <4>1 DEF Restart, Queued
    <3> QED
      BY <1>10, <3>1, <3>2, <3>3 DEF WorkerStep
  <2>3. ASSUME NEW k \in CallIds, NEW i \in Indices
        PROVE  CoverOK(k, i)'
    BY <1>8, <2>1, <2>2 DEF Covers
  <2> QED
    BY <2>3 DEF AllCoverOK
<1> QED
  BY <1>9, <1>10

HandsNoIndex(c) == Wait(c) \/ IsCompleted(c) \/ PollNext(c) \/ PollTrue(c) \/ CallerThrows(c)
ByItself(c)  == Whole(c) \/ OwnSlice(c) \/ Remainder(c)

\* What a caller does is none of the other callers' business.
LEMMA CoverOthers ==
  ASSUME Shape, NEW c \in Callers, AnyCallerStep(c),
         NEW k \in CallIds, NEW i \in Indices, k[1] # c, CoverOK(k, i),
         done'[k][i] = done[k][i],
         \A v \in Workers : \A t : t.call = k => (t \in Todo(v)' <=> t \in Todo(v))
  PROVE  CoverOK(k, i)'
<1>1. k[1] \in Callers
  BY DEF CallIds
<1>2. /\ callerPc'[k[1]] = callerPc[k[1]] /\ frame'[k[1]] = frame[k[1]]
      /\ calls'[k[1]] = calls[k[1]] /\ Current(k[1])' = Current(k[1]) /\ failed \subseteq failed'
  BY <1>1, OthersSame
<1>3. (k \in Started' <=> k \in Started) /\ InRange(k, i)' = InRange(k, i)
  BY <1>2 DEF Started, InRange, RangeOf
<1>4. ToHandOut(k[1])' = ToHandOut(k[1])
  BY <1>2 DEF ToHandOut, RangeOf, Current
<1>5. HandsOut(k, i)' = HandsOut(k, i)
  BY <1>2, <1>4 DEF HandsOut
<1>6. \A v \in Workers : \A t : Covers(t, k, i) => (t \in Todo(v)' <=> t \in Todo(v))
  BY DEF Covers
<1> QED
  BY <1>2, <1>3, <1>5, <1>6, CoverKept

\* A step of c that does nothing for the index of one of its calls.
LEMMA CoverSame ==
  ASSUME Shape, NEW c \in Callers, AnyCallerStep(c), UNCHANGED calls,
         NEW k \in CallIds, NEW i \in Indices, CoverOK(k, i),
         done'[k][i] = done[k][i],
         HandsOut(k, i)' => HandsOut(k, i),
         k \in failed' \/ (HandsOut(k, i) => HandsOut(k, i)'),
         \A v \in Workers : \A t : Covers(t, k, i) => (t \in Todo(v)' <=> t \in Todo(v))
  PROVE  CoverOK(k, i)'
<1>1. failed \subseteq failed'
  BY OthersSame
<1>2. Started' = Started /\ InRange(k, i)' = InRange(k, i)
  BY DEF Started, InRange, RangeOf
<1> QED
  BY <1>1, <1>2, CoverKept

\* A caller that does not call func, nor hands anything out.
LEMMA CoverIdle ==
  ASSUME Shape, Shape', LoopInv, AllCoverOK, NEW c \in Callers, HandsNoIndex(c)
  PROVE  AllCoverOK'
<1>1. AnyCallerStep(c) /\ ~Submit(c)
  BY DEF HandsNoIndex, AnyCallerStep, CallerStep, Wait, IsCompleted, PollNext, PollTrue,
         CallerThrows, Submit, Return, CallerGoto
<1>2. UNCHANGED <<calls, done>> /\ \A v \in Workers : Todo(v)' = Todo(v)
  BY <1>1, TodoSame DEF HandsNoIndex, Wait, IsCompleted, PollNext, PollTrue, CallerThrows,
     historyVars
<1>3. callerPc'[c] \in {"idle", "poll"}
  BY DEF HandsNoIndex, Wait, IsCompleted, PollNext, PollTrue, CallerThrows, Return,
     CallerGoto, Shape
<1>4. ToHandOut(c)' = {} /\ Current(c)' = Current(c)
  BY <1>2, <1>3 DEF ToHandOut, Current
<1>5. ToHandOut(c) = {} \/ Current(c) \in failed'
  <2>1. CASE CallerThrows(c)
    BY <2>1 DEF CallerThrows
  <2>2. CASE ~CallerThrows(c)
    <3>1. callerPc[c] \in {"idle", "poll", "wait"}
      BY <2>2 DEF HandsNoIndex, Wait, IsCompleted, PollNext, PollTrue, Return, CallerGoto
    <3> QED
      BY <3>1 DEF ToHandOut
  <2> QED
    BY <2>1, <2>2
<1>6. ASSUME NEW k \in CallIds, NEW i \in Indices
      PROVE  CoverOK(k, i)'
  <2>1. CoverOK(k, i)
    BY DEF AllCoverOK
  <2>2. CASE k[1] = c
    <3>1. ~HandsOut(k, i)' /\ (k \in failed' \/ ~HandsOut(k, i))
      BY <1>4, <1>5, <2>2 DEF HandsOut
    <3> QED
      BY <1>1, <1>2, <2>1, <3>1, CoverSame
  <2>3. CASE k[1] # c
    BY <1>1, <1>2, <2>1, <2>3, CoverOthers
  <2> QED
    BY <2>2, <2>3
<1> QED
  BY <1>6 DEF AllCoverOK

\* The caller calls func itself, for the indices that it does not hand out now.
LEMMA CoverOwn ==
  ASSUME Shape, Shape', LoopInv, AllSlicesOK, AllCoverOK, NEW c \in Callers, ByItself(c)
  PROVE  AllCoverOK'
<1>1. AnyCallerStep(c) /\ ~Submit(c)
  BY DEF ByItself, AnyCallerStep, CallerStep, Whole, OwnSlice, Remainder,
     Submit, Return,
         CallerGoto
<1>2. UNCHANGED calls /\ \A v \in Workers : Todo(v)' = Todo(v)
  BY <1>1, TodoSame DEF ByItself, Whole, OwnSlice, Remainder
<1>3. callerPc[c] \in InLoop \cup {"whole"}
  BY DEF ByItself, Whole, OwnSlice, Remainder, Return, CallerGoto, InLoop
<1>4. Current(c) \in CallIds /\ Current(c) \in Started /\ Current(c)[1] = c
      /\ Current(c)' = Current(c) /\ Started' = Started
  BY <1>2, <1>3, CurrentIsCall, CurrentStarted DEF Current, Started
<1>5. PICK x, y : /\ Func(Current(c), x, y)
                  /\ \A i \in Int : i \in ToHandOut(c) <=> (i \in x .. (y - 1) \/ i \in ToHandOut(c)')
                  /\ \A i \in Int : ~(i \in x .. (y - 1) /\ i \in ToHandOut(c)')
  <2> DEFINE f == frame[c]
             r == RangeOf(Current(c))
  <2>1. r' = r
    BY <1>2 DEF RangeOf, Current
  <2>2. CASE Whole(c)
    <3>1. callerPc[c] = "whole" /\ callerPc'[c] = "idle" /\ Func(Current(c), f.a, f.b)
      BY <2>2 DEF Whole, Return, CallerGoto, Shape
    <3>2. f.a = r[1] /\ f.b = r[2]
      BY <3>1 DEF AllSlicesOK, SlicesOK
    <3>3. ToHandOut(c)' = {} /\ ToHandOut(c) = f.a .. (f.b - 1)
      BY <3>1, <3>2 DEF ToHandOut
    <3> QED
      BY <3>1, <3>3
  <2>3. CASE OwnSlice(c)
    <3>1. /\ callerPc[c] = "submit" /\ Func(Current(c), f.a, f.b) /\ f.next \notin Workers
          /\ callerPc'[c] = IF f.remainder_works > 0 THEN "remainder" ELSE "wait"
          /\ frame' = frame
      BY <2>3 DEF OwnSlice, CallerGoto, Shape
    <3>2. /\ f.a \in Nat /\ f.works_per_thread \in Nat /\ f.remainder_works \in Nat
          /\ f.b = f.a + f.works_per_thread /\ r[2] \in Nat /\ f.b + f.remainder_works = r[2]
      BY <3>1, SliceFacts
    <3>3. ToHandOut(c) = f.a .. (r[2] - 1)
      BY <3>1 DEF ToHandOut
    <3>4. ToHandOut(c)' = IF f.remainder_works > 0 THEN f.b .. (r[2] - 1) ELSE {}
      BY <2>1, <3>1, <3>2 DEF ToHandOut
    <3> HIDE DEF f, r
    <3>5. \A i \in Int : i \in ToHandOut(c) <=> (i \in f.a .. (f.b - 1) \/ i \in ToHandOut(c)')
      BY <3>2, <3>3, <3>4
    <3>6. \A i \in Int : ~(i \in f.a .. (f.b - 1) /\ i \in ToHandOut(c)')
      BY <3>2, <3>3, <3>4
    <3> QED
      BY <3>1, <3>5, <3>6
  <2>4. CASE Remainder(c)
    <3>1. /\ callerPc[c] = "remainder" /\ callerPc'[c] = "wait"
          /\ Func(Current(c), f.a + f.works_per_thread,
                  f.a + f.works_per_thread + f.remainder_works)
      BY <2>4 DEF Remainder, CallerGoto, Shape
    <3>2. /\ f.a \in Nat /\ f.works_per_thread \in Nat /\ f.remainder_works \in Nat
          /\ f.b = f.a + f.works_per_thread /\ r[2] \in Nat /\ f.b + f.remainder_works = r[2]
      BY <3>1, SliceFacts
    <3>3. ToHandOut(c) = (f.a + f.works_per_thread) .. (r[2] - 1)
      BY <3>1 DEF ToHandOut
    <3>4. ToHandOut(c)' = {}
      BY <3>1 DEF ToHandOut
    <3>5. f.a + f.works_per_thread + f.remainder_works = r[2]
      BY <3>2
    <3> QED
      BY <3>1, <3>3, <3>4, <3>5
  <2> QED
    BY <2>2, <2>3, <2>4 DEF ByItself
<1>6. \A k \in CallIds, i \in Indices :
        done'[k][i] = IF k = Current(c) /\ i \in x .. (y - 1) THEN done[k][i] + 1
                                                              ELSE done[k][i]
  BY <1>4, <1>5, FuncAdds DEF Shape
<1>7. ASSUME NEW k \in CallIds, NEW i \in Indices
      PROVE  CoverOK(k, i)'
  <2>1. CoverOK(k, i)
    BY DEF AllCoverOK
  <2>2. i \in Int
    BY ParallelAssumption DEF Indices
  <2>3. CASE k = Current(c) /\ i \in x .. (y - 1)
    <3>1. HandsOut(k, i) /\ ~HandsOut(k, i)'
      BY <1>4, <1>5, <2>2, <2>3 DEF HandsOut
    <3>2. done[k][i] = 0 /\ ~Covered(k, i)
      BY <2>1, <3>1 DEF CoverOK
    <3>3. done'[k][i] = 1
      BY <1>6, <2>3, <3>2
    <3>4. \A v \in Workers : \A t \in Todo(v)' : ~Covers(t, k, i)
      BY <1>2, <3>2 DEF Covered
    <3> QED
      BY <1>4, <2>3, <3>1, <3>3, <3>4, CoverDone
  <2>4. CASE k = Current(c) /\ i \notin x .. (y - 1)
    <3>1. HandsOut(k, i)' <=> HandsOut(k, i)
      BY <1>4, <1>5, <2>2, <2>4 DEF HandsOut
    <3>2. done'[k][i] = done[k][i]
      BY <1>6, <2>4
    <3> QED
      BY <1>1, <1>2, <2>1, <3>1, <3>2, CoverSame
  <2>5. CASE k # Current(c) /\ k[1] = c
    <3>1. ~HandsOut(k, i)' /\ ~HandsOut(k, i)
      BY <1>4, <2>5 DEF HandsOut
    <3>2. done'[k][i] = done[k][i]
      BY <1>6, <2>5
    <3> QED
      BY <1>1, <1>2, <2>1, <3>1, <3>2, CoverSame
  <2>6. CASE k[1] # c
    <3>1. done'[k][i] = done[k][i]
      BY <1>4, <1>6, <2>6
    <3> QED
      BY <1>1, <1>2, <2>1, <2>6, <3>1, CoverOthers
  <2> QED
    BY <2>3, <2>4, <2>5, <2>6
<1> QED
  BY <1>7 DEF AllCoverOK

\* A new loop has all its indices before it.
LEMMA CoverBegin ==
  ASSUME Shape, Shape', LoopInv, AllSlicesOK', AllCoverOK, NEW c \in Callers,
         NEW joins \in BOOLEAN, NEW s \in Ranges, ParallelFor(c, joins, s)
  PROVE  AllCoverOK'
<1>1. AnyCallerStep(c) /\ ~Submit(c)
  BY DEF AnyCallerStep, ParallelFor, Submit, CallerGoto
<1>2. done' = done /\ failed' = failed /\ \A v \in Workers : Todo(v)' = Todo(v)
  BY <1>1, TodoSame DEF ParallelFor, historyVars
<1>3. /\ Current(c)' \in CallIds /\ Current(c)' \notin Started
      /\ calls' = [calls EXCEPT ![c] = Append(calls[c], s)]
      /\ calls'[c][Len(calls'[c])] = s
      /\ Current(c)' = <<c, Len(calls[c]) + 1>>
  BY NewCall
<1>4. callerPc[c] = "idle" /\ callerPc'[c] \in {"whole", "submit"} /\ frame'[c].a = s[1]
  BY DEF ParallelFor, CallerGoto, Shape
<1>5. RangeOf(Current(c))' = s
  BY <1>3 DEF RangeOf, Current
<1>6. ToHandOut(c) = {} /\ ToHandOut(c)' = s[1] .. (s[2] - 1)
  BY <1>4, <1>5 DEF ToHandOut
<1>7. ASSUME NEW k \in CallIds, NEW i \in Indices
      PROVE  CoverOK(k, i)'
  <2>1. CoverOK(k, i)
    BY DEF AllCoverOK
  <2>2. CASE k = Current(c)'
    <3>1. done[k][i] = 0 /\ k[1] = c
      BY <1>3, <2>1, <2>2 DEF CoverOK
    <3>2. \A v \in Workers : \A t \in Todo(v)' : ~Covers(t, k, i)
      BY <1>2, <1>3, <2>2, Members DEF LoopInv, TasksAllOK, TasksOK, Covers
    <3>3. ~Covered(k, i)' /\ \A v \in Workers : \A t \in Todo(v)' : ~Covers(t, k, i)'
      BY <3>2 DEF Covered, Covers
    <3>4. InRange(k, i)' => HandsOut(k, i)'
      BY <1>5, <1>6, <2>2, <3>1 DEF InRange, HandsOut
    <3> QED
      BY <1>2, <3>1, <3>3, <3>4 DEF CoverOK
  <2>3. CASE k # Current(c)' /\ k[1] = c
    <3>1. ~HandsOut(k, i) /\ ~HandsOut(k, i)'
      BY <1>6, <2>3 DEF HandsOut
    <3>2. k = <<c, k[2]>> /\ k[2] \in Nat /\ Len(calls[c]) \in Nat /\ c \in Callers
      BY <2>3, ParallelAssumption DEF CallIds, Shape
    <3>3. /\ k \in Started' <=> k \in Started
          /\ k \in Started => RangeOf(k)' = RangeOf(k)
      <4>1. calls[c] \in Seq(Ranges) /\ calls'[c] = Append(calls[c], s)
        BY <1>3 DEF Shape
      <4>2. Len(calls'[c]) = Len(calls[c]) + 1 /\ k[2] # Len(calls[c]) + 1
        BY <1>3, <2>3, <3>2, <4>1
      <4>3. k[2] <= Len(calls'[c]) <=> k[2] <= Len(calls[c])
        BY <3>2, <4>2
      <4>4. k[2] >= 1
        BY <3>2, ParallelAssumption DEF CallIds
      <4>5. k[2] <= Len(calls[c]) => calls'[c][k[2]] = calls[c][k[2]]
        BY <3>2, <4>1, <4>4
      <4> QED
        BY <2>3, <4>3, <4>5 DEF Started, RangeOf
    <3>4. InRange(k, i)' = InRange(k, i)
      BY <3>3 DEF InRange
    <3> QED
      BY <1>2, <2>1, <3>1, <3>3, <3>4, CoverKept
  <2>4. CASE k[1] # c
    BY <1>1, <1>2, <2>1, <2>4, CoverOthers
  <2> QED
    BY <2>2, <2>3, <2>4
<1> QED
  BY <1>7 DEF AllCoverOK

\* The slice that c hands out is covered by the task instead.
LEMMA CoverSubmit ==
  ASSUME Shape, Shape', LoopInv, AllSlicesOK, AllCoverOK, NEW c \in Callers, Submit(c)
  PROVE  AllCoverOK'
<1>0. PICK w, e : w = frame[c].next /\ e = NewTask(c)
  OBVIOUS
<1>1. /\ w \in Workers /\ Todo(w)' = Todo(w) \cup {e}
      /\ \A v \in Workers \ {w} : Todo(v)' = Todo(v)
      /\ e.call = Current(c)
  BY <1>0, TodoSubmit
<1>2. /\ UNCHANGED <<callerPc, calls, done, failed>> /\ callerPc[c] = "submit"
      /\ frame'[c] = NextSlice(frame[c])
  BY DEF Submit, historyVars, Shape
<1>3. AnyCallerStep(c)
  BY DEF AnyCallerStep, CallerStep
<1>4. Current(c) \in CallIds /\ Current(c) \in Started /\ Current(c)[1] = c
      /\ Current(c)' = Current(c) /\ Started' = Started
  BY <1>2, CurrentIsCall, CurrentStarted DEF Current, Started, InLoop
<1> DEFINE f == frame[c]
           r == RangeOf(Current(c))
<1>5. /\ f \in Frames /\ f.a \in Nat /\ f.works_per_thread \in Nat
      /\ f.b = f.a + f.works_per_thread /\ f.b <= r[2] /\ r[1] <= f.a
      /\ r[1] \in Nat /\ r[2] \in Nat
  BY <1>2, SliceFacts
<1>6. e.a = f.a /\ e.b = f.b
  BY <1>0 DEF NewTask
<1>7. frame'[c].a = f.b /\ r' = r
  BY <1>2, <1>5 DEF NextSlice, Frames, RangeOf, Current
<1>8. ToHandOut(c) = f.a .. (r[2] - 1) /\ ToHandOut(c)' = f.b .. (r[2] - 1)
  BY <1>2, <1>7 DEF ToHandOut
<1> HIDE DEF f, r
<1>9. /\ \A i \in Int : i \in ToHandOut(c) <=> (i \in e.a .. (e.b - 1) \/ i \in ToHandOut(c)')
      /\ \A i \in Int : ~(i \in e.a .. (e.b - 1) /\ i \in ToHandOut(c)')
  BY <1>5, <1>6, <1>8
<1>10. ASSUME NEW k \in CallIds, NEW i \in Indices
       PROVE  CoverOK(k, i)'
  <2>1. CoverOK(k, i) /\ done'[k][i] = done[k][i]
    BY <1>2 DEF AllCoverOK
  <2>2. i \in Int
    BY ParallelAssumption DEF Indices
  <2>3. CASE Covers(e, k, i)
    <3>1. k = Current(c) /\ i \in e.a .. (e.b - 1)
      BY <1>1, <2>3 DEF Covers
    <3>2. HandsOut(k, i) /\ ~HandsOut(k, i)'
      BY <1>4, <1>9, <2>2, <3>1 DEF HandsOut
    <3>3. done[k][i] = 0 /\ ~Covered(k, i)
      BY <2>1, <3>2 DEF CoverOK
    <3>4. \A v \in Workers : \A t \in Todo(v)' : Covers(t, k, i) => v = w /\ t = e
      BY <1>1, <3>3 DEF Covered
    <3>5. \A t : Covers(t, k, i)' <=> Covers(t, k, i)
      BY DEF Covers
    <3>6. Covered(k, i)'
      BY <1>1, <2>3, <3>5 DEF Covered
    <3> QED
      BY <2>1, <3>2, <3>3, <3>4, <3>5, <3>6 DEF CoverOK
  <2>4. CASE ~Covers(e, k, i)
    <3>1. \A v \in Workers : \A t : Covers(t, k, i) => (t \in Todo(v)' <=> t \in Todo(v))
      BY <1>1, <2>4
    <3>2. CASE k[1] = c
      <4>1. HandsOut(k, i)' <=> HandsOut(k, i)
        BY <1>1, <1>4, <1>9, <2>2, <2>4, <3>2 DEF HandsOut, Covers
      <4> QED
        BY <1>2, <1>3, <2>1, <3>1, <4>1, CoverSame
    <3>3. CASE k[1] # c
      <4>1. \A v \in Workers : \A t : t.call = k => (t \in Todo(v)' <=> t \in Todo(v))
        BY <1>1, <1>4, <3>3
      <4> QED
        BY <1>3, <2>1, <3>3, <4>1, CoverOthers
    <3> QED
      BY <3>2, <3>3
  <2> QED
    BY <2>3, <2>4
<1> QED
  BY <1>10 DEF AllCoverOK

CoverInv == BehindsOK /\ AllJoinedOK /\ AllSlicesOK /\ AllCoverOK

\* In the beginning there is no index.
LEMMA CoverInit == Init => CoverInv
<1> SUFFICES ASSUME Init
             PROVE  CoverInv
  OBVIOUS
<1>1. /\ \A w \in Workers : queue[w] = <<>> /\ workerPc[w] = "idle"
      /\ \A c \in Callers : callerPc[c] = "idle" /\ Len(calls[c]) = 0
      /\ joined = {}
      /\ \A k \in CallIds, i \in Indices : done[k][i] = 0
  BY DEF Init
<1>2. \A w \in Workers : Todo(w) = {}
  BY <1>1 DEF Todo, Queued, Range
<1>3. BehindsOK /\ AllJoinedOK
  BY <1>1, <1>2 DEF BehindsOK, BehindOK, AllJoinedOK, JoinedOK, InLoop
<1>4. AllSlicesOK
  BY <1>1 DEF AllSlicesOK, SlicesOK
<1>5. Started = {}
  <2>1. \A k \in CallIds : k[1] \in Callers /\ k[2] \in Nat /\ k[2] >= 1
    BY ParallelAssumption DEF CallIds
  <2>2. \A k \in CallIds : ~(k[2] <= Len(calls[k[1]]))
    BY <1>1, <2>1
  <2> QED
    BY <2>2 DEF Started
<1>6. \A c \in Callers : ToHandOut(c) = {}
  BY <1>1 DEF ToHandOut
<1>7. \A k \in CallIds : \A i : ~HandsOut(k, i) /\ ~Covered(k, i) /\ ~InRange(k, i)
  BY <1>2, <1>5, <1>6 DEF HandsOut, Covered, InRange, CallIds
<1>8. AllCoverOK
  BY <1>1, <1>2, <1>7 DEF AllCoverOK, CoverOK
<1> QED
  BY <1>3, <1>4, <1>8 DEF CoverInv

\* Every step keeps track of every index.
LEMMA CoverInvNext ==
  ASSUME Shape, LoopInv, CoverInv, [Next]_vars
  PROVE  CoverInv'
<1>s. Shape'
  BY ShapeNext
<1>1. ASSUME NEW w \in Workers, WorkerStep(w) \/ WorkerThrows(w)
      PROVE  CoverInv'
  BY <1>1, BehindWorker, JoinedWorker, SlicesWorker, CoverWorker DEF CoverInv
<1>2. ASSUME NEW c \in Callers, Submit(c)
      PROVE  CoverInv'
  <2>1. AnyCallerStep(c)
    BY <1>2 DEF AnyCallerStep, CallerStep
  <2> QED
    BY <1>s, <1>2, <2>1, BehindSubmit, JoinedSubmit, SlicesStep, CoverSubmit DEF
       CoverInv
<1>3. ASSUME NEW c \in Callers, AnyCallerStep(c), ~Submit(c)
      PROVE  CoverInv'
  <2>1. BehindsOK' /\ AllJoinedOK' /\ AllSlicesOK'
    BY <1>s, <1>3, BehindCaller, JoinedCaller, SlicesStep DEF CoverInv
  <2>2. CASE HandsNoIndex(c)
    BY <1>s, <2>1, <2>2, CoverIdle DEF CoverInv
  <2>3. CASE ByItself(c)
    BY <1>s, <2>1, <2>3, CoverOwn DEF CoverInv
  <2>4. CASE \E joins \in BOOLEAN, r \in Ranges : ParallelFor(c, joins, r)
    BY <1>s, <2>1, <2>4, CoverBegin DEF CoverInv
  <2> QED
    BY <1>3, <2>2, <2>3, <2>4 DEF AnyCallerStep, CallerStep, HandsNoIndex, ByItself
<1>4. CASE UNCHANGED vars
  <2>1. UNCHANGED <<queue, running, workerPc, callerPc, frame, calls, failed, joined, done>>
    BY <1>4 DEF vars, workerVars, callerVars, historyVars
  <2>2. /\ \A w \in Workers : Todo(w)' = Todo(w)
        /\ \A c : Current(c)' = Current(c) /\ Owing(c)' = Owing(c)
        /\ Started' = Started
        /\ \A k : RangeOf(k)' = RangeOf(k)
    BY <2>1 DEF Todo, Queued, Owed, Current, Owing, Started, RangeOf
  <2>3. /\ \A c : RangeOf(Current(c))' = RangeOf(Current(c))
        /\ \A c : ToHandOut(c)' = ToHandOut(c)
    BY <2>1 DEF RangeOf, Current, ToHandOut
  <2>4. \A k, i : /\ HandsOut(k, i)' = HandsOut(k, i) /\ Covered(k, i)' = Covered(k, i)
                  /\ InRange(k, i)' = InRange(k, i)
                  /\ \A t : Covers(t, k, i)' = Covers(t, k, i)
    BY <2>2, <2>3 DEF HandsOut, Covered, InRange, Covers
  <2>5. BehindsOK'
    BY <2>1, <2>2 DEF CoverInv, BehindsOK, BehindOK
  <2>6. AllJoinedOK'
    BY <2>1, <2>2 DEF CoverInv, AllJoinedOK, JoinedOK
  <2>7. AllSlicesOK'
    BY <2>1, <2>3 DEF CoverInv, AllSlicesOK, SlicesOK
  <2>8. AllCoverOK'
    BY <2>1, <2>2, <2>4 DEF CoverInv, AllCoverOK, CoverOK
  <2> QED
    BY <2>5, <2>6, <2>7, <2>8 DEF CoverInv
<1>5. ASSUME NEW c \in Callers, AnyCallerStep(c)
      PROVE  CoverInv'
  BY <1>2, <1>3, <1>5
<1> QED
  BY <1>1, <1>4, <1>5 DEF Next, AnyCallerStep

\* Each index of a started loop is with its caller, or with one worker, or done,
\* or lost in a call that failed; and the loops that are joined are done.
THEOREM CoverInvariant == Spec => [](Shape /\ LoopInv /\ CoverInv)
<1>1. Init => Shape /\ LoopInv /\ CoverInv
  BY LoopInit, CoverInit
<1>2. (Shape /\ LoopInv /\ CoverInv) /\ [Next]_vars => (Shape /\ LoopInv /\ CoverInv)'
  BY ShapeNext, LoopInvNext, CoverInvNext
<1> QED
  BY <1>1, <1>2, PTL DEF Spec

\* func has been called exactly once for each index of the loops that a
\* parallel_for() or an is_completed() has waited for, if no exception lost some;
\* and never twice for any.
THEOREM DoneWhenJoinedCorrect == Spec => []DoneWhenJoined
<1>1. Shape /\ LoopInv /\ CoverInv => DoneWhenJoined
  <2> SUFFICES ASSUME Shape, LoopInv, CoverInv, NEW k \in CallIds
               PROVE  /\ \A i \in Indices : done[k][i] <= 1
                      /\ k \in joined \ failed =>
                           \A i \in calls[k[1]][k[2]][1] .. (calls[k[1]][k[2]][2] - 1) :
                             done[k][i] = 1
    BY DEF DoneWhenJoined
  <2>1. \A i \in Indices : done[k][i] <= 1
    BY DEF CoverInv, AllCoverOK, CoverOK
  <2>2. ASSUME k \in joined \ failed, NEW i \in RangeOf(k)[1] .. (RangeOf(k)[2] - 1)
        PROVE  done[k][i] = 1
    <3>1. k \in Started
      BY <2>2 DEF CoverInv, AllJoinedOK
    <3>2. k[1] \in Callers /\ k[2] \in 1 .. Len(calls[k[1]]) /\ calls[k[1]] \in Seq(Ranges)
      <4>1. k[1] \in Callers /\ k[2] \in Nat /\ k[2] >= 1
        BY ParallelAssumption DEF CallIds
      <4>2. calls[k[1]] \in Seq(Ranges) /\ k[2] <= Len(calls[k[1]])
        BY <3>1, <4>1 DEF Started, Shape
      <4> QED
        BY <4>1, <4>2
    <3>3. RangeOf(k) \in Ranges
      BY <3>2 DEF RangeOf
    <3>4. i \in Indices
      BY <3>3 DEF Indices
    <3>5. ~Covered(k, i)
      BY <2>2 DEF CoverInv, AllJoinedOK, JoinedOK, Covered, Covers
    <3>6. ~HandsOut(k, i)
      <4> SUFFICES ASSUME k = Current(k[1])
                   PROVE  ToHandOut(k[1]) = {}
        BY DEF HandsOut
      <4>1. callerPc[k[1]] \in {"idle", "poll"}
        BY <2>2 DEF CoverInv, AllJoinedOK, JoinedOK
      <4> QED
        BY <4>1 DEF ToHandOut
    <3>7. InRange(k, i)
      BY <2>2, <3>1 DEF InRange
    <3> QED
      BY <2>2, <3>4, <3>5, <3>6, <3>7 DEF CoverInv, AllCoverOK, CoverOK
  <2> QED
    BY <2>1, <2>2 DEF RangeOf
<1> QED
  BY <1>1, CoverInvariant, PTL

ExecStep(w) == [Worker(w)!Next]_(Worker(w)!executorVars)
SameExec(w) == UNCHANGED <<submitted[w], queue[w], running[w], finished[w]>>

\* Who does nothing to its tasks does nothing that an executor could see.
LEMMA SameExecIf ==
  ASSUME NEW w, SameExec(w)
  PROVE  ExecStep(w)
<1>1. /\ UNCHANGED <<submitted[w], running[w].id, finished[w]>>
      /\ {t.id : t \in Range(queue[w])}' = {t.id : t \in Range(queue[w])}
  BY DEF SameExec
<1> QED
  BY <1>1 DEF ExecStep, Worker!executorVars

\* A step of a worker is a step of its executor, and of no other.
LEMMA ExecWorker ==
  ASSUME Shape, LoopInv, NEW w \in Workers, WorkerStep(w) \/ WorkerThrows(w)
  PROVE  ExecStep(w) /\ \A v \in Workers \ {w} : ExecStep(v)
<1> DEFINE P == {t.id : t \in Range(queue[w])}
<1>1. WorkersOK /\ WorkersOK' /\ NoTask.id = 0 /\ \A t \in Queued(w) : t.id \in Nat
  BY WorkerEffect, Members DEF LoopInv, NoTask, Tasks
<1>2. ASSUME NEW v \in Workers \ {w}
      PROVE  ExecStep(v)
  <2>1. /\ queue' = queue \/ \E q : queue' = [queue EXCEPT ![w] = q]
        /\ running' = running \/ \E t : running' = [running EXCEPT ![w] = t]
        /\ finished' = finished \/ \E s : finished' = [finished EXCEPT ![w] = s]
        /\ submitted' = submitted
    BY DEF WorkerStep, WorkerThrows, Take, Run, CountOff, Finish, Restart
  <2>2. queue'[v] = queue[v]
    BY <2>1 DEF Shape
  <2>3. running'[v] = running[v]
    BY <2>1 DEF Shape
  <2>4. finished'[v] = finished[v]
    BY <2>1 DEF Shape
  <2> QED
    BY <2>1, <2>2, <2>3, <2>4, SameExecIf DEF SameExec
<1>3. CASE Take(w)
  <2>1. /\ Queued(w)' = Queued(w) \ {running'[w]} /\ running'[w] \in Queued(w)
        /\ UNCHANGED <<submitted, finished>> /\ workerPc[w] = "idle"
    BY <1>3, TakeEffect DEF LoopInv, Take, WorkerGoto
  <2>2. running[w].id = 0
    BY <1>1, <2>1 DEF WorkersOK, WorkerOK
  <2>3. \A t \in Queued(w) \ {running'[w]} : running'[w].id < t.id
    BY <1>1, <2>1 DEF WorkersOK, WorkerOK
  <2>4. running'[w].id \in P /\ \A k \in P : running'[w].id <= k
    BY <1>1, <2>1, <2>3 DEF Queued
  <2>5. P' = P \ {running'[w].id}
    <3>1. P' = {t.id : t \in Queued(w) \ {running'[w]}}
      BY <2>1 DEF Queued
    <3>2. \A t \in Queued(w) \ {running'[w]} : t.id # running'[w].id
      BY <1>1, <2>1, <2>3
    <3>3. P = {t.id : t \in Queued(w)}
      BY DEF Queued
    <3> QED
      BY <3>1, <3>2, <3>3
  <2>6. Worker(w)!Begin
    BY <2>1, <2>2, <2>4, <2>5 DEF Worker!Begin, Worker!Idle
  <2>7. Worker(w)!Next
    BY <2>6 DEF Worker!Next
  <2> QED
    BY <1>2, <2>7 DEF ExecStep
<1>4. CASE Run(w) \/ CountOff(w)
  <2>1. UNCHANGED <<submitted, queue, running, finished>>
    BY <1>4 DEF Run, CountOff
  <2> QED
    BY <1>2, <2>1, SameExecIf DEF SameExec
<1>5. CASE Finish(w)
  <2>1. /\ workerPc[w] = "finish" /\ UNCHANGED <<queue, submitted>>
        /\ running'[w] = NoTask /\ finished'[w] = finished[w] \cup {running[w].id}
    BY <1>5 DEF Finish, WorkerGoto, Shape
  <2>2. running[w].id # 0
    <3>1. running[w] # NoTask
      BY <1>1, <2>1 DEF WorkersOK, WorkerOK
    <3>2. running[w].id > 0
      BY <1>1, <3>1 DEF WorkersOK, WorkerOK
    <3> QED
      BY <3>2
  <2>3. Worker(w)!Finish
    BY <1>1, <2>1, <2>2 DEF Worker!Finish, Worker!Idle
  <2>4. Worker(w)!Next
    BY <2>3 DEF Worker!Next
  <2> QED
    BY <1>2, <2>4 DEF ExecStep
<1>6. CASE WorkerThrows(w)
  <2>1. /\ workerPc[w] = "run" /\ UNCHANGED <<queue, submitted, finished>>
        /\ running'[w] = NoTask
    BY <1>6 DEF WorkerThrows, WorkerGoto, Shape
  <2>2. running[w].id # 0
    <3>1. running[w] # NoTask
      BY <1>1, <2>1 DEF WorkersOK, WorkerOK
    <3>2. running[w].id > 0
      BY <1>1, <3>1 DEF WorkersOK, WorkerOK
    <3> QED
      BY <3>2
  <2>3. Worker(w)!Fail
    BY <1>1, <2>1, <2>2 DEF Worker!Fail, Worker!Idle
  <2>4. Worker(w)!Next
    BY <2>3 DEF Worker!Next
  <2> QED
    BY <1>2, <2>4 DEF ExecStep
<1>7. CASE Restart(w)
  <2>1. UNCHANGED <<running, submitted, finished>> /\ queue'[w] = <<>>
    BY <1>7 DEF Restart, Shape
  <2>2. P' = {}
    BY <2>1 DEF Range
  <2>3. Worker(w)!Discard
    BY <2>1, <2>2 DEF Worker!Discard
  <2>4. Worker(w)!Next
    BY <2>3 DEF Worker!Next
  <2> QED
    BY <1>2, <2>4 DEF ExecStep
<1> QED
  BY <1>2, <1>3, <1>4, <1>5, <1>6, <1>7 DEF WorkerStep

\* A slice is a submission to the executor that gets it.
LEMMA ExecSubmit ==
  ASSUME Shape, LoopInv, NEW c \in Callers, Submit(c), NEW v \in Workers
  PROVE  ExecStep(v)
<1>0. PICK w, e : w = frame[c].next /\ e = NewTask(c)
  OBVIOUS
<1>1. /\ w \in Workers /\ Queued(w)' = Queued(w) \cup {e}
      /\ e.id = submitted[w] + 1
      /\ UNCHANGED <<running, finished>>
  <2>1. w \in Workers /\ Queued(w)' = Queued(w) \cup {e}
    BY <1>0, SubmitEffect DEF LoopInv
  <2>2. e.id = submitted[w] + 1
    BY <1>0 DEF NewTask
  <2> QED
    BY <2>1, <2>2 DEF Submit
<1>2. /\ submitted' = [submitted EXCEPT ![w] = submitted[w] + 1]
      /\ queue' = [queue EXCEPT ![w] = Append(queue[w], e)]
  BY <1>0 DEF Submit, PushBack, NewTask
<1>3. CASE v = w
  <2>1. submitted'[w] = submitted[w] + 1
    BY <1>1, <1>2 DEF Shape
  <2>2. {t.id : t \in Range(queue[w])}' = {t.id : t \in Range(queue[w])} \cup {submitted[w] + 1}
    BY <1>1 DEF Queued
  <2>3. Worker(w)!Submit
    BY <1>1, <2>1, <2>2 DEF Worker!Submit
  <2> QED
    BY <1>3, <2>3 DEF ExecStep, Worker!Next
<1>4. CASE v # w
  <2>1. submitted'[v] = submitted[v] /\ queue'[v] = queue[v]
    BY <1>2, <1>4 DEF Shape
  <2> QED
    BY <1>1, <2>1, SameExecIf DEF SameExec
<1> QED
  BY <1>3, <1>4

\* Every worker does what XhnThread is shown to implement, and no more.
THEOREM WorkersAreExecutorsCorrect == Spec => WorkersAreExecutors
<1>1. Init => \A w \in Workers : Worker(w)!Init
  <2> SUFFICES ASSUME Init, NEW w \in Workers
               PROVE  Worker(w)!Init
    OBVIOUS
  <2>1. submitted[w] = 0 /\ finished[w] = {} /\ running[w].id = 0
        /\ {t.id : t \in Range(queue[w])} = {}
    BY DEF Init, NoTask, Range
  <2> QED
    BY <2>1 DEF Worker!Init, Worker!Idle
<1>2. Shape /\ LoopInv /\ [Next]_vars => [\A w \in Workers : ExecStep(w)]_vars
  <2> SUFFICES ASSUME Shape, LoopInv, Next, NEW v \in Workers
               PROVE  ExecStep(v)
    OBVIOUS
  <2>1. ASSUME NEW w \in Workers, WorkerStep(w) \/ WorkerThrows(w)
        PROVE  ExecStep(v)
    BY <2>1, ExecWorker
  <2>2. ASSUME NEW c \in Callers, AnyCallerStep(c)
        PROVE  ExecStep(v)
    <3>1. CASE Submit(c)
      BY <3>1, ExecSubmit
    <3>2. CASE ~Submit(c)
      <4>1. UNCHANGED workerVars
        BY <2>2, <3>2 DEF AnyCallerStep, ParallelFor, IsCompleted, CallerStep,
           CallerThrows,
           Whole, OwnSlice, Remainder, Wait, PollNext, PollTrue
      <4> QED
        BY <4>1, SameExecIf DEF SameExec, workerVars
    <3> QED
      BY <3>1, <3>2
  <2> QED
    BY <2>1, <2>2 DEF Next, AnyCallerStep
<1>3. /\ \A w \in Workers : Worker(w)!Init
      /\ [][\A w \in Workers : ExecStep(w)]_vars
      => WorkersAreExecutors
  BY DEF WorkersAreExecutors, ExecStep
<1> QED
  BY <1>1, <1>2, <1>3, LoopInvariant, PTL DEF Spec
=============================================================================
