-------------------------- MODULE XhnThread_proofs --------------------------
(* Machine-checked proofs about XhnThread, for every set of clients and     *)
(* every bound on tasks, continued runs and exceptions.                     *)
EXTENDS XhnThread, TLAPS

\* A queue keeps its type when further tasks become submittable.
LEMMA SeqMonotone ==
  ASSUME NEW S, NEW T, S \subseteq T, NEW q \in Seq(S)
  PROVE  q \in Seq(T)
  OBVIOUS

\* Most steps keep the queue or empty it.
LEMMA SameOrEmpty ==
  ASSUME NEW S, NEW q \in Seq(S), NEW r, r = q \/ r = <<>>
  PROVE  r \in Seq(S)
<1>1. <<>> \in Seq(S)
  OBVIOUS
<1> QED
  BY <1>1

\* What the queue holds are submitted tasks.
LEMMA QueuedAreSubmitted ==
  ASSUME TypeOK
  PROVE  Range(m_tasks) \subseteq 1 .. added
  BY DEF TypeOK, Range

(* What the three queue operations do to the set of queued tasks. *)

\* push_back
LEMMA RangeAppend ==
  ASSUME NEW S, NEW q \in Seq(S), NEW x \in S
  PROVE  Range(Append(q, x)) = Range(q) \cup {x}
<1>1. ASSUME NEW y \in Range(Append(q, x)) PROVE y \in Range(q) \cup {x}
  BY <1>1 DEF Range
<1>2. ASSUME NEW y \in Range(q) PROVE y \in Range(Append(q, x))
  <2>1. PICK i \in DOMAIN q : q[i] = y
    BY <1>2 DEF Range
  <2>2. i \in DOMAIN Append(q, x) /\ Append(q, x)[i] = y
    BY <2>1
  <2> QED
    BY <2>2 DEF Range
<1>3. x \in Range(Append(q, x))
  <2>1. Len(q) + 1 \in DOMAIN Append(q, x) /\ Append(q, x)[Len(q) + 1] = x
    OBVIOUS
  <2> QED
    BY <2>1 DEF Range
<1> QED
  BY <1>1, <1>2, <1>3

\* push_front
LEMMA RangeCons ==
  ASSUME NEW S, NEW q \in Seq(S), NEW x \in S
  PROVE  Range(<<x>> \o q) = {x} \cup Range(q)
<1> DEFINE r == <<x>> \o q
<1>1. /\ DOMAIN r = 1 .. (1 + Len(q)) /\ r[1] = x
      /\ \A i \in 1 .. Len(q) : r[i + 1] = q[i]
  OBVIOUS
<1> HIDE DEF r
<1>2. ASSUME NEW y \in Range(r) PROVE y \in {x} \cup Range(q)
  <2>1. PICK i \in DOMAIN r : r[i] = y
    BY <1>2 DEF Range
  <2>2. i = 1 \/ (i - 1 \in 1 .. Len(q) /\ r[(i - 1) + 1] = q[i - 1])
    BY <1>1, <2>1
  <2> QED
    BY <1>1, <2>1, <2>2 DEF Range
<1>3. ASSUME NEW y \in Range(q) PROVE y \in Range(r)
  <2>1. PICK i \in 1 .. Len(q) : q[i] = y
    BY <1>3 DEF Range
  <2>2. i + 1 \in DOMAIN r /\ r[i + 1] = y
    BY <1>1, <2>1
  <2> QED
    BY <2>2 DEF Range
<1>4. x \in Range(r)
  BY <1>1 DEF Range
<1> QED
  BY <1>2, <1>3, <1>4 DEF r

\* front and pop_front
LEMMA RangeTail ==
  ASSUME NEW S, NEW q \in Seq(S), q # <<>>
  PROVE  Range(q) = {Head(q)} \cup Range(Tail(q))
<1>1. /\ Len(q) \in Nat \ {0} /\ DOMAIN q = 1 .. Len(q) /\ Head(q) = q[1]
      /\ DOMAIN Tail(q) = 1 .. (Len(q) - 1)
      /\ \A i \in 1 .. (Len(q) - 1) : Tail(q)[i] = q[i + 1]
  OBVIOUS
<1>2. ASSUME NEW y \in Range(q) PROVE y \in {Head(q)} \cup Range(Tail(q))
  <2>1. PICK i \in 1 .. Len(q) : q[i] = y
    BY <1>1, <1>2 DEF Range
  <2>2. CASE i = 1
    BY <1>1, <2>1, <2>2
  <2>3. CASE i # 1
    <3>1. i - 1 \in 1 .. (Len(q) - 1) /\ (i - 1) + 1 = i
      BY <1>1, <2>3
    <3>2. Tail(q)[i - 1] = y /\ i - 1 \in DOMAIN Tail(q)
      BY <1>1, <2>1, <3>1
    <3> QED
      BY <3>2 DEF Range
  <2> QED
    BY <2>2, <2>3
<1>3. ASSUME NEW y \in Range(Tail(q)) PROVE y \in Range(q)
  <2>1. PICK i \in 1 .. (Len(q) - 1) : Tail(q)[i] = y
    BY <1>1, <1>3 DEF Range
  <2>2. i + 1 \in DOMAIN q /\ q[i + 1] = y
    BY <1>1, <2>1
  <2> QED
    BY <2>2 DEF Range
<1>4. Head(q) \in Range(q)
  BY <1>1 DEF Range
<1> QED
  BY <1>2, <1>3, <1>4
-----------------------------------------------------------------------------
\* The worker holds a task exactly while it runs one and settles its result.
LocalTask == t # NoTask <=> workerPc \in {"runTask", "ranTrue", "ranFalse"}

\* The worker begins without a task.
LEMMA LocalTaskInit == Init => LocalTask
  BY DEF Init, LocalTask

\* It takes one when it pops it, and gives it up when it has settled it.
LEMMA LocalTaskStep ==
  ASSUME TypeOK, LocalTask, [Next]_vars
  PROVE  LocalTask'
<1> USE DEF LocalTask, queueVars
<1>1. CASE Worker
  <2> USE DEF WorkerGoto
  <2>1. PopTask => t' # NoTask
    BY DEF PopTask, TypeOK, NoTask
  <2> QED
    BY <1>1, <2>1
       DEF Worker, WorkerStep, Start, BeginFinished, BeginStopped, BeginClear,
           SetRunning, CheckOuter, CheckInner, CheckFinished, LockQueue,
           TestQueueWait, TestQueueGo, CondWait, WakeUp, SpuriousWakeUp,
           PopTask, PopNothing, RunCompletes, RunContinues, RunThrows,
           AfterTrue, AfterFalse, Caught, SetErrored, Exit, Leave
<1>2. CASE \E c \in Clients : Client(c)
  BY <1>2
     DEF Client, ClientProgress, ClientCall, Attach, AddTask, Stop, StopSet,
         SetFinishedAndSignal, Reset, RestartReset, ResetErrored, Clear, Call,
         Release, WaitReturn, RestartTest, RestartClear, StopTest, DtorFinish,
         DtorRetry, DtorSetFinished, DtorSignal, DtorRetrySignal,
         DtorSignalWorker, DtorTest, DtorJoin
<1>3. CASE UNCHANGED vars
  BY <1>3 DEF vars
<1> QED
  BY <1>1, <1>2, <1>3 DEF Next

\* Type correctness of one step of run(): one part of the state after another.
LEMMA WorkerKeepsType ==
  ASSUME TypeOK, LocalTask, Worker
  PROVE  TypeOK'
<1>1. /\ added' = added /\ clientPc' = clientPc
      /\ t' \in {NoTask} \cup 1 .. added
      /\ m_tasks' \in Seq(1 .. added)
      /\ workerPc' \in WorkerLocations
  <2> USE DEF Worker, WorkerStep, WorkerGoto, Start, BeginFinished,
          BeginStopped, BeginClear, SetRunning, CheckOuter, CheckInner,
          CheckFinished, LockQueue, TestQueueWait, TestQueueGo, CondWait,
          WakeUp, SpuriousWakeUp, PopTask, PopNothing, RunCompletes,
          RunContinues, RunThrows, AfterTrue, AfterFalse, Caught, SetErrored,
          Exit, Leave, queueVars, flagVars, historyVars
  <2>1. added' = added /\ clientPc' = clientPc
    OBVIOUS
  <2>2. t' \in {NoTask} \cup 1 .. added
    BY DEF TypeOK, NoTask
  <2>3. m_tasks' \in Seq(1 .. added)
    <3>1. CASE AfterFalse
      <4>1. t \in 1 .. added
        BY <3>1 DEF TypeOK, LocalTask
      <4> QED
        BY <3>1, <4>1 DEF PushFront, TypeOK
    <3>2. CASE PopTask
      BY <3>2 DEF TypeOK
    <3>3. CASE ~AfterFalse /\ ~PopTask
      <4>1. m_tasks' = m_tasks \/ m_tasks' = <<>>
        BY <3>3
      <4> QED
        BY ONLY TypeOK, <4>1, SameOrEmpty DEF TypeOK
    <3> QED
      BY <3>1, <3>2, <3>3
  <2>4. workerPc' \in WorkerLocations
    BY DEF TypeOK, WorkerLocations
  <2> QED
    BY <2>1, <2>2, <2>3, <2>4
<1>2. /\ m_is_completed' \in BOOLEAN /\ m_is_finished' \in BOOLEAN
      /\ m_is_running' \in BOOLEAN /\ m_is_stopped' \in BOOLEAN
      /\ m_is_errored' \in BOOLEAN
      /\ m_mutex' \in {"free", "worker"} /\ sleeping' \in BOOLEAN
      /\ finished' \subseteq 1 .. added /\ discarded' \subseteq 1 .. added
      /\ lostToError' \subseteq 1 .. added
      /\ continues' \in Nat /\ throws' \in Nat
      /\ resetSinceError' \in BOOLEAN /\ clearedWhileBusy' \in BOOLEAN
  <2> USE DEF TypeOK, Worker, WorkerStep, WorkerGoto, Start, BeginFinished,
          BeginStopped, BeginClear, SetRunning, CheckOuter, CheckInner,
          CheckFinished, LockQueue, TestQueueWait, TestQueueGo, CondWait,
          WakeUp, SpuriousWakeUp, PopTask, PopNothing, RunCompletes,
          RunContinues, RunThrows, AfterTrue, AfterFalse, Caught, SetErrored,
          Exit, Leave, queueVars, flagVars, historyVars
  <2>1. /\ m_is_completed' \in BOOLEAN /\ m_is_finished' \in BOOLEAN
        /\ m_is_running' \in BOOLEAN /\ m_is_stopped' \in BOOLEAN
        /\ m_is_errored' \in BOOLEAN
    OBVIOUS
  <2>2. m_mutex' \in {"free", "worker"} /\ sleeping' \in BOOLEAN
    OBVIOUS
  <2>3. /\ finished' \subseteq 1 .. added /\ discarded' \subseteq 1 .. added
        /\ lostToError' \subseteq 1 .. added
    BY QueuedAreSubmitted DEF LocalTask
  <2>4. continues' \in Nat /\ throws' \in Nat
    OBVIOUS
  <2>5. resetSinceError' \in BOOLEAN
    OBVIOUS
  <2>6. clearedWhileBusy' \in BOOLEAN
    OBVIOUS
  <2> QED
    BY <2>1, <2>2, <2>3, <2>4, <2>5, <2>6
<1>3. added' \in Nat /\ clientPc' \in [Clients -> ClientLocations]
  BY <1>1 DEF TypeOK
<1>4. /\ m_tasks' \in Seq(1 .. added') /\ t' \in {NoTask} \cup 1 .. added'
      /\ finished' \subseteq 1 .. added' /\ discarded' \subseteq 1 .. added'
      /\ lostToError' \subseteq 1 .. added'
  BY <1>1, <1>2
<1> QED
  BY ONLY <1>1, <1>2, <1>3, <1>4, Zenon DEF TypeOK

\* The calls of the clients keep the types.
LEMMA ClientKeepsType ==
  ASSUME TypeOK, NEW c \in Clients, Client(c)
  PROVE  TypeOK'
<1>1. /\ added' \in Nat /\ 1 .. added \subseteq 1 .. added'
      /\ t' = t /\ workerPc' = workerPc /\ m_mutex' = m_mutex
      /\ finished' = finished /\ lostToError' = lostToError
      /\ continues' = continues /\ throws' = throws
      /\ discarded' \subseteq 1 .. added
      /\ clientPc' \in [Clients -> ClientLocations]
      /\ \/ m_tasks' = m_tasks \/ m_tasks' = <<>>
         \/ added' = added + 1 /\ m_tasks' = Append(m_tasks, added + 1)
  <2> USE DEF Client, ClientProgress, ClientCall, ClientGoto, Attach, AddTask,
          Stop, StopSet, SetFinishedAndSignal, Reset, RestartReset,
          ResetErrored, Clear, Call, Release, WaitReturn, RestartTest,
          RestartClear, StopTest, DtorFinish, DtorRetry, DtorSetFinished,
          DtorSignal, DtorRetrySignal, DtorSignalWorker, DtorTest, DtorJoin,
          Signal, queueVars, flagVars, historyVars
  <2>1. added' \in Nat /\ 1 .. added \subseteq 1 .. added'
    BY DEF TypeOK
  <2>2. /\ t' = t /\ workerPc' = workerPc /\ m_mutex' = m_mutex
        /\ finished' = finished /\ lostToError' = lostToError
        /\ continues' = continues /\ throws' = throws
    OBVIOUS
  <2>3. discarded' \subseteq 1 .. added
    BY QueuedAreSubmitted DEF TypeOK
  <2>4. clientPc' \in [Clients -> ClientLocations]
    BY DEF TypeOK, ClientLocations
  <2>5. \/ m_tasks' = m_tasks \/ m_tasks' = <<>>
        \/ added' = added + 1 /\ m_tasks' = Append(m_tasks, added + 1)
    OBVIOUS
  <2> QED
    BY <2>1, <2>2, <2>3, <2>4, <2>5
<1>2. /\ m_is_completed' \in BOOLEAN /\ m_is_finished' \in BOOLEAN
      /\ m_is_running' \in BOOLEAN /\ m_is_stopped' \in BOOLEAN
      /\ m_is_errored' \in BOOLEAN /\ sleeping' \in BOOLEAN
      /\ resetSinceError' \in BOOLEAN /\ clearedWhileBusy' \in BOOLEAN
  <2> USE DEF TypeOK, Client, ClientProgress, ClientCall, Attach, AddTask,
          Stop, StopSet, SetFinishedAndSignal, Reset, RestartReset,
          ResetErrored, Clear, Call, Release, WaitReturn, RestartTest,
          RestartClear, StopTest, DtorFinish, DtorRetry, DtorSetFinished,
          DtorSignal, DtorRetrySignal, DtorSignalWorker, DtorTest, DtorJoin,
          Signal, queueVars, flagVars, historyVars
  <2>1. m_is_completed' \in BOOLEAN /\ m_is_finished' \in BOOLEAN
    OBVIOUS
  <2>2. m_is_running' \in BOOLEAN /\ m_is_stopped' \in BOOLEAN
    OBVIOUS
  <2>3. m_is_errored' \in BOOLEAN /\ sleeping' \in BOOLEAN
    OBVIOUS
  <2>4. resetSinceError' \in BOOLEAN /\ clearedWhileBusy' \in BOOLEAN
    OBVIOUS
  <2> HIDE DEF TypeOK, Client
  <2> QED
    BY <2>1, <2>2, <2>3, <2>4
<1>3. m_tasks' \in Seq(1 .. added')
  <2>1. m_tasks \in Seq(1 .. added')
    BY <1>1, SeqMonotone DEF TypeOK
  <2>2. CASE m_tasks' = m_tasks \/ m_tasks' = <<>>
    BY <2>1, <2>2, SameOrEmpty
  <2>3. CASE added' = added + 1 /\ m_tasks' = Append(m_tasks, added + 1)
    <3>1. added + 1 \in 1 .. added'
      BY <2>3 DEF TypeOK
    <3> QED
      BY <2>1, <2>3, <3>1
  <2> QED
    BY <1>1, <2>2, <2>3
<1>4. /\ t' \in {NoTask} \cup 1 .. added'
      /\ finished' \subseteq 1 .. added' /\ discarded' \subseteq 1 .. added'
      /\ lostToError' \subseteq 1 .. added'
  BY <1>1 DEF TypeOK
<1>5. /\ m_mutex' \in {"free", "worker"} /\ workerPc' \in WorkerLocations
      /\ continues' \in Nat /\ throws' \in Nat
  BY <1>1 DEF TypeOK
<1> QED
  BY ONLY <1>1, <1>2, <1>3, <1>4, <1>5, Zenon DEF TypeOK

\* Type correctness: in particular the queue and the worker's local task
\* only ever hold tasks that add_task() submitted.
THEOREM TypeCorrect == Spec => []TypeOK
<1>1. Init => TypeOK
  <2> SUFFICES ASSUME Init PROVE TypeOK
    OBVIOUS
  <2>1. m_tasks \in Seq(1 .. added) /\ t \in {NoTask} \cup 1 .. added
    BY DEF Init
  <2>2. workerPc \in WorkerLocations
    BY DEF Init, WorkerLocations
  <2>3. clientPc \in [Clients -> ClientLocations]
    BY DEF Init, ClientLocations
  <2> QED
    BY <2>1, <2>2, <2>3 DEF Init, TypeOK
<1>2. TypeOK /\ LocalTask /\ [Next]_vars => TypeOK' /\ LocalTask'
  <2> SUFFICES ASSUME TypeOK, LocalTask, [Next]_vars PROVE TypeOK' /\ LocalTask'
    OBVIOUS
  <2>1. TypeOK'
    <3>1. CASE UNCHANGED vars
      BY <3>1 DEF vars, queueVars, flagVars, historyVars, TypeOK
    <3> QED
      BY <3>1, WorkerKeepsType, ClientKeepsType DEF Next
  <2> QED
    BY <2>1, LocalTaskStep
<1> QED
  BY <1>1, <1>2, LocalTaskInit, PTL DEF Spec
-----------------------------------------------------------------------------
(* Destruction. *)

\* m_is_stopped is raised for good.
StoppedIsFinal == m_is_stopped => workerPc \in {"leaving", "returned"}

\* The destructor goes past its loop only when the worker has raised it.
DtorWaited ==
  \A c \in Clients :
    clientPc[c] \in {"dtorJoin", "destroyed"}
    => workerPc \in {"leaving", "returned"}

\* The object's members outlive the worker's last access to them, although
\* the thread is detached and pthread_join cannot be relied on.
THEOREM DestroyedAfterWorkerLeft == Spec => []NoUseAfterDestroy
<1> USE DEF StoppedIsFinal, DtorWaited
<1>1. Init => StoppedIsFinal /\ DtorWaited
  BY DEF Init
<1>2. TypeOK /\ StoppedIsFinal /\ DtorWaited /\ [Next]_vars
      => (StoppedIsFinal /\ DtorWaited)'
  <2> SUFFICES ASSUME TypeOK, StoppedIsFinal, DtorWaited, [Next]_vars
               PROVE  (StoppedIsFinal /\ DtorWaited)'
    OBVIOUS
  <2>1. CASE Worker
    BY <2>1
       DEF Worker, WorkerStep, WorkerGoto, Start, BeginFinished, BeginStopped,
           BeginClear, SetRunning, CheckOuter, CheckInner, CheckFinished,
           LockQueue, TestQueueWait, TestQueueGo, CondWait, WakeUp,
           SpuriousWakeUp, PopTask, PopNothing, RunCompletes, RunContinues,
           RunThrows, AfterTrue, AfterFalse, Caught, SetErrored, Exit,
           Leave, queueVars, flagVars, historyVars
  <2>2. ASSUME NEW c \in Clients, Client(c)
        PROVE  (StoppedIsFinal /\ DtorWaited)'
    <3>1. workerPc' = workerPc /\ m_is_stopped' = m_is_stopped
      BY <2>2
         DEF Client, ClientProgress, ClientCall, Attach, AddTask, Stop,
             StopSet, SetFinishedAndSignal, Reset, RestartReset, ResetErrored,
             Clear, Call, Release, WaitReturn, RestartTest, RestartClear,
             StopTest, DtorFinish, DtorRetry, DtorSetFinished, DtorSignal,
             DtorRetrySignal, DtorSignalWorker, DtorTest, DtorJoin, flagVars
    <3>2. DtorWaited'
      BY <2>2, <3>1
         DEF TypeOK, Client, ClientProgress, ClientCall, ClientGoto, Attach,
             AddTask, Stop, StopSet, SetFinishedAndSignal, Reset,
             RestartReset, ResetErrored, Clear, Call, Release, WaitReturn,
             RestartTest, RestartClear, StopTest, DtorFinish, DtorRetry,
             DtorSetFinished, DtorSignal, DtorRetrySignal, DtorSignalWorker,
             DtorTest, DtorJoin
    <3> QED
      BY <3>1, <3>2
  <2>3. CASE UNCHANGED vars
    BY <2>3 DEF vars, flagVars
  <2> QED
    BY <2>1, <2>2, <2>3 DEF Next
<1>3. DtorWaited => NoUseAfterDestroy
  BY DEF NoUseAfterDestroy
<1> QED
  BY <1>1, <1>2, <1>3, TypeCorrect, PTL DEF Spec
-----------------------------------------------------------------------------
(* The queue and the task being run. *)

\* The steps of a client that change the queue; the others leave it, and
\* what the history says of tasks, alone.
LEMMA ClientQueueSteps ==
  ASSUME NEW c \in Clients, Client(c)
  PROVE  \/ AddTask(c) \/ Clear(c) \/ RestartClear(c)
         \/ UNCHANGED <<m_tasks, t, workerPc, m_is_completed, added, finished,
                        discarded, lostToError, clearedWhileBusy>>
  BY DEF Client, ClientProgress, ClientCall, Attach, Stop, StopSet,
         SetFinishedAndSignal, Reset, RestartReset, ResetErrored, Call,
         Release, WaitReturn, RestartTest, StopTest, DtorFinish, DtorRetry,
         DtorSetFinished, DtorSignal, DtorRetrySignal, DtorSignalWorker,
         DtorTest, DtorJoin, queueVars, flagVars, historyVars

\* A step of the worker that holds the task it held, if any, and raises
\* m_is_completed only when there is nothing to do.
WorkerKeepsTasks ==
  /\ UNCHANGED <<m_tasks, t, added, finished, discarded, lostToError,
                 clearedWhileBusy>>
  /\ workerPc' # "ranTrue" /\ workerPc # "ranTrue"
  /\ UNCHANGED m_is_completed \/ (m_tasks = <<>> /\ t = NoTask)

\* The steps of the worker that touch tasks, and all others.
LEMMA WorkerQueueSteps ==
  ASSUME LocalTask, Worker
  PROVE  \/ BeginClear \/ PopTask \/ RunCompletes \/ RunThrows
         \/ AfterTrue \/ AfterFalse \/ WorkerKeepsTasks
  BY DEF LocalTask, WorkerKeepsTasks, WorkerGoto, Worker, WorkerStep, Start,
         BeginFinished,
         BeginStopped, SetRunning, CheckOuter, CheckInner, CheckFinished,
         LockQueue, TestQueueWait, TestQueueGo, CondWait, WakeUp,
         SpuriousWakeUp, PopNothing, RunContinues, Caught, SetErrored, Exit,
         Leave, queueVars, flagVars, historyVars

\* is_completed() tells the truth except after a clear() under a running task.
THEOREM CompletedMeansDrainedCorrect == Spec => []CompletedMeansDrained
<1> USE DEF CompletedMeansDrained
<1>1. Init => CompletedMeansDrained
  BY DEF Init
<1>2. TypeOK /\ LocalTask /\ CompletedMeansDrained /\ [Next]_vars
      => CompletedMeansDrained'
  <2> SUFFICES ASSUME TypeOK, LocalTask, CompletedMeansDrained, [Next]_vars
               PROVE  CompletedMeansDrained'
    OBVIOUS
  <2>1. CASE Worker
    <3> USE DEF LocalTask, WorkerGoto, queueVars, flagVars, historyVars
    <3>1. CASE BeginClear
      BY <3>1 DEF BeginClear
    <3>2. CASE PopTask
      BY <3>2 DEF PopTask
    <3>3. CASE RunCompletes
      BY <3>3 DEF RunCompletes
    <3>4. CASE RunThrows
      BY <3>4 DEF RunThrows
    <3>5. CASE AfterTrue
      BY <3>5 DEF AfterTrue
    <3>6. CASE AfterFalse
      BY <3>6 DEF AfterFalse, PushFront
    <3>7. CASE WorkerKeepsTasks
      BY <3>7 DEF WorkerKeepsTasks
    <3> HIDE DEF LocalTask, WorkerGoto, queueVars, flagVars, historyVars
    <3> QED
      BY <2>1, <3>1, <3>2, <3>3, <3>4, <3>5, <3>6, <3>7, WorkerQueueSteps
  <2>2. ASSUME NEW c \in Clients, Client(c) PROVE CompletedMeansDrained'
    <3>1. CASE AddTask(c)
      BY <3>1 DEF AddTask
    <3>2. CASE Clear(c)
      BY <3>2 DEF Clear, TypeOK
    <3>3. CASE RestartClear(c)
      BY <3>3 DEF RestartClear, flagVars
    <3> QED
      BY <2>2, <3>1, <3>2, <3>3, ClientQueueSteps
  <2>3. CASE UNCHANGED vars
    BY <2>3 DEF vars, queueVars, flagVars, historyVars
  <2> QED
    BY <2>1, <2>2, <2>3 DEF Next
<1> QED
  BY <1>1, <1>2, LocalTaskInit, LocalTaskStep, TypeCorrect, PTL DEF Spec

\* A task whose run() has just returned true counts as finished already.
FinishedTask == workerPc = "ranTrue" => t \in finished

\* Every task that was ever submitted is accounted for.
THEOREM NoTaskVanishesCorrect == Spec => []NoTaskVanishes
<1> USE DEF NoTaskVanishes, FinishedTask, NoTask
<1>1. Init => NoTaskVanishes /\ FinishedTask
  <2>1. Range(<<>>) = {}
    BY DEF Range
  <2> QED
    BY <2>1 DEF Init
<1>2. /\ TypeOK /\ LocalTask /\ NoTaskVanishes /\ FinishedTask /\ [Next]_vars
      => (NoTaskVanishes /\ FinishedTask)'
  <2> SUFFICES ASSUME TypeOK, LocalTask, NoTaskVanishes, FinishedTask,
                      [Next]_vars
               PROVE  (NoTaskVanishes /\ FinishedTask)'
    OBVIOUS
  <2>0. Range(<<>>) = {}
    BY DEF Range
  <2>1. CASE Worker
    <3> USE DEF WorkerGoto, queueVars, historyVars
    <3>1. CASE BeginClear
      BY <2>0, <3>1 DEF BeginClear
    <3>2. CASE PopTask
      <4>1. Range(m_tasks) = {t'} \cup Range(m_tasks') /\ t = 0 /\ t' # 0
        BY <3>2, RangeTail DEF PopTask, TypeOK, LocalTask
      <4> QED
        BY <3>2, <4>1 DEF PopTask
    <3>3. CASE RunCompletes
      BY <3>3 DEF RunCompletes, LocalTask
    <3>4. CASE RunThrows
      BY <3>4 DEF RunThrows, LocalTask
    <3>5. CASE AfterTrue
      BY <3>5 DEF AfterTrue, LocalTask
    <3>6. CASE AfterFalse
      <4>1. Range(m_tasks') = {t} \cup Range(m_tasks) /\ t # 0
        BY <3>6, RangeCons DEF AfterFalse, PushFront, TypeOK, LocalTask
      <4> QED
        BY <3>6, <4>1 DEF AfterFalse, PushFront
    <3>7. CASE WorkerKeepsTasks
      BY <3>7 DEF WorkerKeepsTasks
    <3> HIDE DEF NoTaskVanishes, FinishedTask, NoTask, WorkerGoto, queueVars, historyVars
    <3> QED
      BY <2>1, <3>1, <3>2, <3>3, <3>4, <3>5, <3>6, <3>7, WorkerQueueSteps
  <2>2. ASSUME NEW c \in Clients, Client(c) PROVE (NoTaskVanishes /\ FinishedTask)'
    <3>1. CASE AddTask(c)
      <4>1. /\ Range(m_tasks') = Range(m_tasks) \cup {added'}
            /\ 1 .. added' = 1 .. added \cup {added'}
        <5>1. m_tasks \in Seq(Nat) /\ added' \in Nat
          <6>1. 1 .. added \subseteq Nat
            OBVIOUS
          <6> QED
            BY <3>1, <6>1, SeqMonotone DEF AddTask, TypeOK
        <5>2. Range(m_tasks') = Range(m_tasks) \cup {added'}
          BY <3>1, <5>1, RangeAppend DEF AddTask
        <5>3. 1 .. added' = 1 .. added \cup {added'}
          BY <3>1 DEF AddTask, TypeOK
        <5> QED
          BY <5>2, <5>3
      <4> QED
        BY <3>1, <4>1 DEF AddTask
    <3>2. CASE Clear(c) \/ RestartClear(c)
      BY <2>0, <3>2 DEF Clear, RestartClear
    <3> QED
      BY <2>2, <3>1, <3>2, ClientQueueSteps
  <2>3. CASE UNCHANGED vars
    BY <2>3 DEF vars, queueVars, historyVars
  <2> QED
    BY <2>1, <2>2, <2>3 DEF Next
<1> QED
  BY <1>1, <1>2, LocalTaskInit, LocalTaskStep, TypeCorrect, PTL DEF Spec
\* The queue stays in submission order behind the task being run.
THEOREM QueueInOrderCorrect == Spec => []QueueInOrder
<1> USE DEF NoTask
<1>1. Init => QueueInOrder
  BY DEF Init, QueueInOrder
<1>2. TypeOK /\ LocalTask /\ QueueInOrder /\ [Next]_vars => QueueInOrder'
  <2> SUFFICES ASSUME TypeOK, LocalTask, QueueInOrder, [Next]_vars
               PROVE  QueueInOrder'
    OBVIOUS
  <2>1. CASE m_tasks' = <<>> /\ t' = t /\ finished' = finished
             /\ (workerPc' = workerPc \/ t = 0)
    BY <2>1 DEF QueueInOrder
  <2>2. CASE Worker
    <3> USE DEF WorkerGoto, queueVars, historyVars
    <3>1. CASE BeginClear
      BY <2>1, <3>1 DEF BeginClear, LocalTask
    <3>2. CASE PopTask
      <4>1. /\ Len(m_tasks) \in Nat \ {0} /\ t' = m_tasks[1]
            /\ DOMAIN m_tasks = 1 .. Len(m_tasks)
            /\ DOMAIN m_tasks' = 1 .. (Len(m_tasks) - 1)
            /\ \A i \in DOMAIN m_tasks' : m_tasks'[i] = m_tasks[i + 1]
            /\ finished' = finished
        BY <3>2 DEF PopTask, TypeOK
      <4>2. \A i \in DOMAIN m_tasks' :
              i \in Nat \ {0} /\ i + 1 \in DOMAIN m_tasks
        BY <4>1
      <4> QED
        BY <4>1, <4>2 DEF QueueInOrder
    <3>3. CASE RunCompletes
      BY <3>3 DEF RunCompletes, QueueInOrder
    <3>4. CASE RunThrows
      BY <3>4 DEF RunThrows, QueueInOrder, TypeOK
    <3>5. CASE AfterTrue
      BY <3>5 DEF AfterTrue, QueueInOrder, TypeOK
    <3>6. CASE AfterFalse
      <4>1. /\ DOMAIN m_tasks' = 1 .. (Len(m_tasks) + 1) /\ m_tasks'[1] = t
            /\ Len(m_tasks) \in Nat /\ DOMAIN m_tasks = 1 .. Len(m_tasks)
            /\ \A i \in DOMAIN m_tasks : m_tasks'[i + 1] = m_tasks[i]
            /\ t' = 0 /\ t \in 1 .. added /\ finished' = finished
        BY <3>6 DEF AfterFalse, PushFront, TypeOK, LocalTask
      <4>2. \A i \in DOMAIN m_tasks' \ {1} :
              i - 1 \in DOMAIN m_tasks /\ m_tasks'[i] = m_tasks[i - 1]
        BY <4>1
      <4>3. \A i \in DOMAIN m_tasks' : m_tasks'[i] > 0
        BY <4>1, <4>2 DEF TypeOK
      <4>4. \A k \in finished : k < t
        BY <3>6, <4>1 DEF AfterFalse, PushFront, QueueInOrder
      <4> QED
        BY <4>1, <4>2, <4>3, <4>4 DEF QueueInOrder
    <3>7. CASE WorkerKeepsTasks
      BY <3>7 DEF WorkerKeepsTasks, QueueInOrder
    <3> HIDE DEF WorkerGoto, queueVars, historyVars
    <3> QED
      BY <2>2, <3>1, <3>2, <3>3, <3>4, <3>5, <3>6, <3>7, WorkerQueueSteps
  <2>3. ASSUME NEW c \in Clients, Client(c) PROVE QueueInOrder'
    <3>1. CASE AddTask(c)
      <4>1. /\ DOMAIN m_tasks = 1 .. Len(m_tasks) /\ Len(m_tasks) \in Nat
            /\ DOMAIN m_tasks' = 1 .. (Len(m_tasks) + 1)
            /\ m_tasks'[Len(m_tasks) + 1] = added + 1
            /\ \A i \in DOMAIN m_tasks :
                 m_tasks'[i] = m_tasks[i] /\ m_tasks[i] \in 1 .. added
            /\ t' = t /\ finished' = finished /\ workerPc' = workerPc
        BY <3>1 DEF AddTask, TypeOK
      <4>2. \A k \in finished \cup {t} : k < added + 1
        BY DEF TypeOK
      <4>3. \A i \in DOMAIN m_tasks' :
              i \in DOMAIN m_tasks \/ i = Len(m_tasks) + 1
        BY <4>1
      <4>4. \A i, j \in DOMAIN m_tasks' : i < j => m_tasks'[i] < m_tasks'[j]
        <5>1. \A k \in 1 .. added : k < added + 1
          BY DEF TypeOK
        <5> QED
          BY <4>1, <4>3, <5>1 DEF QueueInOrder
      <4>5. \A i \in DOMAIN m_tasks' : t' < m_tasks'[i]
        BY <4>1, <4>2, <4>3 DEF QueueInOrder
      <4>6. \A i \in DOMAIN m_tasks', k \in finished' : k < m_tasks'[i]
        BY <4>1, <4>2, <4>3 DEF QueueInOrder
      <4> QED
        BY <4>1, <4>4, <4>5, <4>6 DEF QueueInOrder
    <3>2. CASE Clear(c) \/ RestartClear(c)
      BY <2>1, <3>2 DEF Clear, RestartClear
    <3> QED
      BY <2>3, <3>1, <3>2, ClientQueueSteps DEF QueueInOrder
  <2>4. CASE UNCHANGED vars
    BY <2>4 DEF vars, queueVars, historyVars, QueueInOrder
  <2> QED
    BY <2>2, <2>3, <2>4 DEF Next
<1> QED
  BY <1>1, <1>2, LocalTaskInit, LocalTaskStep, TypeCorrect, PTL DEF Spec
\* Tasks finish in the order of submission and none finishes twice.
THEOREM TasksFinishInOrderCorrect == Spec => TasksFinishInOrder
<1>1. /\ TypeOK /\ LocalTask /\ QueueInOrder /\ [Next]_vars
      => [\A k \in finished' \ finished : \A j \in finished : j < k]_vars
  <2> SUFFICES ASSUME LocalTask, QueueInOrder, [Next]_vars
               PROVE  \A k \in finished' \ finished : \A j \in finished : j < k
    OBVIOUS
  <2>1. CASE RunCompletes
    BY <2>1 DEF RunCompletes, WorkerGoto, LocalTask, QueueInOrder
  <2>2. CASE Worker /\ ~RunCompletes
    <3>1. finished' = finished
      BY <2>2, WorkerQueueSteps
         DEF WorkerKeepsTasks, BeginClear, PopTask, RunThrows, AfterTrue,
             AfterFalse, historyVars
    <3> QED
      BY <3>1
  <2>3. ASSUME NEW c \in Clients, Client(c) PROVE finished' = finished
    BY <2>3, ClientQueueSteps DEF AddTask, Clear, RestartClear
  <2>4. CASE UNCHANGED vars
    BY <2>4 DEF vars, historyVars
  <2> QED
    BY <2>1, <2>2, <2>3, <2>4 DEF Next
<1> QED
  BY <1>1, LocalTaskInit, LocalTaskStep, TypeCorrect, QueueInOrderCorrect,
     PTL DEF Spec, TasksFinishInOrder
\* run() and the queue operations implement the abstract serial executor.
THEOREM ImplementsExecutorCorrect == Spec => ImplementsExecutor
<1> DEFINE pending == Range(m_tasks)
<1>1. Init => Executor!Init
  <2>1. Range(<<>>) = {}
    BY DEF Range
  <2> QED
    BY <2>1 DEF Init, Executor!Init, NoTask, Executor!Idle
<1>2. TypeOK /\ LocalTask /\ QueueInOrder /\ [Next]_vars
      => [Executor!Next]_(Executor!executorVars)
  <2> SUFFICES ASSUME TypeOK, LocalTask, QueueInOrder, [Next]_vars
               PROVE  Executor!Next \/ UNCHANGED Executor!executorVars
    OBVIOUS
  <2> USE DEF NoTask, Executor!Idle
  <2>0. Range(<<>>) = {}
    BY DEF Range
  <2>1. CASE Worker
    <3> USE DEF WorkerGoto, queueVars, historyVars, LocalTask
    <3>1. CASE BeginClear
      <4>1. Executor!Discard
        BY <2>0, <3>1 DEF BeginClear, Executor!Discard
      <4> QED
        BY <4>1 DEF Executor!Next
    <3>2. CASE PopTask
      <4>1. /\ Len(m_tasks) \in Nat \ {0} /\ t' = m_tasks[1]
            /\ DOMAIN m_tasks = 1 .. Len(m_tasks)
            /\ m_tasks' = Tail(m_tasks) /\ t = NoTask
        BY <3>2 DEF PopTask, TypeOK
      <4>2. \A k \in pending : t' <= k
        <5>1. \A i \in DOMAIN m_tasks : m_tasks[i] \in Nat
          BY <4>1 DEF TypeOK
        <5>2. 1 \in DOMAIN m_tasks /\ \A i \in DOMAIN m_tasks : i = 1 \/ 1 < i
          BY <4>1
        <5>3. \A i \in DOMAIN m_tasks : m_tasks[1] <= m_tasks[i]
          BY <5>1, <5>2 DEF QueueInOrder
        <5> QED
          BY <4>1, <5>3 DEF Range
      <4>3. t' \notin pending'
        <5>1. /\ DOMAIN m_tasks' = 1 .. (Len(m_tasks) - 1)
              /\ \A i \in DOMAIN m_tasks' : m_tasks'[i] = m_tasks[i + 1]
          BY <4>1 DEF TypeOK
        <5>2. \A i \in DOMAIN m_tasks' : i + 1 \in DOMAIN m_tasks /\ 1 < i + 1
          BY <4>1, <5>1
        <5>3. \A i \in DOMAIN m_tasks' : m_tasks[1] < m_tasks[i + 1]
          BY <4>1, <5>2 DEF QueueInOrder
        <5>4. m_tasks[1] \in Nat
          BY <4>1 DEF TypeOK
        <5> QED
          BY <4>1, <5>1, <5>3, <5>4 DEF Range
      <4>4. pending = {t'} \cup pending'
        BY <4>1, RangeTail DEF TypeOK
      <4>5. Executor!Begin
        BY <3>2, <4>1, <4>2, <4>3, <4>4 DEF PopTask, Executor!Begin
      <4> QED
        BY <4>5 DEF Executor!Next
    <3>3. CASE RunCompletes
      <4>1. Executor!Finish
        BY <3>3 DEF RunCompletes, Executor!Finish
      <4> QED
        BY <4>1 DEF Executor!Next
    <3>4. CASE RunThrows
      <4>1. Executor!Fail
        BY <3>4 DEF RunThrows, Executor!Fail
      <4> QED
        BY <4>1 DEF Executor!Next
    <3>5. CASE AfterTrue
      BY <3>5 DEF AfterTrue, Executor!executorVars
    <3>6. CASE AfterFalse
      <4>1. Range(m_tasks') = {t} \cup Range(m_tasks) /\ t # NoTask
        BY <3>6, RangeCons DEF AfterFalse, PushFront, TypeOK
      <4>2. Executor!GiveWay
        BY <3>6, <4>1 DEF AfterFalse, PushFront, Executor!GiveWay
      <4> QED
        BY <4>2 DEF Executor!Next
    <3>7. CASE WorkerKeepsTasks
      BY <3>7 DEF WorkerKeepsTasks, Executor!executorVars
    <3> HIDE DEF WorkerGoto, queueVars, historyVars, LocalTask
    <3> QED
      BY <2>1, <3>1, <3>2, <3>3, <3>4, <3>5, <3>6, <3>7, WorkerQueueSteps
  <2>2. ASSUME NEW c \in Clients, Client(c)
        PROVE  Executor!Next \/ UNCHANGED Executor!executorVars
    <3>1. CASE AddTask(c)
      <4>1. Range(m_tasks') = Range(m_tasks) \cup {added'}
        <5>1. m_tasks \in Seq(Nat) /\ added' \in Nat
          <6>1. 1 .. added \subseteq Nat
            OBVIOUS
          <6> QED
            BY <3>1, <6>1, SeqMonotone DEF AddTask, TypeOK
        <5> QED
          BY <3>1, <5>1, RangeAppend DEF AddTask
      <4>2. Executor!Submit
        BY <3>1, <4>1 DEF AddTask, Executor!Submit
      <4> QED
        BY <4>2 DEF Executor!Next
    <3>2. CASE Clear(c) \/ RestartClear(c)
      <4>1. Executor!Discard
        BY <2>0, <3>2 DEF Clear, RestartClear, Executor!Discard, ClientGoto
      <4> QED
        BY <4>1 DEF Executor!Next
    <3>3. CASE UNCHANGED <<m_tasks, t, workerPc, m_is_completed, added, finished,
                           discarded, lostToError, clearedWhileBusy>>
      BY <3>3 DEF Executor!executorVars
    <3> QED
      BY <2>2, <3>1, <3>2, <3>3, ClientQueueSteps
  <2>3. CASE UNCHANGED vars
    BY <2>3 DEF vars, queueVars, historyVars, Executor!executorVars
  <2> QED
    BY <2>1, <2>2, <2>3 DEF Next
<1> QED
  BY <1>1, <1>2, LocalTaskInit, LocalTaskStep, TypeCorrect, QueueInOrderCorrect,
     PTL DEF Spec, ImplementsExecutor, Executor!Spec
-----------------------------------------------------------------------------
(* Exceptions. *)

\* Until m_is_running first goes up no client is past its wait for it, so
\* the first m_tasks.clear() has nothing to drop.
Starting ==
  workerPc \in {"start", "beginFinished", "beginStopped", "beginClear",
                "setRunning"} /\ throws = 0
  => /\ ~m_is_running /\ m_tasks = <<>>
     /\ \A c \in Clients : clientPc[c] = "attach"

NothingLostYet == throws = 0 => lostToError = {}

\* No thrown exception is forgotten: the caught one leaves a lost task.
ThrownIsLost ==
  /\ throws # 0 => lostToError # {} /\ workerPc # "start"
  /\ workerPc \in {"caught", "setErrored"} => throws # 0

\* is_errored() reports lost tasks until a client resets it.
THEOREM ErrorIsReportedCorrect == Spec => []ErrorIsReported
<1> USE DEF Starting, NothingLostYet, ThrownIsLost, ErrorIsReported
<1>1. Init => Starting /\ NothingLostYet /\ ThrownIsLost /\ ErrorIsReported
  BY DEF Init
<1>2. /\ TypeOK /\ Starting /\ NothingLostYet /\ ThrownIsLost /\ ErrorIsReported
      /\ [Next]_vars
      => (Starting /\ NothingLostYet /\ ThrownIsLost /\ ErrorIsReported)'
  <2> SUFFICES ASSUME TypeOK, Starting, NothingLostYet, ThrownIsLost,
                      ErrorIsReported, [Next]_vars
               PROVE  (Starting /\ NothingLostYet /\ ThrownIsLost /\ ErrorIsReported)'
    OBVIOUS
  <2>0. Range(<<>>) = {}
    BY DEF Range
  <2>1. CASE Worker
    <3> USE DEF WorkerGoto, queueVars, flagVars, historyVars
    <3>1. CASE Start
      BY <3>1 DEF Start
    <3>2. CASE BeginFinished
      BY <3>2 DEF BeginFinished
    <3>3. CASE BeginStopped
      BY <3>3 DEF BeginStopped
    <3>4. CASE BeginClear
      BY <2>0, <3>4 DEF BeginClear
    <3>5. CASE SetRunning
      BY <3>5 DEF SetRunning
    <3>6. CASE RunThrows
      BY <3>6 DEF RunThrows, TypeOK
    <3>7. CASE Caught
      BY <3>7 DEF Caught
    <3>8. CASE SetErrored
      BY <3>8 DEF SetErrored
    <3>9. CASE ~(\/ Start \/ BeginFinished \/ BeginStopped \/ BeginClear
                 \/ SetRunning \/ RunThrows \/ Caught \/ SetErrored)
      <4>1. /\ UNCHANGED <<lostToError, throws, resetSinceError, m_is_errored>>
            /\ workerPc \notin {"caught", "setErrored"}
            /\ workerPc' \notin {"start", "beginFinished", "beginStopped",
                                 "beginClear", "setRunning",
                                 "caught", "setErrored"}
        BY <2>1, <3>9
           DEF Worker, WorkerStep, CheckOuter, CheckInner, CheckFinished,
               LockQueue, TestQueueWait, TestQueueGo, CondWait, WakeUp,
               SpuriousWakeUp, PopTask, PopNothing, RunCompletes, RunContinues,
               AfterTrue, AfterFalse, Exit, Leave
      <4>2. throws' # 0 => workerPc' # "start" /\ lostToError' # {}
        BY <4>1
      <4> QED
        BY <4>1, <4>2
    <3> HIDE DEF WorkerGoto, queueVars, flagVars, historyVars, Starting,
                 NothingLostYet, ThrownIsLost, ErrorIsReported
    <3> QED
      BY <3>1, <3>2, <3>3, <3>4, <3>5, <3>6, <3>7, <3>8, <3>9
  <2>2. ASSUME NEW c \in Clients, Client(c)
        PROVE  (Starting /\ NothingLostYet /\ ThrownIsLost /\ ErrorIsReported)'
    <3>1. UNCHANGED <<lostToError, throws, workerPc, m_is_running>>
      BY <2>2
         DEF Client, ClientProgress, ClientCall, Attach, AddTask, Stop,
             StopSet, SetFinishedAndSignal, Reset, RestartReset, ResetErrored,
             Clear, Call, Release, WaitReturn, RestartTest, RestartClear,
             StopTest, DtorFinish, DtorRetry, DtorSetFinished, DtorSignal,
             DtorRetrySignal, DtorSignalWorker, DtorTest, DtorJoin, flagVars,
             historyVars
    <3>2. UNCHANGED <<m_is_errored, resetSinceError>> \/ resetSinceError' = TRUE
      BY <2>2
         DEF Client, ClientProgress, ClientCall, Attach, AddTask, Stop,
             StopSet, SetFinishedAndSignal, Reset, RestartReset, ResetErrored,
             Clear, Call, Release, WaitReturn, RestartTest, RestartClear,
             StopTest, DtorFinish, DtorRetry, DtorSetFinished, DtorSignal,
             DtorRetrySignal, DtorSignalWorker, DtorTest, DtorJoin, flagVars,
             historyVars
    <3>3. m_is_running \/ clientPc[c] # "attach"
      BY <2>2
         DEF Client, ClientProgress, ClientCall, ClientGoto, Attach, AddTask,
             Stop, StopSet, Reset, RestartReset, Clear, Call, Release,
             WaitReturn, RestartTest, RestartClear, StopTest, DtorFinish,
             DtorRetry, DtorSetFinished, DtorSignal, DtorRetrySignal,
             DtorSignalWorker, DtorTest, DtorJoin
    <3> QED
      BY <3>1, <3>2, <3>3
  <2>3. CASE UNCHANGED vars
    BY <2>3 DEF vars, queueVars, flagVars, historyVars
  <2> QED
    BY <2>1, <2>2, <2>3 DEF Next
<1> QED
  BY <1>1, <1>2, TypeCorrect, PTL DEF Spec
=============================================================================
