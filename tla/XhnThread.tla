----------------------------- MODULE XhnThread -----------------------------
(***************************************************************************)
(* xhn::thread: one worker pthread that serves a queue of tasks for any    *)
(* number of client threads (xstl/xhn_thread.hpp, xstl/xhn_thread.cpp).    *)
(*                                                                         *)
(* The object's five volatile flags are read and written with single       *)
(* atomic instructions, some of them outside m_mutex.  A critical section  *)
(* that touches the queue is one step guarded by the mutex being free,     *)
(* except the worker's condition-variable loop, which holds the mutex      *)
(* across steps because ~thread() may change m_is_finished in its middle.  *)
(*                                                                         *)
(* A task is the number of its submission: the k-th add_task() adds k.     *)
(***************************************************************************)
EXTENDS Integers, Sequences, Functions

CONSTANTS
  Clients,      \* client threads, each holding a SmartPtr to the object
  MaxTasks,     \* bound on add_task() calls
  MaxContinues, \* bound on the runs that ask for another one
  MaxThrows     \* bound on the runs that raise an exception

ASSUME ThreadAssumption ==
  /\ Clients # {}
  /\ "worker" \notin Clients /\ "free" \notin Clients
  /\ MaxTasks \in Nat /\ MaxContinues \in Nat /\ MaxThrows \in Nat

VARIABLES
  m_tasks,         \* the queue, front first
  m_is_completed,
  m_is_finished,
  m_is_running,
  m_is_stopped,
  m_is_errored,
  m_mutex,         \* "free" or "worker": nobody else holds it between steps
  sleeping,        \* the worker is blocked in pthread_cond_wait
  workerPc,        \* where the worker is in run()
  t,               \* the worker's local task_ptr, 0 when it is null
  clientPc,        \* what each client is executing
  added,           \* history: number of add_task() calls so far
  finished,        \* history: tasks whose run() returned true
  discarded,       \* history: tasks a client's clear or restart removed
  lostToError,     \* history: tasks an exception and the restart removed
  continues,       \* history: runs that returned false
  throws,          \* history: runs that raised an exception
  resetSinceError, \* history: reset() ran after the last exception
  clearedWhileBusy \* history: clear() ran during a task, no add_task() since

queueVars   == <<m_tasks, t>>
flagVars    == <<m_is_completed, m_is_finished, m_is_running, m_is_stopped,
                 m_is_errored>>
historyVars == <<added, finished, discarded, lostToError, continues, throws,
                 resetSinceError, clearedWhileBusy>>
vars == <<queueVars, flagVars, m_mutex, sleeping, workerPc, clientPc,
          historyVars>>

NoTask == 0

WorkerLocations ==
  {"start", "beginFinished", "beginStopped", "beginClear", "setRunning",
   "checkOuter", "lockQueue", "testQueue", "condWait", "wakeUp",
   "checkInner", "pop", "runTask", "ranTrue", "ranFalse", "caught",
   "setErrored", "exit", "leaving", "returned"}

\* "gone" is a client that dropped its reference; the last one to do so
\* executes the destructor ("dtorFinish" to "destroyed").
ClientLocations ==
  {"attach", "idle", "waitCompleted", "restartTest", "restartClear",
   "restartReset", "stopTest", "stopSet", "dtorFinish", "dtorSignal",
   "dtorTest", "dtorRetry", "dtorRetrySignal", "dtorJoin", "destroyed",
   "gone"}

\* The constructor: every flag 0, then pthread_create.
Init ==
  /\ m_tasks = <<>> /\ t = NoTask
  /\ m_is_completed = FALSE /\ m_is_finished = FALSE /\ m_is_running = FALSE
  /\ m_is_stopped = FALSE   /\ m_is_errored = FALSE
  /\ m_mutex = "free" /\ sleeping = FALSE
  /\ workerPc = "start"
  /\ clientPc = [c \in Clients |-> "attach"]
  /\ added = 0 /\ finished = {} /\ discarded = {} /\ lostToError = {}
  /\ continues = 0 /\ throws = 0
  /\ resetSinceError = FALSE /\ clearedWhileBusy = FALSE

WorkerGoto(from, to) == workerPc = from /\ workerPc' = to
ClientGoto(c, from, to) ==
  clientPc[c] = from /\ clientPc' = [clientPc EXCEPT ![c] = to]

\* Operations with a mistake in them, each refuted by the property named.
NoSignal       == UNCHANGED sleeping         \* WaitCompletedReturns
PushBack(k, q) == Append(q, k)               \* QueueInOrder and the order
PushNull(k, q) == <<NoTask>> \o q            \* TypeOK: k was moved away
PushNone(k, q) == q                          \* NoTaskVanishes

BeginWithoutError ==                         \* ErrorIsReported
  /\ WorkerGoto("beginFinished", "beginStopped")
  /\ m_is_finished' = FALSE /\ m_is_errored' = FALSE
  /\ UNCHANGED <<queueVars, m_is_completed, m_is_running, m_is_stopped,
                 m_mutex, sleeping, clientPc, historyVars>>

WaitWithoutFlag ==                           \* ForceRestartReturns
  /\ WorkerGoto("testQueue", "condWait")
  /\ m_tasks = <<>> /\ ~m_is_finished
  /\ UNCHANGED <<queueVars, flagVars, m_mutex, sleeping, clientPc,
                 historyVars>>

AfterTrueNoTest ==                           \* CompletedMeansDrained
  /\ m_mutex = "free"
  /\ WorkerGoto("ranTrue", "checkOuter")
  /\ m_is_completed' = TRUE /\ t' = NoTask
  /\ UNCHANGED <<m_tasks, m_is_finished, m_is_running, m_is_stopped,
                 m_is_errored, m_mutex, sleeping, clientPc, historyVars>>

ExitSilently ==                              \* ForceStopReturns
  /\ WorkerGoto("exit", "leaving")
  /\ UNCHANGED <<queueVars, flagVars, m_mutex, sleeping, clientPc,
                 historyVars>>

DtorTestOnce(c) ==                           \* NoUseAfterDestroy
  /\ ClientGoto(c, "dtorTest", "dtorJoin")
  /\ UNCHANGED <<queueVars, flagVars, m_mutex, sleeping, workerPc,
                 historyVars>>

DtorSignalOnly(c) ==                         \* DestructorReturns
  /\ ClientGoto(c, "dtorRetry", "dtorRetrySignal")
  /\ UNCHANGED <<queueVars, flagVars, m_mutex, sleeping, workerPc,
                 historyVars>>
-----------------------------------------------------------------------------
(* Shared helpers. *)

\* pthread_cond_signal: the only waiter there can be is the worker.
Signal == sleeping' = FALSE

\* A task that returned false goes before every other one.
PushFront(k, q) == <<k>> \o q
-----------------------------------------------------------------------------
(* run(): what the worker does. *)

Start ==
  /\ WorkerGoto("start", "beginFinished")
  /\ m_is_errored' = FALSE
  /\ UNCHANGED <<queueVars, m_is_completed, m_is_finished, m_is_running,
                 m_is_stopped, m_mutex, sleeping, clientPc, historyVars>>

\* The label "begin": also reached again after an exception.
BeginFinished ==
  /\ WorkerGoto("beginFinished", "beginStopped")
  /\ m_is_finished' = FALSE
  /\ UNCHANGED <<queueVars, m_is_completed, m_is_running, m_is_stopped,
                 m_is_errored, m_mutex, sleeping, clientPc, historyVars>>

BeginStopped ==
  /\ WorkerGoto("beginStopped", "beginClear")
  /\ m_is_stopped' = FALSE
  /\ UNCHANGED <<queueVars, m_is_completed, m_is_finished, m_is_running,
                 m_is_errored, m_mutex, sleeping, clientPc, historyVars>>

BeginClear ==
  /\ m_mutex = "free"
  /\ WorkerGoto("beginClear", "setRunning")
  /\ m_tasks' = <<>>
  /\ m_is_completed' = TRUE
  /\ lostToError' = lostToError \cup Range(m_tasks)
  /\ UNCHANGED <<t, m_is_finished, m_is_running, m_is_stopped, m_is_errored,
                 m_mutex, sleeping, clientPc, added, finished, discarded,
                 continues, throws, resetSinceError, clearedWhileBusy>>

SetRunning ==
  /\ WorkerGoto("setRunning", "checkOuter")
  /\ m_is_running' = TRUE
  /\ UNCHANGED <<queueVars, m_is_completed, m_is_finished, m_is_stopped,
                 m_is_errored, m_mutex, sleeping, clientPc, historyVars>>

\* The two tests of m_is_finished outside the mutex.
CheckFinished(from, to) ==
  /\ WorkerGoto(from, IF m_is_finished THEN "exit" ELSE to)
  /\ UNCHANGED <<queueVars, flagVars, m_mutex, sleeping, clientPc,
                 historyVars>>

CheckOuter == CheckFinished("checkOuter", "lockQueue")
CheckInner == CheckFinished("checkInner", "pop")

LockQueue ==
  /\ m_mutex = "free"
  /\ WorkerGoto("lockQueue", "testQueue")
  /\ m_mutex' = "worker"
  /\ UNCHANGED <<queueVars, flagVars, sleeping, clientPc, historyVars>>

\* while (m_tasks.empty() && !m_is_finished): the loop body up to the wait.
TestQueueWait ==
  /\ WorkerGoto("testQueue", "condWait")
  /\ m_tasks = <<>> /\ ~m_is_finished
  /\ m_is_completed' = TRUE
  /\ UNCHANGED <<queueVars, m_is_finished, m_is_running, m_is_stopped,
                 m_is_errored, m_mutex, sleeping, clientPc, historyVars>>

TestQueueGo ==
  /\ WorkerGoto("testQueue", "checkInner")
  /\ m_tasks # <<>> \/ m_is_finished
  /\ m_mutex' = "free"
  /\ UNCHANGED <<queueVars, flagVars, sleeping, clientPc, historyVars>>

\* pthread_cond_wait releases the mutex and blocks in one step.
CondWait ==
  /\ WorkerGoto("condWait", "wakeUp")
  /\ m_mutex' = "free"
  /\ sleeping' = TRUE
  /\ UNCHANGED <<queueVars, flagVars, clientPc, historyVars>>

\* The wait returns with the mutex held; POSIX lets it return unsignalled.
WakeUp ==
  /\ ~sleeping
  /\ m_mutex = "free"
  /\ WorkerGoto("wakeUp", "testQueue")
  /\ m_mutex' = "worker"
  /\ UNCHANGED <<queueVars, flagVars, sleeping, clientPc, historyVars>>

SpuriousWakeUp ==
  /\ workerPc = "wakeUp" /\ sleeping
  /\ sleeping' = FALSE
  /\ UNCHANGED <<queueVars, flagVars, m_mutex, workerPc, clientPc,
                 historyVars>>

PopTask ==
  /\ m_mutex = "free"
  /\ m_tasks # <<>>
  /\ WorkerGoto("pop", "runTask")
  /\ t' = Head(m_tasks)
  /\ m_tasks' = Tail(m_tasks)
  /\ UNCHANGED <<flagVars, m_mutex, sleeping, clientPc, historyVars>>

PopNothing ==
  /\ m_mutex = "free"
  /\ m_tasks = <<>>
  /\ WorkerGoto("pop", "checkOuter")
  /\ m_is_completed' = TRUE
  /\ UNCHANGED <<queueVars, m_is_finished, m_is_running, m_is_stopped,
                 m_is_errored, m_mutex, sleeping, clientPc, historyVars>>

\* t->run() returns true, returns false, or raises an Exception.
RunCompletes ==
  /\ WorkerGoto("runTask", "ranTrue")
  /\ finished' = finished \cup {t}
  /\ UNCHANGED <<queueVars, flagVars, m_mutex, sleeping, clientPc, added,
                 discarded, lostToError, continues, throws, resetSinceError,
                 clearedWhileBusy>>

RunContinues ==
  /\ continues < MaxContinues
  /\ WorkerGoto("runTask", "ranFalse")
  /\ continues' = continues + 1
  /\ UNCHANGED <<queueVars, flagVars, m_mutex, sleeping, clientPc, added,
                 finished, discarded, lostToError, throws, resetSinceError,
                 clearedWhileBusy>>

RunThrows ==
  /\ throws < MaxThrows
  /\ WorkerGoto("runTask", "caught")
  /\ throws' = throws + 1
  /\ t' = NoTask                 \* unwinding releases the local task_ptr
  /\ lostToError' = lostToError \cup {t}
  /\ resetSinceError' = FALSE
  /\ UNCHANGED <<m_tasks, flagVars, m_mutex, sleeping, clientPc, added,
                 finished, discarded, continues, clearedWhileBusy>>

\* The end of the loop body releases t.
AfterTrue ==
  /\ m_mutex = "free"
  /\ WorkerGoto("ranTrue", "checkOuter")
  /\ m_is_completed' = (m_is_completed \/ m_tasks = <<>>)
  /\ t' = NoTask
  /\ UNCHANGED <<m_tasks, m_is_finished, m_is_running, m_is_stopped,
                 m_is_errored, m_mutex, sleeping, clientPc, historyVars>>

AfterFalse ==
  /\ m_mutex = "free"
  /\ WorkerGoto("ranFalse", "checkOuter")
  /\ m_tasks' = PushFront(t, m_tasks)
  /\ t' = NoTask
  /\ UNCHANGED <<flagVars, m_mutex, sleeping, clientPc, historyVars>>

Caught ==
  /\ WorkerGoto("caught", "setErrored")
  /\ m_is_running' = FALSE
  /\ UNCHANGED <<queueVars, m_is_completed, m_is_finished, m_is_stopped,
                 m_is_errored, m_mutex, sleeping, clientPc, historyVars>>

SetErrored ==
  /\ WorkerGoto("setErrored", "beginFinished")
  /\ m_is_errored' = TRUE
  /\ UNCHANGED <<queueVars, m_is_completed, m_is_finished, m_is_running,
                 m_is_stopped, m_mutex, sleeping, clientPc, historyVars>>

\* The last access to the object's members.
Exit ==
  /\ WorkerGoto("exit", "leaving")
  /\ m_is_stopped' = TRUE
  /\ UNCHANGED <<queueVars, m_is_completed, m_is_finished, m_is_running,
                 m_is_errored, m_mutex, sleeping, clientPc, historyVars>>

\* run() and thread_proc() return on the stack that the object allocated.
Leave ==
  /\ WorkerGoto("leaving", "returned")
  /\ UNCHANGED <<queueVars, flagVars, m_mutex, sleeping, clientPc,
                 historyVars>>

WorkerStep ==
  \/ Start      \/ BeginFinished \/ BeginStopped \/ BeginClear
  \/ SetRunning \/ CheckOuter    \/ LockQueue    \/ TestQueueWait
  \/ TestQueueGo \/ CondWait     \/ WakeUp       \/ CheckInner
  \/ PopTask    \/ PopNothing    \/ RunCompletes \/ RunContinues
  \/ RunThrows  \/ AfterTrue     \/ AfterFalse   \/ Caught
  \/ SetErrored \/ Exit          \/ Leave

Worker == WorkerStep \/ SpuriousWakeUp
-----------------------------------------------------------------------------
(* What a client does. *)

\* Every user of the class spins on is_running() after VNEW thread.
Attach(c) ==
  /\ ClientGoto(c, "attach", "idle")
  /\ m_is_running
  /\ UNCHANGED <<queueVars, flagVars, m_mutex, sleeping, workerPc,
                 historyVars>>

AddTask(c) ==
  /\ m_mutex = "free"
  /\ clientPc[c] = "idle"
  /\ added < MaxTasks
  /\ added' = added + 1
  /\ m_tasks' = Append(m_tasks, added + 1)
  /\ m_is_completed' = FALSE
  /\ Signal
  /\ clearedWhileBusy' = FALSE
  /\ UNCHANGED <<t, m_is_finished, m_is_running, m_is_stopped, m_is_errored,
                 m_mutex, workerPc, clientPc, finished, discarded,
                 lostToError, continues, throws, resetSinceError>>

SetFinishedAndSignal ==
  /\ m_mutex = "free"
  /\ m_is_finished' = TRUE
  /\ Signal
  /\ UNCHANGED <<queueVars, m_is_completed, m_is_running, m_is_stopped,
                 m_is_errored, m_mutex, workerPc, historyVars>>

Stop(c) ==
  /\ clientPc[c] = "idle"
  /\ SetFinishedAndSignal
  /\ UNCHANGED clientPc

ResetErrored ==
  /\ m_is_errored' = FALSE
  /\ resetSinceError' = TRUE
  /\ UNCHANGED <<queueVars, m_is_completed, m_is_finished, m_is_running,
                 m_is_stopped, m_mutex, sleeping, workerPc, added, finished,
                 discarded, lostToError, continues, throws, clearedWhileBusy>>

Reset(c) ==
  /\ clientPc[c] = "idle"
  /\ ResetErrored
  /\ UNCHANGED clientPc

Clear(c) ==
  /\ m_mutex = "free"
  /\ clientPc[c] = "idle"
  /\ m_tasks' = <<>>
  /\ m_is_completed' = TRUE
  /\ discarded' = discarded \cup Range(m_tasks)
  /\ clearedWhileBusy' = (clearedWhileBusy \/ t # NoTask)
  /\ UNCHANGED <<t, m_is_finished, m_is_running, m_is_stopped, m_is_errored,
                 m_mutex, sleeping, workerPc, clientPc, added, finished,
                 lostToError, continues, throws, resetSinceError>>

\* Entering wait_completed(), force_restart() or force_stop(), which
\* stop_thread_and_join() also does before it joins and drops its reference.
Call(c) ==
  /\ \E entry \in {"waitCompleted", "restartTest", "stopTest"} :
       ClientGoto(c, "idle", entry)
  /\ UNCHANGED <<queueVars, flagVars, m_mutex, sleeping, workerPc,
                 historyVars>>

WaitReturn(c) ==
  /\ ClientGoto(c, "waitCompleted", "idle")
  /\ m_is_completed
  /\ UNCHANGED <<queueVars, flagVars, m_mutex, sleeping, workerPc,
                 historyVars>>

RestartTest(c) ==
  /\ ClientGoto(c, "restartTest",
                IF m_is_completed THEN "restartReset" ELSE "restartClear")
  /\ UNCHANGED <<queueVars, flagVars, m_mutex, sleeping, workerPc,
                 historyVars>>

\* Unlike clear(), it leaves m_is_completed to the worker.
RestartClear(c) ==
  /\ m_mutex = "free"
  /\ ClientGoto(c, "restartClear", "restartTest")
  /\ m_tasks' = <<>>
  /\ discarded' = discarded \cup Range(m_tasks)
  /\ Signal
  /\ UNCHANGED <<t, flagVars, m_mutex, workerPc, added, finished,
                 lostToError, continues, throws, resetSinceError,
                 clearedWhileBusy>>

RestartReset(c) ==
  /\ ClientGoto(c, "restartReset", "idle")
  /\ ResetErrored

StopTest(c) ==
  /\ ClientGoto(c, "stopTest", IF m_is_stopped THEN "idle" ELSE "stopSet")
  /\ UNCHANGED <<queueVars, flagVars, m_mutex, sleeping, workerPc,
                 historyVars>>

StopSet(c) ==
  /\ ClientGoto(c, "stopSet", "stopTest")
  /\ SetFinishedAndSignal

\* SmartPtr: the client that drops the last reference runs ~thread().
Release(c) ==
  /\ ClientGoto(c, "idle",
                IF \A d \in Clients \ {c} : clientPc[d] = "gone"
                THEN "dtorFinish" ELSE "gone")
  /\ UNCHANGED <<queueVars, flagVars, m_mutex, sleeping, workerPc,
                 historyVars>>

\* The destructor writes m_is_finished without holding the mutex.
DtorSetFinished(c, from, to) ==
  /\ ClientGoto(c, from, to)
  /\ m_is_finished' = TRUE
  /\ UNCHANGED <<queueVars, m_is_completed, m_is_running, m_is_stopped,
                 m_is_errored, m_mutex, sleeping, workerPc, historyVars>>

DtorSignalWorker(c, from) ==
  /\ m_mutex = "free"
  /\ ClientGoto(c, from, "dtorTest")
  /\ Signal
  /\ UNCHANGED <<queueVars, flagVars, m_mutex, workerPc, historyVars>>

DtorFinish(c)      == DtorSetFinished(c, "dtorFinish", "dtorSignal")
DtorSignal(c)      == DtorSignalWorker(c, "dtorSignal")
DtorRetry(c)       == DtorSetFinished(c, "dtorRetry", "dtorRetrySignal")
DtorRetrySignal(c) == DtorSignalWorker(c, "dtorRetrySignal")

DtorTest(c) ==
  /\ ClientGoto(c, "dtorTest",
                IF m_is_stopped THEN "dtorJoin" ELSE "dtorRetry")
  /\ UNCHANGED <<queueVars, flagVars, m_mutex, sleeping, workerPc,
                 historyVars>>

\* The thread was created detached, so pthread_join promises no waiting;
\* afterwards the stack, the mutex, the condition and the members are gone.
DtorJoin(c) ==
  /\ ClientGoto(c, "dtorJoin", "destroyed")
  /\ UNCHANGED <<queueVars, flagVars, m_mutex, sleeping, workerPc,
                 historyVars>>

ClientProgress(c) ==
  \/ Attach(c)     \/ WaitReturn(c)   \/ RestartTest(c) \/ RestartClear(c)
  \/ RestartReset(c) \/ StopTest(c)   \/ StopSet(c)     \/ DtorFinish(c)
  \/ DtorSignal(c) \/ DtorTest(c)     \/ DtorRetry(c)
  \/ DtorRetrySignal(c) \/ DtorJoin(c)

ClientCall(c) ==
  \/ AddTask(c) \/ Stop(c) \/ Reset(c) \/ Clear(c) \/ Call(c) \/ Release(c)

Client(c) == ClientProgress(c) \/ ClientCall(c)
-----------------------------------------------------------------------------
Next == Worker \/ \E c \in Clients : Client(c)

\* The scheduler runs every ready thread, and pthread_mutex_lock does not
\* starve a client while the worker takes and releases the mutex in turns
\* (only the worker holds it across steps, so it never waits for long).
\* No client has to start a call.
Fairness ==
  /\ WF_vars(WorkerStep)
  /\ \A c \in Clients : SF_vars(ClientProgress(c))

Spec == Init /\ [][Next]_vars /\ Fairness
-----------------------------------------------------------------------------
(* Properties. *)

\* Every variable keeps its type; the queue and t hold submitted tasks.
TypeOK ==
  /\ m_tasks \in Seq(1 .. added) /\ t \in {NoTask} \cup 1 .. added
  /\ m_is_completed \in BOOLEAN /\ m_is_finished \in BOOLEAN
  /\ m_is_running \in BOOLEAN /\ m_is_stopped \in BOOLEAN
  /\ m_is_errored \in BOOLEAN
  /\ m_mutex \in {"free", "worker"} /\ sleeping \in BOOLEAN
  /\ workerPc \in WorkerLocations
  /\ clientPc \in [Clients -> ClientLocations]
  /\ added \in Nat
  /\ finished \subseteq 1 .. added
  /\ discarded \subseteq 1 .. added /\ lostToError \subseteq 1 .. added
  /\ continues \in Nat /\ throws \in Nat
  /\ resetSinceError \in BOOLEAN /\ clearedWhileBusy \in BOOLEAN

\* No add_task() is forgotten: a submitted task has run to completion, was
\* removed by a client, fell to an exception, or is still with the worker.
NoTaskVanishes ==
  1 .. added = finished \cup discarded \cup lostToError
                 \cup Range(m_tasks) \cup ({t} \ {NoTask})

\* The queue is in submission order behind the task being run, and nothing
\* that has finished is queued again ("must push to the front", line 208).
QueueInOrder ==
  /\ \A i, j \in DOMAIN m_tasks : i < j => m_tasks[i] < m_tasks[j]
  /\ \A i \in DOMAIN m_tasks : t < m_tasks[i]
  /\ \A i \in DOMAIN m_tasks, k \in finished : k < m_tasks[i]
  /\ t # NoTask /\ workerPc # "ranTrue" => \A k \in finished : k < t

\* Tasks finish one after another in the order of submission, never twice.
TasksFinishInOrder ==
  [][\A k \in finished' \ finished : \A j \in finished : j < k]_vars

\* What wait_completed() and parallel::is_completed() rely on: the flag is
\* up only while nothing is queued and nothing runs.  The one exception is a
\* clear() during a run, which raises the flag under the running task.
CompletedMeansDrained ==
  m_is_completed /\ ~clearedWhileBusy => m_tasks = <<>> /\ t = NoTask

\* A task lost to an exception is visible through is_errored() until some
\* client calls reset(): the restart of run() does not hide it.
ErrorIsReported ==
  /\ lostToError # {} /\ ~resetSinceError
  /\ workerPc \notin {"caught", "setErrored"}
  => m_is_errored

\* ~thread() destroys the mutex, the condition, the queue and the flags only
\* after the worker's last access to them.  It does not wait for more: the
\* worker may still be "leaving", on the stack that ~thread() has freed.
NoUseAfterDestroy ==
  (\E c \in Clients : clientPc[c] = "destroyed")
  => workerPc \in {"leaving", "returned"}

\* wait_completed() returns unless the worker is stopped under it.
WaitCompletedReturns ==
  \A c \in Clients :
    clientPc[c] = "waitCompleted" ~> (clientPc[c] = "idle" \/ m_is_stopped)

\* force_restart() returns unless the worker is stopped under it.
ForceRestartReturns ==
  \A c \in Clients :
    clientPc[c] = "restartTest" ~> (clientPc[c] = "idle" \/ m_is_stopped)

\* force_stop() returns although an exception may make the worker forget a
\* stop() (line 158): the loop repeats it.
ForceStopReturns ==
  \A c \in Clients : clientPc[c] = "stopTest" ~> clientPc[c] = "idle"

\* The destructor returns: its wake-up is never lost for good.
DestructorReturns ==
  \A c \in Clients : clientPc[c] = "dtorFinish" ~> clientPc[c] = "destroyed"
-----------------------------------------------------------------------------
\* The object as a serial executor: a task is active until its run() returns.
Executor == INSTANCE SerialExecutor WITH
  submitted <- added,
  pending   <- Range(m_tasks),
  active    <- IF workerPc = "ranTrue" THEN NoTask ELSE t

\* run(), add_task(), clear() and force_restart() together implement the
\* serial executor, whatever the clients do and wherever tasks throw.
ImplementsExecutor == Executor!Spec
=============================================================================
