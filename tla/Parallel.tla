------------------------------ MODULE Parallel ------------------------------
(***************************************************************************)
(* xhn::parallel (xstl/xhn_parallel.hpp): a range of indices is cut into   *)
(* slices, one for each worker thread and the rest for the caller.         *)
(*                                                                         *)
(* Workers are xhn::threads, seen as what XhnThread implements: they run   *)
(* their tasks in order, and an exception makes them drop what is queued.  *)
(* The tasks refer to the locals of the call that made them, its copy of   *)
(* func and its counter, which are gone when the call returns.             *)
(***************************************************************************)
EXTENDS Integers, Sequences, FiniteSets, Functions

CONSTANTS
  NumWorkers, \* the size of m_threads
  Callers,    \* the threads that use the object
  Ranges,     \* the pairs <<start, end>> they pass
  MaxCalls,   \* bound on the loops of all callers
  MaxThrows   \* bound on the exceptions that func raises

ASSUME ParallelAssumption ==
  /\ NumWorkers \in Nat \ {0} /\ IsFiniteSet(Callers)
  /\ MaxCalls \in Nat /\ MaxThrows \in Nat
  /\ Ranges \subseteq Nat \X Nat

VARIABLES
  queue,       \* per worker: thread::m_tasks
  running,     \* per worker: the task it has taken, or NoTask
  workerPc,    \* per worker: where it is in thread::run and the lambda
  completed,   \* per worker: thread::m_is_completed
  callerPc,    \* per caller: where it is in the operation
  frame,       \* per caller: the locals of the operation
  submitted,   \* history, per worker: number of tasks it was given
  finished,    \* history, per worker: the tasks it ended without exception
  calls,       \* history, per caller: the ranges of its loops, in order
  done,        \* history: how often func was called for an index in a call
  failed,      \* history: the calls in which func threw or tasks were dropped
  joined,      \* history: the calls of each caller that are known to be done
  throws       \* history: number of exceptions

workerVars  == <<queue, running, workerPc, completed, submitted, finished>>
callerVars  == <<callerPc, frame, calls, joined>>
historyVars == <<done, failed, throws>>
vars == <<workerVars, callerVars, historyVars>>

Workers == 1 .. NumWorkers
CallIds == Callers \X (1 .. MaxCalls)
Indices == UNION {r[1] .. (r[2] - 1) : r \in Ranges}

\* joins tells the tasks of parallel_for, which count themselves off.
NoTask  == [id |-> 0, call |-> <<>>, a |-> 0, b |-> 0, joins |-> FALSE]
NoFrame == [joins |-> FALSE, a |-> 0, b |-> 0, works_per_thread |-> 0,
            remainder_works |-> 0, worked_thread_count |-> 0, next |-> 0]

\* The call that c is in, or was in last.
Current(c) == <<c, Len(calls[c])>>

Init ==
  /\ queue = [w \in Workers |-> <<>>] /\ running = [w \in Workers |-> NoTask]
  /\ workerPc = [w \in Workers |-> "idle"]
  /\ completed = [w \in Workers |-> TRUE]
  /\ callerPc = [c \in Callers |-> "idle"]
  /\ frame = [c \in Callers |-> NoFrame]
  /\ submitted = [w \in Workers |-> 0] /\ finished = [w \in Workers |-> {}]
  /\ calls = [c \in Callers |-> <<>>] /\ joined = {}
  /\ done = [k \in CallIds |-> [i \in Indices |-> 0]]
  /\ failed = {} /\ throws = 0

WorkerGoto(w, from, to) ==
  workerPc[w] = from /\ workerPc' = [workerPc EXCEPT ![w] = to]
CallerGoto(c, from, to) ==
  callerPc[c] = from /\ callerPc' = [callerPc EXCEPT ![c] = to]

\* A return takes the locals with it.
Return(c, from) ==
  CallerGoto(c, from, "idle") /\ frame' = [frame EXCEPT ![c] = NoFrame]

\* func(a, b) returns, or throws with any part of it done.
Func(call, a, b) ==
  done' = [done EXCEPT ![call] =
             [i \in Indices |-> IF i \in a .. (b - 1) THEN @[i] + 1 ELSE @[i]]]

Started    == {k \in CallIds : k[2] <= Len(calls[k[1]])}
CallsOf(c) == {k \in Started : k[1] = c}
-----------------------------------------------------------------------------
(* Operations with a mistake in them, each refuted by the property named. *)

SameSlice(f)     == [f EXCEPT !.next = @ + 1]              \* DoneWhenJoined
CountOffTwice(f) == [f EXCEPT !.worked_thread_count = @ - 2]  \* TypeOK
PushFront(q, t)  == <<t>> \o q                           \* WorkersAreExecutors

WaitNotAtAll(c) ==                                        \* LocalsOutliveTasks
  /\ Return(c, "wait")
  /\ joined' = joined
  /\ UNCHANGED <<workerVars, calls, historyVars>>

CountOffNothing(w) ==                                     \* ParallelForReturns
  /\ WorkerGoto(w, "countOff", "finish")
  /\ UNCHANGED <<queue, running, completed, submitted, finished, callerVars,
                 historyVars>>
-----------------------------------------------------------------------------
(* The caller: parallel_for (joins) and parallel_for_async. *)

\* The next slice begins where this one ends.
NextSlice(f) == [f EXCEPT !.a = @ + f.works_per_thread,
                          !.b = f.a + 2 * f.works_per_thread,
                          !.next = @ + 1]

CountOffOne(f) == [f EXCEPT !.worked_thread_count = @ - 1]

PushBack(q, t) == Append(q, t)

\* An empty range is refused, and changes nothing.  When there are fewer
\* indices than threads the caller has them all.
ParallelFor(c, joins, range) ==
  LET works == range[2] - range[1]
      per   == works \div (NumWorkers + 1)
  IN  /\ works > 0
      /\ Cardinality(Started) < MaxCalls
      /\ calls' = [calls EXCEPT ![c] = Append(@, range)]
      /\ frame' = [frame EXCEPT ![c] =
           [joins |-> joins, next |-> 1, works_per_thread |-> per,
            a |-> range[1], b |-> IF per > 0 THEN range[1] + per ELSE range[2],
            remainder_works |-> works % (NumWorkers + 1),
            worked_thread_count |-> NumWorkers]]
      /\ CallerGoto(c, "idle", IF per > 0 THEN "submit" ELSE "whole")
      /\ UNCHANGED <<workerVars, joined, historyVars>>

Submit(c) ==
  /\ callerPc[c] = "submit"
  /\ LET w == frame[c].next
         task == [id |-> submitted[w] + 1, call |-> Current(c),
                  a |-> frame[c].a, b |-> frame[c].b, joins |-> frame[c].joins]
     IN  /\ w \in Workers
         /\ queue' = [queue EXCEPT ![w] = PushBack(@, task)]
         /\ completed' = [completed EXCEPT ![w] = FALSE]
         /\ submitted' = [submitted EXCEPT ![w] = @ + 1]
  /\ frame' = [frame EXCEPT ![c] = NextSlice(@)]
  /\ UNCHANGED <<running, workerPc, finished, callerPc, calls, joined,
                 historyVars>>

Whole(c) ==
  /\ Return(c, "whole")
  /\ Func(Current(c), frame[c].a, frame[c].b)
  /\ joined' = joined \cup {Current(c)}
  /\ UNCHANGED <<workerVars, calls, failed, throws>>

OwnSlice(c) ==
  /\ frame[c].next \notin Workers
  /\ CallerGoto(c, "submit", IF frame[c].remainder_works > 0
                             THEN "remainder" ELSE "wait")
  /\ Func(Current(c), frame[c].a, frame[c].b)
  /\ UNCHANGED <<workerVars, frame, calls, joined, failed, throws>>

Remainder(c) ==
  /\ CallerGoto(c, "remainder", "wait")
  /\ LET a == frame[c].a + frame[c].works_per_thread
     IN  Func(Current(c), a, a + frame[c].remainder_works)
  /\ UNCHANGED <<workerVars, frame, calls, joined, failed, throws>>

\* An exception of the caller's own func leaves the workers with its locals.
CallerThrows(c) ==
  /\ callerPc[c] = "submit" => frame[c].next \notin Workers
  /\ throws < MaxThrows
  /\ throws' = throws + 1
  /\ \E from \in {"submit", "whole", "remainder"} : Return(c, from)
  /\ failed' = failed \cup {Current(c)}
  /\ UNCHANGED <<workerVars, calls, joined, done>>

\* Workers run their tasks in order: earlier calls of c are done with this one.
Wait(c) ==
  /\ frame[c].joins => frame[c].worked_thread_count = 0
  /\ Return(c, "wait")
  /\ joined' = IF frame[c].joins THEN joined \cup CallsOf(c) ELSE joined
  /\ UNCHANGED <<workerVars, calls, historyVars>>

(* is_completed() *)

IsCompleted(c) ==
  /\ CallerGoto(c, "idle", "poll")
  /\ frame' = [frame EXCEPT ![c] = [NoFrame EXCEPT !.next = 1]]
  /\ UNCHANGED <<workerVars, calls, joined, historyVars>>

PollNext(c) ==
  /\ callerPc[c] = "poll" /\ frame[c].next \in Workers
  /\ IF completed[frame[c].next]
     THEN frame' = [frame EXCEPT ![c].next = @ + 1] /\ UNCHANGED callerPc
     ELSE Return(c, "poll")
  /\ UNCHANGED <<workerVars, calls, joined, historyVars>>

PollTrue(c) ==
  /\ frame[c].next \notin Workers
  /\ Return(c, "poll")
  /\ joined' = joined \cup CallsOf(c)
  /\ UNCHANGED <<workerVars, calls, historyVars>>
-----------------------------------------------------------------------------
(* The workers: thread::run, and the lambda it calls. *)

Take(w) ==
  /\ WorkerGoto(w, "idle", "run")
  /\ queue[w] # <<>>
  /\ running' = [running EXCEPT ![w] = Head(queue[w])]
  /\ queue' = [queue EXCEPT ![w] = Tail(@)]
  /\ UNCHANGED <<completed, submitted, finished, callerVars, historyVars>>

Run(w) ==
  /\ WorkerGoto(w, "run", IF running[w].joins THEN "countOff" ELSE "finish")
  /\ Func(running[w].call, running[w].a, running[w].b)
  /\ UNCHANGED <<queue, running, completed, submitted, finished, callerVars,
                 failed, throws>>

\* The counter of a call that an exception has left is not there any more.
Alive(call) ==
  /\ call = Current(call[1])
  /\ callerPc[call[1]] \in {"submit", "remainder", "wait"}

CountOff(w) ==
  /\ WorkerGoto(w, "countOff", "finish")
  /\ LET call == running[w].call
     IN  frame' = IF Alive(call)
                  THEN [frame EXCEPT ![call[1]] = CountOffOne(@)] ELSE frame
  /\ UNCHANGED <<queue, running, completed, submitted, finished, callerPc,
                 calls, joined, historyVars>>

Finish(w) ==
  /\ WorkerGoto(w, "finish", "idle")
  /\ finished' = [finished EXCEPT ![w] = @ \cup {running[w].id}]
  /\ running' = [running EXCEPT ![w] = NoTask]
  /\ completed' = [completed EXCEPT ![w] = @ \/ queue[w] = <<>>]
  /\ UNCHANGED <<queue, submitted, callerVars, historyVars>>

WorkerThrows(w) ==
  /\ WorkerGoto(w, "run", "restart")
  /\ throws < MaxThrows
  /\ throws' = throws + 1
  /\ failed' = failed \cup {running[w].call}
  /\ running' = [running EXCEPT ![w] = NoTask]
  /\ UNCHANGED <<queue, completed, submitted, finished, callerVars, done>>

Restart(w) ==
  /\ WorkerGoto(w, "restart", "idle")
  /\ failed' = failed \cup {t.call : t \in Range(queue[w])}
  /\ queue' = [queue EXCEPT ![w] = <<>>]
  /\ completed' = [completed EXCEPT ![w] = TRUE]
  /\ UNCHANGED <<running, submitted, finished, callerVars, done, throws>>
-----------------------------------------------------------------------------
CallerStep(c) ==
  Submit(c) \/ Whole(c) \/ OwnSlice(c) \/ Remainder(c) \/ Wait(c)
    \/ PollNext(c) \/ PollTrue(c)

WorkerStep(w) ==
  Take(w) \/ Run(w) \/ CountOff(w) \/ Finish(w) \/ Restart(w)

Next ==
  \/ \E c \in Callers :
       \/ \E joins \in BOOLEAN, r \in Ranges : ParallelFor(c, joins, r)
       \/ IsCompleted(c) \/ CallerStep(c) \/ CallerThrows(c)
  \/ \E w \in Workers : WorkerStep(w) \/ WorkerThrows(w)

\* Whoever is inside an operation, and every worker, goes on.
Fairness ==
  /\ \A c \in Callers : WF_vars(CallerStep(c))
  /\ \A w \in Workers : WF_vars(WorkerStep(w))

Spec == Init /\ [][Next]_vars /\ Fairness
-----------------------------------------------------------------------------
(* Properties. *)

Tasks == [id : Nat, call : CallIds, a : Nat, b : Nat, joins : BOOLEAN]

\* Every variable keeps its type; no counter drops below 0.
TypeOK ==
  /\ queue \in [Workers -> Seq(Tasks)]
  /\ running \in [Workers -> Tasks \cup {NoTask}]
  /\ workerPc \in [Workers -> {"idle", "run", "countOff", "finish", "restart"}]
  /\ completed \in [Workers -> BOOLEAN]
  /\ callerPc \in [Callers -> {"idle", "submit", "whole", "remainder", "wait",
                               "poll"}]
  /\ frame \in [Callers ->
       [joins : BOOLEAN, a : Nat, b : Nat, works_per_thread : Nat,
        remainder_works : Nat, worked_thread_count : Nat, next : Nat]]
  /\ submitted \in [Workers -> Nat] /\ finished \in [Workers -> SUBSET Nat]
  /\ calls \in [Callers -> Seq(Ranges)]
  /\ done \in [CallIds -> [Indices -> Nat]]
  /\ failed \subseteq CallIds /\ joined \subseteq CallIds /\ throws \in Nat

\* After a parallel_for() that used the workers, or an is_completed() that
\* returned true, func has been called for every index of this and all earlier
\* loops of the caller, asynchronous ones too, unless an exception lost some;
\* and for no index twice.
DoneWhenJoined ==
  \A k \in CallIds :
    /\ \A i \in Indices : done[k][i] <= 1
    /\ k \in joined \ failed =>
         LET range == calls[k[1]][k[2]]
         IN  \A i \in range[1] .. (range[2] - 1) : done[k][i] = 1

\* A parallel_for() that no exception leaves does not return, and take func and
\* the counter with it, before the last worker has used them.  (The func of
\* parallel_for_async() may be gone when it is called.)
LocalsOutliveTasks ==
  \A w \in Workers :
    \A t \in Range(queue[w]) \cup {running[w]} :
      /\ t.joins
      /\ t = running[w] => workerPc[w] \in {"run", "countOff"}
      => Alive(t.call) \/ t.call \in failed

\* A loop returns, unless an exception lost part of it: then the counter stays
\* up and the caller waits for ever.
ParallelForReturns ==
  \A c \in Callers :
    callerPc[c] \in {"submit", "remainder", "wait"}
      ~> callerPc[c] = "idle" \/ Current(c) \in failed

Worker(w) == INSTANCE SerialExecutor WITH
  submitted <- submitted[w],
  pending   <- {t.id : t \in Range(queue[w])},
  active    <- running[w].id,
  finished  <- finished[w]

\* Every worker does what XhnThread is shown to implement, and no more.
WorkersAreExecutors ==
  /\ \A w \in Workers : Worker(w)!Init
  /\ [][\A w \in Workers : [Worker(w)!Next]_(Worker(w)!executorVars)]_vars
=============================================================================
