# xhnSTL: specifications, model checking and proofs

xhnSTL is a C++ standard-library replacement with its own memory manager,
containers, threads, locks, smart pointers and a garbage collector.  It has no
README; the documentation is in (mostly Chinese) comments in the headers and in
the test suite `src/Mac/xhnSTLTests/xhnSTLTests.mm`.  This directory holds TLA+
models of the parts whose correctness depends on the order in which several
actors do things, TLC configurations that check small instances, and TLAPS
proofs for every value of the constants.

Paths below are relative to `src/xhnSTL/`.

## 1. Inventory

| Component | State it keeps | Operations | What is hard | What makes it correct |
|---|---|---|---|---|
| `xhn::thread` (`xstl/xhn_thread.*`) | queue `m_tasks` under `m_mutex`/`m_cond`; five atomic flags | worker loop `run()`; `add_task`, `stop`, `reset`, `clear`, `wait_completed`, `force_restart`, `force_stop`, destructor | flags read and written outside the mutex; an exception restarts the loop and drops the queue; a detached thread that is "joined" | no task is lost unaccounted for; order of submission is order of completion; the completion and error flags tell the truth; every waiting call returns; no member is used after destruction |
| triple buffer (`xstl/xhn_triple_buffer.hpp`) | three pointers, a flag, two independent locks | `prepare_lock`, `current_lock`, the `_not_lock` variants | writer and reader share only a compare-exchange and a flag | three owners, three buffers; the newest commit is announced; a reader goes back to an older buffer in one order of steps only |
| `ReadWriteMutexObject` (`xstl/xhn_lock.hpp`) | reader counter, mutex | `ReadLock`, `WriteLock`, release | the counter is looked at outside the mutex | a writer is alone; nobody waits for ever without cause |
| other locks (`xstl/xhn_lock.hpp`, `xlibc/spin_lock.h`) | a word or an OS lock | lock, release | `RWLock3` lets a writer in under readers | mutual exclusion |
| garbage collector (`xstl/xhn_garbage_collector.hpp`) | nodes in three generations, their lists, edges and per-generation counters | allocate, attach, detach, root handles, `Collect`, `FullCollect` | counters and intrusive lists updated by hand; partial collections; cross-generation edges | live data survives, garbage goes, counters are exact |
| smart / weak pointers (`xstl/xhn_smart_ptr.hpp`, `xhn_memory.hpp`) | per object a reference count; beside it a counter of weak pointers with a lock inside; a lock in each weak pointer | create, copy, drop, `ToWeakPtr`, `ToStrongPtr`, `WeakPtr`'s copy, assignment and destruction | promotion races the last drop; two locks, the counting done under one, the other, or none; two parties that may delete the counter | counts are exact; the counter is deleted once, after its last user, and not left behind; a strong pointer points to a live object; nobody waits for ever |
| `RWBuffer` (`xlibc/rwbuffer.c`) | a ring of words, two pointers | `Read`, `Write` | lock-free, variable-size records that wrap | a FIFO of whole records |
| `parallel` (`xstl/xhn_parallel.hpp`) | workers; per call the locals of `parallel_for`: a copy of `func`, slices, a counter | `parallel_for`, `parallel_for_async`, `is_completed` | tasks refer to the locals of a call; several callers share the workers; exceptions lose tasks | every index is done exactly once before a join says so; locals outlive the tasks; a loop returns |
| thread pool, realtime thread, routine pool, `concurrent`, operations | vectors of threads, lists of routines | `add_task`, `alloc_routine`, `free_routine`, `execute` | reuse of what still runs | not used outside their own files |
| memory pools (`xlibc/emem.c`), containers, hash maps, strings, state machine, serialization, crypto, neural network, files, parsers, TIFF | see `PROJECT.json` | | mostly sequential | left to unit tests |

Interaction: `parallel`, the thread pools, the routine pool and the cache hold
`xhn::thread` objects through `SmartPtr`, wait for `is_running()` after creating
one, and talk to it by `add_task`, `num_tasks`, `clear`, `is_completed` and
`stop_thread_and_join`.  Locks and triple buffers are embedded in user data.
`GCPtr`, the collected arrays and strings reach the collector through `Attach`
and `Detach`; `GCBEGIN` makes a root handle and collects at the end of a scope.

`PROJECT.json` lists every component with its status, and under `hazards` every
place that is hard to test, with the property that covers it or the reason why
none does.

## 2. Modules

| Module | Models | Checked by | Proved in |
|---|---|---|---|
| `XhnThread` | `xhn::thread` and its clients | `XhnThread_safety`, `XhnThread_live` | `XhnThread_proofs` |
| `SerialExecutor` | abstract: tasks submitted, run one at a time in order, or given up | refined by `XhnThread`, and by each worker of `Parallel` | `ImplementsExecutorCorrect`, `WorkersAreExecutorsCorrect` |
| `TripleBuffer` | `xhn::triple_buffer` | `TripleBuffer` | `TripleBuffer_proofs` |
| `BufferExchange` | abstract: two sides that swap with one slot atomically | refined by `TripleBuffer` | `ImplementsExchangeCorrect` |
| `ReadWriteMutexObject` | `xhn::ReadWriteMutexObject` | `ReadWriteMutexObject` | `ReadWriteMutexObject_proofs` |
| `GarbageCollector` | the generational collector | `GarbageCollector`, `GarbageCollector_dangling`, `GarbageCollector_roots` | `GarbageCollector_proofs` |
| `SmartPtr` | `SmartPtr`, `WeakPtr`, `RefObjectBase`, `WeakCounter` | `SmartPtr`, `SmartPtr_promotion` | `SmartPtr_proofs` |
| `Parallel` | `xhn::parallel` over its workers | `Parallel` | `Parallel_proofs` |
| `RWBuffer` | the ring of `rwbuffer.c` | `RWBuffer`, `RWBuffer_barrier` | `RWBuffer_proofs` |
| `RecordQueue` | abstract: a queue of whole records | refined by `RWBuffer` | `ImplementsQueueCorrect` |

`Recursion` has what several proofs need about numbers: induction stated over sets
(`NatSetInduction`, `UpTo`) and the existence of functions defined by recursion.
`MC*` modules extend a module with what TLC needs (the symmetry of clients, the
ranges, the pairs of pointers that are assigned).
Each module has a section of operations "with a mistake in them": the mutants
that `PROJECT.json` substitutes to see that each property can be refuted.

### XhnThread

Variables have the names of the members.  `m_mutex` is a variable because the
worker's wait loop (lines 172-177 of `xhn_thread.cpp`) keeps it while
`~thread()` writes `m_is_finished` without it; every other critical section is
one action guarded by the mutex being free.  Each atomic access outside the
mutex is an action of its own.  `workerPc` follows `run()` through the label
`begin`, the two tests of `m_is_finished`, the condition wait (with spurious
wake-ups), the pop, the task's three outcomes (completed, continue, exception)
and the handler.  `clientPc` follows the calls of each client; the one that drops
the last reference executes the destructor.  `run()` ends in two steps: `Exit`
stores `m_is_stopped`, the last access to a member, and `Leave` returns through
`thread_proc()` on the stack that the constructor allocated.  Clients are attached only after
they have seen `is_running()`, as every user in the repository does.  A task is
the number of its `add_task()` call.  `get_error_message`, stack ranges,
scheduling classes and sleeps are left out; `join()` on a detached thread
promises nothing and is no action of its own.

History variables (`added`, `finished`, `discarded`, `lostToError`,
`resetSinceError`, `clearedWhileBusy`, and the two bounded counters) only feed
the properties.

### TripleBuffer

`buffer["prepare"]`, `m_next_buffer` and `buffer["current"]` are the three
pointers.  Each access to a shared word is one action: the load, the
compare-exchange, the assignment of the private pointer, the store of the flag.
The operations with and without a lock share that code; `Lock` is a call that
takes the lock, `Again` a call by the thread that holds it.  `stamp` numbers
commits; `early` says that the reader's last exchange took a commit between the
writer's exchange and its store of the flag.

### ReadWriteMutexObject

One program counter per thread.  Spinning on the counter is an action that is
enabled only when it is 0.  A thread holds one access at a time: taking a write
access while holding a read access of the same object blocks for ever in the
code, and is a misuse.

### GarbageCollector

Nodes are numbered in order of allocation.  `mem` are the node lists, whose
links the code keeps straight; the *root* lists are modelled link by link
because `DetachRoot()` leaves the links of the node it takes out.  `Dead(g)` is
what `PrepareCollect()` and `MarkAlived()` find for a collection of the
generations from `g` on, in the order of the code, including that a root pushes
what it holds without looking at its generation (lines 344-352, where the
comment at 276-278 would filter) and that the nodes already alive are not
visited again.  `SweptRoots` erases in the order of the code.  Sizes and birth
times are abstracted: any non-empty generation may be the one found too large,
and any prefix of its list may be old enough to age.  When a deleted node would
be read or written, `wild` is set and the behaviour stops.

### RWBuffer

A pointer is the index of a word; the words are those the code uses, one more
than it allocates.  Each word that is stored or loaded is one action, in the
order of the code, and so is each move of the two shared pointers; the locals of
`RWBuffer_Write` and `RWBuffer_Read` are the records `writer` and `reader`.  A
record's contents are one value repeated, enough to see a word of another
record.  The tests of `PTR_TEST` that meet the top give `Refuse`, from any point
of the copy; what was copied by then lies outside the records.  `Records` reads
the abstract queue out of the ring, following the stored pointers.  `offer` and
`answer` are histories of the last call on each side: what it was given or has
returned, and whether it is pending or has returned true or false.  `RecordQueue`
sees them, so a write cannot return true without adding the record that it was
given, and a read not without taking the oldest.  A write refused before it has
stored anything, and a read of an empty ring, change nothing and have no step.

### SmartPtr

Atomic operations are one step each.  A critical section is one step up to its
unlock when nothing in it can wait; the lock is then a variable all the same,
because others must wait between the two.  Every thread has one `SmartPtr`
(`m_ptr`) and one `WeakPtr` of its own, for which the thread stands in `Slots`;
`Weaks` are the weak pointers that threads share, and only those are copied and
assigned by everybody.  `pc` follows the bodies of `Dest()`, `operator =`, the
copy constructor, `ToWeakPtr()`, `ToStrongPtr()` and of `SmartPtr::_dec()` with
the destructor behind it, `op` holds their locals.

* `Dest()` gives the lock of its pointer up before the new value is stored
  (`xhn_smart_ptr.hpp:106`), so two threads that assign one pointer may store one
  reference over another.  `lost` counts those, and `MaxLost` bounds them.
* `ToStrongPtr()` may bring an object back whose count had dropped to 0.
  `resurrected` remembers it.  The invariants about the life of objects and
  counters except such objects; `SmartPtr_promotion` shows what becomes of them.
* An access to a deleted object is no step of the model; the invariants say
  when one could happen.
* `Assignments` are the pairs of pointers that somebody assigns.  They must not
  form a circle (an assignment to itself included), or threads wait for each
  other's locks for ever; the code leaves that to its users.

### Parallel

Workers are `xhn::thread`s, reduced to the serial executors that `XhnThread`
implements: a queue, the task being run, an exception that drops the queue.  That
this reduction does no more than `SerialExecutor` allows is the property
`WorkersAreExecutors`.  `frame` are the locals of the operation a caller is in;
they go when it returns (`Return`), by whichever way, and a task that refers to
them afterwards has nothing (`Alive`).  The number a lambda counts down is
therefore `frame[c].worked_thread_count` of the call that made it.

A call to `func` is one step that does its whole range.  The lambda counts
itself off in a step of its own, so that the waiting caller may return between
that and the end of the task.  `calls`, `done`, `failed` and `joined` are
histories: the loops of each caller, how often `func` was called for each index,
which loops lost a part to an exception, and which are known to be done, because
`parallel_for()` waited behind them in every queue or `is_completed()` was true.
An empty range changes nothing and has no action; a range with fewer indices
than threads is done by the caller alone and joins nothing but itself.

Not modelled: the `func` of `parallel_for_async()`, which the queued lambdas
refer to after it is gone (the tests pass one that captures nothing), and what a
worker writes into the counter of a call that an exception has left.

## 3. Runs

| Run | Bounds | What it shows |
|---|---|---|
| `XhnThread_safety` | 2 clients (symmetric), 3 tasks, 1 continuation, 1 exception; about 490 thousand states | type, accounting of tasks, order, truth of the flags, no use of members after destruction, refinement of `SerialExecutor` |
| `XhnThread_live` | 2 clients, 1 task, 1 continuation, 1 exception | the waiting calls and the destructor return |
| `TripleBuffer` | 3 buffers, 5 commits, any number of reads | ownership, refinement of `BufferExchange`, announcement, when a reader may go back to an older buffer, the writer's loop ends |
| `ReadWriteMutexObject` | 3 threads, unbounded accesses, deadlock checked | exclusion, progress of readers and writers |
| `GarbageCollector` | 3 nodes, 1 root handle at a time | exact counters, survival, reclamation |
| `GarbageCollector_dangling` | 2 nodes, 1 handle | **violated**: a younger node keeps a reference to a deleted older one |
| `GarbageCollector_roots` | 3 nodes, 2 handles at a time | **violated**: a live root is reclaimed |
| `RWBuffer` | 9 words (8 allocated), records of 4 and 5 words (an empty one is refused), 2 values, unbounded reads and writes, deadlock checked | nothing unread is overwritten; refinement of `RecordQueue`: what calls are given, return and refuse |
| `RWBuffer_barrier` | 9 words, records of 3 to 5 words | **violated**: a word behind the allocated ones is stored |
| `SmartPtr` | 2 threads, 1 object, 2 shared weak pointers and one for each thread, 2 assignments, 1 lost reference, deadlock checked | counts, life of the counter, life of the object, every operation returns |
| `SmartPtr_promotion` | 2 threads, 1 object, 1 shared weak pointer | **violated**: a promoted object is deleted |
| `Parallel` | 2 workers, 2 callers, 2 loops in all, 1 exception, ranges of 2 and of 4 indices | every index once, locals outlive tasks, loops return, workers are serial executors |

Bounds.  Two clients are enough for a call to meet every other call, and for one
to have dropped its reference; the worker sees only the queue and the flags.
Three tasks let one run, one wait behind it and one be added meanwhile, which is
where order can go wrong; one exception drops a queue and one continuation
pushes to the front.  Five commits let the reader miss, take, take early, go
back, and erase an announcement in all orders.  Three threads let a writer meet a reader and
another writer.  Three nodes let a root hold a chain over two generations, a
cycle, and garbage that holds garbage; four nodes do not finish in reasonable
time.  The passing collector run has one handle at a time, because the root
lists break with two (the run `GarbageCollector_roots`): it shows that the rest
of the algorithm is right where the lists are.  The theorems say the same for any
number of nodes.

Nine words hold two records of four words; a record of four and one of five fill
the ring exactly and must not fit; and since 9 is no multiple of 4 or 5 every
word of a record meets every word of the ring.

Two threads and one object let every operation meet every other one on the same
counter: a drop and a promotion, a drop and the last `Dest()`, two assignments to
one pointer.  Two shared weak pointers are what an assignment between shared
pointers needs, and the other assignment is from a thread's own one.  A second
object would only let a pointer change between two counters that do not touch;
the theorems hold for any number.

Two loops of one caller show an earlier, asynchronous loop joined by a later one,
two of different callers that they share workers.  A range of two indices over
two workers and a caller leaves the workers nothing; one of four gives everybody
a slice and the caller a remainder.  One exception is raised by a worker or a
caller, before and behind other tasks.

`CHECK_DEADLOCK FALSE` appears where the system may stop: the worker returns and
the clients go away, the bounded commits, allocations or loops are used up, an
exception has left a `parallel_for()` waiting for a part that was lost, or the
collector has touched a deleted node.

### Fairness

* `XhnThread`: weak fairness of the worker's steps, because the scheduler runs
  every ready thread (no client keeps the mutex across steps, so the worker is
  never blocked for ever).  Strong fairness of a client inside a call: the
  worker takes and releases the mutex in turns, and we assume that
  `pthread_mutex_lock` does not starve a client.  A client is never obliged to
  start a call, and a spurious wake-up never obliged to happen.
* `TripleBuffer`: weak fairness of each side inside an exchange; nobody has to
  call.  The writer's loop ends because readers exchange at most once per
  commit in all (`TakesNeedCommits`, a theorem), not because of fairness.
* `ReadWriteMutexObject`: weak fairness of every step, which includes that
  accesses are given back, and strong fairness of taking the mutex (it starves
  nobody).  A waiting writer is given weak fairness only, since it looks at the
  counter from time to time: readers that keep coming starve it, and
  `WriterGetsIn` says so.
* `SmartPtr`: weak fairness of the steps inside an operation; nobody has to
  begin one.  The spin locks of the code are not fair, so `OperationsReturn`
  concludes only when new operations stop coming: then every lock is free from
  some point on until it is taken by one that waits.
* `Parallel`: weak fairness of a caller inside an operation and of every worker,
  as for `XhnThread`; an exception is never obliged to happen.

## 4. What disagrees with the documentation

1. `ToStrongPtr()` after the last `SmartPtr` is gone: the test requires null
   (`src/Linux/UnitTest/test.cpp:112`).  Between the decrement to 0
   (`xstl/xhn_smart_ptr.hpp:191`) and the destructor, which clears `ref_object`
   (`xstl/xhn_memory.hpp:322`), it gives the object, which is then deleted.  Run
   `SmartPtr_promotion`.
2. The collector's comment (`xstl/xhn_garbage_collector.hpp:298-301`) requires
   the references of young nodes to a reclaimed old node to be cleared, by means
   of an input table.  There is none: a reference to a deleted node remains,
   even in a live root.  Run `GarbageCollector_dangling`.
3. `DetachRoot()` (line 249) leaves the links of the detached root, which is
   unlinked a second time when it is collected.  With nested `GCBEGIN` scopes a
   live root then drops out of the list and is reclaimed, against lines 276 and
   286.  Run `GarbageCollector_roots`.
4. The diagram at `xlibc/rwbuffer.c:17-20` puts the bottom barrier on the last
   word inside the buffer; `RWBuffer_new()` (line 40) puts it one word behind,
   and that word is used.  Run `RWBuffer_barrier`.

`force_restart()` (comment at `xstl/xhn_thread.cpp:265`: wait until the task has
been executed) returns under a running task when another thread has called
`clear()`, which raises `m_is_completed` (line 299).  No run is kept for it:
`CompletedMeansDrained` excepts exactly that state by name (`clearedWhileBusy`).

`~thread()` frees the worker's stack (line 504) while the worker may still be
returning on it: the loop at line 490 waits for the store at line 225 and no
longer, and the `pthread_join()` at line 496 is called on a thread created
detached (line 408).  The model reaches that state, an object destroyed and the
worker at `leaving`.  No run is kept for it either, because no comment or test
states otherwise; `NoUseAfterDestroy` is about the members of the object, the
mutex, the condition, the queue and the flags, and not about the stack.

Other things that go wrong in the code are left out of a property by name, and
`hazards` in `PROJECT.json` lists them without a property: a stopped worker
(`WaitCompletedReturns`), a `reset()` after an error (`ErrorIsReported`), a flag
lowered over a new commit (`NewestIsAnnounced`), readers that keep coming
(`WriterGetsIn`), assignments in a circle (`OperationsReturn`), a reference lost by
overlapping assignments (`NoCounterLeak`), and loops that an exception has cut
short (`ParallelForReturns`, `LocalsOutliveTasks`).

## 5. Proofs

All theorems hold for every value of the constants, from the named assumptions
of the modules (`ThreadAssumption`: there is a client, and the names of the
mutex's states are not clients; `BuffersAssumption` of `TripleBuffer`: the
buffers are three; `ThreadsAssumption`: the threads are finitely many;
`SmartPtrAssumption`: threads and weak pointers are finitely many, and the names
of the model are apart; `ParallelAssumption`: there is a worker, and callers are
finitely many; `RingAssumption`: the ring has a word and words have bytes;
`NodesAssumption`: the numbers of nodes and of handles are natural numbers).

* `XhnThread_proofs`.  `TypeCorrect` carries, besides `TypeOK`, where the
  worker's local `t` is null (`LocalTask`).  `DestroyedAfterWorkerLeft` is
  inductive with two facts: the stopped flag is raised for good, by the worker's
  last access to a member, and the destructor passes its loop only then.  `NoTaskVanishesCorrect` needs that a
  task in `ranTrue` is already counted as finished.  `QueueInOrderCorrect` rests
  on lemmas about the range and the order of a sequence under append, push-front
  and tail.  `TasksFinishInOrderCorrect` follows from `QueueInOrder` at the step
  that finishes a task.  `CompletedMeansDrainedCorrect` strengthens the claim
  with what the worker is about to do when the flag is up.
  `ImplementsExecutorCorrect` maps every step of worker and clients to a step of
  `SerialExecutor` or a stutter.  `ErrorIsReportedCorrect` follows a lost task
  through the handler and the restart.
* `TripleBuffer_proofs`.  Ownership is inductive once the buffer in transit is
  counted as the exchanging side's (`Owned`); the refinement follows.
  `TakesNeedCommitsCorrect` is proved from a stronger invariant, `Credit`: a
  reader that has seen the flag has a commit to its credit.
  `BackOnlyAfterEarlyTakeCorrect` follows the states in which the middle buffer is
  older than the reader's (`Behind`): the reader is then not on its way to a swap
  and the flag does not send it there (`Quiet`), except when it took its buffer
  early and the writer has announced that since (`BackOK`).  That a commit ends
  such a state needs the ownership and that no stamp is beyond the number of
  commits.  `NewestIsAnnouncedCorrect` is inductive once it is stated of all states
  in which no side is between its exchange and its store (`Announced`).
* `ReadWriteMutexObject_proofs`.  The invariant says that the counter is the
  cardinality of the set of counted readers and that the mutex is held by
  exactly the threads whose program counter says so; exclusion follows, since a
  writer has seen 0 under the mutex and no reader can be counted without it.

* `SmartPtr_proofs`.  First the types and what the locals of each operation are
  at each point (`Shape`, `LocalsOK`), then who holds which lock (`OwnsOK`).  Each
  step changes the pointers that a counter counts by at most one, together with
  the count (`ChangeStep`), which gives `WeakCountExactCorrect`; that needs
  `MaxLost` nowhere.  In the same way `ref_count` is the number of strong
  pointers (`RefCountExact`), from which `StrongPtrsAreAliveCorrect` follows,
  since only the drop to 0 leads to the destructor (`Dying`).  For the counter the
  invariant follows a counter without weak pointers and without an object
  (`Gone`): it stays so, and exactly one thread is on its way to delete it
  (`Pending`, `CounterKept`).  `CounterOutlivesUsersCorrect` and
  `NoCounterLeakCorrect` are its two halves; the second needs `WeakCountExact` too,
  by which a count above 0 with no reference lost is that of a pointer, or of an
  assignment in flight.
* `Parallel_proofs`.  The numbers of the tasks of a worker grow along its queue,
  and so do the calls of each caller among them (`WorkersOK`, `TasksOK`).  A loop's
  counter is at least the number of workers that have still to be given its task,
  or to count it off (`Owing`), and one more when an exception lost one of them
  (`LoopOK`): so it does not go below 0 (`TypeCorrect`) and the caller does not
  pass its wait too early (`LocalsOutliveTasksCorrect`).  For
  `DoneWhenJoinedCorrect` the slices handed out and the caller's rest make up the
  range (`SlicesOK`), each index of a started loop is in exactly one place or done
  or lost (`CoverOK`), a worker that `is_completed()` has passed has nothing left
  of the caller's loops (`BehindOK`), and joined loops are nowhere (`JoinedOK`).
  `WorkersAreExecutorsCorrect` maps each step to one of `SerialExecutor`.
* `RWBuffer_proofs`.  Distances round the ring are added and compared in a few
  lemmas (`OffFacts` to `Between`).  The writer keeps between `bottom_pointer` and
  where it saw `top_pointer`, and the reader only makes that room larger
  (`WriterOK`); the words to be read form a chain of records, each at least three
  words long, that the stored pointers lead through up to `bottom_pointer`
  (`Chain`).  From these no step stores into what is to be read
  (`NoOverwriteCorrect`), and the pointer that the reader takes out of a record
  stays in the ring (`TypeCorrect`).  For `ImplementsQueueCorrect` the chain becomes a
  sequence, `Listing(t, m)`: the m records begin at t[0], t[1], ..., each behind all
  that the one before it holds.  `Records`, a recursive function cut off at a
  cardinality, is what such a sequence lists (`RecordsAre`).  `WroteOK` says which
  words of its record the writer has stored, `LoadedOK` which the reader has loaded;
  the second survives the writer's steps because the oldest record lies in what they
  leave alone.  `HistoryOK` ties the histories to the locals: a call is pending while
  its function is inside, and the writer still has the arguments that it was given.
  `Publish` then puts exactly the record of the call, `Advance` takes exactly the
  oldest one, and all other steps leave the queue alone (`QueueMoves`), `Refuse`
  included: what it leaves half written lies in no record.
* `GarbageCollector_proofs`.  For any number of nodes and handles, `Inv`: the list of a
  generation has its nodes, each once (`Lists`); a node not yet allocated is as
  allocation expects it (`Fresh`); a deleted one holds nothing (`Gone`); and the
  counters are cardinalities of sets of holders (`Counts`).  Ageing moves a prefix of
  a list, and its nodes' edges from one counter to another, and sweeping takes the
  edges of the dead away: `CollectFromKeeps` follows both at once.  From `Inv` come
  `TypeCorrect` and `RetainCountsExactCorrect`.

  What is kept and reclaimed is proved for one handle at a time, the hypothesis
  `MaxHandles <= 1` of three theorems: they are about programs whose `GCBEGIN` scopes
  do not nest, and in one thread.  The code allows others, and for those the three
  are false: with two handles `DetachRoot()` leaves links behind with which a live
  root is lost, as the run `GarbageCollector_roots` shows.  `OneInv` adds to `Inv`: each root list is empty
  or has just the handle's root, and no node has a link left (`Roots`); a live node
  that holds a deleted one is younger than that was (`Upward`), until somebody
  follows such a reference (`wild`); and after n calls of `FullCollect()` in a row
  the next one would find nothing dead in the n oldest generations (`Again`).
  `Marks(g, A, R)` states what a collection from g on finds alive, generation by
  generation, as least sets instead of a traversal.  `KeptByCollect` is an induction
  over what is reached; by `FullCollectSettles` one call of `FullCollect()` settles
  one generation more, because what it marked is marked again; after three calls
  nothing is left but what the root reaches (`NothingLeftIsReachable`).
  `HandlesSurviveCorrect` states, under the hypothesis, the property that the run
  `GarbageCollector_roots` refutes without it.

Only model-checked: all liveness (`TLAPS` proves no liveness from fairness
here).  Every invariant, action property and refinement of a passing run has its
theorem.

## 6. Not modelled

* Thread pool, routine pool, realtime thread, `concurrent`, operations: nothing
  outside their own files uses them (the tests only include headers of two).
  They hold `xhn::thread`s, whose behaviour is in `XhnThread`, and choose one by
  the length of its queue or take it from a list under one spin lock.
* `RWLock2` and `RWLock3`: used by nobody.  `RWLock3::GetWriteLock()` lets a writer
  in under readers; no document says that it must not.  The other locks are the
  platform's.
* `Checkout()` and `Submit()` of `SmartPtr`: never instantiated.
* Memory pools (`xlibc/emem.c`): compiled out by `USE_C_MALLOC` (line 15).
* `GCPtr` and the collected containers: `GarbageCollector` has the `Attach()` and
  `Detach()` calls that they make, not the two pointers that may share an edge.
* `assign_to_local_thread()`, `has_tasks()`, scheduling classes, stack ranges and
  error messages of `xhn::thread`; `RWBuffer_delete()`.
* Containers, trees, hash maps, strings, serialization, crypto, neural network,
  numerics, files, parsers and TIFF: sequential or pure computation, or input and
  output.  They are most of the lines of the repository.

The platform primitives (atomics, spin locks, OS mutexes) are atomic steps.  All
models assume sequential consistency.  The code's atomics are weaker: loads
acquire, stores release and compare-exchanges are full barriers; `RWBuffer` uses
volatile words and a full fence before a pointer is published.
