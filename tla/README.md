# Formal verification of testingground

The repository collects C++ building blocks of a storage engine: lock-free
queues, an executor of prioritised tasks, a self-scaling thread pool, file
pipelines over io_uring, a B-tree page with a buffer cache, an object pool, a
performance collector, and small servers, demos and exercises. There is no
specification and almost no documentation; what the code promises is in its
comments, asserts and test drivers. This directory holds TLA+ modules translated
from that code, TLC configurations that check them on small instances, and TLAPS
proofs for instances of every size. Paths below are relative to `src/src/`.

`PROJECT.json` gives, for each definition, the source lines it models, and for
each property of a passing run a mutant: a plausible slip in a mapped definition
under which TLC finds the property violated.

## 1. Inventory

| Component | State | Operations | Interacts with | What is hard, and what makes it correct |
|---|---|---|---|---|
| `mpsc_benchmark/MyMpScQueue.h`, driver `test.cc` | linked lists of fixed arrays, request counter, tail, a count per list | `enqueue`, `verify` | producer threads | Producers race for the boundary of a list and spin on the tail. No slot is lost or written twice, one producer grows a list, spinning ends. |
| `io_uring/MpScQueue.h`, earlier copy and driver in `mpsc_benchmark` | doubly linked buffers, `gTail`, `tailOfQueue`, `headOfQueue`, a flag per slot | `enqueue`, `dequeue`, destructor | used by the executor | The consumer looks ahead, rescans, unlinks and frees buffers under running producers; 32-bit arithmetic. Nothing lost, doubled or reordered; no access to a freed buffer. |
| `io_uring/executor.h` | four queues, a round counter and a shutdown flag per thread | `Start`, `AddCPUTask`, `Shutdown`, the thread's loop | `MpScQueue`; used by the write pipeline | Starvation of low priorities, shutdown against late submissions. |
| `io_uring/async_write_coroutine.*`, `async_write.cc` | coroutine frames, the rings, the reaper's totals | worker, write coroutine, reaper, main | executor, kernel | Resumption against suspension, lifetime of buffers, the end of the reaper. |
| `io_uring/read_write.cc` | counters of the copy loop, requests | `copy_file` with `queue_read`, `queue_write`, `queue_prepped` | kernel | Short transfers, retries, a ring of fixed depth. The copy is exact and returns. |
| `thread_pool.*`, `function_queue.cc` | pool size, tids, flags, sleep, function queue | `Reset`, `Enqueue`, `Shutdown`, monitor, workers | each other through shared state | Workers register after they were spawned; growing and shrinking. Exact registration, the size asked for, functions run. |
| `lock_free_queue.cc` | ring of pointers, `head_`, `tail_`, `size_` | `TryEnqueue`, `TryDequeue` | one producer, one consumer | The size test is old when it is used. The slots are used as a bounded FIFO; that a removed element reaches the caller fails (section 4). |
| `btree/btree.h`, `main.cpp` | page header, offset array, records | `insert`, `find`, conversions | buffer cache | The page layout at its limits; two binary searches that must agree. |
| `btree/buffercache.h` | free list, next page, the array | constructor, `initNextFreePage`, `free`, `get` | B-tree | No upper limit, 32-bit addresses. Pages held do not overlap while the cache is large enough. |
| `simple_socket_server.cc`, `simple_socket_client.cc` | listening sockets with backlogs, descriptors, a socket file, one thread per connection | accept, pass a descriptor on, receive it, serve | master, slave, clients; kernel | Blocking calls in an accept loop, clients that leave, descriptors that are never closed, a restart. The server stays up and answers each message. |
| `perf_collector.cc` | two maps of timers under two mutexes | start, stop, reset, totals | client threads | A check outside its lock, thread ids that are reused. Totals are of measured times. |
| `io_uring/read_benchmark.cc` | counters, the ring | `io_uring_read`, `regular_read` | kernel | Completions not waited for, an `int` for a file size. Each byte is accounted for, and it returns. |
| `object_pool.cc` | free list of objects | `Get`, `Return` by the deleter | owners | Reuse inside an assignment. It is an allocator. |
| `coroutine/` | frames linked through `prev_` | suspend, resume | detached thread | Completion before the link is stored. |
| rest | | direct I/O test, process and language examples, `skiplist.cc`, `workflow/`, `study/*.py` | | Section 7. |

The hazards found in reading this code are listed in `PROJECT.json` at the line
where they bite, each with the properties that would catch it.

## 2. Modules

One step of a concurrent module is one access to memory that another thread
uses, or one critical section, with the local work that follows it. The
makefile builds without optimisation for x86-64; the loads and stores involved
are atomics, or are ordered by them, and x86 keeps their program order except
for a store followed by a load of another location, on which none of these
algorithms relies. So interleaving the accesses is what the build can do.

* **`MyMpScQueue`**. The claim (`fetch_add`), the load and test of the tail, the
  two stores into the slot, the count, `next_` and the new tail are a step each.
  `Joined`, `Walked`, `VerifyCount` and `VerifySet` are what `verify` sees when
  `test.cc` calls it after the join.
* **`MpScQueue`**. A producer's call is `FetchAdd`, `LoadTail`, `WalkBack`,
  `StoreData`, `StoreFlag`, `Grow`, `LoadNext`, `Alloc`, `CasTail`; the consumer's
  is the emptiness test (`LoadPrevSize`, `CompareTail`, `CompareGTail`), the
  head (`LookAtHead`, `LoopHead`), the look ahead (`TryAhead`, `SecondLook`,
  `StepAhead`), the scan (`HeadStillEmpty` to `ScanEnd`), folding (`FoldCheckTail`
  to `FoldFree`) and moving on (`MoveHead`, `DropHead`). Buffers are named by
  `positionInQueue`. Arithmetic on `unsigned int` is modulo `UIntMod`. The model
  halts at the first access to a null or freed buffer, because what follows is
  undefined. **`MpScFifo`** is the contract: each producer's elements leave
  once, in its order; an element enters with the store of its flag. `MCMpScQueue` gives the producers' numbers of calls.
* **`Executor`**. Per thread the shutdown test, the choice of the round's first
  priority, one `dequeue` per step, and the task. The queues are lossless FIFOs, which
  `MpScQueue` is shown to be only where `FifoContract` holds, within one buffer: the
  executor's properties rest on that. `shutdown_` starts with any value since the code
  never sets it. `StartFails` is the exception of a thread that cannot be bound to its
  vcore, which nothing catches and which ends the process. `AddCPUTask` returns false
  only when memory runs out; memory is assumed to suffice.
* **`SinglePCQueue`**: size test, exchange and change of `size_` on each side. `item`
  is the variable the caller passes to `TryDequeue`, uninitialised as in the driver, and
  `local` the variable of the same name inside, which takes the element. **`BoundedFifo`**
  is a bounded FIFO of stored elements, which the slots implement; it is about storing
  and removing, not about what the caller is given.
* **`ThreadPool`**. `Reset` (comparison, growth by spawning, shutdown, the spin
  for `size_ = 0`, the recursive call), the monitor, and the workers from
  registration to their leaving, with the two critical sections of
  `FunctionQueue`. A thread id is free again once its worker has left.
  `function_queue.h` is not in the repository.
* **`IoUring`**. The rings as the programs use them; the library and the kernel
  are external to the repository. The kernel completes requests in any order.
* **`CopyFile`**. The read loop, the submission, waiting and peeking, and the
  treatment of each completion: retry, failure, short, read done, write done. The
  kernel may transfer short (at least a unit), ask to retry, fail, refuse a submission
  or fail the wait or the peek (`WaitFails`); `odd` remembers what it did.
* **`AsyncWrite`**. Workers, the coroutine between its first page and its
  suspension, the reaper and main's shutdown. `file_info->size` is never set:
  it starts with any value. A write to a regular file transfers at least one byte or
  fails, so that `res = 0`, which line 64 would accept, is not among the kernel's answers.
  `async_write.cc` is the same without the resumption.
* **`BTreeNode`**. One page: `insert` stores a record below `_upper` and its
  offset in key order; a step is one probe of a binary search or the work before
  or after it. Sizes are counted in bytes and strings are a name and a length,
  which `deserialize` reads modulo 256. Two assumptions are made about undefined or
  indeterminate values: `main.cpp` never sets `_items_count` and `_pid`, which are taken
  to be 0 because the cache's 800 KiB from `new unsigned char[]` are fresh, zeroed pages
  of the kernel; and the `memcpy` of overlapping ranges at line 174 is taken to act as
  `memmove`, which it does in glibc for x86-64. `MCPrograms` gives the strings.
* **`SocketServer`**. A step is one system call of the master, the slave, one of
  its threads or a client, with what follows it up to the next one that can block
  or fail. A TCP connection is named by its client; `tcp` and `unix` are the
  backlogs, `masterHas`, `transit` and `slaveHas` say where its descriptors are,
  which decides when a client sees the end of the connection. A message is a number
  of units that `read` may return in parts. `events` remembers what else happened:
  a client that left, a descriptor limit, a socket file left over, a master that
  met a client before the slave listened, a failed `sendfd`. The calls of `socket` and
  `bind` are assumed to succeed, but for the socket file left over (the master only
  reports a failure and goes on), and a client reads an answer as a unit.
* **`PerfCollector`**. A step is one critical section; `StopLatency` and `Reset`
  take two. The clocks are small, a second has `Billion` nanoseconds, and a thread
  may end and its id be reused. `torn` names the timers whose `StopLatency` met a
  `Reset` after its test.
* **`ReadBenchmark`**, over `IoUring`. `QueueRead` is one round of the loop with
  the submission that ends a batch; `GetResult`, `PeekEmpty` and `WaitFails`, an error of
  the wait or the peek, are the loop of `get_read_results`. liburing does not report
  success without a completion, so that the test of `cqe` has no case of its own. `Narrow` is the conversion of the file size to `int`.
* **`CoroutineDemo`**. The main thread goes down the chain of calls and, suspending
  one coroutine after the other, back; the detached thread resumes the last one and
  goes up in nested `final_suspend`s. Frames are created, suspended and destroyed.
* **`ObjectPool`** and **`Allocator`**, the abstract pool it implements; the free
  objects are those the list leads to, as `PrintFreelist` follows it.
* **`BufferCache`**. Users take and free pages; `peak` is the most held at once.
* **`MCPrograms`** joins these six and `BTreeNode`, which share nothing: a behaviour is one of any
  of them, and the others stay in their first state.
* The theorems of section 5 are in **`MyMpScQueueProofs`**, **`MpScQueueProofs`**,
  **`SinglePCQueueProofs`**, **`ThreadPoolProofs`**, **`CopyFileProofs`** and
  **`AsyncWriteProofs`**, one for each module; in **`IoUringProofs`**, lemmas about
  rings that the programs over io_uring share; and in **`ProgramsProofs`**, a part
  each for the executor and the seven programs of `MCPrograms`.

## 3. Runs

| Run | Instance | Shows |
|---|---|---|
| `my_mpsc` | 3 producers, lists of 2, 5 claims | `RightList`: a producer writes only into the list of its claim, although only the upper end of the tail's list is tested. `CountIsExact`: one producer grows each list. `SetSlotsFrozen`: a set slot is never written again. `VerifySucceeds`: what `verify()` reports after the join. `EnqueueReturns`. |
| `mpsc_one_buffer` | 2 producers with 2 calls each, one buffer of 5 | Inside a buffer the queue delivers nothing twice, keeps real-time order and loses nothing (`OrderedAndComplete`), returns false only when empty (`FalseMeansEmpty`), delivers everything (`EventuallyDelivered`), and implements `MpScFifo` (`FifoContract`). |
| `mpsc_concurrent` | producers with 1 and 4 calls, buffers of 2 | Across buffers, as long as `dequeue` has not overlapped two producers (`SafeWithoutOverlap`; until then no buffer is folded either), nothing is lost, delivered twice, reordered, misplaced, used after its deletion or left by the destructor. |
| `mpsc_loss` | as above | Violation: with such an overlap a restart of the scan leaves an index that advances the head over an element still being stored, which is lost. |
| `executor` | 2 threads, 2 clients, 3 tasks resubmitted for ever | `EveryTaskRuns`: no starvation. `MostUrgentFirst`: the fall back takes the most urgent work. `EarlyTasksRun`: the shutdown does not overtake its caller's kHigh tasks. `ShutdownReturns`. |
| `single_pc_queue` | 3 slots, 2 elements | `ExchangeIsSafe`: the size test is still good when the slot is exchanged. `RingContract`: what the slots hold implements `BoundedFifo`. |
| `single_pc_delivery` | 1 slot, 2 elements | Violation of `DequeueDelivers`: a `TryDequeue` that returns true has not given the caller the element it removed. |
| `thread_pool` | 3 thread ids, `Reset` to 0, 1 or 2 for ever | `TidsExact`: no worker finds its reused tid registered. `ExactSize`: orderly Resets give the size asked for. `ResetTerminates`: every Reset returns but `Reset(0)`. `EveryFunctionRuns`, `ShutdownStops`. |
| `copy_file` | 4 blocks, the last one shorter, 2 entries | `SqeAvailable`: `assert(sqe)` holds and `reads + writes` counts what is in the ring, in all cases. `TransferInBuffer`. With a kernel that transfers in full, `CopyExact` and `CopyReturns`. |
| `copy_file_short` | as above | Violation: a short transfer is requeued at the old file offset. |
| `async_write` | 2 files of 2 pages, 1 entry | `ResumeSafe`: a coroutine is resumed only while suspended and once, whatever `size` holds. `BuffersSafe`: a buffer outlives its request, and the reaper's end is the end of all of them. `ReaperEnds`. |
| `programs` | see `Programs.cfg` | The programs that stand alone. Sockets: `ServerStays`, the processes come down only for the reasons listed in `events`; `LockStep`, no answer is left over for the next message; `EveryMessageAnswered`. Timers: `TimesSound`. Reads: `TotalAccounted`, each byte is counted, on its way or left, and uncollected reads do not grow by whole batches; `ReadReturns`. Coroutines: `ChainResumed`, each is resumed while suspended, and the end of the thread is the end of all, if it woke after the main thread had left the chain. `PoolContract`: the pool implements `Allocator`. `PagesSafe`: no page has two holders while `_next_free_page` has not overflowed, and pages are apart and inside the array while no more than `_pages` are held and the array has less than 2^32 bytes. B-tree page (3 keys, 2 strings, 4 to 6 records): `PageWellFormed`, offsets and records never meet, offsets point to records and are in key order; `FindExact`, `find` finds exactly what was stored. |

**Why these bounds are enough.** The interesting cases of the queues are list
and buffer boundaries with calls outstanding on both sides, a ring that is full
and empty and wraps at both indices; the instances have at least two boundaries,
and buffers of 2 are the smallest that have a slot with index 1, at which the
code allocates ahead. The executor's ten rounds of priorities are modelled in
full; two threads suffice because threads share nothing but the joining caller.
Three thread ids let a `Reset` find unregistered workers and a shrink meet
workers in every state. Four blocks through two entries make the copy loop run
in all its phases, with a block in each role. Four to six records give offset
arrays of even and odd length with the key at every place. Bounded are only the
calls of the producers (`Quota`, `MaxEnqueue`) and the live threads (`Thread`);
the other runs have cyclic behaviours without a bound. `UIntMod` is large enough
not to wrap in the runs. In `programs`, a backlog of one makes `connect` wait, two
clients and one of the slave's own socket let each be held up by another, and the
descriptor limits stop the processes in the middle of a connection (one message of
a client is read in parts, then its messages are whole: `Readable`); the clocks of
the timers (`MaxCpu`, `MaxNow`) are long enough for a borrow between two readings;
files are empty, of several batches with a partial block, and at both ends of what
an `int` can hold; as many pointers as pooled objects, so that the pool runs empty; one
more user than pages, and an array one page too large.

**Fairness.** Threads are preemptively scheduled, so each thread in a call or in
its loop has weak fairness; the kernel completes what was submitted. Nothing
forces a client to start a call, a shutdown to be asked for, or the monitor to
decide anything: no fairness for them. `SinglePCQueue`'s consumer and
`MpScQueue`'s keep polling, as their drivers do. In the socket programs the processes
and threads and the clients' reads have weak fairness, users have none; in the
benchmark the thread and the kernel.

## 4. Findings and limits of the properties

Three findings have a run of their own; `PROJECT.json` quotes the comment each contradicts.

* `mpsc_loss`: `MpScQueue` can skip an element that is still being stored
  (`MpScQueue.h` line 190).
* `copy_file_short`: the rest of a short transfer is requeued at the old file offset
  (`read_write.cc` line 183).
* `single_pc_delivery`: `SinglePCQueue::TryDequeue(T& item)` takes the element into a
  local `auto item` that hides the parameter (`lock_free_queue.cc` line 51). It returns
  true with the caller's variable as it was, and the element is lost. The driver would
  use that variable as the element in its commented line 92; as it stands it only counts,
  and does not notice. The other properties of this queue are about the slots.

Further behaviours of the code bound what the properties claim. Where a property
excepts the very case of a hazard, the hazard's entry in `PROJECT.json` says so: such a
property shows that nothing else goes wrong, not that the hazard is absent.

* `MpScQueue`, with two producers overlapping `dequeue` across buffers: a
  producer can link (line 298), or the consumer can move past (line 258), a
  buffer already freed; a fold under a walking producer makes `prevSize` wrong
  (279). With four producers an element can even be delivered twice: in buffers of 2,
  the producers of locations 0 and 1 stall, the one of location 1 before its flag, and
  so does the one of location 3 after it loaded buffer 4 as the tail; locations 4 and 5 are stored and
  taken, which folds buffer 3; the walk back from 4 now counts one buffer too few, stores
  location 3's element into the slot of location 1, where it is taken, and
  taken again once that slot's own producer stores its flag. The unconditional store at 317 can move the tail backwards; the `continue` at 166
  still runs the loop's `scanHead++`, so the scan misses the first slot of the next
  buffer and a producer's elements can be reordered; with the
  only buffer full `dequeue` can return false although elements are set (203);
  after 2^32 claims `globalSize` wraps (283). Hence the condition of
  `SafeWithoutOverlap`, and the single buffer of the stronger run.
* `Executor`: `AddCPUTask` returns true for tasks that are never run after a
  shutdown, and `shutdown_` is uninitialised. `EveryTaskRuns` is about threads
  that started with it clear and are not shut down, in a process that `Start` did not end.
* `ThreadPool`: two Resets in a row before the workers register spawn too many;
  a `Shutdown` during a shrink is swallowed; `Reset(0)` recurses for ever, which
  `ResetTerminates` excepts. `orderly` and `down` state the conditions.
* `CopyFile`: a failed wait ends the copy with requests in flight; a requeued request is
  only prepared, so the loop may wait for ever;
  `copy_file` returns with writes in flight. `CopyReturns` is about runs with
  full transfers and `CopyExact` counts writes in flight with the right contents.
* `AsyncWrite`: a completion with an error is never consumed, and a short write
  never continued, so the reaper then does not end. main destroys the ring under a reaper
  that still waits; `BuffersSafe` is about the buffers only.
* `BTreeNode`: an insert into a full page is dropped without a sign; strings of
  256 bytes or more come back short; a string longer than the free tenth of the
  page would overwrite the offsets, which `RecordAssumption` excludes.
* `SocketServer`: a client that leaves before its answer ends the slave by SIGPIPE,
  and with it every connection; the socket file it leaves keeps it from starting
  again, and the master exits when it cannot connect; no descriptor is ever closed;
  one connection to the slave that sends nothing blocks all others; a message read
  in parts gets several answers; at the end of its input a client waits for an
  answer to nothing. `ServerStays`, `LockStep` and `EveryMessageAnswered` name these.
* `PerfCollector`: a `Reset` between the test and the lock of `StopLatency` makes an
  entry that starts at zero; the total of running CPU timers is negative, and is
  returned without a sign; the `name` argument of the totals is ignored. The totals
  read the maps without a lock: the model has them as functions of a state.
* `ReadBenchmark`: it returns with reads in flight and a total that lacks them; it
  counts bytes asked for, not bytes read; a refused submission can make it wait for
  ever; a file of 2 GiB or more is not read as such.
* `CoroutineDemo`: a detached thread that wakes early leaves callers that are never
  resumed, and the main thread then writes to a destroyed promise (`dangling`).
* `BufferCache`: more than `_pages` pages, or 2^32 bytes and more, give pages outside
  the array; `free` has no caller in the repository and is taken to be called for
  held pages only.

## 5. Proofs

Every theorem is about the specification TLC checks, for every value of the
constants that the modules' named `ASSUME`s admit; TLC evaluates those in the runs.
Each part has one inductive invariant, stated as the conjunction of named parts,
which TLC has confirmed on the instance of the run (the runs keep the properties only).

| Module | Theorems that state a run's property | Inductive invariant |
|---|---|---|
| `MyMpScQueue` | `RightListHolds`, `CountIsExactHolds`, `SetSlotsFrozenHolds`, `VerifyAlwaysSucceeds` | `IInv`, with `SetInv` for the last two |
| `MpScQueue` | `SafeWithoutOverlapHolds`; for one buffer `OrderedAndCompleteHolds`, `FifoContractHolds` (refinement), `FalseMeansEmptyHolds` | `UncontendedInv`, `OneBufferInv`, `WaitingFirst` |
| `SinglePCQueue` | `ExchangeIsSafeHolds`, `RingContractHolds` (refinement) | `IInv` |
| `ThreadPool` | `TidsAlwaysExact`, `PoolReachesSize` | `IInv` |
| `CopyFile` | `SqeAlwaysAvailable`, `TransfersStayInBuffer`, `CopyAlwaysExact` | `IInv` |
| `AsyncWrite` | `BuffersAlwaysSafe`, `ResumesAlwaysSafe` | `IInv` |
| `BTreeNode` | `PageAlwaysWellFormed`, `FindAlwaysExact` | `PageInv` |
| `Executor` | `AlwaysMostUrgentFirst`, `EarlyTasksAlwaysRun` | `RoundInv`, `ExecutorInv` |
| `SocketServer` | `ServerAlwaysStays`, `AlwaysLockStep` | `SocketInv` |
| `PerfCollector` | `TimesAlwaysSound` | `PerfInv` |
| `ReadBenchmark` | `TotalAlwaysAccounted` | `ReadInv` |
| `CoroutineDemo` | `ChainAlwaysResumed` | `CoInv` |
| `ObjectPool` | `PoolImplements` (refinement) | `PoolInv` |
| `BufferCache` | `PagesAlwaysSafe` | `CacheInv` |

**`MyMpScQueue`**, for any set of producers, `Capacity > 0` and number of claims.
`RightList` alone is not inductive: that the tail cannot leave a list with
unfinished claims follows from the count being exact, and the count is exact because
claims are distinct. Hence

    IInv == TypeOK /\ ClaimsDistinct /\ OnTail /\ RightList /\ CountIsExact

where `OnTail` says that a producer in its stores works on the current tail. The
step that moves the tail uses that a list whose count is `Capacity` has all its
indices claimed and counted (`FullList`, by cardinality). `SetSlotsFrozen` needs
in addition that a set slot belongs to a claim that is no longer written;
`VerifySucceeds` that every finished claim has set its slot, with its value, in a
list the tail has reached, and a bijection between the set slots and the claims.

**`MpScQueue`**, for any finite set of producers, any number of calls each and any
`NODE_SIZE`. All theorems assume `NoWrap`, fewer locations than an `unsigned int` has
values, which the code assumes too. `Common` is what the producers rely on: locations
are distinct and below `gTail` (`Claims`), the buffers are a chain that reaches as far
as somebody needs (`Chain`, `Reachable`), each producer in a call is on the side of its
location its place in the code says, with the right `prevSize` (`AllPlaced`), exactly the
slots of stored locations are set, each with its own value (`Contents`), and values are
stored at locations in the order of their calls (`Order`). Every step of `enqueue` keeps it,
given that the consumer frees only buffers at the head. The consumer's side comes in
three forms.

* `UncontendedInv`, for `SafeWithoutOverlap`. Next to a producer that
  alone has used the queue, all locations but its own are stored and its own is the last,
  so a set slot is found only when the head is set, too; with all producers outside a
  call, all locations are stored. So look ahead
  and second look neither scan nor fold (`AheadInv`), what was delivered is what is
  stored before the front (`FrontInv`), and a buffer is dropped when every producer is
  past it (`DropInv`). Buffers of one slot are a case of their own (`NoneAhead`): none is
  allocated ahead, so the look ahead never leaves a head that is not set. `Destroyed`
  follows the destructor. The theorem says nothing after the first overlap.
* `OneBufferInv`, for `OrderedAndComplete` and `FifoContract`, with all calls in one
  buffer (`OneBuffer`: `Total <= B`) and any number of producers overlapping.
  `ScanInv` is the point: a slot the scan has passed, from the head to
  the candidate `tn`, was not set when it was read, or was taken; its producer's call
  had not returned when the call that stored `tn` began, because `tn` was already
  set. So nothing that must come before `tn` is left when `tn` is taken. The refinement
  follows: a producer's earlier elements are in `before` of its later ones, so an
  element is taken only when it is the oldest of its producer, and once.
* `WaitingFirst`, for `FalseMeansEmpty`: an element that was in the queue at the call is
  at or after the slot the look ahead has reached, or the head is now set and will be
  taken. It needs a slot to spare (`SlotToSpare`: `Total < B`): in a full
  buffer the look ahead leaves at its edge without another look at the head
  (line 203), which is the behaviour named in section 4.

**`SinglePCQueue`**, for any `limit_ > 0` and any elements:
`IInv == TypeOK /\ RingShape /\ SizeTests`. `SizeTests` records that between its test
and its exchange each side's test can only have become more true; `RingShape` relates
`head_`, `tail_`, the number of stored elements (which `size_` lags behind) and the
full slots. The refinement maps the stored elements to the slots from the head on and
each exchange to the abstract store or removal. It says nothing of the caller of
`TryDequeue`, who does not get the element.

**`ThreadPool`**, for any finite set of thread ids. `Registered` says that `tids_`
holds the workers between their two critical sections and that `size_` counts them;
it is inductive alone. `ExactSize` needs `Resizing`, what `Reset` relies on while
it runs: the size it has read stays true since no worker is on its way to or from
the pool but those it starts or stops itself, and the live workers and those still
to be spawned add up to the size asked for.

**`CopyFile`**, for any file, block size and ring. `Places`: each block under way is in
one of the three parts of the ring, once, and the three lengths add up to
`reads + writes`, which is at most the depth; with the completion that is being
handled taken out there is an entry for a requeued one. `Lengths`: what is left of a
transfer is the end of its buffer. `LeftExact`: `write_left` is the number of units
not read, so the loop's end with nothing left means that all blocks were read.
`Smooth` is about copies without trouble: a block that was read is in its buffer and
then in the output.

**`AsyncWrite`**, for any files, pages and ring. `Places` puts each page in one
place, so that nothing is freed before its completion. That the reaper's total ends
it only when all is written follows from `Accounts`: total and bytes of a file count
the freed pages, and a file cannot lack more than all of them together. `Resumes`
says that a file that has reached its `size`, whatever that is, is queued for
resumption once.

**`BTreeNode`**, for any keys, strings and page that leave room for a record
(`RecordAssumption`, which the strings of `main.cpp` satisfy). `SearchInv` is the
invariant of both binary searches: the key is neither left of `low` nor right of
`high`. With it `insert` finds a place that keeps the array sorted (`PlaceInv`), and
a search that ends without the key shows that no record has it. `Room` keeps the
array and the records apart, `Offsets` makes them a bijection, `StoredExact` says
what the records are.

**`Executor`**, for any tasks, clients and vcores. `RoundInv`: a queue with work at
the beginning of a round keeps it until the round takes from it, since a vcore's
queues have one consumer. `ExecutorInv` (`AheadFirst`): each kHigh task that was
submitted before its caller's `Shutdown` is before the shutdown task in the queue,
or in the hands of the thread, or done; it starts from `shutdown_` clear, as
`EarlyTasksRun` does.

**`SocketServer`**, for any clients, sizes of messages, backlogs and limits. As long as
none of the events that `ServerStays` names has happened (`Untroubled`), the
descriptor of each connection is where the next call of master or slave needs
it. `OneAtATime` says for each client and its thread which of message, reading and
answer is under way: exactly one.

**`PerfCollector`**, for any threads, names and clocks. `ReadingsPast`: no reading of a
live thread's clock is ahead of it, so that a stopped timer is not negative;
`LatenciesMade`: what `StopLatency` has tested is still in the map or is `torn`. That
`DiffCpu`'s borrow is the difference of the two times is a lemma about division.

**`ReadBenchmark`**, for any file size, block and batch. `ReadsApart` and `ReadsGoOn`:
reads follow one another up to `file_offset`; `BytesAccounted`, modulo the width of
an `int`, and `ReadsCollected`, one completion per batch waited for, are the parts of
`TotalAccounted`.

**`CoroutineDemo`**, for chains of any length. `ChainInv` reads the whole state off the
places of the two threads: a coroutine the main thread has left is suspended until it
is resumed, those the detached thread has run are in `final_suspend` or destroyed, and
a callee knows its caller once the main thread has left the caller. **`ObjectPool`**: `PoolInv` says that the list visits distinct
objects and ends; a step changes it at its head only, which is lifted to the visited
objects by induction along the list. **`BufferCache`**: pages are made when all are
held, so `peak` is the number held and free, and each is held or in the list, once.

**Induction and sums.** Where an argument goes along a list or adds over a set, it takes the
least counterexample (`LeastElement`, from the library's well-foundedness of `<`)
instead of an induction rule, and the recursive functions behind `Visited` and
`MapThenSumSet` are used through their defining equation (`SumsExist`, `SumsAt`).

**Only model-checked** are the liveness properties, which are out of the prover's
reach: `EnqueueReturns`, `EventuallyDelivered`, `EveryTaskRuns`, `ShutdownReturns`,
`ResetTerminates`, `EveryFunctionRuns`, `ShutdownStops`, `CopyReturns`, `ReaperEnds`,
`EveryMessageAnswered` and `ReadReturns`. Every invariant, action property and
refinement that a passing run checks is stated by a theorem.

## 6. Order of the work

The queues came first, then the executor over them, the thread pool, the io_uring
programs, the B-tree page and the programs that stand alone; each was proved about
once its runs passed. What could be added is (1) a condition weaker than
`SafeWithoutOverlap`'s under which several producers may overlap `dequeue` across buffers, once the
lines named in section 4 are changed, and (2) the B-tree's splits once the code has them.

## 7. Not modelled

`skiplist.cc` and `workflow/` do not compile: there is no behaviour to model.
`study/*.py` are exercises. `test_direct_io.cc`, `fork_process.cc` and
`simple_child_process.cc` are system calls in a fixed order whose results are
printed; `base_error.*`, `smart_ptr_example.cc` and `move_copy_ref_perf.cc` keep no
state that outlives a call. The parts of `mpsc_benchmark/main.cc` about folly's
queue concern a library. In the B-tree, intermediate nodes, splits and `remove` are
stubs in the code. The test functions of `perf_collector.cc` are not modelled
either: they call what is.
