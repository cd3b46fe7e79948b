# A TLA+ model of k

`k` (andrew-pa/k) is a kernel for ARMv8 written in Rust: preemptive threads, an
executor of asynchronous tasks, processes that talk to the kernel through shared
queues, virtual memory, PCIe, NVMe and FAT. This directory holds its
specification in TLA+, the TLC runs that check it on small instances, and TLAPS
proofs about the parts everything else rests on. `PROJECT.json` maps every
definition to the lines it models.

## Inventory

### How the kernel runs

There is one core. Four kinds of code share it:

| context | level | interrupted by |
| --- | --- | --- |
| user threads | EL0 | timer, devices, their own faults and system calls |
| the task executor, thread 1, with the task it polls | EL1 | timer and devices |
| the idle thread, thread 0 | EL1 | timer and devices |
| exception handlers | EL1, interrupts masked | nothing |

Tasks give way to each other only at `await`; a handler can run between any two
instructions of the executor or of a user thread, and finishes before anything
else runs. A handler that needs something the interrupted code holds therefore
waits for ever. This is what makes the code hard, and hard to test.

### Parts, state, operations, and what makes them correct

| part | state | operations | correct when |
| --- | --- | --- | --- |
| shared queues (`kapi/src/queue.rs`) | head, tail, stamps, slots, in memory shared with user space | `post`, `poll` | a FIFO of bounded size, slots never shared, calls return |
| command dispatch (`process/mod.rs`, `exception/handlers.rs`) | send queues of a process | `dispatch_new_commands` in every handler | the handler comes back |
| semaphore, mutex, rwlock (`tasks/locks.rs`) | counter, queue of wakers; number of readers | `wait`, `wait_blocking`, `try_wait`, `signal`; `read`, `write`, `try_*`, guards | permits conserved, writers alone, no wake through a dead pointer |
| scheduler (`process/thread/scheduler.rs`) | three queues with an index each, the current thread | `schedule_next_thread`, `add_thread`, `remove_thread`, `make_task_executor_current` | only ready threads run, each of them in turn, the search ends |
| executor (`tasks/mod.rs`) | new-task and ready queues, map of tasks | `spawn`, `wake`, `run_forever`, `block_on` | no task is forgotten |
| processes and threads (`process/*.rs`) | tables, thread lists, exit states with wakers, queues | nine commands, eight system calls, page faults | an exited thread never runs, its exit is told once and truly, dead processes leave the table |
| concurrent list and map (`ds/*.rs`) | linked nodes, pool of nodes to free | `push`, `remove`, `iter`, `get`, `insert` | no lost element, no freed node in use |
| physical and virtual allocators, page tables (`memory/*.rs`) | bitmap, free lists, tables | `alloc_contig`, `try_alloc_contig`, `reserve`, `free`, `map_range`, `unmap_range`, `mapped_copy_from` | a page and an address have one owner, none is lost, both sides of a queue see the same pages |
| memory of a process (`process/mod.rs`, `commands.rs`, `spawn.rs`) | regions, queues, next queue id | `load_segment`, `HeapAllocate`, `HeapFree`, queue commands, `Process::drop` | the same, through every path that allocates or frees and every failure half way |
| kernel heap (`memory/heap.rs`) | free list, size | `alloc`, `dealloc`, `increase_heap_size` | blocks tile the heap, data is aligned and fits |
| block cache (`storage/block_cache.rs`) | chunks and their metadata | `copy_bytes`, `write_bytes` | a chunk holds what its tag says; a read returns the last write |
| NVMe (`storage/nvme`) | rings, cursors, phase tags, pending completions | set up, `read_blocks`, `write_blocks`, interrupt | every command is answered once and wakes its task |
| registry, FAT (`registry`, `fs`) | tree of handlers; volume parameters | `register`, `find_handler`; `mount`, `open_file`, `load_pages` | right handler, right blocks |
| interrupt controller, MSI-X (`exception/gic`, `bus/pcie/msix.rs`) | free message interrupts, enable, pending; vectors | `alloc_msi`, `ack_interrupt`, `finish_interrupt`; `write`, `set_mask` | an interrupt raised is an interrupt handled |
| boot, UART, timer, device tree, PCIe scan | registers | set up | not modelled: straight-line I/O |

They interact like this: user code posts a `Command`; the next handler
(`handle_interrupt`, `handle_synchronous_exception`) polls the queue and spawns
one task per command; the timer makes the executor run; the task changes the
tables, spawns, watches or kills threads, and posts a `Completion`. Exits run
either in a handler (the `Exit` call) or in a task (kill, page fault), take the
same locks, and wake the tasks that watch. Loading a binary goes through the
registry to the FAT driver, which reads directories and its table through the
block cache and file contents past it; both lock the store, put a command in the
submission ring and await a future that the interrupt handler completes.

The hazards, each at its line, are listed in `PROJECT.json`.

## Modules

| module | models | built on |
| --- | --- | --- |
| `BoundedFifo` | what a queue promises: a FIFO whose operations take effect at one instant | |
| `ArrayQueue`, `MCArrayQueue`, `ArrayQueueProofs` | `kapi/src/queue.rs`, one action per access to shared memory | implements `BoundedFifo` |
| `CommandDispatch` | a handler that polls a send queue | extends `ArrayQueue` |
| `Semaphore`, `SemaphoreProofs` | `Semaphore` and `Mutex`, one action per access to the counter or the waker queue | |
| `RwLock`, `TableProofs` | `RwLock` and its guards | two instances of `Semaphore` |
| `Scheduler`, `SchedulerProofs` | `ThreadScheduler`, one action per call | |
| `ConcurrentList`, `TableProofs` | `ds/lists.rs`, one action per atomic access of the executor, handlers in between | |
| `TaskExecutor` | `Executor`, its queues and loops | |
| `Processes`, `ProcessesProofs` | commands, exits, watchers, tables, handlers, power off | instances of `Scheduler` and `TaskExecutor` |
| `PhysicalMemory` | the bitmap allocator | |
| `VirtualAddresses` | the free list of address ranges | |
| `PageTables` | `memory/paging.rs` | extends both |
| `AddressSpace`, `MCAddressSpace`, `MemoryProofs`, `AddressSpaceProofs` | the memory of the kernel and of a process through all its operations | extends `PageTables` |
| `Heap`, `HeapProofs` | the global allocator | |
| `NvmeQueue` | submission and completion rings, PRP lists | |
| `InterruptController` | message interrupts and the MSI-X vector | |
| `Nvme` | set up of the controller, the interrupt handler, completion futures | extends both |
| `BlockCache` | chunks, eviction, write back, cut at each `await` | extends `Nvme` |
| `Registry` | paths and the tree of handlers | |
| `FatVolume`, `MCFatVolume` | `mount`, directories, `load_pages`, and the composition of all storage modules | extends `BlockCache` and `Registry` |
| `MCTasks` | instances of `Semaphore`, `Heap` and `Processes` for TLC | extends the three |
| `MCStructures` | instances of `ConcurrentList`, `RwLock` and `AddressSpace` for TLC | extends the three |

Notes on how state and actions correspond to the code:

* **ArrayQueue.** `pc`, `pos`, `arg` and `res` are the local variables of a
  caller. `Step` is the loop bodies of `push_or_else` and `poll`, cut at each
  atomic access and at the two accesses to the slot's value. Positions are
  integers modulo `Laps * OneLap`, the code's `usize`. One core makes accesses
  sequentially consistent, so memory orderings are left out. Backoff only waits.
  `compare_exchange_weak` may fail spuriously.
* **Semaphore.** A process is a `WaitFuture` or a thread in `wait_blocking`.
  `asleep` joins the two forms of wake-up: the thread's `AtomicBool`, and the
  absence of the task from the ready queue. `Cancel` drops a pending future; its
  waker stays in the queue, as in the code. A future that is polled again while
  its first waker is queued would queue a second one; that is left out, and so
  is the question whether a signal spent on such a waker is missed by a sleeper.
  `Signal(h, p)` gives back the permit
  of `h`: in an `RwLock` the last reader returns what the first one took.
* **Scheduler.** A call is one step, under the scheduler's lock. Indices count
  from 0 as in the code. `stuck` records that the loop over waiting threads has
  passed the point where `skips` underflows: a panic in a debug build, an
  endless loop in a release build.
* **ConcurrentList.** Calls of the executor are cut at every access to shared
  memory. A handler's call is one step, and a handler that iterates matters only
  when it is the last reader and frees the pool. Accesses of the executor that no
  handler's call can tell apart are one step (`AtHead`). `live` is what is allocated;
  `present` is a history variable, changed by the compare-exchanges that link and
  unlink.
* **TaskExecutor** has no specification of its own. `Processes` uses its actions
  and supplies what a poll does. `AddNewTask` inserts in the map and pushes on the
  ready queue in one step: only the executor looks at either. `overflow` stands for the two panics on a full
  queue.
* **Processes.** A handler is one step: it pauses the thread, serves the event,
  dispatches the commands of the process it interrupted and resumes. The task
  that is polled takes one step per lock it takes and per effect others can see.
  `held` is the set of spin locks of the executor; `Hang` is a handler that
  spins on one of them. A task is a record of what it is for and where it is;
  the `Arc`s a task holds are `Keeps`, and `Alive` is whether a `Weak` can be
  upgraded. The shared queues are sequences here, `ArrayQueue` being checked
  separately, and reading a binary from disk is one wait for an interrupt.
  The tables are sets, `ConcurrentList` being separate too, and `RemoveVictim`
  takes a thread out of the scheduler and of the table in one step, although a
  handler can run between the two: only tasks look user threads up in the table.
  Commands that only concern queues and memory are in `AddressSpace`.
* **PhysicalMemory, VirtualAddresses, PageTables** are operators on the state
  they are given: each method of the code runs under a lock of its own, in one
  step. A physical address is a page number; a virtual address is in bytes and
  a size in pages, as in the code, because `reserve` mixes the two. A page table
  is a function from `<<level, index>>` to an entry, which is the tree of the
  code with the path to an entry read as one number; `Fan` is its 512. `Span` is
  the number of pages below an entry of each of the four levels, a table of
  products and not a power, so that the provers can compute with it.
* **AddressSpace.** The executor has one job at a time and can be interrupted
  between any two critical sections of it; `HeapAllocate`, `HeapFree` and the
  free of a stack are handlers, one step each. `kernel = "spinning"` is a handler
  that waits for the mutex of the interrupted executor, `"panicked"` an `assert`
  or `expect` that fails. `failed` remembers that an allocation failed half way,
  or mapped over pages that were mapped (segments that overlap, or addresses of a
  segment that `reserve` has left in the free list), after which pages may be
  lost. A region is freed whole and once; `HeapFree` would take any pointer, and a
  stack can be freed twice (`Processes`). The spin locks of the bitmap and of the
  kernel's addresses, taken with interrupts enabled, are left out: a handler that
  meets one held hangs, as it does on the mutex that is modelled. Making a process, and allocating or dropping a
  kernel buffer, are one step: no handler looks at the kernel's table or list,
  and the changes to the bitmap commute with those of handlers.
* **Heap.** Addresses are bytes. The free list is a sequence; the intrusive links
  the code threads through free memory are its order. A call of `alloc` or
  `dealloc` takes one step for each time it locks the list. `ctx` is what the
  executor and a handler that interrupts it are doing; the executor stands still
  until the handler is done. `Lock` enters a section of the executor, so that a
  handler can find the lock taken and spin.
* **NvmeQueue, Nvme.** A pair of rings is a record, with the driver's cursors and
  those of the controller, which is external: it takes commands in order, in its
  own time, and answers them, with success or (`MaxFaults` times) with an error
  and no data moved. It transfers one block more than a command says, since the
  code's number of blocks is not zero-based as the device takes it; where the
  pointer of that block is unset, it goes to page 0. A full ring and a lack of
  message interrupts are panics, as in the code; neither is reached. The boot is
  one step per command and its answer. An interrupt takes one completion, as
  `handle_interrupt` does. `set_config` of the interrupt controller writes the
  bits the code writes, which are those of another interrupt; nothing here
  depends on them.
* **BlockCache.** Each `await` is a label of the task, and `running` is the task
  that is being polled, so that code between two awaits is not interleaved with
  other tasks while handlers and the device go on. The mutex around the store
  lets a waiter in whenever it is free; that a waiter is woken is part of the
  fairness of the run and not a result of `Semaphore`, which checks safety only.
  Two variables are history. `truth` is the disk as if every write had gone
  through. `audit` keeps book of where the cache breaks its own rules: `spoiled`
  are the blocks it answers for no longer, `misled` the tasks that were given
  bytes it does not answer for, and why, `users` the tasks that have called it.
  A block is spoiled by the extra block of a write back, by a write to a chunk
  that is in the cache and not dirty or was not loaded, and by a load that has
  waited for the store while another task changed the metadata it had looked at.
* **FatVolume.** What the code takes apart byte by byte is an item: a partition
  table, a boot sector and a directory entry are records looked up by the item,
  and an entry of the FAT is the item itself. Offsets in bytes are offsets in
  items.

## Runs

| run | module | result | states |
| --- | --- | --- | --- |
| `queue` | `MCArrayQueue` | holds | 89 thousand |
| `dispatch_in_handler` | `CommandDispatch` | `HandlerReturns` violated | |
| `scheduler` | `Scheduler` | holds | 750 |
| `tasks` | `MCTasks` | holds | 1.8 million |
| `exit_watch` | `Processes` | `ExitIsNoticed` violated | |
| `structures` | `MCStructures` | holds | 0.87 million |
| `list_removers` | `ConcurrentList` | `TraversalsAreLive` violated | |
| `reserved_range` | `MCAddressSpace` | `ReservedStays` violated | |
| `dropped_mappings` | `MCAddressSpace` | `DroppedIsUnmapped` violated | |
| `mapped_copy` | `MCAddressSpace` | `MappedIsCopied` violated | |
| `storage` | `MCFatVolume` | holds | 56 thousand |
| `cache_writes` | `MCFatVolume` | `EjectedIsWritten` violated | |

`tasks` and `structures` check three components each that share no state. The
variable `part` says which of them runs in a behaviour; the other two stay in
their initial state. The behaviours of the run are those of the three components,
one after the other, and a property of one of them means what it means alone. The
only symmetry is of the futures of the semaphore and of the lock, and of the
threads that block on the semaphore: sets that occur nowhere else and are only
quantified over. No run with symmetry checks liveness. Deadlock is checked where
the component cannot stop: the list and the semaphore. The others may take a step
that changes nothing, because a machine that is off, hung or in a panic, a bound
on the operations, or an `RwLock` (below) may stop them.

* **queue.** `SlotExclusive` (nobody else is in a claimed slot), `IsFifo` (the
  queue implements `BoundedFifo`: order, no loss or duplication, true answers)
  and `CallsReturn`. Two slots, four laps and four calls, starting at position
  13, the last before the counters wrap: the first post already crosses the end of
  the lap and the wrap. One process posts and polls. The n-th
  call posts the n-th value, so elements are all distinct.
* **dispatch_in_handler.** `HandlerReturns` fails: the interrupt arrives after a
  user thread's compare-exchange on `tail` and before its stamp is stored. The
  handler's `poll` sees a queue that is not empty and a slot that is not
  published, and spins; the thread cannot run until the handler is done.
* **tasks, semaphore.** Two permits, two futures, two threads, so that permits are
  contended and two waiters sleep at once. `MaxWakers` bounds the stale wakers of
  dropped futures. `NoDanglingSignal` is the safety comment of
  `SemaphoreWaker::wake`.
* **tasks, heap.** A heap of two pages of eight bytes that grows to five, up to
  three live allocations, four layouts that exercise rounding, padding, splitting,
  and growth. `HeapIsTiled` (every byte is in one block, the free list is sorted),
  `DataFitsBlock` (alignment, bounds, and the header leads back to the block),
  `SizesNeverOverflow`. Three bits of padding stand for the code's eight.
* **structures, lock.** Two futures and a thread. `CountIsExact` ties the reader
  count to the guards that exist and to `write_mutex`. Deadlock is not checked:
  with steps of several processes freely interleaved a waiter can read 0, miss the
  signal and then queue its waker (`locks.rs:70-76`). On one core this takes a
  handler that signals in between.
* **scheduler.** Three user threads that come, block and go, no thread of
  priority High (the kernel makes none). `ReadyThreadsRun` is round robin:
  although `remove_thread` leaves the index of a shortened queue alone, a ready
  thread is run.
* **tasks, processes.** Two processes, two user threads, two commands, small queues
  (so that overflows happen), with handlers between any two steps.
  `ExitedNeverRuns`, `FirstExitStays`, `PendingHasWaker`, `ReadyIsKnown`,
  `DeadLeavesTable`, `KillIsComplete`. Two commands are enough for a kill
  beside a spawn, a watch beside a kill, and two kills; two threads for a
  process of two threads, or two processes of one, and for a spawn that finds no
  thread left: a kill is one of the two commands, so it never finds a third. The
  theorems of `ProcessesProofs` have no such bound.
* **exit_watch.** `ExitIsNoticed` fails: `ExitFuture::poll` finds no code, the
  timer interrupts, the watched thread calls `Exit`, which stores the code and
  drains the wakers, and then the waker is pushed. The watcher is never polled
  again.
* **structures, list.** Three nodes, three keys, five pushes: nodes are freed and their
  addresses used again. `TraversalsAreLive`, `ListIsExact` (nothing lost, nothing
  twice, `remove` misses nothing), `PoolDrains`. `Regimes` says which context
  removes from a list. The run covers the lists with one: the queues of a
  process (`destroy_queue` in tasks, handlers only iterate), and a table of
  threads that only end by `Exit`.
* **list_removers.** Tasks (kill, page fault) and handlers (`Exit`) both remove
  from `THREADS` and `PROCESSES`. `remove` is not counted as a reader, so the
  handler's `remove` frees the node that the interrupted one has just loaded.
* **structures, memory.** Nineteen pages, seven pages of addresses in the kernel and
  in the process, tables of two entries, five operations: enough to load a binary,
  create a queue in two pieces, have a handler allocate in between, destroy the
  queue and drop the process, with memory running out at every step of it. The
  binary has two adjacent segments, so `reserve` takes the branch of
  `virtual_address_allocator.rs:74` and leaves part of the second segment in the
  free list; later allocations are made there. `OnePageOneHolder` (no page is
  handed out twice or freed while a table, a buffer or the process uses it; the
  kernel's mapping of a queue is a second view and no holder), `NoPageLost` (all
  of it comes back unless an allocation failed half way or mapped over a page),
  `QueuesAreShared` (process and kernel see the same pages of a queue in the same
  order, under an id that a wrapped counter does not issue again),
  `AddressesDisjoint` (free blocks, regions, queues and buffers; the segments are
  the subject of `reserved_range`), and `CopyIsExact`: a copy succeeds just when
  every byte is mapped, it starts in the first page of a region and a region
  follows the last one it reads, and then it has read the bytes mapped there.
  Blocks happen: with `Fan = 2` a block is two pages. `IdBits = 2` makes the queue
  ids wrap.
* **reserved_range.** "These addresses will not be returned from `alloc()`"
  (`virtual_address_allocator.rs:49`) is false once a binary with two adjacent
  segments is loaded: `block.address.add(page_count)` adds pages to bytes.
* **dropped_mappings.** `Process::drop` says that it cleans up the kernel's mapping
  of the queues and that a later use faults (`process/mod.rs:312-314`). It gives
  the addresses back and frees the pages; the kernel's table still maps them.
* **mapped_copy.** "The whole range must be mapped, or an error will occur"
  (`paging.rs:570`), and an error also occurs when it is: when the copy ends in the
  last region of the table, since `Ok` is only returned when the iterator yields
  one more (`paging.rs:619-645`), and when it starts inside a block (594).
  `CopyIsExact` says that these are the only two cases.
* **storage.** A disk of 46 blocks with a partition table, FAT, a root directory
  and a directory of two clusters in which the entry comes last; eight chunks of
  cache, which the directory shares with the FAT; an I/O ring of two entries, four
  command ids, PRP pages of three entries. Four volumes: a sound one, one with a bad
  partition table, one with a bad boot sector, and one whose root directory takes
  one cluster. Six workloads:
  * `TwoLoads`: two tasks that load files at the same time;
  * `Paths`: loads from the sub directory, of missing files, past the end of a file,
    from an unknown path and from one that makes the code panic;
  * `Misses`: writes to chunks that are not in the cache, evictions and reads back,
    copies that start in a chunk and end in the next, which is not loaded
    (`block_cache.rs:225`), and one that ends in a chunk number that is out of range
    (199);
  * `CleanWrite`: a write to a chunk that is in the cache and clean, its eviction, and
    a slice that ends behind the buffer (242);
  * `OneChunk`: two tasks that write and read different blocks of one chunk;
  * `LoadAndWrite`: writes beside a load by another task, with a read that takes the
    chunk of the FAT.

  The properties say what is right in spite of all this, and name what is not.
  `CacheIsCoherent`: a block that is not spoiled is in its chunk as the callers
  left it, or, if the chunk is not there or not dirty, on the device.
  `AnswersAreExact`: a load returns the file's clusters, computed from the layout of
  FAT16 and not from the driver's formula; a read returns the last write; nothing is
  written outside the destination but the first block of page 0, where the extra
  block of a read goes. Excepted are loads from the volume with the short root
  directory (`fat/mod.rs:155`), and tasks that were misled: given bytes of a spoiled
  block, of one behind the chunks loaded, or of a chunk that another task was
  replacing. The last never happens to a task that is alone at the cache.
  `JobsAreAnswered`: every job ends, or the code panics on it as its `panic` says.
* **cache_writes.** One volume, one task: a block is read, written and ejected.
  "The cache will write the blocks back to the underlying storage when they are
  ejected from the cache" (`block_cache.rs:246`) is false, because a write to a chunk
  that is in the cache does not mark it dirty (162, 184). Only tests call
  `write_bytes` at this commit.

`Processes` also reaches states that no document of the repository rules out and
that are therefore recorded as hazards only: the machine hung because a handler
needs a lock of the executor; a panic on a full new-task, ready or completion
queue; a thread's stack freed twice when it exits while a kill has it on its
list; a thread started in a process whose exit has been announced; and a process
left in the table by a failed spawn.

### Fairness

* `queue`: every caller inside a call keeps taking steps. This holds for threads
  scheduled round robin (run `scheduler`), and not for a caller interrupted by a
  handler that polls the same queue, which is what `dispatch_in_handler` is about.
* `dispatch_in_handler`: the handler, having the core, keeps running.
* `scheduler`: the timer keeps interrupting; its handler rearms it each time.
* `storage`: the controller answers what it was given, a pending interrupt is
  taken, and every task that can go on is polled: the executor's loop pops the
  ready queue in order and the run `scheduler` shows that the executor itself is
  run. A task that waits for the store's mutex is polled once it is free: `signal`
  wakes a waiter, and the two tasks of the run leave no stale waker there, as
  neither is dropped. Spurious wake-ups are not assumed.

The other runs check safety only.

## Proofs

| module | theorem | statement |
| --- | --- | --- |
| `SemaphoreProofs` | `TypeCorrect` | `count` stays in `0..Permits` |
| | `Conservation` | `PermitsConserved` |
| | `Mutex` | with one permit, one holder at most |
| | `SignalIsValid` | `NoDanglingSignal` |
| | `SleepersKnown` | `SleepersAreQueued` |
| `TableProofs`, of `RwLock` | `TypeCorrect` | both semaphores and the count are well formed |
| | `WriterExcludes` | `WriterAlone` |
| | `CountExact` | `CountIsExact` |
| `SchedulerProofs` | `TypeCorrect` | threads are queued at their own priority |
| | `OnlyReadyRun` | `CurrentIsReady` |
| | `SearchEnds` | `NeverStuck` |
| | `QueuedOnce` | no thread is in its queue twice |
| `ArrayQueueProofs` | `TypeCorrect` | counters and stamps are positions of the ring |
| | `SlotsExclusive` | `SlotExclusive` |
| | `Refinement` | `IsFifo`: the queue implements `BoundedFifo` |
| `ProcessesProofs` | `TypeCorrect` | tables, tasks and queues are well formed |
| | `ExitedStops` | `ExitedNeverRuns` |
| | `PendingWakes` | `PendingHasWaker` |
| | `ReadyKnown` | `ReadyIsKnown` |
| | `DeadLeave` | `DeadLeavesTable` |
| | `KillComplete` | `KillIsComplete` |
| | `FirstExit` | `FirstExitStays`, an action property |
| `HeapProofs` | `TypeCorrect` | the heap stays in its range, its list well formed |
| | `HeapTiled` | `HeapIsTiled` |
| | `DataFits` | `DataFitsBlock` |
| | `NeverUnderflows` | `SizesNeverOverflow` |
| `TableProofs`, of `ConcurrentList` | `ListTypeCorrect` | links, pool and locals are well formed, one reader is counted |
| | `TraversalsLive` | `TraversalsAreLive` |
| | `ListExact` | `ListIsExact` |
| | `NothingLeaks` | `PoolDrains` |
| `AddressSpaceProofs` | `TypeCorrect` | both page tables, the job and the process are well formed |
| | `PageHolders` | `OnePageOneHolder` |
| | `DisjointAddresses` | `AddressesDisjoint` |
| | `SharedQueues` | `QueuesAreShared` |
| | `NoneLost` | `NoPageLost` |
| | `ExactCopies` | `CopyIsExact` |

`TableProofs` has the proofs about both structures that the kernel's shared tables
are made of. `MemoryProofs` has the lemmas about the operators and loops of the
memory modules, on which `AddressSpaceProofs` is built. What a module needs about
quotients, remainders and least elements is proved at its beginning, from the
division algorithm on. Every inductive invariant below was checked by TLC on the
instance of its run before it was proved.

* **Semaphore.** For any finite sets of futures and threads and any positive
  number of permits. The inductive invariant adds two facts to the properties.
  `SeenPositive`: a process about to compare-exchange has seen a positive count,
  so the decrement stays in range and conservation survives it. `WakerOnce`: a
  thread has at most one waker in the queue; without it, using one waker could
  leave another behind that points into a frame which is then free to return.
  Counting the holders uses the cardinality of a finite set with one element
  more or less.
* **RwLock.** For any finite sets of futures and threads. Each step is a step, or
  none, of each of the two semaphores, so both satisfy the invariant of
  `SemaphoreProofs`, instantiated twice. What is added is `PlaceInv`, where a
  process can be in each semaphore given where it is in the lock, and
  `ReaderInv`: the first reader is alone until it has `write_mutex`, and from
  then on exactly one process has it on behalf of all readers. That process need
  not be a reader any more, which is why holding is not tied to reading.
* **Scheduler.** For any threads. The inductive invariant adds `TaskReady`: the
  executor is in the Normal queue and ready. It is what makes the search end
  while no thread is High. The comment in the code credits the idle thread, which
  is never looked at while the Normal queue has threads. The search is a
  least-element argument: the first ready index after `next`, modulo the length
  of the queue. `Once` is what `remove_thread` needs: after it a thread is gone.
* **ArrayQueue.** For any capacity, any finite sets of posters and pollers, any
  values, and counters that wrap around. Positions skip numbers at the end of a
  lap and start again at 0, so the proof counts differently: every position has
  an ordinal modulo `M = Laps * Capacity`, and the invariant `IInv` says that
  there are unbounded counters `H <= T <= H + Capacity` and one for each caller's
  copy, whose ordinals the positions are. In these counters the stamps say which
  slots are claimed, written and free (`Good`), a copy is never ahead of its
  counter, and a compare-exchange that succeeds had the current one. This is
  where `WidthAssumption` is needed: `MaxCalls + Capacity < M`, fewer calls than
  a counter can tell apart. The code has no other protection, with 64 bits it
  needs none; a caller that slept while the counter came round would be fooled.
  The refinement maps a call to `BoundedFifo`'s by the place it is at: it takes
  effect at its compare-exchange, or at the second read of the other counter when
  it answers that the queue is full or empty. `OneLapAssumption` says that the
  power of two computed for `OneLap` is a number above the capacity, which the
  provers cannot see through exponentiation; TLC evaluates it.
* **Processes.** For any processes, threads, commands and queue limits. A task
  gives up the executor only where it answers Pending, so of all tasks only the
  one in poll is in the middle of something (`TaskInv`); handlers come between
  any two of its steps. `MakeInv`: nobody knows a thread that is being made, so
  none can make it exit before it is scheduled. `VictimInv` and `ThreadInv`: the
  scheduler does not know a thread past `x_remove`, and nobody puts it back.
  `AccountInv` and `KillInv`: a thread is a member of its process until its exit
  is told, and a kill has all members on its list, whoever leaves meanwhile; this
  gives `KillIsComplete`. `FreedInv` bounds how often a stack is freed: twice,
  when a thread exits or faults while a kill has it on its list, and never three
  times. `AnswerInv` and `RecvInv` carry the exit code from the exit state through
  tasks into completions. What happens inside the scheduler is taken from
  `SchedulerProofs`, instantiated. Assumptions: the ids of processes, threads and
  the two kernel threads are distinct, `Nil` is none of the values it stands
  beside, and capacities are numbers.
* **Heap.** For any word, page and heap sizes with pages made of words, any
  number of allocations, any layouts. `IInv` speaks of pairs of blocks (`ApartInv`)
  and of single bytes (`CoverInv`), from which the count of `HeapIsTiled` follows;
  the free list is sorted for all pairs and not only neighbours, so that no
  induction over the list is needed. Sizes, not only addresses, are multiples of a
  word: this is what `NeverUnderflows` rests on. The end of a block is a multiple
  of a word that lies beyond header, padding and data, and rounding up finds the
  least such number (`AlignOffsetLeast`). `AddFreeJoins` shows that
  `add_free_block` keeps the list sorted whichever neighbour it merges with, and
  that merging only with the first loses nothing. `PaddingAssumption` says that
  no alignment is above 256 (`2 ^ PaddingBits`). `alloc` does not check this and
  cuts the padding to eight bits; no type of the kernel is aligned that far.
* **ConcurrentList.** For any keys, any finite memory and any number of pushes,
  under `OneRemover`: each list is removed from by the executor or by handlers,
  not by both. This is a hypothesis of the theorems and not an assumption of the
  module, because the code does not keep to it: the table of threads breaks it,
  and there `TraversalsAreLive` is false (run `list_removers`). `IInv` says that
  the list is a sequence of distinct nodes (`Chained`), so a step is a node in
  front (`Cons`) or a node less (`Cut`) and no induction over links is needed;
  `ChainIsSequence` relates the sequence to the chain that the model follows, by
  the least index at which they could differ. `LiveInv`: an allocated node is in
  exactly one of the list, the pool and the executor's hands. `ReaderInv`: while
  the executor reads, the nodes of the pool lead to the list or to the pool, so
  an iterator left behind on removed nodes finds its way back without meeting a
  freed one. `CallInv`: the cursor of `remove` is at a position of the list, and
  what it has passed has other keys.
* **AddressSpace.** For any number of pages, fan-out, page size, binary, numbers
  of pages asked for and width of the queue ids, with memory running out
  wherever it may. `map_range`, `unmap_range`, `alloc_memory`, `load`,
  `Process::drop` and `mapped_copy_from` loop, and a loop is a fold here.
  `IterSteps` turns a fold into the function of its rounds and `Induction` is
  the least counterexample, so what a loop does is proved round by round from an
  invariant of its own (`MapLoop`, `UnmapLoop`, `AllocOK` and `AllocMapped`,
  `LoadMapped`, `CopyLoop`): which entries it wrote, that pages outside its
  range look up what they did, which pages it took from the bitmap, and the same
  when it gives up half way. Five invariants of the system rest on these lemmas,
  each with one lemma for every action:
  * `PhysInv`: types, and the parts of memory (what the kernel booted with, the
    root of the process, what a job has in its hands, the process's tables and
    pages, the kernel's tables, buffers) have no page in common. No two entries of
    a table lead to the same page (`EntriesApart`); without it, unmapping one
    range could free pages of another. It gives `TypeCorrect` and `PageHolders`,
    with no hypothesis: whatever the ranges of addresses do, a page has one holder.
  * `ShareInv`: in each address space the free blocks and the ranges in use, also
    those a job holds between two of its steps, are pairwise apart, and in the
    kernel's aligned to pages. `free` merges with a neighbour only where the two
    meet, and `alloc` cuts a block in parts that are apart. `reserve` may leave a
    block that is unaligned and overlaps the segment, but not one that overlaps
    another block: between any two blocks of the list lies a page boundary
    (`Fenced`), and what `reserve` leaves stays inside the boundaries of what it
    cut.
  * `MapInv`: what is in use is mapped in every one of its pages and, in a queue, to
    the same pages on both sides; what a job has so far mapped is told by its step.
    Needs `ShareInv`: mapping one range leaves the others alone because they are
    apart. The addresses of a process need not be aligned, as `reserve` has
    moved a block by bytes; `map_range` refuses such a range, so whatever has a page
    mapped is aligned.
  * `IdInv`: ids are below the next one, or the counter has wrapped, after which
    none is issued.
  * `FullInv`: until an allocation fails half way or maps over a page, every page in use is in one of
    the parts. Here a loop must be shown to leave nothing out: a destroyed queue
    gives back exactly the pages it was mapped to, and what `map_range` takes for
    tables stays reachable from the root.

  `CopyIsExact` needs of these only `PhysInv`, that the table is a tree: the
  regions its iterator yields are then apart and in order, each round of
  `mapped_copy_from` reads up to the end of one of them, and a gap between two is
  noticed when the next one does not start where the last one ended. For the other
  direction, that a copy which may succeed does, the rounds follow the range: while
  bytes are left the next page is mapped, its region is the next of the iterator
  (`NextRegion`), and when none are left a further region is there to end the loop.

  Nothing is supposed of the binary, which `load_segment` does not check either:
  segments may be adjacent, start the address space or overlap. What this costs is
  in the properties: segments are no ranges of `AddressesDisjoint`, and `NoPageLost`
  ends where pages are mapped over. The assumption on `IdBits` says that its power
  of two is a number above one, which the provers cannot see.

Only model-checked:

* liveness (`CallsReturn`, `HandlerReturns`, `ReadyThreadsRun`,
  `JobsAreAnswered`): fairness is outside the reach of the prover;
* the modules of storage (`BlockCache`, `FatVolume`). `CacheIsCoherent` and
  `AnswersAreExact` compare what the disk holds with what the calls wrote, through
  chunks, PRP lists, FAT chains and directories: compositions of folds over the
  layout of a disk, each of which would need its loop unrolled as above. These
  two and their type invariant stay with TLC.

## Not modelled, and the plan

Left to do, in order:

1. Proofs: the coherence of `BlockCache`, from the bottom up as for `AddressSpace`.
2. `Processes` composed with `AddressSpace`: a stack freed twice, the queues that
   `spawn_process` makes, the parameter buffer of a new process.
3. `CHashMap` (`ds/maps.rs`), whose shards are behind `RwLock`s.

Left out, with the reason:

* `RwLock::try_read`: nothing calls it, and it breaks `WriterAlone` (a refused
  call keeps its increment of the count); it is a hazard in `PROJECT.json`.
* `PageTable::physical_address_of`: a debugging aid whose own comment says it is
  wrong for blocks; `mapped_copy_to` and `flush_pages` are `todo!()`.
* `BlockCache::update_bytes`: nothing calls it. Blocks larger than a page.
* The spin locks held across an `await` by the registry and by the interrupt
  controller's users: they are held only while no other task needs them in the
  boot sequence that is modelled.
* Register access of devices (GIC, PCIe, UART, timer), parsing of the device tree
  and of ELF, the scan of the PCIe bus, logging, saving and restoring registers
  and the exception vectors: straight-line input and output.
* The user programs (`init`, `api_tests`), whose behaviour the models allow as any
  sequence of commands.
