# Verification of modern-cpp-ds

TLA+ models of the concurrent structures, locks, allocators, containers and
algorithms of this repository, checked with TLC on small instances, and proofs
with TLAPS of what holds for every instance. Each definition is translated from
the code; where a comment of the code promises something, the promise is a
property, and five of these promises turn out not to be kept (see *Findings*).

## 1. The system

The repository is a collection of independent C++20 programs. There is no
process that uses all of them: the components below meet only in the sense that
several of them solve the same problem.

| component | state | operations | what is hard | what makes it correct |
|---|---|---|---|---|
| `mpmc_bounded_queue` (`mpmc_lockfree.cpp`) | cells with a sequence number and data, `enqueue_pos_`, `dequeue_pos_` | `enqueue`, `dequeue` | any number of threads on plain data guarded by numbers only; relaxed loads; spurious CAS failure | one owner per cell; a bounded FIFO; what is claimed is delivered |
| `exception::stack`, `mem_leak::stack` (`stack_lockfree.cpp`) | linked nodes, `head` | `push`, `pop` | CAS on a head that moves; a copy that throws | an atomic stack; lock freedom |
| `low_contention::stack` | the same, `threads_in_pop`, `to_be_deleted` | `push`, `pop` with `try_reclaim` | reclamation, reuse of addresses (ABA) | no use after free, each node in one place |
| `hazard_ptr::stack` | the same, an array of hazard pointers, `nodes_to_reclaim` | `push`, `pop`, the slot owner's constructor and destructor | a scan that is not atomic, threads that end | the same |
| `MPMC` (`mpmc_lock.cpp`) | ring, `in_`, `out_`, a mutex, two condition variables | `produce`, `consume`, `try_produce`, `try_consume` | `notify_one`, spurious wake-ups, exceptions, counters that wrap | FIFO; no lost wake-up; everybody ends |
| `SPSC` (`spsc_lockfree.cpp`) | raw storage, `head_`, `tail_` | `push`, `pop`, destructor | stale loads, placement new | objects constructed and destroyed once, in order |
| `thread_safe_queue` | a queue, a mutex, a condition variable | `add_elem`, `wait_and_pop`, `empty` | wake-ups, a move that throws | FIFO; all threads of `main` join |
| `threadpool` | job queue, `stop`, workers | `submit_job`, `do_work`, destructor | submissions, sleepers and shutdown at once | no job lost; all jobs run; the destructor returns |
| Peterson's lock, two versions (`peterson.cpp`) | `turn`, `interested` | enter, leave | interleaving of single reads and writes | exclusion, bounded waiting, progress |
| `prat::mutex` (`mutex.cpp`) | an `atomic_flag` | `lock`, `unlock` | a wait outside the test | exclusion, no lost wake-up |
| `fairlock::mutex` (`mutex.cpp`) | `ticket`, `turn` | `lock`, `unlock` | counters that wrap | exclusion, order of service |
| readers and writers (`reader_writer.cpp`) | two mutexes, `READ_COUNT` | reader and writer | the first reader locks for all | a writer is alone |
| `mempool` (`arena_allocator.cpp`) | `pool_`, `left_` | two `malloc`, `free` | alignment, constructors that throw | objects do not overlap and stay inside |
| `Pool` (`mempool.cpp`) | a free list in the chunks | `allocate`, `deallocate` | the link and the object share bytes | each chunk in one place |
| `vector` (`vector.cpp`) | `ptr_`, `size_`, `cap_`, a block of raw slots | the rule of five, growth, `push_back`, `pop_back`, `clear` | an allocation, a copy or a move that throws at any point | no shared block, objects in the first `size_` slots only, no block lost but the one a throwing call allocated; a sequence |
| `string` (`string.cpp`) | a union of bytes and a pointer, `len_`, `cap_` | four constructors | which member of the union is meant; a length used before it is set | it reads back its text |
| `Address_Lookup` (`memory_management_unit.cpp`) | `TLB`, page tables in memory | lookup, walk, retry | recursion, errors that are not thrown | a retry hits |
| branchless search, `inbubsort`, `memmove` (`prac.cpp`) | loop variables | one call | odd lengths, equal elements, overlap | the reference definition |
| `unique_ptr`, jthreads, language experiments | little or none | | | left out, see *Not modelled* |

`PROJECT.json` lists the components one by one, and under "hazards" the places
where the code is hard to test, with the properties that watch them.

## 2. The modules

| module | models | uses |
|---|---|---|
| `MpmcBoundedQueue` | `mpmc_bounded_queue`, one step per access to shared memory | `BoundedFifo` |
| `MpmcBoundedQueue_proofs` | its theorems | `Lemmas` |
| `BoundedFifo` | abstract: what a bounded queue promises | |
| `AtomicStack` | abstract: what a stack promises | |
| `StackNodes` | nodes, allocator, `push`, the loop of `pop` | |
| `LeakyStack`, `LowContentionStack`, `HazardStack` | the three ways to treat an unlinked node | `StackNodes`, `AtomicStack` |
| `LowContentionStack_proofs`, `HazardStack_proofs` | their theorems | `Lemmas` |
| `MpmcBlocking` | `MPMC` | `BoundedFifo` |
| `MpmcBlocking_proofs` | its theorems | `Lemmas` |
| `Spsc`, `ThreadSafeQueue`, `ThreadPool` | one component each | `BoundedFifo` |
| `Peterson`, `PetersonTweaked`, `PratMutex`, `TicketLock`, `ReaderWriter` | one lock each | |
| `Threads` | a program that uses `Spsc`, `ThreadSafeQueue`, `ThreadPool`, `LeakyStack` or one of the locks | these nine |
| `Threads_proofs` | the theorems of all nine | `Lemmas` |
| `Arena`, `ObjectPool` | one allocator each | |
| `Arena_proofs` | theorems of `Arena` | |
| `Vector` | `vector`, one step per call, exceptions inside | `SequenceValues` |
| `SequenceValues` | abstract: variables that hold sequences | |
| `String` | `string` | |
| `UpperBound`, `BubbleSort`, `Memmove` | the search, the sort, `memmove`: one step per round, template instance, byte | |
| `Sequential` | a program that uses one of the allocators, `vector`, `string` or one of the algorithms | these seven |
| `Sequential_proofs` | the theorems of all seven | `Lemmas` |
| `Lemmas` | no part of the code: lemmas about rings, sequences and linked nodes | |
| `Mmu` | `Address_Lookup` | |
| `...MC` | symmetry and sets for TLC | |

**Names.** Variables and actions carry the names of the source. `pc` is the
control of a thread; its labels name the next access. A thread's local variables
are functions over the threads. Actions called *Faulty variant* belong to no
next-state relation: each is the form its neighbour would have with a plausible
bug, and shows that the properties notice it.

**Grain.** In the lock-free structures one step is one access to shared memory;
under a mutex one step is what happens between lock and unlock, or a wait. What a
thread does to its own variables belongs to the step before.

**Memory orders.** The relaxed loads of `mpmc_bounded_queue` may return old
values when `StaleReads` is set: for a position any value the counter has had
since the thread last used it, for a sequence number any value the cell can have
held. This allows more than the memory model does. The acquire loads of `SPSC`
are stale in the same way. The stacks and Peterson's locks use sequentially
consistent operations (the default, and what `peterson.cpp` says it assumes).
The models assume C++20, where `std::atomic` is initialised by its default
constructor (`head` of the stacks is null at the start).

**Composition by choice.** The components that `Threads` and `Sequential` put
together never run together in the code. So each of these modules has a variable
`component`, set once in `Init`, that says which one the program uses; the
variables of the others rest. The fairness of a component is assumed when it is
the one in use. In the same way `HazardStack` chooses once which threads pop and
whether threads end (`popping`, `ending`), `MpmcBlocking` whether the try
operations are used, whether `make_shared` and whether `T`'s move assignment may
throw (`useTry`, `copyThrows`, `moveThrows`), and `Vector` whether moving an element may throw (`move_throws`): some properties
hold only without them, and say so.

### How the code maps to actions

- `enqueue`: `EnqueueCall` (load the position), `EnqueueSeq` (load the sequence
  number and compare: go on, answer false, or reload), `EnqueueCas`, its spurious
  failure, `EnqueueReload`, `EnqueueWrite` (the plain store of the data),
  `EnqueuePublish`. `dequeue` likewise.
- Stack `push`: `PushCall` (allocate, read the head), `PushCas`. `pop`:
  `PopCall`, `PopLoad`, `PopReadNext` (follow the pointer), `PopUnlink` or
  `PopMiss` (the exchange), then the component's own treatment of the node.
  `Delete` makes the address free, and `PushCall` may hand it out again.
- `low_contention`: `PopCount` reads `threads_in_pop`, `PopExchange` takes the
  pending list, `PopAlone` decrements and decides, `DeleteNodes`, `ChainLoad` and
  `ChainCas` treat the list, `DeleteOwn` and `PopLeave` the rest.
- `hazard_ptr`: `HpOwner` scans for a slot, `HpStore` and `HpValidate` announce
  and look again, `ScanOwn`, `ScanList` read one slot per step, `Exchange`,
  `KeepNode`, `DeleteNode` sweep the list, `ExitId` and `ExitPointer` are the two
  stores of `~hp_owner`. `add_to_reclaim_list` is one step, which is coarser than
  its loop: the loop puts a private element in front of whatever the list is.
- `vector`: one step is one call. `Fill`, `CopyConstruct`, `CopyAssign` and
  `PushBack` have a second disjunct in which a constructor throws, `BadAlloc` is
  any call whose `operator new` throws, `ReAllocThrows` the move inside
  `re_alloc`. A slot is `Raw`, holds a value, or is `Moved`; construction over an
  object, destruction of none and freeing a block with objects leave `Broken`.
  When the constructor of an element throws in a constructor of `vector`,
  `~vector` does not run: the block stays in `heap`, with the objects constructed
  so far, and no vector has it (`Forgotten`; the blocks of nobody are `Orphans`).
  `NothingLost` says which calls may leave one. That none does, as line 34 has it,
  is not so.
- `string`: writing one member of the union spoils the other. The length that
  `MoveShort` copies has no value yet and may be any: too small a one leaves the
  text unspecified. A copy of more bytes than the buffer has (`Overruns`, in
  `MoveShort` and in `Copy`) writes to memory that is not the string's; it sets
  `overrun`, and nothing is said of what happens afterwards.
- `MPMC`: `buffer_[mask(out_++)] = std::move(obj)` is `Put`, and `PutThrows` when
  the assignment throws: `out_` has then been incremented, the slot has what it
  held before, and `notify_one` is not reached. `ConsumeThrows` is the
  `make_shared` that throws before `in_++`.
- The algorithms are programs that call the function again and again on inputs
  chosen freely, with `given`, `call` for what the reference needs to remember.
- `Address_Lookup`: `callers` is the stack of its activations; where the code
  runs off its end the result is unspecified.
- Condition variables: a thread in `..._wait` or `asleep` moves only when
  notified or by `SpuriousWakeup`; a woken thread has to take the mutex again and
  evaluates the predicate again.

## 3. What the runs check

| run | instance | question |
|---|---|---|
| `MpmcBoundedQueue_safety` | 2 producers, 2 consumers, 2 cells, 2 values, stale loads; enqueues start below position 3 | is a cell ever shared, is `IInv` an invariant, is it a FIFO? |
| `MpmcBoundedQueue_delivery` | the same threads and cells, current loads | what does "false" mean, and is everything delivered? |
| `LowContentionStack_safety` | 3 threads, 3 addresses, 2 values | is reclamation by counting safe? |
| `HazardStack_safety` | 3 threads, 3 addresses, 2 slots, 2 values | is reclamation by announcing safe? |
| `HazardStack_exit` | 3 threads that pop and may end, 2 slots | finding: it is not when threads end |
| `MpmcBlocking_safety` | 2 + 2 threads, 2 slots, counters modulo 4, 5 items, with and without try operations and exceptions | FIFO, no lost wake-up, everybody ends? |
| `MpmcBlocking_try` | 2 + 2 threads, 2 slots, 4 calls of each kind, the same choices | finding: a thread sleeps beside what it waits for |
| `Threads_all` | `SPSC` with 3 slots and 8 pushes; 3 + 3 threads of `main`; 3 workers, 2 clients, 3 jobs; a leaking stack with 2 threads, 3 nodes, 2 values; Peterson's 2 processes; 4 threads on a mutex, tickets modulo 4; 3 readers, 2 writers | objects, order, wake-ups, shutdown; exclusion, order of service, progress |
| `PetersonTweaked_exclusion` | 2 processes | finding: both are inside |
| `Sequential_all` | an arena of 30 bytes with least alignment 4, three types; 4 chunks; 2 vectors of at most 3 elements in 3 blocks; 2 strings of at most 3 characters, `SSO_LEN` 2, 2 blocks; 4 elements to sort; arrays of at most 6; 5 bytes | is memory handed out twice, is a block lost, is a vector a sequence, a string its text, do the algorithms meet their references? |
| `Vector_strong` | the same vectors | finding: `re_alloc` gives no strong guarantee |
| `Mmu_retry` | 2 pages, 4 nested calls | finding: the retry misses |

**Bounds, and why they are enough.** Two cells and three enqueues or more make
the counters go round the buffer, so that owners of different rounds meet at one
cell; two threads of a kind compete for a position, and `IInv` is proved for any
number. Three threads are what ABA and the slot hand-over need: one that holds
an old pointer, one that frees, one that allocates. `Node` bounds the nodes alive
at once and forces reuse. Counters that wrap in the code wrap in the model where
the arithmetic depends on it (`Modulus` in `MpmcBlocking`, and in `TicketLock`,
where it is as small as the number of threads). `MaxPos`, `Quota` and
`MaxOvertaken` bound what would grow for ever. `MaxEnding` keeps the program that
shows the hand-over bug of `HazardStack` out of the run that checks the rest: at
most two threads pop when threads end. `LeakyStack` never frees a node, so only
which node is which matters and the allocator's answer is fixed. Three elements
take a vector through capacities 0, 1, 2 and 4, so that it grows empty, full and
with room left; the third block is what an assignment needs beside its operands.
`MaxLen` is one above `SSO_LEN`, and the text of exactly `SSO_LEN` characters is
the boundary. Arrays up to six have every parity of length that halving meets.
Five bytes allow every kind of overlap with a remainder on both sides.

**Refinement.** `ImplementsFifo` and `ImplementsStack` say that each step of the
structure is a step of the abstract one, or none, under a mapping that gives the
linearisation points: an enqueue acts at its CAS (its value is then the
producer's parameter until it is written), an SPSC push at the store of the tail,
its pop when it moves the object, a pop of a stack at its CAS.

**The answer false.** `EnqueueRefusal` and `DequeueRefusal` say that the
structure is full or empty, or that the owner of the one cell in question is not
finished, or, where loads may be old, that the sequence number which was read was
older than the cell's (`EnqueueBehind`, `DequeueBehind`). In the second case `dequeue` says false although items that were
published later wait behind, while the comment of `mpmc_lockfree.cpp:111` says
"Queue is empty". TLC checks them with current loads, where the third case cannot
be; they are proved with stale loads as well.

**Fairness.** Threads inside an operation keep running: weak fairness of their
steps, the holder of a lock unlocks, jobs and copies return. Callers need not
call, except where `main` does (`MpmcBlocking`, `ThreadSafeQueue`) and except for
the consumers of `Delivered`, who poll. Strong fairness is assumed for
`compare_exchange_weak` alone: a loop that tries again and again is not answered
by a spurious failure each time. No spurious wake-up is ever assumed to come, and
mutexes are not assumed to be fair beyond weak fairness of the critical section
that a thread waits to enter.

**Findings.**

1. `~hp_owner` (`stack_lockfree.cpp:193`) gives the slot up before it clears the
   pointer. A new owner may announce a node in between; the announcement is then
   erased, and a third thread deletes the node that is about to be followed. The
   comment at line 305 says that no other thread sees it.
2. `try_consume` (`mpmc_lock.cpp:92`) notifies nobody, so a producer in `produce`
   may sleep for ever beside a buffer that is not full. `WaitsEnd` says it of both
   kinds of thread, and it fails for consumers as well, by exceptions. When the
   move assignment throws (line 66), `out_` has been incremented and nobody is
   notified: what the slot held before is an item now. When `make_shared` throws
   (line 78) in a consumer that was notified, the item stays and no other consumer
   is told. Either way one may sleep beside an item, although it waits "until
   atleast 1 item" (line 72). The FIFO order survives both.
3. The tweaked Peterson lock (`peterson.cpp:31`) sets the turn after testing it:
   mutual exclusion, claimed to be preserved at line 19, does not hold.
4. `re_alloc` (`vector.cpp:234`) moves elements whose move may throw. When it
   does, some elements of the vector are moved from, although lines 32 and 230
   claim exception safety, and the new block is lost, although line 34 wants "no
   resource leak"; the TODO at line 235 names the remedy. With moves that
   do not throw (as `trace`'s), `ImplementsSequences` shows the guarantee for all
   other exceptions.
5. `TLB_Insert` (`memory_management_unit.cpp:96`) is empty, so the retry that
   is to "definitely hit 100%" (line 185) misses, and the lookup never ends.

Seen while modelling, and not run: a constructor of `vector` whose element throws
(`vector.cpp:70`, `77`, `86`) never frees its block, against line 34 (the model has
the block; `NothingLost` allows this loss and that of `re_alloc` only); moving a short `string`
(`string.cpp:43`) copies `len_` bytes before `len_` is set, and copying a long one
that was moved from (line 31) copies as many bytes as it once had, both past
`sbuf_` if need be (the model records it in `overrun`); no block of a `string` is
ever freed; `vector`'s `operator==` compares capacities; `push_back(v[0])` reads the
element after `re_alloc` has freed it; `main` sorts an array of 5 with
`inbubsort<5,0>`, which touches 6 elements; the search writes the last element
when none is greater, and reads outside the array when it is empty;
`permission_check` wants an odd permission byte and `Can_access` an even one, so
that an entry the walk admits would be refused in the TLB, and `main` passes a
page number that is shifted once too often; `Pool(0)` writes before its array;
`~mempool` frees aligned memory with the unaligned `operator delete`; the pending
nodes of `low_contention::stack` wait for a thread that is alone in `pop`, for
ever if none comes; a copy of `T` that throws in `mpmc_bounded_queue` (lines 84 and
117) leaves its cell claimed and never published; `thread_safe_queue::empty` returns
whether the queue is *not* empty; a job that submits after `stop` ends the
program through `do_work`; a chunk whose constructor throws is lost to the pool.

## 4. What is proved

TLAPS checks the following for every value of the constants that satisfies the
assumptions named, where TLC has checked one. All the invariants, action
properties and refinements of section 3 that are not liveness are theorems.

### The lemmas

`Lemmas` has what several proofs need. `SetInduction` says that a set which
contains 0 and with each number the next contains all; it follows from the
counting of finite sets, and it is how these proofs do induction without an
operator as a parameter. `RingInjective` and `RingOnto` say that the positions of
one round name every slot of a ring buffer once. `Path(null, link, first, s)`
says that `s` is the list that starts at `first`; `FollowIs` says that `Chain`,
which the models define by following `next`, finds it, and `PathCons`,
`PathTail`, `PathJoin`, `PathKept` say what a list is after a node was put in
front or taken away, after two lists were joined, and after a node that is not on
it has changed.

### The queues

- `MpmcBoundedQueue_proofs`: `IInv`, `CellExclusive` and `ImplementsFifo`, for any
  threads and any capacity that the constructor's assertion admits, with stale
  loads or without; and `EnqueueRefusal` and `DequeueRefusal`, likewise: what a
  refusal means if the number read was current, with the case that it was behind
  the cell's left open only under `StaleReads`. `CellExclusive` is not
  inductive: that the next step keeps owners apart depends on the sequence
  numbers. `IInv` adds
  (a) the *window*: `dequeue_pos_ <= enqueue_pos_ <= dequeue_pos_ + Capacity`;
  (b) what the sequence number of each position in the window may be;
  (c) that an owner's position lies in the window and its number is frozen;
  (d) that a CAS which will succeed still sees the number that the thread read.
  The positions from `dequeue_pos_` up to `dequeue_pos_ + Capacity - 1` name every
  cell once, so owners of different positions own different cells. A stale number
  that lets a thread go on is equal to the current one, because numbers of a cell
  only grow: this is what (b) gives in the step of `EnqueueSeq`. The refinement
  needs `DataInv` besides, which says what a published cell holds.
- `MpmcBlocking_proofs`: `TypeOK`, `ConsumersAwake`, `ProducersAwake`,
  `ImplementsFifo`, for any threads and sizes, spurious wake-ups, exceptions and
  counters that wrap included. `IInv` is the types, the kind of call a thread can
  be in, and the two wake-up invariants: a put adds one item and wakes one
  consumer. These have hypotheses, and the code needs them: `ConsumersAwake` that
  nothing throws, `ProducersAwake` that `try_consume` is not called
  (finding 2, both). What the ring holds is not in `IInv` but in `ImplementsFifo`: the
  items leave in the order they came, each once; unless an assignment throws they
  are what was produced, and the put that throws brings what its slot held. The
  assumption is that the counters count modulo a multiple of the size.
- `Threads_proofs`: `SlotInv` and `ImplementsFifo` of `SPSC`, for any capacity and
  with stale loads; `ImplementsFifo` of `thread_safe_queue`; `JobsCovered` and
  `JobsKept` of the pool. `SpscInv` looks at one whole round of positions: a slot
  holds an object exactly if its position is between head and tail, up to the step
  that the producer or the consumer is in. `JobsKept` assumes that there is a
  worker: `threadpool(0)` destroys its queue with the jobs in it.

### The locks

`Threads_proofs`, too: `Exclusion`, `BoundedWait` and `ServedInOrder` for any
number of threads where the code admits more than two, and `NoLostWakeup` of
`prat::mutex`. Exclusion of Peterson's lock needs that a process which is inside
while the other waits has been given the turn; order of service needs that the
tickets held are the next ones from `turn` on, modulo `Modulus`, each once, which
is where the assumption that the threads are no more than the modulus is used;
that a writer is alone needs `READ_COUNT` to be the number of readers that have
counted themselves.

### The stacks

- `Threads_proofs`: `OwnNodes` and `ImplementsStack` of the leaking stacks.
  `StackInv` is that there is a path from `head`, of nodes in use, and no thread's
  own node is on it. A node that a popping thread has seen keeps its `next` while
  it is on the list, since it is never unlinked and put back.
- `LowContentionStack_proofs`: `TypeOK` (which no run repeats), `NoUseAfterFree`, `EachNodeOnce`,
  `ImplementsStack`, without further assumptions. The invariant says of every
  node in which one of five places it is: free, in the stack, in `to_be_deleted`,
  a thread's own, in the list a thread has taken. The argument is
  that a node which a thread in the loop of `pop` still points to is *kept*: in
  the stack or pending, or with somebody who unlinked it and has not yet asked
  whether he is alone, or who has asked and will put it back. Whoever may delete
  has counted `threads_in_pop` after unlinking, when no thread in the loop was
  there but he; one that enters afterwards starts from `head`, where his nodes are
  not. This also settles ABA: an address cannot come back to `head` while a thread
  that read its `next` is in the loop.
- `HazardStack_proofs`: `TypeOK` without further assumptions, and for
  `MaxEnding <= 2` `NoUseAfterFree`, `DeletedUnseen`, `EachNodeOnce` and
  `ImplementsStack`. The places are the same. A thread that has looked at `head`
  again is *guarded*: its slot announces the node, and the node is with nobody who
  has already looked into that slot and means to delete it (`Kept`): a sweep that
  has it stands at a slot not beyond. Where threads never end, this is all, for any
  threads and slots. Where they do, the assumption is needed: `~hp_owner`
  gives its slot up first and clears the pointer then, so it may clear what the
  next owner has announced; the run `HazardStack_exit` shows what follows with
  three. With two threads, `Alone` covers it: the thread whose announcement is
  gone is then the last that pops, and the one that cleared it deletes no more.

### The single-threaded parts

`Sequential_proofs` and `Arena_proofs`:

- `PlacesOfTheirOwn` (arena): for any sizes and alignments and any order of calls,
  constructors that throw included. The bound on `pool_ + left_` survives a
  constructor that throws because `left_` only shrinks. `ArenaSafe` says it of the
  component alone.
- `EachChunkOnce` (object pool): the free list is a sequence of chunks, each
  linked to the next, and they are those that are neither used nor lost.
- `SlotsInOrder` (`vector`): no block is shared, and in no block, of a vector or
  lost, is anything `Broken`. The invariant adds the types. Each call has to be
  looked at for what is destroyed and freed, which is what `AllDestroyed` and
  `Freed` say. The slots' marks must differ from each other and from values.
- `NothingLost` (`vector`): a call that returns leaves no block without an owner,
  and one that throws at most a block it has allocated itself. It follows call by
  call (`Lossless`) from the same invariant: the only pointers a call gives up are
  those it has freed or handed on.
- `ImplementsSequences` (`vector`): where the element's move does not throw, a call
  acts on a sequence or throws and has changed none. It uses the same
  invariant and, call by call, what is in the first `size_` slots of the block.
- `TextKept` (`string`): for texts of any length, until a buffer is overrun; it
  does not speak of strings that were moved from, nor of one made by moving a
  short string with too small a length, which reads back what happens to be there.
- `Sorts`, `Finds`, `Moves`: for arrays and ranges of any length. The sort keeps that what lies above the pass is the largest, in
  order; the search that all before `i` are not greater and all from `i + len` on
  are; `memmove` that the bytes of the source which are still to be read have not
  been overwritten, which the direction of the copy decides.

### What stays with TLC

Liveness and fairness (`Delivered`, `Termination`, `EveryoneFinishes`,
`EveryJobRuns`, `LockFree`, `EveryoneServed`, `DeadlockFree`) are beyond the
prover. So is `ENABLED`. The five findings are counterexamples, and nothing is
proved of `Address_Lookup`, whose one property fails. The bounds `MaxPos`,
`Quota`, `MaxSize`, `MaxLen` and the like are constants of the models: the
theorems hold for each value of them. Finiteness of `Node` and of the sets of
threads is assumed where something is counted.

## 5. Not modelled

- The wrap of `size_t` in `mpmc_bounded_queue` and `SPSC`: it takes 2^64
  operations. (`head < tail` in `SPSC::pop` would not survive it.)
- `optimised_spinlock::mutex` has no `unlock`; `futex_lock` is one system call.
- `unique_ptr`: `reset` and the destructor call `call_deleter`, which is a member
  of `compressed_obj` and not of `unique_ptr`, so that no use of it compiles.
- The iterator concepts in `iterator_support.cpp` do not compile either; the rest
  of the iterator notes is overload resolution by the compiler.
- jthreads (a constructor and a destructor around `join`), `trace` (it logs),
  language experiments, traits, the other scratch programs: no state.
- What `Address_Lookup` computes of an address: it loads from host addresses, and
  with `TLB_Insert` empty it never returns one.
- A copy of `T` that throws in `mpmc_bounded_queue`: the thread has claimed its
  cell and never publishes it, so that the queue stops there for ever. The models
  assume copies that return.
- The call `inbubsort<5,0>` of `main`, which goes one element past its array:
  `data` has the `Top + 1` elements that the template goes through.
- `push_back` of an element of the vector itself, `pop_back` of an empty vector,
  the search in an empty array: left to the caller.
- The destructors of the two allocators, which free everything at once.
- That `std::mutex` forbids the unlock by another thread, on which
  `reader_writer.cpp` relies; the model lets it take effect.

## 6. Plan

1. *Done*: all components with state that compile, as above.
2. *Done*: theorems for every safety property and every refinement that a passing
   run checks.
3. Left: an invariant of `Address_Lookup` worth proving, such as what its
   activations agree on; for `HazardStack` the weakest condition on threads that
   end under which the announcement is safe (two poppers suffice, three do not, but
   three of which only one ends has not been looked at); `StrongGuarantee` of
   `vector` as an action property where moves do not throw.
