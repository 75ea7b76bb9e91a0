# Verification of the operating-systems exercises

The repository holds four independent C++ programs. This directory models the three that
have state worth reasoning about, the user-level threads library (Ex02), the map-reduce
framework with its barrier (Ex03) and the paged virtual memory (Ex04), model-checks them
with TLC, and proves with TLAPS the safety of all three, for any number of threads, any input
and any memory sizes: among others that the signal mask makes the scheduler's calls atomic,
that the barrier is one in every round, that the framework computes map-reduce, that paging
is invisible, and that the search for a frame finds the right one.

## 1. Inventory

| Part | State | Operations | Modules |
|---|---|---|---|
| uthreads (`Ex02/uthreads.cpp`, `thread.cpp`) | ready queue, list of threads, id table, running thread, thread pending deletion, quantum counters, per-thread state, sleep flag and context, the signal mask | `time_handler`, spawn, terminate, block, resume, sleep, getters | `UThreads`, `UThreads_proofs`, `MCUThreads`; step by step, with the signal mask, `UThreadsSignals`, `UThreadsSignals_proofs`, `MCUThreadsSignals` |
| Barrier (`Ex03/Barrier.cpp`) | mutex, condition variable, counter | `barrier()` | `Barrier`, `AbstractBarrier`, `BarrierDemo`, `Barrier_proofs` |
| MapReduce (`Ex03/MapReduceFramework.cpp`) | packed atomic state (stage, total, count), claim counter, a vector per thread, the vectors before and after the shuffle, the output, one mutex, one Barrier | `startMapReduceJob`, `getJobState`, `waitForJob`, `closeJobHandle`, `emit2`, `emit3`, the threads' map, sort, shuffle and reduce | `MapReduce`, `AbstractMapReduce`, `MapReduce_proofs`, `MCMapReduce` |
| Virtual memory (`Ex04/VirtualMemory.cpp`) on simulated RAM and swap file (`PhysicalMemory.cpp`) | RAM words (tables and pages alike), swap file | `VMread`, `VMwrite`, inside them `translate_address`, `find_frame`, `search_frame`, `PMevict`, `PMrestore` | `VirtualMemory`, `VirtualMemorySearch`, `AbstractMemory`, `PageArithmetic_proofs`, `PageTree_proofs`, `VirtualMemory_proofs`, `VirtualMemorySearch_proofs` |
| Memory latency benchmark (Ex01) | none that outlives a loop turn | a sequential measurement | not modelled |
| Atomic demos, `DoNotRunThis.cpp`, plots, data, Makefiles | - | - | not modelled |

How they interact and what is hard about each:

* **uthreads** runs all threads in one kernel thread. The only concurrency is the timer
  signal, which is blocked during a call and during the handler; a tick can fall between
  any two calls. The mask is part of the context a jump restores, so it has to be right in
  every context: one thread that resumes with the signal open, or starts with it blocked, is
  enough. What is hard besides is the protocol over a long sequence of calls: the queue is
  popped blindly on the assumption that its head is the running thread; a sleeping thread
  that is blocked and resumed must be queued once; a thread that terminates itself cannot
  be freed on its own stack; ids are reused at once. Correct means: the queue lists exactly
  the runnable threads, nothing freed is used, round robin is fair, quantums are
  counted, and no tick ever finds a call half done.
* **MapReduce** threads share the job through two atomics, a mutex and the barrier; the
  client polls and waits from its own thread. Phases are kept apart only by the barriers,
  and vectors that several threads append to only by the mutex. Correct means: every key is
  reduced once with all its pairs, whatever the interleaving; the progress a client reads
  is sound; the job ends.
* **The barrier** is reused by threads that may be a round ahead of others. Correct means
  that it is a barrier in every round and that nobody is left waiting.
* **Virtual memory** is sequential, but a walk changes the tree it walks on: making room
  for one level may reclaim a table or evict a page. Correct means that paging is invisible:
  a read returns the last word written, wherever the page has been in between.

## 2. How the models correspond to the code

Definitions keep the source's names (`time_handler`, `sleep_check`, `block_handler`,
`getJobState`, `find_offset`, `calculate_bits`, ...). Each module's mutants, definitions
commented "Mutant of ...", are not used by the specification: each is a plausible bug in
the definition it follows, with which the property it belongs to fails.

**UThreads.** One action per API call and one for the tick, because signals are blocked
for the length of each. Thread objects are addresses of a small heap (`Obj`), so a pointer
to a freed object and an address allocated twice can be seen. A call that returns -1
changes nothing and is a stuttering step. `Dispatch` is `siglongjmp`: a thread whose
context was saved by a handler (`saved`) goes on in the else branch of `sigsetjmp` and frees
the pending thread; a new thread enters its entry point and frees nothing. Ints wrap at
`MaxInt`, so the decrement of a zero sleep counter goes where it goes in the code. The order
in which sleepers wake is the order of `all_threads`. `uthread_terminate(0)` is the one call
in two actions, as it opens the signal mask before `exit(0)`. `delete *it` after
`erase(it)` reads the pointer that was erased, as the allocator of the build leaves it.

**UThreadsSignals.** `UThreads` assumes that calls are atomic; this module shows it. It
extends `UThreads` with the signal mask (`blocked`), a pending SIGVTALRM, the mask saved in
each context (`masked`) and the next step of the running thread (`at`, `call`). A call is
taken apart into steps (`KillUnqueue`, `KillErase`, `QuitUnqueue`, ...). A step is one
statement that changes a structure, or a few neighbouring ones that nothing can come between
because the mask is closed over all of them; `new thread` and its `push_back` are one step, so
are the fields a sleep sets. `Enter` and `Leave` are the two forms of `unblock_signals`,
`Refuse` is every early return and every getter. `SaveContext` is `sigsetjmp`, which saves the
mask in force; `construct` empties it; `Switch` is `siglongjmp`, which restores it. The timer
may expire at any step (`Raise`); the signal stays pending while it is blocked and is
delivered before the next step once it is not (`Deliver`). `before` is auxiliary: the library
as it was when the call began. `Seen` is the library as its clients see it, `before` in the
middle of a call; it is what the refinement mapping uses. What `time_handler` interrupts is
not kept: `MaskMatchesCode` says that it is user code.

**Barrier, BarrierDemo.** `at[t]` is the synchronisation call that thread t is about to
return from; the wait set of the condition variable is the threads at `"wait"`.
`pthread_cond_wait` gives up the mutex and joins the wait set in one step and takes the
mutex again in another. A spurious wakeup is an action of its own that only `PosixSpec`
includes. `BarrierDemo` is `barrierdemo.cpp` with `Rounds` in place of its two calls.

**MapReduce.** A step of a thread is one access to shared memory: an atomic operation, half
of a `push_back` (the place is read, then the element is written and the length set), a step
of the barrier, which is an instance of `Barrier`, without spurious wakeups: with them a
thread can pass the barrier early, and the phases are no longer kept apart (finding
`barrier_spurious`). `reset_counter` is two steps. What a
thread does to its own vector is part of a neighbouring step. A pair is its key together
with the `emit2` call that made it, so that a lost or doubled pair shows: no vector of
vectors has an element at two places (`NoneTwice`), and together they have the pairs emitted
(`Elements`). `std::sort` leaves equal keys in any order, so `SortVector` is any permutation
that sorts (`Sorts`). `count_elements` is the number of places in the vectors. The percentage
is abstracted to `"full"`, `"nan"` or `"part"`.

**VirtualMemory.** One step per turn of the loop of `translate_address`, so that the
invariants also hold between two levels of a walk. `find_frame`'s three cases are the actions
`TakeEmptyTable`, `TakeUnused` and `Evict`. The search is stated by sets of nodes of the page
tree. `VirtualMemorySearch` has `search_frame` itself, with its out-parameters (`Results`) and
its early stop, and compares the two: a recursive function on the number of levels below the
node, `search_page` at the last level and `search_table` above it, with the loop over the rows
(`search_rows`) as a recursive function on the row. `aborted` is a failed assertion of
`PMevict`. Address arithmetic is that of the code for any widths, including an address width
that `OFFSET_WIDTH` does not divide. The shifts `1LL << n` are the recursive function `Pow2`,
which can be reasoned about; the exponentiation of the standard modules cannot, as the provers
have no theory of it. Words and addresses are unbounded integers; the code stores page numbers
(`pageIn`, `VirtualMemory.cpp:158`), frame numbers and distances in a `word_t`, so the model
is the code's for the widths with which they fit one, among them those of `MemoryConstants.h`
(16 bits of page number in an `int`).

**Abstract specifications.** `AbstractBarrier`: nobody leaves a round before all entered it.
`AbstractMapReduce`: the output holds one result per key, and closing waits for all.
`AbstractMemory`: a flat array of pages; a page nobody has used settles on arbitrary
contents. Each is checked as a PROPERTY of the detailed module under a refinement mapping
(`IsMultiUseBarrier`, `ImplementsMapReduce`, `ImplementsMemory`). `UThreads` is in turn the
abstract specification of `UThreadsSignals` (`CallsAreAtomic`).

## 3. Runs

| Run | Instance | What it shows |
|---|---|---|
| `uthreads_safety` | 4 addresses, 3 ids, sleeps of 0 and 1, ints of one bit, symmetry on addresses | `TypeOK`: among the rest, no id is handed out when all are taken; `QueueDiscipline`, `IdTable`, `NoDanglingThread`, `MainStaysQueued`, `NoOvertaking`, `QuantumAccounting` over all sequences of calls and ticks |
| `uthreads_liveness` | 3 addresses, 3 ids | a queued thread is run, a sleeper wakes |
| `uthreads_sleep_count` | ints of two bits | **violated**: a quantum that starts because a thread blocks, sleeps or terminates does not count for sleepers, against `uthreads.h:89` |
| `uthreads_sleep_zero` | sleeps of 0 and 1 | **violated**: `uthread_sleep(0)` sleeps until the int wraps, against `uthreads.h:83` |
| `uthreads_leak` | 4 addresses | **violated**: of two threads that terminate themselves one after the other, the first is never freed, against `uthreads.h:49` |
| `uthreads_exit` | 2 addresses | **violated**: a tick just before `exit(0)` runs the scheduler on emptied lists, against `uthreads.h:50` |
| `uthreads_signals` | 3 addresses, 3 ids, sleeps of 1, ints of one bit, the main thread at a fixed address | `MaskMatchesCode`: the signal is blocked exactly while a call or a tick is half done; `CallsAreAtomic`: the library implements `UThreads`; `TicksKeepComing`: no call, jump or early return leaves the signal blocked for good |
| `barrier` | 4 threads, 3 rounds | `OneRoundAtATime`: a fast thread is never two rounds ahead; `NoEarlyReturn`; it is a multiple-use barrier and nobody is stuck |
| `barrier_spurious` | 2 threads, 2 rounds, spurious wakeups | **violated**: a spurious wakeup passes the barrier, against `Barrier.h:5` |
| `mapreduce` | 2 threads; an empty input, two items sharing a key, an item that emits nothing | map-reduce is computed, progress is sound and monotone, the job ends; `JobTypeOK`: `at()` always finds an element; `ClaimsBounded`: the claims of a stage pass the end of its vector at most once per thread |
| `mapreduce_poll` | 2 threads, no pairs, a client that polls for 100% | **violated**: 0/0 is never 100, so the loop of `SampleClient.cpp:85` does not end |
| `vm` | 2-bit offsets, 7-bit addresses (3 levels, 1 bit at level 0), 8 frames, 4 pages that would need 10 frames, one address out of range | paging is invisible; the page tree, the walk and the swap file stay consistent; pages are evicted only when they must be; the depth-first `search_frame` finds the frame the model chooses, in every memory reached |

Why the bounds are enough to meet the interesting cases:

* *uthreads*: three live threads are the least for one to overtake another; a fourth address
  lets a thread that waits for deletion coexist with three live ones and with a new one at a
  reused address. A one-bit int makes every counter wrap and makes the sleep counter pass
  zero; the runs about sleeping use two bits, so that a wrap is not taken for an end. Symmetry
  is used only in the safety run.
* *uthreads_signals*: three addresses let one thread terminate itself or another, and a third
  reuse the address, with the tick at any statement of either. A thread's address does not
  matter to the library, so the main thread has a fixed one; symmetry proper cannot be used,
  as the run has a liveness property.
* *barrier*: three rounds let a fast thread be one round ahead while slow ones leave the last;
  four threads give three that leave in any order.
* *mapreduce*: two threads already race for every claim, append and barrier. A third takes the
  instance out of TLC's reach; the proofs are for any number. The inputs make both threads map
  both items or one all of them; the vector of a thread can be unsorted before its sort, with
  a key split in it.
* *vm*: eight frames for a tree that would need ten force all three cases of `find_frame`,
  tables that become empty by an eviction, and pages that go and come back. `Words` include
  the frame numbers, so that a page's contents look like a table. The offset width does not
  divide the address width, so level 0 uses one bit only.

**Fairness.** `uthreads_liveness` assumes weak fairness of the tick: `ITIMER_VIRTUAL` is
periodic and counts the CPU time of the process. `block_handler` and `terminate_handler`
restart the timer, so threads that keep switching can put off the tick, but not for ever: each
switch moves the queue, the main thread is always in it (`MainStaysQueued`, proved), and a
quantum of the main thread ends only with a tick, since it cannot block, sleep or terminate
without ending the process. It assumes also that the program keeps computing and that
`exit(0)` is reached. That a tick which is due is also delivered is not assumed but shown by
`uthreads_signals`, from weaker assumptions: the processor goes on executing the library's
statements and delivers a pending signal that is not blocked, and the timer is periodic
(`Fairness` of `UThreadsSignals`). User code need not do anything. The barrier and map-reduce
runs assume weak fairness of each thread, i.e. that the kernel schedules it. Nothing stronger
is assumed of the mutexes: each thread takes one a bounded number of times, so a waiting
thread ends up alone with it. The client of `mapreduce` is not assumed to call `waitForJob`,
and polling alone does not make the job end.

**Assumptions on the constants.** `VirtualMemoryAssumption`: a frame holds at least two words
and fits in the RAM, and there is more than one page. `EnoughFrames`: more frames than table
levels. The code does not check it (`MemoryConstants.h` gives 64 frames for 4 levels); with fewer,
`find_frame` has nothing to evict and hands out frame 0, the root.

## 4. Proofs

`UThreads_proofs` proves, for any heap, any `MAX_THREAD_NUM`, any int range and any sleep
arguments:

| Theorem | States |
|---|---|
| `TypeCorrect` | `Spec => []TypeOK` |
| `QueueDisciplined` | `Spec => []QueueDiscipline` |
| `IdsIdentify` | `Spec => []IdTable` |
| `NoUseAfterFree` | `Spec => []NoDanglingThread` |
| `MainAlwaysQueued` | `Spec => []MainStaysQueued` |
| `QuantumsCounted` | `Spec => QuantumAccounting` |
| `RoundRobin` | `Spec => NoOvertaking` |

The inductive invariant `IInv` is the conjunction of the five state invariants; none of them
is inductive alone. That the popped head is the running thread (`QueueDiscipline`) is needed
for every switch; that there is a next one to switch to comes from `MainStaysQueued`, since
only the main thread can never leave the queue; that removing "the" thread with an id removes
the right one needs `IdTable`; that a freed address may be allocated again needs
`NoDanglingThread`. `IInv` is checked by TLC first, as the invariants of `uthreads_safety`.
The proof has one lemma per action (each a case analysis over the conjuncts) on top of a few
lemmas about sequences (the result of `RemoveFirst`, `Tail`, `Append` and of appending a
permutation, for injective sequences) and one about `Dispatch`, which all three switches
share. `MainStaysQueued` needs no context for the main thread while it runs: its null entry
point is never jumped to because it is running first and is saved by whatever takes the
processor from it. `RoundRobin` needs no more than `IInv`: a step removes the head, removes
one element by `RemoveFirst`, or appends, and of two threads that stay in the queue none of
these changes which is first. The assumptions are those of `UThreadsAssumption`.

`UThreadsSignals_proofs` proves, from the same assumptions, about the library step by
step:

| Theorem | States |
|---|---|
| `SignalTypeCorrect` | `SignalSpec => []SignalTypeOK` |
| `MaskFollowsCode` | `SignalSpec => []MaskMatchesCode` |
| `CallsTakeEffectAtOnce` | `SignalSpec => CallsAreAtomic`, i.e. the library implements `UThreads` |
| `UserCodeFindsOrder` | whenever user code runs, `QueueDiscipline`, `IdTable`, `NoDanglingThread` and `MainStaysQueued` hold of the real structures, not only of what is seen |

`MaskMatchesCode` is not inductive: a jump restores a mask that was saved earlier. `MaskInv`
adds what every saved mask is: blocked in a context saved by a handler, open in one made by
the constructor (`masked = saved`). For the refinement the invariant `Halfway` says, for each
step of each call, which part of the call's effect is already there, as a difference
between the structures and `Seen`; at the last statement of a call the difference is the
action of `UThreads`. Two facts of `UThreads` itself are needed: the queue is a sequence of
objects, and the thread that terminates itself is the one its id finds (`QuitErase`). They
come from `IInv` of `UThreads_proofs`, instantiated for `Seen` (`Proved`); so the invariant
of the refinement is `Halfway`, `MaskInv` and `IInv` of what is seen. There is one lemma per
call; `JumpIsDispatch` is the step all switches share: `Seen` anticipates that the thread
jumped to frees the one pending deletion.

`Barrier_proofs` proves, for any number of threads and of rounds, about the specification
without spurious wakeups (with them `NoEarlyReturn` is false, as `barrier_spurious` shows):

| Theorem | States |
|---|---|
| `TypeCorrect` | `Spec => []DemoTypeOK` |
| `WaitersCounted` | `Spec => []CountIsWaiters` |
| `RoundsDoNotMix` | `Spec => []OneRoundAtATime` |
| `NobodyLeavesEarly` | `Spec => []NoEarlyReturn` |
| `ImplementsBarrier` | `Spec` implies the initial condition and the steps of `AbstractBarrier` |

`NoEarlyReturn` is not inductive: `count` says nothing of rounds, so nothing in the code
relates the counter to the calls a thread has returned from. The inductive invariant is
`DemoTypeOK`, `CountIsWaiters` and `OneRoundAtATime`: there is one round in which every thread
is, except those that have been woken up and still have to leave the round before. The step
that needs all three is `Broadcast`. A lemma on cardinalities, `LastToArrive`, says that a
thread that finds the counter at `numThreads - 1` has all the others in the wait set; so
nobody is still leaving, and the round number can go up by one. The refinement follows from
the same invariant with the mapping `left <- passed`: a call is `Enter`, the unlock is
`Leave`, everything between stutters. The assumptions are `BarrierAssumption` (a finite set
of threads, not empty) and `BarrierDemoAssumption`.

`MapReduce_proofs` proves, for any number of threads, any inputs and either kind of client,
again without spurious wakeups of the barrier's condition variable (with them the phases, and
all that follows from them, are not kept apart):

| Theorem | States |
|---|---|
| `TypeCorrect` | `Spec => []JobTypeOK` |
| `ClaimsStayBounded` | `Spec => []ClaimsBounded` |
| `CountInRange` | `Spec => []CountWithinTotal` |
| `NothingLost` | `Spec => []ShuffleConserves` |
| `CompleteAtFull` | `Spec => []FullMeansComplete` |
| `ProgressNeverBack` | `Spec => ProgressMonotone` |
| `Refinement` | `Spec => ImplementsMapReduce`, i.e. the framework implements `AbstractMapReduce` |

None of the invariants is inductive: a counter is an integer in an atomic word, and that it
equals the number of items whose pairs are in the vectors is nowhere in the code. `IInv` is
the conjunction of

* `TypeInv`, the types, finer than `JobTypeOK` because vectors hold pairs of this job's input;
* `ControlInv`, where the threads are. The two barriers of `thread_flow` are a `BarrierDemo`
  of two rounds (`Round`), whose inductive invariant is that of `Barrier_proofs` with
  `Passed`, read off the program counter, as the number of rounds. It gives `Phases`: while a
  thread maps, none is past the first barrier, and while thread 0 shuffles, all others wait.
  So the stage in the atomic word is told by where thread 0 is (`StageAt`);
* `MutexInv`: the place a thread has read in the first half of a `push_back` is still the
  next one in the second half;
* `StageInv`, what the data are in each stage. In the map stage, an item is claimed once and
  counted when its pairs are in the vectors (`ClaimInv`, `VectorInv`, `PushInv`). From the
  first barrier on, each pair is in exactly one place (`PlacesInv`); during the shuffle keys
  fall, so no key comes back after its group is closed (`KeyInv`); in the reduce stage a group
  is claimed once, its result is in the output when it is emitted, and its pairs are counted
  after that (`ReduceInv`);
* `ClientInv`: a client that has seen 100% of the reduce stage, or has joined the threads,
  finds the output complete.

`ClaimsStayBounded` has an invariant of its own on top of `IInv`, `AheadInv`: the claims exceed
the length of the vector by no more than the number of threads that have stopped claiming in
this stage (`Stopped`), since a claim that finds nothing left stops the thread that made it;
and they are zero when thread 0 opens the last stage.

TLC checks `IInv` on the instance of `mapreduce`. The proof has one section for each part,
with a lemma for each group of actions, after lemmas on vectors (what appending, dropping
the last element and sorting do to `Elements` and `NoneTwice`). The invariants then follow;
`CountInRange` from the cardinalities of subsets, `ProgressNeverBack` from the stage and the
counter in each action, and the refinement because the step that completes the output of a
key is the second half of its `push_back`. The assumption is `MapReduceAssumption`.

`VirtualMemory_proofs` proves, for any widths that leave more frames than table levels (for the
code: as long as a page number, a frame number and a distance fit a `word_t`), any addresses
and any words:

| Theorem | States |
|---|---|
| `TypeCorrect` | `Spec => []MemoryTypeOK` |
| `TreeFormed` | `Spec => []FramesFormTree` |
| `WalkKeepsPath` | `Spec => []WalkStandsOnItsPath` |
| `NoPageTwice` | `Spec => []OnePlacePerPage` |
| `EvictsLast` | `Spec => EvictsOnlyWhenFull` |
| `Refinement` | `Spec => ImplementsMemory`, i.e. the paging implements `AbstractMemory` |

`FramesFormTree` and `OnePlacePerPage` are not inductive. A frame is linked to the row the
walk stands at, so one must know which node of the tree that is, and that the page restored
there is in no other branch; an empty table may be reclaimed only if the walk is not on it or
below it; `max_frame + 1` is unused only if the frames in use have no gap. The inductive
invariant `IInv` is the conjunction of

* `TreeInv`: no frame is reached twice from frame 0, tables hold frame numbers, and the
  frames in use are the first ones;
* `SwapInv`: the swap file holds pages, none of which is in the tree;
* `WalkInv`: the walk stands on the node whose path is the prefix of its address (`Prefix`);
* no assertion has failed.

TLC checks `IInv` on the instance of `vm`. The argument has three layers.

* `PageArithmetic_proofs`. `Pow2` is a recursive function, of which the provers know nothing,
  not even that the equation of its definition holds. It does because tables of the powers up
  to n exist and agree; this, and every other induction here, is `Induction`, which speaks of
  a set in place of a predicate and follows from the well-foundedness of the natural numbers.
  From the law of exponents come the sizes, the depth of the tables, and `PrefixStep`: the
  rows that `calculate_bits` computes take the page number apart, also when level 0 is
  narrower than the others.
* `PageTree_proofs`. `Nodes`, a recursive function too, is the tree level by level. `Relink`
  says what happens to every level when childless nodes are given up and one frame is linked
  in a new place; it makes the tree before and after comparable without following pointers.
  `SomePage` is why `find_frame` can always evict: if all frames are in the tree and only the
  table of the walk is empty, some branch reaches a page, since otherwise the tree would be
  the path of the walk, with fewer nodes than there are frames. This is what `EnoughFrames`
  is for.
* `VirtualMemory_proofs`. `MakesRoom` is what the three cases of `find_frame` have in common:
  some nodes, at most one, are given up, a page among them goes to the swap file, and a frame
  is filled and linked. There is a lemma for each case, and one proof for all that `MakesRoom`
  keeps the invariant (`RoomInv`) and changes no page that has contents (`RoomMemory`).

The refinement follows: a walk is a stuttering step of the flat memory, or, when it reaches a
page that nobody has used, the step in which the page settles on what its frame holds; an
access is the `Return` of the flat memory, as no two pages share a frame. The assumptions are
`VirtualMemoryAssumption` and `EnoughFrames`.

`VirtualMemorySearch_proofs` proves, from the same assumptions:

| Theorem | States |
|---|---|
| `SearchCorrect` | `Spec => []SearchFindsFrame` |

`search_frame` fills six results as it goes, of which a later call may overwrite some, and
stops as soon as it holds an empty table. What makes this right is the order of the visits:
the nodes are visited by their first pages (`FirstPage`), and two ends of the tree, pages or
empty tables, do not have the same one (`EndsApart`). So what has been found when the search
comes to a page is a matter of the ends that start before that page, whatever the shape of
the tree: `Sees` says that the results are the first empty table among them, or else the
farthest page, the first of those at the same distance; `Knows` says that `max_frame` is not
below the frame of any node met so far, as long as no empty table is found. A call at a node
takes both from the first page below the node to the page after the last (`SearchesLevel`).
This is proved by induction on the levels and, inside a table, on its rows (`AfterRows`); the
steps are the early return (`SearchSkips`), a page (`SearchesPages`), a zero row, a row with a
child and the empty table (`SearchesTables`). That a subtree is a range of pages (`Above`,
`BelowRow`, `RowsApart`) follows from the arithmetic of spans, so nothing has to be said of
paths in the tree. `IInv` of `VirtualMemory_proofs` gives what the search relies on
(`Searching`): the tree is one, so the order is strict, and its frames have no gap, so
`max_frame` of the search is that of the tree.

What stays with TLC is liveness (`WaitingEventuallyRuns`, `SleeperEventuallyWakes`,
`TicksKeepComing`, `EveryThreadEnds`, `JobEnds`, and the fairness part of `IsMultiUseBarrier`),
which is beyond the prover. Every invariant that a run checks is also proved.

## 5. Not modelled

* Quantum lengths: a tick comes at any time. A pending signal that ends the next quantum at
  once is a case of this. `setitimer` in the handlers only moves the next tick.
* The registers and stacks in a context, and the mangling of saved pointers
  (`translate_address`).
* The user code of the threads, its own heap, and what a signal handler may do to it.
* Failing system and pthread calls; all of them end the process.
* Two clients calling `waitForJob` or `getJobState` of one job at the same time, and more
  than two worker threads in a TLC run (the proofs are for any number, the liveness property
  `JobEnds` is checked for two).
* A `pthread_create` that fails half-way through `create_job`: the process exits right after.
* The atomic counter demos: loops of `fetch_add`, in one next to a deliberate data race, in
  the other on fields packed in one word. `MapReduce` models the framework's packed counter.
* Float rounding of the percentage, and jobs of 2^31 elements or more: totals are unbounded
  naturals, so `CountWithinTotal` says that a count does not carry into the total, not that the
  total fits its 31 bits.
* The benchmark (Ex01): a sequential measurement. Its loop over sizes does not end for a
  factor so close to one that `size*factor` truncates to `size`.

## 6. Plan

Done: UThreads and UThreadsSignals (models, runs, proofs, the refinement of the one by the
other proved), Barrier with BarrierDemo (model, runs, proofs), MapReduce (model, runs,
proofs, its refinement proved), VirtualMemory with VirtualMemorySearch (models, runs, proofs,
the refinement of the flat memory and the search proved).

Left: liveness for any number of threads, which needs a prover with fairness; and the hazards
of `PROJECT.json` that no property covers, with the reason at each.
