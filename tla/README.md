# A verification project for the SML# runtime

The repository is a small completions generator (`src/CompletionsGenerator.sml`,
28 lines that parse one file) built on a complete copy of the SML# compiler and
runtime (`src/smlsharp`).  The part whose correctness is hard to see and hard to
test is the runtime: mutator threads that run in parallel with a concurrent
mark-and-sweep collector, with no global stop and no collector thread.  Beside it
stand the tables of the runtime (finalizers, callbacks, frame tables), exceptions that
pass ML, C and C++ frames, and four older stop-the-world collectors.  This
project models them in TLA+, checks the models with TLC and proves the central
results with TLAPS.  Paths below are relative to `src/smlsharp/src/runtime`
unless they say otherwise.

## 1. Inventory

| Component | State | Operations | Interaction | What makes it correct |
|---|---|---|---|---|
| Phase handshake, `control.c`, `smlsharp.h` | `workers_available` (list and phase of new workers), `workers_handshake` (list and stamp), `sml_check_flag`, `gc_count`; per worker `state` (phase, INACTIVE, HELPER), `flags` (CANCELED, DEAD, GLOBALENUM), `users` | `sml_start/end/enter/leave`, `sml_gc`, `sml_wait_gc`, `sml_check_internal`, `worker_sync1/sync2/mark/async`, `change_phase`, `help_inactive`, `cancel_worker` | shared memory between all threads; calls the heap | all workers finish an action before any starts the next; the counter is exact; one thread at a time works on a worker context; collections end |
| User contexts, `control.c` | `user->worker`, BUSY_FLAG, `worker->users` | `sml_enter_internal` (migration), `worker_sync2`, `cancel_user` | MassiveThreads moves a user to another worker while its old worker enumerates roots | every live user is enumerated in every collection; no stack is read after it is freed |
| Exit, `control.c`, `init.c` | phase 0 in `workers_available` | `sml_exit`, `sml_finish` | against registration and `global_phase` | clean-up only when nobody else runs |
| Concurrent mark, `heap_concurrent.c` | collect bitmap, object stacks, remembered sets, allocation snapshots | `barrier`, `sml_write`, `sml_cmpswap`, `visit`, `trace`, `remember`, `sml_heap_*_sync2`, `sml_heap_worker_mark`, `sml_heap_mark_finish` | called by the actions of the handshake and by mutators | no reachable object is reclaimed |
| Segments and sweep, `heap_concurrent.c` | subheaps, segment pool, two-level bitmaps, `allocptr_snapshot`, `free_count` | `sml_alloc`, `try_find_segment`, `find_bitmap`, `reclaim_*`, `sml_heap_worker_init/register/async`, `sml_heap_global_async`, `segment_push/pop` | pool shared by all allocators | a segment has one owner; no block is handed out twice; collect bits are clear when a collection starts |
| Unix signals, `signal.c` | pending bits, check hook | `signal_handler`, `sml_signal_check` | calls `sml_gc(0)` on the interrupted thread | no signal is lost |
| Finalizers, `finalize.c`, `splay.c` | a splay tree under a mutex | `sml_set_finalizer`, `sml_run_finalizer`, `sml_finalize_destroy` | run by the thread that ends MARK | each finalizer runs once, for a dead object |
| Callbacks, `callback.c` | splay tree of closures, lists of environments, pages of trampolines | `sml_find_callback`, `sml_alloc_code`, `sml_callback_enum_ptr` | code that `LLVMGen.sml` generates; the collector | one entry per closure; its environment is kept |
| Frame tables and top-level objects, `top.c` | a lock-free list of `gcroot`s | `sml_gcroot`, `sml_gcroot_load`, `sml_global_enum_ptr`, `sml_lookup_frametable` | loaders against the collector | every return address is found with its own layout; every top-level object is enumerated |
| Exceptions, `exn.c`, `control.c` | `handler_addr`, `num_cleanup` of an exception; `user->exn_object` | `sml_raise`, `sml_personality`, `search_lpad`, `sml_save_exn`, `sml_unsave_exn` | the unwinder of the platform; landing pads of `LLVMGen.sml`; C++ frames | cleanups run; ML code runs in its context; the exception object is kept |
| Stop-the-world collectors, `heap_cheney.c`, `heap_reppy.c`, `heap_bitmap.c`, `heap_otomo.c` (not in the default build) | spaces, generations and remembered sets, mark bits and segments, bitmap trees | `sml_alloc`, `sml_write`, `sml_heap_gc` and what they call | alternative implementations of `heap.h` | the program cannot tell that there was a collection |
| Threads library, `src/smlsharp/src/thread/main` | Mvar, Ivar, CML channels | put, take, read, sync | mutexes and condition variables | no lost wake-up |
| Foreach, LoadFile, compiler phases, basis and vendored libraries | sequential data | | | out of scope, or planned as pure algorithms |

Hard behaviours: everything above the finalizers, and the list of `top.c`, is lock-free
code with several writers; threads block in C code for unbounded time, end at any moment outside
ML code, and are interrupted by signal handlers; actions are taken over by other
threads.  `PROJECT.json` lists the hazards at the lines where they bite.

## 2. Modules and plan

| Part | Modules | Runs |
|---|---|---|
| Handshake (section 3) | `Rounds` (abstract), `Phases`, `Handshake`, `MCHandshake`; `HandshakeInv`, `HandshakeProofs` | `handshake_two`, `last_answer`, `stale_help` |
| Marking and reclaiming (4) | `ConcurrentMark`, `MCConcurrentMark`; `ConcurrentMarkInv`, `ConcurrentMarkProofs` | `mark`, `early_end`, `late_bit` |
| User contexts (5) | `UserRoots`, `MCUserRoots`; `UserRootsInv`, `UserRootsProofs` | `user_roots`, `stolen_callback` |
| Exit (6) | `Exit` | `exit_race` |
| Segments (7) | `Bitmap`, `Segments`, `MCSegments`; `SegmentsInv`, `SegmentsProofs` | `segments` |
| Tables (8) | `SplayTree`, `Finalizers`, `Callbacks`, `GlobalRoots`, composed in `MCTables` | `tables` |
| Exceptions (9) | `Unwind`; `UnwindInv`, `UnwindProofs` | `tables` |
| Stop-the-world collectors (10) | `Heap` (abstract), `Mutator`, `Cheney`, `Reppy`, `BitmapHeap`, `Otomo`, composed in `MCHeap`; `ObjectGraph` (abstract), `CheneyInv`, `CheneyProofs`, `ReppyInv`, `ReppyProofs`, `BitmapHeapInv`, `OtomoInv`, `BitmapHeapProofs` (of both) | `heap` |

`Handshake` establishes what `ConcurrentMark`, `UserRoots`, `Segments` and `Exit` then
assume of the signals: workers are signalled one by one, and the next signal is sent
when all have answered.  `Rounds` states just that, and `Handshake` is proved to
implement it.  Each of the others carries this reduced handshake with it, so that
the interleavings with their own steps are all there.  A definition that a comment
calls a mutant is a plausible mistake in the definition that follows it, and is used
by nothing else; `PROJECT.json` says which property it breaks.

Left, in this order:

1. proofs about the list of `GlobalRoots` and the tables of `Callbacks`, as far as they
   need no induction over their data;
2. the lock-free stacks below `segment_push` and `segment_pop`, and whether the
   handshake excludes ABA there;
3. the Mvar and Ivar code of the threads library, and `LoadFile`'s search as a pure
   algorithm.

## 3. The handshake

A collection is four signals: SYNC1, SYNC2, MARK (repeated while objects are left
to trace) and ASYNC.  A signal is a phase change of every worker context, made by
one thread, the *changer*, with one XOR per worker; `PRE...` phases mean that the
signal is pending.  Whoever runs on behalf of a worker accepts the signal, executes
its action and decrements `sml_check_flag`; the thread that takes the counter from
1 to 0 is the next changer.  A worker whose thread is in C code is INACTIVE; its
signal is accepted by its thread when that leaves ML code, or by a helper.

### State

`Phases.tla` defines the phases and their bit operations, for this module and the next.

| `Handshake.tla` | `control.c` |
|---|---|
| `n`, `avail` | `workers_available`: workers are numbered in the order of registration, the list is n, n-1, ..., 1; `avail` is the phase in its low bits |
| `phase`, `active`, `helper` | `worker->state`: phase bits, INACTIVE_STATE clear, HELPER_STATE |
| `canceled`, `dead`, `genum` | CANCELED_FLAG, DEAD_FLAG, GLOBALENUM_FLAG of `worker->flags` |
| `users` | `worker->users`: empty, only ended users, or a live user |
| `hsHead`, `hsStamp` | `workers_handshake` |
| `flag`, `gc_count` | `sml_check_flag` read as a signed number, `gc_count` |
| `globals`, `retries` | whether `sml_heap_global_sync2` was called in this collection; number of repeated MARK signals |
| `pc`, `tgt`, `sig`, `from`, `greedy`, `ret`, `list`, `cur`, `cnt`, `stamp`, `seen`, `wait` | per thread: program counter, arguments and local variables of `worker_*`, `change_phase`, `help_inactive`, `sml_wait_gc` |

### Actions

One action is one atomic access to shared memory with the thread-local work around
it.  `register_worker`, `leave_worker`, `enter_worker`, `cancel_worker`, `sml_gc`,
`global_phase`, `change_phase` (one iteration), `worker_sync1/sync2/mark/async` and
`sml_check` have the names of the functions; `publish_handshake`, `add_check_flag`
and `accept_own` are the tail of `change_phase` and of its callers;
`load_handshake`, `scan_handshake`, `pop_handshake`, `pop_fails`,
`clear_handshake`, `take_worker` and `release_worker` are `help_inactive`; `end_gc`
is the end of `worker_async`; `signal_gc` is the signal handler; `wait_done` is the
end of `sml_wait_gc`.

### What is abstracted

- An action's work on its own worker context (users, allocator) is merged with the
  `fetch_sub` that ends it; `ExclusiveAction` shows that no other thread works on
  that context at the same time.
- The retry loops of the CAS in `register_worker` and `global_phase` are one step;
  the weak CAS of `help_inactive`, which gives up, may fail spuriously.
- `load` then `fetch_or` of `gc_count` are one step: the load is an optimisation.
- A dead context is skipped by every traversal, so unlinking it has no effect.
- Memory is sequentially consistent.  The code uses acquire and release orders on
  the words modelled here; the argument that they suffice is not modelled.
- A worker has one user, and users do not migrate: `UserRoots` is about that.  A signal
  handler interrupts C or ML code, not the runtime; `check_hook` is `leave_worker`, C
  code and `sml_enter`; `sml_exit` is in `Exit`.
- `sml_check` may be called at any time: compiled code calls it after it saw
  `sml_check_flag` not 0, and the counter may have changed since.

### Runs

| Run | Instance | States | Result |
|---|---|---|---|
| `handshake_two` | N = 2, 2 collections, 1 repeated MARK, everything a program may do, fairness | 170,028 | all safety properties and `IInv` hold, `Handshake` implements `Rounds`, waiters and entering threads get on |
| `last_answer` | N = 2, 1 collection | | violated, finding 1 |
| `stale_help` | N = 2, 1 collection, 1 repeated MARK, the program of `MCHandshake` | | violated, finding 2 |

Bounds.  Two workers are enough for a changer and a helper to interfere, for a
helper to meet the owner, and for a worker to register in the middle of a signal;
two collections are needed for a dead worker (its users are dropped in the first,
it is killed at the start of the second); one repeated MARK for a reused stamp.
Three workers, with two helpers on one list, take longer than the runs kept here; the
proofs are about any number.  `MCHandshake` restricts the program of `stale_help` to what
its counterexample needs: ML code polls only while the counter is not 0, C code does not
come back, and nobody registers during the collection.  `CHECK_DEADLOCK FALSE`: a program
may stop, when all its threads have ended or stay in C code, and the number of collections
is bounded.

Properties.  `CounterExact` (the counter is the number of answers owed, less what
the changer has not added yet), `InRounds` (the handshake implements `Rounds`),
`RootsBeforeMark`, `ExclusiveAction`, `Asserts` (the assertions of `control.c` and
its two `sml_fatal`), `QuietBetweenCollections`, `DeadIsLeftAlone` (an action
property), `HelpStaysOffered`, `WaiterReleased` and `EnterReturns` (liveness).

Fairness.  Weak fairness of each thread's runtime steps and polls: a thread that is
not blocked in C code is run by the operating system, and the compiler puts a poll
in every loop.  Nothing is assumed of C code: it need not return.  Strong fairness
of the pop in `help_inactive`: a weak CAS does not fail spuriously for ever.

### Findings

1. *The last answer can be lost* (`last_answer`).  A changer that is not in ML code
   owes no answer of its own.  If helpers answer for all workers between its
   `change_phase` and its `fetch_add`, the addition takes the counter from -count to
   0, no answer does, and the collection stops for good.  The shortest trace: a
   thread in C code starts the collection from its signal handler, or a worker that
   leaves ML code gives the last answer outside its lock, while another thread
   polls.  The comments in `worker_sync1` say that the counter is 0 exactly when
   all have answered and that the last to answer advances the phase.
   `WaiterReleased` shows that under the given fairness this and finding 2 are
   the only ways in which `sml_wait_gc` can be stuck.

2. *Help can be withdrawn* (`stale_help`).  The second of two MARK signals has the same
   stamp PREMARK as the first, and its list the same first worker.  A thread in ML code that
   has answered the first one polls and walks its list; meanwhile the other worker leaves
   ML code, accepts its signal itself, gives the last answer, repeats MARK and
   publishes the list again.  The walk, which has found nobody to help, ends with a CAS that
   clears the new list.  The other worker is in C code by now, owes its second
   answer and is on no list, so the collection waits until its thread comes back.  The
   comment in `help_inactive` (1362-1371) argues that a helper owes an answer itself and so
   keeps the phase from going on; this one has answered already.  `HelpStaysOffered`
   shows that the comment is right about all other signals, also those that follow a
   repeated MARK.

### Proofs

`HandshakeInv` states the inductive invariant `IInv`, which TLC checks in
`handshake_two`.  `HandshakeProofs` proves that every step keeps the types, has one lemma
per action (per case for the long ones) and combines them.  All its theorems hold for every natural N, MaxGC and
MaxRetry (`NAssumption`, `BoundAssumption`): any number of threads, collections and
repetitions.

The argument.  The properties are not inductive by themselves.  `Counter` needs to
know that the changer is alone, which holds because a thread becomes changer when
it takes the counter from 1 to 0, at which point, by `CounterExact`, its own answer
was the last one owed; that needs the set of workers that owe (`Owes`) to be changed by
one element at a time, so `Actions`, `Locks`, `Targets` and `Helpers` say who
executes an action for whom, and that a worker with an executing action is never
pending at the same time.  `Walks` says that `change_phase` finds every worker
still ahead of it in the old phase, owing nothing; `Phases` ties the others to the
phase in `workers_available`, which is why a worker that registers meanwhile does
not disturb the count.  `Roots` follows GLOBALENUM_FLAG from SYNC1 to SYNC2.

`DeadTheorem` is an action property proved from the same invariant.  `OneActionTheorem` (no
worker starts an action before all have ended the last one) is a part of what follows, and
in no run of its own.

*The rounds.*  `Rounds` is what the heap may rely on, without threads, locks, helpers or
counters: in each round every member is sent one signal, accepts it, executes its action
once and answers; the next signal is decided by the last answer, and nothing is sent
before; members join in the phase of the round and leave at the start of a
collection.  The refinement mapping (in `HandshakeInv`) reads this off the handshake: the
members are the live workers, `unsent` those that `change_phase` has not come to
(`Unsent`), `acting` those for which some thread executes an action, `counted` whether the
`fetch_add` is done, `todo` the signal a changer is about to issue.  `HandshakeInRounds` is
the theorem `Spec => InRounds`, with no hypothesis: the second part of `HandshakeProofs`
shows for each action which step of `Rounds` it is, or that it is none.  That "all have answered" can be read off a
counter that is negative at times is `CounterExact`.  Finding 1 is visible in `Answer` of
`Rounds`: an answer that comes before the count decides nothing.

*Help.*  `HelpOffered`, the last part of `HandshakeProofs`, proves `HelpStaysOffered`, with no
hypothesis: any number of threads, collections and repetitions of MARK.  The property has one exception, from
the moment at which MARK is repeated to the publication of the next list with another stamp (`MarkRepeated`),
and that one is finding 2.  The list of helpers is unlocked, and a helper compares only the
pointer and the stamp with what it has loaded.  The invariant (`Stamps`, `Offers` of
`HandshakeInv`) is that a stamp that some helper still holds is never issued, unless MARK is repeated: the helper is
in ML code, so nobody can answer for it, so its stamp is that of one of the last
signals; the next one, of four that take turns, is another.  With that, a helper that finds the list unmoved has passed over nobody who
needs help.

Only model-checked: `WaiterReleased` and `EnterReturns` (liveness under fairness is out
of reach of the prover).  `SingleChanger` is a part of `IInv`.

## 4. Marking and reclaiming

The collector is a snapshot collector without a stop.  In SYNC1 the workers switch on
the write barrier; in SYNC2 each one enumerates its own roots and takes a snapshot of
its allocation pointers; in MARK each one traces what it has enumerated and
remembered; the last to answer looks whether mutators have remembered more and
repeats MARK or issues ASYNC, in which each worker releases its unmarked objects.
Mutators run all the time, so at any moment two mutators may be in different phases.

| `ConcurrentMark.tla` | code |
|---|---|
| `used`, `owner`, `fld` | objects, the allocator whose segment they are in, and their contents (one field each) |
| `target` | what `visit` takes for an object of this collection: its bit in `bitmap[0]` is set, or it lies below `allocptr_snapshot` (for large objects, `mseg->bit`) |
| `mark` | collect bitmaps and `collect_bit` |
| `root`, `global` | what stack frames and global variables refer to |
| `root_set`, `remembered`, `stack` | the linked lists of `struct sml_alloc` and of `trace`, as sets |
| `arg`, `pc` | arguments and position of `sml_write`, `sml_cmpswap` and the actions |
| `phase`, `sig`, `unsent`, `owing`, `genum` | the handshake, reduced to what section 3 establishes: one changer, workers signalled one by one, the next signal when all have answered; GLOBALENUM_FLAG |
| `toSee`, `round` | the two walks of `sml_heap_mark_finish` |

Actions.  `sml_alloc`, `sml_write` (load of the old value) and `store`, `sml_cmpswap`,
`load_phase`, `remember_new` and `remember_old` (two steps each: the test-and-set of
`visit`, then the link) are the mutators; `load_field`, `load_global` and `drop_root` are
what compiled code does.  `sml_gc`, `change_phase` (one worker per step), `worker_sync1`,
`worker_sync2`, `worker_mark`, `trace` (one object per step), `trace_done`,
`sml_heap_mark_finish` (one look per step) and `worker_async` are the collector.  An
action of a worker whose thread is in C code is executed by a helper; here it is a
step of the worker.

Abstracted: the link fields of the object stacks (sets instead); enumerating the
roots is one step, since the worker's mutator is stopped meanwhile and a root set is
private; reclaiming is one step; segments and their way through the pool (a block
belongs to the allocator that allocates it; section 7); finalizers (section 8);
registration and death of workers (section 7, without the trace).  Memory is sequentially consistent, as in section 3.

### Properties

`LiveKept`: no reachable object is released.  `SnapshotKept`: during MARK each
reachable object is marked or reached, through unmarked objects, from one that will
be traced; the invariant behind a snapshot barrier.  `TraceComplete`: when ASYNC is
issued all reachable objects of the collection are marked.  `ClearInAsync`: after
reclaiming, the collect bits of a worker's segments stay clear until the next
collection.

The code does not have these properties: nothing keeps a mutator from being interrupted
inside `sml_write` or `sml_cmpswap` while the others enumerate their roots, end the trace or
reclaim.  The models restrict nothing of this.  Instead `ConcurrentMarkInv` adds a history
variable, `gap`, that says when the code has missed something, and there are three moments at which it
does:

- `Opens`: `sml_heap_mark_finish` has looked at all remembered sets once while a mutator
  has set the bit of an object and not linked it, or has exchanged a field by
  `sml_cmpswap`, whose barrier comes after the exchange, and not remembered the old value.
  This becomes a gap when ASYNC is issued; when MARK is repeated instead, it does no harm.
- `SetsLate`: a barrier that has loaded MARK sets the bit of an object while the workers reclaim.
- `Overwrites`: an `sml_write` that began in SYNC1, without remembering what another worker has
  stored since, is about to overwrite it when the first roots are enumerated.

`LiveUnlessMissed`, `TracedUnlessMissed` and `SnapshotUnlessMissed` say that `LiveKept`,
`TraceComplete` and `SnapshotKept` hold in every behaviour up to the first of these moments, if there is
one.  So all timings are in them: mutators that are interrupted inside the barrier and go
on phases later, as long as what they do is not one of the three.  Each of the three is
needed: findings 3 and 4 are what happens at `Opens` and at `SetsLate`, and TLC refutes
`LiveUnlessMissed` when `Overwrites` is left out of `gap`.

### Runs

| Run | Instance | States | Result |
|---|---|---|---|
| `mark` | 2 mutators, 3 blocks, three scenarios, any timing | 1,295,198 | all hold |
| `early_end` | a list of 3, one `sml_write` during MARK, any timing | | violated, finding 3 |
| `late_bit` | as `mark` | | violated, finding 4 |

The scenarios of `mark`, chosen in the initial state: "pair", every initial heap of at
most 2 objects and 2 allocations or updates at any time; "list", a list of 2 or 3
objects and one allocation or update during MARK; "private", one shared and one
private object, and 3 allocations or updates during SYNC2.

The run checks the inductive invariant that the proofs use, `KeptInv` of `ConcurrentMarkInv` (below), of which
`TypeOK` is a part, together with the properties.

Bounds.  Two mutators are the smallest number in two phases.  One collection is
enough, because the initial heap is arbitrary and `Reclaim` in the invariant says that the
next one starts like the first, if no bit is set late.  Two updates are needed for a race between updates; two
blocks for an object and what it refers to, three for what is remembered to have
something to trace ("list") and for hiding a private object behind one that is
not traced, allocated after the snapshot ("private"; without the new value in the
barrier this scenario fails, the others do not).  Roots and blocks are symmetric.  A
variable that dies is dropped just before its worker enumerates its roots: at any
other time this only makes fewer objects reachable.  An update stores something
else than was there.  `CHECK_DEADLOCK FALSE`: mutators
may stop, and operations and collections are bounded.

### Findings

3. *Tracing can end too early* (`early_end`).  `remember` sets the bit of an object and
   links it afterwards.  In between, nobody will trace the object, and all remembered
   sets can be seen empty.  The comments at `heap.h:62-63` and `heap_concurrent.c:1253-1254` take
   empty sets for the end of tracing.
4. *A bit is set after it was cleared* (`late_bit`).  `barrier` loads the phase once (1684).  A
   mutator that has loaded MARK is interrupted; all others answer, ASYNC is issued, the
   owner of an object reclaims; then the mutator sets the object's bit.  The comment at
   `heap_concurrent.c:622-624` says that the bits of a worker in ASYNC are clear.  The next
   collection takes the object for one that is traced already.

Two more windows are in `gap`, and in no run of their own.  The old value of an
`sml_cmpswap` is in no field and not remembered yet when tracing is found to be complete; the barrier
then loads PREASYNC and does nothing.  And an `sml_write` of SYNC1 overwrites what another worker stored
before it answered SYNC1 (`Overwrites`): roots are enumerated from the second signal on, when such an
update can still be in progress.  All of these need a thread that is interrupted inside a few instructions for as long as
others take to answer a signal, and the last one also an unsynchronised program.

### Proofs

`ConcurrentMarkProofs` proves that what mutators do keeps the invariant, then the same
for the collector, and what follows: `MarkInvariant` (`KeptInv`), `MarkTypes`,
`LiveObjectsKept`, `TracingComplete` and `SnapshotProtected`, each of the form
`WatchedSpec => []P`.  `WatchedSpec` is the specification with the history variable, which
restricts no step.  The theorems hold for every finite set of workers, every set of blocks and
every heap to begin with, and for any number of collections and updates, with no assumption about
timing.  What is assumed is that the values of the constants are what they stand
for (`NullAssumption`, `WorkerAssumption`, `BoundAssumption`).

The argument.  An object of this collection is white while its collect bit is clear.
`SnapshotKept` speaks of paths of white objects that lead to an object from one that
will be traced; a mutator cuts such paths all the time, and two updates of the same
field may each take the other's new value for the old one, so it is not inductive.
The invariant says which cuts are promised to be repaired (`Promises`: `sml_cmpswap` stores
first and remembers later), which fields a racing update is about to overwrite
without looking at them again (`Endangered`, whose values must be safe by
themselves), and what holds of each worker before and after it has enumerated
its roots (`Tricolor`, `Barriers`).  Reachability by paths of any length needs induction,
which the prover does not have; the module therefore states it, as `Reachable` and
`WhiteReach` do, as membership in every set that is closed under the fields.  A step
keeps the protection of an object if each closed set after it is closed before it,
which is the lemma `PathsKept`; the lemmas about single actions show that its premises
hold.  When `sml_heap_mark_finish` has found all sets empty and no mutator is `Midway`, the
empty set is closed (`NothingLeft`), so nothing white is protected, and mutators can get at
nothing white (`Clean`).  `Finish` carries this through the second walk.

## 5. User contexts

A user thread runs ML code on a worker, leaves it for C code (where MassiveThreads
may move it), and comes back on the same or on another worker.  The list
`worker->users` belongs to the worker, so a thread that was moved cannot unlink its
context: `sml_enter_internal` takes a new context on the new worker, copies the old one
and leaves it to be dropped.  Meanwhile the old worker may be enumerating its stack.
`UserRoots` has, per thread, its place in these functions, its stack ranges and its
`current_user`; per context, the fields of `struct sml_user` and whether it was
reclaimed; per worker, its list, `current_user` and the state of `worker_sync2`.

Actions: `sml_start_new`, `sml_start_callback`, `sml_end`, `sml_leave`, `sml_save`,
`sml_unsave`, `sml_enter_same`; `sml_enter_stolen` and its parts `enter_lock` (the test of
BUSY_FLAG), `enter_spin`, `enter_enum`, `enter_move`, `enter_store` and `enter_copy`;
`cancel_user` and `cancel_user_end`; and the actions of the workers, of which `worker_sync2`
is one step per user it locks, enumerates, or puts off.  Which locks are taken depends
on the phase of the worker (`MayMeetSync2`, `AfterLock`): the argument for that is a long
comment in the code, which the run replaces.

`user_roots`: 2 workers, 2 threads, 3 contexts, 1 collection, callbacks two deep;
590,974 states.  `EnumSafe`: whoever enumerates a context finds closed ranges of a
thread that exists, and is alone.  `RootsEnumerated`: when MARK is issued, the roots of
every thread have been enumerated since it last ran on a worker that had not answered
SYNC2.  `ContextKept`: no context is reclaimed while it is referred to.  `LockReleased`:
who waits for BUSY_FLAG waits for somebody who will release it, although
`worker_sync2` never clears the flag of a context it drops.  Two workers and two threads are
enough for a thread that moves and one that occupies the worker it left; the third
context is the copy.  In one collection a context becomes garbage, is not visited
and is reclaimed.

5. *A stolen callback runs on the context of its old worker* (`stolen_callback`).  A
   thread that was moved while it was in C code, and calls ML code from there, passes
   through the callback branch of `sml_start` (1092-1104), which lacks the test that
   `sml_enter_internal` makes.  The old worker still enumerates that context, now with an
   open range: "スタック範囲は全て閉じられているはず" (1937) fails.  `user_roots` therefore excludes
   callbacks of moved threads (`StolenCallback = FALSE`).

`user_roots` also checks the inductive invariant `IInv` of `UserRootsInv`, of which `TypeOK` is
a part.  `UserRootsProofs` proves that the steps of threads keep it, the same
for workers, and the theorems `UserRootsTypes`, `EnumerationSafe`, `AllRootsEnumerated`,
`ContextsKept` and `LocksReleased`, for every finite set of workers and any number of threads,
contexts, collections and callbacks in each other.  They have the hypothesis
`~StolenCallback`, without which finding 5 refutes them.  The argument.  `Threads` and `Places`
follow each thread through `sml_enter_internal`: which context it will use, which worker
that belongs to, and which lock it has; `Contexts` and `NewContexts` say the converse of
the lists of the workers, so that at most one thread and one worker meet in a
context.  `Seen` is the heart: until a thread has been enumerated, the worker that its
context belongs to, or the one it moves to, has still to do it (`Waiting`), and the
branches on the phase in `sml_enter_internal` are such that exactly one of them does.
`Kept` follows the collect bits from there to the end of the collection.

`sml_enter_internal` takes the failure of its first `acquire_bit` (743) for a sign that the
old worker is enumerating the roots, and then does not do so itself.  `acquire_bit` is
a weak compare-and-swap: the model lets it fail only when the bit is set, as on x86,
and says nothing of machines where it may fail spuriously.

## 6. Exit

`Exit` reduces a thread to its worker's lock and its place in the functions that touch
`workers_available`: `register_worker`, `enter_worker`, `leave_worker`, `answer` (the end of an
action), `sml_gc`, `global_phase`, and for one thread `sml_exit`, `exit_lock` (one worker per
step) and `sml_finish`.

6. *A phase is stored again after `sml_exit` has cleared it* (`exit_race`).  A worker that
   leaves ML code unlocks itself and answers afterwards; `sml_exit` locks it and goes on.
   The thread, last to answer, calls `global_phase`, which stores the next phase;
   another thread registers behind the list that `sml_exit` has walked, and runs ML code
   while `sml_finish` frees the tables of the runtime.  The comments at 1960 and
   1978-1979 say that registration is forbidden and that nobody else runs.

There is no passing run: `Alone` is what `sml_exit` is for.

## 7. Segments

`Bitmap` is the two-level bitmap of a segment with its sentinel bits, `find_bitmap`, and
`compute_segment_layout`.  `Segments` has per segment its owner, its list (`freelist`, `partial`,
`partial_marked`, `filled`, the current one, or popped and not yet linked), both bitmaps,
the collect bitmap, `allocptr_snapshot` and `free_count`; per worker its allocation pointer,
`extension_room` and its place in `find_segment`.

Actions: `sml_alloc`, `try_find_segment` (a segment of the worker, of the pool, or a new
one, else a collection), `take_popped`, `sml_wait_gc`; `worker_sync1/sync2/mark/async`,
`sml_heap_global_async`, in which the pool is reclaimed; `sml_heap_worker_init`,
`sml_heap_worker_register` and `end` for workers that come and go during a collection
(a dead worker's segments go to the pool).  Marking is one step: it marks what is live,
which section 4 is about.

`segments`: 2 workers, 3 segments of 2 blocks, words of 3 bits, a collection and the start of
another one until all have answered SYNC1 (`Bounded` of `MCSegments`); 499,403
states, from a new heap and from one with used segments in every list.
`LiveNotReturned`: no allocation can return the block of a live object, in whatever
list the segment is.  `CollectBitsClear`: the collect bits of a worker in ASYNC, and of the
pool between collections, are clear, but for the segments of `stale` (below).  `ReadyToUse`: what `init_segment` and `set_alloc_ptr`
assert.  `FindBitmapFirst`: `find_bitmap` finds the first free block, in the segments and in
all bitmaps of up to 7 blocks, and the layouts of a 64-bit build are of the kind for
which it does.  Two blocks are the smallest segment that is neither empty nor
filled; 3 segments are one for each worker and one between them; one collection
has the snapshot, both ways of reclaiming and everything that happens meanwhile, and the
start of the next one has the thread that is late.

A thread may be held anywhere, also between `segment_pop` and the moment at which the allocator
has the segment.  There are two ways in which a segment keeps the collect bits of a
collection that is over, and a history variable of `SegmentsInv`, `stale`, has these segments
until they are reclaimed by the next collection:

- `TakenLate`: a thread takes a segment from `partial_marked` in ASYNC and is held before the code that
  clears the bits; meanwhile the collection ends and the next SYNC1 signal arrives, in which
  phase they are not cleared.  The comment at `heap_concurrent.c:630-633` says that there is no such time.
- `HeldByNew`: a thread is between `sml_heap_worker_init`, in which it has taken a segment, and
  `register_worker` when tracing ends.  The segment is in no list that anybody reclaims, and the
  thread registers in ASYNC.

Each is needed: TLC refutes `CollectBitsClear` when either is left out of `stale`.  `LiveNotReturned` and
`ReadyToUse` have no exception.

A remark.  `init_segment` does not note in `bitmap[1]` a word
that holds sentinels only; there would be one if the number of blocks were a
multiple of 32, and `Layouts` shows that it never is.

`segments` also checks the inductive invariant `IInv` of `SegmentsInv`.  `SegmentsProofs` proves
it, and `AllocationKeepsLive`, `AsyncSegmentsClear`, `SegmentsReady` and `FindBitmapCorrect`, for
any sets of workers and segments, any number of blocks and collections and any word size.
They are about `WatchedSpec`, the specification with the history variable, which restricts no
step; `CollectBitsClear` has the exception above, the others have none.  The constants satisfy
`SizeAssumption`: a segment has at least two blocks and its last word is not full, which
`Layouts` proves of every layout of a 64-bit build.  The argument.  A segment's life has
two parts.  From the end of tracing until its owner, or the pool, reclaims it, its
collect bits are those of the live objects; the rest of the time they are clear, and
`bitmap[0]`, the allocation pointer and `allocptr_snapshot` together tell live objects from
free blocks.  `SegmentOK` says for each list which part its segments are in, from the phase of
the worker and whether it has answered; a segment that changes hands between workers
in different phases does so through the pool, which is why the pool is reclaimed last.
The first lemmas of `SegmentsProofs` are about `find_bitmap`: that the mask of a word leaves the free
blocks from a place on, that `bitmap[1]` marks the full words of `bitmap[0]`, and that the search in two
levels finds the first free block from a place on.  They are about functions on
numbers, without recursion, so they hold for every length.

Abstracted: block sizes (subheaps do not interact except through the freelist), malloc
segments, the arithmetic of `extension_room`, the stacks below `segment_push` and
`segment_pop`.

## 8. Tables

Three components without common state, and the frames of section 9, are checked in one run,
`tables`: each behaviour of `MCTables` is one of one of them.  1,615,129 states.  Deadlock is
checked: a program may stop using a table, but an exception goes on until it is handled.

*Finalizers*, over the splay tree of `splay.c`, which is translated operator by operator
(`splay`, `assemble`, `Insert`, `join`, reject).  Its operations hold `finalizer_lock`, so each
is one step; the heap is what it promises (`is_alive` of everything reachable, perhaps of
more; memory is reused).  An address stays as it is, as with `heap_concurrent.c`; a collector that
moves objects would rewrite the keys of the tree (`finalize.c:81,93`).  4 addresses give trees of every shape with 4 nodes.
`FinalizedOnce`: the finalizer that was set last runs exactly once, for an object that
is not reachable, or at the end of the program.  `TreeOps`: after any history of
operations, the tree is a search tree whose nodes are accounted for, and find,
insert and delete at every key give what they should.

*Callbacks*: two threads export closures of one code address with three environments, two
of them equal, while a collection passes SYNC1 and SYNC2.  `CallbackUnique`: equal closures
have one entry, and every thread gets the entry of its closure and a trampoline that,
once filled in, calls it.  The worker with GLOBALENUM_FLAG, which is the last to answer SYNC1,
enumerates the table in its own SYNC2 action, in any order with those of the others: usually
first.  A closure that another worker enters after that is not seen in the walk.  `EnvMarked`: when tracing
starts the environment of every entry is marked, and stays so although the table has no
write barrier, with one exception, which a history variable, `late`, records: the closure was entered
after the walk by a thread that had not come to its own SYNC2 action.  If that thread
forgets the environment before its roots are enumerated, nobody marks it, and the entry
refers to an object that is released.  (Leaving `late` out of `EnvMarked` gives the
counterexample.)  Environments stay where they are, as with `heap_concurrent.c`.

*GlobalRoots*: three programs are loaded at once, with units whose safe points are not
sorted, while the list is enumerated.  `ListOrder` (the order that the comment in
`register_gcroot` draws), `LookupFinds`, `EnumComplete`.  `sml_gcroot_unload`, which expects that
nobody else uses the list, is not modelled.

Remarks.  The generated code stores a new trampoline in the entry before it fills it
in; another thread that exports the same closure in between is given a trampoline
with no code yet (`TrampolineReady`, which is in no run, states the opposite).  Finalizers run under `finalizer_lock`: one that calls
`sml_set_finalizer` waits for itself.

## 9. Exceptions

`Unwind` is one thread's stack of ML functions, top-level code of callbacks, C and C++
functions and destructors.  `search_lpad` with the ranges of an exception table, the two
phases of `sml_personality`, `sml_save_exn` and `sml_unsave_exn` come from the runtime, the landing
pads from `LLVMGen.sml`; the unwinder and the C++ side are external: SEARCH goes up to a
handler, the second phase visits the same frames and lands on the pads it is told.

`tables` has 8 frames and 3 exceptions.  `PadsLeft`: `num_cleanup` is the number of
pads that are left, so the shortcut at 0 skips none.  `ContextMatches`: whatever ended
above it, ML code runs in its ML context and C code outside.  `ExnHeld`: while an ML
exception passes C frames, its object is in `exn_object`, where the collector finds
it.  8 frames hold ML code, a C++ frame with a destructor, a callback from that
destructor and a third exception raised in it.  Deadlock is checked: every exception ends
in a handler or ends the program.

All three are proved in `UnwindProofs` (`NoPadPassed`, `OwnContext`, `ExceptionHeld`), for stacks
of any depth and any number of exceptions, from the inductive invariant of `UnwindInv`
(TLC finds it to hold on the instance above).  It says who may call whom with which pad
(`Calls`), that each exception but the current one waits for a destructor, which runs
just above the frame that the exception will visit next, and that later exceptions
and their handlers stay above that (`Destructors`, `Nested`).  So the frames that an
exception has still to visit never change, and its count with them (`Counted`).  `Held`
works because toplevel code saves an exception only when none is saved: of all ML
exceptions in flight, only the current one can be outside of `exn_object`, and only
while it passes ML code.  The lemma `PadFound` shows that `search_lpad` finds in the
exception table the pad that `LLVMGen.sml` has put there.

Remarks.  An exception caught by C++ leaves `exn_object` set; the next exception that
passes a callback is taken for a second one and ends the program (`ExnReleased` states
the opposite and fails when added to `Tables.cfg`).  A foreign exception that reaches an
ML `handle` enters it with NULL for the exception object.  `cleanup()` of `exn.c` frees an object
that was allocated in the heap of SML#.

## 10. The stop-the-world collectors

`Heap` says what a heap is to a program: a graph of objects in a canonical form, which
changes by allocation, reads and writes.  A collection is no step of it.  Each collector
is a machine of its own over the variables of `Mutator`; `MCHeap` takes one of the four in
each behaviour and maps its memory to the graph that is reachable from the variables
(forwarding pointers followed), with
`INSTANCE Heap WITH Slots <- ..., MaxObjects <- ...`.

| Module | Code | Steps of a collection |
|---|---|---|
| `Cheney` | `heap_cheney.c` | `forward_root`, `forward_region`, `forward_deep`, `do_gc_end`, `slow_alloc` |
| `Reppy` | `heap_reppy.c` | `forward_remembered`, `forward_variable`, `scan_object`, `reppy_end`, `reppy_retry` |
| `BitmapHeap` | `heap_bitmap.c`, with MINOR_GC | `mark_root`, `pop`, `mark_kept`, `bitmap_sweep`, `bitmap_retry` |
| `Otomo` | `heap_otomo.c` | `otomo_mark_root`, `otomo_pop`, `mark_all`, `otomo_end`, `otomo_retry` |

`heap`: 586,002 states.  `HeapKept`, the refinement: no object that can be reached is
lost, copied twice, overwritten or reached through an old address, at any step of a
collection.  (The refinement is of the graph alone: it would not tell a step of a collector
from a step that the program could have made in its place.)  `OldToYoung`: between collections every old-to-young pointer is known to
the next minor collection.  `UnreservedHasRoom`: an assertion of `find_segment`.
`OverMeansFull`: "heap exceeded" is only said when it is.  `OldToYoung` and `OverMeansFull` are
composed of what the modules of the collectors state for themselves (`SlotsRemembered`,
`WritesKnown`, `OverMeansMarked`, `OverMeansInUse`), and these are what is proved below.  Bounds: two local variables
and a global; 3 objects per Cheney space; 3 generations of 2 objects; 2 segments of 2
blocks; 4 blocks in words of 3 bits, so that the search changes words; 6 steps of the
program (collections not counted).  Reppy begins with an object that has survived in
each generation, a state that a program reaches by allocating with collections in
between, and does the other 4.  `CHECK_DEADLOCK FALSE`: the program ends after its
steps, or with "heap exceeded".

### Proofs

`Heap` numbers objects by a walk through the graph, which is recursive.  For the proofs
`ObjectGraph` says the same with addresses and without recursion: `Reachable` is the
intersection of all sets of objects that the variables and the objects in the set
itself refer to.  Whatever is not reachable is free: `New` may take its address, and
`Move` gives all reachable objects new addresses, different ones for different objects,
with the same pointers between them.  The fields of other objects are not constrained.
`CheneyInv`, `ReppyInv`, `BitmapHeapInv` and `OtomoInv` are programs with one collector each, with the
refinement mapping (`CheneyObject` and `ReppyObject` follow a forwarding pointer; with the
other two objects stay where they are) and the inductive invariant.  Nothing is bounded: any number of variables, objects and steps.

*Cheney.*  Every step of a collection is a `Move`: the copy of one object moves it, and
the end of the collection moves nothing, because from-space has nothing left that is reachable.
`Copies` is what makes a copy land on a free place: each forwarded object has one copy, so
to-space has as many objects as are forwarded, which are at most those of from-space.
That is the assertion of `forward` (`CheneyCopyHasRoom`), which a release build does not
test.  `Variables` and `Fields` say of each pointer
which space it may point to: to-space behind the scan pointer, from-space before it.

*Reppy.*  Objects are in one of two sets: `Old`, those that are in from-space of a
generation that is collected, and `New`, all others, wherever they have been promoted to.
`Waiting` are the new objects that the loop of `do_gc` has not come to.  A slot of an old object, of one
that waits or of a root that has not been forwarded may refer to `Old`, or to a generation that is
not collected (`Pre`); all other slots refer to `New`.  The exception is what makes the collector
generational: an object that is too old to be collected may refer to `Old`, if its slot is in
`entries`, the remembered slots that have not been looked at yet.  `Remembered` is the
invariant behind it: a slot that points from a generation to a younger one is in the remembered
set of the space where the young object is.  What is hard are the
promotions.  `forward_remembered` tells by its generation alone whether a slot still
points to the objects that an entry was made for; an object that was copied meanwhile, and is now
in to-space of that generation, would be copied again.  This cannot happen because entries are looked at
from old to young generations and an object moves up by one generation at most: all
entries that a forwarded slot has left are for younger generations than the one it points to
(`e[1] < HOW_OLD(...)`), and are dropped.  The slots of objects that the loop finds are remembered by
`scan_object`.  At the end nothing waits (`NoneWaits`: the loop has passed the
collected generations and the next one, where promoted objects are), so nothing
that can be reached is in a space that is cleared.  When a space is full, the model stops
(`Over`), so the proof says nothing about what a release build does after that, see below.
`ReppyNullAssumption` says that `NULL` is no address, nor the mark of a full space.

*BitmapHeap.*  A mark means two things: the object has been reached by the collection that
runs, and it is old, so that a minor collection starts from the marks of the last one.
`Marked` is what makes that right: at any time what a marked object refers to is marked, or
the object is in the stack.  The write barrier puts an old object there that is updated, and
marks what a global refers to; a collection takes it out and marks what it refers to.  So the end of a minor
collection is that of a major one: the marked objects are closed, and nothing that can be reached is given
up.  `Young` says where objects without a mark may be, namely in reserved segments before
`alloc_ptr`; therefore a block that the search finds has no object although no mark bit says so, and the
write barrier, which marks objects, does not fill a segment that is not reserved (`Room`,
`UnreservedHasRoom`).  `Lists` says that a committed segment is in one list, once, whatever
`sweep` and `shrink_heap` have done; with it a heap that cannot be extended after a
major collection has no free block (`OverMeansMarked`).  The proofs about lists use
`Those`, which is defined by a recursive function: that it exists for all lists, and
what it takes from them, is proved by the least counterexample (`ThoseDefined`,
`ThoseElements`).

*Otomo.*  A new object may only take a block without an object.  During the program's run
no bits are set, so the bitmap alone does not show which blocks are free: `Behind` says
that it does from the cursor on, and the search never looks before it.  `Bitmaps` relates
the bitmap, the tree above it and the sentinels of both; from it follows that the search
finds a free block of the heap at or behind the cursor (`NextIsFree`), and overlooks none
when it starts at the first (`NothingFound`), so that "heap exceeded" means a full heap
(`OverMeansInUse`).
`Traced` is the usual invariant of marking, so at the end of a collection the marked
objects are closed and nothing that is reachable is given up.  The proofs need
`LayoutAssumption`: the words of a bitmap are fewer than the bits of a word, since the model has one
level of the tree.

Abstracted: one block size and one field per object; the tree of `heap_otomo.c` has one level
above the bitmap, where the code climbs up to five (1169-1225); objects outside the heap;
MULTITHREAD; statistics; the limit on the size of a remembered set.  The stack scan and
`sml_global_barrier`, of which only the uses are in the repository, are external.

Remarks from reading.  `heap_bitmap.c`: `shrink_heap` and `free_segment` both decrement
`num_committed`; `extend_heap` ignores its argument; MINOR_GC is off by default.
`heap_reppy.c`: the loop over `water_mark` at the end of a major collection writes
index `gc_level + 1`, one past the array; the assertion on the room of `to_space` when
an object is promoted can fail in a nearly full major collection (here this is
"over").  `heap_otomo.c`: `mark_all` calls `mark(*slot)`, which takes an object for a slot;
with CHECK the heap is cleared before `sml_check_finalizer` looks at it.

## 11. Proved and checked

Proved, for every value of the constants that the named assumptions allow:

| Module | Theorems | Hypothesis |
|---|---|---|
| `HandshakeProofs` (section 3) | types, `CounterExact`, `OneActionAtATime`, `RootsBeforeMark`, `ExclusiveAction`, `Asserts`, `QuietBetweenCollections`, `DeadIsLeftAlone` | none |
| second part (3) | `InRounds`: the handshake implements `Rounds` | none |
| last part (3) | `HelpStaysOffered` | none; the property excepts a repeated MARK (finding 2) |
| `ConcurrentMarkProofs` (4) | `KeptInv`, types, `LiveUnlessMissed`, `TracedUnlessMissed`, `SnapshotUnlessMissed` | none, and any timing; the properties end at the moments of `gap` (findings 3 and 4) |
| `UserRootsProofs` (5) | types, `EnumSafe`, `RootsEnumerated`, `ContextKept`, `LockReleased` | no callback by a thread that was moved, as in the run |
| `SegmentsProofs` (7) | types, `LiveNotReturned`, `CollectBitsClear`, `ReadyToUse`, `FindBitmapFirst` | none, and any timing; `CollectBitsClear` excepts the segments of `stale` |
| `UnwindProofs` (9) | `PadsLeft`, `ContextMatches`, `ExnHeld` | none |
| `CheneyProofs` (10) | invariant of a collection, `CopyHasRoom`, `ObjectGraph` is implemented | none |
| `ReppyProofs` (10) | invariant of a collection, `SlotsRemembered`, `ObjectGraph` is implemented | none |
| `BitmapHeapProofs` (10) | `heap_bitmap.c`: invariant of the marks, `WritesKnown`, `UnreservedHasRoom`, `OverMeansMarked`, `ObjectGraph` is implemented | none |
| last part (10) | `heap_otomo.c`: invariant of the bitmap, `FoundIsFree`, `OverMeansInUse`, `ObjectGraph` is implemented | none |

The hypothesis of `UserRootsProofs` and the exceptions of the properties are what a finding or
a remark is about: without them TLC refutes the theorems.

Only model-checked:

- liveness (`WaiterReleased`, `EnterReturns`): out of reach of the prover;
- `SplayTree`, `Callbacks` and `Heap`, which are defined by recursion over trees,
  lists and graphs, and with them `Finalizers`: facts about all trees or graphs need
  induction over data;
- `GlobalRoots`: sorting and binary search are recursive, too.

## 12. Not modelled

- The unwinder, MassiveThreads and pthread: outside the repository.
- `sml_gcroot_unload` and start-up (`init.c`): sequential, before or after everything else.
- `prim.c`, `object.c`, `netlib`: conversions and I/O without state that others see.
- `heap_malloc.c` and the Boehm heap: wrappers of other allocators.
- A signal handler that interrupts the runtime itself; the `signals` bit set and the check
  hook of `signal.c`.
- Weak memory: every model is sequentially consistent.
- Threads library, Foreach, LoadFile: planned or of low priority (section 2).
- The compiler, the basis library and the vendored libraries: sequential
  transformations of large data, out of reach of small instances.  The completions
  generator itself keeps no state.
