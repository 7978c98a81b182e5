# TLA+ models of the cccc virtual machine

cccc compiles C to bytecode and interprets it. Most of the compiler is
sequential text and tree processing. What is hard to test is in the runtime:
guest threads that are host threads sharing *one* set of VM registers under a
global lock (the GIL), a test harness that unwinds and abandons such threads,
a heap whose automatic storage is reclaimed by rewinding a bump pointer that
all threads share, and the OpenMP runtime, which runs without the GIL on a
lock-free deque, hand-made barriers and sleeping threads. This directory models
all four.

Paths below are relative to the repository root.

## Inventory

| Component | State | Operations | Interacts with | What makes it correct |
|---|---|---|---|---|
| VM heap (`src/ops.c`, `src/vm.c`) | `heap_ptr`, `heap_end`, `sorted_allocs`, `heap_marks` per thread | ENT3, LEV3, CALLT, HMRK, HREL, longjmp, thread exit, ALCV/ALCA/MALC/ALCB/MALCA/PMEMA, MFRE | code generator (where HMRK/HREL go), threads (marks are parked with the registers) | live storage is never handed out again, stays findable, and is reclaimed in the end |
| Guest threads (`src/stdlib/pthread.c`, `src/vm.c`) | GIL, `active_thread`, `current_tls_seg`, registers, `ThreadRecord`s, `main_snapshot` | create, join, detach, exit, blocking calls, once, TSS destructors, top-level runs | every blocking library wrapper, the harness, `cc_run_at_regs` | each thread runs on its own state; records outlive their users; nobody waits for ever |
| Test harness (`src/testing.c`) | test number, `run.failed`, `run.timed_out`, `thread_epoch`, `abandon_epoch` | start, hooks, assertion failure, alarm, abandon, reap, teardown | threads (flags, safe point), unwind points | a failed test ends, and only its own threads are stopped |
| Dispatch loop (`src/vm.c`, `src/ops.c`) | pc, registers, pending flags | one opcode; the safe point | everything | safe point reacts to every pending request |
| Code generator (`src/codegen_*.c`) | labels, block nesting | statements to opcodes | heap (HMRK/HREL), cleanup scopes | every path through a block is accounted for |
| OpenMP pool, loops, tasks (`src/shims/omp`, `src/shims/pool`) | team, barrier sense, deques, dependences | fork, barrier, loop chunks, ordered, doacross, spawn, steal, wait | host threads, no GIL | each iteration and task runs once, in dependence order, and barriers are passed together |
| Kernel launch (`src/shims/kernel`, `src/stdlib/kernel.c`) | work items, group barrier | launch, barrier, exit of an item | host threads, guest threads | items meet in step, an item that returns holds nobody, a launch ends |
| Signals (`src/stdlib/signal.c`, `src/host_signal.c`) | pending flags, handlers | host handler, delivery at the safe point | dispatch loop | no signal is lost or delivered to a stale handler |
| Frame epochs (`src/ops.c`) | `frame_epochs`, `live_epochs`, stack intervals | push, pop, truncate | longjmp, harness unwinds | a dangling pointer is never taken for a live one |
| Hash map (`src/hashmap.c`) | buckets, tombstones | put, get, delete, rehash | everywhere | behaves as a map |
| Watch and reload (`src/watch.c`, `src/reload.c`) | pending changes | change, debounce, swap | safe point | no change is lost; running code is not freed |
| Lock-order tracking (`src/stdlib/pthread.c`) | held locks, edges | lock, unlock, cycle search | mutexes | reports exactly the cycles |
| Build system (`src/build.c`) | targets, stamps, jobs | plan, run, cache | processes, files | rebuilds what changed, once |
| Tokenizer, preprocessor, parser, types, macros, reflection, native output, linker, debugger, REPL, library wrappers, configuration | trees, tables, text | sequential | the VM | out of reach of a small-state model; see `PROJECT.json` |

The behaviours that are hard here: threads change the VM's only register file
under each other at every blocking call; main is unwound with a host `longjmp`
from any point, so code after a call may never run; threads cannot be killed,
only asked; a thread may wake after everyone stopped waiting for it; blocks are
left by jumps that skip their bookkeeping; the bump pointer moves back while
other threads hold storage above it. `PROJECT.json` lists each such hazard at
its line with the property that would catch it.

## Modules

| Module | Models | Theorems |
|---|---|---|
| `VmHeap` | bump allocator, heap marks, reclamation | `VmHeapProofs` |
| `GuestThreads` | GIL, parked state, thread life cycle, `pthread_once`, runs of main | `GuestThreadsProofs` |
| `TestHarness` | extends `GuestThreads` with the `--testing` loop, abandonment and the reaper | `TestHarnessProofs` |
| `TaskPool` | what a task deque promises (abstract) | |
| `OmpDeque` | the lock-free task deque, access by access; implements `TaskPool` | `OmpDequeProofs` |
| `OmpTasks` | tasks of a team: spawn, dependences, waits, taskgroups, completion, barrier, end of region | `OmpTasksProofs`, on `OmpTasksInv` and `OmpTasksSteps` |
| `KernelGroup` | work-item threads of a kernel with barriers | `OmpRegionProofs` |
| `OmpRegion` | extends `KernelGroup` with the thread pool, worksharing loops, `single`, `ordered`, doacross, kernels | `OmpRegionProofs` |
| `MC...` | the modules TLC runs: symmetry sets, and the programs and regions that are run | |

Definitions whose comment says `mutant` are not used by the specifications.
Each is a plausible slip in the definition below it, and `PROJECT.json` names
the property that notices it.

### VmHeap

Offsets and sizes are in units of 8 bytes. `sorted_allocs` holds the headers in
append order, `heap_marks[t]` the marks of thread `t`, each with the frame it
belongs to (`bp`), the nesting depth of its block (-1 for the frame's own mark)
and the bump pointer at the time. The guest stack grows down in the code; here
a frame is its level, so `bps[i] < new_bp` becomes `bp > level`.

`frames[t][i]` is the number of VLA-declaring blocks open in frame `i`: what
codegen knows as `heap_mark_nest_depth`. `live` is not in the code. It says
which storage the program may still use, by the rules of C: a VLA until its
block is left or control goes back past its declaration, an `alloca` until its
frame ends, a malloc'd block until it is freed. `forfeit` records that a mark
was lost on purpose (a tail call, or no memory for the arrays).

The actions are the opcodes. All of them run under the GIL, hence one step
each. The loops of the code that pop marks from the top while a condition holds
are stated with `Remain`: which number of entries is left.

* `Call`, `Return`, `TailCall`: ENT3, LEV3, and CALLT with the ENT3 it jumps to.
  A tail call may pass a pointer to the caller's VLA, so that storage stays
  live as long as the reused frame.
* `EnterBlock`, `ExitBlock`: HMRK, HREL. `JumpOut`: any jump out of blocks, or
  backwards past declarations, with no HREL. `JumpIn` (only in `SpecWithJumps`):
  a case label or `goto` into a block, past its HMRK.
* `LongJmp`, `ThreadExit`: `heap_marks_truncate_to` to the target frame, or to
  nothing. The start of a top-level run does the latter with what an abandoned
  one left.
* `AllocVla`, `AllocOther`, `AllocAligned`, `Free`: the allocating opcodes over
  `vm_heap_bump_alloc_ex` and `vm_heap_grow`, and MFRE. A refused allocation
  changes nothing and is not a step.

`heap_reclaim_enabled` is set throughout. It is what makes rewinds happen; with
it off `heap_rewind_to` returns at once. It excludes heap canaries and every
address-keyed checker, so those are not in the model.

### GuestThreads

The VM's registers, `active_thread` and `current_tls_seg` are the record `ctx`;
each component is the name of the thread it belongs to. `pause` is the
`GilPause` on the stack of a parked thread, `saved` the two locals of
`vm_thread_start`. `rec` has the fields of `ThreadRecord` that control depends
on, plus `freed`. `pc` says where a thread is: in guest code, in a blocking
call, in `pthread_create` or `pthread_join`, between its last guest
instruction and the end of its host thread, or (main) between two top-level
runs.

One step is what a thread does between taking the GIL and giving it up without
calling the guest. Steps without the GIL (the host `pthread_create`,
`pthread_join`, the last lines of `vm_thread_start`) are steps of their own.
`Block`/`Unblock` stand for every wrapper that releases the GIL: mutexes,
conditions, sleeps, and all POSIX calls that go through `posix_util.c`. What
the call waits for is not modelled: it may return whenever the GIL is free.

`Features` says what guest programs do besides creating and joining threads, so
that a run can say exactly which programs it is about:

| Feature | Programs that | In a passing run |
|---|---|---|
| `nested` | create and join threads in workers | yes, outside the harness |
| `dtor_blocks` | block in a TSS destructor | yes, outside the harness |
| `once` | call `pthread_once` | yes, outside the harness |
| `once_blocks` | block in the init routine | no: `threads_once` |
| `once_exits` | end their thread in the init routine (`pthread_exit`, a failing assertion) | no: the state word stays set (`pthread.c:571`, `vm.c:3012`), and later callers pass |
| `detach` | detach a thread that may already have exited | no: the record is freed under the thread (`pthread.c:561`) |
| `strays` | let threads outlive main's top-level run, outside a test | no: main then runs on their stack (`pthread.c:198`) |
| `late_joins` | join in a teardown hook what the reaper freed | no (`pthread.c:1702`) |
| `survivors` | let threads of passing tests outlive the reap of a failed one | no: `harness_survivors` |
| `waits` | block for longer than the reaper waits | no: `harness_abandoned` |

The "no" rows are limits of the code, not of the model: turning the feature on
makes a property of the run fail, and each is a hazard in `PROJECT.json`.

### TestHarness

Adds the test loop: `StartTest`, `HarnessRun` (setup hooks, test function,
teardown hooks), the three ways to fail (`FailOnMain`, `Timeout`,
`FailOnWorker`), the dispatch loop's safe point (`SafePoint`, which does nothing
unless a reap is under way), `Abandon` (set the request, then wait for the GIL), the reaper
(`ReapBegin`, `Nap`, `NapOver`, `ReapEnough`, `HostJoin`, `ReapDone`), and the
ends of body and test. An assertion may fail in a worker's body or in one of its TSS
destructors. The unwind of main is `cccc_unwind_point_restore`: keep
the state if main held the GIL, release it, forget the call main was in.
The per-test variables are reset at the end of a test instead of at the start
of the next, which no step in between can tell.

### TaskPool and OmpDeque

`OmpDeque` is the deque of `src/shims/omp/tasks.c`: the owner pushes and takes at
`bottom`, thieves race for `top` with a compare-and-swap, the ring doubles when
it is full and old rings stay readable. Nobody holds a lock, so every action is
one access to shared memory. The code's acquire/release pairs and its two
sequentially consistent fences are what makes interleavings of these accesses
the right behaviours to explore; weaker orders are not modelled.

`TaskPool` has three operations: put, take the newest, steal the oldest. The
refinement maps the waiting tasks to the slots from `top` up to `Bottom`, which
is `bottom` plus the task the owner has withdrawn but not yet won (`dq_take` lowers
`bottom` before it looks at `top`). A steal is the step of its compare-and-swap,
a push that of the store to `bottom`.

### OmpTasks

One team and its tasks. The deque of a thread is a sequence with atomic
operations, which is what `OmpDeque` shows it may be taken for. `rec` holds the task
records with their counts of children, references, dependences and group;
`stack[t]` is thread `t`'s C stack: the tasks it is inside, with the place the
innermost one is at. A section under the team mutex is one action, unless it
reads what others change without the mutex; then `tm` stays held between
actions. `nwait`, `watch` and the slots' condition variables, and `sleepers` and
`tc`, are separate steps, in the code's order: that is where a wake-up could be
lost. `SpuriousWake` lets a wait return for no reason.

The program is open: a running task may spawn the next task of one of
`Programs`, wait, open or close a group, or end. `task_full` decides from timings
whether a spawn runs in place; here it is a free choice between `CapMin` and
`CapMax` queued tasks. `epoch`, `creator`, `within` and `home` are history.

### OmpRegion and KernelGroup

`OmpRegion` is a team from `__cccc_pool_run` to its return: `pool` is what the workers
see, `team` the record on the caller's stack (it is gone once `alive` is false),
`da` the doacross loops by number, `th` each thread's place and thread-local
variables, which `__cccc_team_run` saves and restores around nested regions.
`ran` and `fin` count what the iterations did. The order of the runtime calls
around a construct is what `parse_omp.c` emits. A compare-and-swap and the load
before it are two actions; a doacross wait that goes to sleep is four. Tasks are
left out, so that the barrier and the drain find none; `OmpTasks` has the barrier
with tasks.

`KernelGroup` is the launch of a kernel that uses barriers: one thread per work
item, created one by one, groups one after the other, each with a new barrier.
Items may diverge: one that returns leaves the barrier, which opens if all
the others are waiting.

## What the runs check

| Run | Expect | Shows |
|---|---|---|
| `heap_threads` | pass | two threads, aligned requests and lost marks included: `NoLiveOverwritten` and `SortedAllocs` whatever the interleaving of allocations and rewinds |
| `heap_single` | pass | one thread, nested frames and blocks with every kind of exit, mark-array failures, growth to the reservation: `HeapInv`, `LiveTracked`, `HeapBounds`, `MarksOrdered`, `MarksProtectLive`, `QuiescentReclaimed` |
| `heap_jumps` | violation | a jump into a VLA block makes HREL reclaim a live VLA of the enclosing block |
| `threads_plain` | pass | `OwnContext`, `NoUseAfterFree`, `OnceCompleted`, `ThreadsInv`, and `EveryThreadEnds` |
| `threads_once` | violation | `pthread_once` returns before the routine has completed |
| `harness_reap` | pass | `OwnContext`, `EpochIsolation`, `NoUseAfterFree`, and `ReapEnds` |
| `harness_abandoned` | violation | an abandoned thread runs again after the reap |
| `harness_survivors` | violation | main runs on the stack of a thread left by a passing test |
| `omp_deque` | pass | `OmpDeque` implements `TaskPool` (`PoolSpec`): no task is dropped or taken from the wrong end; every task is in one place, waiting or with one thread (`RunsOnce`); a steal ends (`StealEnds`) |
| `omp_tasks` | pass | records and groups outlive their users (`NoDangling`), `DepsRespected`, `BarrierComplete`, `TiedWaits`, `GroupJoinedDeferred`, `NothingLeft`, and no wake-up is lost (`RegionEnds`) |
| `omp_taskgroup` | violation | a taskgroup ends before a grandchild of its in-place task |
| `omp_region` | pass | `EachOnce`, `HandedOver` (ordered, sink, copyprivate), `SlotPerChunk`, no worker touches a team that is gone (`TeamAlive`), `ItemsInStep`, and every region and launch ends (`RegionEnds`) |

### The five disagreements

* **`heap_jumps`.** Frame with a VLA block A left by `break` (its mark stays), then a
  VLA declared by the enclosing block, then a sibling block B at A's depth that
  is entered by `case` or `goto` past its HMRK. B's HREL finds A's mark and
  sweeps the VLA of the enclosing block. `cccc.h:701-703` says a missed HREL
  "can never over-reclaim".
* **`threads_once`.** The word is set, the routine blocks, the GIL is free, the second
  caller finds the word set. `pthread.c:1062-1066` argues that the GIL is held
  throughout. The same comment's "and the init has run" fails without any loss of the
  GIL when the routine calls `pthread_exit`: with `once_exits` in place of
  `once_blocks` the run fails as well, in a trace where main ends in the routine
  and the next top-level run gets past it.
* **`harness_abandoned`.** A thread sleeps through the grace period; `abandon_epoch`
  goes back to 0; the thread wakes, and the safe point (`vm.c:607`) does not
  look at its flag. `docs/testing-asserts.md:127`: "They never run again".
* **`harness_survivors`.** The reap puts main's state back and clears the snapshot,
  then releases the GIL. A thread of an earlier passing test runs and leaves
  its stack in the VM; the next top-level run finds no snapshot to restore.
* **`omp_taskgroup`.** A task that runs in place gets a zeroed record
  (`src/shims/omp/tasks.c:524-528`), so it is in no group. A task it defers inherits no
  group; the in-place task waits for that child, but the child's own children
  are waited for by nobody, and the taskgroup ends over them. `docs/openmp.md:64`
  says a taskgroup waits for "the tasks created in it and their descendants".
  `GroupJoinedDeferred` is what does hold: descendants through deferred tasks only.

### Bounds

* Heap: two threads with a block each and three allocations in all suffice for
  "A marks, B allocates above, A releases, B allocates again". With one thread, two
  frames and two nested blocks reach a stale mark below and above an open one,
  and let marks of different frames meet; what a rewind could take wrongly is
  one block too many, so the heap there is full with two. Sizes of one unit and
  a header of one unit keep every boundary case: offsets that coincide, a heap
  that is exactly full, a last chunk that is clamped (3 units of 5). `MaxAllocs`,
  `MaxFrames` and `MaxBlocks` are guards. The proofs of `HeapInv` need none of them.
* Threads: main and two workers, one blocking call per thread (`MaxCalls`), one
  further top-level run (`MaxRuns`). Two workers are what a stale context needs:
  one that left it and one that meets it. Records are never reused.
* Harness: two tests (an earlier and a later one), one run per phase, `Grace` of
  one nap in place of 200. Naps differ only in number.
* Deque: a first ring of one slot and four tasks make the ring grow twice, so
  that a thief may hold a ring two generations old; two thieves race each other
  as well as the owner for the last task.
* Tasks: two threads, three tasks, one barrier, one taskgroup, one spurious
  wake-up, and bounds of one or two queued tasks, so that spawns run in place
  and deferred. Three tasks are a writer, a reader and a writer, or a child and a
  grandchild with an uncle. The programs are in `MCOmpTasks`.
* Regions: seven regions with teams of one to three threads, any two in a row,
  so that a worker may be late from the first when the second starts. Loops
  have up to four iterations: uneven splits, short last chunks, and chunks that
  outnumber the threads. Kernels have three items, two barriers and two groups:
  an item may be at the second barrier while another has yet to leave the first.

Threads, the harness, the deque and the regions really may stop (every thread
has ended, all tests or regions have been run), hence `CHECK_DEADLOCK FALSE` there; that nobody waits for ever is
stated by the liveness properties instead.

### Fairness

`FairSpec` (guest threads): weak fairness of every thread's steps. It assumes
that guest code comes to an end and that a blocking call returns once the GIL
is free. The operating system schedules every host thread; the GIL is a plain
mutex, and with finitely many calls per thread nobody can hold it out of turn
for ever.

`HFairSpec` (harness): weak fairness of the harness's own steps; strong fairness
of what the host does for a worker (taking the GIL, ending at the safe point),
because the reaper gives the GIL up for a millisecond in every round and so
offers it again and again; weak fairness of the end of threads that belong to
other tests. Guest code of the test being abandoned gets no fairness: it may
spin for ever, and `ReapEnds` says that the safe point ends it anyway.

`OmpDeque`: weak fairness of every thief inside `dq_steal`. Nobody has to call it, and
the owner gets no fairness: the loop repeats only when somebody else succeeded.

`OmpTasks` and `OmpRegion`: weak fairness of "some thread steps", the weakest there is:
while a thread can run, one does, and task and loop bodies are finite. Loops that
spin on another thread's progress (the references at the end of
`__cccc_task_finish`, the baton of ordered regions) are guards, so no
fairness between threads is needed; a lost wake-up shows as a state in which
nobody can step before the region is over.

## What is proved

With TLAPS, for every value of the constants that meets the named assumptions.
Each theorem of an invariant is `Init => I`, `I /\ [Next]_vars => I'`, `I => property`;
what takes work is finding `I`.

### VmHeapProofs

`NoLiveOverwritten` is not inductive: whether a rewind is safe depends on the mark
it uses. `HeapInv` adds
* `MarksOrdered`: the marks of a thread are ordered by frame and, within a frame, by
  depth. The code's loops look at the top entry only; the order makes that
  equal to "all entries with the property" (lemmas `PoppedBelow`, `PoppedAt`);
* `MarksProtectLive`: a mark lies above all live automatic storage of outer
  frames, and above the VLAs of enclosing blocks *while its own block is open*.
  The proviso is the point: a mark of a block left by `break` protects nothing,
  and is harmless only because HMRK drops it before a block of that depth is
  open again. `JumpIn` opens a block without that, and breaks the invariant;
* `LiveScoped`, `LiveTracked`, `SortedAllocs`, `HeapBounds`: live storage belongs to
  active frames and is in `sorted_allocs`, which is sorted and bounded by
  `heap_ptr`.

`RewindPreserves` is the centre: a rewind to a target above all storage that the
sweep would take and that stays live keeps everything. Each action then shows
that its target is one. `HeapInvariant`, `TypeCorrect`, `NeverOverReclaimed`,
`LiveFindable`, `AllocsSorted`, `MarksMirrorCalls`, `MarksProtect` and `BoundsKept` follow, for
`Spec`.

`SingleThreadReclaims` (`QuiescentReclaimed`) assumes that there is one thread: with two, a
block of the other may pin what a rewind would take, and nothing brings the
pointer back later. Its invariant `ReclaimInv` says that the outermost frame's mark
is *clean*, that is, the end of a malloc'd or `__block` box with nothing swept
beneath it, or the bottom of the heap, and that no later mark lies below it; so
whichever way the frame is left, the rewind that ends it goes to a clean address.

### GuestThreadsProofs

`ThreadsInv` says who holds the GIL, that a parked thread's
`GilPause` is its own state, that the VM holds the running thread's state, and
(`TopOwn`) that between two runs of main the VM holds another thread's state
only if some thread has not been joined. A finishing worker restores what it
found at its start, which by then may be anybody's; it is the next thread to
take the GIL that puts things right, and main does so only from a snapshot or
when it resumed from a join. `PeersKnown` and `Fates` tie a join to the one
thread that may make it. `ContextKept` (`OwnContext`) and `ThreadsInvariant`
assume `"strays" \notin Features`; `RecordsKept` (`NoUseAfterFree`) also excludes
`detach` and `late_joins`; `ThreadsTypeCorrect` has no assumption and includes that
the init routine of `pthread_once` runs at most once. `OncePasses` (`OnceCompleted`)
excludes `once_blocks`, the case of the run `threads_once`, and `once_exits`: the thread
inside the routine then holds the GIL until the routine returns, so that no other
caller can see the state word in between, and the routine does return. It is about
programs outside `--testing`: a failing test may also cut the routine short
(`CutOnce`, `Unwound`), with the word left set. The other theorems of this module and
all of `TestHarnessProofs` allow both features.

### TestHarnessProofs

`HarnessTypeCorrect` (`HTypeOK`) and `OnlyFailedAbandoned` (`EpochIsolation`) hold for all
programs. They rest on `Verdicts`: `thread_epoch` is the running test, and both a test with an
outcome and the test being abandoned have a verdict; a flag can only be set for
the epoch of a reap under way.

`HarnessInv` is the argument for the snapshot. Main may be unwound from any
blocking call and workers then go on; main's state is at every moment in the
VM, in its `GilPause`, or in `main_snapshot`, or no worker is left that could have
replaced it (`MainKept`). The last case is why `cccc_pthread_main_unwinding` may skip
the snapshot when there are no test threads, and it needs that a thread with a
live host thread is on that list: epochs are not 0 and a freed record belongs to a
thread that has ended (`WorkerPlaces`). Each action is first reduced to what the other
threads can notice of it (`WorkerMoved`, `MainMoved`). `HarnessContextKept` (`OwnContext`) and
`HarnessInvariant` exclude `survivors` (the run `harness_survivors`), `detach` (a record is freed
under its thread, so the list is empty too early) and `nested` (a worker of a passing
test could create a thread between tests, which belongs to no test and is on no list);
`waits`, `strays` and `late_joins` are allowed. `HarnessRecordsKept` (`NoUseAfterFree`) also excludes
`late_joins`.

### OmpDequeProofs

`DequeInv` has four parts. `Positions`: `top` never passes `Bottom` (`bottom`, plus the task the
owner has withdrawn but not won), and they are at most a ring apart. `Pushing`: the
owner's stale `top` errs on the safe side. `WaitingPushed`: every waiting position
holds a task that was pushed. `Stealing`: as long as `top` is what the thief read,
the task there waits, and the ring the thief took up agrees there with the
current one, although the owner may have replaced the ring twice since. The
last is what an ABA on `top` or a reuse of a slot would break; it needs that two
indices less than a ring apart fall on different slots (`ModDistinct`).

`DequeImplementsPool` (`PoolSpec`) maps each access to a step of `TaskPool` or a stutter under
that invariant. `DequeRunsOnce` follows on the abstract side: `OnePlace` is kept by put, take
and steal. `DequeInvariant` and `DequeTypeCorrect` are the rest.

### OmpTasksInv, OmpTasksSteps, OmpTasksProofs

`OmpTasksInv` states the invariant `TasksInv`, with the lemmas about lists, stacks
and counts, and shows that waiting, waking, the barrier and the start of a task keep it;
`OmpTasksSteps` that the end of a task, references, taskgroups, spawning, queueing and
completion do; `OmpTasksProofs` that linking by dependences does, and it holds the theorems. No
property of `OmpTasks` is inductive: all speak of states or fates, while the code
acts on counters. `TasksInv` says what every counter counts.

* `StacksOK`: what may be below what on a thread's C stack; which states the task
  of a frame at a given place can be in (`Fate`); which counter the frame waits for
  (`Counts`) and which references it has yet to drop (`Drops`). No task is on two
  stacks (`Unique`), and none is both queued and on a stack.
* `RecsOK`: a task that waits in the graph waits for siblings that are not done and
  is in no queue; an entry names linked children only; a freed record has no
  reference and no entry. `QueuesOK`: a queued task is in one place.
* `ChildrenOK`, `LiveOK`, `GroupsOK`: the count of a parent, of the team and of a group is
  the number of tasks that have not been taken off it. The three differ, for
  completion takes a task off them one after the other with notifications in
  between (`Pending`, `Unsettled`, `GroupPending`).
* `RefsOK`: the references of a record are its own, one per child that is pending,
  one per dependence entry and one per frame that is about to drop it. `SleepOK`:
  `nwait` and `sleepers` are the numbers of threads between announcing themselves
  and getting up.
* `BarrierOK`: `barrived` is the number of threads of this generation, a thread in the
  barrier is at most one generation behind, and a task older than the generation is over.

`TasksInvariant` is `Spec => []TasksInv`. `TasksTypeCorrect` (`TypeOK`): the counters are
cardinalities. `RecordsHeld` (`NoDangling`): whatever still uses a record is one of the
four kinds of reference counted, so its count is above zero, and a freed one has
none (`RefsAre`). `BarrierCorrect` (`BarrierComplete`): the generation changes at `live = 0`
only. `RegionClean` (`NothingLeft`): once all threads are out, a record that is left has
an entry naming it in an older record that is left too; there is no oldest one.

The other three need what `TasksInv` does not say, who descends from whom:
* `GroupsJoined` (`GroupJoinedDeferred`) with `JoinOK`: a deferred task of a group that was opened in
  another task has inherited it, so that the group counts it. Only the children of
  in-place tasks escape the count; the run `omp_taskgroup` shows one.
* `TiedCorrect` (`TiedWaits`) with `TiedOK`: whatever lies on a waiting explicit task descends from it,
  and so does what was queued after its start, that is, above its `mark`
  (`MarkDescend`); that is why `__cccc_task_wait` may run the newest task of its own deque
  if it lies above the mark and must leave the others.
* `DepsCorrect` (`DepsRespected`) with `DepsOK`. `GraphOK`: a task in the graph waits for every earlier
  sibling it must follow that is not over, *or for a later sibling that must follow
  that one*: the entry of an address names only the last writer and the readers
  after it (`EntryLast`), and a writer forgets the readers it waits for. That an earlier
  sibling then is over when the later one starts goes by a least counterexample along
  that chain. `KinOK` relates the tasks in the graph to those that run in place:
  a task is linked before its creator creates another (`LinkLast`), and an in-place
  task lies on its creator's frame (`InPlaceOn`), hence is over before the next.

### OmpRegionProofs

`KernelInStep` (`ItemsInStep`): `GroupInv` says what the barrier's counters stand for. `n` is the
number of items that have not returned, those not yet created included, `waiting`
that of the items held in the current generation; an item that runs has met as
many barriers as there were generations, one that waits is at most one behind.
If all but one are held, then it is all the others (`AllOthersHeld`): the last
arrival and the return of an item open the barrier in just that case.

`TeamOutlives` (`TeamAlive`) and `RegionTypeCorrect` (`TypeOK`) rest on `RegionInv`:
* `PoolOK`: `pending` is the number of workers that have not seen the generation or are
  in the region (`Busy`); a worker in the region has seen the current generation
  and is in the team that is alive. So the join that finds `pending = 0` leaves nobody
  behind, and a worker outside the team that wakes late finds its number too high
  and does not look at the team;
* `DaOK`: a live doacross loop's `left` is at least the number of threads that have not left
  it (`NotLeft`), those still on their way to it included; a freed loop has
  none. Threads meet the loops in the order of the region's body, and each counts
  them in `daseq`;
* `LocalOK`: the place of a thread fits the construct it is at, and its base is never above
  the team's counter, hence no claim comes to the trap of `__cccc_omp_loop_next`
  whatever nowait loops are in progress at once;
* `TeamOK`: `barrived` is below the size of the team.

The proof has a layer in between: `Moved` says what a thread's step inside the region
may do to its own record and to the shared counters, `WithinRegion` that each action
is such a step, and `MovedPreserves` that such steps keep the invariant. Fork, join, and
the workers' taking and giving back a region are separate.

### Assumptions on constants

`HeapAssumption` (sizes and the header are positive, the pool is not empty and not
larger than its reservation), `ThreadsAssumption` (names are distinct), `HarnessAssumption`
(bounds are numbers), `DequeAssumption` (the first ring has a slot; the owner is no
thief), `GroupAssumption` (bounds are numbers), `TasksAssumption` (names are
distinct, the limits are ordered, and the team has more than one thread: a team of
one runs every task in place), `RegionAssumption` (team sizes are between one and
the pool's limit; the body of a region is a sequence of well-formed
constructs). The bounds `MaxAllocs`, `MaxTasks`, `MaxTeam` and so on stay parameters of the theorems.

### Only model-checked

* `EveryThreadEnds`, `ReapEnds`, `StealEnds`, `RegionEnds` (both): liveness under fairness is out of this
  prover's reach.
* `EachOnce`, `HandedOver` and `SlotPerChunk` of `OmpRegion`: that chunks partition a loop is a
  statement about quotients with a variable divisor and, for guided loops, about
  a function defined by recursion, that is, induction over data.

## Not modelled

* Heap: `realloc`, quarantine, tagging, canaries (reclamation is off with them),
  failure to grow `sorted_allocs` (an open TODO in the source).
* Threads: what mutexes and conditions wait for, thread-specific keys, the
  recursion count of the GIL, `cccc_pthread_cleanup`, an alarm between the two
  halves of taking or releasing the GIL.
* Threads and harness: the list `vm->test_threads` itself. A detached thread unlinks
  its record from it and frees the record after it has given up the GIL
  (`pthread.c:446-450`, `267-284`), while others use the list under the GIL, in
  particular the reaper, which keeps the next record across a host `pthread_join`
  (`pthread.c:1694-1705`). This is a real race of the code. In the model the
  unlink and the free are one step (`HostExit`) and the reaper looks at the set of
  threads afresh at each of its steps, so no run shows it: `NoUseAfterFree` says
  that the thread itself and its joiners do not use a freed record, not that
  nobody walks over one.
* Harness: forked tests, output capture, suite-level hooks, reporting.
* OpenMP: critical sections and locks (one host mutex each), reductions and
  `lastprivate` (data), the parsing of `OMP_SCHEDULE`, `collapse` and `ordered(n)` with
  n > 1, a host `pthread_create` that fails in `__cccc_pool_run`, two host threads that
  open regions at once, the double-checked creation of the task runtime,
  allocation failures (the runtime traps), memory orders weaker than interleaving.
* Kernels: index arithmetic, local memory, and the VM launcher's item pointer
  `vm->kernel_loop_item` with its faults.
* Not yet: signals, watch and reload, frame epochs, the hash map, lock-order
  tracking, the build scheduler. They have a protocol that could be modelled.
* The compiler proper: preprocessor, parser, types, macros, reflection, bytecode
  and native output. It is by far the largest part of the repository, sequential,
  and its errors are in the text and trees a small-state model abstracts away.
* The rest that `PROJECT.json` lists as `not_modelled`, with the reason.

## Plan

Done: all modules above, with proofs of every invariant but three of `OmpRegion`.
The next theorems are those three, in this order:

1. `SlotPerChunk` and the first half of `EachOnce` for dynamic loops: claims are disjoint
   because the counter only grows; every chunk begins at a multiple of the chunk size.
2. `EachOnce` behind barriers: how many barriers a thread has met, as in `GroupInv`.
3. `HandedOver`: the baton is never ahead of an iteration that is not over.

Models that could follow: `Signals` (pending flags and the safe point), `FrameEpochs` (the
stack discipline of `heap_marks`), `Hashmap` implementing an abstract map, `Watch`, and
the two halves of the GIL hand-over under the alarm in `TestHarness`.
