# rnidbg in TLA+

rnidbg loads Android ARM64 libraries and executables and runs them on an
emulated CPU, with the kernel, the dynamic linker and the Java VM replaced by
Rust code. This directory models that Rust code: TLA+ modules translated from
the source under `src/`, TLC configurations that check them on small instances,
and TLAPS proofs for most of the components: the thread dispatcher and the
mutexes on it, task contexts, the slices of the execution backend, the SVC gate,
ptrace, the descriptor table, open files, the JNI facade, the memory map, the loader
and the walks over its modules.

Contents: 1 the system, 2 what is hard about it, 3 the plan, 4 modules and how
they correspond to the code, 5 the runs, 6 bounds, 7 fairness, 8 proofs,
9 disagreements between code and documentation, 10 simplifications,
11 what is not modelled, 12 what is left.

## 1. The system

All of rnidbg runs in ONE host thread. The host program calls guest functions
through `e_func`; guest threads and fork children are tasks that the dispatcher
runs in slices on one emulated CPU. Guest code reaches Rust code through SVC
instructions, either real system calls or stubs that the emulator wrote into
guest memory. So nothing is preempted inside a handler, and every interleaving is
one of guest steps, slices and host calls.

| Part | State | Operations that change it |
|---|---|---|
| Dispatcher (`emulator/thread/`) | `task_list`, `thread_task`, `running_task`, each task's waiter, status, `tid_ptr`, fork state | `run_main_for_result`, `run_thread`, passes of `run()`, merging of new threads, `release_deadlocked_waiters` |
| Thread and wait calls (`linux/syscalls.rs`, `linux/thread/`) | waiters, futex words, unread bytes of pipes | `futex`, `clone`, `fork`, `set_tid_address`, `exit`, `exit_group`, `wait4`, `nanosleep`, `read`/`write` on pipes, `ppoll` |
| Dynarmic backend (`src/dynarmic/src/dynarmic/dynarmic.cpp`, the JIT behind it) | guest pages, translated blocks, pending invalidations, halt bits, tick budget, exclusive monitor | `emu_start`, `emu_stop`, `mem_map`, `mem_unmap`, `mem_write`, blocks of guest code, faults |
| Task contexts (`emulator/thread/`) | registers in the CPU and in each task, stack blocks, the loader's `sp` | first slice, save, restore, destroy, host call with `sp_back`, `run_thread` |
| Descriptor table (`sparse_list`, `linux/file_system.rs`) | slots, queue of free indices, pipes | open, pipe, close, `read` and `write` on a pipe, fork, exit |
| Open files (`linux/fs/`) | cursor, content, directory listing | `read`, `write`, `writev`, `lseek`, `getdents64`, mapping |
| Guest memory (`emulator/memory/mod.rs`, `memory/mod.rs`) | the memory map, the break, temporary blocks, the backend's pages | `mmap`, `munmap`, `brk`, `MAP_FIXED`, file maps, loading of segments |
| process_vm calls (`linux/syscalls.rs`) | guest bytes | `process_vm_readv`, `process_vm_writev` |
| ELF loader (`memory/mod.rs`, `linux/module.rs`) | modules in load order, reference counts, unresolved symbols, init functions | `load_library` with its recursion, relocation, `call_init_function` |
| Virtual linker library (`android/virtual_library/ld64.rs`) | the guest stack, the loader's modules | `dl_iterate_phdr`, `dlopen`, `dladdr` |
| Symbol lookup (`elf/hash_tab.rs`) | none (pure searches of hash tables) | by name, by address, through needed libraries |
| SVC gate (`emulator/syscall_handler.rs`, `memory/svc_memory.rs`) | stub list, stub memory | registration, the SVC callback, pre/post callbacks |
| Entry stack (`linux/module.rs`) | guest stack below the entry point | `call_entry` pushing argc, argv, envp, auxv |
| ptrace emulation (`linux/syscalls.rs`) | debug registers, stops, place on the worker's path | `ptrace` requests, `wait4` of a traced thread |
| JNI facade (`android/`) | local/global reference maps, classes, members, pending exception, copies in guest memory | the JNIEnv functions and host calls |

Paths are relative to `src/emulator/src/` (`sparse_list` is the crate `src/sparse_list`).
`PROJECT.json` lists every part with its source files, the parts that are
not modelled included, and `map` names the source lines of every definition.

How the parts interact: the SVC gate calls a handler; a handler works on the
descriptor table, the memory map, the loader or the JNI tables and answers in
X0, or parks the running task with a waiter and stops the CPU; the dispatcher saves the
task's context and gives the CPU to another task; `exit` zeroes the word a joiner waits for;
`fork` makes a task that shares memory and descriptors with its parent.

## 2. What is hard about it

The hazards are in `PROJECT.json` (`hazards`), each at its line and with the
properties that would notice it. They are of these kinds:

* **One loop, several lists.** A pass of `run()` walks a snapshot of `task_list`
  while the guest creates tasks in `thread_task` and ends tasks, and the release of
  deadlocked waiters jumps past the merge. A task could be lost,
  run twice, or left parked although it could run (`TasksConserved`, `MergedBeforeRelease`,
  `NothingReadyAtReturn`, `DeadlockRecovered`).
* **Wake-ups.** A waiter compares the word again when it is polled; exit, wake, store,
  unmap and timeout race to make it ready, and a waiter that gave its answer must not be asked
  twice (`JoinersRunnable`, `WokenRuns`, `CreatedRuns`).
* **Recovery by force.** The deadlock release writes 0 to futex words. Whether this
  breaks mutual exclusion depends on who else is parked (`MutualExclusion`,
  `OnlyExitedOwnersUnlocked`).
* **One CPU for everybody.** A register, stack pointer or TLS value of one task must not
  leak into another, and a host call must give back the host's stack (`OwnRegisters`,
  `ResumeExact`, `HostRestored`, `StacksDisjoint`).
* **A JIT below the memory calls.** Blocks are translated once and run again later; handlers change
  the pages, ask for flushes and stop the CPU from inside a block, and tasks are switched between LDXR and STXR
  (`FreshCode`, `StopEndsSlice`, `NoLostUpdate`, `SliceEnds`).
* **Shared and reused numbers.** Parent and fork child share one descriptor table whose
  numbers are reused; JNI handles are indices with a radix and flags
  (`DescriptorStable`, `DeliveredOnce`, `HandlesDenote`).
* **Long legal sequences.** Maps split, joined and unmapped in parts; libraries loaded
  twice, with cycles, or failing in the middle; nested walks over modules while one is being
  loaded (`MapExact`, `InitExactlyOnce`, `InitOrder`, `BindingsRight`, `WalkExact`).
* **Edges.** Zero-length and cross-page copies, empty directories, full stub pages, stack alignment
  for an odd number of arguments (`VmCopyExact`, `FileListing`, `GateExact`, `EntryReadBack`).

## 3. The plan

1. Dispatcher with its waiters and calls, its abstract specification `CoopTasks`, and
   the mutexes guests build on it (`BionicMutex`). *Done, with proofs.*
2. Descriptor table over its slot list, its abstract specification `FdTable`. *Done, with proofs.*
3. The state around and inside a slice: `TaskContexts`, `EntryStack`, `SvcGate`, `JitBackend`.
   *Done, with proofs for all but `EntryStack`.*
4. Memory and linking: `GuestMemory`, `ProcessVm`, `Loader`, `DlIterate`, `SymbolLookup`. *Done,
   with proofs for all but `SymbolLookup`.*
5. Files, ptrace and JNI: `FileStreams`, `Ptrace`, `DalvikVM`. *Done, with proofs.*
6. Theorems, in the order in which they are needed: types and conservation of tasks, joiners,
   refinement of `CoopTasks`, the order of a pass; the slot list, descriptors, pipes, refinement of
   `FdTable`; slices of the backend; mutexes, contexts, JNI handles, the memory map; loading, the
   SVC gate, ptrace, files and listings, walks, process_vm copies. *Done.* Section 12 says what is left.

Composition: `BionicMutex` extends `Dispatcher` with guest threads that lock;
`Descriptors` extends `SparseList`; `Dispatcher` instantiates `CoopTasks` and `Descriptors`
instantiates `FdTable`, each with a refinement mapping that a run checks and a theorem proves.

## 4. Modules and the code

Each module declares the state of its component as variables, has one action per handler
or step, and keeps the names of the source where TLA+ allows it. Ghost and history variables,
which the code does not have, are marked as such where they are declared. Operators called
"Mutant" in their comment are wrong versions of the definition that follows them; no
specification uses them, they serve to see that a property can fail.

**Dispatcher** (`thread_dispatcher.rs`, `base_task.rs`, `linux/thread/mod.rs`, the calls in
`syscalls.rs`). `pc` is where the host thread is: `idle` (no host call), `pass` (about to
snapshot `task_list`), `scan` (visiting the snapshot), `slice` (guest code runs), `exited` (the host process has
ended), `alive` (the loop after the main call that asks whether parked tasks can run). `BeginPass` takes the snapshot into
`scheduled`; `KeepTask` visits a task that `can_dispatch` refuses, with the side effect of that
method on pipe and poll waiters; `DispatchTask` resumes a task and writes what `on_continue_run` leaves in X0;
`EndPassMain`, `EndPassRelease`, `EndPassStuck` and `EndPassMerge` are the ways a pass ends, in the
order in which `run()` tests them; `AliveCheck` is that question, which also notes a yield in the waiters it asks. The guest is
arbitrary: in a slice it takes any step named in `Ops`, and a slice has at most `MaxSteps`
steps. `Clone`, `Fork` and `CreateFails` create tasks, `FutexWaitPark`, `PipeRead`, `Ppoll`,
`Wait4` and `Yield` park, `FutexWake`, `Store`, `Unmap`, `PipeWrite`, `ExitThread` and `Tick` (the clock) wake.

**CoopTasks** is what the dispatcher promises: at most one task runs, only inside a host call,
created once and never back after it is gone. `Dispatcher!Coop` maps the status of each task to a stage.

**BionicMutex** puts threads that share bionic mutexes on the dispatcher. bionic is external:
the mutex is modelled from what `unlock_stale_futex` and `futex` rely on. `ParkInside` says whether
a guest may block while it holds one.

**TaskContexts** follows registers, TLS, stack blocks and the host's `sp` through slices, host calls
(`e_func` with `sp_back`), `run_thread`, `clone`, `fork` and the end of tasks.
A context is the owner and the progress it stands for, so "the registers of another task" is visible.

**JitBackend** is one slice on the dynarmic backend: the C++ glue, the JIT's `Run()` with its block cache
and halt bits, and the two callers in the emulator. A page and the block translated from it are one to one.
`Run` first serves the requested invalidations (`PerformRequestedCacheInvalidation`), `LookupBlock` translates or
finds a block, `CallSVC` and `SvcReturns` enclose a handler, which is represented by what it asks of the backend
(`dynarmic_mmap`, `dynarmic_munmap`, `dynarmic_mem_write`, a stop), and `RunReturns` is the loop in `emu_start`
that starts `Run()` again after a flush, up to 1024 times. What the code does and the model keeps:
`mmap`, `mem_write`, guest stores and an `munmap` that fails half way invalidate nothing, and the guest's own cache
maintenance instructions have no effect, so a block may outlive its page's contents (the history variable `suspect`
collects these pages); page permissions are stored and never asked for; a block goes on to its SVC after an access
in it has faulted. The tick budget is counted and never ends a slice (section 9).

**SparseList**, **Descriptors**, **FdTable**. `SparseList` is the slot list with its
queue of free indices, as operators on one record. `Descriptors` is the table all tasks share, the
pipes, and the calls on them, with an identity (`obj`) for every open file. `FdTable` is
the promise: a partial map from numbers to files.

**FileStreams** is one open file of each kind behind a descriptor: cursor, content, listing.
**GuestMemory** is `memory_map`, `mmap_base`, temporary memory, images and the break over the backend's
page set. `discipline`, chosen in `Init` and never changed, is what the guest keeps to: it unmaps and maps over
parts of its own mappings only ("own"), it unmaps anything ("cuts"), or it also maps over anything and chooses the
addresses of file mappings ("none").
**ProcessVm** is the gather and scatter of the two copying calls, their loops as recursive functions over the lists of ranges.

**Loader** is `load_library` as a stack of frames: open, load needed libraries, resolve, run init
functions, with failed and repeated loads; the library files are a constant. **DlIterate** is the
assembly of the linker stubs block by block, on a guest stack that nested walks share.
**SymbolLookup** is the search in GNU and SysV hash tables, compared with a definition over all symbols.

**SvcGate** is the SVC callback, the choice by X8 and X16, and the stub region.
**EntryStack** is `call_entry` push by push, read back the way start code reads it.
**Ptrace** is the emulated tracer: attach, stops, debug registers, the worker's path and `wait4`.

**DalvikVM** is the JNI facade: reference pools, class and member ids, the pending exception, copies in guest
memory and calls of the host into native code. `disciplined`, chosen in `Init` and never changed, says whether the
guest passes only references it holds, as what they are, and ids with the class they were asked for.

The theorems (section 8) are in **DispatcherProofs** (with the mutexes), **SlicesProofs** (backend, contexts, SVC
gate, ptrace), **SparseListProofs**, **DescriptorsProofs**, **DalvikVMProofs**, **GuestMemoryProofs** (with the
process_vm copies), **LoaderProofs** and
**ServicesProofs** (files, walks). The modules whose names begin with `MC` give bounds for TLC; those that check several components also state what the run
asks of each of them.

## 5. The runs

| Run | Module | Shows |
|---|---|---|
| `dispatcher_threads` | MCDispatcher | Two host calls, two threads, futexes, polls, joins, unmapped words: no task is lost or listed twice, new threads are merged before waiters are released and run before the main task, a joiner of an ended thread can always run, and when a call returns no futex or child waiter is left that could run. |
| `dispatcher_fork` | MCDispatcher | Fork children, `wait4` and pipes: each host call gets its own task's answer (`OwnAnswer`), and the dispatcher implements `CoopTasks` (`CoopSpec`). |
| `dispatcher_live` | MCDispatcher | Under fairness a woken task and a created task run, and a pass that finds only waiters does not leave the loop stuck: some task runs again. |
| `mutex_exclusion` | MCBionicMutex | If guests do not block while holding a mutex, the forced release keeps mutual exclusion (`MutualExclusion`). |
| `mutex_park_inside` | MCBionicMutex | If they may block, a comment on the release is violated (`OnlyExitedOwnersUnlocked`, section 9). |
| `slices` | MCSlices | A block that runs is a translation of what its page holds, stops and faults end a slice, LDXR/STXR updates of interleaved tasks are not lost; each task runs with its own registers, TLS and stack, resumes exactly where it stopped, and a host call restores the host's stack and TLS. |
| `backend_spin` | JitBackend | A comment on the tick budget is violated: a guest that spins is never cut off (section 9). |
| `descriptors` | MCDescriptors | With a fork child: a descriptor denotes the file its holder was given until it is closed, numbers are reused before the table grows, pipes deliver each byte once and in order, and the table implements `FdTable`. |
| `dalvik` | MCDalvikVM | Handles, member ids and pending exceptions mean what they meant when handed out (`HandlesDenote`), host calls get native code's result (`HostGetsResult`), guest memory is freed with the size it was allocated with, and a careful guest meets no panic (`CarefulGuestSafe`). |
| `memory` | MCMemory | For a guest that chooses no addresses every mapped page has an entry unless a call failed half way, and for one that stays in its own mappings the map is exact, `munmap` succeeds and nothing panics (`MapExact`); for both, while no call failed half way, the address the emulator chooses is free (`FreshAddress`); a process_vm copy is exact, or a prefix when it fails (`VmCopyExact`). |
| `linking` | MCLinking | Init functions run once (`InitExactlyOnce`) and only after those of the needed libraries (`InitOrder`), imports are bound to the right module and stay bound (`BindingsRight`), lookups find exactly what is there (`LookupExact`). |
| `services` | MCServices | ptrace stops are at armed addresses, in order, and reported once (`TrapsFaithful`); files deliver their bytes once, in order, from where the guest was told it is (`FileBytes`); listings are complete; SVCs reach the handler they were registered for; an executable finds its arguments; `dl_iterate_phdr` visits, stops, answers and cleans up as it should; walks, read and listing loops and continued workers come to an end. |

Four of the runs (`slices`, `memory`, `linking`, `services`) check several components in one
state space. These components do NOT share state there: a variable `part` (`guest` in `memory`)
chosen in the initial state says which one a behaviour is about, and the others keep their
initial values. `dalvik` chooses in the same way between five bounded guests of one component.
Their properties are conjunctions of the properties stated in the components' modules, grouped by the
question they answer.

Deadlock checking is off in all runs because the system really may stop: the host need not make
another call, the bounds on tasks, files or loads are used up, or the emulator has panicked.
Each property has a mutant in `PROJECT.json`: a plausible wrong version of a mapped definition with which TLC finds the property violated.

## 6. Bounds

* Dispatcher: two main tasks (one in the liveness run), because what a call leaves behind is met by the next call (stale
  tasks, answers of an earlier call); two threads, because one wakes or joins another while the main
  task waits (three in the fork run, where a child of a child matters); one word and one pipe, because waiters on
  different words do not affect each other, except through the release, which treats each alike;
  `MaxSteps` 2, enough for a store followed by a park in one slice; `Timeouts` {1}, one that can expire, in the liveness run;
  no timed waits in the thread run, whose invariants are proved for every set of timeouts (section 8).
* Mutexes: three tasks on one word: an owner, a waiter and a task that ends or blocks.
* Contexts: three tasks, two host calls, three slices of a task, two stack blocks (so that a block is reused).
* Backend: two tasks, two pages with two contents (a page changes under a block while the other one runs),
  three calls of `Run()` in place of 1024, so that the limit is met; for LDXR/STXR one page and three updates of a word.
* Descriptors: six files ever opened (two pipes, or reuse after closes), five numbers of which one is never open,
  two bytes in a pipe (a partial read).
* JNI: three references in two pools, two nested calls, a radix of 2 in place of the code's 0x10000 so
  that the limit of member ids is met; page size 2 so that a copy spans pages.
* Memory: five pages and lengths to 3 for the guest that keeps to its mappings, four pages for the two others: a hole
  in the middle, at both ends, and across two mappings. The proofs hold for every size.
  process_vm: eight bytes in pages of two, lists of two ranges and one list that is too long, one call (`MaxCopies`).
* Linking: five libraries with cycles, diamonds, a virtual and a missing one, two loads;
  walks two deep and three calls long; three symbols with hashes that share bloom bits and buckets, four table shapes.
* Services: two paths that share an address; directory names around the record sizes 32 and 40; system call
  numbers at the edges of the ranges of the enum; up to three arguments with lengths around the 16-byte boundary.

`TypeOK` of each module names the ranges; every bound is a constant with a comment. Symmetry is used
for tasks and words in the safety runs of the dispatcher and the mutexes and for tasks in `slices`, never with liveness.

## 7. Fairness

`Dispatcher!FairSpec` has weak fairness of `Host \/ Guest`: one host thread runs both and does
not stop by itself. That a slice ends is a premise about the guest, stated by the bound `MaxSteps`: the backend
does not enforce it (`backend_spin`). Nothing is assumed of the clock, of the next `e_func`, or of which step the
guest takes. `JitBackend!FairSpec` has weak fairness of `InSlice`: a slice that has begun goes on.
`MCServices!MCSpec` has weak fairness of the next step of a walk in progress
(`WalkStep`) and of a guest that goes on with its loop (`ReadStep`: reads or lists again; `TraceStep`:
continues again): these are premises about the guest, and `LoopsEnd` says that the loop then ends.

## 8. Proofs

All theorems hold for every value of the constants that satisfies the `ASSUME`s of the modules:
any number of tasks, words, pipes, processes, files and bytes.

**Dispatcher** (assumption `ConstantsAssumption`: tasks, words and special values are distinct, bounds positive).

* `TypeCorrect`, `Conservation` (all of these are in `DispatcherProofs`): `TypeOK` and `TasksConserved`.
  `TasksConserved` says that the lists together hold each live task exactly once. It is not inductive: it does not say which of the
  lists hold what at each point of a pass. The invariant is
  `IndInv == TypeOK /\ LoopInv /\ Conserved`. `LoopInv` ties `status`, `runningTask`, `ran` and `mainRet` to `pc`
  (exactly the running task has status R; between passes the pass's own lists are empty; a main
  result ends the pass). `Conserved` states for each `pc` that the lists are free of repetitions,
  pairwise disjoint, and together are the live tasks. One lemma per group of actions
  (`GuestStep`, `EndOfPassStep`, `HostStep`, `CallStep`, `TickStep`) and lemmas for the ways a
  slice ends (`ContinueStep`, `SpawnStep`, `SuspendStep`, `DropStep`). `RetainAll` shows that the
  `retain` at the end of a pass never removes anything.
* `JoinersAlwaysRunnable`: a task waiting on the tid word of a thread that has ended can be
  dispatched. It needs `TidInv`: a tid is in memory only after its clone, and
  an ended thread's tid word does not hold its tid, because exit zeroes it.
* `Refinement`: `Spec => CoopSpec`, one case per action over the mapping of status to stage.
* `NoMergeSkipped`, `NewThreadsFirst`, `QuietAtReturn`: `MergedBeforeRelease`,
  `NewThreadsBeforeMain` and `NothingReadyAtReturn`. All three rest on `ParkedInv`: only a parked task has a
  waiter, so a task that waits for its first slice is never refused. A pass may begin with threads in
  `thread_task`, because a finished main task ends `run()` before the merge; `ReadyInv` says that such a
  pass then has a task it can run, so it never reaches the release. `OrderInv` says that tasks that wait for
  their first slice stand before every main task, in `task_list` before a pass and in what is left of the snapshot
  during one, and that the kept part holds none of them.
* `AnswersOwnCall`: `OwnAnswer`. `run()` returns the result of any main task that finishes, so
  the main tasks that earlier calls left in the list must never run again. Such a task waits in `wait4`;
  `AnswerInv` says that these tasks are part of a set (`Stranded`) in which each one waits for a child that is in the
  set too, or that ended without telling anybody. No step takes a task out of such a set. That a call leaves only
  stranded tasks behind follows from `LeftInv`: what is left when `run()` gives up cannot run, and when `AliveCheck`
  then lets the call return, each of these tasks waits for a child that is left as well or is gone. `KeptInv` and `RetInv` tie the
  pass to it: a pass that ran nothing keeps only tasks that were refused, and only the main task of the pending
  call finishes.

**Mutexes** (assumption `MutexAssumption`, and in each theorem the premise `ParkInside = FALSE`: a guest does not block
while it holds a mutex; `mutex_park_inside` shows that without it the second theorem is false).

* `MutexExcludes`, `ReleaseUnlocksOrphans` (`DispatcherProofs`): `MutualExclusion`, and `OnlyExitedOwnersUnlocked`, that
  the release unlocks only what exited owners left locked. `OwnerInv` says that a live owner is alone, not parked, and its word is
  locked. The release is the one step that zeroes a word without asking for the owner; it needs a pass that ran
  nothing, and by `KeptInv` such a pass refused every task, a live owner among them, which is not parked. `MutexIsStep`
  shows that all steps but the unlock are steps of the dispatcher, so that its invariants carry over.

**Contexts** (assumption `ContextsHold`).

* `SlicesOwnRegisters`, `StacksNeverShared`, `HostAlwaysRestored`, `ResumesExactly` (`SlicesProofs`): `OwnRegisters`,
  `StacksDisjoint`, `HostRestored` and the action property `ResumeExact`. The invariant is `ContextInv`: what a
  suspended task has saved is what its last slice ended with (`SavedExact`); the registers and the stack of a
  started task are its own (`OwnRegs`); a block has one live owner (`BlockInv`); while no host call was abandoned there
  is at most one host task, and only during a call (`HostInv`); and in each phase the host's stack pointer and what
  `run_thread` has put aside are the host's (`PhaseInv`).

**Backend** (assumption `BackendConstants`).

* `BackendTypeCorrect`, `StopsEndSlices`, `UpdatesKept`, `CodeIsFresh` (`SlicesProofs`): the types,
  `StopEndsSlice`, `NoLostUpdate` and `FreshCode`, for every number of tasks, pages and contents. `StopInv`
  ties the halt bits to `user_stop` and `mem_fault` at each point of a slice. `WordInv` says
  that a task whose exclusive state is set has seen the current value of the word. `CacheInv` says that a
  cached block is a translation of its page, or the page is in a requested invalidation that the next
  `Run()` serves before a block is looked up, or is one of the pages whose change asked for none.

**Descriptors** (assumptions `DescriptorsAssumption`, `FilesAssumption`).

* `SparseListProofs` proves what insert and remove do to a well-formed list: the index returned is free
  (`NextIndexFree`), the other slots keep their contents, and the queue of free indices stays exact.
* `DescriptorsTypeCorrect`: `TypeOK`, from `TypeInv == TypeOK /\ PipeNumbers /\ PosBounded`
  (pipe ends name existing pipes; a read position never passes the length).
* `DescriptorsStable`, `PipeEndsAlwaysKept`, `NumbersReused`: the invariants `DescriptorStable`,
  `PipeEndsKept` and `ReusedBeforeGrowth`, each inductive relative to `TypeInv`.
* `PipesDeliverOnce`: `DeliveredOnce`, from `DeliveredInv`, which adds the type and the length of the ghost `got`.
* `TableImplemented`: `Spec => TableSpec`, the table refines `FdTable`.

**JNI** (assumptions `DalvikAssumption`, `ObjectsAssumption`).

* `HandlesAlwaysDenote`, `HostAlwaysGetsResult` (`DalvikVMProofs`): `HandlesDenote` and `HostGetsResult`, for any guest,
  any number of classes, members and references and any depth of calls. The invariant is `DvmInv`. The
  pools are well-formed lists in which every reference handed out finds its object (`PoolInv`). Every id handed out is
  the place of a member of that kind and name (`IdInv`); lists only grow at their end, so it stays there. Every
  object in a pool and the pending exception is `Sound`: it has a class that exists, or, when it stands for an exception made
  by `throw_class`, its instance is in the global pool under a number that no guest was given, so nobody can
  delete it. `CopyInv` says that a buffer has the size of the object it was copied from for every reference to that object.
* `CarefulGuestsSafe`: `CarefulGuestSafe`, with the premise `MaxMembers < Radix`: fewer members than an id has numbers for,
  0x10000 in the code. Without it two members of a class can share the low part of their ids. One
  lemma per group of calls (`ReferencesSafe`, `MembersSafe`, `BuffersSafe`, `HostCallsSafe`) shows that
  no panic is reached; `IdFound` and `ClassOfAlive` are what the unwraps rely on.
* `Remainder` and `LeastNat` are facts about numbers that the library does not have in a form the provers can use. `LeastNat`
  (a set of numbers has a least one) comes from the well-foundedness theorems; a lookup takes the first place by it.

**Guest memory** (assumptions `MemoryAssumption` and `ImagesAssumption`: lengths are positive, and the segments of an
image are in order; the loader answers an error for others).

* `MapAlwaysExact`, `AddressesFresh` (`GuestMemoryProofs`): `MapExact` and `FreshAddress`, for every size of memory and every
  set of lengths, files and images. The invariant is `MapInv == TypeInv /\ CutInv /\ AnswerInv /\ OwnInv`. `MapExact` is not
  inductive: that a new mapping does not overwrite an entry depends on `mmap_base`. `CutInv`, for
  guests that choose no addresses, says that entries are apart and end below `mmap_base`, that an entry lies within
  the images or outside, and that what is mapped is listed. `OwnInv` says
  that what is listed is what is mapped, less what a failed call left behind, and what was released, that temporary
  memory is listed, and that the break's pages are exactly those below it.
* The argument is about `munmap`. `Outcomes` has five cases (`OutcomeCases`): nothing changes, the entry at the
  address is trimmed (`Trimmed`) or removed (`RemovedOne`), the loop removes the entries that follow (`RemovedAll`), or an
  entry is split (`Splits`). Each carves the new map out of the old one: every new entry is part of an old
  one, and only pages of the range go. For a guest that keeps to its mappings `LoopCovers` shows that the loop
  goes through to the end of the range: the entries of `Fits` cover it without gaps, so each entry the loop asks
  for exists, has the protection, and ends within the range. One lemma per action (`MmapStep` to `LoadStep`) follows.

**process_vm copies** (assumption `VmAssumption`: sizes and limits are numbers, pages are not empty, lists are lists of ranges).

* `CopiesExact` (`GuestMemoryProofs`): `VmCopyExact`, for every size of the address space and of its pages, set of mapped pages, list of
  ranges and limit, and any number of calls (`MaxCopies`). The first call finds a different byte at every address, so no two
  sources look alike; the proof of a call's step (`VmCallStep`) uses nothing of the bytes but that each address has one. What a call does depends only on the memory it finds, so `VmInv` adds no more than the memory's
  type; the work is in the loops. `KeptFacts`: the ranges that `read_guest_iovs` drops stand for no address, so the list it keeps
  stands for the same addresses in the same order. `PlacesExist`: each range has its place in that sequence of
  addresses. `GatherFacts`: the buffer holds the bytes at those addresses, all mapped, read before anything is written.
  `ScatterExact`: after i ranges the memory is that of a copy of as many bytes as the offset says, or, once a
  write failed, of some fewer; `CopyGrows` is its step (the bytes of one more range, later writes winning), `WriteFacts` the
  page-wise write that stops at the first unmapped page.

**Loader** (assumption `LoaderAssumption`: needed lists name libraries, and the virtual modules have different names and no
init functions).

* `InitsExactlyOnce`, `InitsInOrder`, `ImportsBound` (`LoaderProofs`): `InitExactlyOnce`, `InitOrder` and `BindingsRight`, for
  every set of library files, cycles and missing ones included, every sequence of loads and every depth. The invariant is
  `LoaderInv`. `MapInv`: a library is in `modules` at most once, and the libraries it needs stand before it.
  `NeedInv`: an instance has all that its library needs, in order. `StackInv`: each frame of `load_library` has loaded the first
  of them, and the frame above it loads the next. `UnresolvedInv`: a symbol is listed as unresolved only when no needed
  library defines it, and while a load is resolved or runs init functions only its own module has such symbols.
  `InitInv`: a module whose init functions were started has none left, and the modules before the cursor of the pass have none
  left. `BindInv`: an import is bound to the first needed library that defines it, and when a load has succeeded, to a
  module that defines it unless there is none. `InitOrder` follows because the pass goes in load order and `MapInv` puts needed
  libraries first.

**SVC gate** (assumption `GateAssumption`: the region's size is a multiple of 16).

* `GateAnswersRightly` (`SlicesProofs`): `GateExact`, for every size of the region, every order of registrations and SVCs. `GateInv` adds to it that regions are
  given out upwards in units of 16 bytes (`RegionInv`), so that a stub that crosses the end of the region stops the emulator before
  anyone jumps to it, and that the number in a stub has its own handler in the map (`StubInv`), because numbers are never reused.

**Ptrace** (assumption `PtraceAssumption`: a path does not pass an address twice).

* `TracerSeesRealTraps` (`SlicesProofs`): `TrapsFaithful`, a conjunction of invariants and action properties. `TraceInv` says of every
  thread that a trap is at an address armed since the last detach, that this address is the stored pc unless the tracer wrote it, and
  that it is the worker's place on its path; only armed addresses are in the debug registers. The search for the next hit then
  begins right behind that place (`StopsAtNext`), which is where the assumption is needed.

**Files** (assumption `FilesAssumption`).

* `BytesDelivered` (`ServicesProofs`): `FileBytes`, for every content, cursor, offset and byte count. `BytesInv` says that the cursor is
  where the guest was told it is plus what was delivered since, and that what was delivered is that part of the content.
* `EntriesListedOnce`: `FileListing`. `DirInv` says that the entries listed and the entries left are disjoint, free of
  repetitions and together the directory, and that `d_off` counts up from 1. A call of `getdents64` is a loop over all entries left
  (`retain`); `LoopInv` is its invariant after i entries.

**Walks** (assumption `WalkAssumption`).

* `WalksExact` (`ServicesProofs`): `WalkExact`, for any number of libraries, any nesting of walks and any `dlopen`, load and failed allocation
  inside the callbacks. All walks live on ONE guest stack, as words. `WalkInv` says what the stack looks like at each
  block of the stub: the caller's stack, two saved registers, a zero, and four words for each module that is
  still to be visited (`Frames`). `Outer` says that every enclosing walk waits in a callback with its own frames below the stack on which the
  next one began. `Returns` says that the walk that returned last left the stack and the answer as it should.

Loops over data (`retain`, the list of modules with an ELF file, the loops over ranges) are recursive functions. The library's induction
theorems cannot be used here, so their proofs take the least step at which the loop's invariant fails (`LeastNat`, from the
well-foundedness of the numbers) and derive a contradiction; that the recursive function exists is proved in the same way (`LoopExists`, `NamesExist`,
`RoundsDefined`).

What a proof attempt showed: for a guest that chooses addresses not even "every mapped page is listed" holds, although
TLC finds no counterexample in four pages; it takes six. A file is mapped at an address above `mmap_base`, where the code
leaves `mmap_base` alone; a `munmap` across two entries leaves an entry that lists an unmapped page; a later `mmap`
at `mmap_base` then puts a shorter entry in its place, and pages behind it are mapped and not listed. `load_library` at
`mmap_base` can likewise meet such a file and panic. Of this guest `MapExact` therefore claims the types only.

Some leaves name the prover (`Zenon`, `SMTT(30)`): the SMT translation slows down with every obligation of a large
module, and these leaves do not need it, or need more time.

Only model-checked: liveness and `ENABLED` (`WokenRuns`, `CreatedRuns`, `DeadlockRecovered`,
`LoopsEnd`), which the prover does not handle; `LookupExact`, because `SymbolLookup` has `RECURSIVE`
operators, with which the prover loses its SMT backend; and `EntryReadBack`, a fixed sequence of about thirty pushes that
TLC runs through for every number and length of arguments that matters (the remainders of 8 and 16).

## 9. Disagreements between code and documentation

Two are runs, `mutex_park_inside` and `backend_spin`:

* `src/emulator/src/linux/thread/mod.rs:10` says "Unlock a bionic mutex word left behind by an exited
  thread", and `src/README.md:140` says the same. The release at `:51` does not look at the owner. In the pass in which a
  pipe or poll waiter gives up its first turn nothing runs, so the release fires and unlocks a
  mutex that this live task holds.
* `src/dynarmic/src/dynarmic/dynarmic.cpp:772` says of the tick budget "~80M IR ticks is far above a syscall body and
  below a livelock". The budget is set there and tested behind `Run()` (`:814`), but `:349` sets `wall_clock_cntpct`
  and `:396` makes cycle counting its negation, so the generated code never takes a tick off. The answer -6 cannot
  occur, and a guest that only branches keeps the host thread: `SliceEnds` fails although the slice always goes on.
  With `wall_clock_cntpct` FALSE in the module the same instance satisfies it.

Five more were met while modelling. No run states them; the models do what the code does:

* `src/emulator/src/linux/syscalls.rs:613`, "never park the only thread on FUTEX_WAIT": `task_counts()` still
  counts a thread that ended earlier in the same pass, so the only live task can be parked; the
  deadlock release brings it back and zeroes its word.
* `RegisterNatives` (`src/emulator/src/android/dvm/jni_env_ext.rs:1859`) adds a second entry for a method that
  `GetMethodID` listed before, and `call_method` takes the first one, against the comment on
  `is_jni_method` (`member.rs:37`). `IdsResolve` speaks of ids, which stay right.
* `ptrace_pick_hit` (`syscalls.rs:345`) takes its place on the worker's path from the last stop, which an
  interrupt or a second attach overwrites; the comment at `:306` says "`PTRACE_CONT` must fire the
  next *executed* enabled slot, not slot 0". `NextExecuted` therefore speaks only of a
  continue from the SIGTRAP itself, or before the first one.
* `src/README.md:23` says that SIGTRAP injection is still missing; `syscalls.rs:1612` injects it.
* `from_u64` (`src/emulator/src/emulator/syscall_handler.rs:865`) transmutes 245..259, for which the enum has no
  variant, while `src/README.md:10` promises -ENOSYS. The numbers given to the gate leave
  this range out, because what the build does there is undefined.

## 10. Simplifications

* **Dispatcher.** The owner word behind a mutex, the `timeout_sec` branch (always 0), signal tasks (no caller) and the
  Windows branch of `terminate_host` are left out; so are `FUTEX_WAKE` of 0 tasks, reads of 0 bytes, a bad timespec
  pointer (a panic), and a park in the very tick that ends a slice. REQUEUE and WAKE_OP answer 0 without effect, as in the code. The
  guest does not store tid numbers itself. The check for an empty list at the top of the loop is unreachable.
* **JitBackend.** A page and a block are one to one; permissions, registers other than the pc, the page table and the
  translated code itself are left out. One word stands for all that LDXR and STXR touch. emu_stop is called only in
  handlers (the program starts no host thread), and at most once in a slice. The halt bits are a stop ("user") and a
  flush ("cache"); MemoryAbort is left out: no callback raises it, `Fault` stops
  the slice with the bit of a stop.
* **TaskContexts.** Any parked task may get the next slice (the order is the dispatcher's). errno, TLS contents
  and the shift of the frame pointer in a fork child are left out.
* **FileStreams.** Writes are those of libc.so; standard streams have no cursor; bad whence, bad descriptors and
  negative counts are left out, as is the spill of a directory record over 280 bytes.
* **GuestMemory.** Addresses are pages, except the break; permissions count only as part of an entry; images are
  page-aligned and do not overlap. The backend is Dynarmic's.
* **ProcessVm.** Whether the pid is alive is an input, and so are the lists themselves: they are not read from the memory
  that is copied.
* **Loader.** A library is known by its file name; hooks and ifuncs are part of resolution; addresses, environment
  variables, static executables and colliding base names are left out.
* **DlIterate.** A `dl_phdr_info` block is the module it describes; a failed allocation stops the task.
* **SymbolLookup.** Hash functions are constants; the layout of the tables is the linker's and is marked external.
* **SvcGate.** The Unicorn handler makes the same choices; what a handler leaves in X0 is not represented.
* **Ptrace.** PEEK, POKE and the GET requests only copy data; a worker takes a command only while it is not
  stopped; addresses on a path are distinct.
* **DalvikVM.** Copies of one object are not told apart; String and byte[] share a class; the host's `Jni` is
  present; calls that only answer a value have no action.

## 11. What is not modelled

Signals (`send_signal` has no caller; the mask and action calls store values nobody reads), system
properties and libc hooks (functions of their arguments), the Unicorn backend and the inside of the JITs (foreign code;
what the Rust code and the C++ glue ask of dynarmic is modelled), the ELF parser (stateless decoding),
information calls (`uname`, clocks, ...), `renameat` and `mkdirat` (the host's file system), sockets (`todo!()`),
the flush of bionic's stdio (libc's private layout), guest pointers and helpers, the command line and the sample
hosts. `PROJECT.json` gives the reason for each.

Most lines under `src/` are vendored C and C++: Unicorn with its copy of QEMU, and dynarmic with its code
generators and externals. The modules do not describe how they decode or translate instructions; `JitBackend` has
only the block cache, the halt bits and the exclusive state, as far as `dynarmic.cpp` depends on them. Measured against all
lines under `src/`, the modules cover next to nothing; without `src/unicorn` and `src/dynarmic`, the lines named in
`PROJECT.json` are 31 % of the rest.

Libraries that need one another in a cycle are loaded again and again by the code. `Loader` follows that for `MaxDepth`
frames and then takes the host stack to be used up (`NeedOverflow`). No property says that a load ends.

## 12. What is left

* Proofs for `EntryStack` and `SymbolLookup`.
* A composition of `Dispatcher` with `JitBackend`; at present each has its own abstraction of a slice.
* A composition of fork with ptrace: a tracer that waits for a fork child that is also traced.
* Signal masks, if the code comes to read them.
