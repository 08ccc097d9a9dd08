# TLA+ models of the Linux native wrappers

The wrappers in `src/src` let a Linux process call Windows DLLs: a PE loader maps the
DLL, `winlibs.cpp` stands in for Win32, the CRT and the C++ runtime, and one shared library per
game DLL forwards calls. What is hard in this program is not the forwarding. It is what happens
when DLL code, host threads, threads the DLL creates and the loader meet: a library loaded while
other threads run, a `DllMain` that refuses, a thread that dies and whose later key destructors
call the wrapper again, mutexes rebuilt over futex words, exit handlers that register and run one
another, two processes that write one cache file while a third version of the DLL arrives, system
calls that fail half-way through a reservation, engines that call back while what they call back for
comes and goes. These are the things modelled here.

The models keep the control of the code (each guard, early return and failure path, and the order
of the steps) and abstract its data: an image, a thread or a function is a model value, an
address or a name never appears, and memory contents are left out.

Theorem modules prove what TLC checks on small instances for any number of threads and images.

## The system

Every wrapper library links its own copy of the loader and of `winlibs.cpp`, so each has its own
lock, image list and export table; what the wrappers share is the process's threads.

| Part | State | Operations | Interacts by | What makes it correct |
| --- | --- | --- | --- | --- |
| Thread attachment (`pe_loader.cpp`, `dll_loader.cpp`) | image list, its generation, pending slots, per-thread context | `load_dll`'s attach, `pe_ensure_tls_for_loaded_images` on every wrapper call, `pe_notify_loaded_images`, `pe_cleanup_current_thread` | `DllMain` and TLS callbacks under the loader lock; key destructors | a thread inside DLL code is attached to every image it may reach; arrivals and departures match; nothing points to a discarded image |
| Image linking (`pe_loader.cpp`) | export table, `attempted` names, import tables | `link_pe_images`, `load_sibling_import`, `get_export`, `pe_discard_image` | recursion into `load_dll`; the attachment above | imports are bound to live, initialised images; a failed load leaves nothing |
| MSVC mutex and condition (`winlibs.cpp`) | two futex words, owner, count | `_Mtx_*`, `_Cnd_*` | shared memory, the futex system call | the monitor the C++ headers expect |
| CRT onexit tables (`winlibs.cpp`) | callback arrays, tables being executed | register, execute, `_cexit`, host exit | callbacks without the mutex, a condition variable | each callback runs once, newest first; executions return |
| Threads, events, semaphores (`winlibs.cpp`) | handle objects, ntsync descriptors or POSIX state | create, wait, signal, close | condition variables, ntsync | a signal is consumed once; objects outlive their users |
| FLS and TLS indices (`winlibs.cpp`) | slots, per-thread values | alloc, free, set, drain | callbacks at thread end | a value's callback runs once |
| Virtual memory, heaps (`winlibs.cpp`) | reservations, allocations | alloc, commit, decommit, release | one mutex each | reservations never overlap, partial failures are undone |
| Sidecar cache (`pe_loader.cpp`, `pe_sidecar.cpp`) | files | generate, publish, verify, load | the file system, other processes | a sidecar that loads matches its DLL |
| Wrapper `Init` (`Havok.cpp`, `Physics.cpp`, ...) | image, function pointers | `Init`, per-call prologue | `load_dll`; `call_once` or a mutex | after an `Init` that returned, every pointer is set |
| Callback routing (`Havok.cpp`, `Physics.cpp`) | maps and slots | create, destroy, bridge | DLL threads calling back | a callback reaches the target of the object it is for |

`PROJECT.json` lists these parts with the reason for each that is not modelled, and the hazards of
the code at their lines.

## Modules

| Module | Models | Proofs |
| --- | --- | --- |
| `ThreadAttach` | loader lock, image list, attachment of threads | `ThreadAttachProofs` |
| `MsvcSync`, with the abstract `Monitor` | `_Mtx_*` and `_Cnd_*` | `MsvcSyncProofs` |
| `OnExit` | onexit tables | `OnExitProofs` |
| `DllLoader` | loading, linking, sibling imports, undoing | `DllLoaderProofs` |
| `WaitObjects`, with the abstract `Dispatcher` | waits for events, semaphores and threads over both back ends | `WaitObjectsProofs` |
| `ThreadEnd` | fiber-local storage, the end of a thread, its object and handle | `ThreadEndProofs` |
| `Startup` | `Init`, the sidecar file among processes, crashes and updates, forwarded calls | `SidecarProofs` |
| `VirtualMemory` | `VirtualAlloc`, `VirtualFree` over the kernel's mappings | `RegistriesProofs` |
| `ContactRoutes` | how Physics routes contacts to the callbacks of sessions | `RegistriesProofs` |
| `HavokCallbacks` | how Havok's phantom shapes and queries find the host's callbacks | `RegistriesProofs` |
| `Unwind` | unwind codes made into call frame instructions, and a thread whose stack is walked | `SidecarProofs` |
| `MCThreadAttach`, `MCOnExit`, `MCDllLoader`, `MCWaitObjects`, `MCStartup`, `MCUnwind`, `MCVirtualMemory`, `MCHavokCallbacks` | instances for TLC | |
| `MCSidecar`, `MCRegistries` | runs over modules that share no state: the two of the sidecar, and the three that know things by their address | |

`map` in `PROJECT.json` gives the lines each definition stands for. Definitions whose comment
begins with "(variant)" are not part of any specification: each is an action with a plausible
mistake, kept to show that the property named beside it in `PROJECT.json` notices.

### ThreadAttach

`slot` and `count` are `g_loaded_images`, `pending` the reserved slots, `generation` the atomic
counter, `gen[t]` the thread-local copy of it; `ctx`, `attached` and `tls` are the thread's
`nt_thread_context`; `inside[t]` is a history variable, what the `DllMain`s were told of `t`.
`pc[t]` says where the thread is. The loader lock is a recursive mutex, but no modelled path
returns to an unlocked state inside it, so its owner is enough. A load runs from `LoadLock` to
`LoadUnlock` and may attach several images (siblings, then the importer).

A `DllMain` call is the interval in which `pc[t]` is in `DllMain`: the thread may create threads
there, with or without waiting for the id (`CreateThread`'s `lpThreadId`), and may disable thread
notifications. The notification and its return are separate steps because other threads run in
between; the lock-free read of the generation, its comparison and the later store
(`EnsureBegin`, `NotifyAttach`, ..., `StoreGeneration`) are separate for the same reason.
`CleanupBegin` to `CleanupEnd` is `pe_cleanup_current_thread`. `LateCall` is the destructor of
some other key that calls a wrapper on a thread whose context has already been destroyed.

Left out: FLS callbacks (in `ThreadEnd`; they touch none of this state unless they call a wrapper
again), DETACH handlers that call wrappers, allocation failure of the context itself (the code aborts), the
contents of TLS blocks.

### MsvcSync and Monitor

One mutex and one condition. Each atomic operation, each futex call and each group of plain
accesses made by the mutex's holder is a step. `FUTEX_WAIT` compares and sleeps atomically, which
the kernel guarantees; it may also be interrupted (`Interrupt`). Callers keep the C++ contract:
only the holder unlocks or waits. `thread_id` and `count` are plain fields; the code reads
`thread_id` without the lock, which can only ever equal the reader's id if the reader wrote it.

`Monitor` is the contract (a holder, a depth, who is parked and who was told).
`ImplementsMonitor` is the refinement: a thread holds the monitor from the atomic operation
that takes the word to the one that gives it back, a waiter is parked from the release of the
word in `_Cnd_wait` until it has it again, and every other step is a stutter.

### OnExit

`table` holds the callbacks, `executing` is `g_executing_onexit_tables`, `stack[t]` the nested
executions of thread `t`, whose last element is the thread-local `g_executing_onexit_table`.
Everything between two releases of `g_onexit_mutex` is one step. `order` and `ran` are histories of
registration and execution. A `<<a, b>>` in `Nests` says that a callback of table `a` may execute
table `b`.

### DllLoader

An image is numbered in the order of mapping; `stack` is the recursion of `load_dll` through
`load_sibling_import`, `next[i]` the import descriptor image `i` is at, `bound[i]` its import table,
`exports` the flat table with its limit, `attempted` the static vector. The table is a set of
`<<module, symbol, image>>`: an image names a symbol once and images are numbered in the order in
which they are entered, so that the last matching entry, which `get_export` takes, is that of the
greatest number (`Newest`). When the table is full some of an image's exports are dropped; the
model drops any. All of it runs under the loader lock, so there is one actor; what makes it hard is the order of failures: a load can fail at
the file, the headers, the relocations, a sibling, the TLS index, the image list or `DllMain`, at
any depth, and the next load meets what this one left. `failed` and `broken` are histories.
Each wrapper library is linked with a loader of its own and loads one DLL, so that the DLL a wrapper
loads is a sibling of another only when a sibling imports it back: that is left out
(`RootsAssumption`). Modules served by the shims (`is_runtime_module`) and ordinal imports never reach the
sibling code and are left out. A wrapper here calls `load_dll` again only after a failure; the
wrappers that do otherwise are in `Startup`.

### WaitObjects and Dispatcher

`signaled` is the flag of an event or a finished thread, `posted` the `sem_t`, `kernel` the level of
an object the ntsync device took. A section under the object's mutex is one action, and
`pthread_cond_wait` gives the mutex up as it parks; `told` holds the sleepers that a signal, a
broadcast or the kernel has picked and that have not run since. A wake-up may also come for no
reason (`WakeUp` asks nothing of `told`), a timed wait may end at any moment (`TimesOut`), and
then the flag decides. `SetEvent` and `ResetEvent` on an ntsync object are two steps, the `ioctl` and
the flag; `ReleaseSemaphore` on a `sem_t` posts one by one. `WaitForMultipleObjects` is a loop
over single waits and `call[t]` its place in the array; `WaitForSingleObjectEx` is the wait for all
of an array of one.

`Dispatcher` is what a Windows program expects of one wait: what a thread got was decided at one
instant, in which a success found the object signaled and took from it, and a time-out found it
not signaled. `ImplementsDispatcher` is the refinement. A thread the kernel has served has its
outcome before the `ioctl` returns to it (`Waiting`). Each wait inside `WaitForMultipleObjects`
is a wait of its own here: that a `wait_all` which times out keeps what it took is what the
comment at `winlibs.cpp:3108` concedes. For what it says the call is used for, joining threads,
`JoinedAllHaveFinished` says that this does no harm. `Exact` leaves one freedom to
`sem_timedwait`, which may report a time-out beside a post that just came.

A handle has one kind, which its tag says (`KindsAssumption`). Where the back ends differ, both are
modelled and neither is compared to the other: past the maximum
the kernel refuses a release and a `sem_t` takes it, and two `SetEvent`s of an auto-reset event
before a waiter runs release two ntsync waiters but one POSIX waiter.

Left out: `CloseHandle` of events and semaphores while they are in use, failing `ioctl`s.

### ThreadEnd

`alloc[s]` numbers the allocation a slot is in, and a value carries the number of the
allocation it was stored under, so that an old value seen by a slot's next owner shows. `batch[t]`
holds the callbacks `Drain` or `FlsFree` took out of the slots under `g_fls_mutex` and run after it
is released, `owed` is a history: how many callbacks are still due for what was stored in a slot of
a thread. Between the passes of a drain callbacks store new values (`FlsSetValue` while
"calling"), as `DLL_THREAD_DETACH` handlers do before it. `finished` and `closed` are the fields of
the thread object, `freed` counts its deletions, `on[t]` is the object a call of `t` is using.
Callers close a handle once and while no call uses it, and do not store into a slot while it is
freed, as Windows asks of them.

Left out: callbacks that call wrappers or run after the drain from other keys' destructors, a failing
`pthread_create`. On a host thread the order of the context's and the FLS key's destructors
is that of `pthread` keys, which is unspecified: the model takes the order of
`pe_cleanup_current_thread`, which the comment at `pe_loader.cpp:399` asks for.

### Startup

A process has one wrapper of a kind (`Kinds`), chosen in `Init`: `std::call_once`, a mutex with
throwing or with forgiving resolution, a null check, or the tool that only writes the sidecar.
`busy[p]` is the thread inside `Init`'s guard and `step[p]` how far its load is. A file is
characterised by the version of the DLL it was made of, whether all of it is written, and whether it was
synced. `mapping[p]` is what `dlopen` holds: the file, its references, and how often it has been
relocated in place - `dlopen` of a path that is open returns what is mapped, not what the path
now names. `pe_discard_image` drops a reference.

`cache` is what processes see under the sidecar's path and `ondisk` what a power loss would leave:
renames reach the disk at some time (`WriteBack`), and a file that was not synced may be torn.
`Killed` takes a process away at any step and starts it anew, `UpdateDll` puts a newer version in the
DLL's place, and `seen` is the history of versions since a load began. Versions in `Lacking` miss
an export the wrapper needs.

A pointer left null by `Init` makes Physics, Havok and the others that check throw; a call through it
is no state change. `CallsLand` names what it does not promise, for both follow from an `Init` that
threw for a missing export after `load_dll` had succeeded: Slug's next `Init` finds an image and
returns, after which calls jump to null, and `call_once` runs its function again, which opens the
sidecar that is still mapped and relocates it a second time. Both need a DLL without an export the
wrapper was built for.

The lazy wrappers look at the image without a lock; `CallInit` takes it as given that one thread
initialises them. Relocation itself, imports and DllMain are one step each here and have their
modules above.

### VirtualMemory

`reservations` is `g_virtual_reservations`. `ours` are the pages that the calls have mapped,
`open` those of them that can be written, `dirty` those that do not read zero; `others` is what the
rest of the process has mapped, and grows and shrinks at any moment, as `mmap` elsewhere does not ask for
`g_virtual_memory_mutex`. That mutex is held from the beginning of a call to its end, so that there
is one `call`, and each system call in it is a step: a reservation without an address maps a
granule too much (`MapAnywhere`), trims it (`TrimPrefix`, `TrimSuffix`), protects and enters it
(`Record`) or undoes it (`Rollback`, `Discard`). `promised` and `stored` are histories: what the
results of the calls say of a page, and what the program has written since. A call that is refused before it
changes anything is no step.

Addresses are numbers of units, of which `PageSize` make a page: the arithmetic of rounding and of
`find_reservation` is the code's. The kernel is external and modelled by what fails: `mmap` when it
likes, `mprotect` for want of memory after any part of the range, and, once the process is `full`,
`munmap` and `mprotect` when they would make more mappings than there were, as at `vm.max_map_count`.
The rest of the process makes it so at any moment (`FillMapCount`), and `full` stays, as what may fail
need not. Neighbouring pages of one protection are one mapping, which is why a trim can need one more.

`OthersKeepTheirs` and part of the other two properties are stated below that limit, and fail at it. There
a `VirtualAlloc` without an address whose second trim fails unmaps the whole of its original mapping
(`Rollback`, `winlibs.cpp:2707`), although the first trim has given the prefix back: what another
thread has mapped there since goes with it. A failing `munmap` leaves pages that no entry
names, and a commit that takes access may fail after some pages have lost it. The test at
`tests/windows_memory.cpp:235` is of a call that fails below the limit.

Left out: kernels that do not know `MAP_FIXED_NOREPLACE` (they map elsewhere, which is undone at
once), protections beyond the two that matter, `g_last_error`.

### ContactRoutes

`contact_callbacks` and `contact_routes` are the two maps, each section under `contact_mutex` an
action, each call into the engine another. `constructed`, `owner` and `passed` are what the engine and
the host know: which sessions exist, whose world is at an address, and with which callback the session at an
address was made. Sessions and worlds are addresses, and a later one may have an earlier one's.
`settled` holds the worlds between the return of `AllocateWorld` and the call of `ReleaseWorld`
or of the session's destructor.

Assumed of the engine: a contact is reported while its world exists, on any thread, and a
world or a session is freed after the callbacks made for it have returned. Assumed of the host: no call
on a session that is being constructed or destroyed, and a session destroyed when no call on it is
under way. Two sessions may share one callback.

### HavokCallbacks

`bound` and `bindings` are `g_phantom_shape_bindings`; `alive`, `given` and `held` say which
shapes exist, what the host created them with, and which of them it holds. `EngineMeets` is
Havok calling an enter or leave bridge from a step of the world, `EngineDeletes` the last reference
going. An entry of a shape without a delete handler stays in the map: no bridge is ever called that
would erase it. `target` and `holder` are the slot and mutex of each of the queries that take a reader
(`HkConstraint_FindConnectedConstraints`, `HkShapeLoader_CleanupShapesBuffer`).
`aborted` says that a bridge found nothing and called `std::abort`.

Assumed of Havok: a shape is freed after the last of its callbacks, and its address used again only
then. A handler that calls wrappers is at that moment a thread like any other, between `LookUp`
and `HandlerReturns`, which holds no mutex; a reader that makes the query again itself would lock a mutex it
holds and is left out.

### Unwind

`apply_operation`, the encodings and the walk over executable ranges are operators with the names of the
code. Around them is a machine: a thread enters a function, runs its prologue byte by byte, moves its
stack pointer if it has a frame register, and reaches the last instruction. `sp`, `fp` and `saved` are
what is true of its frame; in a prologue they are what the operations with offsets it has come to
(`Reached`) did one after the other to the frame of a call (`Executed`). At each point the generated
bytes are read back as DWARF says (`RowAt`, `Describing`), and must tell the same. The machine and the
reader are external: the x64 ABI of Windows and the DWARF standard. Loops of the code are recursive
functions over the number of operations, functions or bytes: `Emitted`, `Walk`, `Shifted`, and `Rows`
and `ReadLeb` of the reader.

The assumptions: `InfosAssumption` has what decoding a slot can give (allocations of whole slots, offsets of
a byte), `LayoutsAssumption` what `parse_pe` has checked of sections and functions by then (sorted,
apart, each function in one section). `ConventionAssumption` is the x64 convention as far as the code
relies on it: an interrupt's frame comes first, and the stack pointer does not move after a
register was saved relative to it. `UWOP_SAVE_NONVOL` counts from the stack pointer at the end of the
prologue; `apply_operation` counts from the depth so far, and `PUSH_MACHFRAME` sets the distance to the
CFA whatever came before. The code does not check this; compilers list saves with the offset of
the prologue's end, so they come last.

Left out: epilogues (the information generated describes the body to the function's end, as with
most DWARF producers of prologue tables), prologues that allocate after saving (the assumption above),
`PUSH_MACHFRAME`'s stack pointer (restored as the frame's address), the depth limit and cycle check
of chains, and the range and bitmap checks on the file.

## What is checked

| Run | Instance | Shows |
| --- | --- | --- |
| `thread_attach` | 2 host threads, 1 created, 2 images (one with TLS), 2 loads; 4.5 million states | safety of attachment while loads, refusals, calls, thread starts and ends interleave |
| `thread_attach_life` | 1 host thread, 1 created, each living twice; 1 slot, TLS allocation may fail | the same under exhaustion and re-entry, with liveness |
| `thread_attach_oom` | as above, 2 slots | finding 1 |
| `msvc_sync` | 3 threads, 5 calls among them, a recursive mutex, 2 broadcasts | no lost wake-up, refinement of `Monitor` (mutual exclusion with it), liveness |
| `on_exit` | 2 threads, 2 tables, 3 functions, 2 executions beside the host's | once, newest first, liveness |
| `on_exit_nested` | the same, callbacks of both tables may execute the other | finding 2 |
| `dll_loader` | an importer, three siblings in a diamond, a missing one; 3 loads | bindings, undoing, one image per file, termination |
| `dll_loader_retry` | the same, 2 loads | finding 3 |
| `wait_objects` | 2 waiters, 2 signallers (one thread is both); per behaviour one or two of 8 objects, each kind on each back end; 93 thousand states | every wait is a Windows wait, no signal lost |
| `thread_end` | a host thread and 2 created ones, 1 slot allocated twice, 2 passes; 942 thousand states | callbacks once, before the join; the object freed by the last |
| `sidecar` | loading: a game process with 2 threads, of any kind, and a second process; 2 versions, the first lacking an export; 758 thousand states. Unwinding: 80 prologues of all shapes, chained ones, interrupt frames, 5 broken ones; 3 layouts; 48 thousand states | what is loaded is whole and current; calls land; loads end; the stack can be walked from every instruction |
| `registries` | contacts: 3 threads, 2 sessions, 2 worlds, 2 callbacks; 57 thousand states. Phantoms: 3 threads, 2 shapes, 2 handlers in 3 combinations, 2 queries; 176 thousand states. Reservations: 5 pages, granules of 2, 8 addresses and 4 sizes, aligned and not, below and at `vm.max_map_count`; 181 thousand states | contacts reach their session, none is dropped; callbacks reach the shape's handlers and the query's reader; mappings are recorded, committed pages work, others keep theirs |

`sidecar` and `registries` each put modules side by side that share no variable. `MCSidecar` and
`MCRegistries` choose one in the initial state, and the others stand still: a behaviour is one of
that module, and the run checks each module's specification with nothing added to it.

Why the bounds are enough. Attachment: a thread's relation to an image depends on its own generation
and at most one concurrent load, and order on two images; three threads are one that loads, one that
calls and one that is created. A list of one slot makes the limit bite. The futex mutex needs three
threads for the state 2 to matter: a holder, a sleeper and one that barges in. Five calls let one
thread lock twice and wait, at depth two, while two others lock, or two threads wait while the third
barges in; two broadcasts let one meet waiters of the other that are on their way back. `SeqMod` is
3: the word does not wrap, as in the theorems (`SequenceAssumption`). OnExit: a second thread to
race, a second table to nest. DllLoader: the diamond has a shared sibling at different depths, two
exports of one name, and a table that fills exactly; three loads allow a failure to be followed by a
failure and then a success.

Waiting: two waiters compete for one signal while a third thread signals, and a waiter that
signals too; two handles of one array. Larger, with three waiters, the instance was run once (1.3
million states) and showed nothing more. ThreadEnd: two
passes make the drain's limit bite, a slot allocated twice shows values that outlive it, three
threads are one that ends, one that frees its slot, one that joins and closes. Startup: two
processes suffice for a rename under a loaded file and for a crash beside a load; two versions for
a stale sidecar; two mappings for the second `dlopen` of a path. ContactRoutes and HavokCallbacks: two
objects of each kind, one of which takes another's address or callback, a thread that makes it, one that
destroys another, one in a callback. VirtualMemory: two granules of two pages
and a page hold two reservations, and a mapping that must be trimmed at both ends beside a page of
others; with a page more, below the limit, the instance was run once and showed nothing more; a page has two units, so that
ranges begin and end inside one; the greatest addresses do not round up. Unwind: distances that need one
and two bytes of an LEB128 and either form of the location advance, code before, between and after
functions, and sections that begin or end with one.

Some invariants that the proofs establish for every instance are not among the properties of a run: the type invariants of all the modules with proofs (`ThreadAttach`, `MsvcSync`, `OnExit`,
`DllLoader`, `WaitObjects`, `ThreadEnd`, `Startup`, `ContactRoutes`, `HavokCallbacks`, `VirtualMemory`), `DllMainHasItsTls`,
`MutualExclusion`, `SleepersAreAnnounced` and `OneExecutionPerTable`.

Deadlock is checked in the run `registries`. It is not in the others because the threads may all be
done and the bounds used up; that nobody waits for ever is stated by their liveness properties
instead.

Fairness. `ThreadAttach`: weak fairness of each thread's steps inside the loader, which
includes the return of `DllMain` - the scheduler runs every thread, and a `DllMain` that never
returns hangs the process on Windows too. It is also weak for taking the loader lock: with
finitely many loads and calls that is all the code needs. `MsvcSync`: weak fairness of a
thread's steps, and the holder eventually unlocks. `OnExit`: callbacks return and the host exits.
`DllLoader`: the loading thread runs. `WaitObjects`: a thread that was told, or finds a semaphore
above zero, runs, and a call that signals goes on; nothing is promised of time-outs, of wake-ups
for no reason, or that anyone signals. `ThreadEnd`: a thread that leaves goes on leaving, FLS
callbacks return, and a join that may return does. `Startup`: a load that has begun goes on, each
of its steps succeeding or failing. `Unwind`, `ContactRoutes`, `HavokCallbacks` and
`VirtualMemory` have safety only. No call is ever assumed to be made.

## Findings

1. `thread_attach_oom`. The comment at `pe_loader.cpp:379` says that the locks are skipped once the
   thread has attached to the current list. When the TLS block of an image cannot be allocated the
   pass skips the image, the generation is stored all the same, and the thread then runs
   in the DLL without a TLS block and without `DLL_THREAD_ATTACH`, never to be retried.
2. `on_exit_nested`. The comment at `winlibs.cpp:1738` says that draining twice is safe. It is for
   direct recursion. A process callback that executes a DLL's table, whose callback calls `_cexit`,
   waits for its own execution, as the thread-local remembers the innermost table only. Two threads
   that nest two tables in opposite orders wait for each other in the same way.
3. `dll_loader_retry`. The comment at `pe_loader.cpp:696` says a sibling is attached before its
   importer and only a missing file leaves its imports to stubs. `attempted` is not cleared when a
   sibling fails to load, so a second `load_dll` of the importer takes the failed sibling for
   loaded, binds its symbols to the trapping stubs, runs the importer's `DllMain` and succeeds.
   `Init` of KytheraV2 is retried after an exception (`std::call_once`), which reaches this.

`ImportersSeeTheirSiblings`, checked in `dll_loader`, is the weaker statement that does hold: it
excuses siblings that failed in an earlier load.

## What is proved

The eight modules of proofs hold for every value of the constants that
satisfies the assumptions named in the models (in particular any number of threads, images, tables,
slots, processes and versions of a DLL, sessions, shapes and pages, unwind codes, chains and sections).

ThreadAttach: `Invariance` proves `IInv`, the conjunction of the type invariant and of six parts:

- `LockInv`: a thread is in a place of `Locked` exactly when it owns the loader lock;
- `ListInv`: `count` is the number of registered images and no slot is beyond it, the generation is
  `count + 1`, and `pending` counts the one image being attached, for which `MaxImages` has room;
- `CurInv`: the image being visited, by the place the thread is in;
- `UserInv`: threads are attached to registered images or the one they load, own TLS blocks of
  attached images only, and what they were told agrees with both;
- `DetachInv`: a leaving thread is attached only to the images left in its snapshot and the current
  one, which is newer than all of those;
- `AttachInv`: the generation a thread read or holds covers images it is attached to, has still to
  visit, may miss (a failing allocation) or that asked not to be told.

None of the checked properties is inductive alone: `GenerationMeansAttached` after
`StoreGeneration` needs to know what the pass covered, and that needs the lock to have kept the
list still since the snapshot but not since the generation was read. From `IInv` follow
`TypeCorrect`, `GenerationIsSound`, `ImagesAreSafe`, `CleanupIsComplete`, `ArrivalsMatched`,
`TlsIsThere`, `OrderIsKept`, `TableHasRoom` and the action property `ArrivalsAreNew`: every safety
property the passing runs of this module check.

MsvcSync: `IInv` adds to the three safety properties who owns the count (`OwnerInv`), who is in
`_Cnd_wait` (`WaitInv`), and that a waiter's copy of the sequence is not ahead of the word and is
behind it if a broadcast was for it (`SequenceInv`, which needs `SequenceAssumption`: fewer
broadcasts than the word has values). `Refinement` shows step by step that the futex code implements
`Monitor`, citing `Invariance`.

OnExit: `IInv` adds to `TypeOK` and `EachRunsOnce` that the stacks of all threads together hold
each executing table once (`StackInv`), and that every table lists its functions in the order of
their registration, whatever ran meanwhile (`OrderInv`). The second is what makes taking the last
element safe: it is the only copy, it has not run (`RunOnce`), and nothing registered after it is
left (`NewestRunsFirst`). `ExecutionsExclude` follows from the first; the wait in `Enter` is what
keeps it.

DllLoader: `IInv` has, besides the type invariant, `OneImagePerFile` and what follows of them:

- `StackInv`: the images that are linked or attached are those on the stack, each but the innermost
  waiting at the import descriptor that names the file of the one above it;
- `NextInv`: an image is attached with all its descriptors behind it;
- `OneInv`: the file of a live image that is not a root is in `attempted`, which is why a second image
  of it is never mapped;
- `FailedInv` and `ExportInv`: a failed root has no live image, and every entry of the table is of a
  live image that exports the symbol.

`OneImage` and `AllOrNothing` follow for any DLLs, those that import one another in a circle included.
The other two need more of the DLLs. `Ordered(rank)` says that some rank descends along the imports,
and, since `get_export` falls back on any module with the symbol, to every other DLL that exports an
imported symbol. `RankInv` then makes the ranks on the stack descend, so that the image which is bound
never finds an export of one that is still being loaded, and could yet be discarded: what it is bound to
is itself, a stub or registered (`BoundInv`), and what is registered stays. That gives
`NoDangling`. Without `Ordered` the property fails in the model as in the code: a sibling that imports its importer back, or
whose symbol only its importer has, is bound to it before the importer's `DllMain` may refuse.
`SiblingsSeen` (`ImportersSeeTheirSiblings`) also needs `Room`, an export table that holds every export
(`TableInv`), as the code logs and drops the rest. `SeenInv` follows each descriptor: a DLL that
was attempted is live or broken, and what is behind `next` was bound to a registered image. `MCDllLoader`
states both hypotheses of its instance as an assumption, which TLC evaluates: they are not vacuous.

WaitObjects: `TypeCorrect` carries most: which place in a call goes with which kind of object, that an
event of the device is at most one, that only sleepers are told. `NoneLost` needs nothing else: each
step that sets a flag tells its sleepers, all of them or one, and each that leaves a told sleeper untold
(`Sleep`, `GiveUp`, `Take`) has just seen the flag down, or takes it down, or leaves one that
stays up and of which every sleeper was told. `Joined` is an action property over `JoinInv`: the jobs behind
the place of a wait for all have finished, and a job's flag stays set. `Dispatches` is the
refinement of `Dispatcher`. It needs `ServedInv`, that no thread is asleep on an object of the device that is
above zero, from which what a thread that gives up finds is what Windows would tell it. Lemmas say
of the mapped variables (`WaitsFor`, `Outcome`) alone what each abstract step is (`Begins`, `Acquires`,
`Signalled`, ...); `WaitsMaps` and `SignalsMaps` then show each step of the code to be one of those or a
stutter.

ThreadEnd: `IInv` is `TypeOK` with four parts. `HeldInv` counts: what is due for a slot is its value
and the finite set of what the drains and `FlsFree` hold of it, all of the slot's own allocation.
`DrainInv` says what each place of a drain leaves: nothing after a pass that took nothing, and a lost
value only after all the passes. `UserInv` and `ObjectInv` follow the thread object: who uses it, and
whose turn it is to delete it. The counting needs no bound on threads: each step adds to or takes
from one holder (`HeldTakes`, `HeldGives`), which `TakingKeeps` and `HeldKeeps` turn into what a step
preserves. `OneCallbackEach`, `FinishedIsDrained` and `DeletedByTheLast` are the three safety
properties of its run.

Startup: `IInv` says, per process, who loads and how far it is (`OwnerInv`, `LoadInv`); that a file is
whole and synced before it has a name, in the directory and on the disk (`FileInv`, which survives a
power loss only because of the sync); that a mapping has no more references than the load or the image
uses, except for what `call_once` leaves of an `Init` that missed an export (`MappingInv`, `ImageInv`);
and what an `Init` that returned stands for (`ReadyInv`, `ThreadInv`). One lemma per action keeps it,
kills, power loss, write-back and updates of the DLL among them. From it follow `ImagesAreWhole` and
`CallsArrive`.

Unwind (in `SidecarProofs`): neither property is about the steps alone; both need what the loops of the
generator compute, for sequences of any length. Without induction as a rule, `Climb` and `Chain` carry
a fact from 0 to n by the least number that lacks it, and say once what a function defined along the
numbers is.

`EveryPcDescribed` rests on `WalkHolds`: after k functions the walk has put every address below its
position into one of them or into one gap, and gaps are apart from each other and from the functions.
So the ranges of a DLL are disjoint and cover its executable sections (`RangesTile`), and every step leaves
the thread in one (`PlaceInv`, `PlaceDescribed`).

`UnwindsEverywhere` goes from bytes to frames. `LebReads`: what `append_uleb` or `append_sleb` writes of any
number is read back as it. `AdvanceReads`, `OffsetReads`, `CfaReads` and `SaveReads`: an instruction that
stands in a description is read as the change of the row it is meant to be. `ReadsOperation`: the instructions of
one operation, read in the row of a thread (`RowOf`), lead to the row of the thread after it. `Writes` and
`WritesAll`: what `apply_operation` appends for an operation is what the thread's own state calls for, as
the writer's `depth + bias` is the thread's distance to the CFA and its `frame` says whether the thread has
a frame register (`Alike`). This is where the convention is needed: only then is the depth at a save the
depth at the prologue's end. `RowReached` puts them together: reading up to an offset stops at the row of
the thread that has run the operations reached by it. The invariant of the machine (`RunInv`,
`UnwindInvariance`) is that the thread is that one, but for the stack pointer a body has moved past a
frame register.

VirtualMemory (in `RegistriesProofs`, as the next two): `IInv` adds to the type invariant, `ReservationsHold` and `ContentsKept` that what a call has
mapped or given back is in no reservation (`CallInv`), that a page which was promised to be anything
is in one and a page which is not committed holds nothing (`ContentsInv`), and that the pages of the
calls and of others are apart. These hold whatever the kernel refuses. `BelowInv` has what holds below
`vm.max_map_count` only. From it follow `Recording`, `CommittingWorks` and the action property
`OthersKept`. The arithmetic rests on `\div` being monotone (`DivMonotone`), from which the ranges a
call rounds are in the reservation it found (`RangeReserved`) and a mapping is the sum of what
is trimmed and what is kept (`PagesSplit`). `FreshPages` and `GiveBack` say once what mapping and
unmapping does, for every action that does so.

ContactRoutes: none of the two properties is inductive, as a route is right only because of who may
change it meanwhile. `Owned` says that worlds have sessions that exist and routes are of worlds in use,
`Remembered` where between construction and destruction a session's callback is in the map, and
`InHand` and `Exclusive` that nobody else holds what a thread is making or freeing.

HavokCallbacks: `Bound` says that a shape the host holds, or a thread is in a callback of, has the
entry it was created with, `Sole` that a shape which is being created or deleted is one thread's
alone, `Queries` that the holder of a slot's mutex is the thread that asks and the slot has its reader;
`InHand` types what a thread holds by its place. Both proofs rest on the assumptions on the
engines, which are guards of the models.

Only model-checked: the liveness properties, which rest on fairness and so on `ENABLED`, beyond
the prover. Every safety and action property of the passing runs is the statement of a theorem.

Check a module's proofs with `tlapm ThreadAttachProofs.tla`, a run with
`tlc -config ThreadAttach.cfg MCThreadAttach`.

## Not modelled, and why

`PROJECT.json` has a line for each part. In short: heaps are a registry of which every operation
holds one mutex, and what can go wrong in it single-threaded tests reach; the static callback slots of Havok
are set once; critical sections are glibc's mutexes; the forwarding functions have no
state but what `ThreadAttach` and `Startup` model; the shims that forward to libc, relocation,
headers and symbols of the ELF writer are data layout; CPU detection, D3DCompiler and the
build-time generators have no protocol.

What could follow: the order of the destructors of a host thread's keys, if it were specified; instances of `DllLoader` with cyclic imports, where a sibling that imports its
importer back may stay bound to it after the importer is refused.
