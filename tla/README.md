# TLA+ models of NexusRT

This directory holds TLA+ models of the control logic of NexusRT: TLC
configurations that check them on small instances, and TLAPS proofs of what
holds of each component in every instance. Paths below are relative to
the repository's own root; `architecture.md` and the like are under `docs/`,
file names without a directory under `src/`.

| file | what it is |
| --- | --- |
| `Maps` | the hash maps of the code, as functions |
| `PageTableOps` | the page table's methods, as operators on tables |
| `PageTable`, `MCPageTable`, `PageTableProofs` | the page table and the clients that pin its pages, and theorems about it |
| `MemoryManager`, `MCMemoryManager`, `MemoryManagerProofs` | alloc and free over the page table, the ILC tags and the device |
| `Allocator` | what the memory manager promises, refined by `MemoryManager` |
| `MicroKernel`, `MicroKernelProofs` | stream pool and module table under submits, barriers and shutdown |
| `Boot`, `MCBoot`, `BootProofs` | the life of contexts: boot, handle registry, calls, shutdown, destructors, exit of the process |
| `FaultHandler` | the fault buffer between the device and the poller |
| `TaskGraph`, `MCTaskGraph`, `TaskGraphProofs` | the scheduler's graph |
| `Pipeline`, `MCPipeline` | the pipeline over `TaskGraph`; its theorems are in `TaskGraphProofs` |
| `KvCache`, `MCKvCache`, `KvCacheProofs` | the paged KV cache |
| `ContextScope`, `MCContextScope` | token layers, cache binding, the attention prefetcher |
| `Transfers`, `TransfersProofs` | file transfers and asynchronous copies: DmaEngine, GDS router and the shims |
| `SubsystemProofs` | theorems about `FaultHandler` and `ContextScope` |
| `PROJECT.json` | runs, mutants, findings, hazards, and the source lines of every definition |

## 1. The system

NexusRT is a C++ runtime that boots a GPU context, hands out streams, device
memory and kernel launches through a C ABI, and builds on them a task graph, a
token-context budget, a KV cache and a five-stage pipeline. A platform backend
(CUDA, Metal or a null one) does the vendor calls. There is no persistent
state and no network. What makes it hard is that every object may be called
from several threads, that locks are held for parts of an operation only, and
that operations stop half way when a driver call fails.

### Inventory

| component | state | operations | correct when |
| --- | --- | --- | --- |
| PageTableManager (`src/memory/page_table.cpp`) | `table_`: page -> residency, refcount, last access | map_range, unmap_range, incref, decref, evict_until, lookup | no pin is lost or invented; pinned pages stay; LRU order |
| MemoryManager (`src/memory/manager.cpp`) | `live_`, `bytes_allocated_`, owns the page table | alloc, free, advise_read_mostly, prefetch, coalesce, destructor | every buffer is owned by one party; addresses are reused clean; a live allocation stays mapped |
| IlcManager (`src/firmware/ilc_manager.cpp`) | `enabled_`, `tagged_` | enable, disable, tag, untag | a tag belongs to a live allocation |
| MicroKernel (`src/firmware/microkernel.cpp`) | free lists of streams per class, `modules_` | spawn, acquire, release, sync, sync_all, drain, load, launch | a stream has one owner; free streams are idle; nothing survives the context |
| FirmwareContext, handle registry (`src/firmware/context.cpp`) | handle -> shared_ptr, the subsystems | register, lookup, take, lazy `memory()` | the context lives as long as its users, and no longer |
| boot/shutdown (`src/firmware/boot.cpp`) | the order of phases | boot, shutdown | a boot that fails leaves nothing; a shutdown releases everything |
| FaultHandler (`src/firmware/fault_handler.cpp`) | ring of fault records, poller thread, `stop_` | install, poll, uninstall; `nexusrt_firmware_task_submit` | a fault is handled once; uninstall returns |
| DmaEngine, GDS router (`src/firmware/dma_engine.cpp`, `src/memory/gds_router.cpp`) | GDS availability, bounce buffer | enable, read, write, shutdown, gds_stream | bytes arrive before the call returns |
| TmaEngine (`src/firmware/tma_engine.cpp`) | descriptor cache | encode, lookup, invalidate | a cached descriptor describes the tensor asked for |
| TaskGraph (`src/scheduler/graph.cpp`) | `nodes_` with stage states, `validated_` | add_stage, validate, run, wait, find | dependencies first; launched once; contracts enforced; streams returned |
| ScopedStream, WarpSpecialization (`src/scheduler/`) | none of its own | RAII; table | |
| KvCache (`src/token_opt/kv_cache.cpp`) | `pages_`, `resident_` | touch, evict, pin, unpin | within its limit; pinned pages stay; least attended goes first |
| ContextScope, AttentionPrefetcher (`src/token_opt/`) | layers, the bound cache, window of rows | set_layer, step, bind, prune; observe, prefetch_next | tokens are conserved; hints are for the cache that is bound |
| Pipeline (`src/pipeline/orchestrator.cpp`) | a graph, `built_` | build, run | whoever runs finds the whole graph; what does not fit is not launched |
| PlatformDispatch (`src/platform/`) | registered backends, the active one | register, probe, backend | one backend, chosen before use |
| CUDA and Metal shims, kernels | vendor handles | the platform's table | |
| Python bindings (`python/nexusrt/`) | handles | ctypes wrappers | no handle used after it is gone |

### How they interact

* The C ABI looks a handle up in the registry (`g_mtx`), gets a `shared_ptr`
  to the context, and calls the context's subsystems with it. Shutdown takes
  the handle out and tears down while other calls may still hold theirs.
* `MemoryManager::alloc` calls the platform (driver lock), the IlcManager (its
  mutex), the page table (its mutex) and only then takes its own mutex;
  `free` takes its own first and calls the others under it.
* `TaskGraph::run` holds the graph's mutex and takes and returns streams of
  the MicroKernel, which other users of the context take and return too.
* `KvCache::touch` calls its own `evict`; both lock the same mutex.
* The fault poller is a thread that reads memory the device writes.

* A boot registers its context only at its end; until then, and after a
  failure, the destructors are all that gives resources back. The registry,
  the dispatcher and the CUDA shim's table of states are function-local
  statics, and the registry's destructor may destroy contexts at exit.
* The prefetcher calls the scope and the scope the fault handler, each with
  its own mutex held.
* `Pipeline` has no mutex; it drives a TaskGraph that has one.

The hazards that follow from this, with the line at which each bites, are
listed in `PROJECT.json`, with the properties that would catch each. Three have
none: a page that is mapped again while pinned (page_table.cpp:42), a tag
inserted after ILC is off (ilc_manager.cpp:31), a module freed under launch
(microkernel.cpp:152). In all three the code does the wrong thing; section 6
says what.

## 2. The models

Every variable and action carries the name of what it stands for. An action is
the stretch of code between two places where another thread can get in: a call
under one mutex is one action, and a call that goes through several locks is a
chain of them with a `pc`. Local variables are per-thread functions. Operators
introduced by a comment `Fault:` are deliberately wrong versions of the
operator after them; nothing uses them, they are there to be substituted in
the mutation runs of `PROJECT.json`, which show that each property can fail.

### PageTableOps and PageTable

`Mapped`, `Unmapped`, `Counted` and `Victims`/`Spilled` are what one call does
to `table_`. A page is a range of `PageUnits` address units (64 or 128 KB in
the code), and ranges are in units, so that the rounding of a range to pages
(`PagesOf`) is the code's, empty and unaligned ranges included. `unmap_range`
stops at the first pinned page with the pages below it already gone.
`evict_until` chooses among the sets its sort allows: ties go any way, and the
Arc policy does not sort. The percentages of `evict_until` are given as the
page counts they come to. `PageTable` adds the clock and `held`, the pages
each client has pinned. In the passing run `RemapPinned = FALSE`: nobody maps
a range some client has pinned. What happens otherwise shows
`PageTableRemapPinned.cfg`.

### MemoryManager

An alloc is `AllocHbm` (the driver), `CheckIlc` (the test of `enabled_`
outside the mutex), `InsertTag`, `MapPages`, `AdviseReadMostly` and `Publish`;
a free is `FreeLock`, `FreeUntag`, `FreeUnmap`, then `FreeHbm` or
`FreeHbmFails`, and `FreeErase`. `lock` is the manager's mutex: free holds it
throughout, alloc only in `Publish`. `AdviseHeld`, `Pin` and `Unpin` are what
callers do to the pages of an allocation; `DisableIlc` is the ILC part of
shutdown; `Destroy` is `~MemoryManager`. `held` and `refused` are ghosts: what
callers hold, and what the driver has refused to free. `FreeHbmFails` stands
for the Metal shim, which may answer InvalidArgument (metal_shim.mm:248-260).

The passing run assumes buffers aligned to pages (`AllocAlign = PageUnits`).
cuMemAlloc promises 256 bytes only; with two buffers in one page, freeing one
unmaps the page under its live neighbour (page_table.cpp:54-55).

`Allocator` is the specification a caller would write: disjoint blocks handed
out and taken back, and a byte count. `MemoryManager` implements it with
`blocks` the entries of `live_` and `total` `bytes_allocated_`. The difference
between the two is the chain of steps above: the driver may hand a new alloc
the address that a free has just returned and whose entry is still in `live_`,
and `Publish` must come after `FreeErase`; the mutex sees to it.

### MicroKernel

The stream pool through the life of a context. `registered` and `destroyed`
are the registry's view; a thread that is not idle holds a `shared_ptr`, so
the context is destroyed by the last `Drop` after `TakeHandle`, whichever
thread does it. A submit is `Acquire`, `FindModule`, `Launch`, `Sync`,
`Release`, `Drop`; a barrier is `SyncAll`; a shutdown is `TakeHandle`, `Drain`,
`Teardown`, `Drop`. `busy` is the GPU's side: streams with a kernel that has
not finished, which `Complete` finishes. `FindModule` and `Launch` are apart
because find_module returns a pointer and unlocks; a module freed in between
may read as anything, so `Launch` may then succeed or be refused either way.

No backend in the tree fills in `KernelModule::functions`
(cuda_driver_shim.cu:408-410), so with them launch always answers
InvalidArgument (microkernel.cpp:155). The passing run takes
`FillsFunctions = TRUE`, as the platform interface allows, to have kernels on
streams at all.

### Boot

The context's life around `MicroKernel`'s: `Construct` to `Register` are the
phases of `boot`, each with the early returns it has; `Lookup` to `EndCall` a C
call, with the lazy `memory()` under the registry's mutex; `TakeHandle` to
`ReleaseVaddress` the steps of `firmware::shutdown`; `Drop`, `DestroyMember`
and `FreeContext` the end of the last `shared_ptr`, member by member in
reverse order of declaration; `BeginExit`, `ExitEntry` and `ExitStatic` the
destruction of the statics when main has returned. `held` and `streams` are
the driver's side: what it has made for a context and not taken back. A
context's handle is its address, which the heap may give to a later context:
the shims keep their `states` and flags by address and never erases them.
`current` says which threads have the CUDA context current, since only the
thread that makes an entry of `states` gets it; on another thread the driver
makes nothing. `device` is one of three, one for each way boot goes:
with the VMM pool (Hopper, Ampere), without it (Turing, Pascal), Metal.

### FaultHandler

The handler where it has a buffer (Metal). `Install`, `Uninstall`, `Join`,
`FreeBuffer` are the owner's side, `Sweep`, `Look`, `Resolve`, `Mark` the
poller's, a record at a time. The device is external: it writes a record's
address and then its status (`LogAddress`, `LogStatus`), into a slot that has
been dealt with, and nothing once uninstall has begun. The poller's counters
are compared with the ghosts `waiting` and `logs`. install clears the buffer to
zeros, the status of a pending fault, so the poller's first sweep takes each
empty slot for a fault; `RecordsCountedOnce` says so.

### TaskGraph

`add_stage`, `validate` and each stage launch of `run`, over a pool that
`OtherAcquires` and `OtherReleases` take streams from. `run` is `Run` (reads
`validated_`, unlocked), `RunValidate`, `RunLock`, then `Acquire`, `Launch`,
`Sync` for each stage, in any order a pass over a hash map can produce, and
`Finish`. Kahn's algorithm is `Visited`, by rounds, with the code's in-degrees:
an entry listed twice counts twice and is taken off once. Whether a stage's SM
footprint passes the comparison is a field of its contract.

### Pipeline

`Pipeline` EXTENDS `TaskGraph` and drives it: `Call` reads `built_`, a thread
that finds it false adds the four stages one by one (`BuildStage`), validates
and sets `built_`; every step inside the graph is `TaskGraph`'s own. The
footprints are those of the code, compared with the shared memory of a device
as validate compares them (graph.cpp:77). Nothing guards `built_`: what keeps
two threads from building at once is that the second one's add_stage of
"preprocess" is refused, and it returns InvalidArgument.

### KvCache

Each method is one action under `mtx_`, except touch on a page that is not
resident: `TouchMissing` takes the mutex, then either `Fill` or, when the cache
is full, `Evict` and `Fill`. `Evict` needs the mutex free, whoever calls it.
The attention weights are small naturals instead of floats; only their order
matters. `pins` is what callers have pinned.

### ContextScope

One scope that threads share, its prefetcher, and C calls that make a scope of
their own (`AbiPrefetch`). `Step` charges a token to L4 and spills what is over
into L3; amounts are in tokens. `Observe` appends a row to the window;
`PrefetchNext` takes the prefetcher's mutex and a top-k of the summed scores,
any of them on a tie, and calls prefetch_attention: `Check` reads `kv_hbm_`
outside the mutex, `Lock` takes it, `HintSlot`/`Injected` pass each slot that
lies in the region to the fault handler under its mutex, and `SkipSlot` passes
over the others. `Bind` may come between any two of these. `owed` and `hints`
are ghosts.

### Transfers

A file is a sequence of cells with a version each; a call reads it in chunks
(`Stream`: gds_stream), reads it into a staging buffer (`Stage`: run_preprocess)
or writes it (`Write`: gds_write). A round of the loop is `HostBuffer`, `Open`,
`ReadCell`s, `EndCells`, `CopyToDevice` on CUDA and without the bounce buffer on
Metal; each step may fail, and each failure returns by its own path (`Unhost`,
`Unstage`). With `gds_enabled_` set the shim does the same as without, so the
flag does not appear in a guard; `Shutdown` clears it at any time. `Submit`,
`Wait` and `UseCopy` are an asynchronous copy of CUDA. `floor`, `asked` and
`lost` are ghosts; `lost` are the cells whose bytes the C library loses when
fclose fails.

## 3. The runs

Passing runs (TLC finds no error). States are distinct states.

| run | instance | states | what it shows |
| --- | --- | --- | --- |
| `PageTable` | 3 clients, 3 pages, 4 ranges, refcount limit 2 | 74k | pins are counted exactly (`RefcountCountsHolders`); a held page is mapped and does not move (`HeldIsMapped`, `HeldStaysPut`); LRU order (`SpillsOldestFirst`) |
| `MemoryManager` | 3 threads, 3 pages of device, sizes of 1 and 2 pages | 702k | no buffer leaks (`BuffersAccounted`), what callers hold can be freed (`HeldIsLive`), live means mapped means backed and destruction leaves nothing (`PagesFollowMemory`), tags are owned (`TagsAreOwned`), `Allocator` is implemented (`ImplementsAllocator`) |
| `MicroKernel` | 3 threads, 2 compute, 1 dma, 1 fence stream | 77k | a stream is in the pool once or with one thread, and idle in the pool (`OneOwner`); nothing survives the context and nobody is in it when it goes (`DestroyedIsDone`); calls return and shutdown leads to destruction (`CallsEnd`) |
| `Boot` | 2 threads, 2 addresses, 2 boots, 3 devices, 2 streams | 131k | every end of a context, a failed boot's included, gives back what the destructors own (`DestructorsRelease`); handles, references and pollers are of live contexts (`ReferencesAreLive`); an address used again starts with clean flags (`FlagsMatchEngines`); destructors find what they call, at exit too (`DestructorsFindPlatform`); `CallsEnd` |
| `FaultHandler` | 2 slots, 3 pages, 4 logged faults | 24k | the buffer outlives the poller's last sweep (`PollerHasBuffer`), each record is counted once (`RecordsCountedOnce`), no fault the device waits for is marked away (`WaitingIsPending`); faults are handled and uninstall returns (`PollerServes`) |
| `TaskGraph` | 2 threads, 3 stages, any dependency lists of up to 2, 2 classes of 1 stream | 826k | order (`DependenciesFirst`), streams go back (`StreamsConserved`), one launch per stage (`LaunchedOnce`), a run that returns Ok completes a valid graph (`OkCompletesValidGraph`), the traversal finds exactly the cycles (`KahnFindsCycles`) |
| `Pipeline` | 2 threads with 2 calls each, 4 devices, dry or not | 15k | `built_` means the whole graph (`BuiltIsWhole`), a pipeline that does not fit launches nothing (`UnfitNeverLaunches`), an Ok run leaves no stage behind but for failures (`RunOkLeavesNothing`), calls return |
| `KvCache` | 2 threads, 3 pages, limit 2, 3 weights | 68k | the count is exact and within the limit; pinned pages stay; the least attended page goes |
| `ContextScope` | 2 threads, 2 caches, 2 rows, 2 layer sizes | 346k | no token is lost or counted twice (`TokensConserved`); the hints of a call are for one cache and inside it (`HintsInOneCache`); the three mutexes cannot deadlock (`CallsReturn`) |
| `Transfers` | 2 threads, a file of 3 cells, chunks of 1, 2 and the default | 231k | a read leaves a prefix of what was asked for, the whole if Ok (`ReadsFetchPrefix`); an Ok write is written but for fclose (`OkWriteIsWritten`); no buffer leaks on any path (`NothingLeaked`); calls return |

Runs that show a disagreement (TLC finds the property violated):

| run | property, and where the repository states it | what the code does |
| --- | --- | --- |
| `KvCacheFull` | a touch beyond the limit returns (test_token_opt.cpp:59-65) | touch calls evict with the mutex held (kv_cache.cpp:19) |
| `TransfersWait` | wait synchronizes (dma_engine.hpp:41-42) | the event of a CUDA copy is the null stream, which wait takes for none (cuda_driver_shim.cu:646) |

Further configurations that are violated, and the disagreement each shows, are
at the head of section 6.

### Bounds

* `PageTable`: three pages are the least that let a range overlap its
  neighbours on both sides; four ranges cover aligned, unaligned, empty, and
  empty unaligned ones. The refcount limit (0xFFFF) is 2, below the number of
  clients, so that it is met. `MaxClock = 2` gives three readings, enough for
  any order and any tie among three pages.
* `MemoryManager`: three pages of two units with sizes 1 and 3 give a buffer
  with slack in its page and one over two pages, address reuse, and a full
  device. Three threads allow a free, an alloc of the freed address and a
  third party. `MaxRefcount = 1` bounds `Pin`.
* `MicroKernel`: one submit each (`MaxSubmits`), any number of barriers and
  loads: enough for two users of one class, a third thread shutting down, and
  an empty list (the dma list has one stream).
* `Boot`: two boots with two addresses let contexts live side by side and an
  address be used again; two streams let a spawn fail half way; with one call
  each (`MaxCalls`) a call and a shutdown of the same handle overlap.
* `FaultHandler`: two slots let the device write one record while the poller
  is at the other, and four faults (`MaxLogs`) reuse both.
* `TaskGraph`: three stages allow a chain, a fork, a join, a cycle, a
  dangling and a repeated dependency; one class has a stage that does not fit,
  the other only stages without dependencies.
* `Pipeline`: two calls each (`MaxRuns`) give a call after a failed one, with
  the second thread building or running; the four sizes of shared memory (M1,
  T4, A100, H100) fall on both sides of the largest footprint.
* `KvCache`: two resident pages of three is the least that has a choice of
  victim; a third page makes the cache overflow. evict is asked for none, for
  one (a choice), and for more than there are. `MaxPins = 1` for each
  thread and page still gives a refcount of 2.
* `ContextScope`: the second cache and the second row have one slot less than
  the first, so that a row of the old cache overruns the new one; a window of
  two rows drops the oldest; layers of capacity 0 and 1 spill at once and at
  the second token. `MaxTokens = 1` bounds the charges, not the spills that
  set_layer causes.
* `Transfers`: three cells read in chunks of two have a short last chunk, a
  chunk size of 0 stands for the default, and an offset leads past the end of
  the file.

Deadlock checking is off where a system may stop by itself: threads that have
used up `MaxSubmits`, `MaxRuns`, `MaxCalls` or `MaxLogs`, a process that has
exited, a destroyed manager, and the full KvCache, whose self-deadlock is the
subject of `KvCacheFull`.

### Fairness

* `MicroKernel`: weak fairness of each thread's `Step` (an operating system
  thread inside a call keeps running) and of each `Complete` (the GPU finishes
  a kernel). Nothing forces a call to be made or the handle to be taken.
* `Boot`: weak fairness of each thread's `Step`: a boot, a call, a destructor
  or an exit under way goes on. It is enough for the registry's mutex, which a
  thread holds for one step, since the calls that want it are bounded.
* `FaultHandler`: weak fairness of the poller's thread, of an uninstall under
  way, and of the second half of a record the device has begun. The device
  never has to log, and the poller must keep up without its stopping.
* `TaskGraph`: weak fairness of each thread's `Step`. It is enough: the mutex
  is wanted again and again only by runs and their number is bounded, and the
  pool is never waited for (an empty class ends the run). `Pipeline` has the
  same of its own steps.
* `ContextScope`: weak fairness of calls under way (`CallStep`), not of `Step`,
  `Bind` or `Observe`, which may go on for ever and hold a mutex only within a
  step.
* `Transfers`: weak fairness of each thread's `Step`: file system and driver
  answer, well or badly.
* `KvCache`: strong fairness of `Evict`, since its mutex may be free only from
  time to time, and weak fairness of `Fill`. Even so `TouchReturns` fails.
* `PageTable` and `MemoryManager` have safety properties only.

## 4. The proofs

Theorems hold for any value of the constants, within the named assumption of
the module (`TaskGraphAssumption` and so on): sentinels are no threads, stages
or pages, threads and stage names are finitely many where they are counted,
limits and sizes are natural numbers. TLC evaluates the assumptions on every
run. Each module keeps its type invariant as `TypeOK`. A `TypeCorrect` theorem
proves it, where there is one; in the other modules it is documentation of the
state.

| module | theorem | statement |
| --- | --- | --- |
| `TaskGraphProofs` | `TypeCorrect` | `Spec => []TypeOK` |
| | `LaunchesInOrder` | `Spec => []DependenciesFirst` |
| | `RunsAlone` | `Spec => []RunningIsLocked` |
| | `LaunchesOnce` | `Spec => LaunchedOnce` |
| | `ConservesStreams` | `Spec => []StreamsConserved` |
| | `FindsCycles` | `Spec => []KahnFindsCycles` |
| | `OkCompletes` | `Spec => OkCompletesValidGraph` |
| `TaskGraphProofs`, about `Pipeline` | `PipelineUsesGraph` | `PSpec => Init /\ [][Next]_vars`, the graph's |
| | `BuildersAlone` | `PSpec => []OneBuilder` |
| | `FindsItWhole` | `PSpec => []BuiltIsWhole` |
| | `UnfitStaysPending` | `PSpec => []UnfitNeverLaunches` |
| | `OkLeavesNothing` | `PSpec => RunOkLeavesNothing` |
| `PageTableProofs` | `TypeCorrect` | `~RemapPinned => (Spec => []TypeOK)` |
| | `CountsPins` | `~RemapPinned => (Spec => []RefcountCountsHolders)` |
| | `KeepsHeldMapped` | `~RemapPinned => (Spec => []HeldIsMapped)` |
| | `KeepsHeldInPlace` | `~RemapPinned => (Spec => HeldStaysPut)` |
| | `SpillsInLruOrder` | `~RemapPinned => (Spec => SpillsOldestFirst)` |
| `MemoryManagerProofs` | `AccountsBuffers` | `Spec => []BuffersAccounted` |
| | `KeepsHeld` | `Spec => []HeldIsLive` |
| | `OwnsTags` | `Cpp => (Spec => []TagsAreOwned)` |
| | `FollowsMemory` | `Cpp /\ ~MayFreePinned /\ PageAligned => (Spec => []PagesFollowMemory)` |
| | `RefinesAllocator` | `Cpp => (Spec => ImplementsAllocator)` |
| `MicroKernelProofs` | `TypeCorrect` | `Spec => []TypeOK` |
| | `OwnedOnce` | `Spec => []OneOwner` |
| | `DestroysWhenDone` | `Spec => []DestroyedIsDone` |
| `BootProofs` | `TypeCorrect` | `Spec => []TypeOK` |
| | `ReleasesAll` | `Spec => []DestructorsRelease` |
| | `NothingDangles` | `Spec => []ReferencesAreLive` |
| | `FlagsFollowEngines` | `Spec => []FlagsMatchEngines` |
| | `FindsPlatform` | `~EarlyCalls => (Spec => []DestructorsFindPlatform)` |
| `SubsystemProofs`, about `FaultHandler` | `FaultTypeCorrect` | `FSpec => []FTypeOK` |
| | `PollerKeepsBuffer` | `FSpec => []PollerHasBuffer` |
| | `NoFaultLost` | `FSpec => []WaitingIsPending` |
| | `CountsOnce` | `FSpec => []RecordsCountedOnce` |
| `SubsystemProofs`, about `ContextScope` | `TypeCorrect` | `Spec => []TypeOK` |
| | `ConservesTokens` | `Spec => []TokensConserved` |
| | `HintsOneCache` | `Spec => []HintsInOneCache` |
| `TransfersProofs` | `LeaksNothing` | `Spec => []NothingLeaked` |
| | `WritesWhatIsAsked` | `Spec => []OkWriteIsWritten` |
| | `ReadsAPrefix` | `Spec => []ReadsFetchPrefix` |
| `KvCacheProofs` | `CountsResident` | `Spec => []ResidentCounted` |
| | `CountsPins` | `Spec => []PinsInv` |
| | `KeepsPinned` | `Spec => PinnedStays` |
| | `TakesLeastAttended` | `Spec => EvictsLeastAttended` |

*The task graph.* `DependenciesFirst` is not inductive. It needs to know that
the stage a `Sync` or a failed `Launch` ends is Running, so that no Completed
dependency is taken back: that is `RunningIsLocked`, which in turn needs
`MutexInv`: a thread between its first pick and its return holds the mutex, a
thread that executes a stage (`cur`) is in `launch` or `sync`, and the other
way round. The inductive invariant is

    IInv == TypeOK /\ MutexInv /\ RunningIsLocked /\ DependenciesFirst

with one lemma per conjunct (`NextTypeOK`, `NextMutexInv`,
`NextRunningIsLocked`, `NextDependenciesFirst`). `StepKinds` sorts the actions
into those that add a stage, start one, end one, and leave the stages alone, so
that the last two lemmas argue about four kinds of step instead of a dozen
actions. `AddingKeeps` says that a new stage disturbs no old one.
`LaunchedOnce` is an action property and follows from `IInv` step by step.
`StreamsConserved` speaks of cardinalities; `StreamsInv` states it without
them, using that only the holder of the mutex has a stream (`Occupied`), and
`UsingIsOne` gets back to the cardinality of `Using(k)`, which is 0 or 1.

`KahnFindsCycles` is about a recursion, `Rounds`, a recursive function of the
round. The provers cannot instantiate the library's induction theorems; what
they can use is that a set of natural numbers has a least element (`LeastNat`)
and, from it, `Upwards`: a set with 0 that has `i` if it has `i - 1` has all
numbers up to `N`. `Iterated` makes the function the recursion describes and
`RoundsAre` says that `Rounds` is it. If all stages are visited, the first round
that has a stage of a given set has one that depends on none of the set: no
cycle (`VisitedIsAcyclic`). If there is no cycle, the stages not yet visited have
one that depends on none of them, so each round adds a stage and `N` rounds are
enough (`AcyclicIsVisited`). `OkCompletesValidGraph` follows: on a graph without
a cycle the Pending stages, if any, have one all of whose dependencies have
Completed or failed, and `Finish` asks that none be ready.

*The pipeline.* `PipelineUsesGraph` says that every step is one of the graph or
leaves it alone; that is why the graph's invariants hold of a pipeline. Nothing
guards `built_`: the argument is that the first `add_stage("preprocess")` elects
the builder. `BuildInv` says for each place in build which stages are there;
two threads past the first stage would both have added it (`BuildsAlone`), and
one that finds `built_` false after that adds it again and is refused.
`BuiltInv`: while `built_` is set the graph is whole, valid, and nobody builds.
`StagesInv`: the stages are the ones build makes and none has been started
unless `built_` is set; on a device they do not fit validate does not answer
Ok, so it never is, and `UnfitNeverLaunches` holds. `RunOkLeavesNothing` is
`OkCompletesValidGraph` of the graph that was built.

*The page table.* `RefcountCountsHolders` and `HeldIsMapped` need each other: a
decref must find its page mapped for the count to go down with the holders, and
unmap_range leaves a held page alone because its count is not zero
(`HeldIsCounted`, `ErasedIsFree`). Together with `TypeOK` they are inductive,
one lemma per call. The condition `~RemapPinned` is needed:
`PageTableRemapPinned.cfg` shows what a map_range over pinned pages does. The
two action properties follow from the invariant and from what a call can do to
the place of a page (`CountingMovesNothing`, `EvictionTakesOldest`).

*The memory manager.* free holds the mutex from its lookup in `live_` to its
erase (`LockInv`), so at most one entry is being erased and alloc publishes
nothing meanwhile. The driver hands out an address only when it has no buffer
there (`DeviceInv`: buffers are separate; `AllocInv`, `LiveInv`: an alloc under
way and an entry nobody is erasing have theirs), so an entry of `live_` at the
address of an alloc under way can only be the one being erased, and it is gone
when alloc publishes (`PublishesFresh`). That makes `BuffersAccounted` and
`HeldIsLive` inductive, together with `FreeInv`: what is being freed is in
`live_` and nobody holds it. The refinement maps `Publish` to `Grant`,
`FreeErase` to `Reclaim` and `Destroy` to `ReclaimAll`: `Grant` asks for
disjoint blocks, which the separate buffers give (`RegionsApart`), and
`Reclaim` for the bytes of the entry. `TagsAreOwned` needs `UntagInv`: from
untag to the driver's free the pointer has no tag; after that the next alloc may
get the address and tag it. The refinement and the tags have the
condition `Cpp`: callers free with the Allocation they got.
nexusrt_mem_free, which passes a pointer only, counts no bytes down and leaves
the tag (section 6).

`PagesFollowMemory` needs three conditions, each of which the code relies on
and nothing in it ensures: `Cpp`; `~MayFreePinned`, since free drops the refusal
of unmap_range (`MemoryPinnedFree`); `PageAligned`, that the driver's addresses
start pages, as those of cudaMalloc and of Metal buffers do. Then two buffers
share no page (`TableInv` and division, `DivMod`, `UnderPage`), and what one
call maps or unmaps is its own: `OwnInv` says what a call has done to its pages
so far, `LivePages` that a live entry nobody is erasing has all of its own.

*The micro-kernel.* `OneOwner` counts; the invariant says the same without
counting. `HandInv`: a thread has a stream exactly between its acquire and its
release. `PlaceInv`: no stream is at two places of the lists, on a list and in
a hand, or in two hands. `StreamInv`: the platform's streams are the ones at
some place. `BusyInv`: a kernel runs on a stream whose thread waits for it.
`EndInv`: a destroyed context is unregistered, empty and idle. Pop and push of
a list are the lemmas `Popped` and `Pushed`, and a drain the lemma
`DrainEmpties`; `StillKeeps` covers every step that moves no stream. The one
step that needs all of it is the last `Drop`: everybody else is idle, so no
hand has a stream, so every stream is free and is destroyed, and none is busy.
`CountsOwner` turns places into the two cardinalities, for which a list must
not be longer than the pool (`ListsFit`, an injection).

*The fault handler.* That no fault is lost needs that the poller's `Mark` hits
the record it has looked at (`RecordInv`): the device writes only records whose
status is not 0, the poller has found 0, so between `Look` and `Mark` the
record is neither the one the device writes nor one it may begin. `WaitInv`
adds to `WaitingIsPending` that the record of a fault that waits is not the one
about to be marked, and `PhaseInv` says where the owner must be for there to be
a buffer and a poller. `CountsOnce` counts `Pending \ InProgress`, which
`Look` and `LogStatus` change by one each.
(`Init`, `Next`, `Spec` and so on have an F before their names in
`FaultHandler`, so that one module can be about it and `ContextScope`.)

*The context scope.* `TokensConserved` needs the types: the spill is a
difference that must not go below zero. `HintsInOneCache` needs `CacheInv`: a
thread that hints holds the scope's mutex, unless its scope is its own, so that
`Bind` cannot change the cache under it, and all hints so far are for the cache
it now sees.

*Boot.* `RefInv` is the base: a thread that boots or destroys a context is the
only one to refer to it, the registry included (`Alone`); a call has got its
reference from the registry, where only booted contexts are. So members come
and go in one hand (`MembersInv`), and what the driver holds for a context is
held for a member that is there (`HeldInv`), the address range for a context
that is not shut down or whose shutdown is under way (`RangeOf`): a context
without members holds nothing, which is `DestructorsRelease`. When the
micro-kernel is destroyed no thread is in a call, so none of its streams is in
use and all go. `FlagInv` is `FlagsMatchEngines` as long as the table is there:
two live contexts have different addresses, so a flag has one owner, and an
engine leaves the flags it has enabled. `StaticInv` follows the order of the
statics: unless a C call came first (`~EarlyCalls`; `BootEarlyCall` shows what
happens then) the shim's table is constructed before the registry, and in the
exit the registry is destroyed before it. `TypeCorrect` has one more part,
`StreamInv`: the streams of a pool are no more than boot makes and no fewer
than are in use; only the thread that boots a context makes any, and a drain
takes those nobody has.

*Transfers.* `NothingLeaked` follows from where a thread is (`BufferInv`): a
bounce buffer from `fetch` to `copy`, a staging buffer only in a call of
`Stage` that has not passed `free`. `OkWriteIsWritten` needs `WriteInv`: a write
is one chunk, the cells given to the C library are the ones from the request's
offset on, each is in the file or in `lost`, and nothing resets a cell.
`ReadsFetchPrefix` needs `ReadInv`: at each step a call has fetched the first
`Delivered` cells of its destination and no other, every round begins at a
multiple of the chunk size, and what is in the bounce buffer is for the places
that follow. A cell it fetches is no older than the call since versions only
grow (`FloorInv`).

*The KV cache.* `ResidentCounted` needs `FillInv`: from the test of the limit
to the page it fills, touch has the mutex, so the cache is still not full and
the page still missing. evict subtracts the number of its victims, which are
resident pages (`VictimsAreResident`). The limit holds for the code as it is:
a touch of a full cache blocks on its own mutex and fills nothing.
The refcount of a page is a number of pins that several threads hold; `PinsInv`
counts them as pairs of a thread and a number up to its pins, so that a pin
adds one pair and an unpin takes one off. evict passes over what has a
refcount, so a pinned page stays, of whose pins there are always as many; and
the victims are those with fewer candidates before them than there are places
(`EvictsLeastAttended`).

*Only model-checked*: the liveness properties `CallsEnd`, `CallsReturn` and
`PollerServes`, which are out of the prover's reach. Every invariant and action
property of a passing run is a theorem. What a hypothesis of a theorem excludes
is not left open: a configuration of section 6 shows what goes wrong without it,
except for `PageAligned`, which is a fact about drivers.

## 5. Not modelled

* Nothing keeps state: WarpSpecialization and the status strings (tables), the
  coalescer and the GRDMA router (stubs), `run_train`, `run_postprocess` and
  the stubs of the stages, metrics, logging, configuration, the null platform.
* Nothing uses it: `TmaEngine` is not constructed anywhere, so no order of its
  calls is given; `ScopedStream`, whose pairing is that of
  `nexusrt_firmware_task_submit`.
* The GPU kernels (numeric code), `probe_device` and the loaders of the
  vendors' libraries, and the Python bindings, each of which is one C call.
* Inside modelled components: `MemoryManager::prefetch` and `coalesce`, which
  change nothing; the counters of IlcManager; `sync_all` stopping at an
  error; `wait_all`, `find`, `stage_names` of the TaskGraph (readers) and
  `set_overlap` (a table nobody reads); lookups that return pointers into a
  map; the clock and the resolve times of the fault handler; Metal's command
  buffers.
* Boot models one kernel module and one allocation of a context; what several
  do is in `MicroKernel` and `MemoryManager`.

## 6. Disagreements seen while modelling

Configurations that TLC finds violated and that `PROJECT.json` does not list
among its runs, each with the disagreement it shows:

| configuration | property | what the code does |
| --- | --- | --- |
| `PageTableRemapPinned` (`MCPageTable`) | a pinned page is not evicted (page_table.hpp:67-68) | map_range resets the refcount of a pinned page (page_table.cpp:42) |
| `MemoryAbiFree` (`MCMemoryManager`) | a tag goes when its allocation is freed (architecture.md:361-362) | `nexusrt_mem_free` passes a pointer only, free looks at the argument's `ilc_tagged` (manager.cpp:151) |
| `MemoryPinnedFree` (`MCMemoryManager`) | a pinned page keeps its memory (page_table.cpp:60) | free drops the refusal of unmap_range (manager.cpp:74) |
| `MicroKernelShutdown` (`MicroKernel`) | shutdown releases all resources (boot.hpp:75) | a stream in use is put back after the drain (microkernel.cpp:76); it goes with the context |
| `TaskGraphLateStage` (`MCTaskGraph`) | contracts are enforced before launching (architecture.md:386-387) | `validated_` is read before the lock (graph.cpp:136) |
| `BootLeaks` (`MCBoot`) | destruction releases all GPU resources (context.hpp:14-15) | `~FirmwareContext` is empty (context.cpp:19-23): the pool's physical handle is never released, and the address range only by shutdown, so not after a failed boot |
| `BootEarlyCall` (`MCBoot`) | destructors find what they call | a C call before the first boot constructs the registry before the shim's table, which is then destroyed first at exit |

Places where code and documentation differ, or where the code relies on
something nothing ensures, noted for the maintainers:

* page_table.cpp:139 counts `fetch_count` up at eviction; architecture.md:349-350
  says it counts how often a page was paged in.
* page_table.cpp:97: lookup's pointer outlives the mutex (context.hpp:13-14
  calls the subsystems thread-safe).
* manager.cpp:88-90 says that advise_read_mostly registers a pinned range; it
  maps the range with refcount 0, which pins nothing.
* ilc_manager.cpp:31 tests `enabled_` before the lock: a tag may be inserted
  after disable (cuda_driver_shim.cu:602-603).
* microkernel.cpp:152: the module found may be freed before launch reads it.
* graph.cpp:147 against graph.cpp:160: a run after a failed one finds nothing
  ready, launches nothing and returns Ok.
* graph.cpp:77 compares MB with KB, and the memory footprint is compared with
  nothing (api_reference.md:527-529). With it the pipeline does not build on a
  T4, a P100 or an M1: the first run answers ContractViolation, and as the
  stages stay in the graph every later one answers InvalidArgument.
* graph.cpp:65 against graph.hpp:82-83: a dependency listed twice is reported
  as a cycle.
* graph.cpp:104 returns OutOfMemory on an empty pool; api_reference.md:521-523
  has the scheduler retry.
* graph.cpp:168: wait_all walks the map without the mutex.
* orchestrator.cpp:91-93 always reads 1 MB: a shorter corpus is an IoError.
* kv_cache.cpp:15 keeps the running maximum of attention;
  architecture.md:454-456 speaks of recent attention.
* scope.cpp:48 sets `current_resident_` to 0 and nothing ever raises it, so
  prune evicts nothing; step neither prefetches nor prunes as scope.hpp:69-70
  says, and L3 grows without bound, with no spill to NVMe
  (architecture.md:462-463).
* fault_handler.cpp:38 clears the buffer to the status of a pending fault: the
  first sweep counts every empty slot as a fault. A full buffer does not count
  `failed_faults_` up and nothing overwrites the oldest record, as
  api_reference.md:524-526 has it.
* dma_engine.cpp:66 and 84 give wait 30 s, which no shim looks at. gds_read and
  gds_write with `gds_enabled_` set end in the same bounce-buffer path as
  without. Metal's dma_submit encodes and commits nothing, so a wait for its
  event would not end. The result of fclose is not looked at
  (cuda_driver_shim.cu:512).
* cuda_driver_shim.cu:666-671 makes the CUDA context current only on the thread
  that makes the entry: a thread that boots a context at an address used
  before, or that calls into a context another one booted, has none. The
  primary context is retained for each entry and never released.
* api_reference.md:77 and boot.hpp:75 call shutdown idempotent; a second one
  finds no handle and answers with an error.
* boot.cpp:84-87 and 161-164 abort where architecture.md:489 falls back.
* `~FirmwareContext` destroys the memory manager first and the micro-kernel
  last, by order of declaration; context.hpp:76-78 says otherwise, and so does
  architecture.md:505-507.

## 7. What could come next

1. What `PagesFollowMemory` becomes for a driver that does not align buffers to
   pages, when two of them share one.
2. `TmaEngine`, once something constructs one; Metal's command buffers, once
   its shim commits them.
3. `TaskGraph` takes its streams from a number of idle ones per class; over
   `MicroKernel` a shutdown could drain the pool while a graph runs.

## 8. Running it

    tlc -workers 2 -config MemoryManager.cfg MCMemoryManager.tla
    tlc -workers 2 -config MicroKernel.cfg MicroKernel.tla
    tlapm TaskGraphProofs.tla    # and the other *Proofs modules

A run's module is the `MC` module of its name where there is one.
