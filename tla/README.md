# OrchFS: models and proofs

This directory holds TLA+ models of OrchFS (the repository this directory is
kept beside; paths below are relative to its source tree), the TLC
configurations that check them on small instances, and TLAPS proofs about two
of them for every instance. `PROJECT.json` is the machine-readable index: which
run checks which properties, which lines each definition translates, which
mistake each property is known to catch, and which hazards of the code the
properties are about.

- [The system](#the-system)
- [Modules](#modules)
- [Runs](#runs)
- [Bounds](#bounds)
- [Fairness and deadlock](#fairness-and-deadlock)
- [What is proved](#what-is-proved)
- [What is only model-checked](#what-is-only-model-checked)
- [Where the code and its documentation disagree](#where-the-code-and-its-documentation-disagree)
- [Not modelled](#not-modelled)

To repeat a check: `tlc -workers 2 -config Journal.cfg MCJournal`, and
`tlapm RangeArbiterProofs.tla`.

## The system

OrchFS is a file system in user space. An application is linked against (or
preloaded with) **LibFS**: wrappers of the libc calls decide whether a path or
descriptor belongs to OrchFS, and an adapter turns blocking calls into requests
of an asynchronous client. Requests travel through shared memory, in lanes of a
submission ring and a completion ring, to the **KFS** server process. There each
request is a C++20 coroutine on a **Runtime** of pinned workers. The server
finds the remote handle, the namespace code resolves and changes directories,
and the file code plans a transfer over the file's index: full blocks of 32 KiB
go to the SSD, small pieces to pages of persistent memory (PMEM), and a block of
both kinds is a strata block. Overlapping requests on a file are ordered by a
**range arbiter**. Data go to the device (PMEM by copying, the SSD through SPDK
queue pairs), metadata to a redo **journal** in PMEM, and a background
**migration** moves full PMEM blocks to the SSD. The repository also vendors
**filebench**, with which the paper's workloads are run.

## Modules

A module models a component: its variables are the component's state, and an
action is one handler or, where several threads or coroutines share the state,
the part of a handler between two points where another one may act (an atomic
operation, a lock, a `co_await`). Data are abstracted to what the properties tell
apart: a write is a number that fills the units it covers, a path a short
sequence of names, a request the operation it asks for. Operators named in a
comment that begins with "Mistake" are wrong versions of the definition after
them; they are used only to show that a property notices.

| Module | Code | State and steps |
| --- | --- | --- |
| `RangeLock` | `include/orchfs/async/range_arbiter.hpp` (what it promises) | abstract byte-range lock: waiting requests in order, holders, grants |
| `RangeArbiter` | `Async/range_arbiter.cpp` | phase word, inbox, batch, active list, waiting deque; acquire and release on and off the owner worker, park, drain, grant, hand-over, allocation failure |
| `RuntimePollers` | `Async/runtime.cpp`, poll services | copy-on-write lists of pollers, registration, reset and its epoch wait, the worker that polls, reclaims and leaves |
| `Runtime` | `Async/runtime.cpp`, `task.hpp` | queues and inboxes of workers, admission, `schedule`, moves, pins, suspension, parking on the futex, stop, the closing protocol of worker 0, join; each load of that protocol is a step |
| `RuntimeCreate` | `Async/runtime.cpp`, `create` and `~Runtime` | the process-wide pointer and pid word, start gate, failures, fork |
| `BlockDevice` | `Async/block_device.cpp`, `KernelFS/device.c` | merging, PMEM/SSD split, submission, callbacks on any thread, the last one resumes |
| `NvmePlan` | `KernelFS/spdk_nvme_backend.cpp`, `plan_io` | pure function: commands of a byte range |
| `SpdkDevice` | `KernelFS/spdk_nvme_backend.cpp`, `spdk_device_service.cpp` | submitters, inboxes, write tickets and fences, bounce buffers, command slots, queue-pair failures, two-phase stop |
| `DeviceStart` | the same two files | lifecycle lock, claim, environment, controller, pollers becoming ready, the way back from any failure |
| `AtomicStore` | what the journal promises | a store that changes by whole transactions |
| `Journal` | `LibFS/lib_log.c` | volatile and durable cache lines, records, frame, fences, apply, checkpoint slots, abort, recovery; a power failure at any store |
| `BlockAlloc` | `KernelFS/balloc.c`, `LibFS/libspace.c` | sharded bitmap, claims by compare-and-swap, multi-block reservation with rollback, deferred release, restart and recount |
| `FileIndex` | `LibFS/index.c`, `kfs_data_plan.c`, `lib_inode.c`, `KernelFS/kindex.c` | nodes of the compressed radix tree as functions on (node, field) in memory and in PMEM, the log between them, insertion with splits, strata nodes, remapping, deletion, commit and abort |
| `FileCore` | `Async/kfs_coroutine_core.cpp` (file part), `LibFS/migrate.c` | index, size and their committed copies, media with what is durable, extent and inode snapshots, range permits, requests and migrations in flight |
| `Namespace` | `Async/kfs_coroutine_core.cpp` (path part), `Async/namespace_coordinator.cpp` | directories, dentry cache, open counts, orphan marks, locks; walks, create, open, unlink, rmdir, rename, close, crash and recovery |
| `ServerHandles` | `Async/server.cpp`, handles | handle table, lifecycle gate, write counter, offset gate, close, stop, cleanup |
| `ClientFile` | `Async/client.cpp`, `File` and `Directory` | offset gate, chunked transfers, directory batches |
| `ShmRing`, `IpcLane` | `Async/ipc_transport.cpp`, `client.cpp`, `server.cpp` | generations of ring slots; one lane with enqueueing threads, blocking callers, the pollers of both sides, stop, shutdown and death of either side |
| `Handshake` | `Async/ipc_transport.cpp`, `server.cpp` | control socket, backlog, handshakes with deadlines, sessions, retirement, stop, drain, join, kills and restarts |
| `KfsLife` | `KernelFS/kernel_main.c`, `kernel_func.c`, `async_server_bridge.cpp`, `LibFS/kfs_core_api.c`, `migrate.c` | start and stop of every part in order, signals, the migration scheduler's inbox, list and single run |
| `Posix` | `LibFS/orchfs_wrapper.c`, `async_adapter.cpp` | routing of calls, lifecycle gate, session epochs and leases, slots, reconnect, shutdown at exit |
| `FbAvl` | `filebench/fb_avl.c` | AVL tree with children, parent, side and balance of each node |
| `FbFileset` | `filebench/fileset.c`, `flowop_library.c` | filesets: trees of free, existing and missing entries, busy flags, open and idle counts, creation, flowops on files |
| `FbRun` | `filebench/procflow.c`, `threadflow.c`, `flowop.c`, `stats.c` | master, creator thread, processes and threads, their flags and locks, abort and interrupt |
| `FbSync` | `filebench/flowop_library.c`, `eventgen.c` | event, bandwidth and operation limits, semaphores, block and wakeup, finish on a count |

`RangeArbiterProofs` and `RuntimePollersProofs` hold the theorems. The modules
that begin with `MC` give constants their values. `MCServices`, `MCJournal`,
`MCServer` and `MCFilebench` put several components that
ask the same kind of question into one run: the variable `part`, chosen in the
initial state, says which component runs, and the others stay as they are. This
is a union of separate state spaces and not a composition.

Components that do interact are joined where one's guarantee is the other's
assumption:

- `FileCore`, `Namespace` and `ServerHandles` take permits the way
  `RangeLock` grants them: exclusive ranges, in order of arrival. That the
  arbiter implements `RangeLock` is checked and proved.
- `FileCore` and `Namespace` commit a transaction as a whole or not at all, which
  is `AtomicStore`. That the journal implements it is checked. What a transaction
  of `FileCore` logs is what the code logs: its own slots of the index leaf, and
  the leaf's whole flag word as it was in memory when the write was planned
  (`Word`, `Committed`).
- `FileCore` maps blocks by a function; that the tree in `FileIndex` is such a
  function, with the same blocks before and after a commit or an abort, is
  `TreeRight`.
- `IpcLane` is built from `ShmRing` (it extends it) and carries a request to the
  step at which `ServerHandles` begins; `Handshake` makes the session in which
  both run.
- `SpdkDevice` extends `NvmePlan`; `BlockDevice` sees it as callbacks that may
  come at any time, on any thread.

## Runs

Twelve runs, nine of which must pass and three of which must find a violation.
An invariant named below is often a conjunction; the comments in the module say
what each conjunct is about.

**services** (`MCServices`, `Services.cfg`). Five components.
- Arbiter: three coroutines, one of them with a worker of its own, ask for
  overlapping, adjacent, empty and too long ranges. `MutualExclusion`: two
  permits held together share no byte that one of them writes. `NoLostWakeup`: a
  coroutine whose request is decided while it suspends is scheduled, once.
  `ImplementsRangeLock`: the arbiter refines `RangeLock` (the mapping: a request
  is waiting from its push or its decision on, and a holder when it is in the
  active list). `EveryRequestDecided`: no acquire waits for ever.
- `ServicesSafe` and `ServicesEnd` put together what the other four promise:
  a reset poller does not run, and reset returns; a coroutine that awaits
  transfers is resumed once, after the last completion, with the right result; a
  start of the SPDK service that fails leaves nothing claimed, and starts and
  stops end; a process has one Runtime also after a fork, and create returns.

**journal** (`MCJournal`, `Journal.cfg`). Three components.
- Journal: two transactions on two words and a block. `Recoverable`: whatever
  part of the unfenced lines a power failure keeps, recovery finds a checkpoint
  and a frame that is complete or recognisably not, no freed block is handed out
  before the commit that freed it, and an abort restores memory.
  `ImplementsAtomicStore`: the whole, with recovery, refines `AtomicStore`.
  `MappingAfterData`: what a commit makes durable had its data made durable
  before.
- Space and index: `SpaceSafe`. Every set bit of a bitmap has exactly one owner,
  the count of used blocks is exact after a crash too, ENOSPC is answered only
  if no block stayed free during the scan, the durable bitmap marks what
  committed metadata refer to; and `TreeRight`: after any appends, overwrites,
  migrations, truncations, deletions, commits and aborts the cached tree and the
  one in PMEM map each block of the file once, contiguously and up to its size,
  and every allocated node, page, metadata block and SSD block is referred to
  once.

**journal_shared_word** (`Journal`, `JournalSharedWord.cfg`), expected to
violate `MappingAfterData`: one word with two fields that two transactions
change, see [below](#where-the-code-and-its-documentation-disagree).

**file_core** (`MCFileCore`, `FileCore.cfg`). Two clients and the migration on
two blocks of two pages of two units. `ReadsRight`: a read returns what the last
completed write left in each unit, through virtual, SSD and strata blocks and
while they change into each other. `CachesAgree`: an extent snapshot that a
read would trust maps every unlocked block as the index does, and fstat answers
with the size of the completed requests. `CrashSafe`: a crash at any moment,
with any subset of the unflushed stores, keeps each completed write and mixes in
nothing but writes under way. It exempts the blocks whose committed flag and slot
disagree (`Torn`) in scenes where two writers share an index leaf (`SharedLeaf`),
because there the code breaks it, see
[below](#where-the-code-and-its-documentation-disagree); with a leaf per block, or
one writer, there is no exemption. `SpaceExact`: nothing that is free is mapped, in
memory or in PMEM, and when all is quiet nothing has leaked.

**namespace** (`MCNamespace`, `Namespace.cfg`). `Tree`: every allocated inode has
one name, or none and an orphan mark; directories form a tree although renames
of directories run together. `CacheAgrees`: a dentry that is cached is right, and
a miss in a complete directory is an absence. `OrphansRight`: an open file keeps
its inode, an orphan mark belongs to an unlink under way or done, also when the
commit fails. `Answered`: every request is answered.

**server** (`MCServer`, `Server.cfg`). Five components.
- Lane: `SlotsSafe`: no slot is overwritten while it is read in place, and
  whatever is in flight has a completion slot. `Answers`: a caller gets its own
  answer, once. `NothingLost`: a completion that was published is not reported as
  a reset, and a server that shuts down publishes all it accepted. `CallsEnd`:
  calls and lanes end.
- Handles and files: `OpenWhileUsed`: an admitted write works on an open file and
  a handle has one closer. `OffsetsKept`: operations with the implicit offset
  neither lose nor repeat it at the server; over the chunks of a long transfer at
  the client, each chunk begins where the one before ended and nobody moves the
  offset in between. That holds unless a task writes at a given place under
  `O_APPEND`: the server then moves the handle's offset to the new end
  (`server.cpp:1021-1022`), and `File::write_at` takes no offset gate
  (`client.cpp:1574-1607`), so it may come between two chunks of a gated transfer.
  The model does the same, and the property claims for these tasks (`Located`) only
  that appended bytes never overlap. `SessionsEnd` (with the control socket):
  requests end, and a stopped session is cleaned up completely.
- Control socket: `HandshakeSafe`: no half of a session survives, no session is
  released while something names it, the socket's name belongs to the server that
  listens. `SessionsEnd`: connects, sessions and joins end.
- Process: `LifeSafe`: nothing runs on a part that `close_kernelFS` has taken
  down, one migration runs at a time and no candidate is in two places or lost.
  `LifeEnds`: scheduling calls and runs of the migration end, and so do the start
  and the shutdown, once the main loop has seen the signal.

**stop_signal** (`KfsLife`, `StopSignal.cfg`), expected to violate `StopHeeded`: a
server that is told to stop exits.

**posix** (`MCPosix`, `Posix.cfg`). `HandlesSafe`: no call uses a handle after its
close or the Runtime after its end, the counts that closers wait for are exact,
and the shutdown leaves nothing. `CallsReturn`: every call and the shutdown return.

**posix_host** (`MCPosix`, `PosixHost.cfg`), expected to violate
`HostOnlyAfterMiss`: a relative path goes to libc only after a lookup miss, or when
no session had ever been made.

**runtime** (`MCRuntime`, `Runtime.cfg`). `NothingStranded`: no work is left on a
worker that has exited. `Scheduled`: a coroutine is in one place, on the worker
its pin demands, with its wake-up on the way; join returns only when everything
is drained. `Completes`: accepted roots complete and join returns.

**spdk_device** (`MCSpdkDevice`, `SpdkDevice.cfg`). `WritesKept`: overlapping
writes, read-modify-write included, take effect in the order of acceptance, and
a flush covers what was accepted before it. `Released`: tickets, buffers and
command slots are given back however a request ends, and the backend goes away
alone. `PlanRight`: the commands move each byte once, in place, in whole LBAs,
and read first just where bytes must be kept, up to the largest offset. `Ends`:
requests are called back and a stop ends.

**filebench** (`MCFilebench`, `Filebench.cfg`). `FilesSafe`: the AVL trees are
ordered, balanced and linked both ways and find what was put in; the bookkeeping
of a fileset agrees with the file system and the threads. `BenchSafe`: nobody
starts before the master lets all start, the master outlives the processes, rate
limits and finishing counts hold. Of semaphores it says what the code gives
(`WaterKept`): what was posted is what was taken and what is left; the high-water
mark bounds the posts only if the sempost is blocking, which it is not by default
(`parser_gram.y:2036-2039`), and each wait of a semblock that ran into its 600 s
timeout, whose result the code ignores, adds to it. `BenchEnds`: creation, runs
and waits end, but for a run without a time limit that lacks its shared memory:
`proc_create` then returns with the run lock held and aborts nothing
(`procflow.c:820-824`), and every thread waits at that lock.

Every property of a passing run has at least one mutant in `PROJECT.json`: a
definition that models code replaced by a plausible mistake (a dropped recheck, a
wrong order, a missing reset), for which TLC finds the property violated.

## Bounds

| Run | Instance | Why it is enough |
| --- | --- | --- |
| services | 3 coroutines, 3 blocks of 4 bytes, `MaxByte` 11; 2 pollers; batches of up to 3 requests, PMEM of 2 bytes, merge limit 3, 2 faults; 2 callers and 2 pollers of the device service; 3 threads in 2 processes | a holder, a waiter and an overtaker; merging, splitting and the limits occur; the proofs remove the bounds for arbiter and pollers |
| journal | 2 transactions, 2 words, 1 block, 2 frames, 3 generations; 3 blocks in shards of 1 and 2, 3 operations; a tree of 3 layers of width 2 with 2 pages per block, 4 transactions, much or little space | both checkpoint slots are overwritten once; a reservation wraps around shards; the tree grows a root, splits a skipped path and runs out of each kind of node |
| file_core | 2 clients and the migration, 4 or 5 requests, 2 blocks of 4 units, 4 pages, 3 SSD blocks; 1 crash, 1 device fault, 1 refused commit | each layout change and each pair of overlapping requests occurs; space runs out |
| namespace | 2 requests at a time, 4 inodes, 2 names, five scenes; up to 2 handles, 2 or 3 attempts of a rename | an inode number is reused while another request still knows it; two directories are moved into each other |
| server | a lane of capacity 2, up to 3 calls and a shutdown, or 3 blocking callers; 3 requests of ten operations, 2 handles; 3 tasks on one File with chunks of 2 bytes; 2 clients and 1 server, or 1 client and 2 incarnations with 1 kill and 1 fault, backlog 1; 2 writers, 2 migration runs of 1 candidate | rings wrap, fill up and are drained by either side's poller; a close, a write and a second close; transfers of up to three chunks; full backlog, handshake deadline, restart over a stale socket; a run that starts its successor |
| stop_signal, posix_host | the same, with one writer; a missing socket | the shortest counterexamples have 2 threads |
| posix | 2 threads of 1 or 2 calls, 2 descriptors, 4 slots, 1 death of a session | every pair of steps of two calls on one slot, with a reconnect or the exit between them |
| runtime | 2 workers with 1 root, or 1 worker with a root and an outside completion, 2 moves | submission, move, suspension and the closing protocol interleave load by load |
| spdk_device | 2 queue pairs, 1 bounce buffer and 1 slot each, LBAs of 3 bytes, transfers of up to 6, offsets up to 11, 1 fault | head, body and tail commands and the end of the offsets; requests wait for each other's buffer, slot and ticket |
| filebench | 4 to 10 tree nodes; up to 5 entries and 3 threads; 2 processes of 2 threads; up to 4 threads on limits and semaphores | single and double rotations on insertion and removal; pickers wait for each other |

Unbounded counters of the code (positions in a ring, generations, sequence
numbers, epochs) are bounded by the number of calls. Sizes, offsets and byte
ranges that are compared or added near the top of their type have the top as a
constant (`MaxByte`, `Top`, `MaxPos`), so that the overflow tests of the code
matter. Symmetry is used only in runs without liveness (journal, file_core).

## Fairness and deadlock

Weak fairness of a thread, a worker's loop or a poller stands for the operating
system that keeps running it, and for device completions that arrive. Strong
fairness stands for the following, and for nothing else:

- `RangeArbiter`: a coroutine that is scheduled again and again is resumed
  although the owner worker also drains its inbox, because the worker's queue is
  FIFO; the holders release, because file operations end.
- `Namespace`: a request that waits for a lock gets its turn, because the
  arbiters grant in order of arrival.
- `IpcLane`: a thread that finds the transport gate or the ring free again and
  again gets it; the code spins with a yield and has no queue.
- `FbRun`: a flowop that may return something other than "ok" does so at some
  time, in the modes that wait for it.

Signals are not assumed to come, to come again or to come at a good moment:
`LifeEnds` says nothing of a server that sleeps in `pause()`, and `StopHeeded`
fails there.

Where every actor makes a bounded number of one-shot calls, "each call ends" is
stated as `<>[]` of "all calls have ended" (`CallsEnd`, `SessionsEnd`, `LifeEnds`,
`BenchEnds`): the two are the same for such systems, and the second is much
cheaper to check. The MC modules let interchangeable actors start in one order
(`RequestsOrdered`, `ClientsOrdered`, `WritersOrdered`), which loses no behaviour
but the renaming of another.
Deadlock is checked in services, journal, namespace and runtime. In namespace
it is the check of the lock order. The other passing configurations switch it
off because their systems come to rest: calls are used up, sessions end,
processes exit. There, with the exception of file_core, a liveness property says
that they rest only when all is done; in file_core, which has no liveness property,
`SpaceExact` says what a quiet state looks like.

## What is proved

TLAPS checks the following for every value of the constants. There are no
unproved steps.

**Range arbiter** (`RangeArbiterProofs`), from `ConstantsAssumption`: the calls
are records of naturals with a mode, the granularity is a positive natural and
the largest byte a natural; any set of coroutines, any subset of them with an
affinity.

- `Exclusion`: `Spec => []MutualExclusion`.
- `WakeupsExact`: nobody is resumed who is not suspended, and `NoLostWakeup`.
- `ProtocolSafe`: the exchange of phases never reaches `std::terminate`, and a
  permit in hand is in the active list.
- `NoIdleWaiting`: a request waits only behind an active or earlier waiting
  request that conflicts with it.
- `Fifo`: the action property that no request is granted past a conflicting one
  that came before.
- `Refinement`: `Spec => ImplementsRangeLock`.
- `TypeCorrect`.

None of these is inductive by itself. The inductive invariant `IInv` says where
each request is. A request in the inbox or in the drained batch is there once
and undecided (`QueuesDistinct`, `QueuedUndecided`). A request in the active list
is held, decided and on its way to its coroutine, or being released
(`ActiveState`). One in the deque is undecided and not active, and the deque is
totally ordered (`WaitingState`, `DequeOrder`). The phase word follows the
coroutine through `await_suspend` (`PhaseState`). Conversely an undecided request
is queued or waiting and a decided one active (`DecidedState`); exactly the
suspended coroutines of decided requests are scheduled (`ScheduledState`); and
active requests do not conflict (`BlockExclusion`). Without `DecidedState` a
wake-up could be lost, and without `QueuedUndecided` a request could be decided
twice. `Inductive` has one lemma per action. `GrantWaitersFacts` carries the core
of it: what the scan of the deque grants conflicts with no holder and with nothing
that stayed ahead of it. Exclusion of bytes then follows from exclusion of
blocks by monotonicity of division (`BytesShareBlock`). The refinement maps each
step to a step of `RangeLock` or a stutter (`StepRefines`).

**Poll services** (`RuntimePollersProofs`), for any set of pollers, with no
assumption: `ResetIsQuiet` (a callback whose `reset` has returned is not running),
`ListsAlive` (the worker goes through no freed list) and `RegistrationsKept` (a
concurrent registration loses no other). The invariant adds that a poller that is
being retired is inactive, that callbacks run only while the worker polls, and
that an owner whose wait is over has no callback under way (`WaitedQuiet`).

Both inductive arguments describe all behaviours of their modules; TLC runs the
same modules, so a mistake in the specification itself would show in the services
run.

## What is only model-checked

- Liveness: TLAPS does not prove properties under fairness, nor `ENABLED`.
- Everything about the other components, on the instances above.
- What recursive definitions compute: the AVL tree, the plan of commands, the
  merging of batches and the search of the index are compared with their
  declarative meaning over all bounded inputs. Induction over data is out of
  the prover's reach.

## Where the code and its documentation disagree

**The shared flag word** (run journal_shared_word). A write logs the whole
`virnd_flag` word of its index leaf (`LibFS/index.c:822`, `1049`, `1100`; the
image is taken by `add_record`, `LibFS/lib_log.c:695`) and then waits for its data.
A write to another block of the same leaf, which the range permits allow, logs and
commits the same word with the first one's flag in it. A power failure then
leaves a mapping whose data were never made durable. `README.MD:46-48`:
"Mapping-changing writes in the foreground request path commit journal metadata
only after the corresponding data is durable." The journal run has one field per
word, which is what the property needs. The orphan flag in the inode image
(`LibFS/kfs_core_api.c:190`) has the same shape.

`FileCore` logs the word as the code does, and without the exemption for
`SharedLeaf` its `CrashSafe` fails in both directions. One write's commit may
publish the flag of another that is still under way. And it may take back a flag
that was committed: t plans, with block 0's flag clear in its image of the word; u
turns block 0 into a strata block, commits and is answered; t commits its older
image, which clears the flag again, and after a restart u's completed write is
gone. What the exemption leaves of `CrashSafe` for such a leaf is everything about
blocks whose flag and slot agree.

**The lost stop signal** (run stop_signal). The main loop tests `stop_requested`
and then calls `pause()` (`KernelFS/kernel_main.c:59-61`). A SIGTERM between the
two sets the flag and is spent; the process sleeps until another signal, a SIGUSR1
for a snapshot included, arrives. `docs/async-spdk.md:342-344`: "Stop it with
`SIGINT` or `SIGTERM`; shutdown stops admission, drains client/core/journal/migration
work, stops SPDK while the Runtime is alive, and stops the Runtime last".
`scripts/async/run_layered_benchmark.sh:218-219` sends one SIGTERM and waits.

**A missing socket taken for a lookup miss** (run posix_host). A path call finds
the adapter ready; the session dies; another thread tries to reconnect, and
`connect(2)` fails with ENOENT because the socket's file is gone. The first call
then finds no session and is given that ENOENT as the reason
(`unavailable_error_locked`, `LibFS/async_adapter.cpp:385-392`).
`orchfs_async_adapter_allow_host_fallback` (`899-903`) takes it for the result of a
lookup, and a relative path goes to libc, where a file of that name may be another
one. `LibFS/orchfs_wrapper.c:88-91`: "Only a genuine lookup miss, or an adapter that
was absent before the call, is an intentional relative-path fallback."

The following counterexamples were found while the modules were written. The
instances of the passing runs leave the situation out, at the place given, so
that the properties hold for everything else; they say nothing about these cases.

*Runtime and lanes*
- `close_scheduling_if_drained` sets `scheduling_closed` before its second look
  and takes it back when an item was counted meanwhile (`Async/runtime.cpp:581`).
  Another worker may have read the flag and left; a `schedule()` that returned
  true then has its coroutine in the inbox of an exited worker, and join hangs.
  `runtime.hpp:178-180`: "admission closes atomically with the workers' final
  exit decision". (`Programs` has no outside completion together with two
  workers.)
- A blocking caller may lease a lane that asynchronous requests use too
  (`Async/client.cpp:499`): it takes the head of the completion ring, which may
  belong to another request, and the two counters of ids both start at 1.
  `docs/async-spdk.md:60-63, 124-126`. (`Situations` has a lane for one kind.)
- `lane_empty` looks at the inbox before the count of submitters
  (`Async/client.cpp:1042`): a request pushed between the two looks is left behind
  when the lane is drained. (`AllEnds` exempts it.) Comment at `client.cpp:1070-1075`.
- `ControlServer::listen` probes a name and takes it in two steps, and its
  destructor unlinks; two servers that start together can remove each other's name
  (`ipc_transport.cpp:1667`: "Never remove an active listener"). (`Handshake` has
  starts that do not overlap.) A full backlog makes a connect fail with ENOTCONN,
  and `ConnectAwaiter` has no deadline, so clients wait while a draining server no
  longer accepts.

*Handles and namespace*
- `do_read`, seek, stat, truncate, sync, set_flags, open_at and read_directory do
  not look at `closing` again once they have the lifecycle gate, as writes do
  (`Async/server.cpp:890`): they may work on a handle that was closed in between.
  (`WritesOpen` speaks of writes.)
- A create, mkdir, unlink or rename locks a parent it resolved earlier and does
  not ask again whether that directory still exists
  (`Async/kfs_coroutine_core.cpp:1367`); next to an rmdir the new file is lost in a
  deleted directory. (The scenes remove directories in which nothing is created.)
  `filesystem.hpp:58-60`.
- `O_TRUNC` takes the file's range while it holds the parent, in no order
  (`kfs_coroutine_core.cpp:1222`); with a rename that holds a recycled inode number
  this is a deadlock. `namespace_coordinator.hpp:21-24`: "ordered rename locking".

*File data*
- stat by path publishes an inode copy that may be older than the one a write has
  published (`kfs_coroutine_core.cpp:2636`), and an open with `O_TRUNC` stores an
  extent snapshot after it has given its permit back (`kfs_coroutine_core.cpp:1253`).
  `docs/async-optimization-plan.md:123`. (`PathPublishes` exempts scenes with them
  from the cache properties; `SpaceExact` covers them.)
- A reader publishes the mapping of a write that has not committed
  (`kfs_coroutine_core.cpp:690`); when that write fails nothing takes it back. A
  write may build on a size that another one has set in memory; when the first is
  refused, the second commits a size over unmapped blocks (`LibFS/lib_log.c:827`).
  (Failures have one client.)
- An append of less than a block to a file whose last block is a strata block
  fails with EIO: `append_nvm_pages` begins at the last block and does not step
  over it (`LibFS/index.c:735-781`). Writing a full block, overwriting part of it
  and appending is enough. `FileCore` and `FileIndex` model the refusal.
- A split of an index node changes the father's entry in memory only
  (`LibFS/index.c:294`); when a later allocation fails, the abort does not restore
  it, and likewise for changes after `add_record` ran out of memory. (`torn` states
  are exempt from `TreeRight`.)
- The migration does not flush the device before it commits
  (`docs/async-spdk.md:111-118` says so): `CrashSafe` is checked with migrations
  for devices whose completed writes are durable.

*Device and adapter*
- After a poll error, `request_stop` comes while submitters are under way
  (`spdk_nvme_backend.cpp:970`); a request pushed then is never called back, and its
  ticket blocks later ones. `spdk_nvme_backend.hpp:205-206`. (`CalledBack` and
  `DrainedWhenStopped` exempt failed queue pairs.)
- `spdk_device_service.cpp:948-949` keeps a service after a failed stop "for a
  diagnostic/retry", but a second stop returns the stored result. A controller that
  cannot be detached keeps the claim, and every later start is refused.
- The shutdown destroys the slots before the Runtime for the sake of their
  handles (comment above `files.reset()`), but a call that has left `active_calls`
  may keep its slot a little longer; the model lets it, and checks that it makes no
  remote step.

*Smaller observations.* A write or read in chunks reports an error although
earlier chunks were transferred and the offset has moved. `O_APPEND` writes longer
than a slot are not one piece. A schedule that is refused
while a migration run finishes leaves its candidate until the next one is added;
a requeue without memory drops it. Two reservations that meet in a nearly full
bitmap may both roll back with ENOSPC. A read of a directory returns entries that
are stale after a server-side error.

*filebench.* The idle count drifts from what `fileset.h:111` says when a file is
open several times. A waiting picker that is signalled and finds its own tree
empty does not pass the signal on. A closefile after a deletefile of a descriptor
that is still open dereferences a null entry. The creator waits for ever for a
worker whose fork failed or that died before it set its flag. `eventgen` wakes one
limiter per tick, and a limit that needs more than five ticks' worth of events
never proceeds. An error code is overwritten before `stats.c` tests it. The comment
in `procflow.c:680` speaks of a graceful shutdown, but exec'd workers die at once of
SIGUSR1. The scenes of `FbFileset`, `FbRun` and `FbSync` avoid these cases.

Three failures in filebench leave something behind, and the models have them: a
create that cannot make the parent directory returns with its entry busy
(`fileset.c:465-468`, `StaysBusy`); an open whose `posix_fadvise` fails returns with
the descriptor open and not counted (`fileset.c:501-507`, `LeftOpen`); and a run
without its shared memory keeps the run lock (`procflow.c:820-824`, `Stranded`). The
first two end the run. A semaphore is not modelled at the limit of its type
(`SEMVMX`, 32767), where a post fails with ERANGE and ends the run.

## Not modelled

- **Request decoding and argument marshalling** of client and server, event
  descriptors and the validation of a session's memory layout: sequential checks
  with no state behind them.
- **SPDK bridge** (`KernelFS/spdk_nvme_bridge.cpp`): calls into a library;
  `SpdkDevice` has their possible answers.
- **Formatter** (`KernelFS/mkfs.c`, `log.c`) except the first index, and the
  caller-polled mode of the device that it uses: it runs alone.
- **Frame and node pools** of the Runtime, **containers** in `util/`: allocation
  strategies and sequential containers behind an interface that the modules use as
  sets, sequences and functions.
- **`init_kernelFS_direct`**, reproduction trace, layered benchmark, configuration
  and scripts: no part of the running server, or measurement only.
- **`LibFS/dir_cache.c`**, and in `index.c` `delete_part_index`,
  `change_ssd_blk_info`, `change_nvm_page_info`, `append_single_ssd_block` and
  `sync_all_index`: not built or not called.
- **filebench**: the workload language, variables, random distributions, the
  shared-memory allocator, printing, and the POSIX-semaphore build of `semblock`.
- Memory ordering weaker than sequential consistency, reuse of process ids, and
  torn 8-byte stores to PMEM are outside all modules.
