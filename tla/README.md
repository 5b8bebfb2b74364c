# Formal models of NyKernel and the Nyrqis host backend

TLA+ modules, TLC configurations and TLAPS proofs for the parts of this repository
whose correctness depends on the order in which things happen. Every definition that
stands for code is translated from the source, and `PROJECT.json` ("map") names the
lines it stands for. Paths below are relative to the root of the repository; `K/`
stands for `nykernel-package/source/nykernel/src/` and `L/` for
`source/nyhal-linux-backend/`.

- [1. The system](#1-the-system)
- [2. The modules and the code](#2-the-modules-and-the-code)
- [3. What is checked](#3-what-is-checked)
- [4. What is proved](#4-what-is-proved)
- [5. What the models found](#5-what-the-models-found)
- [6. What is not modelled](#6-what-is-not-modelled)
- [7. Plan](#7-plan)

To reproduce: `tlc -config MCMailboxes.cfg MCMailboxes` for a run of the table in
section 3, `tlapm Mailboxes_proofs.tla` for the proofs of a module.

## 1. The system

The repository holds two programs that share specifications (`docs/reference`) and
no code: **NyKernel**, a single-core x86-64 microkernel in Rust, and the **host
backend**, a Python daemon that runs Nyrqis containers on Linux with its own IPC,
file system, restore and update machinery. A large remainder (desktop applications,
SDK, packaging) uses them.

### NyKernel

| component | state | operations | interacts with | what is hard | what makes it correct |
|---|---|---|---|---|---|
| Task scheduler, `K/experimental/scheduler.rs` | `TASKS` (lifecycle state, saved stack pointer, stack, cr3 per task), `CURRENT`, `LIFECYCLE_REJECTIONS` | `init`, `spawn`, `yield_task`, `block_current`, `unblock_task`, `terminate_current` | called by every kernel task and by IPC; takes stacks from kernel memory | a context is read before it is saved; the caller itself is a candidate of the scan; blocked and terminated tasks must be skipped for ever or until woken | one Running task, and it is the one that executes; every resumed context is fresh; every Ready task gets the core |
| Mailbox IPC, `K/experimental/ipc.rs` | one `Mailbox` per task: bounded queue, revoked senders, parked waiters | `init`, `send`, `try_receive`, `receive`, `wake_waiters`, `revoke_sender` | parks and wakes through the scheduler | several receivers share a mailbox; a woken receiver finds the message gone; a budget of wakes runs out; a registration outlives its cause | no lost wake, FIFO and exactly once, only truthful and unrevoked senders, only legal lifecycle edges |
| Capability machine, `K/experimental/caps.rs` | per-holder capability tables; endpoints with owner, generation, liveness and bounded queue | `create_process`, `terminate_process`, `create_endpoint`, `mint`, `bootstrap_grant`, `revoke`, `send`, `receive` | reached by the system-call gate with interrupts off | capabilities in transit when their endpoint is revoked or its owner dies; a full table at the receiver; ids that are created again | authority never appears, widens or survives except as the rules allow; a transferred capability is not lost |
| System-call gate, `K/service84.rs`, `K/svc84_proof.rs` | none of its own | one row per service | validates user ranges, calls IPC and capabilities | argument validation | each row has the effect of the one call it makes |
| Ring-3 scheduler, `K/experimental/ring3_scheduler.rs`, `K/idt.rs` | two contexts, statuses, timer ticks | `int 0x81` services, timer preemption | saves contexts from interrupt frames | preemption between any two user instructions | a context is saved before another is restored, no tick is lost |
| Kernel memory, `K/memory/`, `K/experimental/address_space.rs` | frame free list, stack slot pool, page tables, heap | allocate and free frames, create and destroy stacks and address spaces | used by spawn and the loaders | a partial map when frames run out; a slot that must be absorbed whole | no frame or slot has two owners, a failure leaks nothing, the guard page stays unmapped |
| Boot phases, devices, `K/boot_phase.rs`, `K/lib.rs`, drivers | phase counter, device registers | one initialisation per phase | everything | order | each phase follows its predecessor |
| Loaders, `K/experimental/elf.rs`, `pe.rs`, `dex.rs`, `lazy_binder.rs` | parsed images | parse, relocate, bind | memory | malformed layouts | bounds |
| UEFI loader, `nykernel-package/source/nykernel/uefi` | firmware state | verify and start the kernel | firmware | none shared | signature checked before the jump |
| Ported release kernel, `nykernel-package/source/nykernel/porting` | - | - | - | reference for the port | - |

### Host backend

| component | state | operations | interacts with | what is hard | what makes it correct |
|---|---|---|---|---|---|
| Container manager, `L/backend/container.py` | `ContainerState` per container, pid, restart count, stop event | `create`, `spawn`, `wait`, `terminate`, `suspend`, `resume`, automatic restart | kernel processes, cgroups, IPC registration | a wait, a terminate and a restart worker in three threads; state written around the transition table | a terminated container does not come back; one process per container; registrations follow the process |
| Host IPC, `L/ipc/core.py` and its service, loop and registry | endpoints, pending replies, grants, token buckets | `register`, `send`, `call`, `reply`, cleanup | containers, control and storage services | a reply that races its timeout; cleanup under concurrent sends | each reply answers one live call, no quota is exceeded, cleanup leaves nothing behind |
| Shared-memory ring, `L/ipc/shm_transport.py` | head and tail counters, bytes | `write`, `read`, `attach` | two processes | order of payload and index stores, wrap-around | what is read is a prefix of what was written |
| Control and storage services, `L/ipc/control.py`, `L/ipc/storage.py` | none of their own | one command per message | containers, NyFS | - | as the component below |
| NyFS, `L/fuse/nyfs.py` | in-memory tree and snapshot table, metadata file, journal, block files, and caches of what the disk holds | `write`, `truncate`, `unlink`, `create_snapshot`, `restore_snapshot`, `delete_snapshot`, `save`, `load`, `compact_journal`, `gc_blocks` | FUSE, idle watcher, restore engine | a power failure or an error between any two file operations; books about the disk that survive what they describe | after a crash, the last committed state or the one being committed, never a mixture; no referenced block is lost |
| Overlay and vault mounts, `L/fuse/overlay.py`, `vault_mount.py` | upper and lower directories, whiteouts | copy-up, delete, rename | host files | partly file I/O | the merged view |
| Restore engine, `L/backend/restore_engine.py` | restore points, pins | create, restore, expire | NyFS garbage collection | registry and pins are two files | a registered point is restorable |
| Update orchestration, `L/backend/update_orchestrate.py`, `delta_update.py` | phase of an update | verify, restore point, apply, roll back | restore engine, repository | failure at each step | either the new version or the old one |
| Package repository, PKI, signing, `L/backend/package_*.py` | indexes, keys, revocation lists | publish, verify, revoke | updates | cryptographic data | nothing unverified is installed |
| Host capabilities, seccomp, LSM, network policy, `L/backend/capability.py`, ... | grant table, compiled policies | grant, check, reset | containers, IPC | - | least privilege |
| Crash spool, daemon state, `L/backend/crash_spool.py`, `daemon_state.py` | report files, state file | spool, prune, save | file system | retention by mtime, atomic replace | the newest reports stay, the state file is whole |
| Boot lifecycle, `L/boot/lifecycle.py` | phase, callbacks | advance, shut down | everything | callbacks run outside the lock | phases in order, shutdown once |
| Rust workspace, `L/rust` | - | codecs of the Python components | - | byte layouts | agreement with Python |
| Desktop applications and UI, `L/ui` | windows, widgets | draw, dispatch | compositor | - | - |
| SDK, packaging, tools, scripts, docs | - | - | - | - | - |

The kernel parts interact by plain calls on one core: `receive` of the mailboxes
calls `block_current`, which calls `yield_task`, which returns only after some other
task's `send` or `wake_waiters` has called `unblock_task` and the round-robin has
come back. The host parts interact by threads over shared Python objects, messages
over local sockets, and files.

The places where this goes wrong without a test noticing are the "hazards" of
`PROJECT.json`, each at its line with the properties that watch it; three have none,
and say why.

## 2. The modules and the code

| module | stands for | uses |
|---|---|---|
| `Scheduler` | `K/experimental/scheduler.rs` | |
| `Mailboxes` | `K/experimental/ipc.rs`, composed with the scheduler | extends `Scheduler` and refines it |
| `CapSystem` | `K/experimental/caps.rs` | refines `CapAuthority` |
| `CapAuthority` | the promise of the capability machine: who may do what to which endpoint | |
| `KernelStacks` | `K/memory/frame_allocator.rs`, `kernel_stack.rs`, `paging.rs`, `K/experimental/address_space.rs` | |
| `NyFS` | the durability protocol of `L/fuse/nyfs.py` | refines `DurableStore` |
| `DurableStore` | the promise of `save` and `load`: an atomic commit and a restart that reads it back | |
| `ContainerLifecycle` | the life of one container in `L/backend/container.py` | |
| `HostIpc` | `IPCManager` and `IPCEndpoint` of `L/ipc/core.py` | |
| `ShmRing` | `RingBuffer` of `L/ipc/shm_transport.py` | refines `Fifo` |
| `Fifo` | the promise of a one-way channel | |
| `PackageUpdates` | `apply_update` and `rollback` of `L/backend/update_orchestrate.py` | |
| `MC...`, one per specification | instances for TLC | |
| `..._proofs`, one per specification | theorems and proofs (`Mailboxes_proofs` also has the scheduler's) | |

A definition whose comment begins with "Mutant" is a copy of another one with one
plausible bug in it. No specification uses it: put in the place of the original, it
makes the property it is paired with in `PROJECT.json` ("mutants") fail, which shows
that the property depends on the code.

### Scheduler

The kernel's tasks are cooperative. There is one core, the timer switches only
ring-3 contexts, and a kernel task keeps the core until it calls `yield_task`,
`block_current` or `terminate_current`. So an action is a call by the task
`current`, atomic up to the next switch; what interleaves is which task makes which
call in which activation.

| variable | code |
|---|---|
| `tasks`, `state`, `current` | `TASKS.len()`, `TASKS[t].state`, `CURRENT` |
| `saved[t]` | whether `TASKS[t].saved_rsp` holds the context from which `t` must go on |
| `rejected` | `LIFECYCLE_REJECTIONS > 0` |
| `halt` | how the kernel died: a panic, or a resumed context that was already spent |

`YieldTask`, `BlockCurrent`, `UnblockTasks`, `TerminateCurrent` and `Spawn` are the
functions of the same names. `yield_task` is `YieldFrom`: the caller is suspended if
Running, the scan (`ReadyAt`, `PickNextReady`) runs from `CURRENT + 1` round to
`CURRENT` itself, and either nothing is dispatchable (`YieldReturns`) or a switch
takes place (`SwitchTo`). `block_current` and `terminate_current` enter it with the
caller already moved. `UnblockTasks` takes a set, because the mailboxes wake several
waiters without a scheduling point in between.

Stack pointers are reduced to freshness. `switch_to` reads the target's `saved_rsp`
before it writes the caller's. When the target *is* the caller, the field holds the
context of an earlier switch, already resumed once, or for task 0 the placeholder it
was born with. Resuming it is undefined: the task may happen to stand at the same
depth and survive, so `SwitchTo` chooses between going on and `halt =
"stale_context"`.

`Perpetual` is the set of tasks whose body never blocks and never terminates. The
assumption of most properties, `TwoPerpetual`, is the boot's workload: `kernel_main`
(task 0) drives the rounds with `yield_task` and task A (task 1) is an endless loop
of `send` and `yield_task` (`K/lib.rs:491-525`, `K/lib.rs:831-843`; task B is a
third such task, which the models do not need). With fewer, the kernel really can
stop (section 5).

### Mailboxes

Extends `Scheduler` with the mailboxes and with where each task stands in `receive`.
A call of `receive` that finds a message is atomic (`TryReceive`). One that does not
registers the caller and blocks (`ReceiveParks`, which contains `BlockCurrent`
whole); the caller is now "parked", and when it executes again, `Resume` is the rest
of the loop body up to the next return or park: deregister, count an empty wake,
then deliver (`ResumeDelivers`), give up (`ResumeTimesOut`) or park again
(`ResumeParksAgain`).

| variable | code |
|---|---|
| `boxes`, `queue`, `revoked`, `waiters` | `MAILBOXES.len()` and the fields of `Mailbox`; `waiters` is a set because every user wakes all of it or removes one id |
| `pc`, `call` | whether a task is inside `receive`, and its arguments and wake count there |
| `sent`, `accepted`, `taken` | history: how many messages were accepted, which, and how many were popped |

`send` and `wake_waiters` share `WakeAll`: drain the waiters, unblock each, put back
those whose edge the enforcer refused. `call.wakes` is only counted when there is a
budget to compare it with: with `max_wakes = None` the code's counter has no effect.
A refused call changes nothing and is a stuttering step.

### CapSystem and CapAuthority

`CapSystem` has one action per operation of the Rust type. All run with interrupts
off, so each call is a step. `caps[p][s]` is the holder's table (`None` for an empty
slot), `live` the holders with `alive` set, `alive` the live endpoints. `Install` is
the first-free-slot insertion; the operations that need it are enabled only when it
succeeds, except `CreateEndpoint`, which pushes the endpoint first: with a full
table the call fails and a live endpoint without a capability remains. The queue
entries carry `via`, the generation of the capability the message was sent through,
as history. Payload bytes are left out, and bits outside the rights are kept in
`Want` so that the mask in `Issued` does something.

`CapAuthority` says the same without tables, handles, generations or queues: an
endpoint is unborn, open or closed for good, a holder holds tokens (an endpoint and
a set of rights), tokens are under way to an endpoint. Authority appears by `Issue`
(the owner's, or the kernel's at boot), moves by `Delegate` and `Accept` (only what
is held with the grant right, never more), and ends at once with `Revoke` and `Die`.
The refinement mapping of `CapSystem` counts a capability as a token while its
endpoint lives, its generation is current and its holder lives (`Valid`, `HoldsNow`,
`UnderWay`, `StatusNow`). That a stale capability is received into a table, or stays
in the table of a dead holder, is a stuttering step there: nothing was gained.

### KernelStacks

The memory of the kernel below the scheduler. The operations run to their end one
after another (one core, no preemption in the kernel), but each may run out of
frames in the middle, and what it has done by then stays. So an operation is a `job`
that proceeds frame by frame, and no other begins while one is under way.

| variable | code |
|---|---|
| `nextFrame`, `freeList` | `next_frame_number` and the LIFO `free_list` of the frame allocator |
| `pageFrame`, `tableFrame` | the entries of the stack region's page tables, and the tables themselves |
| `nextOffset`, `pool` | `NEXT_OFFSET` and `FREED_SLOTS` |
| `stacks`, `spaces` | the slots in use by tasks and probes, the live `AddressSpace`s |
| `job`, `kernel` | the allocation or teardown under way, and whether the kernel has panicked |

`ChooseSlot` is `kernel_stack::allocate`: the best fit of the pool, handed out whole
(`ReuseSlot`), or the next offsets of the region (`BumpSlot`). `MapTakesFrame`,
`MapMakesTable`, `MapSetsEntry` and `MapFails` are `map_range` for one page;
`ReleaseUnmaps` and `ReleasePools` are `release`; `Destroy`, `FreesPrivate` and
`FreesPml4` are `AddressSpace::destroy`. Offsets are counted in pages, and of the
levels of page tables the last is modelled, the one whose tables are built on demand
in the shared part and never freed. `free_table_tree` frees the private frames of a
space in the order of its walk, here any order. All callers unwrap the result of an
allocation, so that a failure is a panic, except for the guard demo's probe on a
fresh slot.

### NyFS and DurableStore

Every operation of the file system holds `self.lock` from its first line to its
last, the idle watcher's compaction and collection included. (`restore_snapshot` and
`delete_snapshot` look the id up before they take the lock; losing that race raises
and changes nothing.) Threads therefore do not interleave inside an operation, and
an operation without file output is one action. `save` and the compaction are
sequences of file operations between any two of which the power or the disk may
fail; `pc` says where the one under way stands:

idle -- append --> appended -- fsync --> synced -- sync blocks/, swap metadata -->
swapped -- sync state/ --> idle, or compacting -- write .bin files --> moved -- truncate
--> idle

A compaction outside a save, the idle watcher's, writes its `.bin` files from `idle`.

| variable | code |
|---|---|
| `tree`, `snaps`, `dirty`, `cache` | the blocks referenced by `self.inodes`, `self.snapshots`, `self._dirty`, the blocks in `self._block_dedup` |
| `ids`, `index` | `self._journal_ids`, `self._journal_index` |
| `journal`, `bins`, `meta` | `journal.bin` (the ids a scan finds, and whether the tail is torn), the ids with a file in `state/blocks/`, `metadata.json` |
| `journals`, `metas`, `loose` | what a power failure may make of them: the contents the two files may be found with, the block files whose entry or removal is not yet durable |
| `pc`, `saving` | the step of the operation under way, and whether it is a save |
| `recut`, `doomed` | history, read by no guard: has `read` cut the tree anew since it was clean; which referenced blocks have been given up |

A block is immutable and is its id. What a file is called and which bytes it holds
does not matter to durability, so the tree is the set of blocks it references and
each operation is what it does to that set: `Write` (also `truncate`) replaces
blocks by a new one, `Rewrite` by one the dedup cache knows, `Unlink` drops some or
none. `Known` lets a model value stand for a fresh uuid again once nothing in memory
or on disk mentions the old one. `Read` is an action because `read` may cut a file
into new blocks.

The disk: a write or a rename may or may not survive a power failure until the file
or the directory is synced, and an append may survive in part, with its last record
cut. fsync of a newly created file makes the file's own directory entry durable with
it, and directory fsync works (`_fsync_dir` goes on without it where it does not). A
failed append leaves the same outcomes to the process that goes on running. What is
found at a restart is decided by `PowerFails` and then stays. The temporary files
are not visible to any reader and are not modelled.

Four sequences of legal calls defeat the protocol (section 5). The models contain
them all: no guard keeps them out, and `doomed` and `recut` record what they cost, so
that the properties can be stated of every behaviour.

- A save appends behind a torn record (`SaveAppends`): the new records are doomed.
- A compaction or a collection runs between a change and its save (`Truncate`,
  `GcBlocks`): of the blocks that memory has dropped and the metadata on disk still
  references (`Dropped`), those that lose their only copy are doomed.
- Content is written, or cut anew, whose block is in the dedup cache and listed as
  saved, but has been collected (`Rewrite`, `Read`, `Reclaimed`): that block is doomed.
- `Read` cuts a file into new blocks while the file system is clean, and it stays
  clean: `recut` is set until the next change, save or restart.

A block stops being doomed when nothing references it any more (`GiveUp`), when a
compaction finds its payload after all, and at a restart that finds all it needs
(`Load`). One that does not is `LoadRefuses`: `load` raises, and nothing changes.

`DurableStore` has the state in memory, the claim that it is committed, and the
states a restart may find. A commit begins by adding the state in memory to them and
ends by making it the only one. The refinement takes the metadata files a restart
may find for the latter; `LossIsConfined` adds that any of them can be loaded but for
what is doomed.

### ContainerLifecycle

The container manager holds no lock. Any thread of the backend's user may call an
operation on a container while others are inside theirs, and each automatic restart
runs in a daemon thread. An operation is cut at the system calls, sleeps and
operations of `threading.Event`, and between the two halves of `transition_to`,
which asks the codec whether the edge is legal and then assigns the state. Between
those points the model takes the code as one step.

| variable | code |
|---|---|
| `state`, `pid`, `launcher` | `container.state`, `.pid`, `._direct_launcher_pid` |
| `restartCount`, `restartStop`, `stopped` | `.restart_count`, the event in `._restart_stop`, the events that are set |
| `frozen`, `caps` | what `suspend` has done to the processes; whether the default capabilities are granted |
| `proc`, `launched` | the kernel's process table: incarnation `i` is live, a zombie, reaped, or a stray that was killed and that nobody will reap |
| `pc`, `target` | where each thread stands; the pid that a `wait` reaps or a launch polls for |

`Spawn`, `Wait`, `Terminate`, `SuspendResume` and `StopRestart` hold the steps of
the methods of these names, `Worker` those of `_restart_worker`, whose spawn is the
ordinary one. `Owner` is the caller of `create`, who spawns once.

A launch is three steps. `Clone` makes the process; `_resolve_command_pid` then polls
and sleeps; only after it are `pid` and `_direct_launcher_pid` assigned. In between the
process runs and no field of the container names it, so that a `terminate` in this
window finds no pid, marks the container TERMINATED and signals nothing. The poll ends
in one of three ways: the command's pid is known, or the command has exited already
(`PollResolves`); the entry reports an error and the process is killed and reaped
(`EntryFails`); the time is over while the init lives, which is then killed but not
reaped, and the spawn raises before any handle is assigned (`PollTimesOut`).

Modelled is the launch by direct system calls; the command and its PID-1 are taken as
one process, and pids are not reused. Whether the restart policy asks for a restart is
left open, as `set_restart_policy` may change it at any time; the retry limit is the
code's. A refused transition raises and skips what follows it, as in the code.

### HostIpc

The manager's lock covers its tables. An operation looks its endpoint up and goes on
with the object it found, also when `cleanup_container` has removed it, or
`create_endpoint` has given the name to another. An action is what the code does
between two points where another thread may run: a block under a lock, an operation
on a queue or an event, a lookup.

| variable | code |
|---|---|
| `endpoints`, `containerEndpoints` | the manager's tables |
| `container`, `created`, `queue` | the endpoint objects: owner, how many, `message_queue` |
| `pendingCalls`, `fired`, `callReplies` | `pending_calls`, which of its events are set, `call_replies` |
| `sent`, `delivered` | ids used so far; history: the calls that have been received, read by no action |
| `pc`, `obj`, `msg` | each thread's place, endpoint object and message |

`call` is `BeginSend`, `CallRegisters`, `CallSends`, `CallAnswered` or
`CallTimesOut`, `CallFetches` and `CallCleansUp` (the `finally` clause); `Reply` may
come at any of these moments, from anybody who knows the call's id, before the call is
received or after, and more than once: like the code it tests `pending_calls` alone.
The rate limiter and the capability manager refuse at any time.

### ShmRing and Fifo

Two processes map one ring. Memory is counted in cells of 8 bytes, to which entries
are padded. A store is first seen by the process that made it (`stream`, `rtail`)
and reaches memory later (`mem`, `head`, `tail`): in program order, as x86 does,
except that the cells of one entry, which `memcpy` writes, come out in any order
(`left`, `heads`, `tails` hold what is still under way). The writer therefore
computes its room from a stale tail and the reader from a stale head. `Write` is one
step for the writer, because it touches no cell the other side may use, and its
stores reach the other side one by one (`CellLands`, `HeadLands`); the reader takes
one cell at a time (`ReadBegins`, `ReadsCell`, `ReadReturns`, `TailLands`). A
message that finds no room until its timeout is refused and changes nothing; one
longer than the ring is always refused.

`Fifo` is a channel: `sent` and `received`, the latter a prefix of the former. The
mapping sends the entries the reader has read to the messages they are (`FifoSpec`).

### PackageUpdates

One installed package and any number of invocations of the command line tool, which
nothing keeps apart. A directory is a function from the entries it holds to the
version each is of, or `Torn` while it is truncated and not yet filled. `install` is
the installation, `points` the restore points by the second that names them, `clock`
that second, `op` what each command does. `<<>>` is a directory that is absent or
empty. `gambled` is history that no action reads.

`apply_update` is `ResolveUpdate`, then one of three ways past `_restore_point`: a
snapshot (`BeginSnapshot`, `SnapshotEntry`, and `SnapshotEnds` only when every entry
has been copied), none at all (`SkipSnapshot`, the flag `--no-restore-point`), or an
empty one that counts as a success, because the installation is absent while another
command's rollback is between its `rmtree` and its `copytree` (`SnapshotOfNothing`).
Then come `VerifyDelta`, `WriteOpens` and `WriteFills` for each file, `RecordVersion`
and the same for the manifest, `ApplyReturns`. An entry that `copytree` cannot copy
stays to do: the copy goes on and raises at its end, which is `Stops`. `rollback` is
`BeginRollback`, which takes the newest point whatever it holds, `RemoveEntry`
(`rmtree`),
`BeginCopyBack`, `CopyBack`, `RollbackReturns`. `Stops` ends a command at any step:
the process dies, or a file operation raises. A signature verifies or does not.
Every version changes every payload file and no delta removes one, which makes
mixtures of two versions visible in every entry.

Two things the code lets through strand the package: a rollback onto an incomplete
restore point, which removes the installation and copies what there is, and an apply
under `--no-restore-point` that dies between two files. `gambled` becomes true when a
rollback begins, or an apply without a restore point starts to write, while no restore
point is whole. Until then `NeverStranded` promises a whole version; afterwards the code
promises nothing, and neither does the property (section 5).

## 3. What is checked

| run | instance | properties | what it shows |
|---|---|---|---|
| `scheduler` | `MCScheduler.cfg`: 5 tasks, 0 and 1 perpetual | `SchedTypeOK`, `SoleRunner`, `KernelLives`, `NeverPassedOver`, `ReadyIsDispatched` | whatever the three other tasks do, one task is Running and it is the one that executes, no spent context is resumed, each dispatch reaches a Ready task or comes closer to it, and every Ready task gets the core |
| `mailboxes` | `MCMailboxes.cfg`: 4 tasks, mailbox 2 and an invalid index, capacity 2, 3 messages, a budget of 2 or none | `MailboxTypeOK`, `NoLostWake`, `WakesAreLegal`, `FifoExactlyOnce`, `ArbiterDecides`, `SchedSpec`, `QueuedIsTaken` | two receivers share a mailbox with a sender and a kicker: no receiver sleeps on a message, no registration is stale and every wake a legal edge, messages come out once and in order, and only under an unrevoked true name; every behaviour of the composed system is one of the scheduler, its fairness included, and a queued message is taken unless its receivers have left |
| `capabilities` | `MCCapSystem.cfg`: 2 holders, 2 endpoints, tables and queues of 2, one revocation per endpoint | `CapTypeOK`, `WithdrawalIsFinal`, `TransferNeverLost`, `AuthorityIsKept` | the tables implement the authority, revocation and death are complete, full tables and queues lose no capability |
| `kernel_stacks` | `MCKernelStacks.cfg`: 5 frames, stacks of 1 and 2 pages, tables of 4 entries, a region of 7 pages, 2 spaces | `StackTypeOK`, `FramesHaveOneUse`, `StackDiscipline` | stacks and spaces are built, torn down and rebuilt until the frames run out in the middle of a build: every frame has one use, only a failed build loses frames, slots stay apart with unmapped guards, and the kernel panics for want of frames only |
| `nyfs` | `MCNyFS.cfg`: 2 blocks, 1 snapshot | `NyTypeOK`, `LossIsConfined`, `CleanMeansCommitted`, `SkippedAreDurable`, `StoreSpec` | every operation at any time, whatever fails at whatever step: what a restart cannot read is only what one of the sequences of section 2 gave up, the dirty flag and the books about the disk tell the truth but for that, and save and restart behave like an atomic store |
| `nyfs_dirty` | `MCNyFSDirty.cfg`: 2 blocks, no snapshot | `CompactionIsSafe` (violated) | finding 1 |
| `containers` | `MCContainerLifecycle.cfg`: 2 callers, 2 restarts, a limit of 1 retry | `LifecycleTypeOK`, `NoOrphan`, `RestartBudget`, `CancelledRestartNeverRuns`, `TerminatedProcessDies` | however spawn, wait, suspend, resume, terminate and restart overlap, a process that runs is the one the manager would signal or the one its launch still polls for, no two exist at once, the retry limit holds, a cancelled restart does not run, and the process of a thread inside `terminate` past its signal comes to its end |
| `containers_stop` | `MCContainerLifecycleStop.cfg`: 2 callers, 1 restart, no limit | `StopPreventsRestart` (violated) | finding 2 |
| `host_ipc` | `MCHostIpc.cfg`: 2 threads, containers and names, 2 endpoints, 2 messages | `HostIpcTypeOK`, `RepliesReachCallers`, `EndpointIsListed`, `OperationsReturn` | calls, late and repeated replies and timeouts meet endpoints that are taken over and cleaned up: the books hold exactly the calls under way, a signalled caller finds its reply, a clean-up leaves no endpoint of its container, every operation returns |
| `shm_ring` | `MCShmRing.cfg`: a ring of 4 cells, entries of 1, 2, 3 and 5 cells, 6 writes | `RingTypeOK`, `RingIsSafe`, `FifoSpec`, `EverythingArrives` | with late stores and stale views the ring is a FIFO channel, the writer never overruns the reader, and what is accepted arrives |
| `updates` | `MCPackageUpdates.cfg`: 2 commands, 2 files, 2 versions, 2 seconds | `UpdateTypeOK`, `NeverStranded`, `WholePointsStay` | two commands that apply, with a restore point or without, and roll back at once, fail at any entry and die at any step: a whole version exists, installed or in a restore point, until somebody gambles, and a whole restore point is not touched again |
| `updates_back` | `MCPackageUpdatesBack.cfg`: 1 command, 3 versions, 3 seconds | `RollbackGoesBack` (violated) | finding 3 |

### Bounds, and why they are enough

- `MaxTasks` caps `Spawn`. Five tasks give the round-robin a scan that wraps, skips
  two non-Ready tasks in a row, and has three free agents. Four tasks in the
  mailboxes give two perpetual tasks that send, receive and kick without parking,
  and two that park on the same mailbox, so a message woken for one can be taken by
  the other.
- `Capacity` 2 of the mailboxes (the code has 4) makes empty, partly filled and full
  three different states. `MaxMessages` 3 fills the mailbox, frees a place and fills
  it again; `sent` is the only unbounded counter of the mailboxes.
- A budget of 2 lets a receiver park again after its first empty wake and give up at
  the second; `NoLimit` never gives up. A budget of 0 behaves as 1.
- `Dest` holds a mailbox that exists once the tasks do, and an index that never
  does. All actions on one mailbox are independent of the others, except for the
  scheduler, which is shared.
- Two holders and two endpoints: an owner and a stranger for each endpoint, one
  endpoint to carry a capability to the other, or to itself. `TableSize` 2 (the code
  has 32) and `QueueCapacity` 2 (4) are reached. `MaxGeneration` 1 lets each
  endpoint be revoked once, which tells current capabilities from stale ones; the
  code's `wrapping_add` on `u32` would repeat a generation only after 2^32
  revocations, outside the bound.
- Five frames run out in every operation and at every page of it. Two stack sizes
  let a small request absorb a larger slot; seven pages hold three slots, a second
  page table is built in the middle of one, and the pool is searched, emptied and
  refilled. `RegionPages` and `MaxSpaces` bound what the code bounds by memory
  alone.
- Two blocks: the one a change drops and the one it adds, or a block only a snapshot
  references and one in the tree; a torn append of two records may keep either, both
  or none. Journal, block files, metadata and snapshot table then already take some
  1.5 million states; a third block is out of reach, and section 4 proves the same
  properties for any number of blocks and snapshots.
- Two callers meet in any two operations; with two restarts a worker of the first
  may still be under way while a `wait` schedules the second. The limit of one retry
  lies below the bound `MaxRestarts`, so that it is the code's limit that stops.
- Two threads are a caller and its receiver, or two callers whose calls sit in one
  queue; replies are not bound to threads. Two endpoint objects are a name taken
  over by another container, or an endpoint created anew after a clean-up.
- In a ring of four cells entries of one to three cells wrap at every offset and
  fill it exactly; the one of five never fits. Six writes pass the end of the ring
  at least once and up to four times.
- Two commands in two seconds try the same stamp or different ones, and meet in every
  pair of steps. Two versions are what a mixture needs; an apply can be retried, with
  the whole point of the first try older than the torn one of the second. An update on
  an update needs a third version, which `updates_back` has and the proofs cover. Two
  payload files and the manifest make a partial copy, a mixture and a torn file
  different things.
- `nyfs` uses symmetry of the blocks, `updates` of the commands and of the payload
  files: no operation prefers one to another, and neither run checks liveness. The
  other runs use none.

Deadlock is checked for the scheduler, the mailboxes, the capabilities, NyFS and the
containers. It is off where the system may stop: when every thread is idle and the
bounds on objects and messages are reached (`host_ipc`, `shm_ring`), when the kernel
has panicked (`kernel_stacks`), and when all commands have ended and no second is
left (`updates`).

### Fairness

`SchedSpec` has weak fairness of `YieldTask` and the mailboxes of `Yields` and
`Resume`. Both say the same about the code: the task on the core reaches its next
scheduling point. The scheduler is cooperative and all task bodies of the boot are
loops whose iterations end in `yield_task`, or finite sequences that end in a
blocking call or in `terminate_current`; interrupt handlers return. Nothing is
assumed about which task yields, that anybody sends, kicks, terminates, or that a
receiver has a budget.

`ContainerLifecycle` and `HostIpc` have weak fairness of the next step of each
caller that is inside an operation: the operating system runs a thread that is not
blocked, and the waits of the code have timeouts, which pass. Nobody has to call
anything, no process has to exit, no reply has to come.

`ShmRing` has weak fairness of `Lands` (a store comes out of its buffer) and of
`Reads` (a reader inside `read` goes on). That somebody calls `read` again is not
assumed by the specification; `EverythingArrives` names it as its hypothesis.

The capability machine, the kernel's memory, NyFS and the updates have no fairness:
nobody is obliged to call them, and their properties are about what calls may do.

## 4. What is proved

All proofs hold for every value of the constants that satisfies the named
assumptions (`SchedulerAssumption`, `MailboxAssumption`, `CapAssumption`,
`StackAssumption`, `NyFSAssumption`, `CallersAssumption`, `RestartsAssumption`,
`BoundsAssumption`, `CapacityAssumption`, `SizeAssumption`, `UpdateAssumption`), for
the theorems about the rotation and the mailboxes under `TwoPerpetual`, and for
`LoneCommandDelivers` with a single command. The theorems about NyFS, the containers,
the host IPC and the updates hold of every behaviour of their specifications.

Where the table marks a theorem with a star, what it states is defined in the
`_proofs` module and has no run of its own: it says of every instance what the listed
properties of the runs do not, and rests on the same inductive invariants.

| theorem | says | by |
|---|---|---|
| `RotationInvariant` | `TwoPerpetual => (SchedSpec => []SchedInv)` | induction, one lemma per call |
| `RotationTypeCorrect`, `RotationHasSoleRunner`, `RotationKeepsKernelAlive` | the parts of it the runs check | `RotationInvariant` |
| `RotationNeverPassesOver` | `NeverPassedOver` for any number of tasks | `PickIsNearest` |
| `MailboxInvariant` | `TwoPerpetual => (Spec => []MailInv)` | induction, one lemma per operation |
| `MailboxTypeCorrect`, `NoWakeIsLost`, `WakesStayLegal` | the parts of it the runs check | `MailboxInvariant` |
| `MailboxesRunOnRotation` | every mailbox behaviour is one of `SchedInit /\ [][SchedNext]_schedVars` | `CallIsRotationStep` |
| `FifoForEver` | `FifoExactlyOnce` | its own invariant over positions |
| `ArbiterAlwaysDecides` | `ArbiterDecides` | `StepIsArbitrated` |
| `CapInvariant`, `CapTypeCorrect`, `WithdrawalStaysFinal` | the capability machine's invariants | induction, one lemma per operation |
| `TransfersAreNeverLost` | `TransferNeverLost` | `StepDelivers` |
| `TablesImplementAuthority` | `CapSpec => AuthorityIsKept` | one lemma per operation: it is a step of `CapAuthority` or a stutter |
| `IslandsStayApart`*, `StrangersNeedTheKernel`* | authority spreads along authority only | each action of `CapAuthority` keeps a sealed island, through the refinement |
| `StackInvariant`, `StackTypes`, `StackDisciplineHolds` | where the pages of every slot stand; `StackTypeOK`, `StackDiscipline` | induction, one lemma per step of an operation |
| `UsesInvariant`, `FramesKeepOneUse` | of what kind every frame is; `FramesHaveOneUse` | a second induction, over `StackInv` |
| `LiveStacksKeepTheirFrames`* | nobody moves the pages of a live stack or a shared table | `MappingsKept`, over `StackInv` |
| `NyInvariant`, `NyTypeCorrect`, `LossStaysConfined`, `CleanIsCommitted`, `SkippingIsSafe` | the invariants of NyFS | induction, one lemma per operation or step |
| `NyFSIsDurable` | `Spec => StoreSpec` | `StoreStep`: each step is a step of `DurableStore` or a stutter |
| `SaveSavesSnapshots`*, `SavedSnapshotsStay`* | a clean file system has on disk for good the snapshots of which no block was given up, and they stay | `MemoryShows`, `MetadataShow`, over `NyInv` |
| `ContainerInvariant`, `ContainerTypes`, `ContainerHasNoOrphan`, `ContainerKeepsRestartBudget` | the container's invariants | induction over the steps of all threads |
| `ContainerCancelsRestarts` | `CancelledRestartNeverRuns` | `ContainerInvariant` |
| `IpcInvariant`, `HostIpcTypes`, `IpcRepliesReachCallers`, `IpcEndpointIsListed` | the invariants of the IPC manager | induction, one lemma per operation or step |
| `IpcMessagesHaveOnePlace`*, `IpcNeverHandsOverTwice`* | at most once: one place per message, and no way back into a queue | a second induction, over `IpcInv` |
| `IpcCallsEndForGood`* | nothing of a call comes back after it is over | over `IpcInv` |
| `RingInvariant`, `RingTypes`, `RingStaysSafe` | the invariants of the ring | induction, one lemma per step |
| `RingImplementsFifo` | `Spec => FifoSpec` | each step is a step of `Fifo` or a stutter |
| `RingDeliversInOrder`* | what was read is a prefix of what was written | `ReturnsEntry`, over `RingInv` |
| `UpdateInvariant`, `UpdateTypeCorrect`, `WholePointsAreKept` | the invariant of the updates; `UpdateTypeOK`, `WholePointsStay` | induction, one lemma per step of a command |
| `PackageNeverStranded` | `UpdateSpec => []NeverStranded` | `UpdateInvariant` |
| `LoneCommandDelivers`* | what one command delivers that is alone | its own invariant, over `UpdateInv` |

**Scheduler.** `SoleRunner` and `KernelLives` are not inductive. A dispatch resumes
a fresh context only if it never picks its own caller, which is so because some
other task is always Ready. `SchedInv` therefore adds `ContextsFresh` (the saved
context of every spawned task is fresh except that of the current one) and
`InRotation` (tasks 0 and 1, once spawned, are Ready or Running). The lemma
`PickIsNearest` about the scan does the rest: with a Ready task `u` other than the
caller, the scan returns a Ready task other than the caller and not beyond `u`.
Before the second task is spawned `yield_task` returns at once.

**Mailboxes.** `NoLostWake` needs to know that the tasks in state Blocked are
exactly those parked and registered (`BlockedAreParked`), and that holds because the
only call that blocks is the one in `receive`, after it has registered, and because
a wake of a Blocked task is never refused. `MailInv` conjoins this with the
scheduler's invariant, which is carried over by `CallIsRotationStep`: each mailbox
step contains one scheduler step or none.

**Capabilities.** The three invariants are inductive together. The refinement needs
`KnownInv` on top: no capability, in a table or under way, names an endpoint not yet
created or a generation not yet reached. Without it a new endpoint could find
authority over itself already distributed, and a revocation could make an old
capability valid. Each operation then is the abstract action of its meaning:
`CreateProcess` a stutter (the fresh table holds nothing, and the old one was out of
reach), `CreateEndpoint` an `Open`, `Mint` and `BootstrapGrant` an `Issue` or a
stutter if the endpoint is dead, `Send` a `Delegate` if it carries a valid
capability and a stutter if not, `Receive` an `Accept` or a stutter, `Revoke` a
`Revoke` or (on a dead endpoint) a stutter, `TerminateProcess` a `Die`.

Isolation is a consequence of the refinement, and is argued on `CapAuthority` alone.
An island is a set of holders; it is sealed when no usable capability, in a table or
under way, leads from inside to an endpoint owned outside or the other way round. A
holder can pass authority only to an endpoint it has authority over, which is on its
own side, and only authority it has, which leads to that side too: so no send, receive
or transfer unseals it, and a revocation or a death only takes away. What remains is
the bootstrap grant of the kernel (`KernelKeepsApart`). `StrangersNeedTheKernel` is the
form to remember: while the kernel grants nothing across the shore, nothing crosses.

**Kernel stacks.** `StackInv` says of every slot that anybody holds (a task, a
probe, a space, the pool, the job under way) that it has this one holder, that its
extent is its own and the page above it no stack page of another (`ApartInv`), and
which of its pages are mapped: all of a live one, none of a pooled one, and for the
slot of the job those the job has reached (`MappedInv`). Reuse hands a pooled slot
out whole and release puts it back whole, so the bounds never change, and absorption
needs no argument of its own. A page that is about to be mapped is therefore never
mapped already (`IsAlreadyMapped` is false), and the only failure left is the want
of a frame: `PanicsOnlyDry`.

For the frames, `UsesInv` sorts them by what holds them (`Held`: the free list, the
region's pages, its tables, the roots, the private frames, the frame in the
operation's hands), and the root and the private frames of a space stay of their
kind while the space is built, lives and is torn down. So every step takes one frame
off the free list or the bump (`TakeKeeps`), moves one from a kind to another
(`HandOverKeeps`) or moves none (`NoneMoves`), and the kinds stay apart
(`KindsApart`), each without repetitions (`OnceEach`). A failed build loses what it
took, and drops its slot with it: the slot's guard page then belongs to nobody, now
and for ever, so `NoneLost` promises nothing any more. The theorem reads the uses
the run counts off this.

`LiveStacksKeepTheirFrames` is what a task on a stack, and a space that copied the
shared top-level entries when it was made, rely on: `map_slot` maps only pages that are
not mapped, release unmaps pages of the slot of its own job, which `ApartInv` keeps
off every live slot, and no step replaces or frees a page table of the region.

**NyFS.** `LossIsConfined` speaks of what a failure may leave; to carry it through a
save and a compaction, `NyInv` relates memory, books and disk, each conjunct but for
what is doomed. The swap is safe because every block in memory is on disk by then:
those appended because they were synced, or lie behind a torn record and are doomed;
those skipped as listed because `SkippedAreDurable`; those skipped for having a `.bin`
because the directory is synced just before. The truncation is safe because what memory
references and the scan finds has been moved (`Live \cap Scan \subseteq bins`, the
conjunct of `Progress` for `moved`), and what only the metadata on disk references is
either in a `.bin` or `Dropped`, and given up in that step. That a compaction looks in
the right place is `CommittedIsFound`: a block of the metadata has a `.bin` or is in the
scan. `CommittedIsListed` says the same of where a save looks, so that a block of the
metadata that memory references again is not taken for new with its only record out of
sight. The parts that speak of books and journal alone: a listed block, or one with a
`.bin`, that is in the journal is scanned (`ListedIsScanned`), and a scan that seeds an
empty `_journal_ids` finds durable records only (`SeedIsDurable`). For the refinement,
the swap is `CommitBegins`, the sync of the state directory or the end of a compaction
within the save is `CommitEnds`, all steps before are stutters.

The refinement speaks of states, the two theorems about snapshots of what a user keeps:
a snapshot is saved when memory and every metadata file a failure may leave show it with
these blocks, and all of them are durable. It is so for each one of which no block was
given up once the dirty flag is down (`SaveSavesSnapshots`), and stays so through every
later write, save that fails half-way, compaction, collection, power failure and restart
until the user takes it anew or deletes it (`SavedSnapshotsStay`). A new image shows it
because it is made of memory, a restart because it reads one of those images, and its
blocks stay because `LossIsConfined` holds of the images that show it, and none of the
sequences that give blocks up gives up one that memory references and that is durable.

**Containers.** A process is brought about by whoever holds the baton: the owner
before its launch, a live or unreaped process, the `wait` that reaped it until it
has decided about a restart, then that restart's worker until its launch
(`OneBaton`). `terminate` and a failed spawn drop the baton, and nobody makes a
second. As there is no lock, this is all that keeps two incarnations apart: a child
is reaped by one `waitpid` only. `HandleInv` says that an unreaped process is the
latest incarnation, and the one the handles name or the one the spawn with the baton
polls for, which is `NoOrphan`. `PollInv` is why the poll is safe: while it lasts there
is no launcher, so that no `wait` looks for the process that is being launched, and the
pid polled for is the newest. `WorkerInv`
ties each worker to its own event while it delays, which gives
`CancelledRestartNeverRuns`; and as only the holder of the baton can be between the
test of the retries and their increment, the separate steps lose no count
(`BudgetInv`).

**Host IPC.** A message id is in one thread's hands (`MessagesAreOwn`), so the
clean-up of a call removes its own entries and nobody else's, and `pendingCalls` is
exactly the calls under way (`BooksAreCalls`). A reply is stored and signalled in
one block under the lock, and only for a pending call: whoever is signalled and has
not fetched yet has a reply (`RepliesKept`, `FetchIsFired`). For the table, a name
is listed with its container in the block that enters it, also when it is taken over
(`TableInv`).

Of the messages themselves: `OnePlace` says that a message is with its sender, or at one
place of one queue, or with its receiver, and is inductive over `IpcInv`: an id is new
when it is made, in one sender's hands until it is appended once, and gone from the
queue in the block that takes it, also when the endpoint was replaced under the sender.
So nothing is delivered twice. And since the last thing a call does is to remove its
entries, and `reply` tests `pending_calls` under the same lock, a reply that comes late
finds and leaves no entry (`IpcCallsEndForGood`).

**Ring.** The invariant says that there is a sequence of offsets at which entries
begin (`Laid`), of which the published head, the heads under way and the reader's
tail are elements (`HeadsInv`, `ReaderInv`): a reader that sees any head begins at
an entry and finds it whole. The witness grows with each write. `StoresInv` says
which cells are out; the window from the reader's tail to the writer's head is at
most the ring, since the writer's stale tail is not beyond the true one, so
different offsets in it are at different positions (`PosApart`) and a store that
comes out late hits no cell the reader still needs. The remainder `%` enters through
that lemma alone. `RingDeliversInOrder` spells out for the ring's own variables what
the refinement promises: a read returns the entry after the last one, whole.

**Package updates.** `NeverStranded` is not inductive: without a whole restore point it
must be known that the installed version is whole, which is no property of the moment.
`WholeInv` says why: until a whole restore point exists or somebody has gambled, nobody
has touched the install directory. An apply that goes on after a snapshot has a complete
copy of an untouched directory, which is whole; an apply without one starts to write only
by gambling, as a rollback begins only by gambling; and an untouched directory is not
absent, so no command has taken an empty point for a good one. From the first whole point
on it stays: restore points only grow, a snapshot under way has its point to itself and
copies only what that lacks (`PointInv`), so a complete one is never written to again
(`WholePointsAreKept`), also when two commands stamp the same second.

**Only model-checked.** Liveness (`ReadyIsDispatched`, `QueuedIsTaken`,
`TerminatedProcessDies`, `OperationsReturn`, `EverythingArrives`) and the fairness
part of the refinement `SchedSpec` are out of the prover's reach, as is ENABLED.
That a
set of naturals has a least element is the only induction used, from the library's
well-foundedness of the order (`Mailboxes_proofs`, `CapSystem_proofs`,
`PackageUpdates_proofs`). No module
declares a RECURSIVE operator.

## 5. What the models found

Three disagreements between the code and its documentation have a run.

1. **Reclaiming while dirty loses committed blocks** (`nyfs_dirty`).
   `_materialize_journal` and `gc_blocks` keep what memory references. A block that an
   unsaved `unlink` or overwrite has dropped is thrown away while the metadata on disk
   still references it; a crash before the next save leaves a state that `load` refuses.
   The run: write, save, a write that replaces the block, compaction. The doc of
   `compact_journal` says it is safe at any point (`L/fuse/nyfs.py:1412-1415`), and the
   idle watcher calls both without looking at the dirty flag.
2. **A restart is scheduled behind an explicit stop** (`containers_stop`). `terminate`
   sets the stop event the container has at that moment, if it has one. A `wait` in
   another thread that has passed its test of the old event installs a new one and
   starts a worker, which nobody has stopped (`L/backend/container.py:2618`). The doc of
   `stop_restart` says that an explicit stop prevents the re-launch
   (`L/backend/container.py:2656-2657`).
3. **A rollback may restore the current version** (`updates_back`). `apply_update` takes
   its restore point before it verifies the delta and leaves it when it refuses, or
   dies. The newest point is then a copy of what is installed. The doc of `rollback`
   promises the newest point from before the current version was applied
   (`L/backend/update_orchestrate.py:314-318`).

The other disagreements met on the way have none. Those of modelled components can
be seen by changing a constant or stating the property.

**Scheduler and mailboxes.** The doc of `unblock_task` says that waking a task that
is not Blocked is refused (`K/experimental/scheduler.rs:208-211`); Running to Ready
is a legal edge, so a task that passes its own id is made Ready and goes on
executing. With every other task Blocked or Terminated, a yield resumes its caller's
spent context (`Perpetual = {0}` violates `KernelLives`), or returns from within
`block_current`, so that `receive` goes on in a Blocked task although its comment
says that it returns only after a wake (`K/experimental/ipc.rs:276-277`). None can
happen in the boot as it is, thanks to its two perpetual tasks; section 4 proves
that this suffices.

**Capabilities.** The module doc says that sending needs the SEND right
(`K/experimental/caps.rs:16`); `send` has no such check.

**NyFS.** A save appends behind a torn record, where no scan gets to, and commits
metadata that references the new records. `gc_blocks` leaves the ids of the files it
unlinks in `_journal_ids` and in the dedup cache; the same content written again gets
the old id, and the save skips it as durable. `read` re-blocks a file whose blocks
differ in length and does not mark the file system dirty, against the comment at
`L/fuse/nyfs.py:282-285`. These are the sequences that `doomed` and `recut` count, with
that of finding 1. All four were confirmed by executing the Python code: each, the read
with a compaction behind it, ends in `load` raising `EIO`, "missing block file".

**Containers.** Two threads in `suspend` and one of them then in `resume` leave the
state RUNNING and the cgroup frozen, which the comment in `resume` sets out to avoid
(`L/backend/container.py:2888-2894`). A spawn that fails after the launch marks the
container TERMINATED while its process lives; `NoOrphan` still holds, as the handles
stay, but `terminate` returns early on that state. A `terminate` during the poll of a
launch finds no pid: it marks the container TERMINATED and returns, and the launch then
assigns the handles of a running process to it. A poll that times out kills the init and
leaves it unreaped, with no handle to it (`L/backend/container.py:36827-36835`). A
`terminate` between the launch and the grant of capabilities leaves the grants to a
TERMINATED container. `container_run` of the control service accepts a restart policy
and never calls `wait` (`L/ipc/control.py:2413-2440`), where alone the policy is looked
at; `_maybe_auto_restart` calls a method `stop` that the class does not have.

**Host IPC.** `reply` returns True for a call that has timed out and not yet cleaned
up (`L/ipc/core.py:695-718`). A custom endpoint id that is in use is taken over
silently, and the clean-up of the first container then removes the endpoint of the
second.

**Updates.** A rollback takes incomplete restore points for candidates and removes the
installation first; an apply with `--no-restore-point` that dies between two files leaves
a mixture and nothing to go back to. Either strands the package, which is what `gambled`
records. A restore point taken while another command's rollback has removed the
installation is empty and counts as taken;
`validate_rollback`, which the docs cite, is
called nowhere but in tests; the pattern `<package>-*` matches the restore points of
other packages whose names begin the same; a failed payload write leaves a manifest
that still names the old version.

## 6. What is not modelled

Of the modelled components:

- Scheduler and mailboxes: `prepare_endpoint0_for_proof` and
  `prepare_task0_for_proof` (entry points of proof boots that never return to the
  scheduler, composed of operations the models have), the boot self-tests, logging,
  stack layouts, payload bytes and byte-size limits.
- Kernel memory: the heap, the ACPI and identity mappings, page-table levels above
  the last, physical memory detection.
- NyFS: the per-block save (`use_journal=False`, kept for benchmarks), the pins of
  restore points, encryption, a constructor over a directory that already holds
  metadata, a process killed without a power failure while writes are pending (its
  restart would find one of the outcomes the models decide at the failure, but a
  later failure could choose again), and torn records whose bytes happen to parse.
- Container manager: the launch through `unshare`, the registry of containers,
  resource limits, health checks and remediation, statistics, and the many reporting
  methods of the same file; reuse of pids; the network and seccomp settings of a
  spawn, except that they may fail.
- Host IPC: the token buckets (the limiter may refuse at any time), capability
  checks likewise, message priorities and sizes, and the socket service around the
  manager.
- Ring: creating, attaching, closing and the registry of channels; processors with
  weaker ordering than x86.
- Updates: signatures and the repository (a delta verifies or does not), the history
  file, deltas that remove files, power failures (a process dies, the disk keeps
  what was written).

Not modelled, with the reason in `PROJECT.json`: the ring-3 scheduler (two fixed
programs of the boot), the system-call gate (argument validation around one modelled
call), loaders and UEFI (parsers and firmware I/O), the ported release kernel (not
built), boot devices and phases, control and storage dispatchers, overlay and vault
mounts (file I/O), the restore engine's registry and pins, PKI and signing
(cryptographic data), seccomp, LSM and network policies (compilers), crash spool and
daemon state (one loop over a listing, one atomic replacement), the host's boot
lifecycle (a phase machine of one thread), the Rust codecs (byte layouts), desktop
applications, SDK and packaging. These are most of the repository's lines. They hold
little state that two actors share.

## 7. Plan

What is left, in this order:

1. **RestorePins** (`L/backend/restore_engine.py`, extending `NyFS`): capture, pin,
   expire, against collection and power failure. To prove: a registered restore
   point is restorable. It adds a second durable table to every step of a save, so
   the instance needs one block less.
2. The mailboxes and the capability machine composed through the system-call gate,
   and `KernelStacks` with the scheduler's `spawn` as its client.
3. The token buckets of the host IPC as functions, against the fairness their
   documentation promises.
4. The ring-3 scheduler, should it come to run more than its two proof tasks.

The project keeps about a dozen runs. A new module takes the place of a finding,
whose description stays in section 5.
