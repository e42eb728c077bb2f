# A verification project for esp_lwext4

`esp_lwext4` ports the lwext4 file system to ESP-IDF. The code of its own is in
`src/port/`: a new implementation of ext4 extents, an adapter to ESP-IDF's VFS
layer, and block device adapters. This directory holds TLA+ models of that
code, TLC configurations that check them on small instances, and proofs that
TLAPS checks for every size. lwext4 itself (journal, block cache, block
allocator, directories) is not in the repository; it is modelled only where the
code in `src/` relies on it, and marked external in `PROJECT.json`.

## The system

| Component | State | Operations | Used by |
|---|---|---|---|
| Extent tree, `lwext4_extent.c` | the inode's root node, node blocks, the allocator's bitmap | `tree_init`, `get_blocks`, `remove_space` | lwext4, for every file |
| VFS registry, `esp_lwext4.c` | `s_contexts`, `s_contexts_lock`, one context per mount with lock, file table, open counts | `register`, `unregister`, `rmdir_recurse`, locking of every VFS call | the application; ESP-IDF's dispatch |
| VFS file handles, `esp_lwext4.c` | an `ext4_file` per slot: offset, size, flags, path | `open`, `close`, `read`, `write`, `lseek`, `pread`/`pwrite`, `ftruncate`, `truncate`, `fsync`, `fstat` | the application |
| VFS path operations, `esp_lwext4.c` | none of their own | `stat`, `rename`, `link`, `unlink`, `mkdir`, `rmdir`, `access`, `utime` | the application |
| VFS directory streams, `esp_lwext4.c` | lwext4's iterator and a count of entries | `opendir`, `readdir`, `telldir`, `seekdir`, `closedir` | the application |
| BDL adapter, `lwext4_port_bdl.c` | the adapter, its mutex and transfer buffer, lwext4's reference count, last error | `create`, `read`, `write`, `close`, `lock`, `sync`, `format`, `destroy` | lwext4 |
| SDMMC adapter, `lwext4_port_sdmmc.c` | the same, without sync | the same | lwext4 |
| Format wrapper, `lwext4_port_format.c` | a shadow block device, progress counters | `format_blockdev` | the adapters |
| Heap and xattr shims | none | forwarding, constant answers | lwext4 |

An application call goes through ESP-IDF's table to a context, takes the
context's lock, and calls lwext4, which holds its mount lock around each
operation and calls the extent tree and, through its cache, a block device
adapter.

What is hard in each part, and what makes it correct:

* **Extent tree.** A multi-block structure updated in place: splits, root
  growth, separator correction and collapse, with a read, a write, an allocation
  or the power failing between any two block writes. Correct means: it answers
  like a map from logical to physical blocks, every block has one owner, a
  failed transaction leaves the last committed map, and every call ends.
  Arithmetic at the end of the 32-bit logical space is a hazard of its own.
* **VFS registry.** Tasks on two cores, two levels of locks, a lock that is
  created by whoever needs it first, contexts that are freed. Correct means:
  exclusion, no use of a freed context, counts that agree with what is open, no
  deadlock.
* **File handles.** Cached sizes and offsets that other handles make stale;
  resizing that fails half-way; identity by path after a rename.
* **Path operations.** Checks followed by actions, and a rename that replaces
  its target in two steps: what is left when the second one fails.
* **Directory streams.** Locations are counts, entries come and go during a scan.
* **Device adapters.** Torn transfers through one shared buffer, durability only
  after sync, an unlocked check before formatting, a mutex that mkfs takes twice,
  teardown after a failed sync, size overflow.
* **Format wrapper.** A saturating progress counter, rounding to block groups.

`PROJECT.json` lists these hazards at their lines, with the properties that
cover them, or the reason why none does.

## Modules

| Module | What it is | Extends |
|---|---|---|
| `ExtentMap` | what the extent layer promises: a partial map, changed by runs, committed or rolled back | |
| `ExtentNode` | entries, nodes, search and validation, as operators | |
| `ExtentTree` | the extent operations step by step | `ExtentNode`; instance of `ExtentMap` |
| `ExtentInvariant` | its inductive invariant | `ExtentTree` |
| `ExtentLemmas` | lemmas about trees and the ways the code changes them | `ExtentInvariant` |
| `ExtentTreeProofs` | proofs about `ExtentTree` | `ExtentLemmas` |
| `VfsMount` | registry, locks, context lifetime | |
| `VfsMountProofs` | proofs about it | `VfsMount` |
| `FileTree` | directory trees and lwext4's operations on them (external) | |
| `VfsNamespace` | the path operations that change the tree | `FileTree` |
| `VfsNamespaceProofs` | proofs about it | `VfsNamespace` |
| `VfsFile` | the calls on file handles | |
| `VfsFileProofs` | proofs about it | `VfsFile` |
| `VfsDir` | directory streams | |
| `VfsDirProofs` | proofs about it | `VfsDir` |
| `BlockDevice` | what an adapter promises: requests of many tasks on blocks | |
| `BdlAdapter`, `SdmmcAdapter` | the two adapters | instances of `BlockDevice` |
| `BdlAdapterProofs`, `SdmmcAdapterProofs` | proofs about them; the former also about the format wrapper, which works on an adapter | the module they are named after, and `FormatWrapper` |
| `FormatWrapper` | the parameters and the progress of formatting | |
| `MCExtentTree`, `MCVfsMount`, `MCVfsNamespace`, `MCVfsFile`, `MCVfsDir`, `MCBdlAdapter`, `MCSdmmcAdapter`, `MCFormatWrapper` | instances for TLC | the module they are named after (`MCExtentTree`: `ExtentInvariant`) |

The parts meet in this way. Every VFS call takes its context's lock, which
`VfsMount` models and proves exclusive; so in `VfsNamespace`, `VfsFile` and
`VfsDir` one call runs at a time, and their steps are the lwext4 operations it
makes. lwext4 in turn calls the extent layer one operation at a time
(`ExtentTree`), and an adapter from several tasks (`BdlAdapter`,
`SdmmcAdapter`).

Definitions named as mutants in their comments are variants that a plausible
bug would produce. No action uses them; substituted for the definition after
them, each makes a property fail, which shows that the property looks at that
code.

### ExtentNode and ExtentTree

A node is `[depth, ents]`. `node[Root]` is the root in the inode, `node[b]` the
node in block `b`. The maximum entry count of a header is a function of where
the node lives (`MaxEntries`). Operators keep the names of their C functions
where there is one: `SearchPos` is `binsearch_extent`/`binsearch_idx`,
`FindPath` and `FindResult` are `find_extent`, and so on. `End` is the `uint32_t`
sum that the code writes in comparisons, `End64` the wide sum of the validators;
`LBits` stands for the 32.

One operation runs at a time, because lwext4 holds its mount lock. `op` is its
control state and local variables; a step is one change of persistent state (a
node written, blocks taken from or given to the allocator) with the
computation that leads to it. Each node write (`Write`), allocation
(`AllocMeta`, `AllocBlock`), free (`Free`) and read (`ReadFails`) can fail; a
failed write leaves the old or the new content. Error returns go through `Undo`,
which is `free_new_metadata_block` and `get_blocks`' release of its data
blocks. The caller's transaction is external: it commits after success, aborts
after an error, and a power loss at any step restores the last commit.

| Actions | Code |
|---|---|
| `GetBlocks`, `AllocBlock`, `InsertExtent`, `InsertNew`, `MergeAt` | `ext4_extent_get_blocks`, `insert_extent`, `insert_new_extent`, `merge_extent` |
| `EnsureInsertRoom`, `Grow*`, `Split*` | `ensure_insert_room`, `grow_indepth`, `split_full_node`, `insert_index_entry` |
| `CorrectIndexes` | `correct_indexes`, one turn per step |
| `RemoveSpace`, `RemoveLoop`, `RemoveLeaf*`, `RemoveIndex*`, `RemoveMiddle*` | `ext4_extent_remove_space`, `remove_leaf`, `remove_index`, `remove_middle_of_extent` |

Abstracted: the byte layout, the checksums and the contents of data blocks. A
block that was freed and whose transaction has ended is `Garbage`.

`ExtentTree` implements `ExtentMap` with `current <- view` and `durable <-
saved.map`: `view` is the mapping after the last operation that returned
success, `saved` what the journal would restore.

What a behaviour starts from and asks for is a workload (`load`): a mounted tree,
the blocks, counts and ranges of the requests, and how many operations,
operations per transaction and I/O errors there are.

### VfsMount

Each task has a control point `pc`, the call it is in (`op`), its argument
(`arg`) and the context it works on (`my`). `global`, `globalOwner` and `handle`
separate the mutex from the pointer to it, because `contexts_lock_get` can make
several candidates. `state` follows a context from `calloc` to `free`. A step
ends where another task can see a difference: before each lock is taken, after
each change of the table, the list or a counter, and around the long lwext4
calls (`v_open`, `v_file`, `x_remove`).

The three API calls are modelled whole. Of the VFS calls, `open`, `close`,
`opendir` and `closedir` are modelled with their effect on the file table and
the counts; the calls on an open slot are `FileGet` and `FileUse`, all calls on
paths are `PathCall`. A base path is a number, the length of a prefix of one long
path, which is enough for `rmdir_recurse`'s search for the longest prefix.
`take_lock` waits for ever, so its error return cannot be taken. `open` and
`opendir` can return before they take the lock (read-only mount, no memory); they
change nothing then, and the model leaves it out.

`Quiesced` is an assumption about the application: it makes no VFS call on a
prefix while it unregisters it. The code cannot enforce it, and the run
`vfs_busy` shows what happens without it.

### FileTree and VfsNamespace

A tree is a record of inodes, entries and attributes; a path is a sequence of
components, with `.` and `..`. `FileTree` has lwext4's operations, each a
transaction that happens or not. `VfsNamespace` has the calls as the sequences
of these that the code makes: `Rename`, `Compare` (the early answers of
`rename_locked` when the target exists), `Scan` (`directory_is_empty_locked`),
`RemoveTarget` and `RenameAgain`; `Exist` and `RemoveTarget` of `unlink`; `MakeDir` and
`ModeSet`; `AtimeSet` and `MtimeSet`. `OperationFails` lets the operation at hand
fail. The power may go off at any state, so `OnlyHalfDone`, which is about every
state of a call, is also about what a restart finds.

`May` and `Effect` say, from the tree before the call only, whether POSIX allows
it and what it does; `HalfDone` what may be left of it. `ScanFaults` adds failing
reads of directories, which lwext4 cannot tell from the end; it is on only in
`vfs_scan`. Left out: what lwext4 makes of removing or renaming by a path that
ends in a dot component and is not the root (`ModelledCalls` leaves out
such sources of a rename), and `ext4_fremove` on a directory is taken to be refused
by lwext4, as `unlink` relies on.

### VfsFile

`file[h]` is lwext4's `ext4_file` of a slot with the path the adapter keeps: the
offset, and a copy of the size that reading, writing and truncating renew.
lwext4 cannot seek past that copy and only truncates downwards, which is what
`current_file_size_locked`, `seek_to_current_end_locked`, `positioned_io` and
`resize_file_locked` work around. A step is one lwext4 operation; writes and zero
filling may stop half-way. `Tmp` is the handle that `truncate` opens by path.
The bytes that a call writes are its number, so that misplaced ones are seen;
`Junk` is what lwext4 gives or leaves beyond the end of a file that another
handle has cut off below the offset. lwext4 may or may not move such an offset.

The properties compare the end of a call with `before`. Where a handle is stale
they say what still holds: `FailureExplained` admits a refusal only for a stale
size, a renamed file, a handle without permission, or an operation that failed.
`PositionedKeepsOffset` speaks of failing calls too: a handle may lose its offset
only in a call that fails when the size it remembers does not reach it.
Left out: unlinking or replacing a file while it is open, as what lwext4 does
with a handle on a freed inode is not known from `src/`.

### VfsDir

One stream over an array of slots. lwext4's iterator passes free slots and
answers NULL at the end and when a read fails; an entry keeps its slot. The
adapter's part is the count that `telldir` answers and the walk of `seekdir`.
Other tasks make and remove entries between calls (`Change`).

### BlockDevice, BdlAdapter and SdmmcAdapter

A call is a program: `todo[t]` is the sequence of steps left of it. `Program` has
what each call does in order, with lwext4's part (`open`, `unref`, locked
requests; mkfs as two requests inside the lock) external. `format` checks twice:
`CheckFormat`, and `CheckParameters` for what `lwext4_port_format_blockdev`
checks before it takes the mutex. A call that fails goes on with the returns
that the code has at the step that failed (`Cleanup`): nothing before the mutex
was taken, one give in `destroy` (`RefsError`), in a failing sync (`SyncError`)
and for a locked request (`RequestError`), and two when a request inside mkfs
fails, the wrapper's and that of `lwext4_port_format_blockdev` (`MkfsError`).
Whether these add up is what `FreedClean` and `EveryCallReturns` check; a mutant of
`MkfsError` that gives back once breaks both. A read or write is a loop of chunks: `CopyIn`
and `WriteChunk`, or `ReadChunk` and `CopyOut`, each a step, because other tasks
run between them and may only be kept off by the mutex. A failing chunk has
stored any part of its blocks, or left anything in the buffer. lwext4 may pass
the adapter's own transfer buffer as the caller's (`alias`).

The initial states are the adapters that `create` accepts (`Creatable`), out of
all combinations of device and configuration in `Setups`. `dirty` are blocks that
the device would lose with its power; the SD card writes through and has none.
The application formats and destroys when it makes no other call (the header:
"The adapter must not be in use"), and mounts and unmounts from one task.

Both implement `BlockDevice` with `content <- media` and `serving <- ` the
requests in progress: a block only changes under a write that covers it, to that
write's data; a successful answer means that all blocks hold the data at that
moment. Left out: running out of memory in `create`.

### FormatWrapper

`Start` is the parameter checks and the rounding to block groups; `Transfer` is a
request of mkfs, with the saturating counter of `format_wrapper_account`; `moved`
and `reported` are history, from which `ProgressTimely` is told without the
counter. Locking during a format is in the adapters' modules.

## Runs

| Run | Shows | Bounds | Distinct states |
|---|---|---|---|
| `extent_tree` | the tree stays well formed and searchable, leaks nothing, answers rightly, fails only for the reasons it may, restores the map after every error and power loss (refinement of `ExtentMap`), and every call ends | two operations on three mounted trees, 16 logical and 20 physical blocks, 2 I/O errors, with a journal and without; one operation with two free blocks left; or 6 blocks allocated in every order in an empty file | 116 089 |
| `extent_wrap` (violation) | the comparison at `lwext4_extent.c:1132` wraps | the last two logical blocks, 3 operations | |
| `vfs_mount` | counts and slots are exact, every call returns | 2 tasks, 2 contexts of one mount, 2 slots | 118 676 |
| `vfs_race` | exclusion, lifetime, removal, registry | 3 tasks, 2 contexts, prefixes that compete for a mount point | 1 303 490 |
| `vfs_busy` (violation) | a context is freed with an open handle | 2 tasks, 1 context | |
| `vfs_namespace` | path operations do what POSIX says, or leave the half-done states the code admits | 2 calls on 8 trees, 12 paths, 1 failure | 139 790 |
| `vfs_scan` (violation) | a failing directory read makes `rmdir` and `rename` remove a full directory | 1 call, 1 failure | |
| `vfs_file` | file calls do what POSIX says, or fail for a reason, with other handles in between | 3 calls on 2 handles and 2 files, up to 4 bytes, 1 failure | 2 162 924 |
| `vfs_dir` | scans are complete, locations stay right | 6 calls, 4 slots, 2 changes, 1 failure | 222 323 |
| `bdl_adapter` | the adapter implements `BlockDevice`, keeps to the lower device's contract, keeps its promises of durability, and is freed in order | 2 tasks, 3 calls, 2 failures on a device of 2 blocks and a buffer of 1; every device and configuration of `AnyDevice`, 1 call of up to 6 blocks anywhere | 1 872 768 |
| `sdmmc_adapter` | the same for an SD card, and every call returns | 2 tasks, 3 calls, 1 failure on 3 sectors, buffers of 1 and 2; every card up to 4 sectors, 1 call | 324 904 |
| `format_wrapper` | progress is reported in time, the length is whole groups inside the device | blocks of 2 to 8, lengths around group ends, 2 requests up to the width of the counter | 54 636 |

Why the bounds are enough. With a root of two and nodes of three entries (four
and at least 84 in the code) every structural case occurs within a few entries:
growth twice, splits of leaves and of index nodes, a split of the node that a
previous split made, separators corrected through two levels, removal that
collapses the tree to a leaf. The mounted trees start full, so two operations
reach the cases that a behaviour from an empty file needs ten for. The root is
smaller than a node as in the code, on which `merge_extent` relies.
`MaxLen` is small so that extents reach it. Workloads put two operations
into one transaction, so that an abort undoes both. `Crowded` leaves two blocks
free, so that allocations find the device full and are undone. No workload maps the last logical block, so the exit of
`ext4_extent_remove_space` at 2^32-1 is not exercised (`extent_wrap` shows what
goes wrong there before). In the registry two tasks can meet in every pair of
control points; the third is for three-way races over the lock and one context.
Two contexts of one mount let a mount be registered again while its old context
is being freed.

Path calls run one at a time, so two in a row show every state one can leave to
the next; the trees have a nested directory, a full and an empty one, and a file
with two names, in the same and in different directories. A file of two bytes and
a growth buffer of one give growth two turns and a failure between them; three
calls are needed for one handle to make another stale and that one to be used
and used again. A stream needs `telldir`, some `readdir`, `seekdir` and
`readdir`: six calls leave two for a detour. A request of two chunks is the
shortest that can fail half-way; two tasks with three calls overlap any two
calls after any first one. The second set of setups is there for the arithmetic
of `create` and of the range checks, which takes one call.

`CHECK_DEADLOCK FALSE` is set wherever the number of calls is bounded, as these
models stop when it is used up; calls that hang are found by `EveryCallReturns`.
The registry runs check for deadlock: a finished task can always
begin a call.

Fairness. `ExtentTree`: an operation that has begun is run to its end by its
task, so weak fairness of its own steps taken without an I/O failure (a call that
only ends because the device fails would not count); failures and power loss
are not fair.
`VfsMount`: weak fairness of steps that do not wait (the scheduler runs ready
tasks), strong fairness of taking a mutex, because FreeRTOS hands a mutex to the
longest waiting task of the highest priority. Starting a call is not fair.
`SdmmcAdapter`: the same, weak fairness of a task's steps and strong fairness of
its taking the mutex. `BdlAdapter` has the same locking and adds only steps that
never wait, so liveness is checked once.

### Disagreements with the code's own comments

* `extent_wrap`: the comment at `lwext4_extent.c:1130` says that an insertion
  that starts inside an existing extent is rejected. `first_block + length` is a
  `uint32_t`; for the extent that ends at the last logical block it is 0, the
  block is neither found nor seen as an overlap, and a second `get_blocks` for it
  inserts a second extent. The other runs do not map the last logical block
  (`blocks` of the workloads, and mounted trees that end before it).
* `vfs_busy`: `esp_lwext4.h:68` says that unregistration fails while files or
  directories are open. The counts are checked under the context's lock, but the
  lock is given (`esp_lwext4.c:1565`) before the context is freed; a call that
  was dispatched before gets the lock in between.

* `vfs_scan`: `README.md:358` of the repository says that `rmdir()` remains
  non-recursive. `directory_is_empty_locked` takes NULL from
  `ext4_dir_entry_next` for the end, which is also its answer when a read fails;
  what follows is `ext4_dir_rm`, which removes everything below.

Met while modelling, and kept as hazards or as exceptions in the properties, not
as runs:

* `positioned_io` looks the size up and then seeks (`esp_lwext4.c:653`) with the
  size that the handle remembers, though the comment at 265 speaks of updating
  it: after another handle has extended the file, an offset inside it is
  refused. `FailureExplained` admits it as `Stale`.
* The comment at `esp_lwext4.c:352` takes the original offset to be within the
  old end. It is not when another handle has shrunk the file; growth then
  succeeds, moves the offset and returns the error of the restoring seek.
* `lseek` from the end uses the remembered size (565), and `fstat` answers for
  the path without comparing inodes (728).
* `unlink` takes any failure of its check for a directory for "not a directory"
  (968); lwext4's own refusal is what protects directories.
* `sync_lower` on a device without a sync operation stores `ESP_OK` over the last
  error (`lwext4_port_bdl.c:87`; the header at 194 speaks of the last lower
  operation).
* The count that `format` checks (`lwext4_port_bdl.c:391`) is read without the
  lock, so it protects from a mount that was there before, not from one that
  begins meanwhile.

## Proofs

All theorems hold for every value of the constants that satisfies the named
assumptions of the modules: any number of tasks, contexts, slots and blocks.

`VfsMountProofs`. The invariant `Inductive` (end of `VfsMount`) has named parts:

* `TypeOK`, and `RolesKept`: which call a task is in says where it can be and
  whether it has a context. Without it, nothing is known of `my` when a step
  uses it.
* `LocksHeld`: every handle is the one registry lock, and being between take and
  give is owning. `MutualExclusion` follows at once, but is not inductive alone:
  it does not say that a lock somebody waits for is held by whoever is inside.
* `CountsExact`, `SlotsStable`, `RemovesAlone`, `ClosingHeld`: the file table.
  Each change happens at a control point inside the context's lock, so
  exclusion keeps the others' view.
* `NoUseAfterFree`, `LifetimesKept`, `RegistryKept`: with both locks held,
  `unregister` is alone with its context (lemma `UnregisterAlone`), and after it
  took the context out of the table and the list nobody can find it. This part
  assumes `Quiesced`.

Each part has a lemma with one step per action. The theorems are
`TypeCorrect`, `MutualExclusionHolds`, `CountsAreExact`, `SlotsAreStable`,
`RemovesOnlyAlone` (unconditional), `NeverUsedAfterFree`,
`RegistryIsConsistent` and the action property `UnregistersOnlyClosed` (under
`Quiesced`).

`ExtentLemmas` and `ExtentTreeProofs`, for trees of any size and shape, any number of logical and
physical blocks, any capacities of root and node (at least two entries), and any sequence of
operations, failures and power losses. What the properties of `ExtentTree` say
between operations is not inductive: an operation is a dozen writes, and after
each of them a lookup must still answer. `ExtentInvariant` states what holds at
every step, of a set R of blocks that the proof names at each step:

* `Tree`: R is closed under the children (`Shape`), everything in it hangs somewhere
  (`Hung`) and once (`Once`), and every entry is in the node where the descent for
  its block arrives (`Routed`). The last is what binary search relies on. It is
  stated with the descent itself (`On`), so that it also speaks of a tree whose
  separators are not exact.
* `Neat`: separators are the first keys below them, but for the node named by `Odd`,
  which an insertion in front, a removal or a freed child has just changed. `fix` is
  the loop that moves this exception upwards.
* `Owned`: every block is in R, in the map, free, or one of the few that the
  operation has in hand (`Loose`): new blocks that nobody points to yet, and old ones
  that nobody points to any more.
* `Busy`: what the operation remembers is true (`Numbers`), the path it keeps is
  still the path (`PathKept`; in `splitindex` it was looked up before the
  allocation and two writes), and lookups answer what they should in mid-operation
  (`Target`: the run is mapped from the write of the leaf on; a removal has
  got as far as its cursor).
* `Whole`: between the link of a new right half and the cut of the old node, entries are
  stored twice. The tree with the cut made is a `Tree`, and lookups in both agree.
* `SavedInv`: what the journal would restore is a sound tree too.

TLC checked `IInv` as an invariant of `extent_tree` before it was proved. The argument
goes from the bottom up:

* The descent (`ExtentLemmas`): where it goes (`TopDown`, `NextIs`), that the descents for two blocks
  part where a separator lies between them, that it ends in the one leaf that can
  hold the block (`LookupMaps`), and that R is what `Reachable` computes (`ReachableIs`).
* One lemma for each way the code changes a tree (`ExtentLemmas`): `SplitTree` and `Halves` (the new half
  linked, the old half cut), `GrowTree`, `FixTree`, `DropTree`, `LeafInsert`,
  `LeafReplace`, `LeafTrim`. Each says that the result is a `Tree`, what lookups answer
  in it, and which separators are exact.
* One lemma for each action, named after it (`...On`), that the invariant holds after it,
  on its failures too; `OpOn`, `RequestOn` and `ReturnOn` join them to `Inductive`.
* `StepRefines`: a step that returns success changes the map by one run, any other step
  of an operation does not, and a return or a power loss commits or rolls back.

Theorems: `TypeCorrect`, `WellFormedHolds`, `FoundHolds`, `OwnersHold`, `OthersHold`,
`ResultHolds`, the refinement `RefinesMap`, and `NeverSharedHolds`, which follows from
it and from `ExtentMap`: no two logical blocks of a file share a physical one. This
is what a file system relies on.

Each of them has the hypothesis `AwayFromEnd`: no request reaches logical block
2^32-1. It is needed, since `extent_wrap` is a run that ends in an
overlap without it, and nothing in the code refuses such a request. All
workloads of `extent_tree` satisfy it (`MCExtentTree` asserts so).

`BdlAdapterProofs` and `SdmmcAdapterProofs`. `IInv` is built up like this:

* `Placed`: how often a task holds the recursive mutex is a function of its place
  in its call (`Depth`), on the error paths too (`GivingUp`). Without it nothing
  says that the mutex is given as often as it is taken, and so that a task in a
  loop owns the buffer. `Excluded` is the application's promise (no other call
  during format and destroy), `Referring` that a call that drops a reference has
  one.
* `Served`: what a loop has transferred so far is still on the medium, and the
  buffer still holds what it was filled with. It is kept because by `Placed` one
  task at a time is in a loop; other tasks' steps do not touch either.
* `Durable` and `Ending` (BDL): a call that has made its promise durable has only
  steps left that write nothing; `destroy` has seen the count at zero since it
  holds the mutex, and its last sync left nothing dirty.

From these follow `FreedIsClean`, `SyncedIsDurable`, `LowerContractKept` and
`SectorContractKept` (the checks at the start of a request keep all of it inside
the device, so neither the byte address nor the narrowed sector number is another
one than was meant), and `DeviceImplemented`: every step of an adapter is a step
of `BlockDevice` or leaves it as it is (`serving` and `media` unchanged). So a
torn transfer, a failing chunk and two tasks' requests one after the other are
covered for buffers and requests of any length.

Format wrapper, at the end of `BdlAdapterProofs`. The invariant `FormatInv` adds to
the types that the counter is exactly the number of blocks moved since the last
report (`Counted`); without it nothing relates `since` to the blocks moved. Lemma
`KeptSum` shows that the saturated sum, which is not the true one, is always
reported and never kept, and `RoundingDown` what rounding to a multiple leaves. From
these follow `FormatTypeCorrect`, `ProgressTimelyHolds` and `LengthFitsHolds`, for
every width, interval and block size, with rounding built in or not.

`VfsDirProofs`. The code keeps the iterator's place and the count apart.
`CountIsPosition` ties them while the directory does not change; a `seekdir` is a
walk of that many entries from the start, and lemma `Kth` says that it ends
behind the entry with that number (the least number of a set comes from
`WFMin`). `Located` says that a location is a place of the directory, `Arrived`
where a seek without failure ends. `Scanned` is what makes `ScanComplete`
inductive: what is behind the iterator and was there all the time has been given.
Theorems: `CountsPosition`, `ScansAll`, `SeeksBack`.

`VfsFileProofs`. The properties speak of the end of a call, so none is inductive
alone. `Placed` says for each place of a call what the file holds there, what
it held at the beginning or that made longer with zeros (`Padded`), and what the
handle remembers: the size in it is the file's or still what it was
(`Sized`). Growth is the loop whose invariant is `Growing`, for every size of
the buffer of zeros; a part of a write of zeros is again a file padded to some
length between. `Running` says that meanwhile only the call's own bytes
changed, `Settled` that from the last places on the outcome stands, whether
restoring the offset works or not. Lemmas about `Overlay` and `Padded`
(`OverlayIs`, `PaddedIs`, and those after them) carry the byte arithmetic.
TLC checked `IInv` as an invariant of `vfs_file` before it was proved. Theorems:
`Appends`, `DoesAsPosix`, `KeepsOffset`, `ChangesNoOthers`, `FailsForReason`.

`VfsNamespaceProofs`, for trees of any size and shape and paths of any length, with
any number of dots in them. `IInv` says of a call that is under way which tree
it has made of the one before (`Staged`, `Found`), and what the checks it has
passed mean in that tree (`Checked`, `Found`); of one that is over, `PosixOutcome`,
`RootIsBusy` and that the tree is half done if it failed (`Over`). TLC checked it as
an invariant of `vfs_namespace` first. The argument has four parts:

* Where paths lead. `Walk` and the count of `path_is_mount_root` are recursive
  functions along a path; `TrailIs`, `WalkIs` and `DepthIs` give their steps, and
  `PathInduction` what holds along a path, from `Upwards` and thus from the least
  number of a set. `MountRootIs` follows by `DepthOfWalk`: n components below the root
  are n parents away from it (`DescentUp`, `DescentDown`), so the lexical count is 0
  only where the walk is at the root or nowhere.
* What is above what. In a well-formed tree a directory has one path without dots
  (`OnePath`), and what is above it lies on that path (`AboveOnPath`). So the
  comparison of strings in `path_is_strict_descendant` says what it should
  (`DescendantIs`).
* The three changes of a tree keep it well formed: a name removed, with its inode
  or not (`DroppedGood`), a name added (`LinkedGood`, `MadeGood`), a name moved to
  where it is not below itself (`MovedGood`). `DirRmIs`: what `ext4_dir_rm` does to an
  empty directory is the removal of that directory alone.
* rename's emulation of replacement: once the target is gone, both paths still lead
  where they led (`DroppedWalk`, `DroppedAbove`, `ReplaceIs`), so the second attempt
  succeeds and does what POSIX says (`MoveIs`).

Theorems: `TypeCorrect`, `Outcome`, `CutShort`, `RootRefused` and the action property
`RemovesOne`, each under `~ScanFaults`, since `vfs_scan` shows what happens without it.

Assumptions on constants, each named in the module that declares the constant:
no task, descriptor, name or inode is the absent value `None` (slots, task
handles and inode numbers differ from it); sizes, offsets, requests and bounds are
natural numbers (`size_t`, `uint64_t`); `GrowBuffer` is not zero
(`grow_buffer_size`); a mounted file system's names lead to files; a mounted tree is
finite and well formed and its times fit (`MountAssumption` of `VfsNamespace`), and `.` and `..` are not
names of entries (`NameAssumption`); a mounted file's extents are a tree as `e2fsck` would
leave it (`MountAssumption` of `ExtentInvariant`, which TLC evaluates for every workload),
2^32-1 and the goal are numbers (`WidthAssumption`, `GoalAssumption`); `SizeMax` is at
least twice the card's capacity (`CapacityAssumption`: `csd.capacity` is an
`int`, `size_t` has at least the width of `unsigned`). Everything that the code
itself has to see to, such as the ratio of block sizes or the ends of requests,
is a check of the model and not assumed.

Only model-checked: `OnlyExpectedErrors`, of which the proof would also have to count the
attempts of `ensure_insert_room` against what full nodes are left on the path.
Liveness (`EveryCallReturns`) and `ENABLED` are out of the provers' reach, and a run that
finds a violation has nothing to prove, but for `NotRecursive`, which holds where
directories can be read.

## Not modelled, and the plan

To be proved next: `OnlyExpectedErrors`.

Open in the models:

* A caller of the extent layer that commits after an error
  (`doc/CAVEATS.md:305`): which of the invariants survive. Such callers are in
  the lwext4 core, which is not here.
* Requests whose `max_blocks` runs past logical block 2^32-1.
* Handles on a file that is unlinked or replaced while it is open.
* A `readdir` whose read fails ends like one at the end of the directory
  (`esp_lwext4.c:1064`); `ScanComplete` is about scans without such a failure.

Left out for good: heap and xattr shims (stateless), build files, the vendored
lwext4, checksums and byte layouts, allocation failures of the adapters'
constructors, logging.
