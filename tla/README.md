# TLA+ models of elmerfs

elmerfs is a FUSE file system whose state lives in AntidoteDB: inodes, directory
maps and symlink targets are CRDTs. Every request is one AntidoteDB transaction.
This directory holds TLA+ models of the request handlers (`src/driver.rs`), the
FUSE adapter that calls them (`src/fs.rs`), and the inode-number generator. It
also holds the TLC configurations that check the models.

## The system

| Part | Source | State | Operations |
|---|---|---|---|
| FUSE adapter `ElmerFs` | `src/fs.rs` | none of its own; `session!` runs each request as a task | lookup, mkdir, mknod, symlink, unlink, rmdir, link, rename, plus getattr, readdir, open, read, write, setattr, readlink |
| Driver | `src/driver.rs` | none of its own: a connection pool, the ino generator and a page writer | one async handler per request |
| Transaction locks | `transaction!` in `src/driver.rs:44-70` | shared and exclusive keys held by running transactions | `transaction_with_locks`; with `Config.locks` false, no keys are taken |
| Backend objects | `model::{inode,dir,symlink}` (outside `src/`) | inode record (kind and size are LWW registers, nlink is a counter), directory entry map (add-wins), symlink target | create, update_stats, incr_link_count, add_entry, remove_entry, remove |
| Deferred deleter | `schedule_delete` / `delete_later` | a spawned task per unlink or rmdir | re-reads the inode and removes it if `nlink` says it is unreferenced |
| Inode generator | `next_ino`, `checkpoint`, `load_ino_counter` | in-memory counter; register `inos/<view>` | next, fire-and-forget checkpoint, load at start |
| Connection pool | `ConnectionPool`, `MAX_CONNECTIONS = 32` | leased connections | acquire, release on drop |
| Legacy dispatcher | `src/dispatch.rs`, `src/op.rs` | none | not on the live path (see below) |

### How the parts interact

- The kernel sends a request only after its own VFS checks: EEXIST, ENOTDIR/EISDIR, a hard link to a directory, renaming a directory into itself.
- `fs.rs` replies with a TTL of zero, so those checks use fresh lookups. They describe the state at issue time.
- The driver handler then does its work:
  1. it leases a connection;
  2. it begins a transaction with a lock set;
  3. it reads a snapshot;
  4. from that snapshot it computes one update vector;
  5. it commits.
- Between issue and begin, and between begin and commit, other requests, deleters and checkpoints run.
- The lock sets decide which of them can overlap. Rename locks only the two parents' inode keys. It locks neither the source nor the target inode, nor any directory map.

## Modules

### `Driver.tla`: namespace operations, locks, deleter

**State**
- `inode`: kind, size and nlink for each ino.
- `dir`: for each ino, a map from `Names ∪ {Dot}` to entries (ino, kind).
- `symlink`.
- `nextIno`.
- `task`: one per slot. A slot is a request in flight. Its `pc` is `conn`, then `lock`, then `run`.

**Actions, one step each**
- `Issue(s)`: the kernel sends a request, given what lookups show. There is one disjunct per request kind: `IssueLookup`, `IssueCreate`, `IssueRemove`, `IssueLink`, `IssueRename` (`fs.rs` handlers).
- `Acquire(s)`: `pool.acquire()`. At most `MaxConnections` slots are leased at once.
- `Begin(s)`: `transaction!` begins once no running transaction holds a conflicting key. The handler's reads, checks and early returns are evaluated at this snapshot by `MkDirTx`, `MkNodTx`, `SymlinkTx`, `UnlinkTx`, `RmDirTx`, `LinkTx`, `RenameTx` and `DeleteTx`. Each returns the update vector the handler would commit. An `enoent!` or EEXIST return is an empty vector.
- `Commit(s)`: `tx.commit()` applies the whole vector atomically (`FoldLeft(Apply, ...)`). After an unlink or rmdir, the slot becomes the `delete_later` task that `schedule_delete` spawns.
- `TransportError(s)`: the fault model (spec §7: transport errors and backend timeouts become `EIO`). A `?` returns at acquire, begin, a read or update, or a commit the server never applied. The dropped connection aborts the transaction, and the task ends. A failing `delete_later` ends silently, because `task::spawn` drops its error.
- `AmbiguousCommit(s)`: the server applied the commit, but its reply was lost. The updates are in, the request returns `EIO`, and the `schedule_delete` after `tx.commit().await?` never runs.
- Both fault actions are bounded by `MaxFaults` and counted in `faults`. Neither is fair.

**Data abstraction**
- Names are model values.
- A lookup's name does not matter to any property, so it is dropped.
- Timestamps, owners and modes are left out.
- A u64 size is an integer, and a negative value stands for the release-build wrap `2^64 + v`.
- The size register of a file or symlink is always 0, because no operation modelled here writes it.

### `InoGenerator.tla`: inode numbers across crashes

**State**
- `counter`: the in-memory generator, `Down` while the process is dead.
- `persisted`: the `inos/<view>` register.
- `waiting`: checkpoint tasks spawned but not yet begun.
- `running`: a bag of the values read by checkpoint transactions that have begun.
- `inflight`: a number handed to a request.
- `used`: numbers whose create committed.

**Actions**
- `NextIno` (`next_ino`).
- `CreateCommit` / `CreateAbort`: the creating request.
- `CheckpointBegin`, `CheckpointCommit` and `CheckpointFail` (`checkpoint`).
- `Crash`: the process dies and loses every task and the counter.
- `Restart` (`Driver::new` → `load_ino_counter`).

`Driver.tla` keeps inode numbers as a plain counter. This module is what checks the crash behaviour.

### `SerialNamespace.tla`: what the lock discipline promises

This is the abstract specification of the namespace. The namespace (`inode`, `dir`, `symlink`) changes one whole operation at a time. Each change is exactly what that operation does when it runs alone on the namespace as it is at that moment.
- `alone` maps each operation in flight to the namespace it would leave if it ran alone.
- A step runs one operation `t` (`namespace' = alone[t]`), and `t` is the operation that completes: it is no longer in flight afterwards. Without this conjunct, a commit could be matched to any other operation in flight that happens to produce the same namespace.
- Aborts and early returns leave the namespace unchanged, which is a stuttering step.

`Driver.tla` instantiates it as `Serial` with the refinement mapping `alone <- [t \in in-flight requests |-> FoldLeft(Apply, Store, TxOf(t).eff)]`. `SerialSpec == Serial!Spec` is checked as a PROPERTY. Because of the mapping, each commit must apply the update vector that its request would compute on the current store, not on its snapshot. This is what the lock sets are meant to guarantee.

`Driver.tla` also has a constant `Workload`, the request kinds the kernel sends. This lets a run leave out rename (whose lock set is known to be too small) or lookup (to keep a liveness run small).

### `FileData.tla`: one regular file's size and contents

**State**
- `size`: the size register.
- `pages`: the byte positions that page registers hold bytes for.
- `written`: a ghost variable, the bytes the file holds by POSIX.
- `task`: one request per slot, each with its snapshot of the size and, for a read, the length it computed and the positions it returns.

**Actions**
- `Issue`: `fs.rs` write, setattr, read, rename. The kernel reads only below the size it last saw.
- `Begin`: `transaction!` with write and setattr exclusive and read shared on the inode key; rename takes no lock on the file. Its snapshot is taken here, along with read's `end - offset`.
- `Commit`, which dispatches to:
  - `WriteCommit`: pages, then `size += saturating_sub`;
  - `SetattrCommit`: `update!(inode.size, size)`, with pages left unchanged;
  - `RenameCommit`: `update_stats(&inode)` from the snapshot.

Pages are abstracted to byte positions, because only which positions hold old bytes matters. `PageWriter` is outside `src/`, so its read reply (the slice up to the size, with absent pages padded) is modelled from the spec.

### `DirListing.tla`: a directory listed while it changes

**State**
- `entries`: the names the directory map holds, with `.` always present.
- `changes`: the commits that changed the directory so far, bounded by `MaxChanges`.
- `reader`: the kernel's directory stream. It holds the stream's phase, the offset it asks from next and the names it received. A ghost field `keep` holds the names present since opendir and never removed since.

**Operations**
- `Listed`, `IterFrom` and `Page` turn a snapshot into a page. `Listed` is the map in its iteration order (`Order`, spec §4.5: "map iteration order"). `IterFrom` is `iter_from(offset)` in `Driver::readdir`. `Page` is the prefix that fits the reply buffer (`Cap` entries, `reply.add` until full in `fs.rs`).
- `NextOffset`: the offset stamped on the last entry sent, `offset + i + 1`.

**Actions**
- `OpenDir` and `ReleaseDir` correspond to opendir and releasedir, each a getattr.
- `ReadDir` is one `readdir` call, one transaction under the shared dir lock. An empty page ends the listing.
- `AddEntry`, `RemoveEntry` and `RenameEntry` are the commits of the namespace handlers on this directory: `add_entry` (mkdir, mknod, symlink, link), `remove_entry` (unlink, rmdir) and a rename within it.

Every commit is atomic with respect to a page, so each is one step. Only the names and their positions matter, so the inodes the entries name are left out. That part of the namespace is what `Driver.tla` models.

### MC modules

`MCDriver.tla`, `MCFileData.tla`, `MCDirListing.tla` and `MCInoGenerator.tla` define the model values for names, slots and clients, and symmetry over them. All of these are interchangeable, so the symmetry is sound for the safety runs. The liveness run uses no symmetry. `MCDriver.tla` also names the workloads: `AllRequests`, `LockedRequests` (without rename) and `ReclaimRequests` (without lookup and rename).

## Runs

| Run | cfg | Expect | What it shows |
|---|---|---|---|
| driver_locks | `MCDriver.cfg` | pass | With locks on and one transport error or ambiguous commit allowed, two concurrent requests and their deleters never bring `nlink` below an inode's entries (`NlinkCoversEntries`). The deleter reclaims only inodes no entry names (`DeleterRemovesOnlyUnreferenced`). It takes about 2.5 minutes. |
| driver_dangling | `MCDriverDangling.cfg` | violation | `NoDanglingEntry`. A rename replaces a target it read without a lock (nlink 1), while a link of that target commits. The inode is removed and the new link dangles (driver.rs:609, 671). |
| driver_serial | `MCDriverSerial.cfg` | pass | `SerialSpec`. With locks on and every request except rename, Driver refines SerialNamespace: each commit is what its operation does alone on the current namespace. About 2.4M distinct states, with `MaxIno = 4`. |
| driver_reclaim | `MCDriverLive.cfg` | pass | Three tasks share two connections. `OrphansReclaimed`: every orphan (nlink 0, or a directory with nlink ≤ 1) is eventually removed by its deleter. `RequestsComplete`: every request and delete task eventually finishes. Both hold under `FairSpec`. |
| driver_fault_leak | `MCDriverFaultLeak.cfg` | violation | `OrphansReclaimed`, under the fairness of driver_reclaim, with one fault allowed. Sequence: mkdir `/a`, then rmdir `/a`, whose commit is applied but reported failed. `schedule_delete` is skipped (driver.rs:411), and directory 2 stays with nlink 1 forever. A transport error inside `delete_later` leaks the same way, because nothing retries it. |
| file_data | `MCFileData.cfg` | pass | `TypeOK`. Every request kind, rename included, runs concurrently on the file. The size, the pages and every read's reply stay within the file's byte positions. |
| file_rename_size | `MCFileDataRename.cfg` | violation | `WrittenBytesWithinSize`. A rename of the file reads its size (0) at its snapshot, without locking the inode. A write of one byte then commits and sets the size to 1. The rename commits `update_stats(&inode)` with the old size 0 (driver.rs:711), so the written byte lies past the size and reads clamp it away, against spec §4.5 (write sets `size = max(size, offset+len)`). |
| file_read_underflow | `MCFileDataUnderflow.cfg` | violation | `ReadNeverUnderflows`. A truncation to 0 commits after the kernel issued a read at offset 1, and the read's `end - offset` goes below zero (driver.rs:580). A debug build panics; a release build asks `Vec::with_capacity` for about 2^64 bytes. |
| dir_listing | `MCDirListing.cfg` | pass | `ListingCompletes`: every listing the kernel starts reaches its empty last page, whatever commits run between pages. This relies on the offset advancing past every entry sent. |
| dir_listing_skip | `MCDirListingSkip.cfg` | violation | `NoStableEntrySkipped`. One trace: `a` and `b` are created, the kernel opens the directory, and its first page returns `.` and `a`, leaving offset 2. Then `a` is unlinked. The next page asks from position 2 of `[., b]` and is empty, so `b`, present throughout, is never listed. Creating `a` after opendir gives the same skip. The offset is a position in the map (`iter_from`, driver.rs:281), not a name. |
| ino_checkpoint | `MCInoGenerator.cfg` | pass | `PersistedNeverRegresses`. Concurrent checkpoints serialised by the exclusive counter lock never move the register back, across two crashes. |
| ino_reuse | `MCInoGeneratorReuse.cfg` | violation | `NoCommittedInoReused`. `next_ino` returns before its checkpoint is durable (driver.rs:927). A crash then makes the restarted generator hand the same number out again, against spec §2. |

Each property of a passing run has a mutant in `PROJECT.json`: an operator defined just before the code definition it replaces, imitating a plausible bug. Examples are a link without `incr_link_count`, the directory threshold of `delete_later` applied to every kind, and a checkpoint without its lock. TLC finds each mutant's property violated.

### Bounds

**`MCDriver.cfg`**
- Two names, two slots, `MaxIno = 3`: the root plus two inodes.
- `MaxConnections = 2`.
- `MaxSize = 2`: the largest directory size a create or rename can start from.
- `MaxNlink = 2`: the most links `link` may add.
- `MaxFaults = 1`: one transport error or ambiguous commit per behaviour. One is enough to reach a failure at every step of every operation and of a deleter. The other Driver runs set it to 0.

These bounds are enough to reach:
- a file with two links and one unlinked;
- a rename over a file or an empty directory, concurrent with a link or unlink of the target;
- a deleter racing a link.

The dangling-entry and serial runs use `MaxIno = 4`, so that a symlink and a directory can both exist before the race.

**`MCDriverLive.cfg`**
- Three slots and two connections, with no symmetry. The pool is saturated: one task always waits in `pool.acquire`, while a task holding a lease may be waiting for locks.
- `MaxIno = 3`, `MaxSize = 1`, `MaxNlink = 1`.
- Workload `PoolRequests` (mkdir, mknod, unlink, rmdir): creates and removes contend for the parent's keys and hand inodes to deleters, which need a lease of their own. Link, lookup and rename would make the liveness check too large to finish.
- About 48K distinct states, in about 75 seconds.

**`MCDriverFaultLeak.cfg`**
- Two slots and two connections, `MaxIno = 3`, `MaxSize = 2`, `MaxNlink = 2`, `MaxFaults = 1`.
- Workload `ReclaimRequests`: every request except lookup and rename.
- `CHECK_DEADLOCK FALSE`: without lookup, an idle filesystem at the bounds may have no request left to send (for example, a root size drifted to `MaxSize` with no entries). Issue is not fair, so stopping is a real behaviour.

**`MCFileData.cfg`**
- Three byte positions, writes and reads of up to two bytes, and two slots.
- This is enough for two overlapping writes, a truncation between a write and a read, a rename overlapping a write, and a file that is truncated and then extended again.
- `MCFileData.cfg` and `MCFileDataRename.cfg` send every request kind (`DataRequests`). `MCFileDataUnderflow.cfg` leaves rename out (`LockedDataRequests`), so that its trace shows the truncation alone.

**`MCDirListing.cfg` and `MCDirListingSkip.cfg`**
- Two names besides `.`, iterated in the order `., a, b`. Any fixed order has the same behaviours, so the order is not varied.
- `Cap = 2`: a page can be full with entries left over, or can end on a single entry. The single-entry page is where an offset that fails to advance would loop forever.
- `MaxChanges = 4`: enough for two creates followed by a remove or a rename while a listing is in progress.
- 236 distinct states.

**`MCInoGenerator.cfg`**
- `MaxIno = 5`, two clients, two crashes.
- This allows several checkpoints in flight, and a crash with some of them uncommitted, twice.
- `CHECK_DEADLOCK FALSE`: once the generator reaches `MaxIno`, an idle file system does nothing more. This is a real stopping point, not an error.

### Fairness

`Driver.tla` defines `FairSpec == Spec /\ Fairness`. For every slot it has:
- **weak fairness of `Commit`**: tokio eventually runs every ready task, so a transaction that has begun commits;
- **strong fairness of `Acquire` and `Begin`**: a waiter can find the connection or lock taken again each time it is released. The pool serves waiters in FIFO order and the backend queues lock requests, so a waiter enabled infinitely often is eventually served.

`Issue` has no fairness, because the kernel need not send anything. The driver_reclaim and driver_fault_leak runs use `FairSpec`. The fault actions are not fair: a transport error need never happen.

`DirListing.tla` defines `FairSpec == Spec /\ WF_vars(ReadDir)`. This is the assumption that the application reads the directory to its end: the kernel keeps sending `readdir` while the stream is open, and tokio runs each call. The commits that change the directory are not fair.

## Not modelled

- **The directory size accounting.** `unlink` decrements the parent size but never writes it (driver.rs:513). `link` writes the parent size back unchanged. A rename within one parent nets +1. The drift comes from sequential calls that a unit test reaches, so no run checks it. The `u64` wrap at driver.rs:395 that can follow is still modelled (`Dec64`).
- **Rename in the serial run.** A run of `Driver` with rename in the workload violates `SerialSpec` through the same lock set (driver.rs:609) that driver_dangling and file_rename_size show. driver_serial leaves rename out so that it checks the other lock sets.
- **Truncated pages.** Truncate keeps the pages past the new size (driver.rs:214), so a file extended again reads old bytes instead of zeros. That case is sequential and a unit test reaches it.
- **rmdir of a non-empty directory.** `Driver::rmdir` removes a directory without checking that it is empty (driver.rs:390), and neither the kernel nor `fs.rs` checks it. The sequence mkdir `/d`, mknod `/d/f`, rmdir `/d` leaves `f` present and unreachable, with nlink 1, so no deleter reclaims it. Three sequential calls show this, so no run is spent on it. `Driver.tla` models rmdir without the check. The same leak through rename over an empty-looking directory (driver.rs:656) is concurrent, but a check of it would find the sequential case first.
- **Rename over a file with several links.** Rename removes the target's entry without decrementing its nlink (driver.rs:685), so the inode outlives its last link. Sequential calls show it.
- **Readdir entry inodes.** `Driver::readdir` reports every entry with the directory's own ino (`ReadDirEntry { ino, .. }`). DirListing models names only, and a single sequential call shows this.
- **The kind recorded by `link`.** `link` records every new entry as `Regular` (driver.rs:771), even for a hard link to a symlink. This shows up in a single sequential call that a unit test reaches, so no run is spent on it.
- **Page layout, mode, owners and times.** The page layout inside `PageWriter` is not modelled, and FileData leaves out mode, owners and times. A file's data is not composed with the namespace (Driver keeps file sizes at 0).
- **getattr, open, release, readlink.** They change nothing. The shared lock of `lookup` (in Driver) and of read (in FileData) stands for their locks.
- **`dispatch.rs` and `op.rs`.** They cannot be modelled faithfully because they are not a working program:
  - `dispatch.rs` calls `driver.configure()` and matches `Error::InoAllocFailed`, and `driver.rs` defines neither.
  - Its `match` handles 6 of the 18 `Op` variants, so it does not compile as a complete dispatcher.
  - The live path is `fs.rs`, which `Driver` and `FileData` model.
  - `op.rs` only declares the message types, with no state or logic.
- **The internals of AntidoteDB, the pool and the codecs**, which are outside `src/`. Their observable semantics (atomic commit, lock conflicts, CRDT updates) are modelled from the spec.

## Plan for later work

1. A crash of the driver process between a commit and its `delete_later` (driver.rs:412), and `Locks = FALSE` runs.
2. Compose `InoGenerator` with `Driver`, and `FileData` with the namespace.
3. Link with `tx.abort` missing (driver.rs:758), once the transaction drop path is specified.
