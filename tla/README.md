# A TLA+ model of omemfs

omemfs keeps a working directory in step with a shared, content-addressed remote: `push` and
`pull` move a tree of immutable objects, `INDEX_ROOT` on the remote is the only mutable file and
is replaced by compare-and-swap, and every clone remembers the tree of its last sync in
`clone_root`. This directory holds TLA+ modules translated from the Rust source (`src/src/...`),
the TLC configurations that check them on small instances and proofs checked by TLAPS.
`PROJECT.json` maps every definition to the source lines it models.

## 1. Inventory

| Component (source) | State | Operations | Hard part | What makes it correct |
|---|---|---|---|---|
| Worker pool (`commands/transfer.rs`) | queue behind a mutex, condvar, visited set, outstanding counter, error slot | `parallel_bfs`, `parallel_walk`, `parallel_map`, `ByteBudget` | threads; counters changed outside the mutex the waiters hold | each object once; complete on success; every thread joined |
| Pack writer (`codec/pack/writer.rs`) | snapshot and CAS token, delta index, pack buffer, Bloom filter | `new`, `exists`, `route`, `flush_pack`, `finish` | interrupted sessions leave bytes behind; other clones commit meanwhile | what is skipped is really published; nothing published is lost |
| Pack reader (`codec/pack/reader.rs`) | index caches, objcache | `locate`, `resolve`, range reads | filter and shard routing | whatever is reachable from the published root resolves |
| `omemfs pack` (`commands/pack.rs`) | a whole new `INDEX_ROOT` | fold deltas, hot/cold split, consolidate, split shards, rebuild filter | rewrites everything while others append | no entry disappears |
| Push (`commands/push.rs`) | working tree, `clone_root`, remote snapshot | full, scoped, backup mirror | scan and snapshot at different times; crash between CAS and `clone_root` | no lost update; publishes only edits |
| Pull (`commands/pull.rs`) | diff, scan observation, helpers | full, scoped, line merge, stubs | the user edits while it downloads; crash half-way | no edit overwritten; conflicts reported |
| Conflicts (`commands/conflict.rs`) | `.omemfs-conflict-*` files and metadata | list, clean, accept-* | three phases, crash between them | recorded before the helpers go |
| Line merge (`line_merge.rs`) | none (pure) | `merge` | region boundaries | symmetric, keeps both sides' lines |
| Tree operations (`tree_ops.rs`) | none (pure over objects) | navigate, splice, remove, flatten | stubs and missing subtrees | agree with the flat view |
| Scan, stat cache (`scan.rs`, `stat_cache.rs`) | cached (mtime, size, hash), seals | scan, lookup, save | racy timestamps | a cached hash is the file's hash |
| Stubs (`stub.rs`, `commands/stub.rs`, `commands/expand.rs`) | stub files | stub, expand, reconcile | a stub edited or removed | no content lost |
| Clone, restore (`commands/clone.rs`, `commands/restore.rs`) | the plan of the command | clone, restore | partial failure, edits meanwhile | all or nothing per path |
| Object cache (`store/objects_dir.rs`) | object files, flat or in subdirectories; `.depth`, `.migrating` | `write_stream`, `find`, migration | threads and processes migrate at once; lookups without a lock beside them; death between two renames | what was written is kept, and found unless a migration overtakes the lookup |
| Local store, repository (`store/*.rs`, `fsguard.rs`, `repo.rs`) | objects, `clone_root`, config | staged write, rename, fsync barrier | power loss between rename and fsync | `clone_root` never names a lost object |
| Lock (`lock.rs`) | `flock` | acquire, release | | one command per clone |
| Objects and codecs (`object.rs`, `codec/*.rs`) | none (pure) | serialise, chunk, compress, seal, read back | tag bytes inside contents, cut points | what is stored reads back |
| Pack format (`codec/pack/*.rs`) | bytes of packs, index files, `INDEX_ROOT`, filter | route, slice, look up | sizes at the thresholds, hash prefixes | every routed object is read back whole |
| Filter (`filter.rs`) | `.omemfs-filter` files | load, load_scoped, test | nested files, partial loading | a scoped load decides as a full one |
| Listing (`commands/ls.rs`), inspection (`commands/stats.rs`, `commands/cat.rs`) | none | compare, download missing trees, rows; classify, look up | trees that are not local | shows each change once, and nothing else |
| Remote setup (`commands/clone.rs`, `base32.rs`) | flags, answers, what the prefix holds | clone, add-backup, connection strings | prompts and keys | the configuration fits what the remote holds |
| Paths and names (`repo.rs`, `object.rs`, `fsguard.rs`) | none | normalize_path, reserved names | links, nested repositories | every spelling of a place means that place |
| Cloud backends (`store/cloud/*.rs`) | | conditional put, listing | I/O | |
| Progress, terminal, log, entry point | | output | | |

How they interact: `push` scans the working tree, walks the object graph with the worker pool and
hands each object to the pack writer, whose `finish` replaces `INDEX_ROOT`. `pull` reads
`INDEX_ROOT` through the pack reader, diffs `clone_root` with the remote tree and writes files.
Both end by writing `clone_root`. `accept-*` resolves what a pull could not. `pack` reorganises
the index. Clones share nothing but the remote; inside a clone the lock admits one command at a
time, and the user's editor does not take the lock.

The hazards (what a test would hardly reach, at which line) are listed in `PROJECT.json` under
`hazards`, with the properties that would notice them going wrong.

## 2. Modules

Protocols (state machines):

| Module | Models | State |
|---|---|---|
| `ParallelBfs` | `parallel_bfs` / `worker_loop` and `parallel_walk` / `child_worker_loop` | every access to shared state is one step; `pc[w]` is the place in the loop |
| `RemoteIndex` | `PackWriter`, `omemfs pack`, `PackReader` lookups, `INDEX_ROOT` | `root`, `packs`, `loose` on the remote; one session per clone |
| `SyncProtocol` | push, pull, accept-*, clean of several clones with editing users and crashes | `remote`; per clone `wt`, `cr` (`clone_root`), `helpers` and the running command |
| `ObjectsDir` | one directory of the local object cache: `write_stream_in`, `start_migration`, `do_migration`, `find_in` and the open after it | `flat`, `sub`, `depth`, `migrating` on disk, a mutex per process; `pc[a]` is the next file system call of thread `a` |
| `StatCache` | `STAT_CACHE` and the per-file stages of a scan, for a push and an `ls` side by side | `ents`, `epoch` in the file, `marker` in `objects/`; per command `mem`, `stat`, `res` |
| `WorkTreeDisk`, `WorkTree`, `WorkTreeSync` | real files, file stubs and directory stubs on disk; clone, stub, expand, pull, push, restore, their steps and their deaths | `disk`, `cr`, `remote`, `repo`, the running command `cmd` |
| `LogicalTree` | what those commands promise: a tree without stubs | `tree`, `base`, `remote`, `doing`, `goal` |
| `Durability` | the order of writes and fsyncs in push, backup push, pull, stub, expand and pack uploads, under kills and power loss | per disk what programs see and what a power loss may leave |

Algorithms (operators, evaluated by `MCAlgorithms`):

| Module | Models |
|---|---|
| `TreeOps` | tree objects, navigate, splice, remove, flatten, and their errors (`tree_ops.rs`) |
| `Listing` | `ls`: the scan of requested paths, the comparison with `clone_root`, downloads of missing trees, the remote column, the rows |
| `Filter` | filter files, sections, last match wins, scoped loading |
| `LineMerge` | the three-way merge of logical lines, over every alignment the differ may choose |
| `ObjectCodec` | type tags and escapes, chunked and streamed storing, framing, the cached-blob test |
| `PackFormat`, `Inspect` | routing by size, packs, index files, `INDEX_ROOT`, the filter's bits, lookup and slices; what `stats --remote` and `cat` make of the result |
| `RemoteSetup` | flags, prompts, URLs, connection strings, base32, the state check of a new remote |
| `PathNames` | paths on the command line, reserved and well-formed names |

`MCParallelBfs`, `MCRemoteIndex`, `MCSyncProtocol`, `MCObjectsDir`, `MCStatCache`, `MCWorkTree`,
`MCDurability` and `MCAlgorithms` are the instances for TLC; `ParallelBfs_proofs`, `RemoteIndex_proofs`,
`SyncProtocol_proofs`, `ObjectsDir_proofs`, `StatCache_proofs`, `WorkTree_proofs` and `WorkTreeRefinement_proofs`
(both about `WorkTreeSync`) and `Durability_proofs` hold the proofs.
The operators that begin with the comment `Mutant:` are not part of the model: each is a plausible
mistake in one definition, kept to show that the properties notice it.

**Correspondence.** *ParallelBfs*: `Lock` ... `Wait` are the critical section of the loop
(`transfer.rs` 356-376), `Claim` the visited set, `Process*` the outcome of `node_fn`, `Account`,
`Publish`, `Announce` the three statements that add children, `Finish`/`FinishSignal` the two halves
of `decrement_outstanding`, `RecordError` and the actions after it the error path. `cv.wait`
releases and parks in one step; spurious wakeups are allowed up to a bound.
*RemoteIndex*: files stored under their own hash are represented by their content, so an index file
is a function from hashes to locations, a pack a set of hashes, a filter the set inserted into it.
`PushBegin` is `PackWriter::new`, `UploadSkip`/`Route*` the visit of one object by the upload walk
(`exists`, `route`, `flush_pack`), `FinishPrepare` and `Commit` the two halves of `finish`, `Abandon`
any death of the process. `PackPrepare` is the body of `pack` up to its compare-and-swap; which
hashes its walk of the local trees meets is left open (any set), because that depends on caches.
`ever` and `misfiled` are history.
*SyncProtocol*: a tree is a function from paths to contents, so comparing trees is comparing root
hashes. `touched` stands for a changed (mtime, size); `known`, `mine` and `partial` are history.
A file has independent regions (`Hunks`), which is what `line_merge::merge` tells apart.
`PushCommit` stands for the whole upload and compare-and-swap that `RemoteIndex` models in detail.
*ObjectsDir*: one action per file system call that another thread can observe. `process` says which
threads share a `migration_lock`; `Init` leaves it open, so a run covers threads of one process and of
several. A temporary file begins with a dot, which migration and counting skip, so only its
rename (`Persist`) is a step. A lookup takes no lock: `Find`, `FindMarker`, `FindFlat` and `FindSub` are the calls of `find_in`,
`OpenRead` the open of the path it found. The subdirectories stay flat: each is a directory of the same kind.
`written`, `late`, `due` (the lookup's object had been written when it began) and `crossed` (a migration overtook
it in one of its windows) are history. `Fail` is a kill or an I/O error at any call.
*StatCache*: `PushLoad` is the load of the cache with `compute_seals_trusted`, `List` the listing with
its timestamps, `TakeCached`, `TakeBase`, `ReadFile` and `Unstable` the outcomes of `process_file_job`
for one file, `Finalize` and `WriteCache` the writeback of a push, `Reread` and `MergeBack` the two
halves of `write_readonly_merge`, `Upload` and `Recover` what follows of a push. Steps that touch only
memory of their own process are joined with the next one that does not. All contents have the same size, so
only timestamps tell versions apart, and timestamps are rounded down to `Granularity`. A read of a
file is one step; a blob is one object. A push of several paths scans them in one go here, the code
one after the other. `misled`, `reverted`, `unguarded` and `retries` are history.
*WorkTree*: the tree is one path `P` that is absent, a file, a symlink or a directory of `Names`, which
is what the branches on kinds, stubs and directory stubs tell apart. A step is one rename, unlink or
write on one path; `cmd` holds the plan of the command (diff, expansion list, restore actions) and the
rest of it. `dirty` marks paths edited since they were in sync, `torn` a death half-way between two roots, and
`lost` the ways in which the code destroys a user's file (below); all three are history. `EditsSurvive`
excepts a step only when it is of the way named for its own part of the command (`Way`). The user
does not edit a path between its last check and its rename.
*LogicalTree* is abstract: a pull moves unedited paths one by one from `clone_root` to the remote root, a
push publishes what it scanned, a restore goes back to `clone_root`, and stub, expand and deaths do nothing.
`WorkTreeSync` maps `disk` to the tree a scan reads (`StubsAreInvisible` is `LogicalTree`'s
specification under that mapping). Where the code breaks its promise the abstract tree says so: a command may
destroy a file (`Destroy`), after which nothing is promised (`Undefined`), and in a torn tree it may
uncover what an old marker records (`Uncover`) until a later command has brought every path to one root again.
*Durability*: a variable of a disk is a pair: what programs see and the set of states a power loss may leave. A rename
adds to the set; fsync and syncfs (`sync_local_objects_fs`, the barrier before `clone_root`) collapse it.
A directory is taken as one unit, a content as one object. `entries` are the entries of `STAT_CACHE` in memory.
A push with nothing to publish still copies the root to the backup (`maybe_backup_push_on_no_op`).
What `RootsReadable` says of `clone_root` (its objects are at the remote) it says for up to two faults: after three
a clone can have pulled a root whose last object the remote's power loss takes away (the comment of the property tells how). `PushesOnlyEdits` and `RevertsNothing`
compare each published tree with what the user did.
*The algorithms* keep the code's recursion. Trees are nested functions and equal exactly when their hashes are.
Bytes are symbols where tags matter (`ObjectCodec`) and chunks with lengths where offsets do (`PackFormat`).
`Listing` gives each row its letters and its last column (conflict, ignored, reserved, deferred); the properties
read the letters only, on inputs without stubs, conflicts or reserved names.
External: the differ, zstd, the cipher, the rolling hash that finds cut points (any cut is tried).

## 3. Runs

| Run | Expect | Shows |
|---|---|---|
| `bfs` | pass | three threads in either loop (`parallel_bfs`, `parallel_walk`), shared and repeated children, pruning, a spurious wakeup, a node that may fail: each object once, the counter exact, nobody leaves early, the work is finished or failed, and `parallel_bfs` without a failure joins all its threads |
| `walk_hang` | violation | `child_worker_loop` can miss the last notification even without errors |
| `remote_index` | pass | two clones, every size class, packs flushed and not, shard splits, lost CAS, death at any step |
| `sync` | pass | two clones, a line-merged file with two regions and another file, two edits, one crash: no lost update, nothing undone, no edit overwritten, resolutions recorded first |
| `merge_overwrites` | violation | a merge result is written over a newer edit |
| `objects_dir` | pass | two threads of one or two processes, one failure anywhere: no copy lost, a lookup misses a written object only in the two windows where a migration can overtake it (or if the object came too late), every call returns |
| `stat_cache` | pass | a full or scoped push beside an `ls`, with an edit, a tick and a loss anywhere: hits are true, seals are honest, one failed push suffices |
| `worktree` | pass | clone, stub, expand, pull, push, restore with two edits, one foreign publication and deaths anywhere: the commands implement `LogicalTree`, an idle unedited tree equals `clone_root`, edits survive, a restore is exact |
| `expand_overwrites` | violation | expand puts a stub's content over a real file beside it |
| `durability` | pass | one kill and one power loss anywhere: trusted seals have durable objects, roots are readable at the remote and at its backup, a push publishes only what the user changed |
| `stub_reverts` | violation | a pull killed after `clone_root` leaves old directory stubs, and the next push publishes the old content |
| `algorithms` | pass | every input of the sets in `MCAlgorithms`: twelve properties, each comparing an algorithm with a reference (a flat view, a full load, a full listing, the original bytes) |

**Bounds and why they are enough.** Three threads are the least with a notifier, a late waiter and
a parked thread; the graph has a node with two parents, a repeated child, and two roots. Two
clones suffice for every race on `INDEX_ROOT`, since it has one word of state; four commits cover
push, pack with a split, push, pack. `PackTarget = 2` makes both a full and a last partial pack
happen, `ShardLimit = 0` makes shards split, `MaxDeltas = 2` makes the delta list overflow (the third
tree, `x`, is there so that a third push has something to add). Two
contents and absence are what the comparisons tell apart; two edits give the two sides of a
conflict, a third one (`merge_overwrites`) the edit made meanwhile. `ObjectsDir` has two threads, three objects and
`Threshold = 1`: one object is there before the migration, one starts it and one arrives during it.
One failure leaves a migration to be resumed. The names of the processes do not matter, so `MCSpec` gives the first thread one of them. `StatCache` has two files, so that a scope leaves one out and
a sample misses one, two contents, two pushes (the one that fails and its retry), one `ls`, one edit,
one loss and one tick; with `Granularity = Racy = 1` the edit falls into the tick of a read or after it.
`Init` also offers a repository whose first push stopped before its upload, which a run from the empty
one would need a third push to reach. `WorkTree` has a path that takes every kind and one file in it, one content
below the stub threshold and one that reaches it, so every pair of a remote change and a marker on disk
occurs; the second edit is the one made while a command runs. Deaths are not bounded there. Another clone publishes only while no
command, or one that reads the remote root, is running; with the others a publication commutes.
States in which the code has already destroyed a user's file are not continued
(`CONSTRAINT NothingLost`): `LogicalTree` promises nothing after that, and the proof needs no such bound. `Durability` needs two edits (one on each
side), one kill (the half-done command) and one power loss; a file and a directory, because only
directories are skipped by a pull when stubbed. `MCAlgorithms` states its input sets beside each `Init...`: trees of two
names and three levels, filter files of two lines over two nested ones, merges of a base of two lines with sides of three and two,
contents of three bytes drawn from the tag bytes with every cut, object sizes one below and at each threshold.
`CHECK_DEADLOCK FALSE` appears where the bounds let everything come to rest (all edits or commits
spent, an algorithm evaluated) and, in `ParallelBfs`, where the pool may really hang.

**Fairness.** `ParallelBfs` and `ObjectsDir` have liveness properties. Each thread is weakly fair
(the operating system runs every runnable thread). There is no fairness on spurious wakeups, on
failures, or on the beginning of a write. Weak fairness suffices for the mutexes: in `ParallelBfs` the
search is finite, so contention ends; in `ObjectsDir` a directory is migrated a bounded number of times,
after which nobody takes the mutex.

## 4. Proofs

For every value of the constants (any clones, files, contents, graphs and bounds):

* `SyncProtocol_proofs`: `TypeCorrect`, `PushLosesNothing` (`NoLostUpdate`), `PushPublishesEdits`
  (`PushOnlyEdits`), `PullOverwritesNoEdit` (`PullKeepsEdits`), `AcceptRecordsFirst`
  (`ResolutionRecorded`). The four action properties are not about one step: they need
  `KnownInv` (everything a clone holds it has had or been shown), `DriftInv` (a working file that
  differs from `clone_root` was edited or written by an interrupted pull), `PushInv` and `PullInv`
  (what the scan saw is still true, or the path is marked as edited) and `AcceptInv` (the phases of
  accept-*). Each group of actions keeps the invariant of its own clone and frames the others.
* `RemoteIndex_proofs`: `TypeCorrect`, `FilterCovers` (`BloomCoversIndex`), `PublishedResolves`
  (`PublishedStaysResolvable`), `ReachableResolves` (`ReachableResolvable`). `ReachableResolvable` is
  not inductive; the invariant adds that what was ever published is closed under references
  (`RootInv`), that a snapshot is an older published root (`SnapInv`), that below everything a
  session wrote the rest is queued (`PushInv`) and that a finished draft keeps its snapshot's entries
  (`CommitInv`). The pack run is a chain of lemmas on its helpers (`Merged`, `Consolidation`,
  `ColdApplied`, `ShardSplit`, `PackRun`).

* `ParallelBfs_proofs`: `TypeCorrect`, `ClaimedOnce` (`ExactlyOnce`), `CountIsExact` (`OutstandingCounts`),
  `NoEarlyExit` (`ExitMeansComplete`), for any graph, any number of threads and either loop. The counter is changed
  outside the mutex, so `CountInv` says that it is never below what is queued, in flight or accounted and not yet
  published, and equal to it where nothing failed. That no thread leaves early then needs that nothing is forgotten
  meanwhile: `WorkInv` follows every root and every child to the queue, to the thread that is going to claim it or to
  `visited`, `ClaimInv` keeps a claimed hash with one thread, and `ExitInv` says that the first exit found the queue
  empty and nothing in flight.

* `ObjectsDir_proofs`: `TypeCorrect`, `NoCopyLost` (`NothingVanishes`), `ReadersMissOnlyMoves`
  (`FoundUnlessMoved`), for any number of threads, processes and objects. `NothingVanishes` alone is
  not inductive: a thread about to remove a flat copy relies on a check it made earlier, so `ListInv`
  keeps the moved copy in `sub` while a thread is at `remove`, and says that what a migration has not moved
  is on its list or late. `FoundUnlessMoved` also needs that files reach a subdirectory only under the
  marker or at depth 1 (`BegunInv`), and for each call of a lookup what it may still rely on from the calls before
  (`ReadInv`): no depth 1 yet, the flat file, or the file in the subdirectory. `ObjInv` says which threads have an object to write or find.

* `StatCache_proofs`: `TypeCorrect`, `CachedHashIsTrue` (`ReadHitIsTrue`), `SealsCanBeTrusted`
  (`SealsHonest`), `NoSecondFailure` (`RetrySucceeds`), for any granularity not above the racy window. `ReadHitIsTrue` speaks of the file
  `STAT_CACHE`; the invariant `SafeInv` says the same of every copy in memory and of results not yet
  applied, and adds that a safe entry is older than the racy window, which is why the stamp of a later
  edit (`Stamp`) cannot be the entry's. `SealsHonest` needs that epochs are drawn once (`EpochInv`), that a
  push has every blob it seals (`PushInv`) and that the copy an `ls` writes back is honest under the epoch
  it read with it (`ListInv`). `RetrySucceeds` needs more than honest seals, since they are honest only under a matching
  epoch: after a failed upload everything a push may still trust, in the file, in its memory or among its results, is there
  (`RetryInv`, `Held`), unless an `ls` put the cleared seals back (`reverted`).

* `WorkTree_proofs`: `TypeCorrect`, `UserFilesSurvive` (`EditsSurvive`), `RestoreExact` (`RestoreIsExact`), for any names
  and contents and any number of edits, publications and deaths. `EditsSurvive` is about a file at the moment it is replaced, but what a
  command checked it checked earlier: the invariant says for each command what it still knows at each of its places.
  `StubInv`: what a stub is about to delete is still what `clone_root` has, or the edit will be noticed. `ExpandInv`,
  `CloneInv`: only what the markers or the remote root record is written. `PullInv`: there was no conflict, so at a path to
  be changed the scan saw the clone root's file or already the remote's, and a file not touched since is that one or the goal's. `RestoreInv`:
  the rest of a restore is part of its plan. `PlaceInv` says which places belong to which command. `RestoreIsExact` speaks
  of the end; `ExactInv` says that before it the whole plan is ahead on the tree it was made for, or the directory is being filled:
  each name has at most one action, it still looks as planned while that is due and has `clone_root`'s content after.

* `Durability_proofs`: `TypeCorrect`, `SealsStored` (`SealsAreStored`), `RootsStayReadable` (`RootsReadable`), `OnlyEditsPushed`
  (`PushesOnlyEdits`), for any number of kills and power losses, with the exception for `clone_root` named above. The statements
  about what programs see are not inductive: a power loss replaces it by any state the disk may hold. So the invariant speaks of all of
  these: each of them has what its seals vouch for (`SealInv`), what its `INDEX_ROOT` lists (`RemoteInv`) and the same
  `clone_root` (`RootInv`), whose objects are at the remote up to the faults named (`OriginInv`); and each agrees with its
  `clone_root` on every path that nobody edited and no command has begun (`StepInv`; `WorkInv` for the command under way).
  `RootsStayReadable` assumes that a file is not torn (`Torn = FALSE`, `WholeInv`), which is necessary (section 5).

* `WorkTreeRefinement_proofs`: `StubsInvisible` (`StubsAreInvisible`: `WorkTreeSync` implements `LogicalTree`), `LogicalClean`,
  `CleanTree` (`CleanTreeIsSynced`), for any names, contents and thresholds and any number of edits, publications and deaths. A step on
  a marker is invisible only if the marker stands for the file that a scan should see, so the invariant `RInv` says of every
  marker which root it stands for: `clone_root` while the tree rests (`Follows`), one of the two roots it moves between while a pull or a
  push runs (`Between`). `RestC`, `StubC`, `ExpandC`, `CloneC`, `PushC`, `PullC` and `RecC` say how far each command has come at the
  paths nobody edited: which of them show the old root's file, which the new one's, and which are still to come on a list
  of the command. All this is lost when a command dies half-way, so it is claimed only where nothing is torn or lost (`Calm`); three parts
  hold always: `FromInv` (a push or pull works from `clone_root`), `RecInv` and `BlobInv` (what a reconciliation of stubs
  has settled), and they are why a push or pull that completes its reconciliation heals a torn tree. Each action has a lemma that maps
  its step and keeps the invariant together (`StubGood` ... `SyncEndGood`, gathered in `StepGood`), over lemmas on what each write
  on disk does to a scan (`PutRealScan` ... `PutLinkScan`). A step that destroys a file is `Destroy`, one in a torn tree `Uncover` or
  `Abandon`. `CleanTree` follows from `StubsInvisible` with `LogicalClean`, which is not inductive either: a restore writes paths nobody
  edited, and only the fact that its goal is `clone_root` keeps them in step (`CleanInv`).

The assumptions are the named `ASSUME`s of the modules; in `StatCache` the one that matters is
`Granularity <= Racy` (the code takes 3 seconds for FAT's 2). Only model-checked:

* the liveness of `ParallelBfs` and of `ObjectsDir`: this prover does not handle fairness;
* the properties of `MCAlgorithms`: the algorithms recurse over trees, lines and bytes, and what a recursive definition computes
  for every input needs an induction over data that is out of this prover's reach;
* the violation runs.

## 5. What the code does otherwise than its documents say

Four runs show a violation; `PROJECT.json` quotes the sentence each one contradicts. `walk_hang`
is about threads that wait for ever, `merge_overwrites` and `expand_overwrites` about an edit that is lost,
`stub_reverts` about other people's changes undone.

Five more statements do not hold and are kept as definitions. Checked in place of the properties of the
cfg named here, each gives a counterexample:

| Statement | Module, cfg | What happens |
|---|---|---|
| `Terminates` with a node that may fail | `ParallelBfs`, `bfs.cfg` with `Loops = {"worker_loop"}` | a thread misses `record_error`'s notification and parks for ever (`transfer.rs` 272) |
| `MigrationIsInvisible` | `ObjectsDir`, `objects_dir.cfg` | a lookup reads depth 0, the migration ends and its marker goes, or the file is moved before the probe or the open: a stored object is reported absent (`objects_dir.rs` 82; `chunk.rs` 497-514 accepts it) |
| `WrittenIsFound` | `ObjectsDir`, `objects_dir.cfg` | an object put in the flat directory after a migration has listed it is never found again (`objects_dir.rs` 160) |
| `HitIsTrue` | `StatCache`, `stat_cache.cfg` | the clone root's hash, taken inside the racy window, is accepted after it and cached as safe (`scan.rs` 1660) |
| `AlwaysResolvable` | `RemoteIndex`, `remote_index.cfg` | a pack run after a shard split files entries where no lookup finds them (`pack.rs` 640) |

The passing properties carry exactly these exceptions, as history variables, so that they still guard everything else:
`late` and `crossed` in `FoundUnlessMoved`, `misled` in `ReadHitIsTrue`, `misfiled` in `ReachableResolvable` and
`PublishedStaysResolvable`, `reverted` in `RetrySucceeds`, `lost` and `torn` in the properties of `WorkTreeSync`.

Further disagreements met while modelling, without a run.

Sync and conflicts:

* `design/09` (77-78) says a push is refused while conflicts are open; one scoped to the conflicting file itself is not.
* `design/03` (634-635) says helpers are written when a pull stops because a file changed underneath it; it leaves none.
* `design/11` (202) says a pull can be repeated after a crash; it can then report a path nobody edited as a conflict.
* `design/04` (1908) says accept-local adopts "the local working tree version"; it writes the copy saved when the
  conflict was detected over later edits.
* `design/07` (669-670) says a stale SEALED bit is guarded by the epoch; an `ls` that replaces the file after a push
  cleared the seals without rotating puts them back under the same epoch.

Working tree and stubs:

* When a pull replaces a directory stub by a file stub or a symlink, `remove_dir_all` (`pull.rs` 2128-2133,
  2150-2154) takes the user's untracked files in it along, against `design/08` (192-197).
* `clone --force` puts a symlink over an existing path (`clone.rs` 1275), against `design/04` (136).
* `stub` compares the hash and not the mode (`stub.rs` 333-345), against `design/08` (308-311).
* A remote file replacing a directory that holds only child stubs cannot be renamed over it, and a directory
  replacing a file by an empty one fails in `diff_trees`: the pull fails every time.
* `restore <path>` of an untracked dangling symlink or non-empty directory does nothing (`restore.rs` 657); with a real
  file beside a stub it updates only the stub.
* After a partial expansion a pull leaves the real children at their old content, which then count as local edits.

Durability:

* Objects are renamed without fsync of their data. With `Torn = TRUE` (a file system that may make the rename durable
  first) `RootsReadable` does not hold in `Durability`.
* expand unlinks the stub after writing content that is not synced; after a power loss the path may be gone.
* A backup push of a `clone_root` whose objects are not all local fails every time and clears the seals.

Listing, inspection, setup:

* A name that changes its kind gets neither letter in `ls` (`design/04`, 792), a requested path that is new gets an extra
  row (`ls.rs` 717-757, against 812), and a subtree of `clone_root` that is not local counts as empty in the remote column.
* `cat` looks for `ED E0` where packs begin with `ED E1` (`cat.rs` 387), and its alias for the remote root reads the raw
  store (`cat.rs` 148), which misses a packed or inlined tree (`design/04`, 1053).
* A listing that fails counts as an empty prefix (`store/cloud/mod.rs` 494), and the interactive prompt refuses
  `gs://` and `azure://` URLs that the command line accepts.
* Nested filter files cannot re-include what an outer one ignores, and a pattern with an inner `/` is not anchored
  (`filter.rs` 459).
* In a line merge a last record ending in a backslash is fused with the record that follows it.

Hazards of the code that no property covers, because the promise fails or the model leaves the data out:

* A filter missing from the remote makes a push start with an empty one and publish it (`writer.rs` 607; `PackFormat` has the step).
* `ls` hashes a file as it is now under the timestamp of the listing; a pull or restore that sets this old timestamp again
  meets a safe entry for another content (`scan.rs` 1466).
* The sampling budget of the seals can be spent on one large manifest (`stat_cache.rs` 508).
* An edit that keeps mtime and size is invisible to the check before a write (`pull.rs` 1478).
* Decompression stops at 64 MiB, and nothing bounds a tree object (`codec/compress.rs` 165).
* An index file that `stats` cannot read makes live packs count as orphans (`stats.rs` 137).
* The check that a prefix is empty and the first push are far apart, and two encrypted clones choose different keys (`clone.rs` 385).
* `RemoteObjectsDir::write_stream` returns early for a file that may not be synced yet, and does not sync the parents of new
  shard directories (`remote_objects_dir.rs` 52); `Durability` takes the remote's file system to be journalled.

## 6. Not modelled, and the plan

Not modelled: progress, terminal and log output, argument parsing, columns, colours, JSON and histograms; requests, credentials
and paging of the cloud backends; zstd, AES-GCM, the rolling hash of the chunker, the sizing of the Bloom filter (floating
point). In `SyncProtocol` the check and the write of one path are one step: the window between them is accepted
by `design/03_sync_model.md`. The locks inside one `PackWriter` (pack buffer, pending set, delta, filter) are taken one at a time
around short sections; `RemoteIndex` has one actor per session. `StatCache` has no timestamps that go back (pull and
restore set them) and no chunked blobs.

Every invariant and action property of the interacting parts is now proved as well as checked. What stays with TLC is the liveness of
`ParallelBfs` and `ObjectsDir` and the algorithms of `MCAlgorithms`, for the reasons given in section 4. A change of
the code is best carried into the module first, then run, and only then into its proofs: a step that no longer maps or an invariant that
is no longer kept fails at the lemma named after the action.
