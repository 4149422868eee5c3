# A TLA+ model of streaming-diskann

streaming-diskann is a graph index for approximate nearest-neighbor search: a
core crate with the index and an in-memory storage backend, a crate with a
durable file backend, and a Node.js binding over both. This directory holds
TLA+ models of it, the TLC configurations that check them on small instances,
and TLAPS proofs. Paths below are relative to the repository; `PROJECT.json`
maps every definition to the lines it was translated from, and lists for each
run its properties, for each property a mutant that breaks it, and the hazards
the properties are for.

## The system

| Component | State | Operations | What makes it correct | Modules |
| --- | --- | --- | --- | --- |
| In-memory backend (`src/storage.rs`, `MemoryStorage`) | manifest, segments, frozen hot deltas, one mutable draft, epoch and reference counters, all under one mutex | append, rewrite, tombstone, start nodes, freeze, insert segment, compare-and-publish, load, reads | published references resolve; a pinned snapshot never changes, and is only lost once superseded | `MemoryStorage`, `SnapshotStore` |
| Online index (`src/index.rs`) | node-id allocator, quantizer cache; everything else lives in storage | insert, delete, bulk build, search, replay, open | an acknowledged row is visible until deleted, a deleted one never again; ids are not reused; start nodes are live | `OnlineIndex` |
| Mutation log (`src/storage.rs`), its durable form (`streaming-diskann-file`) | entries, checkpoint, first retained offset; `wal/LOG`, `wal/STATE.json` | append, replay, checkpoint, truncate, load | replay from any offset that is not refused is complete; acknowledged appends survive | `MutationLog`, `FileMutationLog`, `LogEntries` |
| Mutation replay (`src/index.rs`) | the index replayed into | replay | a standby ends with what the log says | `IndexReplay` |
| Routing cache (`CachedNodeReader`) | entries by snapshot and node, insertion order | batched read, insertion, eviction | answers are those of the reader it wraps; bounds hold | `RecordCache` |
| Graph construction | the partial graph of a bulk build | one pass per row, pruning, reverse edges, chain edges | degree bound; every row reachable | `VamanaGraph`, `LabelSets`, `Quantizer` |
| Graph search, quantizer store and cache | queue, seen nodes, parked records, memory account; stored models, one cached model | one walk; store, load | hits are those of a scan; queries are encoded as the rows were; memory is accounted | `GraphSearch` |
| File backend (`streaming-diskann-file`) | files for manifest, segments, deltas, quantizers, log; the same state in memory | the traits, create, open, destroy | a crash between any two steps leaves a directory that opens to what was published | `FileStorage` |
| Node binding (`streaming-diskann-node`) | registry of named indexes, lock files, handles, writer mutex, map from external to node ids | create, open, close, destroy, asynchronous tasks | one live handle per index; the map follows the index; errors classified; promises settle | `NodeBinding` |

The index drives the storage only through the storage traits, one call at a
time, and takes no lock of its own around a mutation. An insert allocates an
id, appends to the log, loads a snapshot and searches it for neighbors, stages
the record, the neighbors' rewritten links and perhaps new start nodes in the
draft, freezes the draft into a hot delta and swaps the manifest from the
version it loaded. A delete plans the repair of the start nodes, stages a
tombstone and publishes in the same way. A bulk build stores an immutable
segment and swaps in a manifest that refers to nothing else. Readers hold a
manifest snapshot and resolve every node through it while writers go on. The
binding runs these calls as tasks on the threads of libuv, with one mutex
around the writes of a handle.

What is hard here: writers that share the one draft; reads through a snapshot
while its delta is being collected; freezing and publishing being two steps;
mutations that fail half way and leave staged data; the allocator and the
high-water mark across reopens; start-node repair over a truncated walk;
replaying what was published already; caches shared by searches over different
snapshots; crashes between durable steps and file operations that fail after
part of their effect; handles, tasks and directories that outlive each other.

## Modules

**`SnapshotStore`** is the abstract promise of a backend: current contents
that writers replace atomically, and pinned views that never change but may be
dropped once a later publish superseded them.

**`MemoryStorage`** models the in-memory backend. Every trait method runs under
one mutex, so every method is one action. A record is a row (vectors, labels,
external id: one model value) and a set of links; order inside a neighbor list
is left out, the storage never looks at it. The full vector of a record is
optional; the rows in `Bare` have none. References are the integers the code
hands out, 0 for `None`. `ReadNode` and `ReadFullVector` translate the two
resolution functions separately; that they resolve the same record is a
property: routing may show a record that has no full vector, and only then does
the other read find nothing. A read is an operator, not an action: what a reader sees depends only on its pinned
snapshot and the state. `StorageSpec` drives it with the most general client:
any call, in any order, with any replacement manifest made from references and
epochs handed out. In the code, frozen deltas share records with the draft
through `Arc`, and copy-on-write (`rewrite_neighbors`) keeps them apart. Values
of TLA+ cannot alias, so the model has that separation for free and no property
would notice its loss.

**`OnlineIndex`** extends `MemoryStorage` with the index: `op[w]` is the
mutation a writer thread is in and the snapshot and plan it carries from one
storage call to the next, `nextId` the allocator. The actions follow
`apply_insert` (`InsertBegin`, `InsertPlan`, `InsertAppend`, one `InsertLink`
per neighbor, `InsertStarts`), `apply_delete` (`DeleteBegin`,
`DeleteTombstone`, `DeleteStarts`), `publish_hot_delta_over` (`Freeze`,
`Publish`), `bulk_build` (`BulkStore`, `BulkLoad`, `BulkSwap`, `BulkReset`)
and `from_storage` (`Reopen`). `Fail` is the error path: a refused publish, an
expired snapshot, an invalid record, or any failing storage call; what was
staged stays. `owed` and `gone` are history variables, the rows acknowledged to
clients and the ids whose delete was acknowledged. A row is withdrawn from
`owed` when its delete is issued, since from then on either answer is right.

Distances are abstracted to choice here: a search that wants k neighbors
returns any k of the rows it can reach, pruning to k keeps any k candidates.
Each choice is realized by some placement of the vectors for one step; not
every sequence of choices need be realized by one placement, so the passing
runs cover more than the code can do. The search of an insert is taken to reach
everything connected to the start nodes, as it does when the graph is no larger
than `build_search_list_size`. Reads of a whole search are taken at one
instant, which is sound because a snapshot's view is constant while it resolves
(`ImplementsSnapshotStore`). `max_visited` of the start-node repair is a
constant, 2 in the runs, so that small graphs truncate the walk; it is assumed
to be no smaller than the number of start nodes. The cap on queued candidates,
with the same effect, is not modelled apart.

**`MutationLog`** models the log of the in-memory backend: one action per
method, and a history variable with the mutation appended at each offset.
`replay_from` copies the entries under the mutex before it calls back, so it is
an operator. The module is also the abstract specification of the durable log.
`LogEntries` holds the operators the two logs share.

**`IndexReplay`** composes that log with two indexes: a primary, whose
mutations are logged (`LogInsert`, `LogDelete`), staged and published in three
steps with a failure or a restart in between, and a standby that
`replay_mutations_from` brings up to date (`BeginReplay`, `ApplyEntry`,
`EndReplay`), and that may fail before or after staging an entry (`FailReplay`)
and be replayed again from the offset it started from, since the caller does
not learn how far a failed replay got. An index is its rows, its draft, its
allocator and its high-water mark. Both live in directories of the file backend,
the one that can be restarted or copied: opening a directory (`Restart` of the
primary, `ReopenStandby`, a `Copy`) shows the rows of the manifest and starts an
empty draft (`Reopened`), and a publish replaces the manifest's delta by a freeze
of that draft over the bulk build (`Published`), so that rows only an earlier
delta had are no longer shown. An index opened again over the same in-memory
storage, whose draft lives on, is in `OnlineIndex`. A bulk build is not logged,
so a standby starts from the same build (`Rebuild`) or from a copy of the
primary's directory taken at rest (`Copy`). Replaying an insert whose row is already visible can be
refused: the search for neighbors may find the row itself, and `validate`
rejects a record that links to itself.

**`FileMutationLog`** models the log of the file backend. `files` are the
inodes that are or were `wal/LOG`, `name` the one the directory entry names,
`durableName` the one it would name after a crash of the machine, and `state`,
`durableState` likewise for `wal/STATE.json`; `wal` is `WalState`, with the
inode its append handle writes to. Each call is split at its file operations:
`append_mutation` is `AppendWrite`, `AppendSync`; `checkpoint` is `Checkpoint`
(the rename of the state), `CheckpointSync` (the fsync of the directory);
`truncate_before_checkpoint` is `Truncate`, `TruncateSync`, `Compact` (the new
log is written, synced and renamed), `CompactReopen`. Writing and syncing a
temporary file is part of the rename that follows it: until then nothing can
see it. An fsync that succeeds is taken to make everything written to its file
before durable, also when an earlier fsync of that file failed; on systems that
drop dirty pages after a failed fsync that is more than they promise, and the
log relies on it, since it goes on appending behind such a frame. `Fail` is an operation that returns an error, `AppendTorn` a write that
fails half way; the constant `Faults` says which may, and `faults` remembers
which did. `Exit` ends the process and leaves the files, which is a fault too
where something is not synced; `Crash` ends the machine and keeps what was
synced and any part of the rest; `WriteBack` is the system making a rename
durable by itself. `Open` is `load_wal`. A mutation is a model value; its frame
is intact or torn.

**`FileStorage`** models the rest of the directory. `disk` is what the names
mean now, `durable` what they meant when their directory was last synced, `mem`
the `FileState` of the open storage. Every write goes through `write_atomic`:
`Write` (the temporary file, written and synced), `Rename`, then the fsync of
the directory together with the update of memory (`FinishFile`,
`FinishPublish`, `CreateNext`, `FinishCreate`). `Fail` stops a call at any of
these, `Kill` the process, `Crash` the machine: each name then keeps its old or
its new meaning, independently. `Create` writes the three first files, manifest
last; `Open` is `load`, with the numbers and epochs it resumes from; `Destroy`
and `Remove` unlink file after file and may stop anywhere. The manifest carries
as history what it showed when it was written. The log's contents are in
`FileMutationLog`, two storages over one directory in `NodeBinding`.

**`NodeBinding`** models the process: calls on the JavaScript thread
(`CallOnUri`, `CallOnHandle`, `CallSearchPinned`, `TakeSnapshot`, `Close`),
tasks that `PoolSize` threads take in order (`Start`), the steps of each
`compute`, and the settling of promises (`Settle`). One URI is modelled, of
one of three providers: anonymous, a name in the registry, a directory. The
factories and `destroy` follow the code between the points at which others can
interfere: for a directory, the probe for the manifest, opening `LOCK`, the
`flock`, the load; for a destroy the unlinking of the files and of the
directory. Write tasks take the writer lock, check the id map, stage, freeze,
publish and update the map; while they wait for the lock they keep their
thread. Searches load a snapshot and read through it later. The index under a
handle is reduced to manifest, draft and deltas. `muddled` marks the stores a
known hazard has touched, `orphaned` says that `LOCK` was unlinked between
another task's open and its flock; both are history, for the properties that
except these cases by name.

**`LabelSets`**, **`Quantizer`**, **`VamanaGraph`** are the algorithms as
operators. `VamanaGraph` is exact: `Wired` is `assign_bulk_neighbors` with its
greedy search of the partial graph, alpha-pruning round by round, reverse edges
with slack, re-pruning and chain edges; ties are broken as the code does.
Vectors are sequences of integers, means and deviations are compared by
cross-multiplication: so the model is exact where the code rounds.

**`RecordCache`** models `read_nodes` of `CachedNodeReader`: the lookup under
the mutex (`StartRead`), the fetch without it, and the insertions under it again
one by one, with eviction (`Inserted`). **`GraphSearch`** composes it with
`VamanaGraph`: bulk builds and deletes publish snapshots and quantizers,
searches run `search_with_snapshot` on any of them: `Begin`, `Encode` (with the
one-entry quantizer cache of the index), `ReadChunk` and `TakeChunk`, `Visit`,
`Rescore`, and every budget check on the way. A search fails where the code
does. Memory is counted in record sizes, one unit for every other entry.

**`MC...`** modules instantiate these for TLC. **`MemoryStorageProofs`**,
**`OnlineIndexProofs`**, **`OneWriterProofs`**, **`FileStorageProofs`**,
**`FileMutationLogProofs`**, **`IndexReplayProofs`** (with the mutation log),
**`GraphSearchProofs`** (with the record cache) and **`NodeBindingProofs`** hold the
proofs.

Definitions introduced by a comment "Mutant of ..." are deliberately broken
variants: each shows that the property named with it in `PROJECT.json` fails
when the code has that slip. No specification uses them.

## Runs

| Run | Question | Bounds |
| --- | --- | --- |
| `storage_retention` | Does the manifest always resolve, do snapshots expire only when superseded, are two freezes of grace kept, do the two read paths resolve the same record, and does the backend implement `SnapshotStore`? | one node, a row with a full vector and one without, 1 segment, 4 freezes, 1 epoch, 2 publishes; 1.2 million states |
| `index_one_writer` | With one writer, bulk builds and a reopen at every quiet moment: does the manifest show exactly the acknowledged rows, are start nodes live, do labels keep their start nodes, does the previous snapshot stay readable between mutations, are ids ever reused, is a mutation ever refused? | four ids, a plain row and one for each of two labels, links pruned to one, 4 freezes, 2 deletes, a first build of at most one row, the two labels interchangeable (symmetry); 0.7 million states |
| `index_two_writers` | Do acknowledged inserts and deletes survive two interleaved writers that may fail at any step? | three ids, 4 freezes, 1 delete; 0.7 million states |
| `index_replay` | Does a standby end with what the log says, can it take over without reusing an id, and is a first replay ever refused? Is replay complete from every offset that is not refused? | one built row, two more ids, 3 log entries, one more standby, two faults; 2.8 million states |
| `durable_log_crash` | Does the durable log implement `MutationLog` when the machine crashes anywhere and no file operation fails? | two mutations, 3 appends |
| `durable_log_faults` | Which faults can lose an acknowledged append, reuse an offset or double one, and can no other? | one mutation, 2 appends, 3 frames, two faults |
| `file_storage` | Does the directory open after any crash, to a publication no older than the last acknowledged, showing what it showed? Are epochs reused, does a reference ever change? | one node, 2 numbered files, 1 epoch, 2 versions, two faults |
| `node_binding` | Is an index in use through at most one handle, does the id map follow it, what may a search report, and does every promise settle? | three providers with the calls that tell them apart, 3 tasks, 2 threads, 3 lock files |
| `graph` | Is every built graph connected and within its degree, and does every search that is not cut short return what a scan would, through shared caches and while snapshots are published? | two readers, two snapshots, a cache of two records, three searched inputs of four, one and no rows, 81 more that are only built; plain and quantized routing; 0.4 million states |

Why these bounds. A delta expires after two later freezes, so three freezes show
every phase of its life, and four the largest number retained. The properties
compare at most two neighboring versions. With one node no links can be
rewritten; the refinement proof covers rewrites, for any number of nodes. A lost update needs two
writers and two publishes; a lost label needs a truncated walk, so more than
`MaxVisited` live nodes; an id handed out one short of the built rows needs a
build and an insert. For replay, three entries leave room for a failed insert,
its successor and a delete, two faults for a failed or reopened replay after a
failed or restarted mutation. In the directory, a publish needs two files and the faults are a
failure that leaves something behind and the crash that shows it. Three tasks
are a factory and two that race, or two factories around a close; two threads
let them overlap and let all threads wait on one writer lock. In the graph run a
cache of two records is smaller than any search, so entries are evicted while
they are needed; the byte budget of 32 lets some searches fail; two readers see
two snapshots. That a bulk build is connected was checked once more over 3888
placements of labelled rows. Runs that bound ids, epochs, files or calls end in
states where nothing is possible any more, so they do not check for deadlock;
`storage_retention` and the runs of the durable log do.

Fairness. `node_binding` assumes that as long as some task can move, some task
does (`Fairness`, weak fairness of the pool and the event loop together): a
thread runs its task, a free thread takes the next one, promises of finished
tasks are settled. The operating system and libuv guarantee this and more; the
only wait inside a task is for the writer lock, a plain mutex, and JavaScript is
not obliged to make any call. The bound on calls is what keeps new ones from
starving the old. All other properties are safety properties and need no
fairness: the rest of the code retries nothing and waits on nothing but short
mutexes.

Properties that except a case. Each exception is a hazard of the code that
really bites, named in the property:

* `AcknowledgedAppendsSurvive` and `NoOffsetReused` except three faults
  (`LosingFaults`): a torn write; an error after the rename in a truncation,
  which leaves the append handle on the file that was replaced; and a process
  killed between that rename and the fsync of the directory, since a reopened
  log does not sync the directory. `RecoveredOffsetsIncrease` excepts the failed
  fsync of an append, whose frame stays while its offset is used again.
* `FirstReplayAccepted` excepts a primary that was restarted without replaying
  its own log: its allocator resumes at the manifest's mark, below the ids of
  logged inserts that were never published.
* `StandbyComplete` excepts, for a standby that began as a copy, the nodes the log
  speaks of only before the copy was taken (`CarriedOver`): such a row is in the
  copied delta alone, which the first replayed entry replaces. For a standby
  rebuilt from the bulk build it excepts nothing.
* `OpensToWhatWasPublished` excepts a half-destroyed directory that was opened
  and written to again: numbers of files already removed are reused.
* `MapMatchesIndex` excepts stores in which a mutation failed after staging (its
  retry is accepted, and the next publish shows both rows under one external
  id), a build over staged mutations, writes in flight at the close of a memory
  index, and a file index reopened with a hot delta.
* `OneStatePerDirectory` excepts a lock file unlinked by a destroy between
  another task's open and its flock.
* `SearchesExact` excepts searches cut short by `search_list_size`, which are
  approximate by design, and counts only the rows that the start nodes of the
  search still reach after deletes (`Reachable`).
* `QuietManifestExact` and `QuietSnapshotsResolve` speak of moments without a
  running mutation, of one writer over a storage that does not fail.

### Divergences

Three runs refute what the code or its documentation says:

* `durable_log_torn_write`: "appends are durable and replayable" (README). A
  failed write leaves a torn frame; later appends go behind it, are
  acknowledged, and are cut off by the next open.
* `file_reopen_loses_rows`: a `file:` index "reopens to the last completed
  state" and every completed operation is durable (Node README). It does open
  to that state, but with an empty draft while published deltas are cumulative:
  the first mutation after the reopen publishes a delta without the rows,
  overlays and tombstones published before.
* `index_bulk_over_draft`: "this replaces the visible graph state"
  (`src/index.rs`, `bulk_build`). The build leaves the cumulative draft alone,
  so the next mutation makes rows from before the build visible again.

Four more were met while modelling and are not runs; the properties that hold
are stated so as to leave them out:

* A `memory:` snapshot is "guaranteed readable until more than one subsequent
  write has been published" (Node README), but collection runs at the freeze of
  the second write, before its publish. `QuietSnapshotsResolve` is the weaker
  statement that holds.
* Replay "lets callers rebuild a storage implementation from a checkpoint plus log
  tail" (`src/index.rs`, `replay_mutations_from`). The empty draft of a reopened
  directory, again: the first entry replayed into a copy of it takes the online
  rows it had out of the view, and once the log is truncated below the checkpoint
  nothing can bring them back. No fault is needed. Hence the exception
  `CarriedOver` in `StandbyComplete`: without it, TLC finds this after one insert,
  a copy, a second insert and a replay.
* An insert "is visible to the next search" (Node README), but pruning
  (`rewrite_backpointer`) may drop every edge to the new node; the bulk build
  has chain edges against that, the online path does not.
* The high-water mark is "at or above every node ID ever assigned" (README), but
  a row left in the draft by a failed insert can be published, after a reopen
  over the same in-memory storage, above the mark. `NamedIdsNeverReused` speaks of
  the ids clients were told.

## Proofs

All for every value of the constants, from the named assumption of the module
(`StorageAssumption`, `CacheAssumption`, `SearchAssumption`, ...) or none. One
of them, `GraphsAssumption` of `GraphSearch`, is not about the input alone: it
states what the constant graphs give, that links and start nodes are rows of
their graph, labels and filters are sorted without repetition, and routing
distances are integers. The graphs come from folds and sorting over the rows, so
showing it for every input takes induction over data, which the prover does not
do; TLC evaluates it for every graph of the run.

`MemoryStorageProofs`: `TypeCorrect`, `ManifestAlwaysResolves`,
`ExpiryNeedsPublish`, `GracePeriod`, `ReadPathsAgree`. The invariant
`StorageInv` adds to the types what the induction needs: the manifest and every
pinned snapshot name references already handed out; the manifest's references
are valid; the two newest deltas are retained; no pin is newer than the
manifest, and a pin of the current version is the manifest.
`ExpiredOnlyIfSuperseded` is not inductive without the last part: only because
equal versions mean equal manifests does the manifest's delta being spared keep
the reader's delta too. The one step that removes deltas is a freeze, so one
lemma (`FreezeKeeps`) says what a freeze keeps, and every other action leaves
resolution alone.

There too: `RefinesSnapshotStore`, `StorageSpec => ImplementsSnapshotStore`. A
view is a function of the snapshot's own segments and delta (`ViewStable`),
segments are only ever added and a delta never changes while it is retained, so
staging and storing segments are invisible, a swap is a `Publish`, a load a
`Pin`, and a freeze is an `Expire` of the readers whose delta it collects, which
`StorageInv` shows to be superseded.

`OnlineIndexProofs`: `OwedStaysVisible`, `DeletedStaysGone`,
`IdsFreshWhileOpen`, for any number of writers that interleave between any two
storage calls and fail anywhere, while one index is open (`OneIndexSpec`). The
writers share one cumulative draft, so a publish carries whatever the others
have staged. What makes this safe is that a writer only publishes over the
manifest it planned against: while that manifest is current nobody else has
published, so nobody can have seen the row being inserted (`Alone`) and nobody
can be deleting it. `OwedRowsVisible` is far from inductive by itself. The
invariant `Inv` says of the manifest's delta, of the draft, and of every frozen
delta whose writer may still publish it, that it shows all that clients were
told (`Honest`) and the writer's own mutation; that an id between allocation and
staging belongs to one writer and is nowhere else (`FreshOK`); that no id in use
reaches the allocator (`IdsOK`); and that a bulk build runs alone over a draft
nothing was staged in (`BuildOK`). The one hypothesis, `BulkFirst`, is for the
last of these: there are no builds, or there is one writer, and it never builds
over staged mutations. Without it the theorems are false, which is the
divergence `index_bulk_over_draft` above. `IndexTypeCorrect` and
`IndexKeepsStorage` (the manifest resolves, snapshots expire only once
superseded) need no hypothesis and hold across reopens.

`OneWriterProofs`: the promises to a caller that mutates from one thread, over a
storage that does not fail, across bulk builds and any number of reopens
(`OneCaller`): `NoCallIsRefused`, `IdsFreshAcrossReopens`, `QuietIndexExact`,
`LastSnapshotResolves`, `StartsStayLive`, `LabelsKeepStarts`. `Calm` is what one
caller adds to `Inv`: the manifest it works on is the current one; the manifest's
delta is the last one frozen, or the one before while a publish is pending, so
that two retained freezes are one publish; every id in use is covered by the
high-water mark but for the one being inserted, which is why a reopen is safe; and
nothing is visible in the draft that is neither owed nor under way. Hence no
publish can be refused, no failed mutation ever leaves anything in the draft, and
between two mutations the manifest is exact. On that rests `StartsInv`: the start
nodes a mutation plans and stages fit the rows it leaves, for whichever nodes a
truncated repair walk met. Two hypotheses are needed there. `MaxVisited >= 2`:
with a budget of one the walk may meet nothing but the default it is to replace,
and elect none while labels keep theirs. `MaxBulkBuilds <= 1`, for
`LabelsKeepStarts` alone: a second build replaces a graph whose labels it need
not have.

`FileStorageProofs`: `FilesTypeCorrect`, `CrashesReopen`, `AcknowledgedSurvive`,
`OpensAsPublished`, `EpochsFresh`, `ReferencesKept`, for any numbers of files,
versions and faults. The invariant says that every manifest that is on disk, or
would be after a crash, or is about to be written, is faithful: the files it refers
to exist under the current and under the synced directory alike, hold what they
held when it was written, and are older than any number still to be handed out.
So any mixture of old and new directory entries a crash leaves opens
(`Recoverable`), to a version no older than the last acknowledged
(`Acknowledged`). The attempt to prove this found the model itself wrong: a
reopened storage forgot that its directory had been half destroyed, which two
faults are too few to show. The history variable now outlives the process.

`IndexReplayProofs`, first part: `ReplayAlwaysComplete`, `CheckpointAlwaysAvailable`, for
any mutations and any number of appends. Completeness is not inductive: it says
nothing of the entries below the floor. The invariant says that the log is
exactly the history from the floor on; the lemma `FromOfHistory`, that popping a
history up to an offset leaves the history from there, gives both the step of a
truncation and what a replay returns.

`FileMutationLogProofs`: `AcknowledgedAppendsNeverLost`, `OffsetsNotReused`,
`OffsetsIncrease`, for any mutations, any numbers of appends and frames, and any
faults. The three properties speak of what a crash at this point would bring
back, so they say nothing of the state they are about and none is inductive. Two
invariants carry them (`FileLogInvariant`). `OrderInv`: whatever failed, the
frames of every file are in the order of their offsets, strictly unless an fsync
of an append failed, and none reaches the next offset but the
frame of an append under way or of one whose fsync failed. `DurableInv`: while no losing fault happened, every file a
crash may bring back holds each acknowledged append, among the frames that are
synced and before any torn one, from a floor that no state a crash may bring
back is below. That is why truncation must publish the floor before it compacts,
why the compacted file must be synced before it is renamed, and why opening may
cut the torn tail off.

There too: `CrashesAreInvisible`, `Faults = {} => (Spec => ImplementsMutationLog)`:
when the machine may crash after any file operation but none fails, the durable
log is a `MutationLog`. `FaultFreeInv` adds that each file a crash may bring back is a
stretch of the history without gaps (`Span`), synced but for the frame of an append
under way, and that the state on disk is the one before the call under way or the
one after it; a closed log is on disk. So what a crash leaves of an open log
(`Recovers`) is the log before that call or after it: an append, a checkpoint or
a truncation of `MutationLog`, or a stutter. The hypothesis cannot be dropped: a
failed fsync of an append leaves a frame whose offset is used again.

`IndexReplayProofs`, second part: `StandbyHasAll`, `StandbyCanTakeOver`,
`FirstReplayNotRefused`, and the log's completeness under an index
(`LogReplayComplete`), for any rows and any numbers of mutations, failures,
restarts, truncations, copies and replays started over. No replay is followed
entry by entry. What an index shows of a node after a replay depends on the last
entry about it alone (`Last`), so the invariant `ReplayInv` says two things: of
every node clients were told of, the last entry in the log says what they were
told, or no entry is about it and the bulk build has it (`HistoryOK`); and the
standby shows what the last entry applied says of every node applied since
`from` (`AppliedOK`), and the bulk build's row of every node no entry is about
(`BaseOK`). When all entries are applied the two meet. Nothing is said of what
the primary shows of the rows it acknowledged, since a restart may lose them: a
standby may well have more. Nodes only a copied delta knew of are the exception
`CarriedOver` of the property. The rest makes these inductive: the mutation under
way is the newest entry of the log and an insert's id is above the high-water mark
(`OpOK`), so no entry can change what was told of another node; the ids clients
were told are at or below the primary's mark (`TruthOK`); and what was applied is
not only shown but still in the draft, from which every publish is made. A replay
that is started over owes nothing at first (`Position` is back at `from`), whatever
a failed one left or a reopened standby lost: every node it ever applied is one it
will come to again.
What is left to apply stays a part of the history whatever is truncated
(`PendingOK`), which is the theorem about the log. Its assumption is that of the
module: no row is the mark of a deletion.

`GraphSearchProofs`, first part: `CacheCorrect`, the cache is exact and
consistent however it is used: any readers, any capacity, any snapshots, any
requests. The invariant `CacheInv` adds that a snapshot's version is its place
in the order of publication, which makes cache keys of two snapshots differ;
that every key belongs to a published snapshot; and that a request under way
holds exactly what its snapshot resolves to, before and after its fetch.
Eviction needs that the queue has no key twice: else removing its head would
leave the head in the map.

`GraphSearchProofs`, second part: `SearchesKeepCacheExact`, the searches, rebuilds and
deletes of `GraphSearch` use the cache as `CacheNext` allows, so its theorem
carries over; and `QueriesEncodedLikeRows`, with the invariant that a reference
stands for the model of the rows its snapshot was built from, that the one-entry
cache is empty or agrees with its reference, and that a search over no rows
never encodes.

`GraphSearchProofs`, third part: `AccountingAlwaysExact` and `SearchesAlwaysExact`,
for any graphs, deletes and searches, under any order of reads and batches. The
invariant `WalksInv` adds to the second that deletes leave the graph of a build as
it was but for tombstones (`SnapshotsBuilt`), and what each search knows
(`SearchesSound`). `WalkSound`: records are the rows of the search's snapshot, what
it holds it has seen, and nothing it holds is still to be read; its request under
way reads the first nodes of what is to be read. `WalkComplete`: every start node,
everything seen and every link of a candidate is held or still to be read, unless
it is deleted; and all that is held or to be read is at most as many links away
from the starts as there are candidates. So when nothing is parked or to be read,
the candidates contain the starts that are present and are closed under links, and
they are no further away than there are rows: they are what is `Reachable`. The
bound is needed because `Reachable` stops after as many rounds as there are rows.

Four facts about operators come first: the size of a finite set of records is a sum
that adds up over disjoint sets, `Unseen` returns the neighbors nobody has seen, the
merge of two sorted label sequences finds a common label exactly if there is one,
and what the rounds of `Reachable` contain. Each is about a recursive function and
is proved by the least number at which it would fail, the induction theorems being
out of reach.

`NodeBindingProofs`: `NamesAlwaysAttachedToOneHandle`, `DirectoryAlwaysExclusive`,
`MapAlwaysMatchesIndex`, `PinnedSearchesAlwaysRepeat` and `SearchesAlwaysOnlyExpire`,
for any ids, any calls of any provider, and any numbers of tasks, threads and lock
files. None of the five is inductive; `BindingInv` carries them all and has four
parts. `Typed` says, besides the types, what the snapshot a task carries has to do
with the store of its handle (`Sees`). Stores only grow: segments are appended, a
delta is frozen under a new number or collected for good, and two manifests of one
version are the same (`Grown`). So a pinned snapshot resolves to the rows it was
taken of or not at all, and a search that finds its delta gone is older than the
manifest it then reads. `Owned`: a named handle is live, the entry is attached
while there is one, a factory that has not settled owns the handle it computed, and
no two indexes of another provider share a store. `Locked`: everything that holds a
`flock` holds it on an inode of its own; as long as no `LOCK` was unlinked under
a task, every holder and every task between open and flock has the inode that is in
the directory. `Mapped` follows a write from its check of the id map to the update
of the map: the task that holds the writer lock is the only one that stages, its id
is still free (or its node still the one of the id), and what it has staged or
frozen is exactly what the map will say once the manifest is published (`Checked`,
`Staged`, `Halfway`). Between writes the draft is the published delta, without
which a later write would publish rows nobody was told of; that is what the
hazards in `muddled` destroy. The assumption adds that the index that exists at the
start was built over at least one id and none twice, which is what a bulk build
accepts and what makes there be an index.

Only model-checked: the graphs themselves (`BuildConnected`, and what
`GraphsAssumption` says of them), which rest on folds and sorting over data and so
on induction over them; liveness (`PromisesSettle`) and `ENABLED`, which are out of
the prover's reach.

## Not modelled

* Floating point: rounding, cosine and inner-product distance, normalization,
  non-finite vectors, the packing of bits into words, recall.
* Searches with `rescore = false`, and searches over graphs that online inserts
  have extended: `GraphSearch` searches what bulk builds made and deletes
  thinned, `OnlineIndex` has the inserts with abstract distances.
* The byte budgets of the storage's own read calls. `GraphSearch` has those of
  the search.
* In `FileStorage`: configuration, start nodes, encodings and checksums, foreign
  entries in the directory (only a guard of `Destroy`), and whether the entry of
  the index directory in its parent survives a crash, which is taken for granted.
* In `NodeBinding`: option parsing, several URIs at once, several processes (a
  second one is another task to the lock file), the garbage collector.
* The JavaScript wrapper beyond `callNative`, benchmarks, examples and release
  scripts hold no protocol state.

What could be added next: searches over online graphs with exact distances.
