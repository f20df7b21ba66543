# A TLA+ verification of rhypedb

rhypedb is an embedded object-graph database in Rust: an LSM storage engine
with MVCC transactions, an engine of typed objects and edges on top of it,
background workers (compaction, schema migrations, vector and full-text
indexing), and a server with a query language, access rules, subscriptions,
backup and restore, and Rust and TypeScript clients. This directory holds TLA+
models of its parts, the TLC runs that check them on small instances, and
proofs checked by TLAPS.

`PROJECT.json` lists, for every definition that models code, the source lines
it stands for (`map`), the runs with their properties, the hazards each
property is aimed at, and a mutant per property: a plausible bug in a modelled
definition that makes the property fail.

## The system and its parts

| Part | Source (crates) | Modules |
|---|---|---|
| Transaction manager | storage `mvcc.rs` | `Mvcc`, `SnapshotStore` (abstract), `MvccProofs` |
| Write-ahead log | storage `wal.rs` | `Wal`, `WalReplay` |
| LSM tree: commit, flush, compaction, recovery, backup | storage `lsm.rs` | `Lsm`, `LsmFacts`, `LsmProofs` |
| LSM tree: reads | storage `lsm.rs`, `memtable.rs`, `sst.rs`, `zone.rs` | `LsmRead`, `ChunkScan`, `ZoneScan` |
| Compaction worker, data-directory guard | storage `lsm.rs`, `lock.rs` | `CompactionWorker`, `OwnerFence` |
| Keys and SST files | storage `key.rs`, `sst.rs` | `SstFile` |
| Objects, edges, indexes, covers | engine `database.rs` | `Objects`, `ObjectsWrites`, `ObjectsStages`, `ObjectsProofs` |
| Field-type migrations | engine `catalog.rs`, `database.rs` | `Migration`, `ChunkScan` (cursor) |
| Catalog | engine `catalog.rs`, `database.rs` | `Catalog`, `CatalogCodec` |
| Embedding queue | engine `vectorizer.rs` | `Vectorizer` |
| Full-text index and search | engine `fulltext/`, `database/fulltext_build.rs` | `FullText`, `FulltextSearch` |
| Vector index and search by meaning | vector `hnsw.rs`, `index.rs`; engine `vectorizer.rs` | `Hnsw` |
| Query execution, filter plans, budgets, rules' hooks | query `executor.rs`, `governor.rs`, `authz.rs` | `QueryExec`, `FilterPlan` |
| Query, rule and schema languages | query `parser.rs`, authz `rules/`, schema | `QueryText`, `Rules`, `SchemaText` |
| Logical export and import | engine `database.rs`, server `import.rs` | `Logical` |
| Backup, restore on boot, offline tools | server `restore.rs`, `import.rs`, cli | `Restore` |
| Live handle and hot reload | server `lib.rs`, `admin.rs` | `HotReload`, `HotReloadProofs` |
| Subscriptions | subscribe, server `lib.rs` | `Subscriptions` |
| Wire protocol | wire; TypeScript `wire.ts` | `Wire` |
| Clients | client; TypeScript `client.ts`, `subscription.ts` | `ClientCalls`, `ClientEvents` |

How they interact: a transaction (`Mvcc`) reads at its snapshot through the
LSM tree (`LsmRead`) and commits by appending a framed batch to the log
(`Wal`) and inserting it in the memtable (`Lsm`). Flush moves memtables to
SSTs (`SstFile`) and truncates the log; the worker (`CompactionWorker`) merges
SSTs and drops versions no registered snapshot sees. Opening a directory takes
the guard (`OwnerFence`), loads the SSTs and replays the log (`WalReplay`). A
call of the engine (`Objects`) is one such transaction over object, edge and
index keys (`SstFile`), around which it moves the in-memory generation counters;
an update hands its target to the cover-refresh worker. The catalog
(`Catalog`) gives names their ids; a migration (`Migration`) rewrites the
objects of a type beside the calls and hooks into their writes. Writes feed
the embedding queue (`Vectorizer`), whose worker fills the vector index
(`Hnsw`), and the postings of `FullText`. A query (`QueryText`, then
`QueryExec` and `FilterPlan`) reads all of these under rules (`Rules`) and
budgets. The server keeps one handle that a reload replaces (`HotReload`),
publishes changes to subscribers (`Subscriptions`), speaks `Wire` with the
clients (`ClientCalls`, `ClientEvents`), and boots from a backup (`Restore`).

## The modules

**Mvcc** (`mvcc.rs`). State: `visible_version`, `next_version`, the capped
`committed_log`, the commit mutex, the refcounted `active_snapshots`, and per
handle its phase, snapshot and write set. `begin` is two steps (load the
version, register it) because no lock spans them; `commit` is reserve, apply,
record, publish, return, with the failure of apply. A handle is reused after
drop, so any number of transactions is explored. `history`, `evicted` and
`late` are history variables. **SnapshotStore** is what it implements: a store
that changes by whole commits. The refinement maps the store's content to what
`visible_version` shows and a transaction's view to its snapshot between the
load and the end of the handle.

**Wal** and **WalReplay** (`wal.rs`). A log is a magic and a sequence of
records: data, commit footers with the count of their batch, or torn bytes.
`Wal` defines what replay recovers without a loop; `WalReplay` is the loop,
record by record, checked against that definition over every log of bounded
length.

**Lsm** (`lsm.rs`). The files (log, SSTs, both as the disk and as the process
see them), the memtables, the SST list, and one step per externally visible
step of commit, flush, compaction, `snapshot_to`, and `open`. A crash may
happen between any two steps; `conf` chooses the deployment (fsync on commit,
a new or un-framed log, which I/O calls may fail, how often the process or
the machine dies), and `failed` records what did fail, so that a property can
say which failures it survives. **LsmRead** adds the reads: the layers are
read one at a time, memtable first for a point read, SSTs first for a scan,
while writers go on.

**ChunkScan** (`scan_chunk_raw` and the resumable loop of its callers),
**ZoneScan** (block bounds, skipped blocks, de-duplication by key),
**OwnerFence** (flock, owner token, `verify_owner` before each destructive
write, the latched fence; flock may be a no-op, as on some network file
systems), **CompactionWorker** (one condvar shared by signals, waiters and the
worker; a weak reference upgraded for each merge; the destructor on any
thread).

**SstFile** (keys and tables), **CatalogCodec**, **Wire** (both readers of
the protocol): bytes as sequences of numbers. Widths are constants, so that a
carry or an overflow happens at small numbers; a float is its bits, a checksum
holds or does not.

**Objects** (`database.rs`). The schema is a source type with numbered
relations to a target type; an object has one `@unique @indexed` field and one
plain field. The database is a partial function from keys to values, one key
family per keyspace of the code. A call begins a transaction (its snapshot is
the database then), stages its writes against the snapshot and the live
counters in one step, commits or conflicts, and finishes; `dirty` is what
others committed since its snapshot, which is the conflict check of `Mvcc` for
a handle that registered in time. Staging is one step: it reads a snapshot,
which does not move, and a property looks at one cover or one counter at a
time, so the order in which a call reads several counters does not show.
`CommitErrs` is a commit that is published and then reports the error of the
flush it triggered. A setup gives the stored objects, the delete policies, the
inputs and the bounds. Keys are abstract here: that the bytes of a `u:` key
are found again is `SstFile`'s matter, with the exception below.

**Migration** (`catalog.rs`, `database.rs`). One type with one migrating field.
A row is the field's kind and number and the number of its shadow; the plan,
the partition cursors and the quarantine are the durable records, the hook,
the converter, the driver registry and `migration_lock` belong to the handle
and vanish in a restart. Threads are the detached driver and two operators;
each drive is load, backfill, join, reload, terminal pass, and each partition
worker scans and commits in two steps, since it runs without the lock. A
terminal pass holds the lock across its chunks. `last` and `odd` are history:
the numbers the clients wrote, and the ways a plan left the regular path.

**Catalog**. `kv` holds the catalog's rows and the objects and covers that
name fields; `handles` are the open database handles, of which verbs retire
all but one, each with its migration hook (`hook`: none, of a plan it started,
or of one it found when it opened). Opening (backfill, recovery, digest,
reconcile), the verbs, plans and lists of migrations with their log are steps of
one or two threads. A plan starts, fails, is cancelled or cuts over; any
unsettled plan, a failed one too, lets the field's kind differ from the schema
at the next open.

**Vectorizer**. The queue, the job states, the stored vectors, the snapshot of
the index and the index in memory; clients enqueue in three steps (allocate,
begin, commit), a worker claims under its mutex, embeds, stores and saves.
**FullText**. One `@fulltext` field through its life: writers maintain rows in
their transactions, the builder fills and sweeps by chunks, reloads and opens
compare the directive with the marker and its generation.
**Hnsw**. One step per lock region or atomic access of insert, delete, search
and save; vectors are points of a line; the search by meaning on top of it is
in the same module. **FulltextSearch** (with the analysis of texts that the
index uses too), **FilterPlan**, **QueryExec** and **Logical** are pure: the
code's evaluation as operators, beside a reference definition of what a query,
a search, a plan or a dump means; `FilterPlan` has the scans under a pushed
LIMIT. **QueryText**, **Rules** and **SchemaText** are recursive descent
parsers over sequences of symbols, with the writers of such texts.

**HotReload**. The live handle, `reload_lock`, the engine's `migration_lock`,
plans, and one watcher per plan. **Subscriptions**. The hub, each connection's
bounded buffer, lag flags and socket, the process-wide count. The filter that
goes over the wire cannot say all that a client asks for: the client itself
drops the events of its own writes, which the server still sends. **ClientCalls**
and **ClientEvents**. Both ends of a byte stream on which only order ties an
answer to a request: the blocking and the async Rust client and the pipelining
TypeScript client, with timeouts, dropped futures and lost connections.
**Restore**. A directory is what a process sees, what a power loss is sure to
leave, and which contents are fsynced; each file operation is a step.

In each module `odd`, where there is one, is history: the named ways in which
a behaviour met a gap of the code, which the properties except.

## The runs

The `MC` modules put several components in one state space: a behaviour picks a
part at its start and stays in it, so the parts do not multiply; what interacts
is composed in the component modules themselves.

| Run | Parts | Bounds |
|---|---|---|
| `MCStorage` | `Mvcc`, `OwnerFence`, `WalReplay`, `ChunkScan`, `ZoneScan` | 2 handles and 2 keys (symmetric), 4 versions, log cap 2; 2 processes with 3 opens; logs of 5 records; 3 sources of 3 keys with chunks of 2; 2 rows, 4 writes |
| `MCLsm` | `Lsm`, `LsmRead`; formats and languages (`MCFormats`) | six deployments, 2 keys (symmetric), 3 versions, 3 or 4 SST ids, up to two crashes; identifiers of 2 bytes, blocks of 2 entries, every small key, row, frame and text |
| `MCObjects` | `Objects` | 2 threads (symmetric), 3 calls (4 for covers), 1 restart or failed flush, 5 ids; twelve setups: a contended key, every pair of delete policies, covers, restored ids |
| `MCSchema` | `Migration`, `Catalog` | 2 operators (symmetric) and the driver, up to 4 rows, 2 partitions, 2 restarts; 2 types, 2 threads, up to 4 opens and 3 calls, 1 crash |
| `MCIndexing` | `Vectorizer`, `FullText` | 2 objects, up to 2 clients and 2 workers, windows and batches of 2; 2 writers, texts of 3 words, up to 3 writes, 3 opens, 2 reloads, 1 crash, 1 error |
| `MCQueries` | `FilterPlan`, `QueryExec`, `FulltextSearch`, `Hnsw`, `Logical` | 3 rows in 2 layers; 7 objects and pipelines of 3 steps; 2 documents of up to 5 words, 4 of them analyzed, queries of 2 items; 4 vectors; graphs of up to 5 nodes and 3 threads; dumps of 3 objects |
| `MCServices` | `CompactionWorker`, `HotReload`, `Subscriptions`, `ClientCalls`, `ClientEvents`, `Restore` | 2 owners, 3 signals; 2 migrations, 2 queries; 2 connections, buffers of 1 event, 3 commits; 3 calls on up to 2 connections; streams of 5 frames; 2 SSTs, 2 snapshots, a kill and a power loss or two kills |
| `MCMvccBegin` (violation) | `Mvcc` | as above, cap out of reach |
| `MCLsmReadScan` (violation) | `LsmRead` | 1 key, 1 reader |
| `MCFormatsNested` (violation) | `SstFile` | tables of a few entries |
| `MCObjectsDelete` (violation) | `Objects` | 1 thread, 2 calls |
| `MCQueriesHop` (violation) | `QueryExec` | as above |

What the passing runs show:

- `MCStorage`: `NoLostUpdateInWindow` (first committer wins, but for a late
  registration and the cap), `IndInv` (the invariant of the proofs),
  `CommitsAtomic` (`Mvcc` implements `SnapshotStore`), `DirectoryGuarded` (one
  writer, a final fence, bounded damage), `LogRecovered` (the replay loop is its
  definition, and what is appended after a cut is recovered), `RowsFound` (no
  scan by chunks or zones misses a live row).
- `MCLsm`: `LatestReadable`, `PublishedDurable`, `RecoveredWhole` (transactions
  and backups are recovered whole), `ReadsSeeSnapshot`; `StoredFound` (keys
  sort and scan as what they are made of, tables answer as the snapshot),
  `CodecsExact` (rows, fields, payloads and frames are read as written, by all
  three readers), `TextsReparsed` (queries, rules and schemas parse to what was
  written), `AbsenceNeverGrants` (a rule that knows less grants no more; to a
  clause that reads `request.auth` being anonymous is a fact and no gap, and
  a target of a to-many relation that is gone or lacks the field is no member,
  so what is known of it later may turn the answer of a clause that denies one).
- `MCObjects`: `EdgesPaired`, `IndexesExact`, `DanglingExplained`,
  `CoversCurrent`: edges and indexes stay exact; a dangling edge, a stale
  trusted cover or a generation without its object needs a named cause.
- `MCSchema`: `LastWriteKept` (no conversion loses a write, no shadow without
  its hook), `OutcomesExact` (completed means converted, cancelled means
  nothing promoted, no cancel is forgotten), `NamesAgree` (the catalog loads,
  and schemas, rows and covers use the names it has), `LogExact`,
  `IdentitiesPersist`.
- `MCIndexing`: `JobsKept`, `VectorsConverge`, `SearchableExact` (an index that
  may be searched holds the rows of the present texts, its statistics are
  exact, older generations are swept), `IndexingSettles` (a pending vector and
  an unfinished build are settled in the end).
- `MCQueries`: `FiltersExact` (every access path answers as a scan),
  `PipelinesExact`, `RulesInert` (what may not be read might as well not be
  there, in queries over types that end in no refusal or type error),
  `BudgetsAllOrNothing`, `SearchesExact`, `DumpsFaithful`.
- `MCServices`: `HooksSurviveReload`, `NoStraddle`, `SubscriptionsExact`,
  `AnswersOwn`, `ServedWhole`, `LossNeedsForce`, and `ServicesSettle`: a
  compaction signal is served and a drop returns, a cut-over schema comes to be
  served, a lagging client is told, a call returns, an unattended instance
  comes up.

Why the bounds suffice: every conflict here is between a pair, so two handles,
processes, clients or threads meet it; versions and SST ids are chosen so that
an old version lies under a newer one, under a tombstone and under a merge;
every buffer, window, chunk, block, cap and history is small enough to overflow
within the bound; a crash may follow a crash. `CHECK_DEADLOCK FALSE` in the
passing runs, since each part stops when its bounds are used up or its input is
picked; that threads are not stuck is part of the liveness properties.

Fairness: a runnable thread or task is scheduled (weak fairness of its steps),
and no more. Callers may stay idle forever, and errors, crashes and lost
connections are never fair. `compaction_mutex` is a parking_lot mutex,
eventually fair: strong fairness of the worker's lock. In `Vectorizer` the
retry timer fires and a stopped database is opened again, in `Restore` a
supervisor starts the server again, as the deployment that these setups
describe does.

## What is proved

Every theorem holds for any values of the constants that satisfy the named
assumptions. Each rests on an inductive invariant that TLC checked first, on
the constants of the component's run or close to them; the proof has a lemma
per action, and a temporal step at the end.

**Transactions** (`MvccProofs`), for any finite set of handles, any keys, cap
and version bound:

- `Inductive`: `Spec => []IndInv`. The safety properties are not inductive
  alone. `IndInv` adds that the commit mutex is held exactly through the
  critical section (`MutexInv`), that a handle holds its snapshot from
  registration to release (`HoldInv`), that versions are reserved in order and
  published last (`VersionInv`), that the log or the cap accounts for every
  commit a registered handle may conflict with (`WindowInv`), that a handle
  past its check overlaps nothing unseen (`CheckedInv`), and that storage
  above `visible_version` is the writes of the one transaction between apply
  and publish, all of them (`ApplyInv`). One lemma per conjunct, one case per
  action.
- `Atomic`: `Spec => CommitsAtomic`, the refinement of `SnapshotStore`. A
  publish is the store's commit, by `ApplyInv` and `VersionInv`; the load in
  `begin` is its begin, giving a handle up its end; every other step stutters.
- `TypeCorrect`, `RefcountsAreExact` and `FirstCommitterWins` follow from
  `Inductive`.

Assumptions: the set of handles is finite, the bounds are naturals, `None` is
neither a handle nor a version.

**The LSM tree** (`LsmFacts`, `LsmProofs`), for any finite set
of keys, any deployments and any bounds, over commits, flushes, compactions,
backups, I/O faults, crashes with torn logs, and reopens:

- `LsmInvariant`: `Spec => []LsmInv`. Types, program counters and file ids are
  right in every state. While `Undamaged` (no failed append, sync or SST write,
  no power loss over unsynced commits) four things hold together. *Disk*: the
  files are complete, that is, a file's newest version of a key is the newest
  committed one up to the file's newest version. *Memory*: the layers a read
  goes through cover what is committed, a lower layer has no version newer
  than all of a higher one, and versions count on from what is visible.
  *Merge*: the output has the newest versions of the inputs and nothing that
  is not in them. *Log*: every log that a crash may leave now, torn at any
  record of the batch being written, recovers with the files what is
  committed, and beyond it at most that batch. The last one is what makes
  recovery inductive: it speaks of all crashes a state allows, so that
  the step of a crash only picks one of them, and each step of commit and
  flush has to keep every one of those logs good.
- `ReadsFindNewest`: `Spec => []LatestReadable`. The layers are ordered, so the
  first hit of `get_at` is the newest.
- `PublishedStaysDurable`: `Spec => PublishedDurable`. Only `CommitPublish` and
  `Open` move the visible version; the first moves it on, and what the second
  recovers covers what is committed.

`LsmFacts` has the invariant and what the steps rest on. Replay: which prefix of
a log is framed by footers, that a whole batch adds its writes and part of one
nothing, that cutting a tail recovers the same. Files: the order that open and
compaction give them. Layers: in layers so ordered the first hit is the newest.
`LsmProofs` has one lemma for each action, and what a read finds under the
invariant. Both take two facts as a hypothesis, `ByInduction` (a finite set has a
number of elements, a set of numbers has a least one), which `LsmProofs`
proves at its end from the library's theorems. Assumptions: `BoundAssumption` (finitely
many keys, natural bounds) and `ConfigAssumption` (what a deployment may say).

**Objects** (`ObjectsWrites`, `ObjectsStages`, `ObjectsProofs`), for any schema of the modelled
shape, any sessions, inputs, policies and bounds: `EdgesAlwaysPaired`,
`IndexesAlwaysExact` and `DanglingAlwaysExplained`. A call stages its writes
from a snapshot and commits them over a later database, so all three rest on
the conflict check. The inductive invariant `ObjInv` says of the database that
it is paired, typed, exactly indexed while no id was taken twice, and that
whatever dangles is explained; and of every call in progress that its snapshot
agrees with the database outside `dirty` and that its staged write is a good
one for the snapshot (`GoodWrite`): edges move with their reverse edges, index
entries with the objects. One lemma for each kind of call shows that its write
is good, one for each part that a good write without conflict keeps it over
the later database, and `NextInv` has one case per action. Assumptions:
`SchemaAssumption`, `InputAssumption` (calls are well typed) and
`SetupAssumption` (the database a setup starts from is one that earlier calls
leave).

**The directory guard** (at the end of `OwnerFence`), for any processes and
any number of opens: `DirectoryAlwaysGuarded`. `GuardInv` adds that the file
never shows a token before it is written nor one of an earlier open, and
counts the passes done and those still verified together. Assumption
(`GuardAssumption`): the mark of an empty file is no token.

**Hot reload** (`HotReloadProofs`), for any tasks, plans and fields:
`HooksAlwaysSurvive` and `NeverStraddles`. `ReloadInv` says what each task may
rely on at its program counter, which lock it holds, and what keeps a plan
driven. Assumption (`ReloadAssumption`): `None` is neither a task nor a
handle, and a setup's schema has the setup's kinds.

TLC checked the inductive invariants in full: `IndInv` in `MCStorage`,
`ObjInv` on 304,452 states, `ReloadInv` on 15,371, `GuardInv` on 569,798,
`LsmInv` on 908,981.

Only model-checked:

- Liveness (`IndexingSettles`, `ServicesSettle`): fairness and `ENABLED` are
  beyond the prover.
- What loops and recursive definitions compute for every input, which needs
  induction over data: the replay loop against its definition
  (`LogRecovered`), scans (`RowsFound`), and all of the parsers, codecs,
  searches and plans (`MCQueries`, the formats in `MCLsm`).
- Of the LSM tree, `RecoveredWhole` and `ReadsSeeSnapshot`. They speak of
  versions below the visible one, so they need an invariant about what every
  merge keeps for every registered snapshot, and about a backup's copy of the
  log; `LsmInv` follows only the newest version of each key.
- `CoversCurrent`, since a cover carries a generation that `ObjInv` does not
  follow.
- `Migration`, `Catalog`, `Vectorizer`, `FullText`, `Hnsw`, `Subscriptions`,
  the clients, `CompactionWorker` and `Restore`.

## Known limits of the code

Five statements of the repository's documents and comments do not hold of the
code; each has a run that exhibits it:

- `MCMvccBegin`: `begin` loads its version and registers it without a lock, so
  a transaction can miss a conflict. `NoLostUpdateInWindow` holds for handles
  that registered in time.
- `MCLsmReadScan`: scans read the SSTs before the memtables; what a flush moves
  in between is in neither read.
- `MCFormatsNested`: the versions of a key and of a longer key that begins with
  it interleave in a table, and a lookup stops at the first foreign entry.
  Unique keys over strings, bytes and JSON and the names of the catalog are
  such keys. `StoredFound` is about tables without such pairs, and
  `IndexesExact` does not see the matter, since `Objects` has no bytes.
- `MCObjectsDelete`: a cascaded delete skips the source's other edges of the
  relation it came by.
- `MCQueriesHop`: a hop over rows with and without the field in their bytes
  loses the targets of the rows without it.

The other limits are exceptions named in the passing properties, or statements
kept in a module that no run checks because TLC refutes them (in parentheses):

Storage
- The conflict log is capped: a transaction older than the cap is not checked
  against what was dropped.
- A point read between the two steps of a rotation misses the rotated memtable.
- A zone-map scan can return an old version, and loses rows whose versions
  span three blocks (`ZoneScan!FilteredScanExact`).
- A bounded scan takes its first rows of each layer, tombstones included: a
  deleted entry can come back.
- After a failed append or flush the process goes on: later commits can be lost
  in a crash. The durability properties assume `Undamaged`. Without fsync, a
  power failure may leave an old prefix of the log beside newer SSTs.
- `verify_owner` and the write it protects are two steps.

Objects
- A cascaded delete takes its other targets from a cover that may be stale; a
  link beside a delete of one of its ends is write skew.
- A cover's fields come from the snapshot and its generation from the live
  counter (`Objects!StaleCoverDetected`); after a restart the ids of deleted
  objects are used again; a published commit that reports an error rolls its
  generation back.
- A restore moves `next_object_id` after its commit; a create in between can
  take the restored id.

Schema
- Null over a migrating field leaves the row's shadow, which the cutover
  promotes (`Migration!EveryWriteCarriedForward`).
- `cutover_migration` does not check that the backfill is done. A cancel takes
  a finished driver for an active one and only signals it; a plan that is
  rolling back is resumed without registering; a failed terminal pass keeps its
  cursor, and rows written below it are not looked at again.
- Renames do not reach covers of the second degree (`Catalog!RenameReachesCovers`);
  a list of migrations and its log are separate commits; the check for
  migrated handles precedes the lock.

Indexing
- A claim is made before its work is done: a crash, a failed commit or a
  conflict in a batch strands jobs until the next open
  (`Vectorizer!ClaimedJobsSurvive`); the delta replay inserts missing ids only
  (`ReopenedIndexCurrent`); two workers may leave the older vector. A job is
  queued after the commit of its object, in a transaction of its own.
- A reload stops the full-text builder before its checks
  (`FullText!BuildSurvivesRefusal`); a commit that reports a late error skips
  its statistics; a malformed marker is generation 0.
- Loading rebuilds the index's ids in node order, so an insert after a restart
  may retire another node than the live one (`Hnsw!NeverTwice`); a save beside an insert
  keeps a half-linked node (`Hnsw!ReopenedWhole`); pruning may leave a node
  unreachable.

Queries and services
- `-0.0` is not found in an index by `0.0`; a link put on one side of an
  `@inverse` pair is not seen by every hop from the other side
  (`QueryExec!LinkReflected`).
- With two plans, a cutover may not come to be served
  (`HotReload!CutoverServed`); a pause and a resume, or a restart in the middle
  of a cutover with the old schema, need an operator.
- A handle that a client uses again can receive an event of its former
  subscription; the second `unsubscribe()` of the TypeScript client can wait
  forever (`MCServices!UnsubscribeSettles`).
- The offline tools take no lock (`Restore!ToolsRefuseLive`, with the setup
  `LiveTools`); a torn marker is not recognised, and the interrupted restore
  then needs its force flag; a boot without `--restore-from` over an
  interrupted restore serves what there is; the CLI never fsyncs. An export
  that holds a dangling edge cannot be imported.
- The server does not compare its responses with the frame limit, and writes
  counts as `u16` unchecked.

## Not modelled

- Crash injection: a test facility; its points are crash steps of `Lsm`.
- Vector kernels (quantisation, distances) and BM25 scores: floating point. A
  vector is a point of a line, scores are compared by their order.
- Tokens (JOSE): signatures and key fetching, cryptography and I/O.
- The query cache (a bounded map from text to parsed query), configuration,
  HTTP routes, logging, metrics, error texts.
- The code generator, the CLI's printing, the embedding runtime: text
  generation, and an external library whose result is a vector or a failure.
- Checksums and file headers (a record decodes or is torn), the text of JSON,
  stemming (a constant).
- Covers of the third degree, `count_prefix_at`, plans of the single-worker
  format, several migrating types at once, schema descriptions for clients,
  the Rust client's unsubscribe call and dialling.
- Sizes and timings: a flush may start whenever the code could start one, a
  timeout may fire whenever it is armed.
- Components in one state space: `Objects`, `Migration`, `Vectorizer` and
  `FullText` each take the transactions of `Mvcc` as atomic at commit with a
  conflict check, which `CommitsAtomic` and `NoLostUpdateInWindow` justify for
  handles that registered in time, and do not run over `Mvcc` and `Lsm`
  themselves; TLC cannot enumerate the product.
