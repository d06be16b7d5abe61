# unity_catalog: a TLA+ development

Models, model-checking configurations and machine-checked proofs for the
`unity_catalog` extension of DuckDB: a DuckDB catalog whose tables are Delta
tables listed by a Unity Catalog server. Paths are those of the repository,
with its root at `src/` (so `src/src/...` is the C++ code).

## 1. The system

`ATTACH` makes a `UnityCatalog`. It caches the schemas and tables that the
server lists. A table that is read or written is attached internally as a Delta
database (the delta extension with its kernel), and, when it is
catalog-managed, commits are ratified by the server. Where the server offers
it, a scan is planned by the server instead (an Iceberg REST `/plan` call).

| Component | State | Operations | Talks to | What is hard | What makes it right |
|---|---|---|---|---|---|
| **Catalog-managed table** `TableInformation`, `UCDeltaCCV2CommitExecute` (`uc_table_set.cpp`, `uc_delta_ccv2_commit.cpp`) | `internal_attached_database`, `is_dirty`, `attach_lock`, `commit_state` (etag, watermark) per session; the ratified and the published version on the server; `_delta_log` | attach (LoadTable, backfill, publish, AttachDatabase), swap of a dirty database, use, commit, detach | server, storage, the meta transaction | several locks and unlocked reads; commits of other processes; copies that fail half-way; lost answers; kills | snapshot reads, no lost update, own commits are seen, the published version is covered by files, no gap, the lock is released |
| **Scan planning** `UCAPI::PlanTableScan` (`uc_api.cpp`) | locals of one poll loop: result, Retry-After, backoff, elapsed time | plan, sleep in slices, poll, cancel | planning server, DuckDB's interrupt flag | timeout, cancel and completion around one poll; Retry-After is the server's | ends, within budget, soon after a cancel; releases its plan; is not cut off early |
| **Scan-plan gate and execution** (`unity_catalog.cpp`, `uc_table_entry.cpp`) | the latch `scan_plan_state` with its time; per query its binding; a thread-local file list | ask the latch, bind, execute, fall back | scan planning, the table, the parquet reader | the latch is asked three times or not at all in one query, others move it | one failed `/plan` call and nothing else closes it; it opens again; the fallback answers |
| **Table creation** `UCTableSet::CreateTable` (`uc_table_set.cpp`) | none but locals; the log at a location, the registration on the server | check or stage, write version 0, register, recover, clean up | server, storage, kernel | two systems without a transaction; unclear answers; other clients; late effects | success is one's own table; no registered table loses its log; a failed create leaves its location free |
| **Table set** `UCTableSet` (`uc_table_set.cpp`) | `tables`, `is_loaded`, `load_lock`, `entry_lock` | load, look up, list, mark for reload | schema set, server, the tables | a reload against lookups; a load that fails half-way; lock order | what was created is found; what was handed out stays; nobody waits for ever |
| **Schema set** `UCSchemaSet` (`uc_schema_set.cpp`) | map of schemas, loaded once under one lock | look up, list, `OnDetach` | server, table set | a lock held across a request; DETACH while calls are under way, or with the server gone | loaded once; DETACH releases the names of the internal databases |
| **Transactions** (`uc_transaction*.cpp`) | per transaction, the table entries it resolved | begin, commit, roll back, entry cache | table set | an entry must fit the database the transaction reads | one schema per transaction |
| **Lazy file list** `UCMultiFileList` (`uc_multi_file_list.cpp`) | files expanded, plan tasks left, deletes of each file | expand on demand | planning server, parquet reader | expansion on several threads, an error in the middle | each file once, with its own deletes |
| **Filter serialisation** (`uc_irc_expression.cpp`) | none | filters to Iceberg expressions | scan planning | three-valued logic, partial translation | the pushed filter is implied |
| **Deletion vectors** (`uc_puffin.cpp`, `uc_deletion_vector.cpp`) | none | decode a Puffin blob | parquet reader | 32-bit arithmetic on lengths and keys | the set the blob denotes |
| **REST calls and parsing** (`uc_api.cpp`) | none | requests, JSON | server | absent fields | what callers see of answers |
| **Types, entry points** (`uc_utils.cpp`, `unity_catalog_extension.cpp`, ...) | none | mappings, options, registration | - | - | - |

## 2. Modules

| Module | Models | Proofs | Instance |
|---|---|---|---|
| `VersionedTable` | abstract: what a table promises its transactions | | |
| `CatalogManagedTable` | the catalog-managed table, implements `VersionedTable` | `CatalogManagedTableProofs`, `CatalogManagedTableRefinement` | `MCCatalogManagedTable` |
| `PlanTableScan` | scan planning | `PlanTableScanProofs` | `MCPlanTableScan` |
| `ScanPlanGate` | gate and execution; takes `PlanTableScan` as its outcome | `ScanPlanGateProofs` | `MCScanPlanGate` |
| `FilterExpression` | filter serialisation, and what DuckDB and the server make of a predicate (operators) | | (in `PlannedScan`) |
| `DeletionVector` | the Puffin reader (actions, no specification of its own) | (in `PlannedScanProofs`) | (in `PlannedScan`) |
| `PlannedScan` | one query over a planned scan, from its predicates to its rows: composes `FilterExpression` and `DeletionVector` with the pushdown, the execution and `uc_read_deletion_vector` | `PlannedScanProofs` | `MCPlannedScan` |
| `ParallelScan` | abstract: what a planned scan promises the query | | |
| `FileList` | the files and threads of one planned scan: the lazy file list, the delete filters; implements `ParallelScan` | `FileListProofs` | `MCFileList` |
| `CreateTable` | CREATE TABLE | `CreateTableProofs` | `MCCreateTable` |
| `TableSet` | an attached catalog from ATTACH to DETACH: schema set and table set; takes `CreateTable` as its registration and `GetVersion` as one step under `entry_lock` | `TableSetProofs` | `MCTableSet` |

Definitions marked "Mutant" in the modules belong to no specification. Each is
a variant of the definition that follows it, as a plausible mistake would leave
it (a lock not taken, a flag not set, an early return moved), and a property
must fail under it.

### CatalogManagedTable

One table, several sessions (an attachment of the catalog each, in a process of
its own), several threads per session with a transaction each.

| Code | Model |
|---|---|
| `internal_attached_database` | `attached[s]`: a generation and the `max_catalog_version` it was attached with; two attaches are different databases even of one version |
| `is_dirty`, `attach_lock`, `commit_state` | `dirty`, `lock`, `etag` and `watermark` |
| statement: RefreshCredentials, InternalAttach, GetInternalCatalog, and the use of the database | `Statement`, `TakeAttachLock` ... `AttachDatabase`, `GetInternalCatalog`, `UseCatalog`; the pointer is read after the lock is released, as in the code, so it can be null or freed (`NullDereference`, `DanglingDereference`: the process is gone, or goes on with the memory as it was) |
| `BackfillCommits`, `CopyStagedCommitToDeltaLog` | `CopyCommit`, `FinishCopy`, `CopyFails`, `BackfillDone`; with `AtomicCreate` a created file appears whole (object store), without it an incomplete file is visible and counts as existing |
| `UCDeltaCCV2CommitExecute` | `SnapshotCommitState`, `UpdateTable` with its failures, `MarkDirty`, `SetEtag`: one action per critical section |
| the meta transaction's reference and its refusal of a second database of a name | `used`, `SecondDatabaseRefused` |
| server | `latest`, `backfilled`; it ratifies the next version for a current or absent etag |

A database generation that nothing refers to is used again, so the state space
is finite without a bound on attaches.

### PlanTableScan

One call; time in units of the smallest sleep (100 ms). `ParseRetryAfterMs` may
give anything in `RetryAfters`, negative numbers (no header, or an overflow of
`secs * 1000`) included. A sleep is taken slice by slice, with the interrupt
check before each. The answer to a poll replaces the whole result, its plan-id
too.

### ScanPlanGate

Several queries on one latch. `GetVersion` (which schema to bind),
`GetScanFunction` (which reader) and `Execute` are steps of their own, between
which other queries move the latch. The re-probe window is `ReProbe` ticks;
`age` is how old the latch is, up to that. A prepared statement is executed
any number of times. Queries in `Delta` are on a table with a log; only those in
`Failing` are cancelled or have a request fail other than `/plan`.
`ScanPlanCanRead` is not modelled apart: a table it refuses never asks the latch.

### FileList

Threads of one scan. The expansion (`Expand`, `TakeToken`, `FetchScanTasks` and
its failures, `NothingLeft`) runs under the lock of DuckDB's
`LazyMultiFileList`, which is external: it takes FALSE for the end and remembers
it (`all_files_expanded`), the parquet bind probes for a second file, and the
scan hands each index to one thread. DuckDB may start fewer threads than there
are. `FinalizeBind` is outside that lock and holds a reference into
`file_deletes` from `GetDeleteFilesForFile` to the end of `BuildUCDeleteFilter`:
an expansion in between may move the elements (`MayMove`), and what a moved
reference, or one past the end, gives is any filter, none, or an error
(`Undefined`, noted in the ghost `undefined`). An answer may refer to a delete
file it does not have: its files before the bad task are listed with their
deletes, the file of the bad task without. A file is a number of vectors of rows;
the filter keeps rows vector by vector.

`ParallelScan` is what is left of this for the query: a set of files, of which
each reader takes one at a time and returns its live rows at once, until none is
left or a reader fails. Lock, tokens, requests, the two lists and the references
are not seen in it. The mapping (`Todo`, `Reading`, `Status`) counts a file as
taken when its index is handed out, and a scan in which a moved reference was used
as failed; of a failed scan nothing more is promised.

### CreateTable

Clients in processes of their own, one create at a time each. A place is a
location; managed tables get one from the server that no one else gets, so
"same table id" is "same place". `log[p]` is who wrote version 0 at `p`: kernel
refuses a place that holds one. The requests of the clean-up and its removal of
files are separate steps. A registration whose client saw it fail has been
carried out, never will be, or is carried out later (`late`).

### TableSet

Threads of one process on one catalog with one schema. The mutex of the schemas
(`schema_lock`) is held over their load with its request, over a listing's start
and over all of `OnDetach`; every acquisition of `load_lock` and `entry_lock` is a
step; the load inserts one table of the answer per critical section and may fail
between two. Tables are numbered as they are made, so a name dropped and made
again stands for another table.

`Detach` takes the catalog's name away and goes through `OnDetach`: it loads the
schemas if need be (which may fail: then no table was ever attached), walks the
tables of the set, whatever `is_loaded` says and without `entry_lock`, and
detaches the internal database of each, waiting for its `attach_lock` (held by
`GetVersion`). Calls that hold the catalog go on meanwhile; an internal database
one of them attaches after DETACH began is `late`, and nothing releases its name
(section 4). The next `Attach` gives a new catalog under a name of its own, which
the names of its internal databases contain.

### FilterExpression

A predicate is a record with a class (comparison, conjunction, null test, other);
column names that cannot be written, constants without a JSON form, NULLs and
exceptions are the cases the code tells apart. Spelling is abstracted to whether a
value is written exactly. The filter of a `/plan` request is the set of its parts,
which the code joins with "and". `Evaluate` is DuckDB's three-valued logic,
`Matches` the strictest server that Iceberg allows: a comparison with NULL matches
nothing, and a file without a matching row is left out. A floating-point column
holds no NaN (section 4). All three are recursive functions on the predicates of an
instance, which have a finite depth (`IsDepth`).

### DeletionVector

Bytes are taken four at a time: a buffer is a sequence of cells with a number
each, sizes and offsets count cells, `vector_size` wraps modulo `Word`, and a key
stands for `Bucket` positions. Bitmaps (CRoaring), the footer's JSON and the
CRC are external: a cell says which bitmap or which metadata begins there, and a
checksum is the cells it was made from. The parts of the blob are read in steps
(`ReadHeader`, `ReadBitmap`, `ReadChecksum`), and the ghost `reached` notes how
far each may touch the buffer. Of bitmaps with one key the first is kept
(`emplace`, `uc_puffin.cpp:119`). What a writer stores is a definition, not an
action: a body is laid out as bitmaps one after the other, each with its key, to
the end of the body (`IsLayout`), and denotes the positions of all of them
(`Denoted`).

### PlannedScan

`Optimize` calls for pushdown up to twice, the second time without predicates;
`InitGlobal` plans the scan whenever the statement is executed, with a server
that may leave out any file in which no row matches; the vector of the marked
file is decoded with `DeletionVector`, its positions leave the scan, and DuckDB
applies the predicates to what is left. The table may change between two
executions. `ReadDVInit` is the table function, which reads a whole Puffin file
or a bare blob. A blob may be damaged in storage in any way that its checksum
shows: `StoredAssumption` has a body followed by its own checksum be one that was
written for what is deleted, and says nothing of any other. A Puffin footer has no
checksum, so the same assumption has the blobs that a valid footer lists be all
those of the file.

## 3. Runs

| Run | Configuration | Shows | Bounds |
|---|---|---|---|
| `one_process` | `MCOneProcess` | `FreshReads`, `AttachLockReleased`, `WatermarkNeverRetreats`, refinement of `VersionedTable` | 1 session, 3 threads, versions 0-2, partial copies, failures |
| `two_processes` | `MCTwoProcesses` | `TypeOK`, `BackfilledCovered`, `LogHasNoGap` | 2 sessions of 1 thread, versions 0-2, 1 kill, optional fields may be absent, failures |
| `retry` | `MCRetry` | `LosersCatchUp` within one process | 2 threads, versions 0-2 |
| `poll` | `MCPoll` | all of `PlanTableScan` | budget 8, backoff up to 3, Retry-After up to 4, five header values |
| `gate` | `MCGate` | all of `ScanPlanGate` but `DeltaReadsBindLog` | 3 queries, one without a Delta log, two with failures of their own, window of 2 ticks |
| `file_list` | `MCFileList` | all of `FileList` | 2 threads, 3 files of 2 rows, 2 tokens; each file inline or behind either token, the second token inline or behind the first, shared, vector, equality and malformed deletes, failures |
| `planned_scan` | `MCPlannedScan` | all of `PlannedScan` | two columns, one without a name, 3 values and NULL; some 900 filters, up to conjunctions of conjunctions; 2 files of 4 rows; some 130 intact and damaged blobs and Puffin files, `Word` 16, `Bucket` 2 |
| `create` | `MCCreate` | all of `CreateTable` | 2 clients, 2 names, 2 chosen and 2 staged places, 1 kill, 1 late registration, failures |
| `tables` | `MCTables` | all of `TableSet` but `CreatedIsCurrent` | 2 threads, 2 names, 2 tables made, failures |
| `late_etag` | `MCLateEtag` | a disagreement: `EtagNotOlderThanWatermark` | 2 threads |
| `schema_fallback` | `MCSchema` | a disagreement: `DeltaReadsBindLog` | 2 queries |
| `recreated` | `MCRecreated` | a disagreement: `CreatedIsCurrent` | as `tables` |

Why the bounds are enough. Two commits on one table make a winner and a loser
and leave one version to re-attach at; three threads are a reader, a writer and
one that re-attaches between two steps of theirs. Three versions give a gap room
(0, none, 2). A kill, or a late registration, needs to happen once to meet every
state of the others. The budget of 8 leaves room for two sleeps of the longest
kind and more of the shortest; the header values stand for the cases of the
clamp. Three queries on the latch are one that closes it, one bound before and
one bound after. Two creates meet at one name, at one place, at both or at
neither. Two names let a load fail between two insertions, and two tables let a
name be used again. Two tokens may be queued together or one behind the other,
and three files over the three answers leave some answer empty or some file list
growing under a reader; two threads are one that expands and one that reads.
Threads of a session, clients, names and places are interchangeable; `one_process`
and `create`, which check no liveness, are reduced by that symmetry.

Bounds in guards: `MaxVersion` (the server ratifies no version above it),
`MaxKills`, `MaxLate`, the size of `Staged` and `MaxMade`.

Fairness.
* `RetrySpec`: weak fairness of a thread's next step in a call, and of clients
  that begin and try to commit: requests and file operations return.
* `FairSpec` of `PlanTableScan`: the thread runs, its requests return. The
  server may never finish the plan, and `QueryEnds` holds all the same.
* `FairSpec` of `ScanPlanGate`: queries proceed, the clock ticks; `Used` (a
  client closes a query in the end) is strongly fair, since an execution in
  between disables it.
* `FairSpec` of `FileList`: the threads run and their requests return. A plan is
  finite, since a token is exchanged once.
* `FairSpec` of `TableSet`: requests return and statements end (weak); a step
  that takes a mutex is strongly fair, since others may hold the mutex again
  and again and `std::mutex` lets every waiter through in the end only if the
  operating system's scheduler does.

Deadlock is checked in every run but `poll`, `file_list` and `planned_scan`, where
the one call, the one scan and the one statement end.

## 4. Disagreements

* **late_etag.** A commit marks the table dirty and stores its etag in two
  critical sections. A re-attach between them publishes a newer etag with a newer
  watermark, and the older etag then overwrites the newer one. The comment on
  `UCCommitState` wants the pair consistent.
* **schema_fallback.** A query bound against the catalog's report because a plan
  was to be tried reads the Delta log when the plan fails, with column ids that
  are those of the report.
* **recreated.** A reload skips names it has, so a table that was dropped
  elsewhere and created anew keeps its old id and location here.

Others that the models have as behaviours, and that no run of its own repeats:

* A refused commit does not mark the table dirty. In one process the winner's
  commit did (`retry`); a loser in another process keeps its old database and
  etag, and every retry of it is refused, although
  `src/test/oss_local/test_concurrent_rw.py:12-13` has losers retry until they win.
* The dereference admitted by the `TODO(race)` of `GetInternalCatalog`.
* On a local file system an incomplete copy counts as published
  (`BackfilledCovered` is stated for `AtomicCreate`); without
  `latest-table-version` and without commits version 0 is attached (`FreshReads`
  for `OptionalFields`).
* A transaction that has read a table is refused its next statement when another
  transaction swapped the dirty database (`SecondDatabaseRefused`), although the
  comment at `uc_table_set.cpp:412-415` has it keep the catalog it read.
* A poll answer without the plan-id cuts a slow plan off (`SlowPlanNotCutOff` for
  `EchoPlanId`); time in poll requests does not count against the budget the
  comment calls wall-clock; a `POST /plan` whose answer is lost leaves a plan
  running that has no id to cancel it by.
* A query bound before the latch closed still calls `/plan`.
* A version 0 that is written and cannot be read back is left behind (the ghost
  `abandoned`). `CREATE TABLE IF NOT EXISTS` of a table made elsewhere returns
  without `MarkNeedsReload` (`uc_table_set.cpp:861`), so a loaded set may still
  not have it.
* The reference into `file_deletes` that a concurrent expansion may move
  (`ScanReturnsPlan` is stated for scans in which that did not happen).
* A call in flight during DETACH may attach an internal database that nobody
  detaches (`late` in `TableSet`).

And, seen while modelling, outside the models: the comment at `uc_puffin.cpp:69`
calls `vector_size` little-endian while the code swaps its bytes; `JsonQuote`
leaves control characters other than `\n`, `\r`, `\t` as they are, so that a
constant with one makes the body of `/plan` invalid JSON, and the failure closes
the latch; a NaN is above all numbers in DuckDB, but Iceberg's bounds of a
column may leave it out, so `x > 1` may lose it; the listing of tables is taken
from one answer (`uc_api.cpp:730`); the HTTP layer may send a request again
(`uc_api.cpp:487`).

## 5. Proofs

All constants are arbitrary within the assumptions of each module. The assumptions
give types, and that the "no value" constants are no values; beyond that only
`StoredAssumption` of `PlannedScan` (no damage escapes a checksum) and, as
hypotheses of single theorems, what is named with them below: `AtomicCreate`,
`OptionalFields`, `EchoPlanId`, `WellPlanned` and `IsDepth`. The instances that TLC
checks satisfy them, and it evaluates those of `PlannedScan` and `FileList`.

**CatalogManagedTable.** `TypeCorrect` goes by `TypeInv`: commits are built on a
version below the bound and copies are of versions LoadTable listed, without
which `latest + 1` and `log[v]` leave their ranges. `PublishedIsWhole` and
`NoGap` (under `AtomicCreate`) go by `CoveredInv`: not only what the server was
told but every copy of a watermark on its way there (`local_wm`, `watermark`,
`snapshot`, and the lower end of a LoadTable answer) is covered by whole files.
`ReadsAreFresh` (under `OptionalFields`) goes by `FreshInv`: a session's database
that is not dirty has all that its commits returned, also those between MarkDirty
and their return, and `attach_lock` covers an attach from before its LoadTable to
its AttachDatabase. `LockIsReleased` is inductive with the types.
`WatermarkAdvancesOnly` goes by `WatermarkInv`: the attach that holds the lock
started from the watermark there is now, and only it writes one.

`VersionedTableIsImplemented` (under `OptionalFields`, in
`CatalogManagedTableRefinement`) maps each step: a first use of a database is the
abstract begin, at a version that `FreshInv` bounds from below and `ExistInv` (no
database is of a version that was not ratified) from above; an accepted commit is
the abstract commit, because the server takes it only for the version that the
transaction's etag stands for; every other step is one the abstract table does not
see (`QuietStep`).

**PlanTableScan.** `TypeCorrect` and `BudgetHolds` are proved together: the range
of `elapsed` follows from the budget test before each sleep and the clamp on its
length (`BudgetInv`). `CancelLands` by `CancelInv`: after the one poll that a
cancel did not stop, the call is on its way to the check before the next slice.
`PlansAreReleased` and `SlowPlansWait` (under `EchoPlanId`) by `ReleaseInv`: the
id is there from the first answer to the end.

**CreateTable.** `RegisteredKeepsLog`, `CleanupIsOwn` and `SuccessIsOurs` follow
from `CreateInv`: a version 0 in flight is its client's own, so two creates in
flight are at two places; no other name is registered at such a place, unless
late; and when files are about to be removed, no name at all is. `RegisteredHasLog`
is a part of it and not inductive alone: that a name was found elsewhere says
nothing of the other names until one knows that none is at this place.
`NothingIsOrphaned` is inductive with the types.

**ScanPlanGate.** `TypeCorrect`, `FallbackIsEnough` and `LatchIsClosedByPlans` go by
`GateInv`: which reader a query was bound to, and that one with a log has its
fallback, survive whatever other queries do to the latch.

**TableSet.** `TypeCorrect` includes who holds which lock. `CreatedTablesAreFound`
goes by `FoundInv`: while a load merges, each table that a CREATE returned for is
in the map or in what is left of the answer, since MarkNeedsReload waits for
`load_lock` and so no promise is made during a load. `HandedOutTablesStay` by
`ValidInv`. `DetachReleasesNames` by `ReleaseInv`: an internal database has its
entry in a set whose schemas are loaded, so OnDetach, which does not look at
`is_loaded`, meets it, and if OnDetach fails to list the schemas there was none.

**PlannedScan.** `ReaderStaysInBounds` goes by `ReaderInv`: blobs still to be read
lie in the buffer, and each check of the reader leaves what it goes on to read
inside the blob, for arbitrary contents. `TranslationIsKept` by `PushedInv`.

`VectorsAreExact` goes by `VectorInv`. Its `LayoutInv` says that the bitmaps read so
far are the first of the body, for every layout that the body has; its `DividedInv`
that what is marked divides into what is decoded, what is in the blob being read, and
what is in the blobs still to be read. `VectorExact` alone is not inductive: it says
nothing until the reader is done. `WholeVectorsAreRead` is the other direction and
needs `SizeInv` besides: of a whole blob `vector_size` is exactly what is left of the
body, so no subtraction wraps and the bound it puts on the next bitmap holds that
bitmap.

`PushedFilterIsImplied` is an induction over expressions, from `IsDepth(depth)`: there
is a measure by which every part of a predicate is smaller. The library's induction
theorems take an operator as parameter and cannot be used here; in their place
stands `LeastNat` (a set of numbers that is not empty has a least one), from which
`RecursionHasSolution` gives each of the three recursive functions its defining
equation, and a least counterexample proves what holds of all predicates. For one
predicate, `ComparisonImplied` and `TranslationImplied` prove both directions that
are needed: what is translated is implied where it is true, NULL being neither true
nor false, and only AND may drop a part. `SentInv` carries it to the filter of the
query. `QueriesAnswer` combines these by `AnswerInv`: from the plan to the rows,
what the scan holds is what the version that was planned says.

**FileList.** `TypeCorrect` is inductive with its three parts: what the list
holds, what the scan holds, and who has the lock with which token in hand.
`FilesKeepTheirDeletes` is inductive with the types: an answer adds to both lists
at once and each task resolves against its own answer, so only an answer that
breaks off leaves them apart, and then the scan has failed. `EveryRowOnce` proves
`ScanReturnsPlan` for plans that are `WellPlanned`: a file is in one task, a token
in one answer, every token can be reached from the inline answer (a set of answers
that holds the inline one and all its tokens' answers is all of them), and a
deletion vector is of its file. It goes by the set of answers taken so far: what
they bring is taken too or waits, once (`TokensInv`), and their files are the list,
each once (`FilesInv`); a file handed out is with one thread, or its live rows are
out (`ReadInv`); and nobody stops while anything waits (`EndInv`). `MCFileList`
assumes, and TLC evaluates, that the plans of its run are such plans.
`ParallelScanIsImplemented` rests on the same invariant: a step that hands out an
index takes a file that is in the plan and was not taken before (`FilesInv`), a file
that was read is returned by what `ReadInv` says of its positions, and a last thread
that stops finds nothing left to do (`DoneInv`); every other step of a scan that has
not failed leaves the mapping as it is (`MappingKept`).

Only model-checked: liveness (`LosersCatchUp`, `QueryEnds`, `ReProbed`,
`CallsReturn`, `ScanEnds`) and anything with ENABLED, which are out of the prover's
reach. Every other property that a passing run checks is proved.

## 6. Not modelled, and why

* The JSON of requests and answers, the wording of errors, logging, URL
  building, type mapping: no state, covered by unit tests.
* The HTTP layer's own retries, secrets and their expiry, the kernel's conflict
  checks inside one Delta commit: not in this code.
* `UCTableSet::ClearEntries`, `UCTableSet::CheckpointTable`,
  `UCSchemaSet::ClearEntries` and `UCSchemaSet::CreateEntry`: they have no live
  caller (the `uc_clear_cache` function is not registered).
* The entry cache of a transaction: an entry is taken from the database the
  transaction reads, and the meta transaction lets it read no other of that name
  (`SecondDatabaseRefused`), so an entry and its database cannot part.
* CRoaring, the CRC's arithmetic, the spelling of numbers and strings.
* Memory safety of the unlocked search of the map; see the hazards in
  `PROJECT.json`.

## 7. Plan

Done, in this order: `VersionedTable` and `CatalogManagedTable` (the data at
risk), `PlanTableScan`, `ScanPlanGate`, `CreateTable`, `TableSet` (later extended
by the schema set and DETACH), `FileList`, `FilterExpression`, `DeletionVector`
and `PlannedScan`; the proofs of each component's safety, and that
`CatalogManagedTable` implements `VersionedTable` and `FileList` implements
`ParallelScan`.

Left: the composition of `CatalogManagedTable` with `TableSet`, which here meet
in the two locks that `GetVersion` holds.
