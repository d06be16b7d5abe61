------------------------ MODULE CatalogManagedTable ------------------------
(***************************************************************************)
(* One catalog-managed Delta table as the sessions that attached its Unity *)
(* Catalog see it: TableInformation of src/src/storage/uc_table_set.cpp    *)
(* (InternalAttach, BackfillCommits, InternalDetach, GetInternalCatalog)   *)
(* and the commit callback UCDeltaCCV2CommitExecute, run by the threads of *)
(* several DuckDB processes against one Unity Catalog server and one       *)
(* storage location.  The server and the storage are external: they are    *)
(* modelled from the requests the code sends and the answers it reads.     *)
(*                                                                         *)
(* A thread runs one transaction at a time.  Every statement of it that    *)
(* touches the table calls RefreshCredentials, InternalAttach and          *)
(* GetInternalCatalog, in that order (EntryFromDeltaLog, BuildDeltaScan    *)
(* and PlanInsert all do), and a transaction that wrote ends in the commit *)
(* callback.                                                               *)
(***************************************************************************)
EXTENDS Integers, FiniteSets

CONSTANTS
  Sessions,       \* attachments of the catalog, each in a process of its own
  Threads,        \* the threads that run transactions
  SessionOf,      \* the session each thread belongs to
  ReadOnly,       \* sessions attached with AccessMode::READ_ONLY
  NoThread,       \* the value of a lock nobody holds
  MaxVersion,     \* bound: the server ratifies no version above it
  MaxKills,       \* bound: how many times a process dies
  AtomicCreate,   \* TRUE: an object store, where a created file appears whole
                  \* when closed; FALSE: a local file, visible once opened
  OptionalFields, \* TRUE: answers always carry latest-table-version and the
                  \* etag, which the API leaves optional
  Failures        \* TRUE: requests and file operations may fail

ASSUME ConstantsAssumption ==
  /\ SessionOf \in [Threads -> Sessions]
  /\ ReadOnly \subseteq Sessions
  /\ NoThread \notin Threads
  /\ MaxVersion \in Nat
  /\ MaxKills \in Nat
  /\ AtomicCreate \in BOOLEAN
  /\ OptionalFields \in BOOLEAN
  /\ Failures \in BOOLEAN

VARIABLES
  latest,     \* server: the latest ratified version
  backfilled, \* server: latest published version the clients reported
  log,        \* storage: the state of _delta_log/<v>.json
  attached,   \* internal_attached_database of each session
  dirty,      \* is_dirty
  lock,       \* the thread holding attach_lock
  etag,       \* commit_state.etag
  watermark,  \* commit_state.backfilled_version
  pc,         \* where each thread is
  held,       \* the bare pointer GetInternalCatalog returned to it
  used,       \* the database its transaction has read or written
  floor,      \* ghost: acked of the session when the transaction began
  resp,       \* LoadTable's answer, held by the attaching thread
  local_wm,   \* backfilled_version as BackfillCommits advances it
  snapshot,   \* the copy of commit_state a commit works with
  acked,      \* ghost: highest version whose commit returned to the session
  kills       \* number of process deaths so far

serverVars  == <<latest, backfilled>>
sessionVars == <<attached, dirty, lock, etag, watermark>>
threadVars  == <<pc, held, used, floor, resp, local_wm, snapshot>>
vars == <<serverVars, log, sessionVars, threadVars, acked, kills>>

-----------------------------------------------------------------------------
(* Values.  An etag is named by the version it was issued for.             *)

Versions  == 0 .. MaxVersion
NoEtag    == -1           \* the empty string: no assert-etag is sent
NoVersion == -1           \* an invalid optional_idx
NullDb    == [gen |-> 0, version |-> 0]
\* An attached delta database: which attach made it, and the
\* max_catalog_version it was given.
Database  == [gen : Nat, version : Versions]
\* LoadTable's answer: ratified_version, the etag, and the range of versions
\* of the commits it lists.
LoadResult == [version : Versions, etag : Versions \cup {NoEtag},
               first : 0 .. MaxVersion + 1, last : Versions]
CommitState == [etag : Versions \cup {NoEtag},
                wm   : Versions \cup {NoVersion}]

Labels == {"idle", "ready", "attach", "load", "backfill", "write", "publish",
           "attachdb", "use", "bind", "update", "markdirty",
           "setetag"}
\* InternalAttach between taking attach_lock and releasing it
Attaching == {"load", "backfill", "write", "publish", "attachdb"}

ThreadsOf(s) == {t \in Threads : SessionOf[t] = s}
MaxOf(a, b)  == IF a >= b THEN a ELSE b

ServerTypeOK ==
  /\ latest \in Versions
  /\ backfilled \in Versions
  /\ log \in [Versions -> {"none", "partial", "full"}]
  /\ acked \in [Sessions -> Versions]
  /\ kills \in 0 .. MaxKills

SessionTypeOK ==
  /\ attached \in [Sessions -> Database]
  /\ dirty \in [Sessions -> BOOLEAN]
  /\ lock \in [Sessions -> Threads \cup {NoThread}]
  /\ etag \in [Sessions -> Versions \cup {NoEtag}]
  /\ watermark \in [Sessions -> Versions \cup {NoVersion}]

ThreadTypeOK ==
  /\ pc \in [Threads -> Labels]
  /\ held \in [Threads -> Database]
  /\ used \in [Threads -> Database]
  /\ floor \in [Threads -> Versions]
  /\ resp \in [Threads -> LoadResult]
  /\ local_wm \in [Threads -> Versions \cup {NoVersion}]
  /\ snapshot \in [Threads -> CommitState]

TypeOK == ServerTypeOK /\ SessionTypeOK /\ ThreadTypeOK

NoResult   == [version |-> 0, etag |-> NoEtag, first |-> 0, last |-> 0]
NoSnapshot == [etag |-> NoEtag, wm |-> NoVersion]

\* The table exists: CREATE TABLE wrote version 0 to _delta_log and the server
\* registered it, and no session has attached it yet.
Init ==
  /\ latest = 0
  /\ backfilled = 0
  /\ log = [v \in Versions |-> IF v = 0 THEN "full" ELSE "none"]
  /\ attached = [s \in Sessions |-> NullDb]
  /\ dirty = [s \in Sessions |-> FALSE]
  /\ lock = [s \in Sessions |-> NoThread]
  /\ etag = [s \in Sessions |-> NoEtag]
  /\ watermark = [s \in Sessions |-> NoVersion]
  /\ pc = [t \in Threads |-> "idle"]
  /\ held = [t \in Threads |-> NullDb]
  /\ used = [t \in Threads |-> NullDb]
  /\ floor = [t \in Threads |-> 0]
  /\ resp = [t \in Threads |-> NoResult]
  /\ local_wm = [t \in Threads |-> NoVersion]
  /\ snapshot = [t \in Threads |-> NoSnapshot]
  /\ acked = [s \in Sessions |-> 0]
  /\ kills = 0

Goto(t, label) == pc' = [pc EXCEPT ![t] = label]

\* The transactions of the threads ts are over, committed or not: the meta
\* transaction drops its reference to the database it used, and the calls'
\* locals are gone.
Clear(f, ts, value) == [t \in Threads |-> IF t \in ts THEN value ELSE f[t]]
EndTransactions(ts) ==
  /\ pc' = Clear(pc, ts, "idle")
  /\ held' = Clear(held, ts, NullDb)
  /\ used' = Clear(used, ts, NullDb)
  /\ floor' = Clear(floor, ts, 0)
  /\ resp' = Clear(resp, ts, NoResult)
  /\ local_wm' = Clear(local_wm, ts, NoVersion)
  /\ snapshot' = Clear(snapshot, ts, NoSnapshot)
EndTransaction(t) == EndTransactions({t})

-----------------------------------------------------------------------------
(* Transactions and statements.                                            *)

Begin(t) ==
  /\ pc[t] = "idle"
  /\ Goto(t, "ready")
  /\ floor' = [floor EXCEPT ![t] = acked[SessionOf[t]]]
  /\ UNCHANGED <<serverVars, log, sessionVars, held, used, resp, local_wm,
                 snapshot, acked, kills>>

\* A statement that reads or writes the table refreshes the credentials, which
\* touches none of this state, and calls InternalAttach.
Statement(t) ==
  /\ pc[t] = "ready"
  /\ Goto(t, "attach")
  /\ UNCHANGED <<serverVars, log, sessionVars, held, used, floor, resp,
                 local_wm, snapshot, acked, kills>>

\* ROLLBACK, the COMMIT of a transaction that wrote nothing here, or a
\* statement whose credentials request failed.
Finish(t) ==
  /\ pc[t] = "ready"
  /\ EndTransaction(t)
  /\ UNCHANGED <<serverVars, log, sessionVars, acked, kills>>

-----------------------------------------------------------------------------
(* InternalAttach.                                                         *)

ReadByThisTransaction(t) ==
  LET db == attached[SessionOf[t]] IN db # NullDb /\ used[t] = db

\* Mutant: attach_lock is not taken.
TakeAttachLockUnlocked(t) ==
  LET s == SessionOf[t]
  IN /\ pc[t] = "attach"
     /\ attached[s] = NullDb
     /\ Goto(t, "load")
     /\ lock' = [lock EXCEPT ![s] = t]
     /\ UNCHANGED <<serverVars, log, attached, dirty, etag, watermark, held,
                    used, floor, resp, local_wm, snapshot, acked, kills>>

\* Mutant: the early return comes before the test of is_dirty.
TakeAttachLockNoSwap(t) ==
  LET s    == SessionOf[t]
      keep == attached[s] # NullDb
  IN /\ pc[t] = "attach"
     /\ lock[s] = NoThread
     /\ Goto(t, IF keep THEN "use" ELSE "load")
     /\ lock' = [lock EXCEPT ![s] = IF keep THEN NoThread ELSE t]
     /\ UNCHANGED <<serverVars, log, attached, dirty, etag, watermark, held,
                    used, floor, resp, local_wm, snapshot, acked, kills>>

\* The part under attach_lock before any I/O: InternalDetach when dirty and
\* unread by this transaction, then the early return when still attached.
TakeAttachLock(t) ==
  LET s    == SessionOf[t]
      swap == dirty[s] /\ ~ReadByThisTransaction(t)
      keep == attached[s] # NullDb /\ ~swap
  IN /\ pc[t] = "attach"
     /\ lock[s] = NoThread
     /\ dirty' = [dirty EXCEPT ![s] = @ /\ ~swap]
     /\ attached' = [attached EXCEPT ![s] = IF swap THEN NullDb ELSE @]
     /\ Goto(t, IF keep THEN "use" ELSE "load")
     /\ lock' = [lock EXCEPT ![s] = IF keep THEN NoThread ELSE t]
     /\ UNCHANGED <<serverVars, log, etag, watermark, held, used, floor, resp,
                    local_wm, snapshot, acked, kills>>

\* LoadTable answers with the etag, the commits above the published version
\* and the ratified version: latest-table-version where the server sent it,
\* else the highest commit listed, else 0.
RatifiedVersions ==
  IF OptionalFields \/ backfilled < latest THEN {latest} ELSE {latest, 0}

\* The etag of an answer, empty where the server left it out
Etags(v) == IF OptionalFields THEN {v} ELSE {v, NoEtag}

LoadTable(t) ==
  /\ pc[t] = "load"
  /\ \E v \in RatifiedVersions, e \in Etags(latest) :
       resp' = [resp EXCEPT ![t] = [version |-> v, etag |-> e,
                                    first |-> backfilled + 1, last |-> latest]]
  /\ local_wm' = [local_wm EXCEPT ![t] = watermark[SessionOf[t]]]
  /\ Goto(t, IF SessionOf[t] \in ReadOnly THEN "publish" ELSE "backfill")
  /\ UNCHANGED <<serverVars, log, sessionVars, held, used, floor, snapshot,
                 acked, kills>>

\* Mutant: the mutex is locked by hand, and not unlocked by an exception.
AttachFailsLocked(t) ==
  /\ Failures
  /\ pc[t] \in {"load", "attachdb"}
  /\ EndTransaction(t)
  /\ UNCHANGED <<serverVars, log, sessionVars, acked, kills>>

\* LoadTable or AttachDatabase throws: lock_guard releases attach_lock and the
\* error aborts the transaction.
AttachFails(t) ==
  /\ Failures
  /\ pc[t] \in {"load", "attachdb"}
  /\ lock' = [lock EXCEPT ![SessionOf[t]] = NoThread]
  /\ EndTransaction(t)
  /\ UNCHANGED <<serverVars, log, attached, dirty, etag, watermark, acked,
                 kills>>

-----------------------------------------------------------------------------
(* BackfillCommits: the commits listed, in ascending order, above the      *)
(* watermark.                                                              *)

\* Mutant: the commits are not sorted and come highest first.
NextCommitUnsorted(t) ==
  IF local_wm[t] < resp[t].last THEN resp[t].last ELSE resp[t].last + 1

NextCommit(t) == MaxOf(local_wm[t] + 1, resp[t].first)

\* CopyStagedCommitToDeltaLog opens its destination.  It exists: skip it, and
\* count it as copied.  It does not: on an object store the copy appears whole,
\* on a local file it is there from here on and complete after FinishCopy.
CopyCommit(t) ==
  LET v == NextCommit(t)
  IN /\ pc[t] = "backfill"
     /\ v <= resp[t].last
     /\ IF log[v] # "none" \/ AtomicCreate
          THEN /\ log' = [log EXCEPT ![v] = IF @ = "none" THEN "full" ELSE @]
               /\ local_wm' = [local_wm EXCEPT ![t] = v]
               /\ UNCHANGED pc
          ELSE /\ log' = [log EXCEPT ![v] = "partial"]
               /\ Goto(t, "write")
               /\ UNCHANGED local_wm
     /\ UNCHANGED <<serverVars, sessionVars, held, used, floor, resp, snapshot,
                    acked, kills>>

FinishCopy(t) ==
  LET v == NextCommit(t)
  IN /\ pc[t] = "write"
     /\ log' = [log EXCEPT ![v] = "full"]
     /\ local_wm' = [local_wm EXCEPT ![t] = v]
     /\ Goto(t, "backfill")
     /\ UNCHANGED <<serverVars, sessionVars, held, used, floor, resp, snapshot,
                    acked, kills>>

\* Mutant: a copy that throws is skipped, and counted.
CopyFailsContinues(t) ==
  /\ Failures
  /\ pc[t] = "write" \/ (pc[t] = "backfill" /\ NextCommit(t) <= resp[t].last)
  /\ local_wm' = [local_wm EXCEPT ![t] = NextCommit(t)]
  /\ Goto(t, "backfill")
  /\ UNCHANGED <<serverVars, log, sessionVars, held, used, floor, resp,
                 snapshot, acked, kills>>

\* A copy throws: a warning and a break, what was opened stays.
CopyFails(t) ==
  /\ Failures
  /\ pc[t] = "write" \/ (pc[t] = "backfill" /\ NextCommit(t) <= resp[t].last)
  /\ Goto(t, "publish")
  /\ UNCHANGED <<serverVars, log, sessionVars, held, used, floor, resp,
                 local_wm, snapshot, acked, kills>>

BackfillDone(t) ==
  /\ pc[t] = "backfill"
  /\ NextCommit(t) > resp[t].last
  /\ Goto(t, "publish")
  /\ UNCHANGED <<serverVars, log, sessionVars, held, used, floor, resp,
                 local_wm, snapshot, acked, kills>>

-----------------------------------------------------------------------------
(* The end of InternalAttach, and GetInternalCatalog.                      *)

PublishCommitState(t) ==
  LET s == SessionOf[t]
  IN /\ pc[t] = "publish"
     /\ etag' = [etag EXCEPT ![s] = resp[t].etag]
     /\ watermark' = [watermark EXCEPT ![s] = local_wm[t]]
     /\ Goto(t, "attachdb")
     /\ UNCHANGED <<serverVars, log, attached, dirty, lock, held, used, floor,
                    resp, local_wm, snapshot, acked, kills>>

\* A generation no pointer of the session names any more.
FreshGens(s) ==
  {g \in 1 .. 2 * Cardinality(Threads) + 1 :
     \A t \in ThreadsOf(s) : used[t].gen # g /\ held[t].gen # g}

\* AttachDatabase, with max_catalog_version the ratified version, and the
\* release of attach_lock.
AttachDatabase(t) ==
  LET s == SessionOf[t]
  IN /\ pc[t] = "attachdb"
     /\ \E g \in FreshGens(s) :
          /\ \A h \in FreshGens(s) : g <= h
          /\ attached' = [attached EXCEPT ![s] =
                            [gen |-> g, version |-> resp[t].version]]
     /\ lock' = [lock EXCEPT ![s] = NoThread]
     /\ resp' = [resp EXCEPT ![t] = NoResult]
     /\ local_wm' = [local_wm EXCEPT ![t] = NoVersion]
     /\ Goto(t, "use")
     /\ UNCHANGED <<serverVars, log, dirty, etag, watermark, held, used, floor,
                    snapshot, acked, kills>>

\* GetInternalCatalog: the pointer is read without attach_lock.
GetInternalCatalog(t) ==
  LET db == attached[SessionOf[t]]
  IN /\ pc[t] = "use"
     /\ db # NullDb
     /\ held' = [held EXCEPT ![t] = db]
     /\ Goto(t, "bind")
     /\ UNCHANGED <<serverVars, log, sessionVars, used, floor, resp, local_wm,
                    snapshot, acked, kills>>

\* The statement opens, in the database it was handed, the transaction's own
\* transaction, which takes a reference to it.
UseCatalog(t) ==
  /\ pc[t] = "bind"
  /\ used[t] \in {NullDb, held[t]}
  /\ used' = [used EXCEPT ![t] = held[t]]
  /\ held' = [held EXCEPT ![t] = NullDb]
  /\ Goto(t, "ready")
  /\ UNCHANGED <<serverVars, log, sessionVars, floor, resp, local_wm, snapshot,
                 acked, kills>>

\* The meta transaction refuses a second database under a name it holds.
SecondDatabaseRefused(t) ==
  /\ pc[t] = "bind"
  /\ used[t] \notin {NullDb, held[t]}
  /\ EndTransaction(t)
  /\ UNCHANGED <<serverVars, log, sessionVars, acked, kills>>

-----------------------------------------------------------------------------
(* UCDeltaCCV2CommitExecute: the staged commit is written, its version is  *)
(* the one after the snapshot's.                                           *)

SnapshotCommitState(t) ==
  LET s == SessionOf[t]
  IN /\ pc[t] = "ready"
     /\ used[t] # NullDb
     /\ used[t].version < MaxVersion
     /\ s \notin ReadOnly
     /\ snapshot' = [snapshot EXCEPT ![t] = [etag |-> etag[s],
                                             wm   |-> watermark[s]]]
     /\ Goto(t, "update")
     /\ UNCHANGED <<serverVars, log, sessionVars, held, used, floor, resp,
                    local_wm, acked, kills>>

\* The server ratifies the next version only, for an etag that is current or
\* not asserted.
Accepts(t) ==
  /\ snapshot[t].etag \in {NoEtag, latest}
  /\ used[t].version = latest

\* Mutant: the watermark is sent though it is invalid.
RatifyUnchecked(t) ==
  /\ latest' = latest + 1
  /\ backfilled' = snapshot[t].wm

Ratify(t) ==
  /\ latest' = latest + 1
  /\ backfilled' = MaxOf(backfilled, snapshot[t].wm)

UpdateTable(t) ==
  /\ pc[t] = "update"
  /\ Accepts(t)
  /\ Ratify(t)
  /\ Goto(t, "markdirty")
  /\ UNCHANGED <<log, sessionVars, held, used, floor, resp, local_wm, snapshot,
                 acked, kills>>

\* The request is answered with a conflict, or is lost: UpdateTable throws.
UpdateTableFails(t) ==
  /\ pc[t] = "update"
  /\ ~Accepts(t) \/ Failures
  /\ EndTransaction(t)
  /\ UNCHANGED <<serverVars, log, sessionVars, acked, kills>>

\* The request is carried out and its answer is lost: UpdateTable throws too.
UpdateTableAnswerLost(t) ==
  /\ Failures
  /\ pc[t] = "update"
  /\ Accepts(t)
  /\ Ratify(t)
  /\ EndTransaction(t)
  /\ UNCHANGED <<log, sessionVars, acked, kills>>

\* Mutant: the commit does not mark the table dirty.
MarkDirtyForgotten(t) ==
  LET s == SessionOf[t]
  IN /\ pc[t] = "markdirty"
     /\ lock[s] = NoThread
     /\ Goto(t, "setetag")
     /\ UNCHANGED <<serverVars, log, sessionVars, held, used, floor, resp,
                    local_wm, snapshot, acked, kills>>

MarkDirty(t) ==
  LET s == SessionOf[t]
  IN /\ pc[t] = "markdirty"
     /\ lock[s] = NoThread
     /\ dirty' = [dirty EXCEPT ![s] = TRUE]
     /\ Goto(t, "setetag")
     /\ UNCHANGED <<serverVars, log, attached, lock, etag, watermark, held,
                    used, floor, resp, local_wm, snapshot, acked, kills>>

\* The new etag goes into commit_state, and the commit returns.
SetEtag(t) ==
  LET s         == SessionOf[t]
      committed == used[t].version + 1
  IN /\ pc[t] = "setetag"
     /\ \E e \in Etags(committed) : etag' = [etag EXCEPT ![s] = e]
     /\ acked' = [acked EXCEPT ![s] = MaxOf(@, committed)]
     /\ EndTransaction(t)
     /\ UNCHANGED <<serverVars, log, attached, dirty, lock, watermark, kills>>

-----------------------------------------------------------------------------
(* The end of a session: its TableInformation is gone, and its threads go  *)
(* on in a new attachment of the catalog.                                  *)

ResetSession(s) ==
  /\ attached' = [attached EXCEPT ![s] = NullDb]
  /\ dirty' = [dirty EXCEPT ![s] = FALSE]
  /\ lock' = [lock EXCEPT ![s] = NoThread]
  /\ etag' = [etag EXCEPT ![s] = NoEtag]
  /\ watermark' = [watermark EXCEPT ![s] = NoVersion]
  /\ EndTransactions(ThreadsOf(s))
  /\ UNCHANGED <<serverVars, log, acked>>

\* DETACH, with no transaction of the session running, and ATTACH again.
OnDetach(s) ==
  /\ \A t \in ThreadsOf(s) : pc[t] = "idle"
  /\ ResetSession(s)
  /\ UNCHANGED kills

\* The process is killed at any point.
Kill(s) ==
  /\ kills < MaxKills
  /\ kills' = kills + 1
  /\ ResetSession(s)

\* Another client of the table, which is no session of ours, copies the staged
\* commits and reports them to the server.
PublishedElsewhere ==
  /\ \A v \in 0 .. latest : log[v] # "partial"
  /\ log' = [v \in Versions |-> IF v <= latest THEN "full" ELSE log[v]]
  /\ backfilled' = latest
  /\ UNCHANGED <<latest, sessionVars, threadVars, acked, kills>>

\* GetInternalCatalog dereferences a null pointer.
NullDereference(t) ==
  /\ pc[t] = "use"
  /\ attached[SessionOf[t]] = NullDb
  /\ ResetSession(SessionOf[t])
  /\ UNCHANGED kills

\* Nobody else keeps alive the database that the pointer of t leads to.
Dangling(t) ==
  /\ held[t] # attached[SessionOf[t]]
  /\ \A u \in ThreadsOf(SessionOf[t]) : used[u] # held[t]

\* The pointer is used after the database is freed: the process dies, or the
\* memory still reads as before and UseCatalog goes on.
DanglingDereference(t) ==
  /\ pc[t] = "bind"
  /\ Dangling(t)
  /\ ResetSession(SessionOf[t])
  /\ UNCHANGED kills

-----------------------------------------------------------------------------

AttachStep(t) ==
  \/ LoadTable(t) \/ AttachFails(t)
  \/ CopyCommit(t) \/ FinishCopy(t) \/ CopyFails(t) \/ BackfillDone(t)
  \/ PublishCommitState(t) \/ AttachDatabase(t)

CatalogStep(t) ==
  \/ GetInternalCatalog(t) \/ NullDereference(t)
  \/ UseCatalog(t) \/ SecondDatabaseRefused(t) \/ DanglingDereference(t)

CommitStep(t) ==
  \/ UpdateTable(t) \/ UpdateTableFails(t) \/ UpdateTableAnswerLost(t)
  \/ MarkDirty(t) \/ SetEtag(t)

\* What a thread does once a call of its user is under way
CallStep(t) ==
  TakeAttachLock(t) \/ AttachStep(t) \/ CatalogStep(t) \/ CommitStep(t)

ThreadStep(t) ==
  \/ Begin(t) \/ Statement(t) \/ Finish(t) \/ SnapshotCommitState(t)
  \/ CallStep(t)

Next ==
  \/ \E t \in Threads : ThreadStep(t)
  \/ \E s \in Sessions : OnDetach(s) \/ Kill(s)
  \/ PublishedElsewhere

Spec == Init /\ [][Next]_vars

\* A client that goes on: it begins a transaction, runs a statement in it and,
\* when its database allows it, tries to commit.
Insists(t) ==
  \/ Begin(t)
  \/ used[t] = NullDb /\ Statement(t)
  \/ SnapshotCommitState(t)
  \/ used[t].version = MaxVersion /\ Finish(t)

\* No process ends, no transaction is rolled back, nobody but the server
\* refuses a commit.
RetryNext == \E t \in Threads : Insists(t) \/ CallStep(t)
\* Requests and file operations return, so a call that is under way goes on.
RetrySpec ==
  /\ Init /\ [][RetryNext]_vars
  /\ \A t \in Threads : WF_vars(Insists(t) \/ CallStep(t))

-----------------------------------------------------------------------------
(* Properties.                                                             *)

\* Every version the server was told is published is whole in _delta_log:
\* what InternalAttach copies, publishes as the watermark and the commit
\* callback sends on is never ahead of the files.
BackfilledCovered == \A v \in 0 .. backfilled : log[v] = "full"

\* A reader that lists _delta_log without the catalog finds no gap in it:
\* BackfillCommits breaks at a commit it could not copy, whichever sessions
\* copied the ones before.
LogHasNoGap ==
  \A v \in Versions : log[v] # "none" => \A u \in 0 .. v : log[u] = "full"

\* A transaction sees at least what its session had committed when it began:
\* MarkDirty comes after UpdateTable and before the commit returns, and the
\* next InternalAttach swaps a database that is dirty.
FreshReads ==
  \A t \in Threads : used[t] # NullDb => used[t].version >= floor[t]

\* The watermark of a session only advances while its TableInformation lives:
\* attach_lock keeps BackfillCommits' start value stable until the result is
\* published.
WatermarkNeverRetreats ==
  [][\A s \in Sessions : \/ watermark'[s] >= watermark[s]
                         \/ \A t \in ThreadsOf(s) : pc'[t] = "idle"]_vars

\* The transactions are those of a versioned table: snapshot reads, no lost
\* update.
Table == INSTANCE VersionedTable WITH
  reading   <- [t \in Threads |->
                  IF used[t] = NullDb THEN -1 ELSE used[t].version],
  committed <- [t \in Threads |-> pc[t] \in {"markdirty", "setetag"}]
ImplementsVersionedTable == Table!ASpec

\* attach_lock, held across the requests and the copies of an attach, is given
\* back by every way out of it: whoever holds it is still in InternalAttach.
AttachLockReleased ==
  \A s \in Sessions :
    lock[s] # NoThread => SessionOf[lock[s]] = s /\ pc[lock[s]] \in Attaching

\* test/oss_local/test_concurrent_rw.py: "losers get a version conflict and
\* retry against the advanced state".  A commit built on an old version is
\* followed by a transaction of that thread on the latest one.
LosersCatchUp ==
  \A t \in Threads :
    (pc[t] = "update" /\ used[t].version < latest)
      ~> (used[t] # NullDb /\ used[t].version = latest)

\* UCCommitState's comment: the pair is never "a stale etag with a newer
\* watermark".
EtagNotOlderThanWatermark ==
  \A s \in Sessions : watermark[s] <= etag[s]

-----------------------------------------------------------------------------
(* Inductive invariants.                                                   *)

\* A commit is built on a version below the bound, a copy is of a commit
\* LoadTable listed.
CommitInRange(t) ==
  pc[t] \in {"update", "markdirty", "setetag"} => used[t].version < MaxVersion
CopyInRange(t) == pc[t] = "write" => NextCommit(t) <= resp[t].last
InRange == \A t \in Threads : CommitInRange(t) /\ CopyInRange(t)
TypeInv == TypeOK /\ InRange

\* Every copy of a watermark, wherever it is held, is covered by the files.
Covered(v) == \A u \in 0 .. v : log[u] = "full"

ThreadCovered(t) ==
  /\ Covered(snapshot[t].wm)
  /\ Covered(local_wm[t])
  /\ Covered(resp[t].first - 1)
  /\ pc[t] # "write"

CoveredInv ==
  /\ BackfilledCovered
  /\ \A s \in Sessions : Covered(watermark[s])
  /\ \A t \in Threads : ThreadCovered(t)
  /\ \A v \in Versions : log[v] # "partial"
  /\ LogHasNoGap

\* A version that has everything the session's commits returned, and what the
\* commits past MarkDirty are about to return
UpToDate(s, v) ==
  /\ v >= acked[s]
  /\ \A u \in ThreadsOf(s) : pc[u] = "setetag" => v > used[u].version

SessionFresh(s) ==
  /\ latest >= acked[s]
  /\ attached[s] # NullDb /\ ~dirty[s] => UpToDate(s, attached[s].version)

\* attach_lock covers the whole of an attach, and each database a thread may
\* come to use is at least as new as its floor.
ThreadFresh(t) ==
  LET s == SessionOf[t]
  IN /\ pc[t] \in Attaching => lock[s] = t /\ attached[s] = NullDb
     /\ pc[t] \in Attaching \ {"load"} => UpToDate(s, resp[t].version)
     /\ floor[t] <= acked[s]
     /\ pc[t] = "use" /\ attached[s] # NullDb => attached[s].version >= floor[t]
     /\ pc[t] = "bind" => held[t].version >= floor[t]
     /\ used[t] # NullDb => used[t].version >= floor[t]
     /\ pc[t] \in {"markdirty", "setetag"} => latest > used[t].version
     /\ pc[t] = "idle" => used[t] = NullDb

FreshInv ==
  /\ \A s \in Sessions : SessionFresh(s)
  /\ \A t \in Threads : ThreadFresh(t)
=============================================================================
