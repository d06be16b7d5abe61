--------------------- MODULE CatalogManagedTableRefinement ---------------------
(***************************************************************************)
(* CatalogManagedTable implements VersionedTable, for any sessions and     *)
(* threads: every step of the code is a step of the abstract table, or     *)
(* none that the abstract table sees.                                      *)
(***************************************************************************)
EXTENDS CatalogManagedTableProofs

-----------------------------------------------------------------------------
(* The databases that threads hold.                                        *)

\* Databases are of versions that were ratified, and a thread that binds, or
\* commits, has one.
ThreadExist(t) ==
  /\ used[t].version <= latest
  /\ held[t].version <= latest
  /\ resp[t].version <= latest
  /\ pc[t] = "bind" => held[t] # NullDb
  /\ pc[t] \in {"update", "markdirty", "setetag"} => used[t] # NullDb

ExistInv ==
  /\ \A s \in Sessions : attached[s].version <= latest
  /\ \A t \in Threads : ThreadExist(t)

LEMMA ExistInit == Init => ExistInv
  BY ConstantsAssumption
  DEF ConstantsAssumption, Init, ExistInv, ThreadExist, NullDb, NoResult

\* Whatever ends, other threads keep what they have.
LEMMA EndTransactionsExist ==
  ASSUME TypeInv, TypeInv', ExistInv, NEW ts, EndTransactions(ts),
         latest' >= latest,
         \A s \in Sessions : attached'[s] \in {attached[s], NullDb}
  PROVE  ExistInv'
<1>1. latest \in Nat /\ latest' \in Nat
  BY ConstantsAssumption
  DEF ConstantsAssumption, TypeInv, TypeOK, ServerTypeOK, Versions
<1>2. ASSUME NEW t \in Threads PROVE ThreadExist(t)'
  <2>1. /\ used[t].version \in Int /\ held[t].version \in Int
        /\ resp[t].version \in Int
    BY ConstantsAssumption
    DEF ConstantsAssumption, TypeInv, TypeOK, ThreadTypeOK, Database, Versions,
        LoadResult
  <2>2. CASE t \in ts
    BY <1>1, <2>2
    DEF EndTransactions, Clear, ThreadExist, NullDb, NoResult
  <2>3. CASE t \notin ts
    BY <1>1, <2>1, <2>3
    DEF EndTransactions, Clear, ThreadExist, ExistInv
  <2>4. QED BY <2>2, <2>3
<1>3. ASSUME NEW s \in Sessions PROVE attached'[s].version <= latest'
  <2>1. attached[s].version \in Int
    BY ConstantsAssumption
    DEF ConstantsAssumption, TypeInv, TypeOK, SessionTypeOK, Database, Versions
  <2>2. QED BY <1>1, <2>1 DEF ExistInv, NullDb
<1>4. QED BY <1>2, <1>3 DEF ExistInv

\* One thread moves on, and the server's version does not.
LEMMA MovesExist ==
  ASSUME TypeInv, ExistInv, NEW t \in Threads, Moves(t), UNCHANGED latest,
         ThreadExist(t)',
         \A s \in Sessions : attached'[s].version <= latest
  PROVE  ExistInv'
<1>1. ThreadTypeOK
  BY DEF TypeInv, TypeOK
<1>2. \A u \in Threads : u # t => ThreadExist(u)'
  BY <1>1, MovesAlone DEF SameThread, ExistInv, ThreadExist
<1>3. QED BY <1>2 DEF ExistInv

LEMMA ExistStep ==
  TypeInv /\ TypeInv' /\ ExistInv /\ [Next]_vars => ExistInv'
<1> SUFFICES ASSUME TypeInv, TypeInv', ExistInv, [Next]_vars PROVE ExistInv'
  OBVIOUS
<1> USE DEF Versions, Database, LoadResult, NullDb, Goto
<1>a. /\ latest \in Int /\ attached \in [Sessions -> Database]
      /\ ThreadTypeOK /\ SessionOf \in [Threads -> Sessions]
      /\ latest' \in Int
  BY ConstantsAssumption
  DEF ConstantsAssumption, TypeInv, TypeOK, ServerTypeOK, SessionTypeOK
<1>b. \A s \in Sessions : attached[s].version <= latest
  BY DEF ExistInv
<1>c. \A t \in Threads : ThreadExist(t)
  BY DEF ExistInv
<1>1. ASSUME NEW t \in Threads, Begin(t) PROVE ExistInv'
  <2>1. UNCHANGED <<latest, attached>>
    BY <1>1 DEF Begin, sessionVars, serverVars
  <2>2. ThreadExist(t)'
    BY <1>1, <1>a, <1>b, <1>c, <2>1
    DEF Begin, ThreadExist, ThreadTypeOK
  <2>3. QED
    BY <1>1, <1>b, <2>1, <2>2, MovesExist DEF Moves
<1>2. ASSUME NEW t \in Threads, Statement(t) PROVE ExistInv'
  <2>1. UNCHANGED <<latest, attached>>
    BY <1>2 DEF Statement, sessionVars, serverVars
  <2>2. ThreadExist(t)'
    BY <1>2, <1>a, <1>b, <1>c, <2>1
    DEF Statement, ThreadExist, ThreadTypeOK
  <2>3. QED
    BY <1>2, <1>b, <2>1, <2>2, MovesExist DEF Moves
<1>3. ASSUME NEW t \in Threads, CopyCommit(t) PROVE ExistInv'
  <2>1. UNCHANGED <<latest, attached>>
    BY <1>3 DEF CopyCommit, sessionVars, serverVars
  <2>2. ThreadExist(t)'
    BY <1>3, <1>a, <1>b, <1>c, <2>1
    DEF CopyCommit, ThreadExist, ThreadTypeOK
  <2>3. QED
    BY <1>3, <1>b, <2>1, <2>2, MovesExist DEF Moves
<1>4. ASSUME NEW t \in Threads, FinishCopy(t) PROVE ExistInv'
  <2>1. UNCHANGED <<latest, attached>>
    BY <1>4 DEF FinishCopy, sessionVars, serverVars
  <2>2. ThreadExist(t)'
    BY <1>4, <1>a, <1>b, <1>c, <2>1
    DEF FinishCopy, ThreadExist, ThreadTypeOK
  <2>3. QED
    BY <1>4, <1>b, <2>1, <2>2, MovesExist DEF Moves
<1>5. ASSUME NEW t \in Threads, CopyFails(t) PROVE ExistInv'
  <2>1. UNCHANGED <<latest, attached>>
    BY <1>5 DEF CopyFails, sessionVars, serverVars
  <2>2. ThreadExist(t)'
    BY <1>5, <1>a, <1>b, <1>c, <2>1
    DEF CopyFails, ThreadExist, ThreadTypeOK
  <2>3. QED
    BY <1>5, <1>b, <2>1, <2>2, MovesExist DEF Moves
<1>6. ASSUME NEW t \in Threads, BackfillDone(t) PROVE ExistInv'
  <2>1. UNCHANGED <<latest, attached>>
    BY <1>6 DEF BackfillDone, sessionVars, serverVars
  <2>2. ThreadExist(t)'
    BY <1>6, <1>a, <1>b, <1>c, <2>1
    DEF BackfillDone, ThreadExist, ThreadTypeOK
  <2>3. QED
    BY <1>6, <1>b, <2>1, <2>2, MovesExist DEF Moves
<1>7. ASSUME NEW t \in Threads, PublishCommitState(t) PROVE ExistInv'
  <2>1. UNCHANGED <<latest, attached>>
    BY <1>7 DEF PublishCommitState, sessionVars, serverVars
  <2>2. ThreadExist(t)'
    BY <1>7, <1>a, <1>b, <1>c, <2>1
    DEF PublishCommitState, ThreadExist, ThreadTypeOK
  <2>3. QED
    BY <1>7, <1>b, <2>1, <2>2, MovesExist DEF Moves
<1>8. ASSUME NEW t \in Threads, GetInternalCatalog(t) PROVE ExistInv'
  <2>1. UNCHANGED <<latest, attached>>
    BY <1>8 DEF GetInternalCatalog, sessionVars, serverVars
  <2>2. ThreadExist(t)'
    BY <1>8, <1>a, <1>b, <1>c, <2>1
    DEF GetInternalCatalog, ThreadExist, ThreadTypeOK
  <2>3. QED
    BY <1>8, <1>b, <2>1, <2>2, MovesExist DEF Moves
<1>9. ASSUME NEW t \in Threads, UseCatalog(t) PROVE ExistInv'
  <2>1. UNCHANGED <<latest, attached>>
    BY <1>9 DEF UseCatalog, sessionVars, serverVars
  <2>2. ThreadExist(t)'
    BY <1>9, <1>a, <1>b, <1>c, <2>1
    DEF UseCatalog, ThreadExist, ThreadTypeOK
  <2>3. QED
    BY <1>9, <1>b, <2>1, <2>2, MovesExist DEF Moves
<1>10. ASSUME NEW t \in Threads, SnapshotCommitState(t) PROVE ExistInv'
  <2>1. UNCHANGED <<latest, attached>>
    BY <1>10 DEF SnapshotCommitState, sessionVars, serverVars
  <2>2. ThreadExist(t)'
    BY <1>10, <1>a, <1>b, <1>c, <2>1
    DEF SnapshotCommitState, ThreadExist, ThreadTypeOK
  <2>3. QED
    BY <1>10, <1>b, <2>1, <2>2, MovesExist DEF Moves
<1>11. ASSUME NEW t \in Threads, MarkDirty(t) PROVE ExistInv'
  <2>1. UNCHANGED <<latest, attached>>
    BY <1>11 DEF MarkDirty, sessionVars, serverVars
  <2>2. ThreadExist(t)'
    BY <1>11, <1>a, <1>b, <1>c, <2>1
    DEF MarkDirty, ThreadExist, ThreadTypeOK
  <2>3. QED
    BY <1>11, <1>b, <2>1, <2>2, MovesExist DEF Moves
<1>12. ASSUME NEW t \in Threads, TakeAttachLock(t) PROVE ExistInv'
  <2>1. ThreadExist(t)'
    BY <1>12, <1>a, <1>c DEF TakeAttachLock, serverVars, ThreadExist, ThreadTypeOK
  <2>2. \A s \in Sessions : attached'[s] \in {attached[s], NullDb}
    BY <1>12, <1>a DEF TakeAttachLock
  <2>3. 0 <= latest
    BY DEF TypeInv, TypeOK, ServerTypeOK
  <2>4. UNCHANGED latest
    BY <1>12 DEF TakeAttachLock, serverVars
  <2>5. QED
    BY <1>12, <1>b, <2>1, <2>2, <2>3, <2>4, MovesExist DEF Moves
<1>13. ASSUME NEW t \in Threads, LoadTable(t) PROVE ExistInv'
  <2>1. UNCHANGED <<latest, attached>> /\ 0 <= latest
    BY <1>13 DEF LoadTable, sessionVars, serverVars, TypeInv, TypeOK, ServerTypeOK
  <2>2. ThreadExist(t)'
    BY <1>13, <1>a, <1>c, <2>1
    DEF LoadTable, RatifiedVersions, ThreadExist, ThreadTypeOK
  <2>3. QED
    BY <1>13, <1>b, <2>1, <2>2, MovesExist DEF Moves
<1>14. ASSUME NEW t \in Threads, AttachDatabase(t) PROVE ExistInv'
  <2>1. PICK g :
          attached' = [attached EXCEPT ![SessionOf[t]] =
                         [gen |-> g, version |-> resp[t].version]]
    BY <1>14 DEF AttachDatabase
  <2>2. \A s \in Sessions : attached'[s].version <= latest
    BY <1>a, <1>b, <1>c, <2>1 DEF ThreadExist
  <2>3. UNCHANGED latest /\ 0 <= latest
    BY <1>14 DEF AttachDatabase, serverVars, TypeInv, TypeOK, ServerTypeOK
  <2>4. ThreadExist(t)'
    BY <1>14, <1>a, <1>c, <2>3
    DEF AttachDatabase, ThreadExist, ThreadTypeOK, NoResult
  <2>5. QED
    BY <1>14, <2>2, <2>3, <2>4, MovesExist DEF Moves
<1>15. ASSUME NEW t \in Threads, UpdateTable(t) PROVE ExistInv'
  <2>1. UNCHANGED <<attached, held, used, resp>> /\ latest' = latest + 1
    BY <1>15 DEF UpdateTable, Ratify, sessionVars
  <2>2. \A u \in Threads : pc'[u] = pc[u] \/ (u = t /\ pc'[u] = "markdirty")
    BY <1>15, <1>a DEF UpdateTable, ThreadTypeOK
  <2>3. pc[t] = "update"
    BY <1>15 DEF UpdateTable
  <2>4. \A u \in Threads : ThreadExist(u)'
    BY <1>a, <1>c, <2>1, <2>2, <2>3 DEF ThreadExist, ThreadTypeOK
  <2>5. \A s \in Sessions : attached'[s].version <= latest'
    BY <1>a, <1>b, <2>1
  <2>6. QED BY <2>4, <2>5 DEF ExistInv
<1>16. ASSUME NEW t \in Threads, Finish(t) PROVE ExistInv'
  <2>1. EndTransactions({t}) /\ latest' >= latest /\ UNCHANGED attached
    BY <1>16, <1>a DEF Finish, EndTransaction, serverVars, sessionVars
  <2>2. QED BY <2>1, EndTransactionsExist
<1>17. ASSUME NEW t \in Threads, AttachFails(t) PROVE ExistInv'
  <2>1. EndTransactions({t}) /\ latest' >= latest /\ UNCHANGED attached
    BY <1>17, <1>a DEF AttachFails, EndTransaction, serverVars, sessionVars
  <2>2. QED BY <2>1, EndTransactionsExist
<1>18. ASSUME NEW t \in Threads, SecondDatabaseRefused(t) PROVE ExistInv'
  <2>1. EndTransactions({t}) /\ latest' >= latest /\ UNCHANGED attached
    BY <1>18, <1>a DEF SecondDatabaseRefused, EndTransaction, serverVars, sessionVars
  <2>2. QED BY <2>1, EndTransactionsExist
<1>19. ASSUME NEW t \in Threads, UpdateTableFails(t) PROVE ExistInv'
  <2>1. EndTransactions({t}) /\ latest' >= latest /\ UNCHANGED attached
    BY <1>19, <1>a DEF UpdateTableFails, EndTransaction, serverVars, sessionVars
  <2>2. QED BY <2>1, EndTransactionsExist
<1>20. ASSUME NEW t \in Threads, UpdateTableAnswerLost(t) PROVE ExistInv'
  <2>1. EndTransactions({t}) /\ latest' >= latest /\ UNCHANGED attached
    BY <1>20, <1>a DEF UpdateTableAnswerLost, Ratify, EndTransaction, serverVars, sessionVars
  <2>2. QED BY <2>1, EndTransactionsExist
<1>21. ASSUME NEW t \in Threads, SetEtag(t) PROVE ExistInv'
  <2>1. EndTransactions({t}) /\ latest' >= latest /\ UNCHANGED attached
    BY <1>21, <1>a DEF SetEtag, EndTransaction, serverVars, sessionVars
  <2>2. QED BY <2>1, EndTransactionsExist
<1>22. ASSUME NEW t \in Threads, NullDereference(t) PROVE ExistInv'
  <2>1. EndTransactions(ThreadsOf(SessionOf[t])) /\ latest' >= latest
    BY <1>22, <1>a DEF NullDereference, ResetSession, serverVars
  <2>2. \A s \in Sessions : attached'[s] \in {attached[s], NullDb}
    BY <1>22, <1>a DEF NullDereference, ResetSession
  <2>3. QED BY <2>1, <2>2, EndTransactionsExist
<1>23. ASSUME NEW t \in Threads, DanglingDereference(t) PROVE ExistInv'
  <2>1. EndTransactions(ThreadsOf(SessionOf[t])) /\ latest' >= latest
    BY <1>23, <1>a DEF DanglingDereference, ResetSession, serverVars
  <2>2. \A s \in Sessions : attached'[s] \in {attached[s], NullDb}
    BY <1>23, <1>a DEF DanglingDereference, ResetSession
  <2>3. QED BY <2>1, <2>2, EndTransactionsExist
<1>24. ASSUME NEW s \in Sessions, OnDetach(s) PROVE ExistInv'
  <2>1. EndTransactions(ThreadsOf(s)) /\ latest' >= latest
    BY <1>24, <1>a DEF OnDetach, ResetSession, serverVars
  <2>2. \A r \in Sessions : attached'[r] \in {attached[r], NullDb}
    BY <1>24, <1>a DEF OnDetach, ResetSession
  <2>3. QED BY <2>1, <2>2, EndTransactionsExist
<1>25. ASSUME NEW s \in Sessions, Kill(s) PROVE ExistInv'
  <2>1. EndTransactions(ThreadsOf(s)) /\ latest' >= latest
    BY <1>25, <1>a DEF Kill, ResetSession, serverVars
  <2>2. \A r \in Sessions : attached'[r] \in {attached[r], NullDb}
    BY <1>25, <1>a DEF Kill, ResetSession
  <2>3. QED BY <2>1, <2>2, EndTransactionsExist
<1>26. CASE PublishedElsewhere \/ UNCHANGED vars
  BY <1>26, <1>b, <1>c
  DEF PublishedElsewhere, vars, serverVars, sessionVars, threadVars, ExistInv,
      ThreadExist
<1>27. QED
  BY <1>1, <1>2, <1>3, <1>4, <1>5, <1>6, <1>7, <1>8, <1>9, <1>10, <1>11,
     <1>12, <1>13, <1>14, <1>15, <1>16, <1>17, <1>18, <1>19, <1>20,
     <1>21, <1>22, <1>23, <1>24, <1>25, <1>26
  DEF Next, ThreadStep, CallStep, AttachStep, CatalogStep, CommitStep

-----------------------------------------------------------------------------
(* The steps of the abstract table.                                        *)

Reading == [t \in Threads |-> IF used[t] = NullDb THEN -1 ELSE used[t].version]

Past(label) == label \in {"markdirty", "setetag"}
Committed == [t \in Threads |-> pc[t] \in {"markdirty", "setetag"}]

LEMMA SameCommitted ==
  ASSUME \A t \in Threads : Past(pc'[t]) <=> Past(pc[t])
  PROVE  Committed' = Committed
<1>1. /\ Committed = [t \in Threads |-> Past(pc[t])]
      /\ Committed' = [t \in Threads |-> Past(pc'[t])]
  BY DEF Committed, Past
<1>2. \A label : Past(label) \in BOOLEAN
  BY DEF Past
<1>3. \A t \in Threads : Past(pc'[t]) = Past(pc[t])
  BY <1>2, SMT
<1>4. QED BY <1>1, <1>3, Zenon

\* A step that the abstract table does not see
LEMMA Unseen ==
  ASSUME UNCHANGED <<latest, floor, acked>>,
         \A t \in Threads : used'[t] = used[t],
         \A t \in Threads : Past(pc'[t]) <=> Past(pc[t])
  PROVE  UNCHANGED Table!avars
<1>1. Reading' = Reading
  BY DEF Reading
<1>2. Committed' = Committed
  BY SameCommitted
<1>3. QED
  BY <1>1, <1>2 DEF Table!avars, Reading, Committed

\* Transactions that are over
LEMMA TransactionsEnd ==
  ASSUME NEW ts, EndTransactions(ts)
  PROVE  Table!Finished(ts)
<1>1. Reading' = [t \in Threads |-> IF t \in ts THEN -1 ELSE Reading[t]]
  BY DEF EndTransactions, Clear, Reading
<1>2. Committed' = [t \in Threads |-> IF t \in ts THEN FALSE ELSE Committed[t]]
  <2>1. \A t \in Threads : pc'[t] = IF t \in ts THEN "idle" ELSE pc[t]
    BY DEF EndTransactions, Clear
  <2>2. Past("idle") = FALSE
    BY DEF Past
  <2>3. ASSUME NEW t \in Threads
        PROVE  Past(pc'[t]) = IF t \in ts THEN FALSE ELSE Past(pc[t])
    <3>1. CASE t \in ts
      <4>1. pc'[t] = "idle"
        BY <2>1, <3>1
      <4>2. Past(pc'[t]) = FALSE
        BY <2>2, <4>1, Zenon
      <4>3. QED BY <3>1, <4>2, Zenon
    <3>2. CASE t \notin ts
      <4>1. pc'[t] = pc[t]
        BY <2>1, <3>2
      <4>2. QED BY <3>2, <4>1, Zenon
    <3>3. QED BY <3>1, <3>2
  <2>4. /\ Committed = [t \in Threads |-> Past(pc[t])]
        /\ Committed' = [t \in Threads |-> Past(pc'[t])]
    BY DEF Committed, Past
  <2>5. QED
    BY <2>3, <2>4, Zenon
<1>3. floor' = [t \in Threads |-> IF t \in ts THEN 0 ELSE floor[t]]
  BY DEF EndTransactions, Clear
<1>4. QED
  BY <1>1, <1>2, <1>3
  DEF Table!Finished, Table!Nothing, Reading, Committed

\* A step of one thread, within a call, that neither opens a database nor
\* commits
LEMMA QuietStep ==
  ASSUME TypeInv, NEW t \in Threads, Moves(t),
         UNCHANGED <<latest, floor, acked, used>>,
         \/ pc[t] = "markdirty" /\ pc'[t] = "setetag"
         \/ {pc[t], pc'[t]} \cap {"markdirty", "setetag"} = {}
  PROVE  UNCHANGED Table!avars
<1>1. \A u \in Threads : u # t => pc'[u] = pc[u]
  BY MovesAlone DEF SameThread, TypeInv, TypeOK
<1>2. Past(pc'[t]) <=> Past(pc[t])
  BY DEF Past
<1>3. \A u \in Threads : Past(pc'[u]) <=> Past(pc[u])
  BY <1>1, <1>2
<1>4. QED BY <1>3, Unseen

LEMMA RefineStep ==
  ASSUME TypeInv, FreshInv, ExistInv, [Next]_vars
  PROVE  [Table!ANext]_(Table!avars)
<1>a. /\ latest \in Nat /\ ThreadTypeOK
      /\ SessionOf \in [Threads -> Sessions]
      /\ acked \in [Sessions -> Versions]
  BY ConstantsAssumption
  DEF ConstantsAssumption, TypeInv, TypeOK, ServerTypeOK, Versions
<1>b. \A t \in Threads : ThreadExist(t) /\ ThreadFresh(t)
  BY DEF ExistInv, FreshInv
<1>c. ASSUME NEW ts, ts \in SUBSET Threads, EndTransactions(ts),
             UNCHANGED <<latest, acked>>
      PROVE  Table!ANext
  BY <1>c, TransactionsEnd DEF Table!ANext, Table!End
<1>d. \A s \in Sessions : ThreadsOf(s) \in SUBSET Threads
  BY DEF ThreadsOf
<1>1. ASSUME NEW t \in Threads, Statement(t) PROVE UNCHANGED Table!avars
  BY <1>1, <1>a, QuietStep
  DEF Statement, Moves, Goto, ThreadTypeOK, serverVars, sessionVars
<1>2. ASSUME NEW t \in Threads, TakeAttachLock(t) PROVE UNCHANGED Table!avars
  BY <1>2, <1>a, QuietStep
  DEF TakeAttachLock, Moves, Goto, ThreadTypeOK, serverVars, sessionVars
<1>3. ASSUME NEW t \in Threads, LoadTable(t) PROVE UNCHANGED Table!avars
  BY <1>3, <1>a, QuietStep
  DEF LoadTable, Moves, Goto, ThreadTypeOK, serverVars, sessionVars
<1>4. ASSUME NEW t \in Threads, CopyCommit(t) PROVE UNCHANGED Table!avars
  BY <1>4, <1>a, QuietStep
  DEF CopyCommit, Moves, Goto, ThreadTypeOK, serverVars, sessionVars
<1>5. ASSUME NEW t \in Threads, FinishCopy(t) PROVE UNCHANGED Table!avars
  BY <1>5, <1>a, QuietStep
  DEF FinishCopy, Moves, Goto, ThreadTypeOK, serverVars, sessionVars
<1>6. ASSUME NEW t \in Threads, CopyFails(t) PROVE UNCHANGED Table!avars
  BY <1>6, <1>a, QuietStep
  DEF CopyFails, Moves, Goto, ThreadTypeOK, serverVars, sessionVars
<1>7. ASSUME NEW t \in Threads, BackfillDone(t) PROVE UNCHANGED Table!avars
  BY <1>7, <1>a, QuietStep
  DEF BackfillDone, Moves, Goto, ThreadTypeOK, serverVars, sessionVars
<1>8. ASSUME NEW t \in Threads, PublishCommitState(t) PROVE UNCHANGED Table!avars
  BY <1>8, <1>a, QuietStep
  DEF PublishCommitState, Moves, Goto, ThreadTypeOK, serverVars, sessionVars
<1>9. ASSUME NEW t \in Threads, AttachDatabase(t) PROVE UNCHANGED Table!avars
  BY <1>9, <1>a, QuietStep
  DEF AttachDatabase, Moves, Goto, ThreadTypeOK, serverVars, sessionVars
<1>10. ASSUME NEW t \in Threads, GetInternalCatalog(t) PROVE UNCHANGED Table!avars
  BY <1>10, <1>a, QuietStep
  DEF GetInternalCatalog, Moves, Goto, ThreadTypeOK, serverVars, sessionVars
<1>11. ASSUME NEW t \in Threads, SnapshotCommitState(t) PROVE UNCHANGED Table!avars
  BY <1>11, <1>a, QuietStep
  DEF SnapshotCommitState, Moves, Goto, ThreadTypeOK, serverVars, sessionVars
<1>12. ASSUME NEW t \in Threads, MarkDirty(t) PROVE UNCHANGED Table!avars
  BY <1>12, <1>a, QuietStep
  DEF MarkDirty, Moves, Goto, ThreadTypeOK, serverVars, sessionVars
<1>13. ASSUME NEW t \in Threads, Finish(t) PROVE Table!ANext
  BY <1>13, <1>c DEF Finish, EndTransaction, serverVars
<1>14. ASSUME NEW t \in Threads, AttachFails(t) PROVE Table!ANext
  BY <1>14, <1>c DEF AttachFails, EndTransaction, serverVars
<1>15. ASSUME NEW t \in Threads, SecondDatabaseRefused(t) PROVE Table!ANext
  BY <1>15, <1>c DEF SecondDatabaseRefused, EndTransaction, serverVars
<1>16. ASSUME NEW t \in Threads, UpdateTableFails(t) PROVE Table!ANext
  BY <1>16, <1>c DEF UpdateTableFails, EndTransaction, serverVars
<1>17. ASSUME NEW t \in Threads, NullDereference(t) PROVE Table!ANext
  BY <1>17, <1>a, <1>c, <1>d DEF NullDereference, ResetSession, serverVars
<1>18. ASSUME NEW t \in Threads, DanglingDereference(t) PROVE Table!ANext
  BY <1>18, <1>a, <1>c, <1>d DEF DanglingDereference, ResetSession, serverVars
<1>19. ASSUME NEW s \in Sessions, OnDetach(s) PROVE Table!ANext
  BY <1>19, <1>c, <1>d DEF OnDetach, ResetSession, serverVars
<1>20. ASSUME NEW s \in Sessions, Kill(s) PROVE Table!ANext
  BY <1>20, <1>c, <1>d DEF Kill, ResetSession, serverVars
<1>21. ASSUME NEW t \in Threads, Begin(t) PROVE Table!Began(t)
  <2>1. UNCHANGED <<latest, acked, used>>
    BY <1>21 DEF Begin, serverVars
  <2>2. used[t] = NullDb /\ pc[t] = "idle"
    BY <1>21, <1>b DEF Begin, ThreadFresh
  <2>3. Reading[t] = -1 /\ Reading' = Reading
    BY <2>1, <2>2 DEF Reading
  <2>4. \A u \in Threads : Past(pc'[u]) <=> Past(pc[u])
    BY <1>21, <1>a, <2>2 DEF Begin, Goto, ThreadTypeOK, Past
  <2>5. Committed' = Committed
    BY <2>4, SameCommitted
  <2>6. floor' = [floor EXCEPT ![t] = acked[SessionOf[t]]]
    BY <1>21 DEF Begin
  <2>7. QED
    BY <2>1, <2>3, <2>5, <2>6
    DEF Table!Began, Table!Nothing, Reading, Committed
<1>22. ASSUME NEW t \in Threads, UseCatalog(t)
      PROVE  Table!Read(t) \/ UNCHANGED Table!avars
  <2>1. UNCHANGED <<latest, floor, acked>> /\ pc[t] = "bind"
    BY <1>22 DEF UseCatalog, serverVars
  <2>2. used' = [used EXCEPT ![t] = held[t]] /\ held[t] # NullDb
    BY <1>22, <1>b, <2>1 DEF UseCatalog, ThreadExist
  <2>3. CASE used[t] = held[t]
    <3>1. used' = used
      BY <1>a, <2>2, <2>3 DEF ThreadTypeOK
    <3>2. QED
      BY <1>22, <1>a, <2>1, <3>1, QuietStep
      DEF UseCatalog, Moves, Goto, ThreadTypeOK
  <2>4. CASE used[t] = NullDb
    <3>1. Reading[t] = -1
      BY <2>4 DEF Reading
    <3>2. held[t].version \in floor[t] .. latest
      BY <1>a, <1>b, <2>1
      DEF ThreadFresh, ThreadExist, ThreadTypeOK, Database, Versions
    <3>3. Reading' = [Reading EXCEPT ![t] = held[t].version]
      BY <1>a, <2>2 DEF Reading, ThreadTypeOK
    <3>4. \A u \in Threads : Past(pc'[u]) <=> Past(pc[u])
      BY <1>22, <1>a, <2>1 DEF UseCatalog, Goto, ThreadTypeOK, Past
    <3>5. Committed' = Committed
      BY <3>4, SameCommitted
    <3>6. QED
      BY <2>1, <3>1, <3>2, <3>3, <3>5
      DEF Table!Read, Table!Nothing, Reading, Committed
  <2>5. QED
    BY <1>22, <2>2, <2>3, <2>4 DEF UseCatalog
<1>23. ASSUME NEW t \in Threads, UpdateTable(t) PROVE Table!Commit(t)
  <2>1. /\ UNCHANGED <<floor, acked, used>> /\ pc[t] = "update"
        /\ latest' = latest + 1 /\ used[t].version = latest
        /\ pc' = [pc EXCEPT ![t] = "markdirty"]
    BY <1>23 DEF UpdateTable, Ratify, Accepts, Goto
  <2>2. Reading[t] = latest /\ Reading' = Reading
    BY <1>b, <2>1 DEF Reading, ThreadExist
  <2>3. \A u \in Threads :
          /\ u # t => pc'[u] = pc[u]
          /\ pc'[t] \in {"markdirty", "setetag"}
          /\ pc[t] \notin {"markdirty", "setetag"}
    BY <1>a, <2>1 DEF ThreadTypeOK
  <2>4. ~Committed[t] /\ Committed' = [Committed EXCEPT ![t] = TRUE]
    BY <2>3, Zenon DEF Committed
  <2>5. QED
    BY <2>1, <2>2, <2>4 DEF Table!Commit, Reading, Committed
<1>24. ASSUME NEW t \in Threads, UpdateTableAnswerLost(t) PROVE Table!Commit(t)
  <2>1. /\ UNCHANGED acked /\ pc[t] = "update" /\ EndTransactions({t})
        /\ latest' = latest + 1 /\ used[t].version = latest
    BY <1>24 DEF UpdateTableAnswerLost, Ratify, Accepts, EndTransaction
  <2>2. Reading[t] = latest
    BY <1>b, <2>1 DEF Reading, ThreadExist
  <2>3. pc[t] \notin {"markdirty", "setetag"}
    BY <2>1
  <2>4. ~Committed[t]
    BY <2>3, Zenon DEF Committed
  <2>5. QED
    BY <2>1, <2>2, <2>4, TransactionsEnd DEF Table!Commit, Reading, Committed
<1>25. ASSUME NEW t \in Threads, SetEtag(t) PROVE Table!Return(t)
  <2> DEFINE v == used[t].version + 1
             s == SessionOf[t]
  <2>1. /\ UNCHANGED latest /\ pc[t] = "setetag" /\ EndTransactions({t})
        /\ acked' = [acked EXCEPT ![s] = IF acked[s] >= v THEN acked[s] ELSE v]
    BY <1>25 DEF SetEtag, EndTransaction, serverVars, MaxOf
  <2>2. Reading[t] + 1 = v
    BY <1>b, <2>1 DEF Reading, ThreadExist
  <2>3. pc[t] \in {"markdirty", "setetag"}
    BY <2>1
  <2>4. Committed[t]
    BY <2>3, Zenon DEF Committed
  <2>5. acked[s] \in Int /\ v \in Int
    BY <1>a DEF ThreadTypeOK, Database, Versions
  <2>6. \E w \in {v, acked[s]} : /\ w >= v /\ w >= acked[s]
                                /\ acked' = [acked EXCEPT ![s] = w]
    <3>1. CASE acked[s] >= v
      BY <2>1, <2>5, <3>1
    <3>2. CASE ~(acked[s] >= v)
      BY <2>1, <2>5, <3>2
    <3>3. QED BY <3>1, <3>2
  <2>7. QED
    BY <2>1, <2>2, <2>4, <2>6, TransactionsEnd
    DEF Table!Return, Reading, Committed
<1>26. CASE PublishedElsewhere
  BY <1>26, Unseen DEF PublishedElsewhere, threadVars
<1>27. CASE UNCHANGED vars
  BY <1>27, Unseen DEF vars, serverVars, threadVars
<1>28. QED
  BY <1>1, <1>2, <1>3, <1>4, <1>5, <1>6, <1>7, <1>8, <1>9, <1>10, <1>11,
     <1>12, <1>13, <1>14, <1>15, <1>16, <1>17, <1>18, <1>19, <1>20,
     <1>21, <1>22, <1>23, <1>24, <1>25, <1>26, <1>27
  DEF Next, ThreadStep, CallStep, AttachStep, CatalogStep, CommitStep,
      Table!ANext

\* The transactions of any number of threads and sessions, whatever fails, is
\* killed or published elsewhere, are those of a versioned table: each reads one
\* ratified version no older than what its session had seen return, and a
\* commit takes effect only on top of the version that its transaction read.
THEOREM VersionedTableIsImplemented ==
  ASSUME OptionalFields
  PROVE  Spec => ImplementsVersionedTable
<1>1. Init => Table!AInit
  <2> SUFFICES ASSUME Init PROVE Table!AInit
    OBVIOUS
  <2>2. Reading = [t \in Threads |-> Table!Nothing]
    BY DEF Init, Reading, Table!Nothing
  <2>3. \A t \in Threads : Past(pc[t]) = FALSE
    BY DEF Init, Past
  <2>4. Committed = [t \in Threads |-> Past(pc[t])]
    BY DEF Committed, Past
  <2>5. Committed = [t \in Threads |-> FALSE]
    BY <2>3, <2>4, Zenon
  <2>6. QED
    BY <2>2, <2>5
    DEF Init, Table!AInit, Table!Nothing, Reading, Committed
<1>2. TypeInv /\ FreshInv /\ ExistInv /\ [Next]_vars
        => [Table!ANext]_(Table!avars)
  BY RefineStep
<1>3. QED
  BY <1>1, <1>2, TypeInit, TypeStep, FreshInit, FreshStep, ExistInit, ExistStep,
     PTL
  DEF Spec, ImplementsVersionedTable, Table!ASpec
=============================================================================
