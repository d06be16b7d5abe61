--------------------- MODULE CatalogManagedTableProofs ---------------------
(***************************************************************************)
(* Theorems about CatalogManagedTable, for any number of sessions, threads *)
(* and versions: type correctness, what _delta_log holds, the freshness of *)
(* reads, and the watermark.                                               *)
(***************************************************************************)
EXTENDS CatalogManagedTable, TLAPS

USE DEF Versions, NoEtag, NoVersion, NullDb, Database, LoadResult,
        CommitState, NoResult, NoSnapshot, Labels, MaxOf,
        serverVars, sessionVars, threadVars

-----------------------------------------------------------------------------
(* What a step leaves alone.                                               *)

SameThread(u) ==
  /\ pc'[u] = pc[u]
  /\ held'[u] = held[u]
  /\ used'[u] = used[u]
  /\ floor'[u] = floor[u]
  /\ resp'[u] = resp[u]
  /\ local_wm'[u] = local_wm[u]
  /\ snapshot'[u] = snapshot[u]

\* The steps in which a thread moves on, and those that end its transaction
Moves(t) ==
  \/ Begin(t) \/ Statement(t) \/ TakeAttachLock(t) \/ LoadTable(t)
  \/ CopyCommit(t) \/ FinishCopy(t) \/ CopyFails(t) \/ BackfillDone(t)
  \/ PublishCommitState(t) \/ AttachDatabase(t) \/ GetInternalCatalog(t)
  \/ UseCatalog(t) \/ SnapshotCommitState(t) \/ UpdateTable(t)
  \/ MarkDirty(t)

Ends(t) ==
  \/ Finish(t) \/ AttachFails(t) \/ SecondDatabaseRefused(t)
  \/ UpdateTableFails(t) \/ UpdateTableAnswerLost(t) \/ SetEtag(t)

LEMMA MovesAlone ==
  ASSUME ThreadTypeOK, NEW t \in Threads, Moves(t), NEW u \in Threads, u # t
  PROVE  SameThread(u)
<1> USE DEF SameThread, ThreadTypeOK, Goto
<1>1. CASE Begin(t)
  BY <1>1 DEF Begin
<1>2. CASE Statement(t)
  BY <1>2 DEF Statement
<1>3. CASE TakeAttachLock(t)
  BY <1>3 DEF TakeAttachLock
<1>4. CASE LoadTable(t)
  BY <1>4 DEF LoadTable
<1>5. CASE CopyCommit(t)
  BY <1>5 DEF CopyCommit
<1>6. CASE FinishCopy(t)
  BY <1>6 DEF FinishCopy
<1>7. CASE CopyFails(t)
  BY <1>7 DEF CopyFails
<1>8. CASE BackfillDone(t)
  BY <1>8 DEF BackfillDone
<1>9. CASE PublishCommitState(t)
  BY <1>9 DEF PublishCommitState
<1>10. CASE AttachDatabase(t)
  BY <1>10 DEF AttachDatabase
<1>11. CASE GetInternalCatalog(t)
  BY <1>11 DEF GetInternalCatalog
<1>12. CASE UseCatalog(t)
  BY <1>12 DEF UseCatalog
<1>13. CASE SnapshotCommitState(t)
  BY <1>13 DEF SnapshotCommitState
<1>14. CASE UpdateTable(t)
  BY <1>14 DEF UpdateTable
<1>15. CASE MarkDirty(t)
  BY <1>15 DEF MarkDirty
<1>16. QED
  BY <1>1, <1>2, <1>3, <1>4, <1>5, <1>6, <1>7, <1>8, <1>9, <1>10, <1>11, <1>12,
     <1>13, <1>14, <1>15
     DEF Moves

LEMMA EndTransactionsAlone ==
  ASSUME NEW ts, EndTransactions(ts)
  PROVE  /\ \A u \in Threads : u \notin ts => SameThread(u)
         /\ \A u \in Threads : u \in ts => /\ pc'[u] = "idle"
                                           /\ used'[u] = NullDb
                                           /\ floor'[u] = 0
                                           /\ resp'[u] = NoResult
                                           /\ local_wm'[u] = NoVersion
                                           /\ snapshot'[u] = NoSnapshot
<1>1. ASSUME NEW u \in Threads, u \notin ts PROVE SameThread(u)
  BY <1>1 DEF SameThread, EndTransactions, Clear
<1>2. ASSUME NEW u \in Threads, u \in ts
      PROVE  /\ pc'[u] = "idle"
             /\ used'[u] = NullDb
             /\ floor'[u] = 0
             /\ resp'[u] = NoResult
             /\ local_wm'[u] = NoVersion
             /\ snapshot'[u] = NoSnapshot
  BY <1>2 DEF EndTransactions, Clear
<1>3. QED
  BY <1>1, <1>2

-----------------------------------------------------------------------------
(* Type correctness.                                                       *)

\* The ranges hold of a thread that is unchanged or starts over.
LEMMA EndTransactionsType ==
  ASSUME NEW ts, ThreadTypeOK, InRange, EndTransactions(ts)
  PROVE  ThreadTypeOK' /\ InRange'
<1>1. ThreadTypeOK'
  BY ConstantsAssumption
     DEF EndTransactions, Clear, ThreadTypeOK, ConstantsAssumption
<1>2. QED
  BY <1>1, EndTransactionsAlone
     DEF SameThread, InRange, CommitInRange, CopyInRange, NextCommit

LEMMA MovesInRange ==
  ASSUME ThreadTypeOK, InRange, NEW t \in Threads, Moves(t),
         CommitInRange(t)', CopyInRange(t)'
  PROVE  InRange'
  BY MovesAlone DEF SameThread, InRange, CommitInRange, CopyInRange, NextCommit

LEMMA TypeInit == Init => TypeInv
  BY ConstantsAssumption
     DEF ConstantsAssumption, Init, TypeInv, TypeOK, ServerTypeOK,
         SessionTypeOK, ThreadTypeOK, InRange, CommitInRange, CopyInRange

LEMMA TypeStep == TypeInv /\ [Next]_vars => TypeInv'
<1> SUFFICES ASSUME TypeInv, [Next]_vars PROVE TypeInv'
  OBVIOUS
<1> ConstantsAssumption
  BY ConstantsAssumption
<1> USE DEF ConstantsAssumption
<1>a. ServerTypeOK /\ SessionTypeOK /\ ThreadTypeOK /\ InRange
  BY DEF TypeInv, TypeOK
<1>1. ASSUME NEW t \in Threads, Begin(t) PROVE TypeInv'
  <2>1. ServerTypeOK'
    BY <1>1, <1>a DEF Begin, ServerTypeOK
  <2>2. SessionTypeOK'
    BY <1>1, <1>a DEF Begin, SessionTypeOK
  <2>3. ThreadTypeOK'
    BY <1>1, <1>a DEF Begin, Goto, ThreadTypeOK, ServerTypeOK
  <2>4. CommitInRange(t)' /\ CopyInRange(t)'
    BY <1>1, <1>a
       DEF Begin, Goto, ThreadTypeOK, InRange, CommitInRange, CopyInRange
  <2>5. QED
    BY <1>1, <1>a, <2>1, <2>2, <2>3, <2>4, MovesInRange
       DEF Moves, TypeInv, TypeOK
<1>2. ASSUME NEW t \in Threads, Statement(t) PROVE TypeInv'
  <2>1. ServerTypeOK'
    BY <1>2, <1>a DEF Statement, ServerTypeOK
  <2>2. SessionTypeOK'
    BY <1>2, <1>a DEF Statement, SessionTypeOK
  <2>3. ThreadTypeOK'
    BY <1>2, <1>a DEF Statement, Goto, ThreadTypeOK
  <2>4. CommitInRange(t)' /\ CopyInRange(t)'
    BY <1>2, <1>a
       DEF Statement, Goto, ThreadTypeOK, InRange, CommitInRange, CopyInRange
  <2>5. QED
    BY <1>2, <1>a, <2>1, <2>2, <2>3, <2>4, MovesInRange
       DEF Moves, TypeInv, TypeOK
<1>3. ASSUME NEW t \in Threads, TakeAttachLock(t) PROVE TypeInv'
  <2>1. ServerTypeOK'
    BY <1>3, <1>a DEF TakeAttachLock, ServerTypeOK
  <2>2. SessionTypeOK'
    BY <1>3, <1>a DEF TakeAttachLock, ReadByThisTransaction, SessionTypeOK
  <2>3. ThreadTypeOK'
    BY <1>3, <1>a DEF TakeAttachLock, Goto, ThreadTypeOK
  <2>4. CommitInRange(t)' /\ CopyInRange(t)'
    BY <1>3, <1>a
       DEF TakeAttachLock, Goto, ThreadTypeOK, InRange, CommitInRange,
           CopyInRange
  <2>5. QED
    BY <1>3, <1>a, <2>1, <2>2, <2>3, <2>4, MovesInRange
       DEF Moves, TypeInv, TypeOK
<1>4. ASSUME NEW t \in Threads, LoadTable(t) PROVE TypeInv'
  <2>p. PICK v \in RatifiedVersions, e \in Etags(latest) :
          resp' = [resp EXCEPT ![t] = [version |-> v, etag |-> e,
                                       first |-> backfilled + 1,
                                       last |-> latest]]
    BY <1>4 DEF LoadTable
  <2>q. [version |-> v, etag |-> e, first |-> backfilled + 1, last |-> latest]
          \in LoadResult
    BY <1>a DEF ServerTypeOK, RatifiedVersions, Etags
  <2>1. ServerTypeOK'
    BY <1>4, <1>a, <2>p, <2>q DEF LoadTable, ServerTypeOK
  <2>2. SessionTypeOK'
    BY <1>4, <1>a DEF LoadTable, SessionTypeOK
  <2>3. ThreadTypeOK'
    BY <1>4, <1>a, <2>p, <2>q DEF LoadTable, Goto, ThreadTypeOK, SessionTypeOK
  <2>4. CommitInRange(t)' /\ CopyInRange(t)'
    BY <1>4, <1>a
       DEF LoadTable, Goto, ThreadTypeOK, InRange, CommitInRange, CopyInRange
  <2>5. QED
    BY <1>4, <1>a, <2>1, <2>2, <2>3, <2>4, MovesInRange
       DEF Moves, TypeInv, TypeOK
<1>5. ASSUME NEW t \in Threads, CopyCommit(t) PROVE TypeInv'
  <2>p. resp[t] \in LoadResult /\ local_wm[t] \in Versions \cup {NoVersion}
    BY <1>a DEF ThreadTypeOK
  <2>q. NextCommit(t) <= resp[t].last
    BY <1>5 DEF CopyCommit
  <2>r. NextCommit(t) \in Versions
    BY <2>p, <2>q DEF NextCommit
  <2>s. local_wm' \in [Threads -> Versions \cup {NoVersion}]
    BY <1>5, <1>a, <2>r DEF CopyCommit, ThreadTypeOK
  <2>t. pc' \in [Threads -> Labels]
    BY <1>5, <1>a DEF CopyCommit, Goto, ThreadTypeOK
  <2>1. ServerTypeOK'
    BY <1>5, <1>a, <2>r DEF CopyCommit, ServerTypeOK
  <2>2. SessionTypeOK'
    BY <1>5, <1>a DEF CopyCommit, SessionTypeOK
  <2>3. ThreadTypeOK'
    BY <1>5, <1>a, <2>s, <2>t DEF CopyCommit, ThreadTypeOK
  <2>4. CommitInRange(t)' /\ CopyInRange(t)'
    BY <1>5, <1>a, <2>q
       DEF CopyCommit, Goto, ThreadTypeOK, InRange, CommitInRange, CopyInRange,
           NextCommit
  <2>5. QED
    BY <1>5, <1>a, <2>1, <2>2, <2>3, <2>4, MovesInRange
       DEF Moves, TypeInv, TypeOK
<1>6. ASSUME NEW t \in Threads, FinishCopy(t) PROVE TypeInv'
  <2>p. resp[t] \in LoadResult /\ local_wm[t] \in Versions \cup {NoVersion}
    BY <1>a DEF ThreadTypeOK
  <2>q. NextCommit(t) <= resp[t].last
    BY <1>6, <1>a DEF FinishCopy, InRange, CopyInRange
  <2>r. NextCommit(t) \in Versions
    BY <2>p, <2>q DEF NextCommit
  <2>1. ServerTypeOK'
    BY <1>6, <1>a, <2>r DEF FinishCopy, ServerTypeOK
  <2>2. SessionTypeOK'
    BY <1>6, <1>a DEF FinishCopy, SessionTypeOK
  <2>3. ThreadTypeOK'
    BY <1>6, <1>a, <2>r DEF FinishCopy, Goto, ThreadTypeOK
  <2>4. CommitInRange(t)' /\ CopyInRange(t)'
    BY <1>6, <1>a
       DEF FinishCopy, Goto, ThreadTypeOK, InRange, CommitInRange, CopyInRange
  <2>5. QED
    BY <1>6, <1>a, <2>1, <2>2, <2>3, <2>4, MovesInRange
       DEF Moves, TypeInv, TypeOK
<1>7. ASSUME NEW t \in Threads, CopyFails(t) PROVE TypeInv'
  <2>1. ServerTypeOK'
    BY <1>7, <1>a DEF CopyFails, ServerTypeOK
  <2>2. SessionTypeOK'
    BY <1>7, <1>a DEF CopyFails, SessionTypeOK
  <2>3. ThreadTypeOK'
    BY <1>7, <1>a DEF CopyFails, Goto, ThreadTypeOK
  <2>4. CommitInRange(t)' /\ CopyInRange(t)'
    BY <1>7, <1>a
       DEF CopyFails, Goto, ThreadTypeOK, InRange, CommitInRange, CopyInRange
  <2>5. QED
    BY <1>7, <1>a, <2>1, <2>2, <2>3, <2>4, MovesInRange
       DEF Moves, TypeInv, TypeOK
<1>8. ASSUME NEW t \in Threads, BackfillDone(t) PROVE TypeInv'
  <2>1. ServerTypeOK'
    BY <1>8, <1>a DEF BackfillDone, ServerTypeOK
  <2>2. SessionTypeOK'
    BY <1>8, <1>a DEF BackfillDone, SessionTypeOK
  <2>3. ThreadTypeOK'
    BY <1>8, <1>a DEF BackfillDone, Goto, ThreadTypeOK
  <2>4. CommitInRange(t)' /\ CopyInRange(t)'
    BY <1>8, <1>a
       DEF BackfillDone, Goto, ThreadTypeOK, InRange, CommitInRange,
           CopyInRange
  <2>5. QED
    BY <1>8, <1>a, <2>1, <2>2, <2>3, <2>4, MovesInRange
       DEF Moves, TypeInv, TypeOK
<1>9. ASSUME NEW t \in Threads, PublishCommitState(t) PROVE TypeInv'
  <2>1. ServerTypeOK'
    BY <1>9, <1>a DEF PublishCommitState, ServerTypeOK
  <2>2. SessionTypeOK'
    BY <1>9, <1>a DEF PublishCommitState, SessionTypeOK, ThreadTypeOK
  <2>3. ThreadTypeOK'
    BY <1>9, <1>a DEF PublishCommitState, Goto, ThreadTypeOK
  <2>4. CommitInRange(t)' /\ CopyInRange(t)'
    BY <1>9, <1>a
       DEF PublishCommitState, Goto, ThreadTypeOK, InRange, CommitInRange,
           CopyInRange
  <2>5. QED
    BY <1>9, <1>a, <2>1, <2>2, <2>3, <2>4, MovesInRange
       DEF Moves, TypeInv, TypeOK
<1>10. ASSUME NEW t \in Threads, AttachDatabase(t) PROVE TypeInv'
  <2>1. ServerTypeOK'
    BY <1>10, <1>a DEF AttachDatabase, ServerTypeOK
  <2>2. SessionTypeOK'
    BY <1>10, <1>a DEF AttachDatabase, FreshGens, SessionTypeOK, ThreadTypeOK
  <2>3. ThreadTypeOK'
    BY <1>10, <1>a DEF AttachDatabase, Goto, ThreadTypeOK
  <2>4. CommitInRange(t)' /\ CopyInRange(t)'
    BY <1>10, <1>a
       DEF AttachDatabase, Goto, ThreadTypeOK, InRange, CommitInRange,
           CopyInRange
  <2>5. QED
    BY <1>10, <1>a, <2>1, <2>2, <2>3, <2>4, MovesInRange
       DEF Moves, TypeInv, TypeOK
<1>11. ASSUME NEW t \in Threads, GetInternalCatalog(t) PROVE TypeInv'
  <2>1. ServerTypeOK'
    BY <1>11, <1>a DEF GetInternalCatalog, ServerTypeOK
  <2>2. SessionTypeOK'
    BY <1>11, <1>a DEF GetInternalCatalog, SessionTypeOK
  <2>3. ThreadTypeOK'
    BY <1>11, <1>a DEF GetInternalCatalog, Goto, ThreadTypeOK, SessionTypeOK
  <2>4. CommitInRange(t)' /\ CopyInRange(t)'
    BY <1>11, <1>a
       DEF GetInternalCatalog, Goto, ThreadTypeOK, InRange, CommitInRange,
           CopyInRange
  <2>5. QED
    BY <1>11, <1>a, <2>1, <2>2, <2>3, <2>4, MovesInRange
       DEF Moves, TypeInv, TypeOK
<1>12. ASSUME NEW t \in Threads, UseCatalog(t) PROVE TypeInv'
  <2>1. ServerTypeOK'
    BY <1>12, <1>a DEF UseCatalog, ServerTypeOK
  <2>2. SessionTypeOK'
    BY <1>12, <1>a DEF UseCatalog, SessionTypeOK
  <2>3. ThreadTypeOK'
    BY <1>12, <1>a DEF UseCatalog, Goto, ThreadTypeOK
  <2>4. CommitInRange(t)' /\ CopyInRange(t)'
    BY <1>12, <1>a
       DEF UseCatalog, Goto, ThreadTypeOK, InRange, CommitInRange, CopyInRange
  <2>5. QED
    BY <1>12, <1>a, <2>1, <2>2, <2>3, <2>4, MovesInRange
       DEF Moves, TypeInv, TypeOK
<1>13. ASSUME NEW t \in Threads, SnapshotCommitState(t) PROVE TypeInv'
  <2>1. ServerTypeOK'
    BY <1>13, <1>a DEF SnapshotCommitState, ServerTypeOK
  <2>2. SessionTypeOK'
    BY <1>13, <1>a DEF SnapshotCommitState, SessionTypeOK
  <2>3. ThreadTypeOK'
    BY <1>13, <1>a DEF SnapshotCommitState, Goto, ThreadTypeOK, SessionTypeOK
  <2>4. CommitInRange(t)' /\ CopyInRange(t)'
    BY <1>13, <1>a
       DEF SnapshotCommitState, Goto, ThreadTypeOK, InRange, CommitInRange,
           CopyInRange
  <2>5. QED
    BY <1>13, <1>a, <2>1, <2>2, <2>3, <2>4, MovesInRange
       DEF Moves, TypeInv, TypeOK
<1>14. ASSUME NEW t \in Threads, UpdateTable(t) PROVE TypeInv'
  <2>1. ServerTypeOK'
    BY <1>14, <1>a
       DEF UpdateTable, Accepts, Ratify, InRange, CommitInRange, ThreadTypeOK,
           ServerTypeOK
  <2>2. SessionTypeOK'
    BY <1>14, <1>a DEF UpdateTable, SessionTypeOK
  <2>3. ThreadTypeOK'
    BY <1>14, <1>a DEF UpdateTable, Goto, ThreadTypeOK
  <2>4. CommitInRange(t)' /\ CopyInRange(t)'
    BY <1>14, <1>a
       DEF UpdateTable, Goto, ThreadTypeOK, InRange, CommitInRange, CopyInRange
  <2>5. QED
    BY <1>14, <1>a, <2>1, <2>2, <2>3, <2>4, MovesInRange
       DEF Moves, TypeInv, TypeOK
<1>15. ASSUME NEW t \in Threads, MarkDirty(t) PROVE TypeInv'
  <2>1. ServerTypeOK'
    BY <1>15, <1>a DEF MarkDirty, ServerTypeOK
  <2>2. SessionTypeOK'
    BY <1>15, <1>a DEF MarkDirty, SessionTypeOK
  <2>3. ThreadTypeOK'
    BY <1>15, <1>a DEF MarkDirty, Goto, ThreadTypeOK
  <2>4. CommitInRange(t)' /\ CopyInRange(t)'
    BY <1>15, <1>a
       DEF MarkDirty, Goto, ThreadTypeOK, InRange, CommitInRange, CopyInRange
  <2>5. QED
    BY <1>15, <1>a, <2>1, <2>2, <2>3, <2>4, MovesInRange
       DEF Moves, TypeInv, TypeOK
<1>16. ASSUME NEW t \in Threads, Finish(t) PROVE TypeInv'
  <2>1. ServerTypeOK'
    BY <1>16, <1>a DEF Finish, ServerTypeOK
  <2>2. SessionTypeOK'
    BY <1>16, <1>a DEF Finish, SessionTypeOK
  <2>3. EndTransactions({t})
    BY <1>16 DEF Finish, EndTransaction
  <2>4. QED
    BY <1>a, <2>1, <2>2, <2>3, EndTransactionsType DEF TypeInv, TypeOK
<1>17. ASSUME NEW t \in Threads, AttachFails(t) PROVE TypeInv'
  <2>1. ServerTypeOK'
    BY <1>17, <1>a DEF AttachFails, ServerTypeOK
  <2>2. SessionTypeOK'
    BY <1>17, <1>a DEF AttachFails, SessionTypeOK
  <2>3. EndTransactions({t})
    BY <1>17 DEF AttachFails, EndTransaction
  <2>4. QED
    BY <1>a, <2>1, <2>2, <2>3, EndTransactionsType DEF TypeInv, TypeOK
<1>18. ASSUME NEW t \in Threads, SecondDatabaseRefused(t) PROVE TypeInv'
  <2>1. ServerTypeOK'
    BY <1>18, <1>a DEF SecondDatabaseRefused, ServerTypeOK
  <2>2. SessionTypeOK'
    BY <1>18, <1>a DEF SecondDatabaseRefused, SessionTypeOK
  <2>3. EndTransactions({t})
    BY <1>18 DEF SecondDatabaseRefused, EndTransaction
  <2>4. QED
    BY <1>a, <2>1, <2>2, <2>3, EndTransactionsType DEF TypeInv, TypeOK
<1>19. ASSUME NEW t \in Threads, UpdateTableFails(t) PROVE TypeInv'
  <2>1. ServerTypeOK'
    BY <1>19, <1>a DEF UpdateTableFails, ServerTypeOK
  <2>2. SessionTypeOK'
    BY <1>19, <1>a DEF UpdateTableFails, SessionTypeOK
  <2>3. EndTransactions({t})
    BY <1>19 DEF UpdateTableFails, EndTransaction
  <2>4. QED
    BY <1>a, <2>1, <2>2, <2>3, EndTransactionsType DEF TypeInv, TypeOK
<1>20. ASSUME NEW t \in Threads, UpdateTableAnswerLost(t) PROVE TypeInv'
  <2>1. ServerTypeOK'
    BY <1>20, <1>a
       DEF UpdateTableAnswerLost, Accepts, Ratify, InRange, CommitInRange,
           ThreadTypeOK, ServerTypeOK
  <2>2. SessionTypeOK'
    BY <1>20, <1>a DEF UpdateTableAnswerLost, SessionTypeOK
  <2>3. EndTransactions({t})
    BY <1>20 DEF UpdateTableAnswerLost, EndTransaction
  <2>4. QED
    BY <1>a, <2>1, <2>2, <2>3, EndTransactionsType DEF TypeInv, TypeOK
<1>21. ASSUME NEW t \in Threads, SetEtag(t) PROVE TypeInv'
  <2>1. ServerTypeOK'
    BY <1>21, <1>a
       DEF SetEtag, InRange, CommitInRange, ThreadTypeOK, ServerTypeOK
  <2>2. SessionTypeOK'
    BY <1>21, <1>a
       DEF SetEtag, Etags, SessionTypeOK, InRange, CommitInRange, ThreadTypeOK
  <2>3. EndTransactions({t})
    BY <1>21 DEF SetEtag, EndTransaction
  <2>4. QED
    BY <1>a, <2>1, <2>2, <2>3, EndTransactionsType DEF TypeInv, TypeOK
<1>22. ASSUME NEW s \in Sessions, ResetSession(s), kills' \in 0 .. MaxKills
      PROVE  TypeInv'
  <2>1. ServerTypeOK' /\ SessionTypeOK'
    BY <1>22, <1>a DEF ResetSession, ServerTypeOK, SessionTypeOK
  <2>2. QED
    BY <1>22, <1>a, <2>1, EndTransactionsType DEF ResetSession, TypeInv, TypeOK
<1>23. ASSUME NEW t \in Threads, NullDereference(t) PROVE TypeInv'
  BY <1>23, <1>a, <1>22 DEF NullDereference, ServerTypeOK
<1>24. ASSUME NEW t \in Threads, DanglingDereference(t) PROVE TypeInv'
  BY <1>24, <1>a, <1>22 DEF DanglingDereference, ServerTypeOK
<1>25. ASSUME NEW s \in Sessions, OnDetach(s) PROVE TypeInv'
  BY <1>25, <1>a, <1>22 DEF OnDetach, ServerTypeOK
<1>26. ASSUME NEW s \in Sessions, Kill(s) PROVE TypeInv'
  BY <1>26, <1>a, <1>22 DEF Kill, ServerTypeOK
<1>27. CASE PublishedElsewhere
  <2>1. ServerTypeOK'
    BY <1>27, <1>a DEF PublishedElsewhere, ServerTypeOK
  <2>2. SessionTypeOK' /\ ThreadTypeOK' /\ InRange'
    BY <1>27, <1>a
       DEF PublishedElsewhere, SessionTypeOK, ThreadTypeOK, InRange,
           CommitInRange, CopyInRange, NextCommit
  <2>3. QED
    BY <2>1, <2>2 DEF TypeInv, TypeOK
<1>28. CASE UNCHANGED vars
  BY <1>28, <1>a
     DEF TypeInv, TypeOK, vars, ServerTypeOK, SessionTypeOK, ThreadTypeOK,
         InRange, CommitInRange, CopyInRange, NextCommit
<1>29. QED
  BY <1>1, <1>2, <1>3, <1>4, <1>5, <1>6, <1>7, <1>8, <1>9, <1>10, <1>11, <1>12,
     <1>13, <1>14, <1>15, <1>16, <1>17, <1>18, <1>19, <1>20, <1>21, <1>23,
     <1>24, <1>25, <1>26, <1>27, <1>28
     DEF Next, ThreadStep, CallStep, AttachStep, CatalogStep, CommitStep

\* Every variable keeps its type, and no commit or copy is for a version out
\* of range: UpdateTable and BackfillCommits always name a version that exists.
THEOREM TypeCorrect == Spec => []TypeOK
<1>1. TypeInv => TypeOK
  BY DEF TypeInv
<1>2. QED
  BY <1>1, TypeInit, TypeStep, PTL DEF Spec

-----------------------------------------------------------------------------
(* attach_lock.                                                            *)

\* Steps within InternalAttach, and steps of a thread outside it
LEMMA LockKept ==
  ASSUME AttachLockReleased, NEW t \in Threads, UNCHANGED lock,
         \A u \in Threads : u # t => pc'[u] = pc[u],
         pc[t] \in Attaching => pc'[t] \in Attaching, SessionTypeOK,
         NoThread \notin Threads
  PROVE  AttachLockReleased'
  BY DEF AttachLockReleased, SessionTypeOK

\* A session that starts over
LEMMA ResetLock ==
  ASSUME TypeOK, AttachLockReleased, NEW s \in Sessions, ResetSession(s),
         SessionOf \in [Threads -> Sessions], NoThread \notin Threads
  PROVE  AttachLockReleased'
<1> SUFFICES ASSUME NEW r \in Sessions, lock'[r] # NoThread
             PROVE  SessionOf[lock'[r]] = r /\ pc'[lock'[r]] \in Attaching
  BY DEF AttachLockReleased
<1>1. r # s /\ lock'[r] = lock[r] /\ lock[r] \in Threads
  BY DEF ResetSession, TypeOK, SessionTypeOK
<1>2. SessionOf[lock[r]] = r /\ pc[lock[r]] \in Attaching
  BY <1>1 DEF AttachLockReleased
<1>3. pc'[lock[r]] = pc[lock[r]]
  BY <1>1, <1>2 DEF ResetSession, EndTransactions, Clear, ThreadsOf
<1>4. QED
  BY <1>1, <1>2, <1>3

LEMMA LockStep == TypeInv /\ AttachLockReleased /\ [Next]_vars => AttachLockReleased'
<1> SUFFICES ASSUME TypeInv, AttachLockReleased, [Next]_vars
             PROVE  AttachLockReleased'
  OBVIOUS
<1>a. /\ TypeOK /\ SessionTypeOK /\ ThreadTypeOK
      /\ SessionOf \in [Threads -> Sessions] /\ NoThread \notin Threads
  BY ConstantsAssumption DEF TypeInv, TypeOK, ConstantsAssumption
<1>1. ASSUME NEW t \in Threads,
             \/ Begin(t) \/ Statement(t) \/ LoadTable(t) \/ CopyCommit(t)
             \/ FinishCopy(t) \/ CopyFails(t) \/ BackfillDone(t)
             \/ PublishCommitState(t)
      PROVE  AttachLockReleased'
  <2>1. UNCHANGED lock /\ (pc[t] \in Attaching => pc'[t] \in Attaching)
    BY <1>1, <1>a
       DEF Begin, Statement, LoadTable, CopyCommit, FinishCopy, CopyFails,
           BackfillDone, PublishCommitState, Goto, Attaching, ThreadTypeOK
  <2>2. QED
    BY <1>1, <1>a, <2>1, MovesAlone, LockKept DEF Moves, SameThread
<1>2. ASSUME NEW t \in Threads,
             \/ GetInternalCatalog(t) \/ UseCatalog(t)
             \/ SnapshotCommitState(t) \/ UpdateTable(t) \/ MarkDirty(t)
      PROVE  AttachLockReleased'
  <2>1. UNCHANGED lock /\ pc[t] \notin Attaching
    BY <1>2, <1>a
       DEF GetInternalCatalog, UseCatalog, SnapshotCommitState, UpdateTable,
           MarkDirty, Attaching
  <2>2. QED
    BY <1>2, <1>a, <2>1, MovesAlone, LockKept DEF Moves, SameThread
<1>3. ASSUME NEW t \in Threads, TakeAttachLock(t) \/ AttachDatabase(t)
      PROVE  AttachLockReleased'
  <2>1. \A u \in Threads : u # t => pc'[u] = pc[u]
    BY <1>3, <1>a, MovesAlone DEF Moves, SameThread
  <2>2. \A r \in Sessions : r # SessionOf[t] => lock'[r] = lock[r]
    BY <1>3, <1>a DEF TakeAttachLock, AttachDatabase, SessionTypeOK
  <2>3. \/ lock'[SessionOf[t]] = NoThread
        \/ lock'[SessionOf[t]] = t /\ pc'[t] = "load"
    BY <1>3, <1>a
       DEF TakeAttachLock, AttachDatabase, SessionTypeOK, ThreadTypeOK, Goto
  <2>4. QED
    BY <1>a, <2>1, <2>2, <2>3
       DEF AttachLockReleased, Attaching, SessionTypeOK
<1>4. ASSUME NEW t \in Threads, AttachFails(t) PROVE AttachLockReleased'
  <2>1. \A u \in Threads : u # t => pc'[u] = pc[u]
    BY <1>4 DEF AttachFails, EndTransaction, EndTransactions, Clear
  <2>2. lock' = [lock EXCEPT ![SessionOf[t]] = NoThread]
    BY <1>4 DEF AttachFails
  <2>3. QED
    BY <1>a, <2>1, <2>2 DEF AttachLockReleased, SessionTypeOK
<1>5. ASSUME NEW t \in Threads,
             \/ Finish(t) \/ SecondDatabaseRefused(t) \/ UpdateTableFails(t)
             \/ UpdateTableAnswerLost(t) \/ SetEtag(t)
      PROVE  AttachLockReleased'
  <2>1. UNCHANGED lock /\ pc[t] \notin Attaching
    BY <1>5
       DEF Finish, SecondDatabaseRefused, UpdateTableFails,
           UpdateTableAnswerLost, SetEtag, sessionVars, Attaching
  <2>2. \A u \in Threads : u # t => pc'[u] = pc[u]
    BY <1>5
       DEF Finish, SecondDatabaseRefused, UpdateTableFails,
           UpdateTableAnswerLost, SetEtag, EndTransaction, EndTransactions,
           Clear
  <2>3. QED
    BY <1>a, <2>1, <2>2, LockKept
<1>6. ASSUME NEW t \in Threads, NullDereference(t) \/ DanglingDereference(t)
      PROVE  AttachLockReleased'
  BY <1>6, <1>a, ResetLock DEF NullDereference, DanglingDereference
<1>7. ASSUME NEW s \in Sessions, OnDetach(s) \/ Kill(s)
      PROVE  AttachLockReleased'
  BY <1>7, <1>a, ResetLock DEF OnDetach, Kill
<1>8. CASE PublishedElsewhere \/ UNCHANGED vars
  BY <1>8 DEF PublishedElsewhere, vars, AttachLockReleased
<1>9. QED
  BY <1>1, <1>2, <1>3, <1>4, <1>5, <1>6, <1>7, <1>8
     DEF Next, ThreadStep, CallStep, AttachStep, CatalogStep, CommitStep

\* attach_lock is held by nobody but a thread inside InternalAttach: no request
\* that fails, no early return and no end of a transaction leaves it taken.
THEOREM LockIsReleased == Spec => []AttachLockReleased
<1>1. Init => AttachLockReleased
  BY DEF Init, AttachLockReleased
<1>2. QED
  BY <1>1, TypeInit, TypeStep, LockStep, PTL DEF Spec

-----------------------------------------------------------------------------
(* Published versions are whole.                                           *)

\* Steps that leave the files and what sessions claim of them alone
LEMMA ClaimsKept ==
  ASSUME CoveredInv, UNCHANGED log, BackfilledCovered',
         \A s \in Sessions : Covered(watermark[s])',
         \A u \in Threads : ThreadCovered(u)'
  PROVE  CoveredInv'
  BY DEF CoveredInv, LogHasNoGap

LEMMA MovesCovered ==
  ASSUME ThreadTypeOK, CoveredInv, UNCHANGED log, NEW t \in Threads, Moves(t),
         NEW u \in Threads, u # t
  PROVE  ThreadCovered(u)'
  BY MovesAlone DEF SameThread, CoveredInv, ThreadCovered, Covered

\* The locals of transactions that end claim nothing.
LEMMA EndTransactionsCovered ==
  ASSUME CoveredInv, NEW ts, EndTransactions(ts), UNCHANGED log,
         BackfilledCovered',
         \A s \in Sessions : watermark'[s] \in {watermark[s], NoVersion}
  PROVE  CoveredInv'
<1>1. ASSUME NEW t \in Threads, t \notin ts PROVE ThreadCovered(t)'
  BY <1>1, EndTransactionsAlone
     DEF SameThread, CoveredInv, ThreadCovered, Covered
<1>2. ASSUME NEW t \in Threads, t \in ts PROVE ThreadCovered(t)'
  BY <1>2, EndTransactionsAlone DEF ThreadCovered, Covered
<1>3. ASSUME NEW s \in Sessions PROVE Covered(watermark[s])'
  BY DEF CoveredInv, Covered
<1>4. QED
  BY <1>1, <1>2, <1>3, ClaimsKept

\* Files that grow keep every claim made of them.
LEMMA CoveredGrows ==
  ASSUME ThreadTypeOK, SessionTypeOK, ServerTypeOK, CoveredInv,
         \A v \in Versions : log[v] = "full" => log'[v] = "full"
  PROVE  /\ \A v \in 0 .. backfilled : log'[v] = "full"
         /\ \A s \in Sessions : \A v \in 0 .. watermark[s] : log'[v] = "full"
         /\ \A t \in Threads :
              /\ \A v \in 0 .. snapshot[t].wm : log'[v] = "full"
              /\ \A v \in 0 .. local_wm[t] : log'[v] = "full"
              /\ \A v \in 0 .. resp[t].first - 1 : log'[v] = "full"
<1>1. MaxVersion \in Nat
  BY ConstantsAssumption DEF ConstantsAssumption
<1>2. ASSUME NEW w \in Versions \cup {NoVersion}, Covered(w)
      PROVE  \A v \in 0 .. w : log'[v] = "full"
  BY <1>1, <1>2 DEF Covered
<1>3. backfilled \in Versions /\ Covered(backfilled)
  BY DEF ServerTypeOK, CoveredInv, BackfilledCovered, Covered
<1>4. ASSUME NEW s \in Sessions
      PROVE  watermark[s] \in Versions \cup {NoVersion} /\ Covered(watermark[s])
  BY DEF SessionTypeOK, CoveredInv
<1>5. ASSUME NEW t \in Threads
      PROVE  /\ snapshot[t].wm \in Versions \cup {NoVersion}
             /\ local_wm[t] \in Versions \cup {NoVersion}
             /\ resp[t].first - 1 \in Versions \cup {NoVersion}
             /\ ThreadCovered(t)
  BY <1>1 DEF ThreadTypeOK, CoveredInv
<1>6. QED
  BY <1>2, <1>3, <1>4, <1>5 DEF ThreadCovered

LEMMA CoveredInit == Init => CoveredInv
  BY ConstantsAssumption
     DEF ConstantsAssumption, Init, CoveredInv, BackfilledCovered, Covered,
         ThreadCovered, LogHasNoGap

LEMMA CoveredStep ==
  ASSUME AtomicCreate PROVE TypeInv /\ CoveredInv /\ [Next]_vars => CoveredInv'
<1> SUFFICES ASSUME TypeInv, CoveredInv, [Next]_vars PROVE CoveredInv'
  OBVIOUS
<1>a. ServerTypeOK /\ SessionTypeOK /\ ThreadTypeOK /\ InRange
  BY DEF TypeInv, TypeOK
<1>b. /\ BackfilledCovered
      /\ \A s \in Sessions : Covered(watermark[s])
      /\ \A t \in Threads : ThreadCovered(t)
      /\ \A v \in Versions : log[v] # "partial"
      /\ LogHasNoGap
  BY DEF CoveredInv
<1>c. MaxVersion \in Nat /\ SessionOf \in [Threads -> Sessions]
  BY ConstantsAssumption DEF ConstantsAssumption
<1>1. ASSUME NEW t \in Threads, Begin(t) PROVE CoveredInv'
  <2>1. UNCHANGED log /\ BackfilledCovered'
    BY <1>1, <1>a, <1>b DEF Begin, BackfilledCovered
  <2>2. \A s \in Sessions : Covered(watermark[s])'
    BY <1>1, <1>a, <1>b, <2>1 DEF Begin, Covered
  <2>3. ThreadCovered(t)'
    BY <1>1, <1>a, <1>b, <1>c, <2>1
       DEF Begin, Goto, ThreadCovered, Covered, ThreadTypeOK
  <2>4. QED
    BY <1>1, <1>a, <1>b, <2>1, <2>2, <2>3, MovesCovered, ClaimsKept DEF Moves
<1>2. ASSUME NEW t \in Threads, Statement(t) PROVE CoveredInv'
  <2>1. UNCHANGED log /\ BackfilledCovered'
    BY <1>2, <1>a, <1>b DEF Statement, BackfilledCovered
  <2>2. \A s \in Sessions : Covered(watermark[s])'
    BY <1>2, <1>a, <1>b, <2>1 DEF Statement, Covered
  <2>3. ThreadCovered(t)'
    BY <1>2, <1>a, <1>b, <1>c, <2>1
       DEF Statement, Goto, ThreadCovered, Covered, ThreadTypeOK
  <2>4. QED
    BY <1>2, <1>a, <1>b, <2>1, <2>2, <2>3, MovesCovered, ClaimsKept DEF Moves
<1>3. ASSUME NEW t \in Threads, TakeAttachLock(t) PROVE CoveredInv'
  <2>1. UNCHANGED log /\ BackfilledCovered'
    BY <1>3, <1>a, <1>b DEF TakeAttachLock, BackfilledCovered
  <2>2. \A s \in Sessions : Covered(watermark[s])'
    BY <1>3, <1>a, <1>b, <2>1 DEF TakeAttachLock, Covered
  <2>3. ThreadCovered(t)'
    BY <1>3, <1>a, <1>b, <1>c, <2>1
       DEF TakeAttachLock, Goto, ThreadCovered, Covered, ThreadTypeOK
  <2>4. QED
    BY <1>3, <1>a, <1>b, <2>1, <2>2, <2>3, MovesCovered, ClaimsKept DEF Moves
<1>4. ASSUME NEW t \in Threads, LoadTable(t) PROVE CoveredInv'
  <2>1. UNCHANGED log /\ BackfilledCovered'
    BY <1>4, <1>a, <1>b DEF LoadTable, BackfilledCovered
  <2>2. \A s \in Sessions : Covered(watermark[s])'
    BY <1>4, <1>a, <1>b, <2>1 DEF LoadTable, Covered
  <2>p. resp'[t].first - 1 = backfilled
    BY <1>4, <1>a, <1>c DEF LoadTable, ThreadTypeOK, ServerTypeOK
  <2>q. local_wm'[t] = watermark[SessionOf[t]] /\ SessionOf[t] \in Sessions
    BY <1>4, <1>a, <1>c DEF LoadTable, ThreadTypeOK
  <2>r. pc'[t] # "write" /\ snapshot' = snapshot
    BY <1>4, <1>a DEF LoadTable, Goto, ThreadTypeOK
  <2>3. ThreadCovered(t)'
    BY <1>b, <2>1, <2>p, <2>q, <2>r
       DEF ThreadCovered, Covered, BackfilledCovered
  <2>4. QED
    BY <1>4, <1>a, <1>b, <2>1, <2>2, <2>3, MovesCovered, ClaimsKept DEF Moves
<1>5. ASSUME NEW t \in Threads, CopyFails(t) PROVE CoveredInv'
  <2>1. UNCHANGED log /\ BackfilledCovered'
    BY <1>5, <1>a, <1>b DEF CopyFails, BackfilledCovered
  <2>2. \A s \in Sessions : Covered(watermark[s])'
    BY <1>5, <1>a, <1>b, <2>1 DEF CopyFails, Covered
  <2>3. ThreadCovered(t)'
    BY <1>5, <1>a, <1>b, <1>c, <2>1
       DEF CopyFails, Goto, ThreadCovered, Covered, ThreadTypeOK
  <2>4. QED
    BY <1>5, <1>a, <1>b, <2>1, <2>2, <2>3, MovesCovered, ClaimsKept DEF Moves
<1>6. ASSUME NEW t \in Threads, BackfillDone(t) PROVE CoveredInv'
  <2>1. UNCHANGED log /\ BackfilledCovered'
    BY <1>6, <1>a, <1>b DEF BackfillDone, BackfilledCovered
  <2>2. \A s \in Sessions : Covered(watermark[s])'
    BY <1>6, <1>a, <1>b, <2>1 DEF BackfillDone, Covered
  <2>3. ThreadCovered(t)'
    BY <1>6, <1>a, <1>b, <1>c, <2>1
       DEF BackfillDone, Goto, ThreadCovered, Covered, ThreadTypeOK
  <2>4. QED
    BY <1>6, <1>a, <1>b, <2>1, <2>2, <2>3, MovesCovered, ClaimsKept DEF Moves
<1>7. ASSUME NEW t \in Threads, PublishCommitState(t) PROVE CoveredInv'
  <2>1. UNCHANGED log /\ BackfilledCovered'
    BY <1>7, <1>a, <1>b DEF PublishCommitState, BackfilledCovered
  <2>2. \A s \in Sessions : Covered(watermark[s])'
    BY <1>7, <1>a, <1>b, <2>1
       DEF PublishCommitState, Covered, SessionTypeOK, ThreadCovered
  <2>3. ThreadCovered(t)'
    BY <1>7, <1>a, <1>b, <1>c, <2>1
       DEF PublishCommitState, Goto, ThreadCovered, Covered, ThreadTypeOK
  <2>4. QED
    BY <1>7, <1>a, <1>b, <2>1, <2>2, <2>3, MovesCovered, ClaimsKept DEF Moves
<1>8. ASSUME NEW t \in Threads, AttachDatabase(t) PROVE CoveredInv'
  <2>1. UNCHANGED log /\ BackfilledCovered'
    BY <1>8, <1>a, <1>b DEF AttachDatabase, BackfilledCovered
  <2>2. \A s \in Sessions : Covered(watermark[s])'
    BY <1>8, <1>a, <1>b, <2>1 DEF AttachDatabase, Covered
  <2>3. ThreadCovered(t)'
    BY <1>8, <1>a, <1>b, <1>c, <2>1
       DEF AttachDatabase, Goto, ThreadCovered, Covered, ThreadTypeOK
  <2>4. QED
    BY <1>8, <1>a, <1>b, <2>1, <2>2, <2>3, MovesCovered, ClaimsKept DEF Moves
<1>9. ASSUME NEW t \in Threads, GetInternalCatalog(t) PROVE CoveredInv'
  <2>1. UNCHANGED log /\ BackfilledCovered'
    BY <1>9, <1>a, <1>b DEF GetInternalCatalog, BackfilledCovered
  <2>2. \A s \in Sessions : Covered(watermark[s])'
    BY <1>9, <1>a, <1>b, <2>1 DEF GetInternalCatalog, Covered
  <2>3. ThreadCovered(t)'
    BY <1>9, <1>a, <1>b, <1>c, <2>1
       DEF GetInternalCatalog, Goto, ThreadCovered, Covered, ThreadTypeOK
  <2>4. QED
    BY <1>9, <1>a, <1>b, <2>1, <2>2, <2>3, MovesCovered, ClaimsKept DEF Moves
<1>10. ASSUME NEW t \in Threads, UseCatalog(t) PROVE CoveredInv'
  <2>1. UNCHANGED log /\ BackfilledCovered'
    BY <1>10, <1>a, <1>b DEF UseCatalog, BackfilledCovered
  <2>2. \A s \in Sessions : Covered(watermark[s])'
    BY <1>10, <1>a, <1>b, <2>1 DEF UseCatalog, Covered
  <2>3. ThreadCovered(t)'
    BY <1>10, <1>a, <1>b, <1>c, <2>1
       DEF UseCatalog, Goto, ThreadCovered, Covered, ThreadTypeOK
  <2>4. QED
    BY <1>10, <1>a, <1>b, <2>1, <2>2, <2>3, MovesCovered, ClaimsKept DEF Moves
<1>11. ASSUME NEW t \in Threads, SnapshotCommitState(t) PROVE CoveredInv'
  <2>1. UNCHANGED log /\ BackfilledCovered'
    BY <1>11, <1>a, <1>b DEF SnapshotCommitState, BackfilledCovered
  <2>2. \A s \in Sessions : Covered(watermark[s])'
    BY <1>11, <1>a, <1>b, <2>1 DEF SnapshotCommitState, Covered
  <2>3. ThreadCovered(t)'
    BY <1>11, <1>a, <1>b, <1>c, <2>1
       DEF SnapshotCommitState, Goto, ThreadCovered, Covered, ThreadTypeOK
  <2>4. QED
    BY <1>11, <1>a, <1>b, <2>1, <2>2, <2>3, MovesCovered, ClaimsKept DEF Moves
<1>12. ASSUME NEW t \in Threads, UpdateTable(t) PROVE CoveredInv'
  <2>1. UNCHANGED log /\ BackfilledCovered'
    BY <1>12, <1>a, <1>b
       DEF UpdateTable, BackfilledCovered, Ratify, ThreadCovered, Covered
  <2>2. \A s \in Sessions : Covered(watermark[s])'
    BY <1>12, <1>a, <1>b, <2>1 DEF UpdateTable, Covered
  <2>3. ThreadCovered(t)'
    BY <1>12, <1>a, <1>b, <1>c, <2>1
       DEF UpdateTable, Goto, ThreadCovered, Covered, ThreadTypeOK
  <2>4. QED
    BY <1>12, <1>a, <1>b, <2>1, <2>2, <2>3, MovesCovered, ClaimsKept DEF Moves
<1>13. ASSUME NEW t \in Threads, MarkDirty(t) PROVE CoveredInv'
  <2>1. UNCHANGED log /\ BackfilledCovered'
    BY <1>13, <1>a, <1>b DEF MarkDirty, BackfilledCovered
  <2>2. \A s \in Sessions : Covered(watermark[s])'
    BY <1>13, <1>a, <1>b, <2>1 DEF MarkDirty, Covered
  <2>3. ThreadCovered(t)'
    BY <1>13, <1>a, <1>b, <1>c, <2>1
       DEF MarkDirty, Goto, ThreadCovered, Covered, ThreadTypeOK
  <2>4. QED
    BY <1>13, <1>a, <1>b, <2>1, <2>2, <2>3, MovesCovered, ClaimsKept DEF Moves
<1>14. ASSUME NEW t \in Threads, CopyCommit(t) PROVE CoveredInv'
  <2> DEFINE v == NextCommit(t)
  <2>1. /\ resp[t] \in LoadResult
        /\ local_wm[t] \in Versions \cup {NoVersion}
        /\ v <= resp[t].last
    BY <1>14, <1>a DEF CopyCommit, ThreadTypeOK
  <2>2. v \in Versions
    BY <1>c, <2>1 DEF NextCommit
  <2>3. \A u \in 0 .. v - 1 : log[u] = "full"
    BY <1>b, <2>1, <2>2 DEF ThreadCovered, Covered, NextCommit
  <2>4. log' = [log EXCEPT ![v] = "full"]
    BY <1>14, <1>a, <1>b, <2>2 DEF CopyCommit, ServerTypeOK
  <2>5. \A u \in 0 .. v : log'[u] = "full"
    BY <1>a, <2>2, <2>3, <2>4 DEF ServerTypeOK
  <2>6. \A u \in Versions : log[u] = "full" => log'[u] = "full"
    BY <1>a, <2>2, <2>4 DEF ServerTypeOK
  <2>7. /\ \A u \in Versions : log'[u] # "partial"
        /\ LogHasNoGap'
    BY <1>a, <1>b, <1>c, <2>2, <2>4, <2>5, <2>6 DEF ServerTypeOK, LogHasNoGap
  <2>8. /\ local_wm' = [local_wm EXCEPT ![t] = v]
        /\ UNCHANGED <<pc, resp, snapshot, watermark, backfilled>>
    BY <1>14, AtomicCreate DEF CopyCommit
  <2>9. BackfilledCovered' /\ \A s \in Sessions : Covered(watermark[s])'
    BY <1>a, <2>6, <2>8, CoveredGrows DEF BackfilledCovered, Covered
  <2>10. ASSUME NEW u \in Threads PROVE ThreadCovered(u)'
    <3>1. local_wm'[u] = IF u = t THEN v ELSE local_wm[u]
      BY <1>a, <2>8 DEF ThreadTypeOK
    <3>2. QED
      BY <1>a, <1>b, <2>5, <2>6, <2>8, <3>1, CoveredGrows
         DEF ThreadCovered, Covered
  <2>11. QED
    BY <2>7, <2>9, <2>10 DEF CoveredInv
<1>15. ASSUME NEW t \in Threads, FinishCopy(t) PROVE CoveredInv'
  BY <1>15, <1>b DEF FinishCopy, ThreadCovered
<1>16. ASSUME NEW t \in Threads, Finish(t) PROVE CoveredInv'
  <2>1. UNCHANGED log /\ EndTransactions({t})
    BY <1>16 DEF Finish, EndTransaction
  <2>2. BackfilledCovered'
    BY <1>16, <1>a, <1>b, <2>1 DEF Finish, BackfilledCovered
  <2>3. \A r \in Sessions : watermark'[r] \in {watermark[r], NoVersion}
    BY <1>16, <1>a DEF Finish, SessionTypeOK
  <2>4. QED
    BY <2>1, <2>2, <2>3, EndTransactionsCovered
<1>17. ASSUME NEW t \in Threads, AttachFails(t) PROVE CoveredInv'
  <2>1. UNCHANGED log /\ EndTransactions({t})
    BY <1>17 DEF AttachFails, EndTransaction
  <2>2. BackfilledCovered'
    BY <1>17, <1>a, <1>b, <2>1 DEF AttachFails, BackfilledCovered
  <2>3. \A r \in Sessions : watermark'[r] \in {watermark[r], NoVersion}
    BY <1>17, <1>a DEF AttachFails, SessionTypeOK
  <2>4. QED
    BY <2>1, <2>2, <2>3, EndTransactionsCovered
<1>18. ASSUME NEW t \in Threads, SecondDatabaseRefused(t) PROVE CoveredInv'
  <2>1. UNCHANGED log /\ EndTransactions({t})
    BY <1>18 DEF SecondDatabaseRefused, EndTransaction
  <2>2. BackfilledCovered'
    BY <1>18, <1>a, <1>b, <2>1 DEF SecondDatabaseRefused, BackfilledCovered
  <2>3. \A r \in Sessions : watermark'[r] \in {watermark[r], NoVersion}
    BY <1>18, <1>a DEF SecondDatabaseRefused, SessionTypeOK
  <2>4. QED
    BY <2>1, <2>2, <2>3, EndTransactionsCovered
<1>19. ASSUME NEW t \in Threads, UpdateTableFails(t) PROVE CoveredInv'
  <2>1. UNCHANGED log /\ EndTransactions({t})
    BY <1>19 DEF UpdateTableFails, EndTransaction
  <2>2. BackfilledCovered'
    BY <1>19, <1>a, <1>b, <2>1 DEF UpdateTableFails, BackfilledCovered
  <2>3. \A r \in Sessions : watermark'[r] \in {watermark[r], NoVersion}
    BY <1>19, <1>a DEF UpdateTableFails, SessionTypeOK
  <2>4. QED
    BY <2>1, <2>2, <2>3, EndTransactionsCovered
<1>20. ASSUME NEW t \in Threads, UpdateTableAnswerLost(t) PROVE CoveredInv'
  <2>1. UNCHANGED log /\ EndTransactions({t})
    BY <1>20 DEF UpdateTableAnswerLost, EndTransaction
  <2>2. BackfilledCovered'
    BY <1>20, <1>a, <1>b, <2>1
       DEF UpdateTableAnswerLost, BackfilledCovered, Ratify, ThreadCovered,
           Covered
  <2>3. \A r \in Sessions : watermark'[r] \in {watermark[r], NoVersion}
    BY <1>20, <1>a DEF UpdateTableAnswerLost, SessionTypeOK
  <2>4. QED
    BY <2>1, <2>2, <2>3, EndTransactionsCovered
<1>21. ASSUME NEW t \in Threads, SetEtag(t) PROVE CoveredInv'
  <2>1. UNCHANGED log /\ EndTransactions({t})
    BY <1>21 DEF SetEtag, EndTransaction
  <2>2. BackfilledCovered'
    BY <1>21, <1>a, <1>b, <2>1 DEF SetEtag, BackfilledCovered
  <2>3. \A r \in Sessions : watermark'[r] \in {watermark[r], NoVersion}
    BY <1>21, <1>a DEF SetEtag, SessionTypeOK
  <2>4. QED
    BY <2>1, <2>2, <2>3, EndTransactionsCovered
<1>22. ASSUME NEW t \in Threads, NullDereference(t) PROVE CoveredInv'
  <2>1. UNCHANGED log /\ EndTransactions(ThreadsOf(SessionOf[t]))
    BY <1>22 DEF NullDereference, ResetSession
  <2>2. BackfilledCovered'
    BY <1>22, <1>a, <1>b, <2>1
       DEF NullDereference, ResetSession, BackfilledCovered
  <2>3. \A r \in Sessions : watermark'[r] \in {watermark[r], NoVersion}
    BY <1>22, <1>a DEF NullDereference, ResetSession, SessionTypeOK
  <2>4. QED
    BY <2>1, <2>2, <2>3, EndTransactionsCovered
<1>23. ASSUME NEW t \in Threads, DanglingDereference(t) PROVE CoveredInv'
  <2>1. UNCHANGED log /\ EndTransactions(ThreadsOf(SessionOf[t]))
    BY <1>23 DEF DanglingDereference, ResetSession
  <2>2. BackfilledCovered'
    BY <1>23, <1>a, <1>b, <2>1
       DEF DanglingDereference, ResetSession, BackfilledCovered
  <2>3. \A r \in Sessions : watermark'[r] \in {watermark[r], NoVersion}
    BY <1>23, <1>a DEF DanglingDereference, ResetSession, SessionTypeOK
  <2>4. QED
    BY <2>1, <2>2, <2>3, EndTransactionsCovered
<1>24. ASSUME NEW s \in Sessions, OnDetach(s) PROVE CoveredInv'
  <2>1. UNCHANGED log /\ EndTransactions(ThreadsOf(s))
    BY <1>24 DEF OnDetach, ResetSession
  <2>2. BackfilledCovered'
    BY <1>24, <1>a, <1>b, <2>1 DEF OnDetach, ResetSession, BackfilledCovered
  <2>3. \A r \in Sessions : watermark'[r] \in {watermark[r], NoVersion}
    BY <1>24, <1>a DEF OnDetach, ResetSession, SessionTypeOK
  <2>4. QED
    BY <2>1, <2>2, <2>3, EndTransactionsCovered
<1>25. ASSUME NEW s \in Sessions, Kill(s) PROVE CoveredInv'
  <2>1. UNCHANGED log /\ EndTransactions(ThreadsOf(s))
    BY <1>25 DEF Kill, ResetSession
  <2>2. BackfilledCovered'
    BY <1>25, <1>a, <1>b, <2>1 DEF Kill, ResetSession, BackfilledCovered
  <2>3. \A r \in Sessions : watermark'[r] \in {watermark[r], NoVersion}
    BY <1>25, <1>a DEF Kill, ResetSession, SessionTypeOK
  <2>4. QED
    BY <2>1, <2>2, <2>3, EndTransactionsCovered
<1>26. CASE PublishedElsewhere
  <2>1. \A u \in Versions : log'[u] = IF u <= latest THEN "full" ELSE log[u]
    BY <1>26, <1>a, <1>c DEF PublishedElsewhere, ServerTypeOK
  <2>2. UNCHANGED <<pc, resp, snapshot, local_wm, watermark>>
    BY <1>26 DEF PublishedElsewhere
  <2>3. LogHasNoGap' /\ \A u \in Versions : log'[u] # "partial"
    BY <1>a, <1>b, <1>c, <2>1 DEF ServerTypeOK, LogHasNoGap
  <2>4. BackfilledCovered'
    BY <1>26, <1>a, <1>c, <2>1
       DEF PublishedElsewhere, BackfilledCovered, ServerTypeOK
  <2>5. \A u \in Versions : log[u] = "full" => log'[u] = "full"
    BY <2>1
  <2>6. \A s \in Sessions : Covered(watermark[s])'
    BY <1>a, <2>2, <2>5, CoveredGrows DEF Covered
  <2>7. \A u \in Threads : ThreadCovered(u)'
    BY <1>a, <1>b, <2>2, <2>5, CoveredGrows DEF ThreadCovered, Covered
  <2>8. QED
    BY <2>3, <2>4, <2>6, <2>7 DEF CoveredInv
<1>27. CASE UNCHANGED vars
  <2>1. UNCHANGED <<log, backfilled, watermark, pc, resp, snapshot, local_wm>>
    BY <1>27 DEF vars
  <2>2. QED
    BY <1>b, <2>1
       DEF CoveredInv, BackfilledCovered, Covered, ThreadCovered, LogHasNoGap
<1>28. QED
  BY <1>1, <1>2, <1>3, <1>4, <1>5, <1>6, <1>7, <1>8, <1>9, <1>10, <1>11, <1>12,
     <1>13, <1>14, <1>15, <1>16, <1>17, <1>18, <1>19, <1>20, <1>21, <1>22,
     <1>23, <1>24, <1>25, <1>26, <1>27
     DEF Next, ThreadStep, CallStep, AttachStep, CatalogStep, CommitStep

LEMMA CoveredAlways == ASSUME AtomicCreate PROVE Spec => []CoveredInv
  BY TypeInit, TypeStep, CoveredInit, CoveredStep, PTL DEF Spec

\* On storage where a created file appears whole, every version the server was
\* told is published is whole in _delta_log, whatever interleaving of attaches,
\* failed copies, commits and crashes led there.
THEOREM PublishedIsWhole == ASSUME AtomicCreate PROVE Spec => []BackfilledCovered
<1>1. CoveredInv => BackfilledCovered
  BY DEF CoveredInv
<1>2. QED
  BY <1>1, CoveredAlways, PTL

\* On the same storage _delta_log never has a gap: BackfillCommits copies a
\* commit only when all before it are there.
THEOREM NoGap == ASSUME AtomicCreate PROVE Spec => []LogHasNoGap
<1>1. CoveredInv => LogHasNoGap
  BY DEF CoveredInv
<1>2. QED
  BY <1>1, CoveredAlways, PTL

-----------------------------------------------------------------------------
(* Reads see what their session had committed.                             *)

\* A version stays up to date while no commit of the session passes MarkDirty.
LEMMA UpToDateStays ==
  ASSUME NEW s \in Sessions, NEW v, UpToDate(s, v), acked'[s] = acked[s],
         \A u \in ThreadsOf(s) :
           pc'[u] = "setetag" => pc[u] = "setetag" /\ used'[u] = used[u]
  PROVE  UpToDate(s, v)'
  BY DEF UpToDate, ThreadsOf

\* A thread that takes no step, whatever the others of its session change
LEMMA OtherThreadFresh ==
  ASSUME NEW u \in Threads, NEW s \in Sessions, s = SessionOf[u],
         TypeInv, TypeInv', ThreadFresh(u), SameThread(u),
         latest' >= latest, acked'[s] >= acked[s],
         pc[u] \in Attaching => UNCHANGED <<lock[s], attached[s]>>,
         \/ attached'[s] \in {attached[s], NullDb}
         \/ attached'[s].version >= acked[s],
         \A v \in Versions : pc[u] \in Attaching /\ UpToDate(s, v)
                               => UpToDate(s, v)'
  PROVE  ThreadFresh(u)'
<1>a. MaxVersion \in Nat
  BY ConstantsAssumption DEF ConstantsAssumption
<1>b. /\ latest \in Int /\ latest' \in Int
      /\ acked[s] \in Int /\ acked'[s] \in Int
  BY <1>a DEF TypeInv, TypeOK, ServerTypeOK
<1>c. attached[s] \in Database /\ attached'[s] \in Database
  BY DEF TypeInv, TypeOK, SessionTypeOK
<1>d. /\ floor[u] \in Int
      /\ resp[u].version \in Versions
      /\ used[u].version \in Int
  BY <1>a DEF TypeInv, TypeOK, ThreadTypeOK
<1>1. (pc[u] \in Attaching \ {"load"} => UpToDate(s, resp[u].version))'
  BY <1>d DEF ThreadFresh, SameThread
<1>2. (pc[u] = "use" /\ attached[s] # NullDb =>
         attached[s].version >= floor[u])'
  BY <1>b, <1>c, <1>d DEF ThreadFresh, SameThread
<1>3. QED
  BY <1>b, <1>c, <1>d, <1>1, <1>2 DEF ThreadFresh, SameThread

\* A step of t that leaves the sessions and the server alone
LEMMA QuietStepFresh ==
  ASSUME TypeInv, TypeInv', FreshInv, NEW t \in Threads, ThreadFresh(t)',
         \A u \in Threads : u # t => SameThread(u),
         UNCHANGED <<latest, acked, attached, dirty, lock>>,
         pc'[t] # "setetag"
  PROVE  FreshInv'
<1>1. SessionOf \in [Threads -> Sessions]
  BY ConstantsAssumption DEF ConstantsAssumption
<1>2. ASSUME NEW r \in Sessions, NEW v, UpToDate(r, v) PROVE UpToDate(r, v)'
  BY <1>2, UpToDateStays DEF ThreadsOf, SameThread
<1>3. ASSUME NEW r \in Sessions PROVE SessionFresh(r)'
  BY <1>2 DEF FreshInv, SessionFresh
<1>4. /\ latest \in Int /\ \A r \in Sessions : acked[r] \in Int
  BY ConstantsAssumption
     DEF ConstantsAssumption, TypeInv, TypeOK, ServerTypeOK
<1>5. ASSUME NEW u \in Threads, u # t PROVE ThreadFresh(u)'
  BY <1>1, <1>2, <1>4, <1>5, OtherThreadFresh DEF FreshInv
<1>6. QED
  BY <1>3, <1>5 DEF FreshInv

\* Transactions that end need nothing.
LEMMA EndTransactionsFresh ==
  ASSUME TypeInv, TypeInv', NEW ts, EndTransactions(ts)
  PROVE  /\ \A u \in Threads : u \in ts => ThreadFresh(u)'
         /\ \A u \in Threads : u \notin ts => SameThread(u)
         /\ \A u \in Threads :
              pc'[u] = "setetag" => pc[u] = "setetag" /\ used'[u] = used[u]
<1>1. acked' \in [Sessions -> Versions] /\ SessionOf \in [Threads -> Sessions]
  BY ConstantsAssumption
     DEF ConstantsAssumption, TypeInv, TypeOK, ServerTypeOK
<1>2. ASSUME NEW u \in Threads, u \in ts PROVE ThreadFresh(u)'
  BY <1>1, <1>2, EndTransactionsAlone DEF ThreadFresh, Attaching
<1>3. QED
  BY <1>2, EndTransactionsAlone DEF SameThread

\* Nor does their end disturb the others, when the attach of none of them loses
\* its lock or its database.
LEMMA EndTransactionsFreshInv ==
  ASSUME TypeInv, TypeInv', FreshInv, NEW ts, EndTransactions(ts),
         latest' >= latest, UNCHANGED acked,
         \A r \in Sessions :
           \/ UNCHANGED <<attached[r], dirty[r]>>
           \/ attached'[r] = NullDb,
         \A u \in Threads : u \notin ts /\ pc[u] \in Attaching =>
           UNCHANGED <<lock[SessionOf[u]], attached[SessionOf[u]]>>
  PROVE  FreshInv'
<1>1. SessionOf \in [Threads -> Sessions]
  BY ConstantsAssumption DEF ConstantsAssumption
<1>2. ASSUME NEW r \in Sessions, NEW v, UpToDate(r, v) PROVE UpToDate(r, v)'
  BY <1>2, UpToDateStays, EndTransactionsFresh DEF ThreadsOf
<1>3. /\ latest \in Int /\ latest' \in Int
      /\ \A r \in Sessions : acked[r] \in Int
  BY ConstantsAssumption
     DEF ConstantsAssumption, TypeInv, TypeOK, ServerTypeOK
<1>4. ASSUME NEW r \in Sessions PROVE SessionFresh(r)'
  BY <1>2, <1>3 DEF FreshInv, SessionFresh
<1>5. ASSUME NEW u \in Threads, u \notin ts PROVE ThreadFresh(u)'
  BY <1>1, <1>2, <1>3, <1>5, EndTransactionsFresh, OtherThreadFresh
     DEF FreshInv
<1>6. QED
  BY <1>4, <1>5, EndTransactionsFresh DEF FreshInv

LEMMA FreshInit == Init => FreshInv
  BY ConstantsAssumption
     DEF ConstantsAssumption, Init, FreshInv, SessionFresh, ThreadFresh,
         Attaching

LEMMA FreshStep ==
  ASSUME OptionalFields
  PROVE  TypeInv /\ TypeInv' /\ FreshInv /\ [Next]_vars => FreshInv'
<1> SUFFICES ASSUME TypeInv, TypeInv', FreshInv, [Next]_vars PROVE FreshInv'
  OBVIOUS
<1>a. ServerTypeOK /\ SessionTypeOK /\ ThreadTypeOK
  BY DEF TypeInv, TypeOK
<1>b. /\ \A s \in Sessions : SessionFresh(s)
      /\ \A t \in Threads : ThreadFresh(t)
  BY DEF FreshInv
<1>c. /\ MaxVersion \in Nat
      /\ SessionOf \in [Threads -> Sessions]
      /\ NoThread \notin Threads
  BY ConstantsAssumption DEF ConstantsAssumption
<1>1. ASSUME NEW t \in Threads, Begin(t) PROVE FreshInv'
  <2>1. /\ UNCHANGED <<latest, acked, attached, dirty, lock>>
        /\ pc'[t] # "setetag"
    BY <1>1, <1>a DEF Begin, Goto, ThreadTypeOK
  <2>u. \A v : UpToDate(SessionOf[t], v) => UpToDate(SessionOf[t], v)'
    BY <1>1, <1>a, <1>c, <2>1, UpToDateStays, MovesAlone
       DEF Moves, SameThread, ThreadsOf
  <2>2. ThreadFresh(t)'
    BY <1>1, <1>a, <1>b, <1>c, <2>1, <2>u
       DEF Begin, Goto, SessionFresh, ThreadFresh, Attaching, ServerTypeOK,
           SessionTypeOK, ThreadTypeOK
  <2>3. QED
    BY <1>1, <1>a, <2>1, <2>2, MovesAlone, QuietStepFresh DEF Moves
<1>2. ASSUME NEW t \in Threads, Statement(t) PROVE FreshInv'
  <2>1. /\ UNCHANGED <<latest, acked, attached, dirty, lock>>
        /\ pc'[t] # "setetag"
    BY <1>2, <1>a DEF Statement, Goto, ThreadTypeOK
  <2>2. ThreadFresh(t)'
    BY <1>2, <1>a, <1>b, <1>c, <2>1
       DEF Statement, Goto, SessionFresh, ThreadFresh, Attaching, ServerTypeOK,
           SessionTypeOK, ThreadTypeOK
  <2>3. QED
    BY <1>2, <1>a, <2>1, <2>2, MovesAlone, QuietStepFresh DEF Moves
<1>3. ASSUME NEW t \in Threads, LoadTable(t) PROVE FreshInv'
  <2>1. /\ UNCHANGED <<latest, acked, attached, dirty, lock>>
        /\ pc'[t] # "setetag"
    BY <1>3, <1>a DEF LoadTable, Goto, ThreadTypeOK
  <2>u. \A v : UpToDate(SessionOf[t], v) => UpToDate(SessionOf[t], v)'
    BY <1>3, <1>a, <1>c, <2>1, UpToDateStays, MovesAlone
       DEF Moves, SameThread, ThreadsOf
  <2>2. ThreadFresh(t)'
    BY <1>3, <1>a, <1>b, <1>c, <2>1, <2>u
       DEF LoadTable, RatifiedVersions, Goto, SessionFresh, ThreadFresh,
           Attaching, UpToDate, ThreadsOf, ServerTypeOK, SessionTypeOK,
           ThreadTypeOK
  <2>3. QED
    BY <1>3, <1>a, <2>1, <2>2, MovesAlone, QuietStepFresh DEF Moves
<1>4. ASSUME NEW t \in Threads, CopyCommit(t) PROVE FreshInv'
  <2>1. /\ UNCHANGED <<latest, acked, attached, dirty, lock>>
        /\ pc'[t] # "setetag"
    BY <1>4, <1>a DEF CopyCommit, Goto, ThreadTypeOK
  <2>u. \A v : UpToDate(SessionOf[t], v) => UpToDate(SessionOf[t], v)'
    BY <1>4, <1>a, <1>c, <2>1, UpToDateStays, MovesAlone
       DEF Moves, SameThread, ThreadsOf
  <2>2. ThreadFresh(t)'
    BY <1>4, <1>a, <1>b, <1>c, <2>1, <2>u
       DEF CopyCommit, Goto, SessionFresh, ThreadFresh, Attaching,
           ServerTypeOK, SessionTypeOK, ThreadTypeOK
  <2>3. QED
    BY <1>4, <1>a, <2>1, <2>2, MovesAlone, QuietStepFresh DEF Moves
<1>5. ASSUME NEW t \in Threads, FinishCopy(t) PROVE FreshInv'
  <2>1. /\ UNCHANGED <<latest, acked, attached, dirty, lock>>
        /\ pc'[t] # "setetag"
    BY <1>5, <1>a DEF FinishCopy, Goto, ThreadTypeOK
  <2>u. \A v : UpToDate(SessionOf[t], v) => UpToDate(SessionOf[t], v)'
    BY <1>5, <1>a, <1>c, <2>1, UpToDateStays, MovesAlone
       DEF Moves, SameThread, ThreadsOf
  <2>2. ThreadFresh(t)'
    BY <1>5, <1>a, <1>b, <1>c, <2>1, <2>u
       DEF FinishCopy, Goto, SessionFresh, ThreadFresh, Attaching,
           ServerTypeOK, SessionTypeOK, ThreadTypeOK
  <2>3. QED
    BY <1>5, <1>a, <2>1, <2>2, MovesAlone, QuietStepFresh DEF Moves
<1>6. ASSUME NEW t \in Threads, CopyFails(t) PROVE FreshInv'
  <2>1. /\ UNCHANGED <<latest, acked, attached, dirty, lock>>
        /\ pc'[t] # "setetag"
    BY <1>6, <1>a DEF CopyFails, Goto, ThreadTypeOK
  <2>u. \A v : UpToDate(SessionOf[t], v) => UpToDate(SessionOf[t], v)'
    BY <1>6, <1>a, <1>c, <2>1, UpToDateStays, MovesAlone
       DEF Moves, SameThread, ThreadsOf
  <2>2. ThreadFresh(t)'
    BY <1>6, <1>a, <1>b, <1>c, <2>1, <2>u
       DEF CopyFails, Goto, SessionFresh, ThreadFresh, Attaching, ServerTypeOK,
           SessionTypeOK, ThreadTypeOK
  <2>3. QED
    BY <1>6, <1>a, <2>1, <2>2, MovesAlone, QuietStepFresh DEF Moves
<1>7. ASSUME NEW t \in Threads, BackfillDone(t) PROVE FreshInv'
  <2>1. /\ UNCHANGED <<latest, acked, attached, dirty, lock>>
        /\ pc'[t] # "setetag"
    BY <1>7, <1>a DEF BackfillDone, Goto, ThreadTypeOK
  <2>u. \A v : UpToDate(SessionOf[t], v) => UpToDate(SessionOf[t], v)'
    BY <1>7, <1>a, <1>c, <2>1, UpToDateStays, MovesAlone
       DEF Moves, SameThread, ThreadsOf
  <2>2. ThreadFresh(t)'
    BY <1>7, <1>a, <1>b, <1>c, <2>1, <2>u
       DEF BackfillDone, Goto, SessionFresh, ThreadFresh, Attaching,
           ServerTypeOK, SessionTypeOK, ThreadTypeOK
  <2>3. QED
    BY <1>7, <1>a, <2>1, <2>2, MovesAlone, QuietStepFresh DEF Moves
<1>8. ASSUME NEW t \in Threads, PublishCommitState(t) PROVE FreshInv'
  <2>1. /\ UNCHANGED <<latest, acked, attached, dirty, lock>>
        /\ pc'[t] # "setetag"
    BY <1>8, <1>a DEF PublishCommitState, Goto, ThreadTypeOK
  <2>u. \A v : UpToDate(SessionOf[t], v) => UpToDate(SessionOf[t], v)'
    BY <1>8, <1>a, <1>c, <2>1, UpToDateStays, MovesAlone
       DEF Moves, SameThread, ThreadsOf
  <2>2. ThreadFresh(t)'
    BY <1>8, <1>a, <1>b, <1>c, <2>1, <2>u
       DEF PublishCommitState, Goto, SessionFresh, ThreadFresh, Attaching,
           ServerTypeOK, SessionTypeOK, ThreadTypeOK
  <2>3. QED
    BY <1>8, <1>a, <2>1, <2>2, MovesAlone, QuietStepFresh DEF Moves
<1>9. ASSUME NEW t \in Threads, GetInternalCatalog(t) PROVE FreshInv'
  <2>1. /\ UNCHANGED <<latest, acked, attached, dirty, lock>>
        /\ pc'[t] # "setetag"
    BY <1>9, <1>a DEF GetInternalCatalog, Goto, ThreadTypeOK
  <2>2. ThreadFresh(t)'
    BY <1>9, <1>a, <1>b, <1>c, <2>1
       DEF GetInternalCatalog, Goto, SessionFresh, ThreadFresh, Attaching,
           ServerTypeOK, SessionTypeOK, ThreadTypeOK
  <2>3. QED
    BY <1>9, <1>a, <2>1, <2>2, MovesAlone, QuietStepFresh DEF Moves
<1>10. ASSUME NEW t \in Threads, UseCatalog(t) PROVE FreshInv'
  <2>1. /\ UNCHANGED <<latest, acked, attached, dirty, lock>>
        /\ pc'[t] # "setetag"
    BY <1>10, <1>a DEF UseCatalog, Goto, ThreadTypeOK
  <2>2. ThreadFresh(t)'
    BY <1>10, <1>a, <1>b, <1>c, <2>1
       DEF UseCatalog, Goto, SessionFresh, ThreadFresh, Attaching,
           ServerTypeOK, SessionTypeOK, ThreadTypeOK
  <2>3. QED
    BY <1>10, <1>a, <2>1, <2>2, MovesAlone, QuietStepFresh DEF Moves
<1>11. ASSUME NEW t \in Threads, SnapshotCommitState(t) PROVE FreshInv'
  <2>1. /\ UNCHANGED <<latest, acked, attached, dirty, lock>>
        /\ pc'[t] # "setetag"
    BY <1>11, <1>a DEF SnapshotCommitState, Goto, ThreadTypeOK
  <2>2. ThreadFresh(t)'
    BY <1>11, <1>a, <1>b, <1>c, <2>1
       DEF SnapshotCommitState, Goto, SessionFresh, ThreadFresh, Attaching,
           ServerTypeOK, SessionTypeOK, ThreadTypeOK
  <2>3. QED
    BY <1>11, <1>a, <2>1, <2>2, MovesAlone, QuietStepFresh DEF Moves
<1>12. ASSUME NEW t \in Threads, TakeAttachLock(t) PROVE FreshInv'
  <2> DEFINE s == SessionOf[t]
  <2>1. ASSUME NEW r \in Sessions, NEW v, UpToDate(r, v) PROVE UpToDate(r, v)'
    BY <1>12, <1>a, <2>1, UpToDateStays
       DEF TakeAttachLock, Goto, ThreadsOf, ThreadTypeOK
  <2>2. ASSUME NEW r \in Sessions PROVE SessionFresh(r)'
    BY <1>12, <1>a, <1>b, <1>c
       DEF TakeAttachLock, ReadByThisTransaction, Goto, SessionFresh,
           ThreadFresh, UpToDate, ThreadsOf, Attaching, ServerTypeOK,
           SessionTypeOK, ThreadTypeOK
  <2>3. ThreadFresh(t)'
    BY <1>12, <1>a, <1>b, <1>c, <2>1
       DEF TakeAttachLock, ReadByThisTransaction, Goto, SessionFresh,
           ThreadFresh, UpToDate, ThreadsOf, Attaching, ServerTypeOK,
           SessionTypeOK, ThreadTypeOK
  <2>4. ASSUME NEW u \in Threads, u # t PROVE ThreadFresh(u)'
    <3> DEFINE r == SessionOf[u]
    <3>1. latest' >= latest /\ acked'[r] >= acked[r]
      BY <1>12, <1>a, <1>c DEF TakeAttachLock, ServerTypeOK
    <3>2. pc[u] \in Attaching => UNCHANGED <<lock[r], attached[r]>>
      BY <1>12, <1>a, <1>b, <1>c, <2>4
         DEF TakeAttachLock, SessionTypeOK, ThreadFresh, Attaching
    <3>3. \/ attached'[r] \in {attached[r], NullDb}
          \/ attached'[r].version >= acked[r]
      BY <1>12, <1>a, <1>b, <1>c DEF TakeAttachLock, SessionTypeOK
    <3>4. SameThread(u)
      BY <1>12, <1>a, <2>4, MovesAlone DEF Moves
    <3>5. QED
      BY <1>b, <1>c, <2>1, <3>1, <3>2, <3>3, <3>4, OtherThreadFresh
  <2>5. QED
    BY <2>2, <2>3, <2>4 DEF FreshInv
<1>13. ASSUME NEW t \in Threads, AttachDatabase(t) PROVE FreshInv'
  <2> DEFINE s == SessionOf[t]
  <2>p. PICK g \in FreshGens(s) :
          attached' = [attached EXCEPT ![s] =
                         [gen |-> g, version |-> resp[t].version]]
    BY <1>13 DEF AttachDatabase
  <2>q. UpToDate(s, resp[t].version) /\ floor[t] <= acked[s]
    BY <1>13, <1>b DEF AttachDatabase, ThreadFresh, Attaching
  <2>r. /\ pc' = [pc EXCEPT ![t] = "use"]
        /\ UNCHANGED <<latest, acked, dirty, held, used, floor>>
    BY <1>13 DEF AttachDatabase, Goto
  <2>s. /\ \A r \in Sessions \ {s} : attached'[r] = attached[r]
        /\ attached'[s].version = resp[t].version
    BY <1>a, <1>c, <2>p DEF SessionTypeOK
  <2>1. ASSUME NEW r \in Sessions, NEW v, UpToDate(r, v) PROVE UpToDate(r, v)'
    BY <1>13, <1>a, <2>1, UpToDateStays
       DEF AttachDatabase, Goto, ThreadsOf, ThreadTypeOK
  <2>2. ASSUME NEW r \in Sessions PROVE SessionFresh(r)'
    BY <1>b, <2>1, <2>q, <2>r, <2>s DEF SessionFresh
  <2>3. ThreadFresh(t)'
    BY <1>13, <1>a, <1>b, <1>c, <2>1, <2>q, <2>r, <2>s
       DEF SessionFresh, ThreadFresh, UpToDate, ThreadsOf, Attaching,
           ServerTypeOK, SessionTypeOK, ThreadTypeOK
  <2>4. ASSUME NEW u \in Threads, u # t PROVE ThreadFresh(u)'
    <3> DEFINE r == SessionOf[u]
    <3>1. latest' >= latest /\ acked'[r] >= acked[r]
      BY <1>13, <1>a, <1>c DEF AttachDatabase, ServerTypeOK
    <3>2. pc[u] \in Attaching => UNCHANGED <<lock[r], attached[r]>>
      BY <1>13, <1>a, <1>b, <1>c, <2>4
         DEF AttachDatabase, SessionTypeOK, ThreadFresh, Attaching
    <3>3. \/ attached'[r] \in {attached[r], NullDb}
          \/ attached'[r].version >= acked[r]
      BY <1>13, <1>a, <1>b, <1>c, <2>q, <2>s
         DEF AttachDatabase, SessionTypeOK, UpToDate
    <3>4. SameThread(u)
      BY <1>13, <1>a, <2>4, MovesAlone DEF Moves
    <3>5. QED
      BY <1>b, <1>c, <2>1, <3>1, <3>2, <3>3, <3>4, OtherThreadFresh
  <2>5. QED
    BY <2>2, <2>3, <2>4 DEF FreshInv
<1>14. ASSUME NEW t \in Threads, UpdateTable(t) PROVE FreshInv'
  <2> DEFINE s == SessionOf[t]
  <2>1. ASSUME NEW r \in Sessions, NEW v, UpToDate(r, v) PROVE UpToDate(r, v)'
    BY <1>14, <1>a, <2>1, UpToDateStays
       DEF UpdateTable, Goto, ThreadsOf, ThreadTypeOK
  <2>2. ASSUME NEW r \in Sessions PROVE SessionFresh(r)'
    BY <1>14, <1>a, <1>b, <1>c
       DEF UpdateTable, Accepts, Ratify, Goto, SessionFresh, ThreadFresh,
           UpToDate, ThreadsOf, Attaching, ServerTypeOK, SessionTypeOK,
           ThreadTypeOK
  <2>3. ThreadFresh(t)'
    BY <1>14, <1>a, <1>b, <1>c, <2>1
       DEF UpdateTable, Accepts, Ratify, Goto, SessionFresh, ThreadFresh,
           Attaching, ServerTypeOK, SessionTypeOK, ThreadTypeOK
  <2>4. ASSUME NEW u \in Threads, u # t PROVE ThreadFresh(u)'
    <3> DEFINE r == SessionOf[u]
    <3>1. latest' >= latest /\ acked'[r] >= acked[r]
      BY <1>14, <1>a, <1>c DEF UpdateTable, Ratify, ServerTypeOK
    <3>2. pc[u] \in Attaching => UNCHANGED <<lock[r], attached[r]>>
      BY <1>14, <1>a, <1>b, <1>c, <2>4 DEF UpdateTable, SessionTypeOK
    <3>3. \/ attached'[r] \in {attached[r], NullDb}
          \/ attached'[r].version >= acked[r]
      BY <1>14, <1>a, <1>b, <1>c DEF UpdateTable, SessionTypeOK
    <3>4. SameThread(u)
      BY <1>14, <1>a, <2>4, MovesAlone DEF Moves
    <3>5. QED
      BY <1>b, <1>c, <2>1, <3>1, <3>2, <3>3, <3>4, OtherThreadFresh
  <2>5. QED
    BY <2>2, <2>3, <2>4 DEF FreshInv
<1>15. ASSUME NEW t \in Threads, MarkDirty(t) PROVE FreshInv'
  <2> DEFINE s == SessionOf[t]
  <2>1. ASSUME NEW u \in Threads, NEW v \in Versions, pc[u] \in Attaching,
               UpToDate(SessionOf[u], v)
        PROVE  UpToDate(SessionOf[u], v)'
    <3>1. SessionOf[u] # SessionOf[t]
      BY <1>15, <1>b, <1>c, <2>1 DEF MarkDirty, ThreadFresh
    <3>2. QED
      BY <1>15, <1>a, <1>c, <2>1, <3>1, UpToDateStays
         DEF MarkDirty, Goto, ThreadsOf, ThreadTypeOK
  <2>2. ASSUME NEW r \in Sessions PROVE SessionFresh(r)'
    BY <1>15, <1>a, <1>b, <1>c
       DEF MarkDirty, Goto, SessionFresh, ThreadFresh, UpToDate, ThreadsOf,
           Attaching, ServerTypeOK, SessionTypeOK, ThreadTypeOK
  <2>3. ThreadFresh(t)'
    BY <1>15, <1>a, <1>b, <1>c
       DEF MarkDirty, Goto, SessionFresh, ThreadFresh, Attaching, ServerTypeOK,
           SessionTypeOK, ThreadTypeOK
  <2>4. ASSUME NEW u \in Threads, u # t PROVE ThreadFresh(u)'
    <3> DEFINE r == SessionOf[u]
    <3>1. latest' >= latest /\ acked'[r] >= acked[r]
      BY <1>15, <1>a, <1>c DEF MarkDirty, ServerTypeOK
    <3>2. pc[u] \in Attaching => UNCHANGED <<lock[r], attached[r]>>
      BY <1>15, <1>a, <1>b, <1>c, <2>4
         DEF MarkDirty, SessionTypeOK, ThreadFresh, Attaching
    <3>3. \/ attached'[r] \in {attached[r], NullDb}
          \/ attached'[r].version >= acked[r]
      BY <1>15, <1>a, <1>b, <1>c DEF MarkDirty, SessionTypeOK
    <3>4. SameThread(u)
      BY <1>15, <1>a, <2>4, MovesAlone DEF Moves
    <3>5. QED
      BY <1>b, <1>c, <2>1, <3>1, <3>2, <3>3, <3>4, OtherThreadFresh
  <2>5. QED
    BY <2>2, <2>3, <2>4 DEF FreshInv
<1>16. ASSUME NEW t \in Threads, Finish(t) PROVE FreshInv'
  <2>1. EndTransactions({t})
    BY <1>16 DEF Finish, EndTransaction
  <2>2. latest' >= latest /\ UNCHANGED acked
    BY <1>16, <1>a, <1>c DEF Finish, ServerTypeOK
  <2>3. \A r \in Sessions : \/ UNCHANGED <<attached[r], dirty[r]>>
                           \/ attached'[r] = NullDb
    BY <1>16, <1>a DEF Finish, SessionTypeOK
  <2>4. \A u \in Threads : u \notin {t} /\ pc[u] \in Attaching =>
          UNCHANGED <<lock[SessionOf[u]], attached[SessionOf[u]]>>
    BY <1>16, <1>a, <1>b, <1>c DEF Finish, SessionTypeOK
  <2>5. QED
    BY <2>1, <2>2, <2>3, <2>4, EndTransactionsFreshInv
<1>17. ASSUME NEW t \in Threads, AttachFails(t) PROVE FreshInv'
  <2>1. EndTransactions({t})
    BY <1>17 DEF AttachFails, EndTransaction
  <2>2. latest' >= latest /\ UNCHANGED acked
    BY <1>17, <1>a, <1>c DEF AttachFails, ServerTypeOK
  <2>3. \A r \in Sessions : \/ UNCHANGED <<attached[r], dirty[r]>>
                           \/ attached'[r] = NullDb
    BY <1>17, <1>a DEF AttachFails, SessionTypeOK
  <2>4. \A u \in Threads : u \notin {t} /\ pc[u] \in Attaching =>
          UNCHANGED <<lock[SessionOf[u]], attached[SessionOf[u]]>>
    BY <1>17, <1>a, <1>b, <1>c
       DEF AttachFails, SessionTypeOK, ThreadFresh, Attaching
  <2>5. QED
    BY <2>1, <2>2, <2>3, <2>4, EndTransactionsFreshInv
<1>18. ASSUME NEW t \in Threads, SecondDatabaseRefused(t) PROVE FreshInv'
  <2>1. EndTransactions({t})
    BY <1>18 DEF SecondDatabaseRefused, EndTransaction
  <2>2. latest' >= latest /\ UNCHANGED acked
    BY <1>18, <1>a, <1>c DEF SecondDatabaseRefused, ServerTypeOK
  <2>3. \A r \in Sessions : \/ UNCHANGED <<attached[r], dirty[r]>>
                           \/ attached'[r] = NullDb
    BY <1>18, <1>a DEF SecondDatabaseRefused, SessionTypeOK
  <2>4. \A u \in Threads : u \notin {t} /\ pc[u] \in Attaching =>
          UNCHANGED <<lock[SessionOf[u]], attached[SessionOf[u]]>>
    BY <1>18, <1>a, <1>b, <1>c DEF SecondDatabaseRefused, SessionTypeOK
  <2>5. QED
    BY <2>1, <2>2, <2>3, <2>4, EndTransactionsFreshInv
<1>19. ASSUME NEW t \in Threads, UpdateTableFails(t) PROVE FreshInv'
  <2>1. EndTransactions({t})
    BY <1>19 DEF UpdateTableFails, EndTransaction
  <2>2. latest' >= latest /\ UNCHANGED acked
    BY <1>19, <1>a, <1>c DEF UpdateTableFails, ServerTypeOK
  <2>3. \A r \in Sessions : \/ UNCHANGED <<attached[r], dirty[r]>>
                           \/ attached'[r] = NullDb
    BY <1>19, <1>a DEF UpdateTableFails, SessionTypeOK
  <2>4. \A u \in Threads : u \notin {t} /\ pc[u] \in Attaching =>
          UNCHANGED <<lock[SessionOf[u]], attached[SessionOf[u]]>>
    BY <1>19, <1>a, <1>b, <1>c DEF UpdateTableFails, SessionTypeOK
  <2>5. QED
    BY <2>1, <2>2, <2>3, <2>4, EndTransactionsFreshInv
<1>20. ASSUME NEW t \in Threads, UpdateTableAnswerLost(t) PROVE FreshInv'
  <2>1. EndTransactions({t})
    BY <1>20 DEF UpdateTableAnswerLost, EndTransaction
  <2>2. latest' >= latest /\ UNCHANGED acked
    BY <1>20, <1>a, <1>c DEF UpdateTableAnswerLost, Ratify, ServerTypeOK
  <2>3. \A r \in Sessions : \/ UNCHANGED <<attached[r], dirty[r]>>
                           \/ attached'[r] = NullDb
    BY <1>20, <1>a DEF UpdateTableAnswerLost, SessionTypeOK
  <2>4. \A u \in Threads : u \notin {t} /\ pc[u] \in Attaching =>
          UNCHANGED <<lock[SessionOf[u]], attached[SessionOf[u]]>>
    BY <1>20, <1>a, <1>b, <1>c DEF UpdateTableAnswerLost, SessionTypeOK
  <2>5. QED
    BY <2>1, <2>2, <2>3, <2>4, EndTransactionsFreshInv
<1>21. ASSUME NEW t \in Threads, NullDereference(t) PROVE FreshInv'
  <2>1. EndTransactions(ThreadsOf(SessionOf[t]))
    BY <1>21 DEF NullDereference, ResetSession
  <2>2. latest' >= latest /\ UNCHANGED acked
    BY <1>21, <1>a, <1>c DEF NullDereference, ResetSession, ServerTypeOK
  <2>3. \A r \in Sessions : \/ UNCHANGED <<attached[r], dirty[r]>>
                           \/ attached'[r] = NullDb
    BY <1>21, <1>a DEF NullDereference, ResetSession, SessionTypeOK
  <2>4. \A u \in Threads : u \notin ThreadsOf(SessionOf[t]) /\ pc[u] \in Attaching =>
          UNCHANGED <<lock[SessionOf[u]], attached[SessionOf[u]]>>
    BY <1>21, <1>a, <1>b, <1>c
       DEF NullDereference, ResetSession, SessionTypeOK, ThreadsOf
  <2>5. QED
    BY <2>1, <2>2, <2>3, <2>4, EndTransactionsFreshInv
<1>22. ASSUME NEW t \in Threads, DanglingDereference(t) PROVE FreshInv'
  <2>1. EndTransactions(ThreadsOf(SessionOf[t]))
    BY <1>22 DEF DanglingDereference, ResetSession
  <2>2. latest' >= latest /\ UNCHANGED acked
    BY <1>22, <1>a, <1>c DEF DanglingDereference, ResetSession, ServerTypeOK
  <2>3. \A r \in Sessions : \/ UNCHANGED <<attached[r], dirty[r]>>
                           \/ attached'[r] = NullDb
    BY <1>22, <1>a DEF DanglingDereference, ResetSession, SessionTypeOK
  <2>4. \A u \in Threads : u \notin ThreadsOf(SessionOf[t]) /\ pc[u] \in Attaching =>
          UNCHANGED <<lock[SessionOf[u]], attached[SessionOf[u]]>>
    BY <1>22, <1>a, <1>b, <1>c
       DEF DanglingDereference, ResetSession, SessionTypeOK, ThreadsOf
  <2>5. QED
    BY <2>1, <2>2, <2>3, <2>4, EndTransactionsFreshInv
<1>23. ASSUME NEW s \in Sessions, OnDetach(s) PROVE FreshInv'
  <2>1. EndTransactions(ThreadsOf(s))
    BY <1>23 DEF OnDetach, ResetSession
  <2>2. latest' >= latest /\ UNCHANGED acked
    BY <1>23, <1>a, <1>c DEF OnDetach, ResetSession, ServerTypeOK
  <2>3. \A r \in Sessions : \/ UNCHANGED <<attached[r], dirty[r]>>
                           \/ attached'[r] = NullDb
    BY <1>23, <1>a DEF OnDetach, ResetSession, SessionTypeOK
  <2>4. \A u \in Threads : u \notin ThreadsOf(s) /\ pc[u] \in Attaching =>
          UNCHANGED <<lock[SessionOf[u]], attached[SessionOf[u]]>>
    BY <1>23, <1>a, <1>b, <1>c
       DEF OnDetach, ResetSession, SessionTypeOK, ThreadsOf
  <2>5. QED
    BY <2>1, <2>2, <2>3, <2>4, EndTransactionsFreshInv
<1>24. ASSUME NEW s \in Sessions, Kill(s) PROVE FreshInv'
  <2>1. EndTransactions(ThreadsOf(s))
    BY <1>24 DEF Kill, ResetSession
  <2>2. latest' >= latest /\ UNCHANGED acked
    BY <1>24, <1>a, <1>c DEF Kill, ResetSession, ServerTypeOK
  <2>3. \A r \in Sessions : \/ UNCHANGED <<attached[r], dirty[r]>>
                           \/ attached'[r] = NullDb
    BY <1>24, <1>a DEF Kill, ResetSession, SessionTypeOK
  <2>4. \A u \in Threads : u \notin ThreadsOf(s) /\ pc[u] \in Attaching =>
          UNCHANGED <<lock[SessionOf[u]], attached[SessionOf[u]]>>
    BY <1>24, <1>a, <1>b, <1>c DEF Kill, ResetSession, SessionTypeOK, ThreadsOf
  <2>5. QED
    BY <2>1, <2>2, <2>3, <2>4, EndTransactionsFreshInv
<1>25. ASSUME NEW t \in Threads, SetEtag(t) PROVE FreshInv'
  <2>1. EndTransactions({t}) /\ UNCHANGED <<latest, attached, dirty, lock>>
    BY <1>25 DEF SetEtag, EndTransaction
  <2>2. used[t].version \in Nat
    BY <1>a, <1>c DEF ThreadTypeOK
  <2>3. \A r \in Sessions : acked'[r] >= acked[r]
    BY <1>25, <1>a, <1>c, <2>2 DEF SetEtag, ServerTypeOK
  <2>4. ASSUME NEW r \in Sessions, NEW v \in Versions, UpToDate(r, v)
        PROVE  UpToDate(r, v)'
    <3>1. \A u \in ThreadsOf(r) : pc'[u] = "setetag" => v > used'[u].version
      BY <2>1, <2>4, EndTransactionsFresh DEF UpToDate, ThreadsOf
    <3>2. v >= acked'[r]
      BY <1>25, <1>a, <1>c, <2>2, <2>4
         DEF SetEtag, UpToDate, ThreadsOf, ServerTypeOK
    <3>3. QED
      BY <3>1, <3>2 DEF UpToDate
  <2>5. ASSUME NEW r \in Sessions PROVE SessionFresh(r)'
    <3>1. latest' >= acked'[r]
      BY <1>25, <1>a, <1>b, <1>c, <2>1, <2>2
         DEF SetEtag, SessionFresh, ThreadFresh, ServerTypeOK
    <3>2. QED
      BY <1>a, <1>b, <2>1, <2>4, <3>1 DEF SessionFresh, SessionTypeOK
  <2>6. ASSUME NEW u \in Threads, u # t PROVE ThreadFresh(u)'
    BY <1>a, <1>b, <1>c, <2>1, <2>3, <2>4, <2>6, EndTransactionsFresh,
       OtherThreadFresh DEF ServerTypeOK
  <2>7. QED
    BY <2>1, <2>5, <2>6, EndTransactionsFresh DEF FreshInv
<1>26. CASE PublishedElsewhere
  BY <1>26, <1>b
     DEF PublishedElsewhere, FreshInv, SessionFresh, ThreadFresh, UpToDate
<1>27. CASE UNCHANGED vars
  BY <1>27, <1>b DEF vars, FreshInv, SessionFresh, ThreadFresh, UpToDate
<1>28. QED
  BY <1>1, <1>2, <1>3, <1>4, <1>5, <1>6, <1>7, <1>8, <1>9, <1>10, <1>11, <1>12,
     <1>13, <1>14, <1>15, <1>16, <1>17, <1>18, <1>19, <1>20, <1>21, <1>22,
     <1>23, <1>24, <1>25, <1>26, <1>27
     DEF Next, ThreadStep, CallStep, AttachStep, CatalogStep, CommitStep

\* A transaction never reads an older version than the commits its session had
\* seen return when it began, provided the server always reports the latest
\* version: MarkDirty reaches every database that a later transaction can get.
THEOREM ReadsAreFresh == ASSUME OptionalFields PROVE Spec => []FreshReads
<1>1. FreshInv => FreshReads
  BY DEF FreshInv, ThreadFresh, FreshReads
<1>2. QED
  BY <1>1, TypeInit, TypeStep, FreshInit, FreshStep, PTL DEF Spec

-----------------------------------------------------------------------------
(* The watermark.                                                          *)

\* Who attaches has the lock, and what it will publish is no older than what is
\* there.
ThreadWatermark(t) ==
  /\ pc[t] \in Attaching => lock[SessionOf[t]] = t
  /\ pc[t] \in {"backfill", "write", "publish"}
       => local_wm[t] >= watermark[SessionOf[t]]

WatermarkInv == \A t \in Threads : ThreadWatermark(t)

\* The steps of the threads ts, the others of their sessions not attaching
LEMMA WatermarkKept ==
  ASSUME WatermarkInv, NEW ts,
         \A u \in Threads : u \notin ts =>
           /\ SameThread(u)
           /\ pc[u] \in Attaching =>
                /\ lock'[SessionOf[u]] = lock[SessionOf[u]]
                /\ watermark'[SessionOf[u]] = watermark[SessionOf[u]],
         \A t \in Threads : t \in ts => ThreadWatermark(t)'
  PROVE  WatermarkInv'
<1>1. ASSUME NEW u \in Threads, u \notin ts PROVE ThreadWatermark(u)'
  BY <1>1 DEF SameThread, WatermarkInv, ThreadWatermark, Attaching
<1>2. QED
  BY <1>1 DEF WatermarkInv

\* A thread moves on, within or outside an attach.
LEMMA MovesWatermark ==
  ASSUME ThreadTypeOK, WatermarkInv, NEW t \in Threads, Moves(t),
         ThreadWatermark(t)',
         \A u \in Threads : u # t /\ pc[u] \in Attaching =>
           /\ lock'[SessionOf[u]] = lock[SessionOf[u]]
           /\ watermark'[SessionOf[u]] = watermark[SessionOf[u]]
  PROVE  WatermarkInv'
<1>1. ASSUME NEW u \in Threads, u # t PROVE ThreadWatermark(u)'
  <2>1. SameThread(u)
    BY <1>1, MovesAlone
  <2>2. QED
    BY <1>1, <2>1 DEF SameThread, WatermarkInv, ThreadWatermark, Attaching
<1>2. QED
  BY <1>1 DEF WatermarkInv

\* A transaction that is over attaches nothing.
LEMMA EndTransactionsWatermark ==
  ASSUME WatermarkInv, NEW ts, EndTransactions(ts),
         \A u \in Threads : u \notin ts /\ pc[u] \in Attaching =>
           /\ lock'[SessionOf[u]] = lock[SessionOf[u]]
           /\ watermark'[SessionOf[u]] = watermark[SessionOf[u]]
  PROVE  WatermarkInv'
<1>1. \A t \in Threads : t \in ts => ThreadWatermark(t)'
  BY EndTransactionsAlone DEF ThreadWatermark, Attaching
<1>2. QED
  BY <1>1, EndTransactionsAlone, WatermarkKept

LEMMA WatermarkStep == TypeInv /\ WatermarkInv /\ [Next]_vars => WatermarkInv'
<1> SUFFICES ASSUME TypeInv, WatermarkInv, [Next]_vars PROVE WatermarkInv'
  OBVIOUS
<1>a. /\ SessionTypeOK /\ ThreadTypeOK
      /\ SessionOf \in [Threads -> Sessions] /\ NoThread \notin Threads
  BY ConstantsAssumption DEF TypeInv, TypeOK, ConstantsAssumption
<1>b. \A t \in Threads : ThreadWatermark(t)
  BY DEF WatermarkInv
<1>1. ASSUME NEW t \in Threads, Begin(t) PROVE WatermarkInv'
  <2>1. UNCHANGED <<lock, watermark>>
    BY <1>1 DEF Begin
  <2>2. ThreadWatermark(t)'
    BY <1>1, <1>a, <1>b, <2>1
       DEF Begin, Goto, ThreadWatermark, Attaching,
           SessionTypeOK, ThreadTypeOK
  <2>3. QED
    BY <1>1, <1>a, <2>1, <2>2, MovesWatermark DEF Moves
<1>2. ASSUME NEW t \in Threads, Statement(t) PROVE WatermarkInv'
  <2>1. UNCHANGED <<lock, watermark>>
    BY <1>2 DEF Statement
  <2>2. ThreadWatermark(t)'
    BY <1>2, <1>a, <1>b, <2>1
       DEF Statement, Goto, ThreadWatermark, Attaching,
           SessionTypeOK, ThreadTypeOK
  <2>3. QED
    BY <1>2, <1>a, <2>1, <2>2, MovesWatermark DEF Moves
<1>3. ASSUME NEW t \in Threads, CopyCommit(t) PROVE WatermarkInv'
  <2> DEFINE s == SessionOf[t]
  <2>1. UNCHANGED <<lock, watermark>>
    BY <1>3 DEF CopyCommit
  <2>2. /\ pc[t] \in {"backfill", "write"} /\ lock[s] = t
        /\ local_wm[t] >= watermark[s]
    BY <1>3, <1>b DEF CopyCommit, ThreadWatermark, Attaching
  <2>3. /\ local_wm[t] \in Int /\ watermark[s] \in Int
        /\ resp[t].first \in Int
    BY <1>a, ConstantsAssumption
       DEF ConstantsAssumption, SessionTypeOK, ThreadTypeOK
  <2>4. NextCommit(t) \in Int /\ NextCommit(t) >= local_wm[t]
    BY <2>3 DEF NextCommit
  <2>5. local_wm'[t] \in {local_wm[t], NextCommit(t)}
    BY <1>3, <1>a DEF CopyCommit, ThreadTypeOK
  <2>6. local_wm'[t] >= watermark[s]
    BY <2>2, <2>3, <2>4, <2>5
  <2>7. ThreadWatermark(t)'
    BY <2>1, <2>2, <2>6 DEF ThreadWatermark
  <2>8. QED
    BY <1>3, <1>a, <2>1, <2>7, MovesWatermark DEF Moves
<1>4. ASSUME NEW t \in Threads, FinishCopy(t) PROVE WatermarkInv'
  <2> DEFINE s == SessionOf[t]
  <2>1. UNCHANGED <<lock, watermark>>
    BY <1>4 DEF FinishCopy
  <2>2. /\ pc[t] \in {"backfill", "write"} /\ lock[s] = t
        /\ local_wm[t] >= watermark[s]
    BY <1>4, <1>b DEF FinishCopy, ThreadWatermark, Attaching
  <2>3. /\ local_wm[t] \in Int /\ watermark[s] \in Int
        /\ resp[t].first \in Int
    BY <1>a, ConstantsAssumption
       DEF ConstantsAssumption, SessionTypeOK, ThreadTypeOK
  <2>4. NextCommit(t) \in Int /\ NextCommit(t) >= local_wm[t]
    BY <2>3 DEF NextCommit
  <2>5. local_wm'[t] \in {local_wm[t], NextCommit(t)}
    BY <1>4, <1>a DEF FinishCopy, ThreadTypeOK
  <2>6. local_wm'[t] >= watermark[s]
    BY <2>2, <2>3, <2>4, <2>5
  <2>7. ThreadWatermark(t)'
    BY <2>1, <2>2, <2>6 DEF ThreadWatermark
  <2>8. QED
    BY <1>4, <1>a, <2>1, <2>7, MovesWatermark DEF Moves
<1>5. ASSUME NEW t \in Threads, CopyFails(t) PROVE WatermarkInv'
  <2>1. UNCHANGED <<lock, watermark>>
    BY <1>5 DEF CopyFails
  <2>2. ThreadWatermark(t)'
    BY <1>5, <1>a, <1>b, <2>1
       DEF CopyFails, Goto, ThreadWatermark, Attaching,
           SessionTypeOK, ThreadTypeOK
  <2>3. QED
    BY <1>5, <1>a, <2>1, <2>2, MovesWatermark DEF Moves
<1>6. ASSUME NEW t \in Threads, BackfillDone(t) PROVE WatermarkInv'
  <2>1. UNCHANGED <<lock, watermark>>
    BY <1>6 DEF BackfillDone
  <2>2. ThreadWatermark(t)'
    BY <1>6, <1>a, <1>b, <2>1
       DEF BackfillDone, Goto, ThreadWatermark, Attaching,
           SessionTypeOK, ThreadTypeOK
  <2>3. QED
    BY <1>6, <1>a, <2>1, <2>2, MovesWatermark DEF Moves
<1>7. ASSUME NEW t \in Threads, GetInternalCatalog(t) PROVE WatermarkInv'
  <2>1. UNCHANGED <<lock, watermark>>
    BY <1>7 DEF GetInternalCatalog
  <2>2. ThreadWatermark(t)'
    BY <1>7, <1>a, <1>b, <2>1
       DEF GetInternalCatalog, Goto, ThreadWatermark, Attaching,
           SessionTypeOK, ThreadTypeOK
  <2>3. QED
    BY <1>7, <1>a, <2>1, <2>2, MovesWatermark DEF Moves
<1>8. ASSUME NEW t \in Threads, UseCatalog(t) PROVE WatermarkInv'
  <2>1. UNCHANGED <<lock, watermark>>
    BY <1>8 DEF UseCatalog
  <2>2. ThreadWatermark(t)'
    BY <1>8, <1>a, <1>b, <2>1
       DEF UseCatalog, Goto, ThreadWatermark, Attaching,
           SessionTypeOK, ThreadTypeOK
  <2>3. QED
    BY <1>8, <1>a, <2>1, <2>2, MovesWatermark DEF Moves
<1>9. ASSUME NEW t \in Threads, SnapshotCommitState(t) PROVE WatermarkInv'
  <2>1. UNCHANGED <<lock, watermark>>
    BY <1>9 DEF SnapshotCommitState
  <2>2. ThreadWatermark(t)'
    BY <1>9, <1>a, <1>b, <2>1
       DEF SnapshotCommitState, Goto, ThreadWatermark, Attaching,
           SessionTypeOK, ThreadTypeOK
  <2>3. QED
    BY <1>9, <1>a, <2>1, <2>2, MovesWatermark DEF Moves
<1>10. ASSUME NEW t \in Threads, UpdateTable(t) PROVE WatermarkInv'
  <2>1. UNCHANGED <<lock, watermark>>
    BY <1>10 DEF UpdateTable
  <2>2. ThreadWatermark(t)'
    BY <1>10, <1>a, <1>b, <2>1
       DEF UpdateTable, Goto, ThreadWatermark, Attaching,
           SessionTypeOK, ThreadTypeOK
  <2>3. QED
    BY <1>10, <1>a, <2>1, <2>2, MovesWatermark DEF Moves
<1>11. ASSUME NEW t \in Threads, MarkDirty(t) PROVE WatermarkInv'
  <2>1. UNCHANGED <<lock, watermark>>
    BY <1>11 DEF MarkDirty
  <2>2. ThreadWatermark(t)'
    BY <1>11, <1>a, <1>b, <2>1
       DEF MarkDirty, Goto, ThreadWatermark, Attaching,
           SessionTypeOK, ThreadTypeOK
  <2>3. QED
    BY <1>11, <1>a, <2>1, <2>2, MovesWatermark DEF Moves
<1>12. ASSUME NEW t \in Threads, LoadTable(t) PROVE WatermarkInv'
  <2> DEFINE s == SessionOf[t]
  <2>1. /\ UNCHANGED <<lock, watermark>>
        /\ local_wm' = [local_wm EXCEPT ![t] = watermark[s]]
    BY <1>12 DEF LoadTable
  <2>2. lock[s] = t
    BY <1>12, <1>b DEF LoadTable, ThreadWatermark, Attaching
  <2>3. watermark[s] \in Int
    BY <1>a, ConstantsAssumption DEF ConstantsAssumption, SessionTypeOK
  <2>4. local_wm'[t] >= watermark'[s]
    BY <1>a, <2>1, <2>3 DEF ThreadTypeOK
  <2>5. ThreadWatermark(t)'
    BY <2>1, <2>2, <2>4 DEF ThreadWatermark
  <2>6. QED
    BY <1>12, <1>a, <2>1, <2>5, MovesWatermark DEF Moves
<1>13. ASSUME NEW t \in Threads, TakeAttachLock(t) PROVE WatermarkInv'
  <2>1. ThreadWatermark(t)'
    BY <1>13, <1>a, <1>b
       DEF TakeAttachLock, Goto, ThreadWatermark, Attaching, SessionTypeOK,
           ThreadTypeOK
  <2>2. ASSUME NEW u \in Threads, u # t, pc[u] \in Attaching
        PROVE  /\ lock'[SessionOf[u]] = lock[SessionOf[u]]
               /\ watermark'[SessionOf[u]] = watermark[SessionOf[u]]
    <3>1. lock[SessionOf[u]] = u /\ lock[SessionOf[t]] \in {t, NoThread}
      BY <1>13, <1>b, <2>2 DEF TakeAttachLock, ThreadWatermark, Attaching
    <3>2. SessionOf[u] # SessionOf[t]
      BY <1>a, <2>2, <3>1
    <3>3. QED
      BY <1>13, <1>a, <3>2 DEF TakeAttachLock, SessionTypeOK
  <2>3. QED
    BY <1>13, <1>a, <2>1, <2>2, MovesWatermark DEF Moves
<1>14. ASSUME NEW t \in Threads, PublishCommitState(t) PROVE WatermarkInv'
  <2>1. ThreadWatermark(t)'
    BY <1>14, <1>a, <1>b
       DEF PublishCommitState, Goto, ThreadWatermark, Attaching, SessionTypeOK,
           ThreadTypeOK
  <2>2. ASSUME NEW u \in Threads, u # t, pc[u] \in Attaching
        PROVE  /\ lock'[SessionOf[u]] = lock[SessionOf[u]]
               /\ watermark'[SessionOf[u]] = watermark[SessionOf[u]]
    <3>1. lock[SessionOf[u]] = u /\ lock[SessionOf[t]] \in {t, NoThread}
      BY <1>14, <1>b, <2>2 DEF PublishCommitState, ThreadWatermark, Attaching
    <3>2. SessionOf[u] # SessionOf[t]
      BY <1>a, <2>2, <3>1
    <3>3. QED
      BY <1>14, <1>a, <3>2 DEF PublishCommitState, SessionTypeOK
  <2>3. QED
    BY <1>14, <1>a, <2>1, <2>2, MovesWatermark DEF Moves
<1>15. ASSUME NEW t \in Threads, AttachDatabase(t) PROVE WatermarkInv'
  <2>1. ThreadWatermark(t)'
    BY <1>15, <1>a, <1>b
       DEF AttachDatabase, Goto, ThreadWatermark, Attaching, SessionTypeOK,
           ThreadTypeOK
  <2>2. ASSUME NEW u \in Threads, u # t, pc[u] \in Attaching
        PROVE  /\ lock'[SessionOf[u]] = lock[SessionOf[u]]
               /\ watermark'[SessionOf[u]] = watermark[SessionOf[u]]
    <3>1. lock[SessionOf[u]] = u /\ lock[SessionOf[t]] \in {t, NoThread}
      BY <1>15, <1>b, <2>2 DEF AttachDatabase, ThreadWatermark, Attaching
    <3>2. SessionOf[u] # SessionOf[t]
      BY <1>a, <2>2, <3>1
    <3>3. QED
      BY <1>15, <1>a, <3>2 DEF AttachDatabase, SessionTypeOK
  <2>3. QED
    BY <1>15, <1>a, <2>1, <2>2, MovesWatermark DEF Moves
<1>16. ASSUME NEW t \in Threads, Finish(t) PROVE WatermarkInv'
  <2>1. EndTransactions({t}) /\ UNCHANGED <<lock, watermark>>
    BY <1>16 DEF Finish, EndTransaction
  <2>2. QED
    BY <2>1, EndTransactionsWatermark
<1>17. ASSUME NEW t \in Threads, SecondDatabaseRefused(t) PROVE WatermarkInv'
  <2>1. EndTransactions({t}) /\ UNCHANGED <<lock, watermark>>
    BY <1>17 DEF SecondDatabaseRefused, EndTransaction
  <2>2. QED
    BY <2>1, EndTransactionsWatermark
<1>18. ASSUME NEW t \in Threads, UpdateTableFails(t) PROVE WatermarkInv'
  <2>1. EndTransactions({t}) /\ UNCHANGED <<lock, watermark>>
    BY <1>18 DEF UpdateTableFails, EndTransaction
  <2>2. QED
    BY <2>1, EndTransactionsWatermark
<1>19. ASSUME NEW t \in Threads, UpdateTableAnswerLost(t) PROVE WatermarkInv'
  <2>1. EndTransactions({t}) /\ UNCHANGED <<lock, watermark>>
    BY <1>19 DEF UpdateTableAnswerLost, EndTransaction
  <2>2. QED
    BY <2>1, EndTransactionsWatermark
<1>20. ASSUME NEW t \in Threads, SetEtag(t) PROVE WatermarkInv'
  <2>1. EndTransactions({t}) /\ UNCHANGED <<lock, watermark>>
    BY <1>20 DEF SetEtag, EndTransaction
  <2>2. QED
    BY <2>1, EndTransactionsWatermark
<1>21. ASSUME NEW t \in Threads, AttachFails(t) PROVE WatermarkInv'
  <2>1. EndTransactions({t}) /\ UNCHANGED watermark
    BY <1>21 DEF AttachFails, EndTransaction
  <2>2. ASSUME NEW u \in Threads, u # t, pc[u] \in Attaching
        PROVE  lock'[SessionOf[u]] = lock[SessionOf[u]]
    <3>1. lock[SessionOf[u]] = u /\ lock[SessionOf[t]] = t
      BY <1>21, <1>b, <2>2 DEF AttachFails, ThreadWatermark, Attaching
    <3>2. SessionOf[u] # SessionOf[t]
      BY <1>a, <2>2, <3>1
    <3>3. QED
      BY <1>21, <1>a, <3>2 DEF AttachFails, SessionTypeOK
  <2>3. QED
    BY <2>1, <2>2, EndTransactionsWatermark
<1>22. ASSUME NEW t \in Threads, NullDereference(t) PROVE WatermarkInv'
  <2>1. EndTransactions(ThreadsOf(SessionOf[t]))
    BY <1>22 DEF NullDereference, ResetSession
  <2>2. \A u \in Threads : u \notin ThreadsOf(SessionOf[t]) =>
          /\ lock'[SessionOf[u]] = lock[SessionOf[u]]
          /\ watermark'[SessionOf[u]] = watermark[SessionOf[u]]
    BY <1>22, <1>a DEF NullDereference, ResetSession, ThreadsOf, SessionTypeOK
  <2>3. QED
    BY <2>1, <2>2, EndTransactionsWatermark
<1>23. ASSUME NEW t \in Threads, DanglingDereference(t) PROVE WatermarkInv'
  <2>1. EndTransactions(ThreadsOf(SessionOf[t]))
    BY <1>23 DEF DanglingDereference, ResetSession
  <2>2. \A u \in Threads : u \notin ThreadsOf(SessionOf[t]) =>
          /\ lock'[SessionOf[u]] = lock[SessionOf[u]]
          /\ watermark'[SessionOf[u]] = watermark[SessionOf[u]]
    BY <1>23, <1>a DEF DanglingDereference, ResetSession, ThreadsOf, SessionTypeOK
  <2>3. QED
    BY <2>1, <2>2, EndTransactionsWatermark
<1>24. ASSUME NEW s \in Sessions, OnDetach(s) PROVE WatermarkInv'
  <2>1. EndTransactions(ThreadsOf(s))
    BY <1>24 DEF OnDetach, ResetSession
  <2>2. \A u \in Threads : u \notin ThreadsOf(s) =>
          /\ lock'[SessionOf[u]] = lock[SessionOf[u]]
          /\ watermark'[SessionOf[u]] = watermark[SessionOf[u]]
    BY <1>24, <1>a DEF OnDetach, ResetSession, ThreadsOf, SessionTypeOK
  <2>3. QED
    BY <2>1, <2>2, EndTransactionsWatermark
<1>25. ASSUME NEW s \in Sessions, Kill(s) PROVE WatermarkInv'
  <2>1. EndTransactions(ThreadsOf(s))
    BY <1>25 DEF Kill, ResetSession
  <2>2. \A u \in Threads : u \notin ThreadsOf(s) =>
          /\ lock'[SessionOf[u]] = lock[SessionOf[u]]
          /\ watermark'[SessionOf[u]] = watermark[SessionOf[u]]
    BY <1>25, <1>a DEF Kill, ResetSession, ThreadsOf, SessionTypeOK
  <2>3. QED
    BY <2>1, <2>2, EndTransactionsWatermark
<1>26. CASE PublishedElsewhere \/ UNCHANGED vars
  BY <1>26, <1>b DEF PublishedElsewhere, vars, WatermarkInv, ThreadWatermark
<1>27. QED
  BY <1>1, <1>2, <1>3, <1>4, <1>5, <1>6, <1>7, <1>8, <1>9, <1>10, <1>11,
     <1>12, <1>13, <1>14, <1>15, <1>16, <1>17, <1>18, <1>19, <1>20,
     <1>21, <1>22, <1>23, <1>24, <1>25, <1>26
     DEF Next, ThreadStep, CallStep, AttachStep, CatalogStep, CommitStep

\* What a step does to the watermarks
LEMMA WatermarkAdvances ==
  ASSUME TypeInv, WatermarkInv, [Next]_vars, NEW s \in Sessions
  PROVE  \/ watermark'[s] >= watermark[s]
         \/ \A t \in ThreadsOf(s) : pc'[t] = "idle"
<1>a. /\ SessionTypeOK /\ ThreadTypeOK
      /\ SessionOf \in [Threads -> Sessions]
  BY ConstantsAssumption DEF TypeInv, TypeOK, ConstantsAssumption
<1>b. watermark[s] \in Int
  BY <1>a, ConstantsAssumption DEF ConstantsAssumption, SessionTypeOK
<1>1. CASE UNCHANGED watermark
  BY <1>1, <1>b
<1>2. ASSUME NEW t \in Threads, PublishCommitState(t)
      PROVE  watermark'[s] >= watermark[s]
  <2>1. local_wm[t] >= watermark[SessionOf[t]]
    BY <1>2 DEF PublishCommitState, WatermarkInv, ThreadWatermark
  <2>2. QED
    BY <1>2, <1>a, <1>b, <2>1 DEF PublishCommitState, SessionTypeOK
<1>3. ASSUME NEW r \in Sessions, ResetSession(r)
      PROVE  \/ watermark'[s] >= watermark[s]
             \/ \A t \in ThreadsOf(s) : pc'[t] = "idle"
  <2>1. CASE r = s
    BY <1>3, <2>1, EndTransactionsAlone DEF ResetSession, ThreadsOf
  <2>2. CASE r # s
    BY <1>3, <1>a, <1>b, <2>2 DEF ResetSession, SessionTypeOK
  <2>3. QED BY <2>1, <2>2
<1>4. \/ UNCHANGED watermark
      \/ \E t \in Threads : PublishCommitState(t)
      \/ \E r \in Sessions : ResetSession(r)
  BY <1>a
     DEF Next, ThreadStep, CallStep, AttachStep, CatalogStep, CommitStep, vars,
         Begin, Statement, Finish, SnapshotCommitState, TakeAttachLock,
         LoadTable, AttachFails, CopyCommit, FinishCopy, CopyFails,
         BackfillDone, AttachDatabase, GetInternalCatalog, NullDereference,
         UseCatalog, SecondDatabaseRefused, DanglingDereference, UpdateTable,
         UpdateTableFails, UpdateTableAnswerLost, MarkDirty, SetEtag, OnDetach,
         Kill, PublishedElsewhere
<1>5. QED
  BY <1>1, <1>2, <1>3, <1>4

\* The published watermark of a session never goes back while its
\* TableInformation lives, since attach_lock is held from the read of its start
\* value to its publication.
THEOREM WatermarkAdvancesOnly == Spec => WatermarkNeverRetreats
<1>1. Init => WatermarkInv
  BY DEF Init, WatermarkInv, ThreadWatermark, Attaching
<1>2. TypeInv /\ WatermarkInv /\ [Next]_vars
        => [\A s \in Sessions : \/ watermark'[s] >= watermark[s]
                                \/ \A t \in ThreadsOf(s) : pc'[t] = "idle"]_vars
  BY WatermarkAdvances
<1>3. QED
  BY <1>1, <1>2, TypeInit, TypeStep, WatermarkStep, PTL
     DEF Spec, WatermarkNeverRetreats
=============================================================================
