--------------------------- MODULE VersionedTable ---------------------------
(***************************************************************************)
(* What a catalog-managed table promises the transactions that use it.     *)
(* The table is a sequence of versions.  A transaction reads one version   *)
(* throughout, at least as new as the commits its own session had seen     *)
(* return when it began, and commits only on top of the latest version, so *)
(* that no version is produced from a state that an intervening commit     *)
(* has replaced.  CatalogManagedTable implements this.                     *)
(***************************************************************************)
EXTENDS Integers

CONSTANTS
  Sessions,   \* the clients
  Threads,    \* the threads that run their transactions
  SessionOf   \* the client of each thread

VARIABLES
  latest,     \* the latest version
  reading,    \* the version each transaction reads, Nothing before its read
  committed,  \* has the transaction's commit taken effect
  floor,      \* acked when the transaction began
  acked       \* the latest version whose commit returned to each client

avars == <<latest, reading, committed, floor, acked>>

Nothing == -1

AInit ==
  /\ latest = 0
  /\ reading = [t \in Threads |-> Nothing]
  /\ committed = [t \in Threads |-> FALSE]
  /\ floor = [t \in Threads |-> 0]
  /\ acked = [s \in Sessions |-> 0]

Began(t) ==
  /\ reading[t] = Nothing
  /\ floor' = [floor EXCEPT ![t] = acked[SessionOf[t]]]
  /\ UNCHANGED <<latest, reading, committed, acked>>

Read(t) ==
  /\ reading[t] = Nothing
  /\ \E v \in floor[t] .. latest : reading' = [reading EXCEPT ![t] = v]
  /\ UNCHANGED <<latest, committed, floor, acked>>

Finished(ts) ==
  /\ reading' = [t \in Threads |-> IF t \in ts THEN Nothing ELSE reading[t]]
  /\ committed' = [t \in Threads |-> IF t \in ts THEN FALSE ELSE committed[t]]
  /\ floor' = [t \in Threads |-> IF t \in ts THEN 0 ELSE floor[t]]

\* The commit takes effect, seen by its client (committed) or, when the answer
\* is lost, not.
Commit(t) ==
  /\ reading[t] = latest
  /\ ~committed[t]
  /\ latest' = latest + 1
  /\ \/ /\ committed' = [committed EXCEPT ![t] = TRUE]
        /\ UNCHANGED <<reading, floor>>
     \/ Finished({t})
  /\ UNCHANGED acked

\* The client learns of its commit.
Return(t) ==
  /\ committed[t]
  /\ Finished({t})
  /\ \E v \in {reading[t] + 1, acked[SessionOf[t]]} :
       /\ v >= reading[t] + 1
       /\ v >= acked[SessionOf[t]]
       /\ acked' = [acked EXCEPT ![SessionOf[t]] = v]
  /\ UNCHANGED latest

\* Transactions end without an answer: rolled back, failed, or killed.
End(ts) == Finished(ts) /\ UNCHANGED <<latest, acked>>

ANext ==
  \/ \E t \in Threads : Began(t) \/ Read(t) \/ Commit(t) \/ Return(t)
  \/ \E ts \in SUBSET Threads : End(ts)

ASpec == AInit /\ [][ANext]_avars
=============================================================================
