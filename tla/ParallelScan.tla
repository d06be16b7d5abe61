---------------------------- MODULE ParallelScan ----------------------------
(***************************************************************************)
(* What a planned scan promises the query.  The plan leaves some rows of   *)
(* some files.  Readers work side by side: each takes a file that nobody   *)
(* has taken, and returns its rows, all of them and at once.  The scan is  *)
(* done when no file is left, or it fails, and then what it has returned   *)
(* and what its readers still do are of no account.  FileList implements   *)
(* this.                                                                   *)
(***************************************************************************)
EXTENDS Integers

CONSTANTS
  Readers,    \* the threads of the scan
  Files,      \* data files
  Positions   \* rows of a file

VARIABLES
  status,     \* running, done or failed
  live,       \* the rows that the plan leaves
  todo,       \* the files that nobody has taken
  reading,    \* the file that each reader has taken, a set of 0 or 1
  output      \* how often each row was returned

pvars == <<status, live, todo, reading, output>>

PInit ==
  /\ status = "running"
  /\ todo \in SUBSET Files
  /\ live \in SUBSET (todo \X Positions)
  /\ reading = [t \in Readers |-> {}]
  /\ output = [r \in Files \X Positions |-> 0]

Take(t) ==
  /\ status = "running"
  /\ reading[t] = {}
  /\ \E file \in todo :
       /\ todo' = todo \ {file}
       /\ reading' = [reading EXCEPT ![t] = {file}]
  /\ UNCHANGED <<status, live, output>>

Return(t) ==
  /\ status = "running"
  /\ reading[t] # {}
  /\ reading' = [reading EXCEPT ![t] = {}]
  /\ output' = [r \in Files \X Positions |->
       output[r] + (IF r \in live /\ r[1] \in reading[t] THEN 1 ELSE 0)]
  /\ UNCHANGED <<status, live, todo>>

Finish ==
  /\ status = "running"
  /\ todo = {}
  /\ \A t \in Readers : reading[t] = {}
  /\ status' = "done"
  /\ UNCHANGED <<live, todo, reading, output>>

\* A reader raises an error, or has lost its way.
Fail(t) ==
  /\ status = "running"
  /\ status' = "failed"
  /\ reading' \in {reading, [reading EXCEPT ![t] = {}]}
  /\ UNCHANGED <<live, todo, output>>

\* The others run on.
Abandoned ==
  /\ status = "failed"
  /\ UNCHANGED <<status, live>>

PNext ==
  \/ \E t \in Readers : Take(t) \/ Return(t) \/ Fail(t)
  \/ Finish
  \/ Abandoned

PSpec == PInit /\ [][PNext]_pvars
=============================================================================
