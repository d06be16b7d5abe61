---------------------------- MODULE ScanPlanGate ----------------------------
(***************************************************************************)
(* How the queries of one attached catalog choose between a planned scan   *)
(* and the Delta scan: the availability latch of UnityCatalog              *)
(* (ShouldTryScanPlan, MarkScanPlanAvailable, MarkScanPlanUnavailable of   *)
(* src/src/storage/unity_catalog.cpp), the binding of a query              *)
(* (TableInformation::GetVersion, UCTableEntry::GetScanFunction) and its   *)
(* execution (UCScanPlanInitGlobal of src/src/storage/uc_table_entry.cpp). *)
(* The tables are ones a planned scan can read.                            *)
(*                                                                         *)
(* PlanTableScan is the /plan call in detail; here it is its outcome.  A   *)
(* bound query may be executed again, as a prepared statement is.          *)
(***************************************************************************)
EXTENDS Integers

CONSTANTS
  Queries,  \* the queries, each on a thread of its own
  ReProbe,  \* SCAN_PLAN_RE_PROBE, in ticks of the clock
  Delta,    \* those of a table that is DELTA, and so has a log to read
  Failing   \* those that are cancelled, or have other requests fail than /plan

ASSUME GateAssumption ==
  /\ ReProbe \in Nat \ {0}
  /\ Delta \subseteq Queries
  /\ Failing \subseteq Queries

VARIABLES
  scan_plan_state, \* the latch
  age,             \* time since scan_plan_unavailable_since, up to ReProbe
  up,              \* server: /plan is answered with a completed plan
  pc,              \* where each query is
  schema,          \* what its columns were bound against
  reader,          \* what its scan function reads
  answer,          \* what its /plan call came to
  file_list,       \* is tl_uc_file_list of its thread set
  outcome          \* how its last execution ended

gateVars  == <<scan_plan_state, age>>
queryVars == <<pc, schema, reader, answer, file_list, outcome>>
vars == <<gateVars, up, queryVars>>

TypeOK ==
  /\ scan_plan_state \in {"UNKNOWN", "AVAILABLE", "UNAVAILABLE"}
  /\ age \in 0 .. ReProbe
  /\ up \in BOOLEAN
  /\ pc \in [Queries -> {"idle", "function", "bound", "plan",
                         "answered", "delta", "parquet"}]
  /\ schema \in [Queries -> {"none", "catalog", "log"}]
  /\ reader \in [Queries -> {"none", "plan", "delta"}]
  /\ answer \in [Queries -> {"none", "completed", "failed", "interrupt"}]
  /\ file_list \in [Queries -> BOOLEAN]
  /\ outcome \in [Queries -> {"none", "plan", "delta", "error", "interrupt"}]
  /\ \A q \in Queries :
       /\ answer[q] # "none" <=> pc[q] \in {"answered", "parquet"}
       /\ file_list[q] <=> pc[q] = "parquet"
       /\ pc[q] \in {"plan", "answered", "parquet"} => reader[q] = "plan"

Init ==
  /\ scan_plan_state = "UNKNOWN"
  /\ age = 0
  /\ up \in BOOLEAN
  /\ pc = [q \in Queries |-> "idle"]
  /\ schema = [q \in Queries |-> "none"]
  /\ reader = [q \in Queries |-> "none"]
  /\ answer = [q \in Queries |-> "none"]
  /\ file_list = [q \in Queries |-> FALSE]
  /\ outcome = [q \in Queries |-> "none"]

Set(f, q, value) == [f EXCEPT ![q] = value]

-----------------------------------------------------------------------------
(* The latch, under scan_plan_lock.                                        *)

\* Mutant: the window starts again whenever a query asks.
ShouldTryScanPlanRestarts(yes) ==
  /\ yes = (scan_plan_state # "UNAVAILABLE" \/ age = ReProbe)
  /\ scan_plan_state' = IF yes /\ scan_plan_state = "UNAVAILABLE"
                          THEN "UNKNOWN" ELSE scan_plan_state
  /\ age' = 0

\* ShouldTryScanPlan returns yes.
ShouldTryScanPlan(yes) ==
  /\ yes = (scan_plan_state # "UNAVAILABLE" \/ age = ReProbe)
  /\ scan_plan_state' = IF yes /\ scan_plan_state = "UNAVAILABLE"
                          THEN "UNKNOWN" ELSE scan_plan_state
  /\ UNCHANGED age

MarkScanPlanAvailable ==
  /\ scan_plan_state' = "AVAILABLE"
  /\ UNCHANGED age

MarkScanPlanUnavailable ==
  /\ scan_plan_state' = "UNAVAILABLE"
  /\ age' = 0

\* The clock counts for as long as the latch looks at it.
Tick ==
  /\ scan_plan_state = "UNAVAILABLE"
  /\ age < ReProbe
  /\ age' = age + 1
  /\ UNCHANGED <<scan_plan_state, up, queryVars>>

-----------------------------------------------------------------------------
(* Binding.                                                                *)

\* GetVersion: the catalog's report when a planned scan is to be tried or
\* there is no log, else the schema of the log.
GetVersion(q) ==
  /\ pc[q] = "idle"
  /\ \E yes \in BOOLEAN :
       /\ ShouldTryScanPlan(yes)
       /\ schema' = Set(schema, q, IF yes \/ q \notin Delta THEN "catalog" ELSE "log")
  /\ pc' = Set(pc, q, "function")
  /\ outcome' = Set(outcome, q, "none")
  /\ UNCHANGED <<up, reader, answer, file_list>>

\* GetScanFunction asks again.
GetScanFunction(q) ==
  /\ pc[q] = "function"
  /\ \E yes \in BOOLEAN :
       /\ ShouldTryScanPlan(yes)
       /\ IF yes \/ q \in Delta
            THEN /\ reader' = Set(reader, q, IF yes THEN "plan" ELSE "delta")
                 /\ pc' = Set(pc, q, "bound")
                 /\ UNCHANGED <<schema, outcome>>
            ELSE /\ outcome' = Set(outcome, q, "error")
                 /\ pc' = Set(pc, q, "idle")
                 /\ schema' = Set(schema, q, "none")
                 /\ UNCHANGED reader
  /\ UNCHANGED <<up, answer, file_list>>

\* A request of the binding fails (credentials, attach).
BindFails(q) ==
  /\ q \in Failing
  /\ pc[q] = "function"
  /\ outcome' = Set(outcome, q, "error")
  /\ pc' = Set(pc, q, "idle")
  /\ schema' = Set(schema, q, "none")
  /\ UNCHANGED <<gateVars, up, reader, answer, file_list>>

-----------------------------------------------------------------------------
(* Execution.                                                              *)

Execute(q) ==
  /\ pc[q] = "bound"
  /\ pc' = Set(pc, q, reader[q])
  /\ outcome' = Set(outcome, q, "none")
  /\ UNCHANGED <<gateVars, up, schema, reader, answer, file_list>>

\* PlanTableScan, and the test of its status.
PlanScan(q) ==
  /\ pc[q] = "plan"
  /\ \E a \in {IF up THEN "completed" ELSE "failed"} \cup
              (IF q \in Failing THEN {"interrupt"} ELSE {}) :
       answer' = Set(answer, q, a)
  /\ pc' = Set(pc, q, "answered")
  /\ UNCHANGED <<gateVars, up, schema, reader, file_list, outcome>>

\* An execution is over; the query stays bound.
EndExecution(q, how) ==
  /\ outcome' = Set(outcome, q, how)
  /\ pc' = Set(pc, q, "bound")
  /\ answer' = Set(answer, q, "none")

\* A completed plan: mark it, and hand the file list to the thread.
PlanCompleted(q) ==
  /\ pc[q] = "answered"
  /\ answer[q] = "completed"
  /\ MarkScanPlanAvailable
  /\ file_list' = Set(file_list, q, TRUE)
  /\ pc' = Set(pc, q, "parquet")
  /\ UNCHANGED <<up, schema, reader, answer, outcome>>

\* Mutant: a cancelled query is taken for a failed plan.
PlanInterruptedLatches(q) ==
  /\ pc[q] = "answered"
  /\ answer[q] = "interrupt"
  /\ MarkScanPlanUnavailable
  /\ EndExecution(q, "interrupt")
  /\ UNCHANGED <<up, schema, reader, file_list>>

\* InterruptException is rethrown.
PlanInterrupted(q) ==
  /\ pc[q] = "answered"
  /\ answer[q] = "interrupt"
  /\ EndExecution(q, "interrupt")
  /\ UNCHANGED <<gateVars, up, schema, reader, file_list>>

\* Mutant: the failure is raised, whatever the table.
PlanFailedRaises(q) ==
  /\ pc[q] = "answered"
  /\ answer[q] = "failed"
  /\ MarkScanPlanUnavailable
  /\ EndExecution(q, "error")
  /\ UNCHANGED <<up, schema, reader, file_list>>

\* Any other exception: mark it, and fall back to Delta where there is a log.
PlanFailed(q) ==
  /\ pc[q] = "answered"
  /\ answer[q] = "failed"
  /\ MarkScanPlanUnavailable
  /\ IF q \in Delta
       THEN /\ pc' = Set(pc, q, "delta")
            /\ answer' = Set(answer, q, "none")
            /\ UNCHANGED outcome
       ELSE EndExecution(q, "error")
  /\ UNCHANGED <<up, schema, reader, file_list>>

\* BuildDeltaScan and the scan of what it bound.
DeltaScan(q) ==
  /\ pc[q] = "delta"
  /\ EndExecution(q, "delta")
  /\ UNCHANGED <<gateVars, up, schema, reader, file_list>>

\* The parquet bind moves the list out of the thread, and the scan reads it.
ParquetScan(q) ==
  /\ pc[q] = "parquet"
  /\ file_list' = Set(file_list, q, FALSE)
  /\ EndExecution(q, "plan")
  /\ UNCHANGED <<gateVars, up, schema, reader>>

\* Mutant: a bind that throws leaves the list behind.
ReadFailsKeepsList(q) ==
  /\ q \in Failing
  /\ pc[q] \in {"delta", "parquet"}
  /\ EndExecution(q, "error")
  /\ UNCHANGED <<gateVars, up, schema, reader, file_list>>

\* A read fails: the attach of the Delta table, or the parquet bind, whose
\* catch block drops the list.
ReadFails(q) ==
  /\ q \in Failing
  /\ pc[q] \in {"delta", "parquet"}
  /\ file_list' = Set(file_list, q, FALSE)
  /\ EndExecution(q, "error")
  /\ UNCHANGED <<gateVars, up, schema, reader>>

\* The client is done with the query.
Close(q) ==
  /\ pc[q] = "bound"
  /\ pc' = Set(pc, q, "idle")
  /\ schema' = Set(schema, q, "none")
  /\ reader' = Set(reader, q, "none")
  /\ outcome' = Set(outcome, q, "none")
  /\ UNCHANGED <<gateVars, up, answer, file_list>>

\* The endpoint comes and goes.
ServerChanges ==
  /\ up' = ~up
  /\ UNCHANGED <<gateVars, queryVars>>

ExecStep(q) ==
  \/ Execute(q) \/ PlanScan(q)
  \/ PlanCompleted(q) \/ PlanInterrupted(q) \/ PlanFailed(q)
  \/ DeltaScan(q) \/ ParquetScan(q) \/ ReadFails(q)

BindStep(q) == GetVersion(q) \/ GetScanFunction(q) \/ BindFails(q)

Next ==
  \/ \E q \in Queries : BindStep(q) \/ ExecStep(q) \/ Close(q)
  \/ ServerChanges
  \/ Tick

Spec == Init /\ [][Next]_vars

\* Clients that keep sending queries.  A query is executed before it is closed
\* and, though it may be executed again, is closed in the end.
Used(q) == outcome[q] # "none" /\ Close(q)
ClientNext ==
  \/ \E q \in Queries : BindStep(q) \/ ExecStep(q) \/ Used(q)
  \/ ServerChanges
  \/ Tick

FairSpec ==
  /\ Init /\ [][ClientNext]_vars
  /\ WF_vars(Tick)
  /\ \A q \in Queries :
       /\ WF_vars(BindStep(q))
       /\ WF_vars(ExecStep(q))
       /\ SF_vars(Used(q))

-----------------------------------------------------------------------------
(* Properties.                                                             *)

\* The latch describes the /plan call alone: a cancelled query, a failed bind
\* or a read that fails never makes it UNAVAILABLE for the whole catalog.
LatchedByFailedPlan ==
  [][(scan_plan_state' = "UNAVAILABLE" /\ scan_plan_state # "UNAVAILABLE")
       => \E q \in Queries : pc[q] = "answered" /\ answer[q] = "failed"]_vars

\* Where there is a Delta log, a failing /plan endpoint alone costs no query its
\* answer: it falls back, or was never planned.
FallbackAnswers == \A q \in Delta \ Failing : outcome[q] # "error"

\* The latch opens again: when the endpoint works from some time on, then from
\* some time on scans are planned, however often queries ask meanwhile and
\* whatever becomes of those that fail for reasons of their own.
ReProbed == <>[]up => <>[](scan_plan_state = "AVAILABLE")

\* GetVersion's comment: "Reads bind against the log, not the catalog's
\* description of it -- including nested children, which resolve by position".
DeltaReadsBindLog ==
  \A q \in Queries : pc[q] = "delta" => schema[q] = "log"
=============================================================================
