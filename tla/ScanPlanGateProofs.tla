------------------------- MODULE ScanPlanGateProofs -------------------------
(***************************************************************************)
(* Proofs about ScanPlanGate, for any number of queries and any window.    *)
(***************************************************************************)
EXTENDS ScanPlanGate, TLAPS

\* What a query that is bound or runs was bound to: TypeOK alone lets a bound
\* query have no reader, and Execute would take it nowhere.
ReaderInv ==
  /\ \A q \in Queries :
       pc[q] \in {"bound", "plan", "answered", "delta", "parquet"}
         => reader[q] # "none"
  /\ \A q \in Queries : reader[q] = "delta" => q \in Delta

GateInv == TypeOK /\ ReaderInv /\ FallbackAnswers

LEMMA InitInv == Init => GateInv
  BY GateAssumption
  DEF Init, GateInv, TypeOK, ReaderInv, FallbackAnswers, GateAssumption

\* The latch: what asking and marking leave behind.
LEMMA LatchTypes ==
  ASSUME TypeOK,
         \/ \E yes \in BOOLEAN : ShouldTryScanPlan(yes)
         \/ MarkScanPlanAvailable
         \/ MarkScanPlanUnavailable
  PROVE  /\ scan_plan_state' \in {"UNKNOWN", "AVAILABLE", "UNAVAILABLE"}
         /\ age' \in 0 .. ReProbe
  BY GateAssumption
  DEF TypeOK, ShouldTryScanPlan, MarkScanPlanAvailable,
      MarkScanPlanUnavailable, GateAssumption

USE DEF Set

\* A query that has only just asked to be bound.
LEMMA BindInv ==
  ASSUME GateInv, NEW q \in Queries, BindStep(q)
  PROVE  GateInv'
<1>1. CASE GetVersion(q)
  <2>1. scan_plan_state' \in {"UNKNOWN", "AVAILABLE", "UNAVAILABLE"}
          /\ age' \in 0 .. ReProbe
    BY <1>1, LatchTypes DEF GetVersion, GateInv
  <2>2. TypeOK'
    BY <1>1, <2>1 DEF GetVersion, GateInv, TypeOK
  <2>3. ReaderInv' /\ FallbackAnswers'
    BY <1>1 DEF GetVersion, GateInv, TypeOK, ReaderInv, FallbackAnswers
  <2>4. QED BY <2>2, <2>3 DEF GateInv
<1>2. CASE GetScanFunction(q)
  <2>1. scan_plan_state' \in {"UNKNOWN", "AVAILABLE", "UNAVAILABLE"}
          /\ age' \in 0 .. ReProbe
    BY <1>2, LatchTypes DEF GetScanFunction, GateInv
  <2>2. TypeOK'
    BY <1>2, <2>1 DEF GetScanFunction, GateInv, TypeOK
  <2>3. PICK yes \in BOOLEAN :
          IF yes \/ q \in Delta
            THEN /\ reader' = Set(reader, q, IF yes THEN "plan" ELSE "delta")
                 /\ pc' = Set(pc, q, "bound")
                 /\ UNCHANGED <<schema, outcome>>
            ELSE /\ outcome' = Set(outcome, q, "error")
                 /\ pc' = Set(pc, q, "idle")
                 /\ schema' = Set(schema, q, "none")
                 /\ UNCHANGED reader
    BY <1>2 DEF GetScanFunction
  <2>4. ReaderInv' /\ FallbackAnswers'
    <3>1. CASE yes \/ q \in Delta
      BY <2>3, <3>1, GateAssumption
      DEF GateInv, TypeOK, ReaderInv, FallbackAnswers, GateAssumption
    <3>2. CASE ~(yes \/ q \in Delta)
      BY <2>3, <3>2, GateAssumption
      DEF GateInv, TypeOK, ReaderInv, FallbackAnswers, GateAssumption
    <3>3. QED BY <3>1, <3>2
  <2>5. QED BY <2>2, <2>4 DEF GateInv
<1>3. CASE BindFails(q)
  BY <1>3
  DEF BindFails, GateInv, TypeOK, ReaderInv, FallbackAnswers, gateVars
<1>4. QED BY <1>1, <1>2, <1>3 DEF BindStep

\* A query that runs: only one of a table without a log, or one that fails for
\* reasons of its own, ends in an error.
LEMMA ExecInv ==
  ASSUME GateInv, NEW q \in Queries, ExecStep(q)
  PROVE  GateInv'
<1> USE DEF GateInv, TypeOK, ReaderInv, FallbackAnswers
<1>1. CASE Execute(q)
  BY <1>1 DEF Execute, gateVars
<1>2. CASE PlanScan(q)
  BY <1>2 DEF PlanScan, gateVars
<1>3. CASE PlanCompleted(q)
  BY <1>3 DEF PlanCompleted, MarkScanPlanAvailable
<1>4. CASE PlanInterrupted(q)
  BY <1>4 DEF PlanInterrupted, EndExecution, gateVars
<1>5. CASE PlanFailed(q)
  BY <1>5, GateAssumption
  DEF PlanFailed, EndExecution, MarkScanPlanUnavailable, GateAssumption
<1>6. CASE DeltaScan(q)
  BY <1>6 DEF DeltaScan, EndExecution, gateVars
<1>7. CASE ParquetScan(q)
  BY <1>7 DEF ParquetScan, EndExecution, gateVars
<1>8. CASE ReadFails(q)
  BY <1>8 DEF ReadFails, EndExecution, gateVars
<1>9. QED
  BY <1>1, <1>2, <1>3, <1>4, <1>5, <1>6, <1>7, <1>8 DEF ExecStep

LEMMA StepInv == GateInv /\ [Next]_vars => GateInv'
<1> SUFFICES ASSUME GateInv, [Next]_vars PROVE GateInv'
  OBVIOUS
<1>1. CASE \E q \in Queries : BindStep(q) \/ ExecStep(q)
  BY <1>1, BindInv, ExecInv
<1>2. ASSUME NEW q \in Queries, Close(q) PROVE GateInv'
  BY <1>2
  DEF Close, GateInv, TypeOK, ReaderInv, FallbackAnswers, gateVars
<1>3. CASE ServerChanges
  BY <1>3
  DEF ServerChanges, GateInv, TypeOK, ReaderInv, FallbackAnswers, gateVars,
      queryVars
<1>4. CASE Tick
  BY <1>4, GateAssumption
  DEF Tick, GateInv, TypeOK, ReaderInv, FallbackAnswers, queryVars,
      GateAssumption
<1>5. CASE UNCHANGED vars
  BY <1>5
  DEF vars, gateVars, queryVars, GateInv, TypeOK, ReaderInv, FallbackAnswers
<1>6. QED BY <1>1, <1>2, <1>3, <1>4, <1>5 DEF Next

LEMMA Invariance == Spec => []GateInv
  BY InitInv, StepInv, PTL DEF Spec

\* Every state is well typed: a thread has a file list between the answer to
\* its plan and the end of the parquet scan and at no other time.
THEOREM TypeCorrect == Spec => []TypeOK
  BY Invariance, PTL DEF GateInv

\* A failing /plan endpoint alone costs no query of a table with a log its
\* answer, with any number of other queries moving the latch meanwhile.
THEOREM FallbackIsEnough == Spec => []FallbackAnswers
  BY Invariance, PTL DEF GateInv

\* Only a /plan call that failed closes the latch: a step of the specification
\* that makes it UNAVAILABLE is the return of such a call.
LEMMA OnlyPlanFailedCloses ==
  ASSUME [Next]_vars, scan_plan_state' = "UNAVAILABLE",
         scan_plan_state # "UNAVAILABLE"
  PROVE  \E q \in Queries : pc[q] = "answered" /\ answer[q] = "failed"
<1>1. ASSUME NEW q \in Queries, BindStep(q) PROVE FALSE
  BY <1>1
  DEF BindStep, GetVersion, GetScanFunction, BindFails, ShouldTryScanPlan,
      gateVars
<1>2. ASSUME NEW q \in Queries, ExecStep(q) PROVE PlanFailed(q)
  BY <1>2
  DEF ExecStep, Execute, PlanScan, PlanCompleted, MarkScanPlanAvailable,
      PlanInterrupted, DeltaScan, ParquetScan, ReadFails, gateVars
<1>3. \E q \in Queries : PlanFailed(q)
  BY <1>1, <1>2 DEF Next, Close, ServerChanges, Tick, vars, gateVars
<1>4. QED BY <1>3 DEF PlanFailed

\* No cancelled query, failed bind or failed read closes the latch for the
\* whole catalog: what closes it is the return of a /plan call that failed.
THEOREM LatchIsClosedByPlans == Spec => LatchedByFailedPlan
<1>1. [Next]_vars
        => [(scan_plan_state' = "UNAVAILABLE" /\ scan_plan_state # "UNAVAILABLE")
              => \E q \in Queries : pc[q] = "answered" /\ answer[q] = "failed"]_vars
  BY OnlyPlanFailedCloses
<1>2. QED BY <1>1, PTL DEF Spec, LatchedByFailedPlan

\* The clients of FairSpec do nothing that Spec does not allow, so what is proved
\* of Spec holds for them.
THEOREM ClientsAreQueries == FairSpec => Spec
<1>1. [ClientNext]_vars => [Next]_vars
  BY DEF ClientNext, Next, Used
<1>2. QED BY <1>1, PTL DEF FairSpec, Spec
=============================================================================
