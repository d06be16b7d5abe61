------------------------ MODULE PlanTableScanProofs ------------------------
(***************************************************************************)
(* What PlanTableScan guarantees whatever the budget, the clamps, the      *)
(* Retry-After values and the time a request takes.                        *)
(***************************************************************************)
EXTENDS PlanTableScan, TLAPS

USE DEF MinSleep, MinOf, MaxOf

\* The clamp of the sleep: at least one slice, at most MaxRetryAfter.
LEMMA SleepTimeClamped ==
  ASSUME TypeOK
  PROVE  SleepTime \in MinSleep .. MaxRetryAfter
<1>1. /\ backoff \in Int
      /\ retry_after \in Int
      /\ MaxRetryAfter \in Nat \ {0}
  BY PollAssumption DEF TypeOK
<1>. QED
  BY <1>1 DEF SleepTime

LEMMA TypeStep ==
  ASSUME TypeOK, BudgetInv, [Next]_vars
  PROVE  TypeOK'
<1>. USE PollAssumption
<1>1. CASE PlanAnswered
  BY <1>1 DEF TypeOK, PlanAnswered, ghostVars, Statuses, Terminal
<1>2. CASE PlanFails
  BY <1>2 DEF TypeOK, PlanFails
<1>3. CASE Return
  BY <1>3 DEF TypeOK, Return, ghostVars
<1>4. CASE BudgetSpent
  BY <1>4 DEF TypeOK, BudgetSpent, ghostVars
<1>5. CASE StartSleep
  BY <1>5, SleepTimeClamped DEF TypeOK, StartSleep, ghostVars
<1>6. CASE SleepSlice
  BY <1>6 DEF TypeOK, SleepSlice, ghostVars
<1>7. CASE SleepInterrupted
  BY <1>7 DEF TypeOK, SleepInterrupted, ghostVars
<1>8. CASE Slept
  <2>1. elapsed' \in 0 .. Budget + MaxRetryAfter
    BY <1>8 DEF TypeOK, BudgetInv, Slept
  <2>. QED
    BY <1>8, <2>1 DEF TypeOK, Slept, ghostVars
<1>9. CASE Fetch
  <2>1. backoff' \in MinSleep .. MaxBackoff
    BY <1>9 DEF TypeOK, Fetch
  <2>2. polls_after' \in Nat
    BY <1>9 DEF TypeOK, Fetch, CountPoll
  <2>. QED
    BY <1>9, <2>1, <2>2 DEF TypeOK, Fetch, Statuses, Terminal
<1>10. CASE FetchFails
  <2>1. polls_after' \in Nat
    BY <1>10 DEF TypeOK, FetchFails, CountPoll
  <2>. QED
    BY <1>10, <2>1 DEF TypeOK, FetchFails
<1>11. CASE CancelPlan
  BY <1>11 DEF TypeOK, CancelPlan, ghostVars
<1>12. CASE CancelPlanFails
  BY <1>12 DEF TypeOK, CancelPlanFails
<1>13. CASE Interrupt
  BY <1>13 DEF TypeOK, Interrupt, queryVars, ghostVars
<1>14. CASE PlanEnds
  BY <1>14 DEF TypeOK, PlanEnds, queryVars, ghostVars
<1>15. CASE UNCHANGED vars
  BY <1>15 DEF TypeOK, vars, queryVars, ghostVars
<1>. QED
  BY <1>1, <1>2, <1>3, <1>4, <1>5, <1>6, <1>7, <1>8, <1>9, <1>10, <1>11,
     <1>12, <1>13, <1>14, <1>15 DEF Next, QueryStep

LEMMA BudgetStep ==
  ASSUME TypeOK, BudgetInv, [Next]_vars
  PROVE  BudgetInv'
<1>. USE PollAssumption DEF BudgetInv, BudgetOverrunBounded
<1>1. CASE Slept
  BY <1>1 DEF TypeOK, Slept
<1>2. CASE StartSleep
  BY <1>2 DEF TypeOK, StartSleep
<1>3. CASE /\ UNCHANGED elapsed
           /\ pc' = "sleep" => pc = "sleep"
  BY <1>3
<1>. QED
  BY <1>1, <1>2, <1>3
  DEF Next, QueryStep, PlanAnswered, PlanFails, Return, BudgetSpent,
      SleepSlice, SleepInterrupted, Fetch, FetchFails, CancelPlan,
      CancelPlanFails, Interrupt, PlanEnds, vars, queryVars

\* A sleep adds at most MaxRetryAfter to a time that is within the budget: the
\* range of elapsed and the budget are kept together.
LEMMA Reachable == Spec => [](TypeOK /\ BudgetInv)
<1>1. Init => TypeOK
  <2>. SUFFICES ASSUME Init PROVE TypeOK
    OBVIOUS
  <2>1. /\ backoff \in MinSleep .. MaxBackoff
        /\ elapsed \in 0 .. Budget + MaxRetryAfter
        /\ sleep \in 0 .. MaxRetryAfter
        /\ slept \in 0 .. MaxRetryAfter
    BY PollAssumption DEF Init
  <2>. QED
    BY <2>1 DEF Init, TypeOK, Statuses, Terminal
<1>2. Init => BudgetInv
  BY PollAssumption DEF Init, BudgetInv, BudgetOverrunBounded
<1>. QED
  BY <1>1, <1>2, TypeStep, BudgetStep, PTL DEF Spec

\* Every reachable state is well typed: the clamps keep every sleep, and so
\* the time slept, within its range.
THEOREM TypeCorrect == Spec => []TypeOK
BY Reachable, PTL

-----------------------------------------------------------------------------

\* Whatever the server's Retry-After, the loop sleeps less than its budget and
\* one longest sleep together.
THEOREM BudgetHolds == Spec => []BudgetOverrunBounded
<1>1. BudgetInv => BudgetOverrunBounded
  BY DEF BudgetInv
<1>. QED
  BY <1>1, Reachable, PTL

-----------------------------------------------------------------------------

LEMMA CancelStep ==
  ASSUME TypeOK, CancelInv, [Next]_vars
  PROVE  CancelInv'
<1>. USE PollAssumption DEF CancelInv
<1>1. CASE StartSleep
  <2>1. slept' < sleep'
    BY <1>1, SleepTimeClamped DEF StartSleep
  <2>. QED
    BY <1>1, <2>1 DEF StartSleep, ghostVars
<1>2. CASE SleepSlice
  BY <1>2 DEF TypeOK, SleepSlice, ghostVars
<1>3. CASE Slept
  BY <1>3 DEF TypeOK, Slept, ghostVars
<1>4. CASE Fetch
  BY <1>4 DEF TypeOK, Fetch, CountPoll
<1>5. CASE FetchFails
  BY <1>5 DEF TypeOK, FetchFails, CountPoll
<1>6. CASE PlanAnswered \/ PlanFails \/ Return \/ BudgetSpent
  BY <1>6 DEF TypeOK, PlanAnswered, PlanFails, Return, BudgetSpent, ghostVars
<1>7. CASE SleepInterrupted \/ CancelPlan \/ CancelPlanFails
  BY <1>7 DEF TypeOK, SleepInterrupted, CancelPlan, CancelPlanFails, ghostVars
<1>8. CASE Interrupt \/ PlanEnds \/ UNCHANGED vars
  BY <1>8 DEF TypeOK, Interrupt, PlanEnds, vars, queryVars, ghostVars
<1>. QED
  BY <1>1, <1>2, <1>3, <1>4, <1>5, <1>6, <1>7, <1>8 DEF Next, QueryStep

\* A cancelled query sends at most one poll after the cancel.
THEOREM CancelLands == Spec => []CancelLandsSoon
<1>1. Init => CancelInv
  BY DEF Init, CancelInv
<1>2. CancelInv => CancelLandsSoon
  BY DEF CancelInv, CancelLandsSoon
<1>. QED
  BY <1>1, <1>2, CancelStep, TypeCorrect, PTL DEF Spec

-----------------------------------------------------------------------------

LEMMA ReleaseStep ==
  ASSUME EchoPlanId = TRUE, TypeOK, ReleaseInv, [Next]_vars
  PROVE  ReleaseInv'
<1>. USE DEF ReleaseInv, AbortReleasesPlan
<1>1. CASE PlanAnswered \/ PlanFails \/ Return \/ BudgetSpent
  BY <1>1 DEF TypeOK, PlanAnswered, PlanFails, Return, BudgetSpent, ghostVars
<1>2. CASE StartSleep \/ SleepSlice \/ SleepInterrupted \/ Slept
  BY <1>2 DEF TypeOK, StartSleep, SleepSlice, SleepInterrupted, Slept,
              ghostVars
<1>3. CASE Fetch
  BY <1>3 DEF TypeOK, Fetch
<1>4. CASE FetchFails
  BY <1>4 DEF TypeOK, FetchFails
<1>5. CASE CancelPlan \/ CancelPlanFails
  BY <1>5 DEF TypeOK, CancelPlan, CancelPlanFails, ghostVars
<1>6. CASE Interrupt \/ PlanEnds \/ UNCHANGED vars
  BY <1>6 DEF TypeOK, Interrupt, PlanEnds, vars, queryVars, ghostVars
<1>. QED
  BY <1>1, <1>2, <1>3, <1>4, <1>5, <1>6 DEF Next, QueryStep

\* When every answer carries the plan-id, a query that does not return its
\* plan leaves none running, unless a request of it was lost.
THEOREM PlansAreReleased ==
  ASSUME EchoPlanId = TRUE
  PROVE  Spec => []AbortReleasesPlan
<1>1. Init => ReleaseInv
  BY DEF Init, ReleaseInv, AbortReleasesPlan
<1>2. ReleaseInv => AbortReleasesPlan
  BY DEF ReleaseInv
<1>3. TypeOK /\ ReleaseInv /\ [Next]_vars => ReleaseInv'
  BY ReleaseStep
<1>. QED
  BY <1>1, <1>2, <1>3, TypeCorrect, PTL DEF Spec

-----------------------------------------------------------------------------

LEMMA SlowStep ==
  ASSUME EchoPlanId = TRUE, TypeOK, ReleaseInv, SlowPlanNotCutOff, [Next]_vars
  PROVE  SlowPlanNotCutOff'
<1>. USE PollAssumption DEF SlowPlanNotCutOff
<1>1. CASE BudgetSpent
  BY <1>1 DEF TypeOK, BudgetSpent
<1>2. CASE PlanFails
  BY <1>2 DEF PlanFails
<1>3. CASE FetchFails
  BY <1>3 DEF TypeOK, ReleaseInv, FetchFails
<1>4. CASE Slept
  BY <1>4 DEF TypeOK, ReleaseInv, Slept
<1>5. CASE SleepInterrupted \/ Return \/ CancelPlanFails
  BY <1>5 DEF SleepInterrupted, Return, CancelPlanFails
<1>6. CASE UNCHANGED <<outcome, elapsed, lost>> /\ (interrupted => interrupted')
  BY <1>6
<1>. QED
  BY <1>1, <1>2, <1>3, <1>4, <1>5, <1>6
  DEF Next, QueryStep, PlanAnswered, StartSleep, SleepSlice, Fetch, CancelPlan,
      Interrupt, PlanEnds, vars, queryVars, ghostVars

\* When every answer carries the plan-id, a query that loses no request and is
\* not cancelled fails for its budget alone.
THEOREM SlowPlansWait ==
  ASSUME EchoPlanId = TRUE
  PROVE  Spec => []SlowPlanNotCutOff
<1>1. Init => ReleaseInv /\ SlowPlanNotCutOff
  BY DEF Init, ReleaseInv, AbortReleasesPlan, SlowPlanNotCutOff
<1>2. /\ TypeOK
      /\ ReleaseInv /\ SlowPlanNotCutOff
      /\ [Next]_vars
      => (ReleaseInv /\ SlowPlanNotCutOff)'
  BY ReleaseStep, SlowStep
<1>. QED
  BY <1>1, <1>2, TypeCorrect, PTL DEF Spec
=============================================================================
