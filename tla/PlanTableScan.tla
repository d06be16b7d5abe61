--------------------------- MODULE PlanTableScan ---------------------------
(***************************************************************************)
(* UCAPI::PlanTableScan of src/src/uc_api.cpp: one query asks the catalog  *)
(* to plan a scan, polls the plan until it reaches a terminal status, and  *)
(* gives the plan up (CancelPlan) when the query is cancelled, the budget  *)
(* is spent or a poll fails.  The planning server is external.             *)
(*                                                                         *)
(* Times are in units of the smallest sleep, POLL_MIN_SLEEP_MS.            *)
(***************************************************************************)
EXTENDS Integers

CONSTANTS
  Budget,        \* POLL_BUDGET_MS
  MaxBackoff,    \* POLL_MAX_SLEEP_MS
  MaxRetryAfter, \* POLL_MAX_RETRY_AFTER_MS
  RetryAfters,   \* values ParseRetryAfterMs may return; a negative one is none
  EchoPlanId,    \* TRUE: every answer of a poll repeats the optional plan-id
  Failures,      \* TRUE: requests may fail
  Interrupts     \* TRUE: the query may be cancelled

ASSUME PollAssumption ==
  /\ Budget \in Nat
  /\ MaxBackoff \in Nat \ {0}
  /\ MaxRetryAfter \in Nat \ {0}
  /\ RetryAfters \subseteq Int
  /\ EchoPlanId \in BOOLEAN
  /\ Failures \in BOOLEAN
  /\ Interrupts \in BOOLEAN

VARIABLES
  pc,          \* where the query is
  status,      \* result.status
  has_id,      \* is result.plan_id set
  retry_after, \* retry_after_ms
  backoff,     \* backoff_ms
  elapsed,     \* elapsed_ms
  sleep,       \* sleep_ms
  slept,       \* the loop variable of the sleep
  outcome,     \* how the call ended
  interrupted, \* the query was cancelled
  polls_after, \* ghost: polls since the query was cancelled
  plan,        \* server: the plan
  lost         \* ghost: a request of this query failed

queryVars  == <<pc, status, has_id, retry_after, backoff, elapsed, sleep,
                slept, outcome>>
ghostVars  == <<polls_after, lost>>
vars == <<queryVars, interrupted, ghostVars, plan>>

MinSleep == 1
Terminal == {"completed", "failed", "cancelled", "unknown"}
Statuses == Terminal \cup {"submitted"}

MinOf(a, b) == IF a <= b THEN a ELSE b
MaxOf(a, b) == IF a >= b THEN a ELSE b

TypeOK ==
  /\ pc \in {"plan", "loop", "sleep", "fetch", "cancel", "done"}
  /\ status \in Statuses
  /\ has_id \in BOOLEAN
  /\ retry_after \in RetryAfters \cup {-1}
  /\ backoff \in MinSleep .. MaxBackoff
  /\ elapsed \in 0 .. Budget + MaxRetryAfter
  /\ sleep \in 0 .. MaxRetryAfter
  /\ slept \in 0 .. MaxRetryAfter
  /\ outcome \in {"none", "result", "error", "interrupt"}
  /\ interrupted \in BOOLEAN
  /\ polls_after \in Nat
  /\ plan \in {"none", "running", "over", "deleted"}
  /\ lost \in BOOLEAN

Init ==
  /\ pc = "plan"
  /\ status = "unknown"
  /\ has_id = FALSE
  /\ retry_after = -1
  /\ backoff = MinSleep
  /\ elapsed = 0
  /\ sleep = 0
  /\ slept = 0
  /\ outcome = "none"
  /\ interrupted = FALSE
  /\ polls_after = 0
  /\ plan = "none"
  /\ lost = FALSE

-----------------------------------------------------------------------------
(* The request that starts the plan.  It is outside the try block.         *)

PlanAnswered ==
  /\ pc = "plan"
  /\ \E st \in Statuses, ra \in RetryAfters :
       /\ status' = st
       /\ plan' = IF st = "submitted" THEN "running" ELSE "over"
       /\ retry_after' = ra
  /\ has_id' = TRUE
  /\ pc' = "loop"
  /\ UNCHANGED <<backoff, elapsed, sleep, slept, outcome, interrupted,
                 ghostVars>>

\* The request or its answer is lost, or the answer does not parse.
PlanFails ==
  /\ Failures
  /\ pc = "plan"
  /\ plan' \in {"none", "running"}
  /\ outcome' = "error"
  /\ lost' = TRUE
  /\ pc' = "done"
  /\ UNCHANGED <<status, has_id, retry_after, backoff, elapsed, sleep, slept,
                 interrupted, polls_after>>

-----------------------------------------------------------------------------
(* The poll loop.                                                          *)

Return ==
  /\ pc = "loop"
  /\ status # "submitted"
  /\ outcome' = "result"
  /\ pc' = "done"
  /\ UNCHANGED <<status, has_id, retry_after, backoff, elapsed, sleep, slept,
                 interrupted, ghostVars, plan>>

\* Mutant: a sleep that might outrun the budget is not begun.
BudgetSpentEarly ==
  /\ pc = "loop"
  /\ status = "submitted"
  /\ elapsed + MaxRetryAfter >= Budget
  /\ outcome' = "error"
  /\ pc' = "cancel"
  /\ UNCHANGED <<status, has_id, retry_after, backoff, elapsed, sleep, slept,
                 interrupted, ghostVars, plan>>

BudgetSpent ==
  /\ pc = "loop"
  /\ status = "submitted"
  /\ elapsed >= Budget
  /\ outcome' = "error"
  /\ pc' = "cancel"
  /\ UNCHANGED <<status, has_id, retry_after, backoff, elapsed, sleep, slept,
                 interrupted, ghostVars, plan>>

\* Mutant: Retry-After is taken as it comes.
SleepTimeUnclamped ==
  IF retry_after >= 0 THEN retry_after ELSE backoff

\* The server's Retry-After, else the backoff, clamped.
SleepTime ==
  LET wish == IF retry_after >= 0 THEN retry_after ELSE backoff
  IN MinOf(MaxOf(wish, MinSleep), MaxRetryAfter)

StartSleep ==
  /\ pc = "loop"
  /\ status = "submitted"
  /\ elapsed < Budget
  /\ sleep' = SleepTime
  /\ slept' = 0
  /\ pc' = "sleep"
  /\ UNCHANGED <<status, has_id, retry_after, backoff, elapsed, outcome,
                 interrupted, ghostVars, plan>>

\* Mutant: a slice begins without the check.
SleepSliceUnchecked ==
  /\ pc = "sleep"
  /\ slept < sleep
  /\ slept' = slept + MinSleep
  /\ UNCHANGED <<pc, status, has_id, retry_after, backoff, elapsed, sleep,
                 outcome, interrupted, ghostVars, plan>>

\* InterruptCheck passes and the thread sleeps for one slice.
SleepSlice ==
  /\ pc = "sleep"
  /\ slept < sleep
  /\ ~interrupted
  /\ slept' = slept + MinSleep
  /\ UNCHANGED <<pc, status, has_id, retry_after, backoff, elapsed, sleep,
                 outcome, interrupted, ghostVars, plan>>

\* InterruptCheck throws.
SleepInterrupted ==
  /\ pc = "sleep"
  /\ slept < sleep
  /\ interrupted
  /\ outcome' = "interrupt"
  /\ pc' = "cancel"
  /\ UNCHANGED <<status, has_id, retry_after, backoff, elapsed, sleep, slept,
                 interrupted, ghostVars, plan>>

\* Mutant: the time slept is not added up.
SleptUncounted ==
  /\ pc = "sleep"
  /\ slept >= sleep
  /\ retry_after' = -1
  /\ pc' = "fetch"
  /\ UNCHANGED <<status, has_id, backoff, elapsed, sleep, slept, outcome,
                 interrupted, ghostVars, plan>>

Slept ==
  /\ pc = "sleep"
  /\ slept >= sleep
  /\ elapsed' = elapsed + sleep
  /\ retry_after' = -1
  /\ pc' = "fetch"
  /\ UNCHANGED <<status, has_id, backoff, sleep, slept, outcome, interrupted,
                 ghostVars, plan>>

CountPoll == polls_after' = polls_after + (IF interrupted THEN 1 ELSE 0)

\* FetchPlanningResult returns, and its answer replaces the result, plan_id
\* included, and the Retry-After.
Fetch ==
  /\ pc = "fetch"
  /\ has_id
  /\ CountPoll
  /\ \E st \in IF plan = "running" THEN {"submitted"} ELSE Terminal :
       status' = st
  /\ retry_after' \in RetryAfters
  /\ has_id' \in IF EchoPlanId THEN {TRUE} ELSE BOOLEAN
  /\ backoff' = MinOf(backoff * 2, MaxBackoff)
  /\ pc' = "loop"
  /\ UNCHANGED <<elapsed, sleep, slept, outcome, interrupted, plan, lost>>

\* The poll fails, or names no plan: the result stays as it was.
FetchFails ==
  /\ pc = "fetch"
  /\ Failures \/ ~has_id
  /\ lost' = (lost \/ has_id)
  /\ CountPoll
  /\ retry_after' \in RetryAfters \cup {-1}
  /\ outcome' = "error"
  /\ pc' = "cancel"
  /\ UNCHANGED <<status, has_id, backoff, elapsed, sleep, slept, interrupted,
                 plan>>

\* Mutant: a cancelled query leaves its plan alone.
CancelPlanOnError ==
  /\ pc = "cancel"
  /\ plan' = IF has_id /\ plan = "running" /\ outcome = "error"
               THEN "deleted" ELSE plan
  /\ pc' = "done"
  /\ UNCHANGED <<status, has_id, retry_after, backoff, elapsed, sleep, slept,
                 outcome, interrupted, ghostVars>>

\* The catch block: CancelPlan, which does nothing without an id, and rethrow.
CancelPlan ==
  /\ pc = "cancel"
  /\ plan' = IF has_id /\ plan = "running" THEN "deleted" ELSE plan
  /\ pc' = "done"
  /\ UNCHANGED <<status, has_id, retry_after, backoff, elapsed, sleep, slept,
                 outcome, interrupted, ghostVars>>

\* The DELETE fails, and that is swallowed.
CancelPlanFails ==
  /\ Failures
  /\ pc = "cancel"
  /\ has_id
  /\ lost' = TRUE
  /\ pc' = "done"
  /\ UNCHANGED <<status, has_id, retry_after, backoff, elapsed, sleep, slept,
                 outcome, interrupted, polls_after, plan>>

-----------------------------------------------------------------------------
(* The rest of the world.                                                  *)

Interrupt ==
  /\ Interrupts
  /\ pc # "done"
  /\ ~interrupted
  /\ interrupted' = TRUE
  /\ UNCHANGED <<queryVars, ghostVars, plan>>

PlanEnds ==
  /\ plan = "running"
  /\ plan' = "over"
  /\ UNCHANGED <<queryVars, interrupted, ghostVars>>

QueryStep ==
  \/ PlanAnswered \/ PlanFails
  \/ Return \/ BudgetSpent
  \/ StartSleep \/ SleepSlice \/ SleepInterrupted \/ Slept
  \/ Fetch \/ FetchFails
  \/ CancelPlan \/ CancelPlanFails

Next == QueryStep \/ Interrupt \/ PlanEnds

Spec == Init /\ [][Next]_vars

\* The query's thread runs, and its requests are answered or fail.  The server
\* may never finish the plan.
FairSpec == Spec /\ WF_vars(QueryStep)

-----------------------------------------------------------------------------
(* Properties.                                                             *)

\* A plan given up is released: "On abort (cancel / budget exhaustion /
\* mid-poll error) the plan is best-effort DELETEd", unless a request is lost.
AbortReleasesPlan ==
  (pc = "done" /\ outcome # "result" /\ ~lost) => plan # "running"

\* A cancel lands within one sleep slice: at most the request that was next
\* goes out after it.
CancelLandsSoon == polls_after <= 1

\* Whatever Retry-After says, the budget is overrun by one sleep at most.
BudgetOverrunBounded == elapsed < Budget + MaxRetryAfter

\* A server that never finishes the plan does not hold the query for ever.
QueryEnds == <>(pc = "done")

\* The comment on the loop: "a legitimately slow server-side plan must not be
\* cut off".  With no request lost and no cancel, an error comes only when the
\* budget is spent (where every answer repeats the plan-id: a poll without one
\* has the next poll fail).
SlowPlanNotCutOff ==
  (outcome = "error" /\ ~lost /\ ~interrupted) => elapsed >= Budget

-----------------------------------------------------------------------------
(* Inductive invariants.                                                   *)

\* The plan has an id for as long as the query may have to give it up.
ReleaseInv ==
  /\ AbortReleasesPlan
  /\ pc \notin {"plan", "done"} => has_id
  /\ pc \in {"plan", "loop", "sleep", "fetch"} => outcome = "none"

\* After the one poll that a cancel did not stop, the query is on its way to
\* the first slice of a sleep.
CancelInv ==
  /\ polls_after > 0 => interrupted
  /\ polls_after <= 1
  /\ polls_after = 1 =>
       \/ pc \in {"loop", "cancel", "done"}
       \/ pc = "sleep" /\ slept < sleep

\* A sleep only starts within the budget.
BudgetInv ==
  /\ BudgetOverrunBounded
  /\ pc = "sleep" => elapsed < Budget
=============================================================================
