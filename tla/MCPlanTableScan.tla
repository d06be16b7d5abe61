-------------------------- MODULE MCPlanTableScan --------------------------
(***************************************************************************)
(* Small instances of PlanTableScan for TLC.                               *)
(***************************************************************************)
EXTENDS PlanTableScan

\* No header, the value 0, one within the clamp, one beyond it, and the
\* negative product of an overflow
SomeRetryAfters == {-4, -1, 0, 2, 7}
=============================================================================
