--------------------------- MODULE MCScanPlanGate ---------------------------
(***************************************************************************)
(* Small instances of ScanPlanGate for TLC.                                *)
(***************************************************************************)
EXTENDS ScanPlanGate

CONSTANTS q1, q2, q3
=============================================================================
