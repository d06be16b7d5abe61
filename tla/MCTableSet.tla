----------------------------- MODULE MCTableSet -----------------------------
(***************************************************************************)
(* Small instances of TableSet for TLC.                                    *)
(***************************************************************************)
EXTENDS TableSet, TLC

CONSTANTS t1, t2, n1, n2
=============================================================================
