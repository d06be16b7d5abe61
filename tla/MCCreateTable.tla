--------------------------- MODULE MCCreateTable ---------------------------
(***************************************************************************)
(* Small instances of CreateTable for TLC.                                 *)
(***************************************************************************)
EXTENDS CreateTable, TLC

CONSTANTS c1, c2, n1, n2, l1, l2, m1, m2

\* Clients, names and places are interchangeable.
Symmetry ==
  Permutations(Clients) \cup Permutations(Names)
    \cup Permutations(External) \cup Permutations(Staged)
=============================================================================
