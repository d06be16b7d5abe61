----------------------- MODULE MCCatalogManagedTable -----------------------
(***************************************************************************)
(* Small instances of CatalogManagedTable for TLC.                         *)
(***************************************************************************)
EXTENDS CatalogManagedTable, TLC

CONSTANTS s1, s2, t1, t2, t3

\* All threads in one process
OneProcess == [t \in Threads |-> s1]

\* A process per thread
OneThreadEach == t1 :> s1 @@ t2 :> s2

\* Threads of one process are interchangeable.
ThreadSymmetry == Permutations(Threads)
=============================================================================
