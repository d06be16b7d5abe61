----------------------------- MODULE MCFileList -----------------------------
(***************************************************************************)
(* Small instances of FileList for TLC.                                    *)
(***************************************************************************)
EXTENDS FileList, SequencesExt

CONSTANTS t1, t2, k1, k2, f1, f2, f3

\* A delete file of two data files, a deletion vector, and an equality delete
Shared == [kind |-> "positions", rows |-> {<<f1, 0>>, <<f2, 1>>}]
Vector == [kind |-> "vector", rows |-> {<<f3, 1>>}]
Equal  == [kind |-> "equality", rows |-> {<<f3, 0>>}]

\* Which answer brings each file, and which one the second token; the delete
\* files of the third file.
Sources == [Files -> Tasks \cup {Inline}]
ThirdDeletes == {<<Shared, Vector>>, <<Equal>>}

Deletes(file, third) ==
  CASE file = f1 -> <<Shared>> [] file = f2 -> <<>> [] file = f3 -> third

AnswerOf(k, source, parent, third, bad) ==
  LET files == SetToSeq({f \in Files : source[f] = k})
      arr   == <<Equal, Vector, Shared>>
      At(d) == (CHOOSE i \in 1 .. 3 : arr[i] = d) - 1
  IN  [delete_files |-> arr,
       file_scan_tasks |->
         [i \in DOMAIN files |->
           [file |-> files[i],
            refs |-> LET ds == Deletes(files[i], third)
                     IN  [j \in DOMAIN ds |->
                           IF bad = files[i] THEN 3 ELSE At(ds[j])]]],
       plan_tasks |-> IF k = Inline
                        THEN (IF parent = Inline THEN <<k1, k2>> ELSE <<k1>>)
                        ELSE (IF parent = k THEN <<k2>> ELSE <<>>)]

SomePlans ==
  {[k \in Tasks \cup {Inline} |-> AnswerOf(k, source, parent, third, bad)] :
     source \in Sources, parent \in {Inline, k1}, third \in ThirdDeletes,
     bad \in {f1, f2}}

\* What the proofs assume of a plan, EveryRowOnce of FileListProofs.
ASSUME PlansAreWell == \A p \in SomePlans : WellPlanned(p)
=============================================================================
