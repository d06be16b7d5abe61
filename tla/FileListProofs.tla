--------------------------- MODULE FileListProofs ---------------------------
(***************************************************************************)
(* Proofs about FileList, for every plan of the server, any number of      *)
(* threads and any schedule of them.                                       *)
(***************************************************************************)
EXTENDS FileList, SequenceTheorems, TLAPS

ScanTasks == [file : Files, refs : Seq(Nat)]

-----------------------------------------------------------------------------
(* What an answer adds to the two lists.                                   *)

LEMMA ResolveType ==
  ASSUME NEW answer \in Answers, NEW task \in ScanTasks, WellFormed(answer, task)
  PROVE  Resolve(answer, task) \in Seq(DeleteFiles)
<1> DEFINE refs == task.refs
           arr  == answer.delete_files
<1>1. refs \in Seq(Nat) /\ arr \in Seq(DeleteFiles)
  BY DEF ScanTasks, Answers
<1>2. \A i \in 1 .. Len(refs) : refs[i] + 1 \in 1 .. Len(arr)
  BY <1>1 DEF WellFormed
<1>3. \A i \in 1 .. Len(refs) : arr[refs[i] + 1] \in DeleteFiles
  BY <1>1, <1>2
<1>4. Resolve(answer, task) = [i \in 1 .. Len(refs) |-> arr[refs[i] + 1]]
  BY <1>1 DEF Resolve
<1> QED
  BY <1>1, <1>3, <1>4

LEMMA AddedType ==
  ASSUME NEW answer \in Answers, NEW tasks \in Seq(ScanTasks),
         \A i \in DOMAIN tasks : WellFormed(answer, tasks[i])
  PROVE  /\ ResolveAll(answer, tasks) \in Seq(Seq(DeleteFiles))
         /\ Len(ResolveAll(answer, tasks)) = Len(tasks)
         /\ \A i \in 1 .. Len(tasks) :
              ResolveAll(answer, tasks)[i] = Resolve(answer, tasks[i])
<1>1. \A i \in 1 .. Len(tasks) : Resolve(answer, tasks[i]) \in Seq(DeleteFiles)
  BY ResolveType
<1>2. ResolveAll(answer, tasks) =
        [i \in 1 .. Len(tasks) |-> Resolve(answer, tasks[i])]
  BY DEF ResolveAll
<1> QED
  BY <1>1, <1>2

LEMMA DataFilesType ==
  ASSUME NEW tasks \in Seq(ScanTasks)
  PROVE  /\ DataFiles(tasks) \in Seq(Files)
         /\ Len(DataFiles(tasks)) = Len(tasks)
         /\ \A i \in 1 .. Len(tasks) : DataFiles(tasks)[i] = tasks[i].file
<1>1. \A i \in 1 .. Len(tasks) : tasks[i].file \in Files
  <2>1. \A i \in 1 .. Len(tasks) : tasks[i] \in ScanTasks
    OBVIOUS
  <2> QED
    BY <2>1 DEF ScanTasks
<1>2. DataFiles(tasks) = [i \in 1 .. Len(tasks) |-> tasks[i].file]
  BY DEF DataFiles
<1> QED
  BY <1>1, <1>2

\* The first n tasks of an answer
LEMMA PrefixType ==
  ASSUME NEW tasks \in Seq(ScanTasks), NEW n \in 0 .. Len(tasks)
  PROVE  /\ SubSeq(tasks, 1, n) \in Seq(ScanTasks)
         /\ Len(SubSeq(tasks, 1, n)) = n
         /\ \A i \in 1 .. n : SubSeq(tasks, 1, n)[i] = tasks[i]
<1>1. /\ Len(SubSeq(tasks, 1, n)) = n
      /\ \A i \in 1 .. n : SubSeq(tasks, 1, n)[i] = tasks[i]
  BY SubSeqProperties
<1>2. SubSeq(tasks, 1, n) \in Seq(ScanTasks)
  BY SubSeqProperties
<1> QED
  BY <1>1, <1>2

LEMMA AnswerTasks ==
  ASSUME NEW answer \in Answers
  PROVE  /\ answer.file_scan_tasks \in Seq(ScanTasks)
         /\ answer.plan_tasks \in Seq(Tasks)
BY DEF Answers, ScanTasks

\* What AddFileScanTasks does to lists of the right type: they grow, the types
\* stay, and no entry changes.
LEMMA AddFileScanTasksGrows ==
  ASSUME NEW answer \in Answers,
         NEW n \in 0 .. Len(answer.file_scan_tasks), NEW m \in 0 .. n,
         \A i \in 1 .. m : WellFormed(answer, answer.file_scan_tasks[i]),
         expanded_files \in Seq(Files), file_deletes \in Seq(Seq(DeleteFiles)),
         moved \in SUBSET {t \in Threads : pc[t] = "filter"},
         AddFileScanTasks(answer, n, m)
  PROVE  /\ expanded_files' \in Seq(Files)
         /\ file_deletes' \in Seq(Seq(DeleteFiles))
         /\ Len(expanded_files') = Len(expanded_files) + n
         /\ Len(file_deletes') = Len(file_deletes) + m
         /\ \A i \in 1 .. Len(expanded_files) :
              expanded_files'[i] = expanded_files[i]
         /\ \A i \in 1 .. Len(file_deletes) : file_deletes'[i] = file_deletes[i]
         /\ \A i \in 1 .. n : expanded_files'[Len(expanded_files) + i] =
                                answer.file_scan_tasks[i].file
         /\ \A i \in 1 .. m : file_deletes'[Len(file_deletes) + i] =
                                Resolve(answer, answer.file_scan_tasks[i])
         /\ moved' \in SUBSET {t \in Threads : pc[t] = "filter"}
         /\ lock' = NoThread
<1> DEFINE tasks == answer.file_scan_tasks
           fs    == DataFiles(SubSeq(tasks, 1, n))
           ds    == ResolveAll(answer, SubSeq(tasks, 1, m))
<1>1. tasks \in Seq(ScanTasks)
  BY AnswerTasks
<1>2. /\ SubSeq(tasks, 1, n) \in Seq(ScanTasks)
      /\ Len(SubSeq(tasks, 1, n)) = n
      /\ \A i \in 1 .. n : SubSeq(tasks, 1, n)[i] = tasks[i]
  BY <1>1, PrefixType
<1>3. /\ SubSeq(tasks, 1, m) \in Seq(ScanTasks)
      /\ Len(SubSeq(tasks, 1, m)) = m
      /\ \A i \in 1 .. m : SubSeq(tasks, 1, m)[i] = tasks[i]
  BY <1>1, PrefixType, m \in 0 .. Len(tasks)
<1>4. /\ fs \in Seq(Files) /\ Len(fs) = n
      /\ \A i \in 1 .. n : fs[i] = tasks[i].file
  BY <1>2, DataFilesType
<1>5. /\ ds \in Seq(Seq(DeleteFiles)) /\ Len(ds) = m
      /\ \A i \in 1 .. m : ds[i] = Resolve(answer, tasks[i])
  <2>1. \A i \in DOMAIN SubSeq(tasks, 1, m) :
          WellFormed(answer, SubSeq(tasks, 1, m)[i])
    BY <1>3
  <2> QED
    BY <1>3, <2>1, AddedType
<1>6. /\ expanded_files' = expanded_files \o fs
      /\ file_deletes' = file_deletes \o ds
      /\ MayMove
      /\ lock' = NoThread
  BY DEF AddFileScanTasks
<1> HIDE DEF fs, ds
<1>7. /\ expanded_files' \in Seq(Files)
      /\ Len(expanded_files') = Len(expanded_files) + n
      /\ \A i \in 1 .. Len(expanded_files) : expanded_files'[i] = expanded_files[i]
      /\ \A i \in 1 .. n : expanded_files'[Len(expanded_files) + i] = fs[i]
  BY <1>4, <1>6, ConcatProperties
<1>8. /\ file_deletes' \in Seq(Seq(DeleteFiles))
      /\ Len(file_deletes') = Len(file_deletes) + m
      /\ \A i \in 1 .. Len(file_deletes) : file_deletes'[i] = file_deletes[i]
      /\ \A i \in 1 .. m : file_deletes'[Len(file_deletes) + i] = ds[i]
  <2> DEFINE D == Seq(DeleteFiles)
  <2>1. file_deletes \in Seq(D) /\ ds \in Seq(D)
    BY <1>5
  <2> HIDE DEF D
  <2>2. /\ file_deletes \o ds \in Seq(D)
        /\ Len(file_deletes \o ds) = Len(file_deletes) + Len(ds)
        /\ \A i \in 1 .. Len(file_deletes) + Len(ds) :
             (file_deletes \o ds)[i] = IF i <= Len(file_deletes)
               THEN file_deletes[i] ELSE ds[i - Len(file_deletes)]
    BY <2>1, ConcatProperties
  <2>3. Len(file_deletes) \in Nat /\ Len(ds) = m
    BY <1>5, <2>1, LenProperties
  <2>4. file_deletes' \in Seq(D)
    BY <1>6, <2>2
  <2>5. Len(file_deletes') = Len(file_deletes) + m
    BY <1>6, <2>2, <2>3
  <2>6. \A i \in 1 .. Len(file_deletes) : file_deletes'[i] = file_deletes[i]
    BY <1>6, <2>2, <2>3
  <2>7. \A i \in 1 .. m : file_deletes'[Len(file_deletes) + i] = ds[i]
    BY <1>6, <2>2, <2>3
  <2> QED
    BY <2>4, <2>5, <2>6, <2>7 DEF D
<1>9. moved' \in SUBSET {t \in Threads : pc[t] = "filter"}
  BY <1>6 DEF MayMove
<1> QED
  BY <1>4, <1>5, <1>6, <1>7, <1>8, <1>9

-----------------------------------------------------------------------------
(* Types, who holds the lock, and the two lists.                           *)

LEMMA InitialLists ==
  ASSUME Init
  PROVE  TypeOK /\ ListsParallel
<1> DEFINE answer == plan[Inline]
           tasks  == answer.file_scan_tasks
<1>1. plan \in [Tasks \cup {Inline} -> Answers] /\ answer \in Answers
  BY FileListAssumption DEF Init
<1>2. tasks \in Seq(ScanTasks) /\ answer.plan_tasks \in Seq(Tasks)
  BY <1>1, AnswerTasks
<1>3. \A i \in DOMAIN tasks : WellFormed(answer, tasks[i])
  BY DEF Init, AllWellFormed
<1>4. /\ expanded_files \in Seq(Files) /\ Len(expanded_files) = Len(tasks)
      /\ \A i \in 1 .. Len(tasks) : expanded_files[i] = tasks[i].file
  BY <1>2, DataFilesType DEF Init
<1>5. /\ file_deletes \in Seq(Seq(DeleteFiles))
      /\ Len(file_deletes) = Len(tasks)
      /\ \A i \in 1 .. Len(tasks) : file_deletes[i] = Resolve(answer, tasks[i])
  BY <1>1, <1>2, <1>3, AddedType DEF Init
<1>6. TypeOK
  <2>1. ListOK
    BY <1>1, <1>2, <1>4, <1>5 DEF Init, ListOK
  <2>2. ScanOK
    <3>1. pc \in [Threads -> {"next", "expand", "fetch", "open", "filter",
                             "read", "done", "error"}]
      BY DEF Init
    <3>2. handed_out \in 0 .. Len(expanded_files)
      BY <1>4 DEF Init
    <3>3. output \in [Rows -> Nat] /\ positions \in [Threads -> SUBSET Positions]
      BY DEF Init
    <3> QED
      BY <3>1, <3>2, <3>3 DEF Init, ScanOK
  <2>3. ThreadsOK
    BY FileListAssumption DEF Init, ThreadsOK
  <2> QED
    BY <2>1, <2>2, <2>3 DEF TypeOK
<1>7. ListsParallel
  <2>1. \A i \in 1 .. Len(tasks) :
          Planned(plan, expanded_files[i], file_deletes[i])
    BY <1>2, <1>3, <1>4, <1>5 DEF Planned
  <2>2. DOMAIN expanded_files = 1 .. Len(tasks)
    BY <1>4, LenProperties
  <2>3. Len(file_deletes) = Len(expanded_files)
    BY <1>4, <1>5
  <2> QED
    BY <2>1, <2>2, <2>3 DEF ListsParallel
<1> QED
  BY <1>6, <1>7

\* A step that leaves the lists and the plan alone leaves them parallel.
LEMMA ListsStay ==
  ASSUME ListsParallel, failed => failed',
         UNCHANGED <<plan, expanded_files, file_deletes>>
  PROVE  ListsParallel'
BY DEF ListsParallel

LEMMA FetchType ==
  ASSUME TypeOK, NEW t \in Threads, pc[t] = "fetch"
  PROVE  /\ token[1] \in Tasks
         /\ plan[token[1]] \in Answers
BY DEF TypeOK, ListOK, ThreadsOK

LEMMA FetchScanTasksStep ==
  ASSUME TypeOK, ListsParallel, NEW t \in Threads, FetchScanTasks(t)
  PROVE  TypeOK' /\ ListsParallel'
<1> DEFINE answer == plan[token[1]]
           tasks  == answer.file_scan_tasks
<1>1. pc[t] = "fetch" /\ token[1] \in Tasks /\ answer \in Answers
  BY FetchType DEF FetchScanTasks
<1>2. tasks \in Seq(ScanTasks) /\ answer.plan_tasks \in Seq(Tasks)
  BY <1>1, AnswerTasks
<1>3. \A i \in DOMAIN tasks : WellFormed(answer, tasks[i])
  BY DEF FetchScanTasks, AllWellFormed
<1>4. remaining_tokens' \in Seq(Tasks)
  BY <1>2 DEF FetchScanTasks, TypeOK, ListOK
<1>5. CASE Len(tasks) = 0
  <2>1. ListOK'
    BY <1>4, <1>5 DEF FetchScanTasks, TypeOK, ListOK
  <2>2. ScanOK'
    BY <1>5 DEF FetchScanTasks, TypeOK, ScanOK
  <2>3. ThreadsOK'
    BY <1>1, <1>5 DEF FetchScanTasks, TypeOK, ScanOK, ThreadsOK
  <2>4. TypeOK'
    BY <2>1, <2>2, <2>3 DEF TypeOK
  <2> QED
    BY <1>5, <2>4, ListsStay DEF FetchScanTasks
<1>6. CASE Len(tasks) # 0
  <2>1. AddFileScanTasks(answer, Len(tasks), Len(tasks))
    BY <1>6 DEF FetchScanTasks
  <2>2. /\ expanded_files' \in Seq(Files)
        /\ file_deletes' \in Seq(Seq(DeleteFiles))
        /\ Len(expanded_files') = Len(expanded_files) + Len(tasks)
        /\ Len(file_deletes') = Len(file_deletes) + Len(tasks)
        /\ \A i \in 1 .. Len(expanded_files) :
             expanded_files'[i] = expanded_files[i]
        /\ \A i \in 1 .. Len(file_deletes) : file_deletes'[i] = file_deletes[i]
        /\ \A i \in 1 .. Len(tasks) :
             expanded_files'[Len(expanded_files) + i] = tasks[i].file
        /\ \A i \in 1 .. Len(tasks) :
             file_deletes'[Len(file_deletes) + i] = Resolve(answer, tasks[i])
        /\ moved' \in SUBSET {u \in Threads : pc[u] = "filter"}
        /\ lock' = NoThread
    <3>1. Len(tasks) \in 0 .. Len(tasks)
      BY <1>2, LenProperties
    <3>2. /\ expanded_files \in Seq(Files)
          /\ file_deletes \in Seq(Seq(DeleteFiles))
          /\ moved \in SUBSET {u \in Threads : pc[u] = "filter"}
      BY DEF TypeOK, ListOK, ThreadsOK
    <3>3. \A i \in 1 .. Len(tasks) : WellFormed(answer, tasks[i])
      BY <1>2, <1>3, LenProperties
    <3> QED
      BY <1>1, <2>1, <3>1, <3>2, <3>3, AddFileScanTasksGrows
  <2>3. TypeOK'
    <3>1. ListOK'
      BY <1>4, <1>6, <2>2 DEF FetchScanTasks, TypeOK, ListOK
    <3>2. ScanOK'
      <4>1. Len(expanded_files) \in Nat /\ Len(tasks) \in Nat
        BY <1>2, LenProperties DEF TypeOK, ListOK
      <4>2. handed_out' \in 0 .. Len(expanded_files')
        BY <2>2, <4>1 DEF FetchScanTasks, TypeOK, ScanOK
      <4> QED
        BY <1>6, <4>2 DEF FetchScanTasks, TypeOK, ScanOK
    <3>3. ThreadsOK'
      <4>1. \A i \in DOMAIN file_deletes : i \in DOMAIN file_deletes'
        BY <1>2, <2>2 DEF TypeOK, ListOK
      <4>2. pc' = [pc EXCEPT ![t] = "next"] /\ UNCHANGED <<idx, handed_out, probing>>
        BY <1>6 DEF FetchScanTasks
      <4> QED
        BY <1>1, <2>2, <4>1, <4>2, FileListAssumption
        DEF TypeOK, ScanOK, ThreadsOK
    <3> QED
      BY <3>1, <3>2, <3>3 DEF TypeOK
  <2>4. ASSUME ~failed', NEW i \in 1 .. Len(expanded_files')
        PROVE  Planned(plan, expanded_files[i], file_deletes[i])'
    <3>1. /\ Len(file_deletes) = Len(expanded_files)
          /\ \A j \in DOMAIN expanded_files :
               Planned(plan, expanded_files[j], file_deletes[j])
      BY <2>4 DEF ListsParallel, FetchScanTasks
    <3>2. plan' = plan
      BY DEF FetchScanTasks
    <3>3. CASE i <= Len(expanded_files)
      <4>1. Len(expanded_files) \in Nat /\ Len(expanded_files') \in Nat
        BY <2>2, LenProperties DEF TypeOK, ListOK
      <4>2. i \in 1 .. Len(expanded_files)
        BY <3>3, <4>1
      <4>3. i \in DOMAIN expanded_files
        BY <4>2, LenProperties DEF TypeOK, ListOK
      <4>4. /\ expanded_files'[i] = expanded_files[i]
            /\ file_deletes'[i] = file_deletes[i]
        BY <2>2, <3>1, <4>2
      <4> QED
        BY <3>1, <3>2, <4>3, <4>4
    <3>4. CASE i > Len(expanded_files)
      <4> DEFINE j == i - Len(expanded_files)
      <4>1. j \in 1 .. Len(tasks) /\ i = Len(expanded_files) + j
        BY <1>2, <2>2, <3>4 DEF TypeOK, ListOK
      <4>2. /\ expanded_files'[i] = tasks[j].file
            /\ file_deletes'[i] = Resolve(answer, tasks[j])
        BY <2>2, <3>1, <4>1
      <4>3. WellFormed(answer, tasks[j]) /\ j \in DOMAIN tasks
        BY <1>2, <1>3, <4>1
      <4> HIDE DEF j
      <4> QED
        BY <1>1, <3>2, <4>2, <4>3 DEF Planned
    <3> QED
      BY <3>3, <3>4, <2>2 DEF TypeOK, ListOK
  <2>5. ~failed' => Len(file_deletes') = Len(expanded_files')
    BY <2>2 DEF ListsParallel, FetchScanTasks
  <2>6. DOMAIN expanded_files' = 1 .. Len(expanded_files')
    BY <2>2, LenProperties
  <2>7. ListsParallel'
    <3>1. ~failed' => \A i \in DOMAIN expanded_files' :
                        Planned(plan, expanded_files[i], file_deletes[i])'
      BY ONLY <2>4, <2>6
    <3> QED
      BY ONLY <2>5, <3>1 DEF ListsParallel
  <2> QED
    BY <2>3, <2>7
<1> QED
  BY <1>2, <1>5, <1>6

\* The scan has failed: its lists need not be parallel any more.
LEMMA MalformedReferenceStep ==
  ASSUME TypeOK, NEW t \in Threads, MalformedReference(t)
  PROVE  TypeOK' /\ ListsParallel'
<1> DEFINE answer == plan[token[1]]
           tasks  == answer.file_scan_tasks
<1>1. pc[t] = "fetch" /\ token[1] \in Tasks /\ answer \in Answers
  BY FetchType DEF MalformedReference
<1>2. tasks \in Seq(ScanTasks) /\ answer.plan_tasks \in Seq(Tasks)
  BY <1>1, AnswerTasks
<1>3. remaining_tokens' \in Seq(Tasks)
  BY <1>2 DEF MalformedReference, TypeOK, ListOK
<1>4. PICK n \in DOMAIN tasks :
        /\ \A i \in 1 .. n - 1 : WellFormed(answer, tasks[i])
        /\ AddFileScanTasks(answer, n, n - 1)
  BY DEF MalformedReference
<1>5. n \in 0 .. Len(tasks) /\ n - 1 \in 0 .. n
  BY <1>2, <1>4
<1>6. /\ expanded_files' \in Seq(Files)
      /\ file_deletes' \in Seq(Seq(DeleteFiles))
      /\ Len(expanded_files') = Len(expanded_files) + n
      /\ Len(file_deletes') = Len(file_deletes) + (n - 1)
      /\ moved' \in SUBSET {u \in Threads : pc[u] = "filter"}
      /\ lock' = NoThread
  BY <1>1, <1>4, <1>5, AddFileScanTasksGrows
    DEF TypeOK, ListOK, ThreadsOK
<1>7. TypeOK'
  <2>1. ListOK'
    BY <1>3, <1>6 DEF MalformedReference, TypeOK, ListOK
  <2>2. ScanOK'
    <3>1. handed_out' \in 0 .. Len(expanded_files')
      BY <1>5, <1>6 DEF MalformedReference, TypeOK, ListOK, ScanOK
    <3> QED
      BY <3>1 DEF MalformedReference, Raise, TypeOK, ScanOK
  <2>3. ThreadsOK'
    <3>1. \A i \in DOMAIN file_deletes : i \in DOMAIN file_deletes'
      <4>1. /\ DOMAIN file_deletes = 1 .. Len(file_deletes)
            /\ Len(file_deletes) \in Nat
        BY LenProperties DEF TypeOK, ListOK
      <4>2. DOMAIN file_deletes' = 1 .. Len(file_deletes')
        BY <1>6, LenProperties
      <4> QED
        BY <1>5, <1>6, <4>1, <4>2
    <3>2. UNCHANGED <<idx, handed_out, probing>> /\ Raise(t)
      BY DEF MalformedReference
    <3> QED
      BY <1>1, <1>6, <3>1, <3>2, FileListAssumption
      DEF Raise, TypeOK, ScanOK, ThreadsOK
  <2> QED
    BY <2>1, <2>2, <2>3 DEF TypeOK
<1>8. ListsParallel'
  BY DEF MalformedReference, Raise, ListsParallel
<1> QED
  BY <1>7, <1>8

-----------------------------------------------------------------------------
(* The steps that leave the lists alone.                                   *)

\* The steps of ExpandNextPath.  While the bind probes, an error ends every
\* thread.
LEMMA ExpansionSteps ==
  ASSUME TypeOK, NEW t \in Threads,
         Expand(t) \/ TakeToken(t) \/ NothingLeft(t) \/ FetchFails(t)
  PROVE  TypeOK'
<1>1. CASE Expand(t)
  BY <1>1, FileListAssumption
  DEF Expand, refVars, TypeOK, ListOK, ScanOK, ThreadsOK
<1>2. CASE TakeToken(t)
  <2>1. token' \in {<<k>> : k \in Tasks} /\ remaining_tokens' \in Seq(Tasks)
    BY <1>2, HeadTailProperties DEF TakeToken, TypeOK, ListOK
  <2>2. ListOK'
    BY <1>2, <2>1 DEF TakeToken, TypeOK, ListOK
  <2>3. token' # <<>>
    BY <1>2 DEF TakeToken
  <2> QED
    BY <1>2, <2>2, <2>3 DEF TakeToken, refVars, TypeOK, ScanOK, ThreadsOK
<1>3. CASE NothingLeft(t)
  BY <1>3, FileListAssumption
  DEF NothingLeft, AfterFalse, refVars, TypeOK, ListOK, ScanOK, ThreadsOK
<1>4. CASE FetchFails(t)
  BY <1>4, FileListAssumption
  DEF FetchFails, Raise, refVars, TypeOK, ListOK, ScanOK, ThreadsOK
<1> QED
  BY <1>1, <1>2, <1>3, <1>4

LEMMA ScanSteps ==
  ASSUME TypeOK, NEW t \in Threads,
         NextFile(t) \/ EndOfList(t) \/ Read(t)
  PROVE  TypeOK'
<1>2. CASE NextFile(t)
  <2>1. ScanOK'
    BY <1>2, LenProperties
    DEF NextFile, listVars, refVars, TypeOK, ListOK, ScanOK
  <2>2. ListOK'
    BY <1>2 DEF NextFile, listVars, TypeOK, ListOK
  <2>3. ThreadsOK'
    BY <1>2 DEF NextFile, listVars, refVars, TypeOK, ScanOK, ThreadsOK
  <2> QED
    BY <2>1, <2>2, <2>3 DEF TypeOK
<1>3. CASE EndOfList(t)
  BY <1>3 DEF EndOfList, listVars, refVars, TypeOK, ListOK, ScanOK, ThreadsOK
<1>4. CASE Read(t)
  <2>1. output' \in [Rows -> Nat]
    BY <1>4 DEF Read, TypeOK, ScanOK
  <2> QED
    BY <1>4, <2>1
    DEF Read, listVars, refVars, TypeOK, ListOK, ScanOK, ThreadsOK
<1> QED
  BY <1>2, <1>3, <1>4

LEMMA UndefinedType ==
  ASSUME TypeOK, NEW t \in Threads, Undefined(t), ~probing, UNCHANGED probing
  PROVE  /\ positions' \in [Threads -> SUBSET Positions]
         /\ undefined' \in BOOLEAN /\ failed' \in BOOLEAN
         /\ failed => failed'
         /\ \/ pc' = [pc EXCEPT ![t] = "read"]
            \/ pc' = [pc EXCEPT ![t] = "error"]
<1>1. PICK ps \in SUBSET Positions : positions' = [positions EXCEPT ![t] = ps]
  BY DEF Undefined
<1>2. positions' \in [Threads -> SUBSET Positions]
  BY <1>1 DEF TypeOK, ScanOK
<1>3. \/ pc' = [pc EXCEPT ![t] = "read"] /\ failed' = failed
      \/ pc' = [pc EXCEPT ![t] = "error"] /\ failed' = TRUE
  BY DEF Undefined, Raise
<1>4. undefined' \in BOOLEAN
  BY DEF Undefined
<1>5. failed' \in BOOLEAN
  BY <1>3 DEF TypeOK, ScanOK
<1>6. failed => failed'
  BY <1>3
<1>7. \/ pc' = [pc EXCEPT ![t] = "read"]
      \/ pc' = [pc EXCEPT ![t] = "error"]
  BY <1>3
<1> QED
  BY <1>2, <1>4, <1>5, <1>6, <1>7

LEMMA DeletedPositionsType ==
  ASSUME NEW deletes \in Seq(DeleteFiles), NEW file
  PROVE  DeletedPositions(deletes, file) \subseteq Positions
<1>1. ASSUME NEW i \in DOMAIN deletes
      PROVE  PositionsOf(deletes[i], file) \subseteq Positions
  <2>1. deletes[i].rows \subseteq Rows
    <3>1. deletes[i] \in DeleteFiles
      BY LenProperties
    <3> QED
      BY <3>1 DEF DeleteFiles
  <2>2. \A r \in Rows : r[2] \in Positions
    BY DEF Rows
  <2> QED
    BY <2>1, <2>2 DEF PositionsOf
<1> QED
  BY <1>1 DEF DeletedPositions

LEMMA BindSteps ==
  ASSUME TypeOK, NEW t \in Threads,
         GetDeleteFilesForFile(t) \/ BuildUCDeleteFilter(t) \/ ReadFails(t)
  PROVE  TypeOK' /\ (failed => failed')
<1>1. pc[t] \in {"open", "filter", "read"} /\ ~probing /\ UNCHANGED probing
  BY DEF GetDeleteFilesForFile, BuildUCDeleteFilter, ReadFails, TypeOK, ThreadsOK
<1>2. CASE GetDeleteFilesForFile(t)
  <2>1. CASE idx[t] \notin DOMAIN file_deletes
    <3>1. Undefined(t)
      BY <1>2, <2>1 DEF GetDeleteFilesForFile
    <3>2. /\ positions' \in [Threads -> SUBSET Positions]
          /\ undefined' \in BOOLEAN /\ failed' \in BOOLEAN
          /\ failed => failed'
          /\ \/ pc' = [pc EXCEPT ![t] = "read"]
             \/ pc' = [pc EXCEPT ![t] = "error"]
      BY <1>1, <3>1, UndefinedType
    <3>3. ListOK'
      BY <1>2 DEF GetDeleteFilesForFile, listVars, TypeOK, ListOK
    <3>4. ScanOK'
      BY <1>1, <1>2, <3>2 DEF GetDeleteFilesForFile, listVars, TypeOK, ScanOK
    <3>5. ThreadsOK'
      BY <1>1, <1>2, <3>2 DEF GetDeleteFilesForFile, listVars, TypeOK, ScanOK, ThreadsOK
    <3> QED
      BY <3>2, <3>3, <3>4, <3>5 DEF TypeOK
  <2>2. CASE idx[t] \in DOMAIN file_deletes
    <3>1. /\ positions' = [positions EXCEPT ![t] = {}]
          /\ \/ pc' = [pc EXCEPT ![t] = "read"]
             \/ pc' = [pc EXCEPT ![t] = "filter"]
          /\ UNCHANGED <<failed, undefined>>
          /\ UNCHANGED <<plan, listVars, probing, handed_out, idx, output, moved>>
      BY <1>2, <2>2 DEF GetDeleteFilesForFile
    <3>2. ListOK'
      BY <3>1 DEF listVars, TypeOK, ListOK
    <3>3. ScanOK'
      BY <3>1 DEF listVars, TypeOK, ScanOK
    <3>4. ThreadsOK'
      <4>1. UNCHANGED <<file_deletes, lock, token, probing, handed_out, idx,
                        moved>>
        BY <3>1 DEF listVars
      <4>2. pc[t] = "open" /\ t \notin moved
        BY <1>2 DEF GetDeleteFilesForFile, TypeOK, ThreadsOK
      <4>3. CASE pc' = [pc EXCEPT ![t] = "read"]
        BY <2>2, <4>1, <4>2, <4>3 DEF TypeOK, ScanOK, ThreadsOK
      <4>4. CASE pc' = [pc EXCEPT ![t] = "filter"]
        BY <2>2, <4>1, <4>2, <4>4 DEF TypeOK, ScanOK, ThreadsOK
      <4> QED
        BY <3>1, <4>3, <4>4
    <3> QED
      BY <3>1, <3>2, <3>3, <3>4 DEF TypeOK
  <2> QED
    BY <2>1, <2>2
<1>3. CASE BuildUCDeleteFilter(t)
  <2>1. CASE t \in moved
    <3>1. Undefined(t)
      BY <1>3, <2>1 DEF BuildUCDeleteFilter
    <3>2. /\ positions' \in [Threads -> SUBSET Positions]
          /\ undefined' \in BOOLEAN /\ failed' \in BOOLEAN
          /\ failed => failed'
          /\ \/ pc' = [pc EXCEPT ![t] = "read"]
             \/ pc' = [pc EXCEPT ![t] = "error"]
      BY <1>1, <3>1, UndefinedType
    <3>3. ListOK'
      BY <1>3 DEF BuildUCDeleteFilter, listVars, TypeOK, ListOK
    <3>4. ScanOK'
      BY <1>1, <1>3, <3>2 DEF BuildUCDeleteFilter, listVars, TypeOK, ScanOK
    <3>5. ThreadsOK'
      BY <1>1, <1>3, <3>2 DEF BuildUCDeleteFilter, listVars, TypeOK, ScanOK, ThreadsOK
    <3> QED
      BY <3>2, <3>3, <3>4, <3>5 DEF TypeOK
  <2>2. CASE t \notin moved
    <3> DEFINE ps == DeletedPositions(file_deletes[idx[t]],
                                      expanded_files[idx[t]])
    <3>1. file_deletes[idx[t]] \in Seq(DeleteFiles)
      BY <1>3, LenProperties DEF BuildUCDeleteFilter, TypeOK, ListOK, ThreadsOK
    <3>2. ps \in SUBSET Positions
      BY <3>1, DeletedPositionsType
    <3>3. /\ positions' = [positions EXCEPT ![t] = ps]
          /\ pc' = [pc EXCEPT ![t] = "read"]
          /\ UNCHANGED <<failed, undefined>>
      BY <1>3, <2>2 DEF BuildUCDeleteFilter
    <3> HIDE DEF ps
    <3> QED
      BY <1>1, <1>3, <3>2, <3>3
      DEF BuildUCDeleteFilter, listVars, TypeOK, ListOK, ScanOK, ThreadsOK
  <2> QED
    BY <2>1, <2>2
<1>4. CASE ReadFails(t)
  BY <1>1, <1>4
  DEF ReadFails, Raise, listVars, TypeOK, ListOK, ScanOK, ThreadsOK
<1> QED
  BY <1>2, <1>3, <1>4

\* The inductive step of both theorems below.
LEMMA NextKeepsLists ==
  ASSUME TypeOK, ListsParallel, [Next]_vars
  PROVE  TypeOK' /\ ListsParallel'
<1>1. CASE UNCHANGED vars
  <2>1. UNCHANGED <<plan, listVars, scanVars, refVars>>
    BY <1>1 DEF vars
  <2>2. TypeOK'
    BY <2>1
    DEF listVars, scanVars, refVars, TypeOK, ListOK, ScanOK, ThreadsOK
  <2> QED
    BY <2>1, <2>2, ListsStay DEF listVars, scanVars
<1>2. CASE Probed
  <2>1. TypeOK'
    BY <1>2 DEF Probed, listVars, refVars, TypeOK, ListOK, ScanOK, ThreadsOK
  <2> QED
    BY <1>2, <2>1, ListsStay DEF Probed, listVars
<1>3. ASSUME NEW t \in Threads, Step(t)
      PROVE  TypeOK' /\ ListsParallel'
  <2>1. CASE Expand(t) \/ TakeToken(t) \/ NothingLeft(t) \/ FetchFails(t)
    <3>1. TypeOK'
      BY <2>1, ExpansionSteps
    <3>2. UNCHANGED <<plan, expanded_files, file_deletes>> /\ (failed => failed')
      BY <2>1 DEF Expand, TakeToken, NothingLeft, FetchFails, Raise
    <3> QED
      BY <3>1, <3>2, ListsStay
  <2>2. CASE NextFile(t) \/ EndOfList(t) \/ Read(t)
    BY <2>2, ScanSteps, ListsStay DEF NextFile, EndOfList, Read, listVars
  <2>3. CASE GetDeleteFilesForFile(t) \/ BuildUCDeleteFilter(t) \/ ReadFails(t)
    BY <2>3, BindSteps, ListsStay
    DEF GetDeleteFilesForFile, BuildUCDeleteFilter, ReadFails, listVars
  <2>4. CASE FetchScanTasks(t)
    BY <2>4, FetchScanTasksStep
  <2>5. CASE MalformedReference(t)
    BY <2>5, MalformedReferenceStep
  <2> QED
    BY <1>3, <2>1, <2>2, <2>3, <2>4, <2>5 DEF Step
<1> QED
  BY <1>1, <1>2, <1>3 DEF Next

-----------------------------------------------------------------------------
(* Types and the two lists.                                                *)

\* Types, and who holds the lock of the list: every step of the code leaves
\* the two lists, the tokens and the threads where the others expect them.
THEOREM TypeCorrect == Spec => []TypeOK
<1>1. Init => TypeOK /\ ListsParallel
  BY InitialLists
<1>2. (TypeOK /\ ListsParallel) /\ [Next]_vars => (TypeOK /\ ListsParallel)'
  BY NextKeepsLists
<1> QED
  BY <1>1, <1>2, PTL DEF Spec

\* AddFileScanTask keeps file_deletes parallel to expanded_files, each file with
\* the delete files of the answer that brought it, in every scan that has not
\* failed, whatever the server planned.
THEOREM FilesKeepTheirDeletes == Spec => []ListsParallel
<1>1. Init => TypeOK /\ ListsParallel
  BY InitialLists
<1>2. (TypeOK /\ ListsParallel) /\ [Next]_vars => (TypeOK /\ ListsParallel)'
  BY NextKeepsLists
<1> QED
  BY <1>1, <1>2, PTL DEF Spec

-----------------------------------------------------------------------------
(* What a row of a planned file is due.                                    *)

\* The task that brings a file decides, whichever answer it is in.
LEMMA LiveOfFile ==
  ASSUME NEW p, WellPlanned(p), NEW file, NEW deletes,
         Planned(p, file, deletes), NEW n
  PROVE  Live(p, <<file, n>>) <=>
           \A j \in DOMAIN deletes : <<file, n>> \notin deletes[j].rows
<1>1. PICK k, i :
        /\ k \in Origins /\ i \in DOMAIN p[k].file_scan_tasks
        /\ p[k].file_scan_tasks[i].file = file
        /\ WellFormed(p[k], p[k].file_scan_tasks[i])
        /\ Resolve(p[k], p[k].file_scan_tasks[i]) = deletes
  BY DEF Planned, Origins
<1>2. DOMAIN deletes = DOMAIN p[k].file_scan_tasks[i].refs
  BY <1>1 DEF Resolve
<1>3. ASSUME Live(p, <<file, n>>)
      PROVE  \A j \in DOMAIN deletes : <<file, n>> \notin deletes[j].rows
  <2>1. PICK l, m :
          /\ l \in Origins /\ m \in DOMAIN p[l].file_scan_tasks
          /\ p[l].file_scan_tasks[m].file = file
          /\ \A j \in DOMAIN p[l].file_scan_tasks[m].refs :
               <<file, n>> \notin Resolve(p[l], p[l].file_scan_tasks[m])[j].rows
    BY <1>3 DEF Live, Origins
  <2>2. l = k /\ m = i
    BY <1>1, <2>1 DEF WellPlanned
  <2> QED
    BY <1>1, <1>2, <2>1, <2>2
<1>4. ASSUME \A j \in DOMAIN deletes : <<file, n>> \notin deletes[j].rows
      PROVE  Live(p, <<file, n>>)
  BY <1>1, <1>2, <1>4 DEF Live, Origins
<1> QED
  BY <1>3, <1>4

\* The filter of a file has the positions that its delete files name.
LEMMA DeletedOfFile ==
  ASSUME NEW p, WellPlanned(p), NEW file \in Files,
         NEW deletes \in Seq(DeleteFiles), Planned(p, file, deletes),
         NEW n \in Positions
  PROVE  n \in DeletedPositions(deletes, file) <=> ~Live(p, <<file, n>>)
<1>1. \A j \in DOMAIN deletes : deletes[j].rows \subseteq Rows
  <2>1. \A j \in DOMAIN deletes : deletes[j] \in DeleteFiles
    OBVIOUS
  <2> QED
    BY <2>1 DEF DeleteFiles
<1>2. ASSUME NEW j \in DOMAIN deletes
      PROVE  n \in PositionsOf(deletes[j], file) <=> <<file, n>> \in deletes[j].rows
  <2>1. deletes[j].kind = "vector" => \A r \in deletes[j].rows : r[1] = file
    <3>1. PICK k, i :
            /\ k \in Origins /\ i \in DOMAIN p[k].file_scan_tasks
            /\ p[k].file_scan_tasks[i].file = file
            /\ WellFormed(p[k], p[k].file_scan_tasks[i])
            /\ Resolve(p[k], p[k].file_scan_tasks[i]) = deletes
      BY DEF Planned, Origins
    <3>2. DOMAIN deletes = DOMAIN p[k].file_scan_tasks[i].refs
      BY <3>1 DEF Resolve
    <3> QED
      BY <3>1, <3>2 DEF WellPlanned
  <2>2. \A r \in deletes[j].rows : r = <<r[1], r[2]>>
    BY <1>1 DEF Rows
  <2>3. PositionsOf(deletes[j], file) =
          {r[2] : r \in {x \in deletes[j].rows : x[1] = file}}
    BY <2>1 DEF PositionsOf
  <2> QED
    BY <2>2, <2>3
<1>3. n \in DeletedPositions(deletes, file) <=>
        \E j \in DOMAIN deletes : <<file, n>> \in deletes[j].rows
  BY <1>2 DEF DeletedPositions
<1> QED
  BY <1>3, LiveOfFile

\* The vectors of a file together are its rows.
LEMMA VectorsCoverFile ==
  ASSUME NEW deleted
  PROVE  UNION {Filter(deleted, v * VectorSize) : v \in 0 .. Vectors - 1} =
           {n \in Positions : n \notin deleted}
<1>1. ASSUME NEW n \in Positions
      PROVE  \E v \in 0 .. Vectors - 1, i \in 0 .. VectorSize - 1 :
               n = v * VectorSize + i
  <2>1. VectorSize \in Nat /\ Vectors \in Nat /\ VectorSize # 0
    BY <1>1, FileListAssumption DEF FileListAssumption, Positions
  <2> DEFINE v == n \div VectorSize
             i == n % VectorSize
  <2>2. /\ n = v * VectorSize + i
        /\ v \in Nat /\ i \in 0 .. VectorSize - 1
    BY <1>1, <2>1 DEF Positions
  <2>3. v < Vectors
    <3>1. n < Vectors * VectorSize
      BY <1>1, <2>1 DEF Positions
    <3> HIDE DEF v, i
    <3>2. ASSUME v >= Vectors PROVE v * VectorSize >= Vectors * VectorSize
      BY <2>1, <2>2, <3>2
    <3> QED
      BY <2>1, <2>2, <3>1, <3>2
  <2> HIDE DEF v, i
  <2> QED
    BY <2>1, <2>2, <2>3
<1>2. ASSUME NEW v \in 0 .. Vectors - 1, NEW i \in 0 .. VectorSize - 1
      PROVE  v * VectorSize + i \in Positions
  <2>1. VectorSize \in Nat /\ Vectors \in Nat
    BY FileListAssumption DEF FileListAssumption
  <2>2. (v + 1) * VectorSize <= Vectors * VectorSize
    BY <2>1
  <2>3. (v + 1) * VectorSize = v * VectorSize + VectorSize
    BY <2>1
  <2>4. v * VectorSize \in Nat
    BY <2>1
  <2> QED
    BY <2>1, <2>2, <2>3, <2>4 DEF Positions
<1> QED
  BY <1>1, <1>2 DEF Filter

\* Each file is in the list once.
ListedOnce ==
  \A i, j \in DOMAIN expanded_files : expanded_files[i] = expanded_files[j] => i = j

\* A step that reads nothing and starts nothing, though the list may grow.
LEMMA ReadKept ==
  ASSUME TypeOK, ReadInv,
         UNCHANGED <<plan, handed_out, output, idx, positions>>,
         DOMAIN expanded_files \subseteq DOMAIN expanded_files',
         \A i \in DOMAIN expanded_files : expanded_files'[i] = expanded_files[i],
         DOMAIN expanded_files' \subseteq Nat \ {0},
         \A t \in Threads : Active(t)' <=> Active(t),
         \A t \in Threads : pc'[t] = "read" => pc[t] = "read"
  PROVE  ReadInv'
<1>1. /\ DOMAIN expanded_files = 1 .. Len(expanded_files)
      /\ Len(expanded_files) \in Nat /\ handed_out \in 0 .. Len(expanded_files)
  BY DEF TypeOK, ListOK, ScanOK
<1>2. \A t, u \in Threads :
        (Active(t) /\ Active(u) /\ idx[t] = idx[u])' => t = u
  BY DEF ReadInv
<1>3. \A i : Rest(i)' <=> Rest(i)
  BY DEF Rest
<1>4. \A i \in DOMAIN expanded_files' : Rest(i) => i \in DOMAIN expanded_files
  BY <1>1 DEF Rest
<1>5. ASSUME NEW row \in Rows
      PROVE  output'[row] =
        IF /\ \E i \in DOMAIN expanded_files' :
                expanded_files'[i] = row[1] /\ Rest(i)'
           /\ Live(plan', row)
          THEN 1 ELSE 0
  <2>1. (\E i \in DOMAIN expanded_files' : expanded_files'[i] = row[1] /\ Rest(i)')
          <=> \E i \in DOMAIN expanded_files : expanded_files[i] = row[1] /\ Rest(i)
    BY <1>3, <1>4
  <2> QED
    BY <2>1 DEF ReadInv
<1>6. ASSUME NEW t \in Threads, pc'[t] = "read", NEW p \in Positions
      PROVE  p \in positions'[t] <=> ~Live(plan', <<expanded_files'[idx'[t]], p>>)
  <2>1. pc[t] = "read" /\ idx[t] \in DOMAIN expanded_files
    BY <1>1, <1>6 DEF TypeOK, ThreadsOK
  <2> QED
    BY <2>1 DEF ReadInv
<1> QED
  BY <1>2, <1>5, <1>6 DEF ReadInv

LEMMA NextFileReads ==
  ASSUME TypeOK, ReadInv, NEW t \in Threads, NextFile(t)
  PROVE  ReadInv'
<1>1. /\ pc[t] = "next" /\ handed_out \in Nat
      /\ pc' = [pc EXCEPT ![t] = "open"]
      /\ idx' = [idx EXCEPT ![t] = handed_out + 1]
      /\ handed_out' = handed_out + 1
      /\ UNCHANGED <<plan, expanded_files, output, positions>>
  BY DEF NextFile, listVars, TypeOK, ListOK, ScanOK
<1>2. /\ pc \in [Threads -> {"next", "expand", "fetch", "open", "filter", "read",
                             "done", "error"}]
      /\ idx \in [Threads -> Nat]
      /\ \A u \in Threads : Active(u) => idx[u] \in 1 .. handed_out
  BY DEF TypeOK, ScanOK, ThreadsOK, Active
<1>3. /\ ~Active(t) /\ Active(t)' /\ idx'[t] = handed_out + 1
      /\ pc'[t] = "open"
      /\ \A u \in Threads \ {t} :
           /\ Active(u)' <=> Active(u)
           /\ idx'[u] = idx[u] /\ pc'[u] = pc[u]
  BY <1>1, <1>2 DEF Active
<1>4. \A u, v \in Threads : (Active(u) /\ Active(v) /\ idx[u] = idx[v])' => u = v
  BY <1>1, <1>2, <1>3 DEF ReadInv
<1>5. \A i \in Nat : Rest(i)' <=> Rest(i)
  BY <1>1, <1>2, <1>3 DEF Rest
<1>6. DOMAIN expanded_files \subseteq Nat
  BY DEF TypeOK, ListOK
<1>7. ASSUME NEW row \in Rows
      PROVE  output'[row] =
        IF /\ \E i \in DOMAIN expanded_files' :
                expanded_files'[i] = row[1] /\ Rest(i)'
           /\ Live(plan', row)
          THEN 1 ELSE 0
  BY <1>1, <1>5, <1>6 DEF ReadInv
<1>8. ASSUME NEW u \in Threads, pc'[u] = "read", NEW p \in Positions
      PROVE  p \in positions'[u] <=> ~Live(plan', <<expanded_files'[idx'[u]], p>>)
  BY <1>1, <1>3, <1>8 DEF ReadInv
<1> QED
  BY <1>4, <1>7, <1>8 DEF ReadInv

\* The deletes of the file that an active thread reads.
LEMMA ReadsPlanned ==
  ASSUME TypeOK, ListsParallel, ~failed, NEW t \in Threads, Active(t)
  PROVE  /\ idx[t] \in DOMAIN expanded_files
         /\ expanded_files[idx[t]] \in Files
         /\ file_deletes[idx[t]] \in Seq(DeleteFiles)
         /\ idx[t] \in DOMAIN file_deletes
         /\ Planned(plan, expanded_files[idx[t]], file_deletes[idx[t]])
<1>1. /\ idx[t] \in 1 .. handed_out /\ handed_out \in 0 .. Len(expanded_files)
      /\ DOMAIN expanded_files = 1 .. Len(expanded_files)
      /\ Len(expanded_files) \in Nat
      /\ DOMAIN file_deletes = 1 .. Len(file_deletes)
      /\ Len(file_deletes) = Len(expanded_files)
  BY DEF TypeOK, ListOK, ScanOK, ThreadsOK, Active, ListsParallel
<1>2. idx[t] \in DOMAIN expanded_files /\ idx[t] \in DOMAIN file_deletes
  BY <1>1
<1>3. /\ expanded_files \in [1 .. Len(expanded_files) -> Files]
      /\ file_deletes \in [1 .. Len(file_deletes) -> Seq(DeleteFiles)]
  BY DEF TypeOK, ListOK
<1> QED
  BY <1>1, <1>2, <1>3 DEF ListsParallel

\* A filter is built, or none is needed.
LEMMA FilterReads ==
  ASSUME TypeOK, ListsParallel, ReadInv, WellPlanned(plan), ~failed, ~undefined',
         NEW t \in Threads, GetDeleteFilesForFile(t) \/ BuildUCDeleteFilter(t)
  PROVE  ReadInv'
<1> DEFINE file    == expanded_files[idx[t]]
           deletes == file_deletes[idx[t]]
<1>1. Active(t) /\ DOMAIN pc = Threads
  BY DEF GetDeleteFilesForFile, BuildUCDeleteFilter, Active, TypeOK, ScanOK
<1>2. /\ file \in Files /\ deletes \in Seq(DeleteFiles)
      /\ idx[t] \in DOMAIN file_deletes
      /\ Planned(plan, file, deletes)
  BY <1>1, ReadsPlanned
<1>3. UNCHANGED <<plan, expanded_files, handed_out, output, idx>>
  BY DEF GetDeleteFilesForFile, BuildUCDeleteFilter, listVars
<1>4. \/ /\ deletes # <<>>
         /\ pc' = [pc EXCEPT ![t] = "filter"]
         /\ positions' = [positions EXCEPT ![t] = {}]
      \/ /\ pc' = [pc EXCEPT ![t] = "read"]
         /\ positions' = [positions EXCEPT ![t] = DeletedPositions(deletes, file)]
  <2>1. CASE GetDeleteFilesForFile(t)
    <3>1. deletes = <<>> => DeletedPositions(deletes, file) = {}
      BY DEF DeletedPositions
    <3> QED
      BY <1>2, <2>1, <3>1 DEF GetDeleteFilesForFile
  <2>2. CASE BuildUCDeleteFilter(t)
    BY <2>2 DEF BuildUCDeleteFilter, Undefined
  <2> QED
    BY <2>1, <2>2
<1>5. ASSUME NEW p \in Positions
      PROVE  p \in DeletedPositions(deletes, file) <=> ~Live(plan, <<file, p>>)
  BY <1>2, DeletedOfFile
<1>6. /\ \A u \in Threads : Active(u)' <=> Active(u)
      /\ \A u \in Threads \ {t} : pc'[u] = pc[u] /\ positions'[u] = positions[u]
      /\ pc'[t] = "read" => positions'[t] = DeletedPositions(deletes, file)
  <2>1. positions \in [Threads -> SUBSET Positions]
    BY DEF TypeOK, ScanOK
  <2> QED
    BY <1>1, <1>4, <2>1 DEF Active, TypeOK, ScanOK
<1>7. \A i : Rest(i)' <=> Rest(i)
  BY <1>3, <1>6 DEF Rest
<1>8. ASSUME NEW u \in Threads, pc'[u] = "read", NEW p \in Positions
      PROVE  p \in positions'[u] <=> ~Live(plan', <<expanded_files'[idx'[u]], p>>)
  <2>1. CASE u = t
    BY <1>3, <1>5, <1>6, <1>8, <2>1
  <2>2. CASE u # t
    BY <1>3, <1>6, <1>8, <2>2 DEF ReadInv
  <2> QED
    BY <2>1, <2>2
<1>9. \A u, v \in Threads : (Active(u) /\ Active(v) /\ idx[u] = idx[v])' => u = v
  BY <1>3, <1>6 DEF ReadInv
<1>10. ASSUME NEW row \in Rows
      PROVE  output'[row] =
        IF /\ \E i \in DOMAIN expanded_files' :
                expanded_files'[i] = row[1] /\ Rest(i)'
           /\ Live(plan', row)
          THEN 1 ELSE 0
  BY <1>3, <1>7 DEF ReadInv
<1> QED
  BY <1>8, <1>9, <1>10 DEF ReadInv

LEMMA FileRead ==
  ASSUME TypeOK, ListsParallel, ReadInv, ListedOnce, ~failed,
         NEW t \in Threads, Read(t)
  PROVE  ReadInv'
<1> DEFINE file == expanded_files[idx[t]]
<1>1. /\ pc[t] = "read" /\ Active(t)
      /\ pc' = [pc EXCEPT ![t] = "next"]
      /\ UNCHANGED <<plan, expanded_files, handed_out, idx, positions>>
  BY DEF Read, Active, listVars
<1>2. idx[t] \in DOMAIN expanded_files /\ idx[t] \in 1 .. handed_out
      /\ handed_out \in Nat /\ DOMAIN expanded_files \subseteq Nat
  BY <1>1, ReadsPlanned DEF TypeOK, ListOK, ScanOK, ThreadsOK
<1>3. DOMAIN pc = Threads
  BY DEF TypeOK, ScanOK
<1>4. /\ ~Active(t)'
      /\ \A u \in Threads \ {t} : (Active(u)' <=> Active(u)) /\ pc'[u] = pc[u]
      /\ pc'[t] # "read"
  BY <1>1, <1>3 DEF Active, TypeOK, ScanOK
<1>5. Rest(idx[t])' /\ ~Rest(idx[t])
  BY <1>1, <1>2, <1>4 DEF Rest, ReadInv
<1>6. \A i \in DOMAIN expanded_files : i # idx[t] => (Rest(i)' <=> Rest(i))
  BY <1>1, <1>4 DEF Rest
<1>7. Returned(t) = {file} \X {n \in Positions : n \notin positions[t]}
  BY VectorsCoverFile DEF Returned
<1>8. ASSUME NEW row \in Rows
      PROVE  output'[row] =
        IF /\ \E i \in DOMAIN expanded_files' :
                expanded_files'[i] = row[1] /\ Rest(i)'
           /\ Live(plan', row)
          THEN 1 ELSE 0
  <2>1. output'[row] = output[row] + (IF row \in Returned(t) THEN 1 ELSE 0)
    BY DEF Read
  <2>2. row = <<row[1], row[2]>> /\ row[2] \in Positions
    BY DEF Rows
  <2>3. CASE row[1] = file
    <3>1. ~ \E i \in DOMAIN expanded_files : expanded_files[i] = row[1] /\ Rest(i)
      BY <1>2, <1>5, <2>3 DEF ListedOnce
    <3>2. output[row] = 0
      BY <3>1 DEF ReadInv
    <3>3. row \in Returned(t) <=> Live(plan, row)
      <4>1. row \in Returned(t) <=> row[2] \notin positions[t]
        BY <1>7, <2>2, <2>3
      <4>2. row[2] \in positions[t] <=> ~Live(plan, <<file, row[2]>>)
        BY <1>1, <2>2 DEF ReadInv
      <4> QED
        BY <2>2, <2>3, <4>1, <4>2
    <3>4. \E i \in DOMAIN expanded_files' : expanded_files'[i] = row[1] /\ Rest(i)'
      BY <1>1, <1>2, <1>5, <2>3
    <3> QED
      BY <1>1, <2>1, <3>2, <3>3, <3>4
  <2>4. CASE row[1] # file
    <3>1. row \notin Returned(t)
      BY <1>7, <2>4
    <3>2. output[row] \in Nat
      BY DEF TypeOK, ScanOK
    <3>3. output'[row] = output[row]
      BY <2>1, <3>1, <3>2
    <3>4. (\E i \in DOMAIN expanded_files' : expanded_files'[i] = row[1] /\ Rest(i)')
            <=> \E i \in DOMAIN expanded_files : expanded_files[i] = row[1] /\ Rest(i)
      BY <1>1, <1>6, <2>4
    <3> QED
      BY <1>1, <3>3, <3>4 DEF ReadInv
  <2> QED
    BY <2>3, <2>4
<1>9. ASSUME NEW u \in Threads, pc'[u] = "read", NEW p \in Positions
      PROVE  p \in positions'[u] <=> ~Live(plan', <<expanded_files'[idx'[u]], p>>)
  BY <1>1, <1>4, <1>9 DEF ReadInv
<1>10. \A u, v \in Threads : (Active(u) /\ Active(v) /\ idx[u] = idx[v])' => u = v
  BY <1>1, <1>4 DEF ReadInv
<1> QED
  BY <1>8, <1>9, <1>10 DEF ReadInv

-----------------------------------------------------------------------------
(* Tokens and files.                                                       *)

LEMMA ConcatDistinct ==
  ASSUME NEW S, NEW s \in Seq(S), NEW u \in Seq(S),
         \A i, j \in DOMAIN s : s[i] = s[j] => i = j,
         \A i, j \in DOMAIN u : u[i] = u[j] => i = j,
         \A i \in DOMAIN s, j \in DOMAIN u : s[i] # u[j]
  PROVE  \A i, j \in DOMAIN (s \o u) : (s \o u)[i] = (s \o u)[j] => i = j
<1>1. /\ DOMAIN s = 1 .. Len(s) /\ DOMAIN u = 1 .. Len(u)
      /\ Len(s) \in Nat /\ Len(u) \in Nat
      /\ DOMAIN (s \o u) = 1 .. Len(s) + Len(u)
  BY ConcatProperties, LenProperties
<1>2. \A i \in 1 .. Len(s) + Len(u) :
        (s \o u)[i] = IF i <= Len(s) THEN s[i] ELSE u[i - Len(s)]
  BY ConcatProperties
<1>3. \A i \in 1 .. Len(s) + Len(u) :
        IF i <= Len(s) THEN i \in DOMAIN s ELSE i - Len(s) \in DOMAIN u
  BY <1>1
<1>4. ASSUME NEW i \in 1 .. Len(s) + Len(u), NEW j \in 1 .. Len(s) + Len(u),
             (s \o u)[i] = (s \o u)[j]
      PROVE  i = j
  <2>1. CASE i <= Len(s) /\ j <= Len(s)
    BY <1>2, <1>3, <1>4, <2>1
  <2>2. CASE i <= Len(s) /\ ~(j <= Len(s))
    BY <1>2, <1>3, <1>4, <2>2
  <2>3. CASE ~(i <= Len(s)) /\ j <= Len(s)
    BY <1>2, <1>3, <1>4, <2>3
  <2>4. CASE ~(i <= Len(s)) /\ ~(j <= Len(s))
    <3>1. i - Len(s) = j - Len(s)
      BY <1>2, <1>3, <1>4, <2>4
    <3> QED BY <1>1, <3>1
  <2> QED BY <2>1, <2>2, <2>3, <2>4
<1> QED
  BY <1>1, <1>4

LEMMA TokenTaken ==
  ASSUME TypeOK, NEW D, TokensInv(D), FilesInv(D), token = <<>>,
         NEW t \in Threads, TakeToken(t)
  PROVE  TokensInv(D)' /\ FilesInv(D)'
<1>1. /\ remaining_tokens \in Seq(Tasks) /\ remaining_tokens # <<>>
      /\ UNCHANGED <<plan, expanded_files>>
  BY DEF TakeToken, TypeOK, ListOK
<1>2. /\ DOMAIN remaining_tokens = 1 .. Len(remaining_tokens)
      /\ Len(remaining_tokens) \in Nat \ {0}
  BY <1>1
<1>3. /\ token' = <<remaining_tokens[1]>>
      /\ DOMAIN remaining_tokens' = 1 .. Len(remaining_tokens) - 1
      /\ \A i \in 1 .. Len(remaining_tokens) - 1 :
           remaining_tokens'[i] = remaining_tokens[i + 1]
  BY <1>1, HeadTailProperties DEF TakeToken
<1>4. ASSUME NEW x PROVE Waits(x)' <=> Waits(x)
  <2>1. ASSUME NEW i \in DOMAIN remaining_tokens, remaining_tokens[i] = x
        PROVE  Waits(x)'
    <3>1. CASE i = 1
      BY <1>3, <2>1, <3>1 DEF Waits
    <3>2. CASE i # 1
      <4>1. i - 1 \in DOMAIN remaining_tokens' /\ remaining_tokens'[i - 1] = x
        BY <1>2, <1>3, <2>1, <3>2
      <4> QED BY <4>1 DEF Waits
    <3> QED BY <3>1, <3>2
  <2>2. ASSUME NEW i \in DOMAIN remaining_tokens', remaining_tokens'[i] = x
        PROVE  Waits(x)
    <3>1. i + 1 \in DOMAIN remaining_tokens /\ remaining_tokens[i + 1] = x
      BY <1>2, <1>3, <2>2
    <3> QED BY <3>1 DEF Waits
  <2>3. ASSUME token' = <<x>> PROVE Waits(x)
    BY <1>2, <1>3, <2>3 DEF Waits
  <2> QED
    BY <2>1, <2>2, <2>3 DEF Waits
<1>5. \A x : Brought(D, x)' <=> Brought(D, x)
  BY <1>1 DEF Brought
<1>6. ASSUME NEW i \in DOMAIN remaining_tokens', NEW j \in DOMAIN remaining_tokens'
      PROVE  /\ remaining_tokens'[i] = remaining_tokens'[j] => i = j
             /\ token' # <<remaining_tokens'[i]>>
  <2>1. /\ i + 1 \in DOMAIN remaining_tokens /\ j + 1 \in DOMAIN remaining_tokens
        /\ 1 \in DOMAIN remaining_tokens /\ i + 1 # 1
        /\ i \in Int /\ j \in Int
    BY <1>2, <1>3
  <2>2. /\ remaining_tokens[i + 1] = remaining_tokens[j + 1] => i + 1 = j + 1
        /\ remaining_tokens[i + 1] # remaining_tokens[1]
    BY <2>1 DEF TokensInv
  <2> QED
    BY <1>3, <2>1, <2>2
<1>7. TokensInv(D)'
  BY <1>4, <1>5, <1>6 DEF TokensInv
<1>8. FilesInv(D)'
  BY <1>1 DEF FilesInv
<1> QED
  BY <1>7, <1>8

\* What an answer adds, if it adds anything.
LEMMA FetchGrows ==
  ASSUME TypeOK, NEW t \in Threads, FetchScanTasks(t)
  PROVE  LET tasks == plan[token[1]].file_scan_tasks
         IN  /\ tasks \in Seq(ScanTasks)
             /\ expanded_files' \in Seq(Files)
             /\ Len(expanded_files') = Len(expanded_files) + Len(tasks)
             /\ \A i \in 1 .. Len(expanded_files) :
                  expanded_files'[i] = expanded_files[i]
             /\ \A i \in 1 .. Len(tasks) :
                  expanded_files'[Len(expanded_files) + i] = tasks[i].file
<1> DEFINE answer == plan[token[1]]
           tasks  == answer.file_scan_tasks
<1>1. pc[t] = "fetch" /\ token[1] \in Tasks /\ answer \in Answers
  BY FetchType DEF FetchScanTasks
<1>2. tasks \in Seq(ScanTasks) /\ Len(tasks) \in Nat
  BY <1>1, AnswerTasks, LenProperties
<1>3. CASE Len(tasks) = 0
  BY <1>2, <1>3 DEF FetchScanTasks, TypeOK, ListOK
<1>4. CASE Len(tasks) # 0
  <2>1. AddFileScanTasks(answer, Len(tasks), Len(tasks))
    BY <1>4 DEF FetchScanTasks
  <2>2. /\ expanded_files \in Seq(Files)
        /\ file_deletes \in Seq(Seq(DeleteFiles))
        /\ moved \in SUBSET {u \in Threads : pc[u] = "filter"}
    BY DEF TypeOK, ListOK, ThreadsOK
  <2>3. \A i \in 1 .. Len(tasks) : WellFormed(answer, tasks[i])
    BY <1>2, LenProperties DEF FetchScanTasks, AllWellFormed
  <2>4. Len(tasks) \in 0 .. Len(tasks)
    BY <1>2
  <2> QED
    BY <1>1, <1>2, <2>1, <2>2, <2>3, <2>4, AddFileScanTasksGrows
<1> QED
  BY <1>2, <1>3, <1>4

\* An answer is taken: its tokens are new, and so are its files.
LEMMA AnswerTaken ==
  ASSUME TypeOK, WellPlanned(plan), NEW D, TokensInv(D), FilesInv(D),
         NEW t \in Threads, FetchScanTasks(t), NEW k, token = <<k>>
  PROVE  /\ D \cup {k} \in SUBSET Origins
         /\ TokensInv(D \cup {k})'
         /\ FilesInv(D \cup {k})'
<1> DEFINE E     == D \cup {k}
           new   == plan[k].plan_tasks
           tasks == plan[k].file_scan_tasks
           old   == remaining_tokens
<1>1. /\ k \in Tasks /\ token[1] = k /\ plan[k] \in Answers /\ k \in Origins
      /\ new \in Seq(Tasks) /\ old \in Seq(Tasks)
  <2>1. k \in Tasks /\ token[1] = k /\ plan[k] \in Answers
    BY FetchType DEF FetchScanTasks
  <2> QED
    BY <2>1, AnswerTasks DEF TypeOK, ListOK, Origins
<1>2. D \subseteq Origins /\ k \notin D /\ E \in SUBSET Origins /\ Inline \in E
  BY <1>1 DEF TokensInv, Waits
<1>3. /\ remaining_tokens' = old \o new /\ token' = <<>> /\ plan' = plan
  BY <1>1 DEF FetchScanTasks
<1>4. /\ DOMAIN remaining_tokens' = 1 .. Len(old) + Len(new)
      /\ Len(old) \in Nat /\ Len(new) \in Nat
      /\ DOMAIN old = 1 .. Len(old) /\ DOMAIN new = 1 .. Len(new)
      /\ \A i \in 1 .. Len(old) : remaining_tokens'[i] = old[i]
      /\ \A i \in 1 .. Len(new) : remaining_tokens'[Len(old) + i] = new[i]
  BY <1>1, <1>3, ConcatProperties
<1>5. ASSUME NEW i \in DOMAIN new
      PROVE  new[i] \in Tasks /\ ~Brought(D, new[i])
  <2>1. new[i] \in Tasks
    BY <1>1
  <2>2. ASSUME Brought(D, new[i]) PROVE FALSE
    BY <1>1, <1>2, <2>2 DEF Brought, WellPlanned
  <2> QED BY <2>1, <2>2
<1>6. ASSUME NEW i \in DOMAIN new
      PROVE  new[i] \notin E /\ ~Waits(new[i])
  <2>1. new[i] \notin D /\ ~Waits(new[i])
    BY <1>5 DEF TokensInv
  <2>2. new[i] # k
    BY <1>1, <2>1 DEF Waits
  <2> QED BY <2>1, <2>2
<1>7. ASSUME NEW x
      PROVE  Waits(x)' <=> \/ \E i \in DOMAIN old : old[i] = x
                           \/ \E i \in DOMAIN new : new[i] = x
  <2>1. Waits(x)' <=> \E i \in DOMAIN remaining_tokens' : remaining_tokens'[i] = x
    BY <1>3 DEF Waits
  <2>2. ASSUME NEW i \in DOMAIN remaining_tokens', remaining_tokens'[i] = x
        PROVE  \/ \E j \in DOMAIN old : old[j] = x
               \/ \E j \in DOMAIN new : new[j] = x
    <3>1. CASE i <= Len(old)
      BY <1>4, <2>2, <3>1
    <3>2. CASE i > Len(old)
      <4>1. i - Len(old) \in 1 .. Len(new) /\ i = Len(old) + (i - Len(old))
        BY <1>4, <3>2
      <4>2. new[i - Len(old)] = x
        BY <1>4, <2>2, <4>1
      <4> QED BY <1>4, <4>1, <4>2
    <3> QED BY <1>4, <3>1, <3>2
  <2>3. ASSUME NEW i \in DOMAIN old, old[i] = x
        PROVE  \E j \in DOMAIN remaining_tokens' : remaining_tokens'[j] = x
    <3>1. i \in DOMAIN remaining_tokens' /\ remaining_tokens'[i] = x
      BY <1>4, <2>3
    <3> QED BY <3>1
  <2>4. ASSUME NEW i \in DOMAIN new, new[i] = x
        PROVE  \E j \in DOMAIN remaining_tokens' : remaining_tokens'[j] = x
    <3>1. /\ Len(old) + i \in DOMAIN remaining_tokens'
          /\ remaining_tokens'[Len(old) + i] = x
      BY <1>4, <2>4
    <3> QED BY <3>1
  <2> QED
    BY <2>1, <2>2, <2>3, <2>4
<1>8. ASSUME NEW x
      PROVE  Brought(E, x)' <=> \/ Brought(D, x)
                                \/ \E i \in DOMAIN new : new[i] = x
  BY <1>3 DEF Brought
<1>9. ASSUME NEW x \in Tasks
      PROVE  /\ Brought(E, x)' <=> x \in E \/ Waits(x)'
             /\ ~(x \in E /\ Waits(x)')
  <2>1. Brought(D, x) <=>
          x \in D \/ x = k \/ \E i \in DOMAIN old : old[i] = x
    BY <1>1 DEF TokensInv, Waits
  <2>2. \A i \in DOMAIN old : old[i] \notin D /\ old[i] # k
    <3>1. \A i \in DOMAIN old : old[i] \in Tasks /\ Waits(old[i])
      BY <1>1 DEF Waits
    <3> QED
      BY <1>1, <3>1 DEF TokensInv
  <2> QED
    BY <1>6, <1>7, <1>8, <2>1, <2>2
<1>10. ASSUME NEW i \in DOMAIN remaining_tokens', NEW j \in DOMAIN remaining_tokens',
              remaining_tokens'[i] = remaining_tokens'[j]
       PROVE  i = j
  <2>1. \A m, n \in DOMAIN old : old[m] = old[n] => m = n
    BY DEF TokensInv
  <2>2. \A m, n \in DOMAIN new : new[m] = new[n] => m = n
    BY <1>1 DEF WellPlanned
  <2>3. \A m \in DOMAIN old, n \in DOMAIN new : old[m] # new[n]
    BY <1>6 DEF Waits
  <2> QED
    BY <1>1, <1>3, <1>10, <2>1, <2>2, <2>3, ConcatDistinct
<1>11. TokensInv(E)'
  <2>1. \A i \in DOMAIN remaining_tokens' : token' # <<remaining_tokens'[i]>>
    BY <1>3
  <2> QED
    BY <1>2, <1>9, <1>10, <2>1 DEF TokensInv
<1>12. /\ tasks \in Seq(ScanTasks) /\ Len(tasks) \in Nat
       /\ DOMAIN tasks = 1 .. Len(tasks)
       /\ DOMAIN expanded_files = 1 .. Len(expanded_files)
       /\ Len(expanded_files) \in Nat
       /\ DOMAIN expanded_files' = 1 .. Len(expanded_files) + Len(tasks)
       /\ \A i \in 1 .. Len(expanded_files) : expanded_files'[i] = expanded_files[i]
       /\ \A i \in 1 .. Len(tasks) :
            expanded_files'[Len(expanded_files) + i] = tasks[i].file
  BY <1>1, FetchGrows, LenProperties DEF TypeOK, ListOK
<1>13. FilesInv(E)'
  <2> DEFINE N == Len(expanded_files)
  <2>1. \A m \in 1 .. N + Len(tasks) :
          m \notin 1 .. N => /\ m - N \in 1 .. Len(tasks)
                             /\ expanded_files'[m] = tasks[m - N].file
    <3>1. \A m \in 1 .. N + Len(tasks) : m = N + (m - N)
      BY <1>12
    <3>2. \A m \in 1 .. N + Len(tasks) : m \notin 1 .. N => m - N \in 1 .. Len(tasks)
      BY <1>12
    <3> QED BY <1>12, <3>1, <3>2
  <2>2. \A m \in 1 .. N, n \in 1 .. Len(tasks) : expanded_files[m] # tasks[n].file
    <3>1. \A m \in 1 .. N : expanded_files[m] \in Files
      BY DEF TypeOK, ListOK
    <3>2. \A m \in 1 .. N : \E l \in D : \E i \in DOMAIN plan[l].file_scan_tasks :
            plan[l].file_scan_tasks[i].file = expanded_files[m]
      BY <1>12, <3>1 DEF FilesInv
    <3>3. ASSUME NEW m \in 1 .. N, NEW n \in 1 .. Len(tasks),
                 expanded_files[m] = tasks[n].file
          PROVE  FALSE
      <4>1. PICK l \in D : \E i \in DOMAIN plan[l].file_scan_tasks :
              plan[l].file_scan_tasks[i].file = expanded_files[m]
        BY <3>2
      <4>2. l \in Origins /\ n \in DOMAIN plan[k].file_scan_tasks
        BY <1>2, <1>12
      <4>3. l = k
        BY <1>1, <3>3, <4>1, <4>2 DEF WellPlanned
      <4> QED BY <1>2, <4>3
    <3> QED BY <3>3
  <2>3. \A m, n \in 1 .. Len(tasks) : tasks[m].file = tasks[n].file => m = n
    BY <1>1, <1>12 DEF WellPlanned
  <2>4. \A m, n \in 1 .. N : expanded_files[m] = expanded_files[n] => m = n
    BY <1>12 DEF FilesInv
  <2>5. ASSUME NEW i \in DOMAIN expanded_files', NEW j \in DOMAIN expanded_files',
               expanded_files'[i] = expanded_files'[j]
        PROVE  i = j
    <3>1. CASE i \in 1 .. N /\ j \in 1 .. N
      BY <1>12, <2>4, <2>5, <3>1
    <3>2. CASE i \in 1 .. N /\ j \notin 1 .. N
      BY <1>12, <2>1, <2>2, <2>5, <3>2
    <3>3. CASE i \notin 1 .. N /\ j \in 1 .. N
      BY <1>12, <2>1, <2>2, <2>5, <3>3
    <3>4. CASE i \notin 1 .. N /\ j \notin 1 .. N
      <4>1. i - N = j - N
        BY <1>12, <2>1, <2>3, <2>5, <3>4
      <4> QED BY <1>12, <4>1
    <3> QED BY <3>1, <3>2, <3>3, <3>4
  <2>6. ASSUME NEW file \in Files
        PROVE  (\E i \in DOMAIN expanded_files' : expanded_files'[i] = file) <=>
                 \/ \E i \in DOMAIN expanded_files : expanded_files[i] = file
                 \/ \E i \in DOMAIN tasks : tasks[i].file = file
    <3>1. ASSUME NEW i \in DOMAIN tasks, tasks[i].file = file
          PROVE  \E j \in DOMAIN expanded_files' : expanded_files'[j] = file
      <4>1. N + i \in DOMAIN expanded_files' /\ expanded_files'[N + i] = file
        BY <1>12, <3>1
      <4> QED BY <4>1
    <3>2. ASSUME NEW i \in DOMAIN expanded_files, expanded_files[i] = file
          PROVE  \E j \in DOMAIN expanded_files' : expanded_files'[j] = file
      <4>1. i \in DOMAIN expanded_files' /\ expanded_files'[i] = file
        BY <1>12, <3>2
      <4> QED BY <4>1
    <3>3. ASSUME NEW i \in DOMAIN expanded_files', expanded_files'[i] = file
          PROVE  \/ \E j \in DOMAIN expanded_files : expanded_files[j] = file
                 \/ \E j \in DOMAIN tasks : tasks[j].file = file
      BY <1>12, <2>1, <3>3
    <3> QED
      BY <3>1, <3>2, <3>3
  <2>7. ASSUME NEW file \in Files
        PROVE  (\E i \in DOMAIN expanded_files' : expanded_files'[i] = file) <=>
                 \E l \in E : \E i \in DOMAIN plan'[l].file_scan_tasks :
                   plan'[l].file_scan_tasks[i].file = file
    BY <1>3, <2>6 DEF FilesInv
  <2> QED
    BY <2>5, <2>7 DEF FilesInv
<1> QED
  BY <1>2, <1>11, <1>13

-----------------------------------------------------------------------------
(* The end of the list.                                                    *)

LEMMA ExpansionEnds ==
  ASSUME TypeOK, EndInv, NEW t \in Threads,
         Expand(t) \/ TakeToken(t) \/ NothingLeft(t) \/ FetchScanTasks(t)
  PROVE  EndInv'
<1>1. /\ Len(expanded_files) \in Nat /\ handed_out \in 0 .. Len(expanded_files)
      /\ NoThread \notin Threads /\ DOMAIN pc = Threads
      /\ probing \in BOOLEAN
  BY FileListAssumption DEF FileListAssumption, TypeOK, ListOK, ScanOK
<1>2. \A u \in Threads : pc[u] \in {"expand", "fetch"} <=> lock = u
  BY DEF TypeOK, ThreadsOK
<1>3. CASE Expand(t)
  <2>1. handed_out' = handed_out /\ expanded_files' = expanded_files
        /\ (~probing' => handed_out = Len(expanded_files))
    BY <1>1, <1>3 DEF Expand
  <2> QED
    BY <1>1, <1>2, <1>3, <2>1 DEF Expand, EndInv
<1>4. CASE TakeToken(t)
  BY <1>1, <1>2, <1>4 DEF TakeToken, EndInv
<1>5. CASE NothingLeft(t)
  <2>1. lock = t /\ token = <<>>
    BY <1>2, <1>5 DEF NothingLeft, EndInv
  <2>2. ASSUME \A u \in Threads : pc'[u] = "done"
        PROVE  handed_out = Len(expanded_files)
    BY <1>1, <1>5, <2>1, <2>2 DEF NothingLeft, AfterFalse, EndInv
  <2> QED
    BY <1>1, <1>5, <2>1, <2>2 DEF NothingLeft, AfterFalse, EndInv
<1>6. CASE FetchScanTasks(t)
  <2>1. lock = t /\ token # <<>>
    BY <1>2, <1>6 DEF FetchScanTasks, TypeOK, ThreadsOK
  <2>2. ~all_files_expanded
    BY <2>1 DEF EndInv
  <2>3. /\ token' = <<>> /\ UNCHANGED <<all_files_expanded, probing, handed_out>>
        /\ \/ /\ pc' = [pc EXCEPT ![t] = "expand"]
              /\ UNCHANGED <<expanded_files, lock>>
           \/ /\ pc' = [pc EXCEPT ![t] = "next"]
              /\ lock' = NoThread
    BY <1>6 DEF FetchScanTasks, AddFileScanTasks
  <2> QED
    BY <1>1, <2>1, <2>2, <2>3 DEF EndInv
<1> QED
  BY <1>3, <1>4, <1>5, <1>6

LEMMA ScanEndsWell ==
  ASSUME TypeOK, EndInv, ~failed', NEW t \in Threads,
         \/ NextFile(t) \/ EndOfList(t) \/ Read(t)
         \/ GetDeleteFilesForFile(t) \/ BuildUCDeleteFilter(t)
  PROVE  EndInv'
<1>1. /\ Len(expanded_files) \in Nat /\ handed_out \in 0 .. Len(expanded_files)
      /\ NoThread \notin Threads /\ DOMAIN pc = Threads
      /\ \A u \in Threads : pc[u] \in {"expand", "fetch"} <=> lock = u
  BY FileListAssumption
  DEF FileListAssumption, TypeOK, ListOK, ScanOK, ThreadsOK
<1>2. CASE NextFile(t)
  BY <1>1, <1>2 DEF NextFile, listVars, EndInv
<1>3. CASE EndOfList(t)
  BY <1>1, <1>3 DEF EndOfList, listVars, EndInv
<1>4. CASE Read(t) \/ GetDeleteFilesForFile(t) \/ BuildUCDeleteFilter(t)
  <2>1. /\ UNCHANGED <<listVars, probing, handed_out>>
        /\ \E l \in {"next", "filter", "read"} : pc' = [pc EXCEPT ![t] = l]
    BY <1>4
    DEF Read, GetDeleteFilesForFile, BuildUCDeleteFilter, Undefined, Raise
  <2> QED
    BY <1>1, <2>1 DEF listVars, EndInv
<1> QED
  BY <1>2, <1>3, <1>4

-----------------------------------------------------------------------------
(* A scan that has not failed.                                             *)

ListInv == \E D \in SUBSET Origins : TokensInv(D) /\ FilesInv(D)

LEMMA InitialPlan ==
  ASSUME Init, WellPlanned(plan)
  PROVE  ListInv /\ EndInv /\ ReadInv
<1> DEFINE answer == plan[Inline]
           tasks  == answer.file_scan_tasks
<1>1. plan \in [Tasks \cup {Inline} -> Answers] /\ answer \in Answers
      /\ Inline \in Origins /\ Inline \notin Tasks
  BY FileListAssumption DEF Init, Origins, FileListAssumption
<1>2. tasks \in Seq(ScanTasks) /\ answer.plan_tasks \in Seq(Tasks)
  BY <1>1, AnswerTasks
<1>3. /\ expanded_files \in Seq(Files) /\ Len(expanded_files) = Len(tasks)
      /\ \A i \in 1 .. Len(tasks) : expanded_files[i] = tasks[i].file
  BY <1>2, DataFilesType DEF Init
<1>4. /\ DOMAIN expanded_files = 1 .. Len(tasks)
      /\ DOMAIN tasks = 1 .. Len(tasks) /\ Len(tasks) \in Nat
  BY <1>2, <1>3
<1>5. TokensInv({Inline})
  <2>1. remaining_tokens = answer.plan_tasks /\ token = <<>>
    BY DEF Init
  <2>2. \A x : Brought({Inline}, x) <=> Waits(x)
    BY <2>1 DEF Brought, Waits
  <2>3. \A i, j \in DOMAIN remaining_tokens :
          /\ remaining_tokens[i] = remaining_tokens[j] => i = j
          /\ token # <<remaining_tokens[i]>>
    BY <1>1, <2>1 DEF WellPlanned
  <2> QED
    BY <1>1, <2>2, <2>3 DEF TokensInv
<1>6. FilesInv({Inline})
  <2>1. \A i, j \in DOMAIN expanded_files :
          expanded_files[i] = expanded_files[j] => i = j
    BY <1>1, <1>3, <1>4 DEF WellPlanned
  <2> QED
    BY <1>3, <1>4, <2>1 DEF FilesInv
<1>7. EndInv
  BY <1>3, FileListAssumption DEF Init, EndInv, FileListAssumption
<1>8. ReadInv
  <2>1. \A i \in DOMAIN expanded_files : ~Rest(i)
    BY <1>4 DEF Init, Rest
  <2>2. \A t \in Threads : ~Active(t) /\ pc[t] # "read"
    BY DEF Init, Active
  <2> QED
    BY <2>1, <2>2 DEF Init, ReadInv
<1> QED
  BY <1>1, <1>5, <1>6, <1>7, <1>8 DEF ListInv

LEMMA ListStays ==
  ASSUME ListInv, UNCHANGED <<plan, expanded_files, remaining_tokens, token>>
  PROVE  ListInv'
<1>1. PICK D \in SUBSET Origins : TokensInv(D) /\ FilesInv(D)
  BY DEF ListInv
<1>2. TokensInv(D)'
  BY <1>1 DEF TokensInv, Brought, Waits
<1>3. FilesInv(D)'
  BY <1>1 DEF FilesInv
<1> QED
  BY <1>2, <1>3 DEF ListInv

\* What holds of a scan until it fails.
PlanInv ==
  /\ plan \in Plans
  /\ ~failed => ListInv /\ EndInv /\ (~undefined => ReadInv)

LEMMA PlanStep ==
  ASSUME TypeOK, ListsParallel, WellPlanned(plan), [Next]_vars,
         ~failed => ListInv /\ EndInv /\ (~undefined => ReadInv)
  PROVE  ~failed' => ListInv' /\ EndInv' /\ (~undefined' => ReadInv')
<1> SUFFICES ASSUME ~failed' PROVE ListInv' /\ EndInv' /\ (~undefined' => ReadInv')
  OBVIOUS
<1>1. /\ DOMAIN expanded_files = 1 .. Len(expanded_files)
      /\ Len(expanded_files) \in Nat /\ DOMAIN pc = Threads
  BY DEF TypeOK, ListOK, ScanOK
<1>2. CASE UNCHANGED vars
  <2>1. UNCHANGED <<plan, listVars, scanVars, refVars>>
    BY <1>2 DEF vars
  <2>2. ListInv'
    BY <2>1, ListStays DEF listVars, scanVars
  <2>3. EndInv'
    BY <2>1 DEF listVars, scanVars, EndInv
  <2>4. ~undefined' => ReadInv'
    BY <1>1, <2>1, ReadKept DEF listVars, scanVars, refVars, Active
  <2> QED BY <2>2, <2>3, <2>4
<1>3. CASE Probed
  <2>1. UNCHANGED <<plan, listVars, handed_out, pc, idx, positions, output, failed,
                    undefined>>
        /\ lock = NoThread
    BY <1>3 DEF Probed, refVars
  <2>2. ListInv'
    BY <2>1, ListStays DEF listVars
  <2>3. EndInv'
    BY <2>1, FileListAssumption DEF listVars, EndInv, FileListAssumption
  <2>4. ~undefined' => ReadInv'
    BY <1>1, <2>1, ReadKept DEF listVars, Active
  <2> QED BY <2>2, <2>3, <2>4
<1>4. ASSUME NEW t \in Threads, Step(t)
      PROVE  ListInv' /\ EndInv' /\ (~undefined' => ReadInv')
  <2>1. CASE FetchFails(t) \/ MalformedReference(t) \/ ReadFails(t)
    BY <2>1 DEF FetchFails, MalformedReference, ReadFails, Raise
  <2>2. CASE Expand(t) \/ NothingLeft(t)
    <3>1. /\ UNCHANGED <<plan, expanded_files, remaining_tokens, token, handed_out,
                         idx, positions, output, failed, undefined>>
          /\ pc[t] \in {"next", "expand"}
          /\ \E l \in {"next", "done", "expand"} : pc' = [pc EXCEPT ![t] = l]
      BY <2>2 DEF Expand, NothingLeft, AfterFalse, refVars
    <3>2. ~undefined' => ReadInv'
      BY <1>1, <3>1, ReadKept DEF Active
    <3> QED
      BY <2>2, <3>1, <3>2, ListStays, ExpansionEnds
  <2>3. CASE TakeToken(t)
    <3>1. ~failed /\ token = <<>>
      BY <2>3 DEF TakeToken, EndInv
    <3>2. ListInv'
      <4>1. PICK D \in SUBSET Origins : TokensInv(D) /\ FilesInv(D)
        BY <3>1 DEF ListInv
      <4>2. TokensInv(D)' /\ FilesInv(D)'
        BY <2>3, <3>1, <4>1, TokenTaken
      <4> QED BY <4>2 DEF ListInv
    <3>3. ~undefined' => ReadInv'
      BY <1>1, <2>3, ReadKept DEF TakeToken, refVars, Active
    <3> QED
      BY <2>3, <3>1, <3>2, <3>3, ExpansionEnds
  <2>4. CASE FetchScanTasks(t)
    <3>1. ~failed
      BY <2>4 DEF FetchScanTasks
    <3>2. ListInv'
      <4>1. PICK D \in SUBSET Origins : TokensInv(D) /\ FilesInv(D)
        BY <3>1 DEF ListInv
      <4>2. PICK k : token = <<k>>
        BY <2>4 DEF FetchScanTasks, TypeOK, ListOK, ThreadsOK
      <4>3. /\ D \cup {k} \in SUBSET Origins
            /\ TokensInv(D \cup {k})' /\ FilesInv(D \cup {k})'
        BY <2>4, <4>1, <4>2, AnswerTaken
      <4> QED BY <4>3 DEF ListInv
    <3>3. ~undefined' => ReadInv'
      <4>1. /\ UNCHANGED <<plan, handed_out, idx, positions, output, undefined>>
            /\ pc[t] = "fetch"
            /\ \E l \in {"next", "expand"} : pc' = [pc EXCEPT ![t] = l]
        BY <2>4 DEF FetchScanTasks
      <4>2. /\ DOMAIN expanded_files \subseteq DOMAIN expanded_files'
            /\ DOMAIN expanded_files' \subseteq Nat \ {0}
            /\ \A i \in DOMAIN expanded_files : expanded_files'[i] = expanded_files[i]
        BY <1>1, <2>4, FetchGrows, LenProperties
      <4> QED
        BY <1>1, <3>1, <4>1, <4>2, ReadKept DEF Active
    <3> QED
      BY <2>4, <3>1, <3>2, <3>3, ExpansionEnds
  <2>5. CASE NextFile(t) \/ EndOfList(t) \/ Read(t)
             \/ GetDeleteFilesForFile(t) \/ BuildUCDeleteFilter(t)
    <3>1. /\ ~failed /\ (~undefined' => ~undefined)
          /\ UNCHANGED <<plan, expanded_files, remaining_tokens, token>>
      BY <2>5
      DEF NextFile, EndOfList, Read, GetDeleteFilesForFile, BuildUCDeleteFilter,
          Undefined, Raise, listVars, refVars
    <3>2. ListInv' /\ EndInv'
      BY <2>5, <3>1, ListStays, ScanEndsWell
    <3>3. ASSUME ~undefined' PROVE ReadInv'
      <4>1. ReadInv /\ ListedOnce
        BY <3>1, <3>3 DEF ListInv, FilesInv, ListedOnce
      <4>2. CASE EndOfList(t)
        BY <1>1, <4>1, <4>2, ReadKept DEF EndOfList, listVars, Active
      <4> QED
        BY <2>5, <3>1, <3>3, <4>1, <4>2, NextFileReads, FilterReads, FileRead
    <3> QED BY <3>2, <3>3
  <2> QED
    BY <1>4, <2>1, <2>2, <2>3, <2>4, <2>5 DEF Step
<1> QED
  BY <1>2, <1>3, <1>4 DEF Next

\* When everybody is done, every token has been exchanged and every file of the
\* plan has been given to somebody.
LEMMA AllIsTaken ==
  ASSUME TypeOK, WellPlanned(plan), ListInv, EndInv,
         \A t \in Threads : pc[t] = "done",
         NEW file \in Files, InPlan(file)
  PROVE  \E i \in DOMAIN expanded_files :
           expanded_files[i] = file /\ Rest(i) /\ i \in 1 .. handed_out
<1>1. PICK D \in SUBSET Origins : TokensInv(D) /\ FilesInv(D)
  BY DEF ListInv
<1>2. /\ remaining_tokens = <<>> /\ token = <<>>
      /\ handed_out = Len(expanded_files)
  BY DEF EndInv
<1>3. D = Origins
  <2>1. \A x : ~Waits(x)
    BY <1>2 DEF Waits
  <2>2. ASSUME NEW k \in D, NEW i \in DOMAIN plan[k].plan_tasks
        PROVE  plan[k].plan_tasks[i] \in D
    <3>1. plan[k].plan_tasks[i] \in Tasks
      <4>1. plan[k] \in Answers
        BY <1>1 DEF TypeOK, ListOK, Origins
      <4> QED BY <4>1, AnswerTasks
    <3> QED
      BY <1>1, <2>1, <3>1 DEF TokensInv, Brought
  <2> QED
    BY <1>1, <2>2 DEF WellPlanned, TokensInv
<1>4. PICK i \in DOMAIN expanded_files : expanded_files[i] = file
  BY <1>1, <1>3 DEF FilesInv, InPlan, Origins
<1>5. Rest(i) /\ i \in 1 .. handed_out
  BY <1>2 DEF Rest, Active, TypeOK, ListOK
<1> QED
  BY <1>4, <1>5

LEMMA AllIsRead ==
  ASSUME TypeOK, WellPlanned(plan), ListInv, EndInv, ReadInv
  PROVE  \A row \in Rows :
           /\ output[row] <= (IF Live(plan, row) THEN 1 ELSE 0)
           /\ (\A t \in Threads : pc[t] = "done") =>
                output[row] = (IF Live(plan, row) THEN 1 ELSE 0)
<1> SUFFICES ASSUME NEW row \in Rows
             PROVE  /\ output[row] <= (IF Live(plan, row) THEN 1 ELSE 0)
                    /\ (\A t \in Threads : pc[t] = "done") =>
                         output[row] = (IF Live(plan, row) THEN 1 ELSE 0)
  OBVIOUS
<1>1. output[row] =
        IF /\ \E i \in DOMAIN expanded_files : expanded_files[i] = row[1] /\ Rest(i)
           /\ Live(plan, row)
          THEN 1 ELSE 0
  BY DEF ReadInv
<1>2. ASSUME \A t \in Threads : pc[t] = "done", Live(plan, row)
      PROVE  \E i \in DOMAIN expanded_files : expanded_files[i] = row[1] /\ Rest(i)
  <2>1. InPlan(row[1]) /\ row[1] \in Files
    BY <1>2 DEF Live, InPlan, Rows
  <2> QED
    BY <1>2, <2>1, AllIsTaken
<1> QED
  BY <1>1, <1>2

ScanInv == TypeOK /\ ListsParallel /\ PlanInv

LEMMA ScanInvHolds ==
  ASSUME \A p \in Plans : WellPlanned(p)
  PROVE  Spec => []ScanInv
<1>1. Init => ScanInv
  BY InitialLists, InitialPlan DEF Init, ScanInv, PlanInv
<1>2. ScanInv /\ [Next]_vars => ScanInv'
  <2> SUFFICES ASSUME ScanInv, [Next]_vars PROVE ScanInv'
    OBVIOUS
  <2>1. TypeOK' /\ ListsParallel'
    BY NextKeepsLists DEF ScanInv
  <2>2. ~failed' => ListInv' /\ EndInv' /\ (~undefined' => ReadInv')
    BY PlanStep DEF ScanInv, PlanInv
  <2>3. plan' = plan
    BY DEF Next, Step, Probed, Expand, TakeToken, NothingLeft, FetchScanTasks,
           FetchFails, MalformedReference, NextFile, EndOfList,
           GetDeleteFilesForFile, BuildUCDeleteFilter, ReadFails, Read, vars
  <2> QED
    BY <2>1, <2>2, <2>3 DEF ScanInv, PlanInv
<1> QED
  BY <1>1, <1>2, PTL DEF Spec

\* Of a plan in which each file is in one task and every token can be reached, a
\* scan that succeeds returns every live row once and no other, for any number
\* of files, tokens and threads; until then it returns none twice.
THEOREM EveryRowOnce ==
  ASSUME \A p \in Plans : WellPlanned(p)
  PROVE  Spec => []ScanReturnsPlan
<1>1. ScanInv => ScanReturnsPlan
  BY AllIsRead DEF ScanInv, PlanInv, ScanReturnsPlan
<1> QED
  BY <1>1, ScanInvHolds, PTL

-----------------------------------------------------------------------------
(* The parallel scan that the query sees.                                  *)

Runs == ~failed /\ ~undefined

\* A scan that is done has no file left.
DoneInv == Status = "done" => Todo = {} /\ \A t \in Threads : Reading[t] = {}

\* What an invariant of the scan says of its files, as long as it has not failed.
RunsInv ==
  /\ TypeOK /\ WellPlanned(plan)
  /\ Runs => ListsParallel /\ ListInv /\ EndInv /\ ReadInv
  /\ DoneInv

LEMMA NothingLeftToDo ==
  ASSUME TypeOK, WellPlanned(plan), Runs => ListInv /\ EndInv
  PROVE  DoneInv
<1> SUFFICES ASSUME Status = "done"
             PROVE  Todo = {} /\ \A t \in Threads : Reading[t] = {}
  BY DEF DoneInv
<1>1. Runs /\ \A t \in Threads : pc[t] = "done"
  BY DEF Status, Runs
<1>2. ASSUME NEW file \in Files, InPlan(file)
      PROVE  \E i \in 1 .. handed_out : expanded_files[i] = file
  BY <1>1, <1>2, AllIsTaken
<1> QED
  BY <1>1, <1>2 DEF Todo, Reading, Active

\* Nothing that has been given to a thread changes, though the list may grow.
LEMMA MappingKept ==
  ASSUME TypeOK,
         UNCHANGED <<plan, handed_out, idx>>,
         \A i \in DOMAIN expanded_files : expanded_files'[i] = expanded_files[i],
         \A t \in Threads : Active(t)' => Active(t)
  PROVE  /\ Todo' = Todo
         /\ Reading' = [t \in Threads |-> IF Active(t)' THEN Reading[t] ELSE {}]
         /\ (\A t \in Threads : Active(t)' <=> Active(t)) => Reading' = Reading
<1>1. /\ DOMAIN expanded_files = 1 .. Len(expanded_files)
      /\ Len(expanded_files) \in Nat /\ handed_out \in 0 .. Len(expanded_files)
      /\ \A t \in Threads : Active(t) => idx[t] \in 1 .. handed_out
  BY DEF TypeOK, ListOK, ScanOK, ThreadsOK, Active
<1>2. \A i \in 1 .. handed_out : expanded_files'[i] = expanded_files[i]
  BY <1>1
<1>3. \A file : InPlan(file)' <=> InPlan(file)
  BY DEF InPlan
<1>4. Todo' = Todo
  BY <1>2, <1>3 DEF Todo
<1>5. \A t \in Threads : Active(t) => expanded_files'[idx[t]] = expanded_files[idx[t]]
  BY <1>1, <1>2
<1>6. Reading' = [t \in Threads |-> IF Active(t)' THEN Reading[t] ELSE {}]
  BY <1>5 DEF Reading
<1>7. ASSUME \A t \in Threads : Active(t)' <=> Active(t)
      PROVE  Reading' = Reading
  BY <1>5, <1>7 DEF Reading
<1> QED
  BY <1>4, <1>6, <1>7

\* The scan goes on, or ends.
LEMMA GoesOn ==
  ASSUME DoneInv', Runs, Runs', \E t \in Threads : pc[t] # "done",
         Todo' = Todo, Reading' = Reading, UNCHANGED <<plan, output>>
  PROVE  [Scan!PNext]_(Scan!pvars)
<1>1. Status = "running" /\ Status' \in {"running", "done"}
  BY DEF Status, Runs
<1>2. \A row : Live(plan', row) <=> Live(plan, row)
  OBVIOUS
<1>3. CASE Status' = "running"
  BY <1>1, <1>2, <1>3 DEF Scan!pvars
<1>4. CASE Status' = "done"
  <2>1. Todo = {} /\ \A t \in Threads : Reading[t] = {}
    BY <1>4 DEF DoneInv
  <2> QED
    BY <1>1, <1>2, <1>4, <2>1 DEF Scan!PNext, Scan!Finish
<1> QED
  BY <1>1, <1>3, <1>4

LEMMA StepOfOne ==
  ASSUME TypeOK, NEW t \in Threads, Step(t)
  PROVE  pc[t] # "done"
BY DEF Step, Expand, TakeToken, NothingLeft, FetchScanTasks, FetchFails,
       MalformedReference, NextFile, EndOfList, GetDeleteFilesForFile,
       BuildUCDeleteFilter, ReadFails, Read

LEMMA MalformedGrows ==
  ASSUME TypeOK, NEW t \in Threads, MalformedReference(t)
  PROVE  \A i \in DOMAIN expanded_files : expanded_files'[i] = expanded_files[i]
<1> DEFINE answer == plan[token[1]]
           tasks  == answer.file_scan_tasks
<1>1. answer \in Answers
  BY FetchType DEF MalformedReference
<1>2. PICK n \in DOMAIN tasks :
        /\ \A i \in 1 .. n - 1 : WellFormed(answer, tasks[i])
        /\ AddFileScanTasks(answer, n, n - 1)
  BY DEF MalformedReference
<1>3. tasks \in Seq(ScanTasks)
  BY <1>1, AnswerTasks
<1>4. n \in 0 .. Len(tasks) /\ n - 1 \in 0 .. n
  BY <1>2, <1>3
<1>5. \A i \in 1 .. Len(expanded_files) : expanded_files'[i] = expanded_files[i]
  BY <1>1, <1>2, <1>4, AddFileScanTasksGrows DEF TypeOK, ListOK, ThreadsOK
<1> QED
  BY <1>5 DEF TypeOK, ListOK

\* A thread raises an error, or uses a reference that was moved.
LEMMA GivesUp ==
  ASSUME TypeOK, Runs, ~Runs', NEW t \in Threads, Step(t)
  PROVE  Scan!Fail(t)
<1>1. /\ UNCHANGED <<plan, handed_out, idx, output>>
      /\ \/ \A u \in Threads : Active(u)' <=> Active(u)
         \/ ~Active(t)' /\ \A u \in Threads \ {t} : Active(u)' <=> Active(u)
      /\ UNCHANGED expanded_files \/ MalformedReference(t)
  <2>1. /\ DOMAIN pc = Threads
        /\ \A u \in Threads : Active(u) => ~probing
        /\ pc[t] \in {"expand", "fetch"} => ~Active(t)
    BY DEF TypeOK, ScanOK, ThreadsOK, Active
  <2>2. CASE FetchFails(t) \/ MalformedReference(t) \/ ReadFails(t)
    <3>1. UNCHANGED <<plan, handed_out, idx, output>>
      BY <2>2 DEF FetchFails, MalformedReference, ReadFails, listVars
    <3>2. UNCHANGED expanded_files \/ MalformedReference(t)
      BY <2>2 DEF FetchFails, ReadFails, listVars
    <3>3. Raise(t)
      BY <2>2 DEF FetchFails, MalformedReference, ReadFails
    <3> QED BY <2>1, <3>1, <3>2, <3>3 DEF Raise, Active
  <2>3. CASE GetDeleteFilesForFile(t) \/ BuildUCDeleteFilter(t)
    <3>1. /\ Undefined(t) /\ pc[t] \in {"open", "filter"}
          /\ UNCHANGED <<plan, handed_out, idx, output, expanded_files>>
      BY <2>3 DEF GetDeleteFilesForFile, BuildUCDeleteFilter, Runs, listVars
    <3> QED BY <2>1, <3>1 DEF Undefined, Raise, Active
  <2> QED
    BY <2>2, <2>3
    DEF Step, Runs, Expand, TakeToken, NothingLeft, FetchScanTasks, NextFile,
        EndOfList, Read, refVars
<1>2. \A i \in DOMAIN expanded_files : expanded_files'[i] = expanded_files[i]
  BY <1>1, MalformedGrows
<1>3. /\ Todo' = Todo
      /\ Reading' = [u \in Threads |-> IF Active(u)' THEN Reading[u] ELSE {}]
      /\ (\A u \in Threads : Active(u)' <=> Active(u)) => Reading' = Reading
  <2>1. \A u \in Threads : Active(u)' => Active(u)
    BY <1>1
  <2> QED BY <1>1, <1>2, <2>1, MappingKept
<1>4. Reading' \in {Reading, [Reading EXCEPT ![t] = {}]}
  <2>1. CASE ~Active(t)' /\ \A u \in Threads \ {t} : Active(u)' <=> Active(u)
    <3>1. Reading' = [Reading EXCEPT ![t] = {}]
      BY <1>3, <2>1 DEF Reading
    <3> QED BY <3>1
  <2> QED BY <1>1, <1>3, <2>1
<1>5. Status = "running" /\ Status' = "failed"
  BY StepOfOne DEF Status, Runs
<1>6. \A row : Live(plan', row) <=> Live(plan, row)
  BY <1>1
<1> QED
  BY <1>1, <1>3, <1>4, <1>5, <1>6 DEF Scan!Fail

\* A file is taken.
LEMMA FileTaken ==
  ASSUME TypeOK, ListInv, Runs, NEW t \in Threads, NextFile(t)
  PROVE  Scan!Take(t)
<1> DEFINE file == expanded_files[handed_out + 1]
<1>1. /\ DOMAIN expanded_files = 1 .. Len(expanded_files)
      /\ Len(expanded_files) \in Nat /\ handed_out \in Nat
      /\ handed_out + 1 \in DOMAIN expanded_files /\ file \in Files
      /\ DOMAIN pc = Threads /\ DOMAIN idx = Threads
  BY DEF TypeOK, ListOK, ScanOK, NextFile
<1>2. /\ pc[t] = "next" /\ handed_out' = handed_out + 1
      /\ idx' = [idx EXCEPT ![t] = handed_out + 1]
      /\ pc' = [pc EXCEPT ![t] = "open"]
      /\ UNCHANGED <<plan, expanded_files, output, failed, undefined>>
  BY DEF NextFile, listVars, refVars
<1>3. PICK D \in SUBSET Origins : FilesInv(D)
  BY DEF ListInv
<1>4. InPlan(file)
  BY <1>1, <1>3 DEF FilesInv, InPlan, Origins
<1>5. \A i \in 1 .. handed_out : expanded_files[i] # file
  BY <1>1, <1>3 DEF FilesInv
<1>6. file \in Todo
  BY <1>1, <1>4, <1>5 DEF Todo
<1>7. Todo' = Todo \ {file}
  <2>1. 1 .. handed_out' = (1 .. handed_out) \cup {handed_out + 1}
    BY <1>1, <1>2
  <2>2. \A f : InPlan(f)' <=> InPlan(f)
    BY <1>2 DEF InPlan
  <2> QED BY <1>2, <2>1, <2>2 DEF Todo
<1>8. Reading[t] = {} /\ Reading' = [Reading EXCEPT ![t] = {file}]
  BY <1>1, <1>2 DEF Reading, Active
<1>9. Status = "running" /\ Status' = "running"
  BY <1>1, <1>2 DEF Status, Runs
<1>10. \A row : Live(plan', row) <=> Live(plan, row)
  BY <1>2
<1> HIDE DEF file
<1> QED
  BY <1>2, <1>6, <1>7, <1>8, <1>9, <1>10 DEF Scan!Take

\* A file's rows are returned.
LEMMA FileReturned ==
  ASSUME TypeOK, ListsParallel, ReadInv, Runs, NEW t \in Threads, Read(t)
  PROVE  Scan!Return(t)
<1> DEFINE file == expanded_files[idx[t]]
<1>1. /\ pc[t] = "read" /\ Active(t) /\ pc' = [pc EXCEPT ![t] = "next"]
      /\ UNCHANGED <<plan, expanded_files, handed_out, idx, failed, undefined>>
      /\ DOMAIN pc = Threads
  BY DEF Read, Active, listVars, refVars, TypeOK, ScanOK
<1>2. ~Active(t)' /\ \A u \in Threads \ {t} : Active(u)' <=> Active(u)
  BY <1>1 DEF Active
<1>3. Todo' = Todo /\ Reading[t] = {file} /\ Reading' = [Reading EXCEPT ![t] = {}]
  <2>1. /\ Todo' = Todo
        /\ Reading' = [u \in Threads |-> IF Active(u)' THEN Reading[u] ELSE {}]
    BY <1>1, <1>2, MappingKept
  <2> QED BY <1>1, <1>2, <2>1 DEF Reading
<1>4. Returned(t) = {file} \X {n \in Positions : n \notin positions[t]}
  BY VectorsCoverFile DEF Returned
<1>5. ASSUME NEW row \in Rows
      PROVE  row \in Returned(t) <=> Live(plan, row) /\ row[1] \in {file}
  <2>1. row = <<row[1], row[2]>> /\ row[2] \in Positions
    BY DEF Rows
  <2>2. row \in Returned(t) <=> row[1] = file /\ row[2] \notin positions[t]
    BY <1>4, <2>1
  <2>3. row[2] \in positions[t] <=> ~Live(plan, <<file, row[2]>>)
    BY <1>1, <2>1 DEF ReadInv
  <2> QED BY <2>1, <2>2, <2>3
<1> HIDE DEF file
<1>6. output' = [r \in Rows |->
        output[r] + (IF r \in {row \in Rows : Live(plan, row)} /\ r[1] \in Reading[t]
                       THEN 1 ELSE 0)]
  BY <1>3, <1>5 DEF Read
<1>7. Status = "running" /\ Status' = "running"
  BY <1>1 DEF Status, Runs
<1>8. \A row : Live(plan', row) <=> Live(plan, row)
  BY <1>1
<1> QED
  BY <1>3, <1>6, <1>7, <1>8 DEF Scan!Return, Rows

LEMMA ScanStepRefined ==
  RunsInv /\ RunsInv' /\ [Next]_vars => [Scan!PNext]_(Scan!pvars)
<1> SUFFICES ASSUME RunsInv, RunsInv', [Next]_vars
             PROVE  [Scan!PNext]_(Scan!pvars)
  OBVIOUS
<1>1. plan' = plan
  BY DEF Next, Step, Probed, Expand, TakeToken, NothingLeft, FetchScanTasks,
         FetchFails, MalformedReference, NextFile, EndOfList,
         GetDeleteFilesForFile, BuildUCDeleteFilter, ReadFails, Read, vars
<1>2. \A row : Live(plan', row) <=> Live(plan, row)
  BY <1>1
<1>3. CASE ~Runs
  <2>1. ~Runs'
    BY <1>3
    DEF Runs, Next, Step, Probed, Expand, TakeToken, NothingLeft, FetchScanTasks,
        FetchFails, MalformedReference, NextFile, EndOfList, Raise, Undefined,
        GetDeleteFilesForFile, BuildUCDeleteFilter, ReadFails, Read, vars,
        scanVars, refVars
  <2>2. Status = "failed" /\ Status' = "failed"
    BY <1>3, <2>1 DEF Status, Runs
  <2> QED BY <1>2, <2>2 DEF Scan!PNext, Scan!Abandoned
<1>4. CASE Runs /\ (Probed \/ UNCHANGED vars)
  <2>1. UNCHANGED <<plan, handed_out, idx, expanded_files, pc, output, failed, undefined>>
    BY <1>4 DEF Probed, listVars, scanVars, refVars, vars
  <2>2. Todo' = Todo /\ Reading' = Reading /\ Status' = Status
    BY <2>1, MappingKept DEF Active, Status, RunsInv
  <2> QED BY <1>2, <2>1, <2>2 DEF Scan!pvars
<1>5. ASSUME Runs, NEW t \in Threads, Step(t)
      PROVE  [Scan!PNext]_(Scan!pvars)
  <2>1. /\ TypeOK /\ ListsParallel /\ ListInv /\ EndInv /\ ReadInv /\ DoneInv'
        /\ pc[t] # "done" /\ DOMAIN pc = Threads
    BY <1>5, StepOfOne DEF RunsInv, TypeOK, ScanOK
  <2>2. CASE ~Runs'
    BY <1>5, <2>1, <2>2, GivesUp DEF Scan!PNext
  <2>3. CASE NextFile(t)
    BY <1>5, <2>1, <2>3, FileTaken DEF Scan!PNext
  <2>4. CASE Read(t)
    BY <1>5, <2>1, <2>4, FileReturned DEF Scan!PNext
  <2>5. ASSUME Runs', UNCHANGED <<handed_out, idx, output>>,
               \A i \in DOMAIN expanded_files : expanded_files'[i] = expanded_files[i],
               \A u \in Threads : Active(u)' <=> Active(u)
        PROVE  [Scan!PNext]_(Scan!pvars)
    <3>1. Todo' = Todo /\ Reading' = Reading
      BY <1>1, <2>1, <2>5, MappingKept
    <3> QED BY <1>1, <1>5, <2>1, <2>5, <3>1, GoesOn
  <2>6. CASE Expand(t) \/ TakeToken(t) \/ NothingLeft(t) \/ EndOfList(t)
    <3>1. /\ UNCHANGED <<handed_out, idx, output, expanded_files, failed, undefined>>
          /\ pc[t] \in {"next", "expand"}
          /\ \E l \in {"next", "expand", "fetch", "done"} : pc' = [pc EXCEPT ![t] = l]
      BY <2>6 DEF Expand, TakeToken, NothingLeft, EndOfList, AfterFalse, listVars, refVars
    <3>2. Runs' /\ \A u \in Threads : Active(u)' <=> Active(u)
      BY <1>5, <2>1, <3>1 DEF Runs, Active
    <3> QED BY <2>5, <3>1, <3>2
  <2>7. CASE FetchScanTasks(t)
    <3>1. /\ UNCHANGED <<handed_out, idx, output, failed, undefined>>
          /\ pc[t] = "fetch"
          /\ \E l \in {"next", "expand"} : pc' = [pc EXCEPT ![t] = l]
      BY <2>7 DEF FetchScanTasks
    <3>2. Runs' /\ \A u \in Threads : Active(u)' <=> Active(u)
      BY <1>5, <2>1, <3>1 DEF Runs, Active
    <3>3. \A i \in DOMAIN expanded_files : expanded_files'[i] = expanded_files[i]
      BY <2>1, <2>7, FetchGrows DEF TypeOK, ListOK
    <3> QED BY <2>5, <3>1, <3>2, <3>3
  <2>8. CASE Runs' /\ (GetDeleteFilesForFile(t) \/ BuildUCDeleteFilter(t))
    <3>1. /\ UNCHANGED <<handed_out, idx, output, expanded_files>>
          /\ pc[t] \in {"open", "filter"}
          /\ \E l \in {"read", "filter"} : pc' = [pc EXCEPT ![t] = l]
      BY <2>8 DEF GetDeleteFilesForFile, BuildUCDeleteFilter, Undefined, Runs, listVars
    <3>2. \A u \in Threads : Active(u)' <=> Active(u)
      BY <2>1, <3>1 DEF Active
    <3> QED BY <2>5, <2>8, <3>1, <3>2
  <2>9. FetchFails(t) \/ MalformedReference(t) \/ ReadFails(t) => ~Runs'
    BY DEF FetchFails, MalformedReference, ReadFails, Raise, Runs
  <2> QED
    BY <1>5, <2>2, <2>3, <2>4, <2>6, <2>7, <2>8, <2>9 DEF Step
<1> QED
  BY <1>3, <1>4, <1>5 DEF Next

LEMMA InitialScan ==
  ASSUME Init
  PROVE  Scan!PInit
<1>1. Status = "running"
  BY DEF Init, Status
<1>2. Todo \in SUBSET Files
  BY DEF Todo
<1>3. {row \in Rows : Live(plan, row)} \in SUBSET (Todo \X Positions)
  <2>1. ASSUME NEW row \in Rows, Live(plan, row)
        PROVE  row \in Todo \X Positions
    <3>1. row[1] \in Files /\ row[2] \in Positions /\ row = <<row[1], row[2]>>
      BY DEF Rows
    <3>2. InPlan(row[1])
      BY <2>1 DEF Live, InPlan
    <3>3. 1 .. handed_out = {}
      BY DEF Init
    <3> QED BY <3>1, <3>2, <3>3 DEF Todo
  <2> QED BY <2>1
<1>4. Reading = [t \in Threads |-> {}]
  BY DEF Init, Reading, Active
<1> QED
  BY <1>1, <1>2, <1>3, <1>4 DEF Init, Scan!PInit, Rows

\* However the threads meet in the list, over its lock and the requests made
\* under it, what the query sees is a parallel scan: every file of the plan is
\* taken by one thread, its live rows are returned at once, and the scan is done
\* only when no file is left.
THEOREM ParallelScanIsImplemented ==
  ASSUME \A p \in Plans : WellPlanned(p)
  PROVE  Spec => ImplementsParallelScan
<1>1. ScanInv => RunsInv
  <2> SUFFICES ASSUME ScanInv PROVE RunsInv
    OBVIOUS
  <2>1. /\ TypeOK /\ ListsParallel /\ WellPlanned(plan)
        /\ Runs => ListInv /\ EndInv /\ ReadInv
    BY DEF ScanInv, PlanInv, Runs
  <2> QED
    BY <2>1, NothingLeftToDo DEF RunsInv
<1>2. Init => Scan!PInit
  BY InitialScan
<1>3. RunsInv /\ RunsInv' /\ [Next]_vars => [Scan!PNext]_(Scan!pvars)
  BY ScanStepRefined
<1> QED
  BY <1>1, <1>2, <1>3, ScanInvHolds, PTL DEF Spec, ImplementsParallelScan, Scan!PSpec
=============================================================================
