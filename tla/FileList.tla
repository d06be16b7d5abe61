------------------------------ MODULE FileList ------------------------------
(***************************************************************************)
(* One planned scan from its plan to its rows: the lazy file list          *)
(* (UCMultiFileList of src/src/uc_multi_file_list.cpp), the answers it     *)
(* exchanges plan tasks for (FetchScanTasks, ParseScanTasksPayload of      *)
(* src/src/uc_api.cpp), the delete filter of each file                     *)
(* (BuildUCDeleteFilter) and its use (UCPositionDeleteFilter).             *)
(*                                                                         *)
(* DuckDB's part is external: LazyMultiFileList calls ExpandNextPath under *)
(* a lock of its own and takes FALSE for the end, parquet's bind probes    *)
(* the list for a second file, and the scan hands each index to one of     *)
(* its threads.  FinalizeBind runs outside that lock.                      *)
(***************************************************************************)
EXTENDS Integers, Sequences

CONSTANTS
  Threads,    \* the threads of the scan
  NoThread,   \* nobody holds the lock of the list
  Files,      \* data files
  Tasks,      \* plan-task tokens
  Inline,     \* stands for the answer to /plan itself
  Vectors,    \* vectors of rows in a file
  VectorSize, \* rows in a vector
  Plans,      \* what the server may have planned: an answer for each token
  Failures    \* TRUE: requests and reads may fail

Positions == 0 .. Vectors * VectorSize - 1
Rows == Files \X Positions

\* A delete file: its kind, and the rows it deletes.  "positions" is a parquet
\* file of (file_path, pos), "vector" a deletion vector of one data file.
Kinds == {"positions", "vector", "equality"}
DeleteFiles == [kind : Kinds, rows : SUBSET Rows]

\* UCScanPlanResult: references count from 0 in the answer's own delete files.
Answers == [delete_files : Seq(DeleteFiles),
            file_scan_tasks : Seq([file : Files, refs : Seq(Nat)]),
            plan_tasks : Seq(Tasks)]

ASSUME FileListAssumption ==
  /\ NoThread \notin Threads
  /\ Inline \notin Tasks
  /\ Vectors \in Nat /\ VectorSize \in Nat
  /\ Failures \in BOOLEAN
  /\ \A p \in Plans : p \in [Tasks \cup {Inline} -> Answers]

VARIABLES
  plan,               \* server: what it planned
  expanded_files,     \* the list
  file_deletes,       \* the delete files of each
  remaining_tokens,   \* plan tasks not exchanged yet
  all_files_expanded, \* LazyMultiFileList: ExpandNextPath returned FALSE
  lock,               \* LazyMultiFileList: who expands
  token,              \* the plan task being exchanged, a sequence of 0 or 1
  probing,            \* parquet's bind has not seen enough files yet
  handed_out,         \* how many files the scan has given to threads
  pc,                 \* where each thread is
  idx,                \* the file it reads
  positions,          \* the deleted positions of that file
  output,             \* how often each row was returned
  failed,             \* a thread has raised an error
  moved,              \* threads whose delete files were moved under them
  undefined           \* ghost: somebody used such a reference, or none at all

listVars == <<expanded_files, file_deletes, remaining_tokens,
              all_files_expanded, lock, token>>
scanVars == <<probing, handed_out, pc, idx, positions, output, failed>>
refVars  == <<moved, undefined>>
vars == <<plan, listVars, scanVars, refVars>>

-----------------------------------------------------------------------------
(* Answers.                                                                *)

WellFormed(answer, task) ==
  \A i \in DOMAIN task.refs : task.refs[i] < Len(answer.delete_files)

Resolve(answer, task) ==
  [i \in DOMAIN task.refs |-> answer.delete_files[task.refs[i] + 1]]

DataFiles(tasks) == [i \in DOMAIN tasks |-> tasks[i].file]

\* Mutant: a file without deletes gets no entry.
ResolveAllSparse(answer, tasks) ==
  SelectSeq([i \in DOMAIN tasks |-> Resolve(answer, tasks[i])],
            LAMBDA deletes : deletes # <<>>)

\* The delete files of each task, in the order of the tasks.
ResolveAll(answer, tasks) ==
  [i \in DOMAIN tasks |-> Resolve(answer, tasks[i])]

AllWellFormed(answer) ==
  \A i \in DOMAIN answer.file_scan_tasks :
    WellFormed(answer, answer.file_scan_tasks[i])

\* The constructor takes the files and tokens of the inline answer.  (One it
\* cannot take throws, and there is no scan.)  DuckDB starts as many threads as
\* it sees fit.
Init ==
  /\ plan \in Plans
  /\ AllWellFormed(plan[Inline])
  /\ expanded_files = DataFiles(plan[Inline].file_scan_tasks)
  /\ file_deletes = ResolveAll(plan[Inline], plan[Inline].file_scan_tasks)
  /\ remaining_tokens = plan[Inline].plan_tasks
  /\ all_files_expanded = (plan[Inline].plan_tasks = <<>>)
  /\ lock = NoThread
  /\ token = <<>>
  /\ probing = TRUE
  /\ handed_out = 0
  /\ pc \in [Threads -> {"next", "done"}]
  /\ \E t \in Threads : pc[t] = "next"
  /\ idx = [t \in Threads |-> 0]
  /\ positions = [t \in Threads |-> {}]
  /\ output = [r \in Rows |-> 0]
  /\ failed = FALSE
  /\ moved = {}
  /\ undefined = FALSE

-----------------------------------------------------------------------------
(* ExpandNextPath, under the lock of LazyMultiFileList.                    *)

\* The next file is asked for and the list is too short.
Expand(t) ==
  /\ pc[t] = "next"
  /\ lock = NoThread
  /\ ~all_files_expanded
  /\ Len(expanded_files) < (IF probing THEN 2 ELSE handed_out + 1)
  /\ lock' = t
  /\ pc' = [pc EXCEPT ![t] = "expand"]
  /\ UNCHANGED <<plan, expanded_files, file_deletes, remaining_tokens,
                 all_files_expanded, token, probing, handed_out, idx,
                 positions, output, failed, refVars>>

TakeToken(t) ==
  /\ pc[t] = "expand"
  /\ remaining_tokens # <<>>
  /\ token' = <<Head(remaining_tokens)>>
  /\ remaining_tokens' = Tail(remaining_tokens)
  /\ pc' = [pc EXCEPT ![t] = "fetch"]
  /\ UNCHANGED <<plan, expanded_files, file_deletes, all_files_expanded, lock,
                 probing, handed_out, idx, positions, output, failed, refVars>>

\* What a thread does after ExpandNextPath returned FALSE: MultiFileList::Scan
\* takes it for the end of the list.
AfterFalse == IF probing THEN "next" ELSE "done"

\* ExpandNextPath returns FALSE, which its caller remembers.
NothingLeft(t) ==
  /\ pc[t] = "expand"
  /\ remaining_tokens = <<>>
  /\ all_files_expanded' = TRUE
  /\ lock' = NoThread
  /\ pc' = [pc EXCEPT ![t] = AfterFalse]
  /\ UNCHANGED <<plan, expanded_files, file_deletes, remaining_tokens, token,
                 probing, handed_out, idx, positions, output, failed, refVars>>

\* Adding to file_deletes may move its elements, under the references that
\* FinalizeBind holds outside the lock.
MayMove ==
  \/ moved' = moved
  \/ moved' = moved \cup {t \in Threads : pc[t] = "filter"}

\* AddFileScanTask for the tasks of the answer: the first n get to the list, the
\* first m with their delete files.  The lock is given back.
AddFileScanTasks(answer, n, m) ==
  LET tasks == answer.file_scan_tasks
  IN  /\ expanded_files' = expanded_files \o DataFiles(SubSeq(tasks, 1, n))
      /\ file_deletes' =
           file_deletes \o ResolveAll(answer, SubSeq(tasks, 1, m))
      /\ MayMove
      /\ lock' = NoThread

\* Mutant: what is returned is "tokens remain", not "a file was added".
FetchScanTasksTokensRemain(t) ==
  LET answer == plan[token[1]]
      added  == Len(answer.file_scan_tasks)
  IN  /\ pc[t] = "fetch"
      /\ AllWellFormed(answer)
      /\ remaining_tokens' = remaining_tokens \o answer.plan_tasks
      /\ token' = <<>>
      /\ AddFileScanTasks(answer, added, added)
      /\ all_files_expanded' = (remaining_tokens' = <<>>)
      /\ pc' = [pc EXCEPT ![t] = IF remaining_tokens' = <<>> THEN AfterFalse
                                                            ELSE "next"]
      /\ UNCHANGED <<plan, probing, handed_out, idx, positions, output, failed,
                     undefined>>

\* Mutant: a task that brings no files is put back.
FetchScanTasksAgain(t) ==
  LET answer == plan[token[1]]
      added  == Len(answer.file_scan_tasks)
  IN  /\ pc[t] = "fetch"
      /\ AllWellFormed(answer)
      /\ token' = <<>>
      /\ IF added = 0
           THEN /\ remaining_tokens' = remaining_tokens \o token
                /\ pc' = [pc EXCEPT ![t] = "expand"]
                /\ UNCHANGED <<expanded_files, file_deletes, lock, moved>>
           ELSE /\ remaining_tokens' = remaining_tokens \o answer.plan_tasks
                /\ AddFileScanTasks(answer, added, added)
                /\ pc' = [pc EXCEPT ![t] = "next"]
      /\ UNCHANGED <<plan, all_files_expanded, probing, handed_out, idx,
                     positions, output, failed, undefined>>

\* FetchScanTasks answers.  The new tokens are queued; with no files among
\* them the loop goes on, else ExpandNextPath returns TRUE.
FetchScanTasks(t) ==
  LET answer == plan[token[1]]
      added  == Len(answer.file_scan_tasks)
  IN  /\ pc[t] = "fetch"
      /\ AllWellFormed(answer)
      /\ remaining_tokens' = remaining_tokens \o answer.plan_tasks
      /\ token' = <<>>
      /\ IF added = 0
           THEN /\ pc' = [pc EXCEPT ![t] = "expand"]
                /\ UNCHANGED <<expanded_files, file_deletes, lock, moved>>
           ELSE /\ AddFileScanTasks(answer, added, added)
                /\ pc' = [pc EXCEPT ![t] = "next"]
      /\ UNCHANGED <<plan, all_files_expanded, probing, handed_out, idx,
                     positions, output, failed, undefined>>

\* An error is raised: the query will report it, though other threads may run on.
\* While the bind probes there are none.
Raise(t) ==
  /\ pc' = IF probing THEN [u \in Threads |-> "error"]
                      ELSE [pc EXCEPT ![t] = "error"]
  /\ failed' = TRUE

\* Mutant: the lock outlives the exception.
FetchFailsLocked(t) ==
  /\ Failures
  /\ pc[t] = "fetch"
  /\ token' = <<>>
  /\ Raise(t)
  /\ UNCHANGED <<plan, expanded_files, file_deletes, remaining_tokens,
                 all_files_expanded, lock, probing, handed_out, idx, positions,
                 output, refVars>>

\* The request fails, the query is cancelled, or the answer does not parse.  The
\* token is not put back.
FetchFails(t) ==
  /\ Failures
  /\ pc[t] = "fetch"
  /\ token' = <<>>
  /\ lock' = NoThread
  /\ Raise(t)
  /\ UNCHANGED <<plan, expanded_files, file_deletes, remaining_tokens,
                 all_files_expanded, probing, handed_out, idx, positions,
                 output, refVars>>

\* A task refers to a delete file that the answer does not have: its file is in
\* the list already, its delete files never will be.
MalformedReference(t) ==
  LET answer == plan[token[1]]
      tasks  == answer.file_scan_tasks
  IN  /\ pc[t] = "fetch"
      /\ remaining_tokens' = remaining_tokens \o answer.plan_tasks
      /\ \E n \in DOMAIN tasks :
           /\ ~WellFormed(answer, tasks[n])
           /\ \A i \in 1 .. n - 1 : WellFormed(answer, tasks[i])
           /\ AddFileScanTasks(answer, n, n - 1)
      /\ token' = <<>>
      /\ Raise(t)
      /\ UNCHANGED <<plan, all_files_expanded, probing, handed_out, idx,
                     positions, output, undefined>>

-----------------------------------------------------------------------------
(* The bind and the scan of parquet (external).                            *)

Probed ==
  /\ probing
  /\ lock = NoThread
  /\ Len(expanded_files) >= 2 \/ all_files_expanded
  /\ probing' = FALSE
  /\ UNCHANGED <<plan, listVars, handed_out, pc, idx, positions, output, failed,
                 refVars>>

NextFile(t) ==
  /\ pc[t] = "next"
  /\ lock = NoThread
  /\ ~probing
  /\ handed_out < Len(expanded_files)
  /\ handed_out' = handed_out + 1
  /\ idx' = [idx EXCEPT ![t] = handed_out + 1]
  /\ pc' = [pc EXCEPT ![t] = "open"]
  /\ UNCHANGED <<plan, listVars, probing, positions, output, failed, refVars>>

EndOfList(t) ==
  /\ pc[t] = "next"
  /\ lock = NoThread
  /\ ~probing
  /\ all_files_expanded
  /\ handed_out >= Len(expanded_files)
  /\ pc' = [pc EXCEPT ![t] = "done"]
  /\ UNCHANGED <<plan, listVars, probing, handed_out, idx, positions, output,
                 failed, refVars>>

-----------------------------------------------------------------------------
(* FinalizeBind: the delete filter of a file, outside the lock.            *)

\* ScanPositionalDeleteFile keeps the positions of this data file;
\* ScanDeletionVectorFile has those of one file only.
PositionsOf(d, file) ==
  {r[2] : r \in {x \in d.rows : d.kind = "vector" \/ x[1] = file}}

DeletedPositions(deletes, file) ==
  UNION {PositionsOf(deletes[i], file) : i \in DOMAIN deletes}

Unsupported(deletes) == \E i \in DOMAIN deletes : deletes[i].kind = "equality"

\* The build does what it likes: any filter, or none, or an error.
Undefined(t) ==
  /\ undefined' = TRUE
  /\ \E ps \in SUBSET Positions : positions' = [positions EXCEPT ![t] = ps]
  /\ \/ pc' = [pc EXCEPT ![t] = "read"] /\ UNCHANGED failed
     \/ Raise(t)

\* GetDeleteFilesForFile gives a reference, past the end if the file was added
\* without its delete files.
GetDeleteFilesForFile(t) ==
  /\ pc[t] = "open"
  /\ IF idx[t] \notin DOMAIN file_deletes
       THEN Undefined(t)
       ELSE /\ positions' = [positions EXCEPT ![t] = {}]
            /\ pc' = [pc EXCEPT ![t] = IF file_deletes[idx[t]] = <<>>
                                        THEN "read" ELSE "filter"]
            /\ UNCHANGED <<failed, undefined>>
  /\ UNCHANGED <<plan, listVars, probing, handed_out, idx, output, moved>>

\* BuildUCDeleteFilter reads the delete files through the reference.
BuildUCDeleteFilter(t) ==
  /\ pc[t] = "filter"
  /\ IF t \in moved
       THEN Undefined(t)
       ELSE /\ ~Unsupported(file_deletes[idx[t]])
            /\ positions' = [positions EXCEPT ![t] =
                 DeletedPositions(file_deletes[idx[t]], expanded_files[idx[t]])]
            /\ pc' = [pc EXCEPT ![t] = "read"]
            /\ UNCHANGED <<failed, undefined>>
  /\ moved' = moved \ {t}
  /\ UNCHANGED <<plan, listVars, probing, handed_out, idx, output>>

\* Equality deletes are refused; a delete file or the data file cannot be read.
ReadFails(t) ==
  /\ \/ pc[t] = "filter" /\ t \notin moved /\ Unsupported(file_deletes[idx[t]])
     \/ Failures /\ pc[t] \in {"filter", "read"}
  /\ Raise(t)
  /\ moved' = moved \ {t}
  /\ UNCHANGED <<plan, listVars, probing, handed_out, idx, positions, output,
                 undefined>>

\* Mutant: deleted positions are taken for those of the vector.
FilterWithinVector(deleted, start) ==
  {start + i : i \in {j \in 0 .. VectorSize - 1 : j \notin deleted}}

\* UCPositionDeleteFilter::Filter: what is kept of the vector at start.
Filter(deleted, start) ==
  {start + i : i \in {j \in 0 .. VectorSize - 1 : start + j \notin deleted}}

Returned(t) ==
  {expanded_files[idx[t]]} \X
    UNION {Filter(positions[t], v * VectorSize) : v \in 0 .. Vectors - 1}

Read(t) ==
  /\ pc[t] = "read"
  /\ output' = [r \in Rows |-> output[r] + (IF r \in Returned(t) THEN 1 ELSE 0)]
  /\ pc' = [pc EXCEPT ![t] = "next"]
  /\ UNCHANGED <<plan, listVars, probing, handed_out, idx, positions, failed,
                 refVars>>

Step(t) ==
  \/ Expand(t) \/ TakeToken(t) \/ NothingLeft(t)
  \/ FetchScanTasks(t) \/ FetchFails(t) \/ MalformedReference(t)
  \/ NextFile(t) \/ EndOfList(t)
  \/ GetDeleteFilesForFile(t) \/ BuildUCDeleteFilter(t) \/ ReadFails(t)
  \/ Read(t)

Next == Probed \/ \E t \in Threads : Step(t)

Spec == Init /\ [][Next]_vars

\* The threads run, and their requests return.
FairSpec == Spec /\ WF_vars(Probed) /\ \A t \in Threads : WF_vars(Step(t))

-----------------------------------------------------------------------------
(* Properties.                                                             *)

ListOK ==
  /\ plan \in [Tasks \cup {Inline} -> Answers]
  /\ expanded_files \in Seq(Files)
  /\ file_deletes \in Seq(Seq(DeleteFiles))
  /\ remaining_tokens \in Seq(Tasks)
  /\ all_files_expanded \in BOOLEAN
  /\ token \in {<<>>} \cup {<<k>> : k \in Tasks}

ScanOK ==
  /\ probing \in BOOLEAN
  /\ handed_out \in 0 .. Len(expanded_files)
  /\ pc \in [Threads -> {"next", "expand", "fetch", "open", "filter", "read",
                         "done", "error"}]
  /\ idx \in [Threads -> Nat]
  /\ positions \in [Threads -> SUBSET Positions]
  /\ output \in [Rows -> Nat]
  /\ failed \in BOOLEAN
  /\ undefined \in BOOLEAN

\* Who holds the lock, and what each thread has in hand
ThreadsOK ==
  /\ lock \in Threads \cup {NoThread}
  /\ moved \subseteq {t \in Threads : pc[t] = "filter"}
  /\ \A t \in Threads :
       /\ pc[t] \in {"expand", "fetch"} <=> lock = t
       /\ pc[t] = "fetch" => token # <<>>
       /\ pc[t] \in {"open", "filter", "read"} =>
            ~probing /\ idx[t] \in 1 .. handed_out
       /\ pc[t] = "filter" => idx[t] \in DOMAIN file_deletes

TypeOK == ListOK /\ ScanOK /\ ThreadsOK

\* An answer of plan p brings the file with these delete files.
Planned(p, file, deletes) ==
  \E k \in Tasks \cup {Inline} : \E i \in DOMAIN p[k].file_scan_tasks :
    LET task == p[k].file_scan_tasks[i]
    IN  /\ task.file = file
        /\ WellFormed(p[k], task)
        /\ Resolve(p[k], task) = deletes

\* "Parallel to expanded_files; file_deletes[i] is expanded_files[i]'s deletes",
\* which refer to the delete files of the answer that brought the file.  Only a
\* scan that has failed, on an answer that broke off, may be out of step.
ListsParallel ==
  ~failed =>
    /\ Len(file_deletes) = Len(expanded_files)
    /\ \A i \in DOMAIN expanded_files :
         Planned(plan, expanded_files[i], file_deletes[i])

\* A row that plan p leaves: its file is planned, and no delete file of the task
\* names it.
Live(p, row) ==
  \E k \in Tasks \cup {Inline} : \E i \in DOMAIN p[k].file_scan_tasks :
    LET task == p[k].file_scan_tasks[i]
    IN  /\ task.file = row[1]
        /\ WellFormed(p[k], task)
        /\ \A j \in DOMAIN task.refs :
             row \notin Resolve(p[k], task)[j].rows

\* A scan that succeeds returns each live row of the plan once and no other,
\* however tokens, files and threads meet; until then it returns none twice and
\* none that is deleted.  References that were moved are the exception.
ScanReturnsPlan ==
  (~failed /\ ~undefined) =>
    \A row \in Rows :
      /\ output[row] <= (IF Live(plan, row) THEN 1 ELSE 0)
      /\ (\A t \in Threads : pc[t] = "done") =>
           output[row] = (IF Live(plan, row) THEN 1 ELSE 0)

\* The files that nobody has been given yet, and the one that each thread reads
InPlan(file) ==
  \E k \in Tasks \cup {Inline} : \E i \in DOMAIN plan[k].file_scan_tasks :
    plan[k].file_scan_tasks[i].file = file

Todo == {file \in Files : InPlan(file)} \ {expanded_files[i] : i \in 1 .. handed_out}

Active(t) == pc[t] \in {"open", "filter", "read"}

Reading == [t \in Threads |-> IF Active(t) THEN {expanded_files[idx[t]]} ELSE {}]

Status == IF failed \/ undefined THEN "failed"
          ELSE IF \A t \in Threads : pc[t] = "done" THEN "done" ELSE "running"

\* The list is expanded by whichever thread finds it too short, its lock is given
\* back while files are read, and their delete files come with the answers: what
\* the query sees of it is a parallel scan of the plan's files, each taken by one
\* thread, which returns the rows that the plan leaves of it.
Scan == INSTANCE ParallelScan WITH
  Readers <- Threads, status <- Status, todo <- Todo, reading <- Reading,
  live <- {row \in Rows : Live(plan, row)}
ImplementsParallelScan == Scan!PSpec

\* Every scan of a finite plan ends, with its rows or an error.
ScanEnds == <>(\A t \in Threads : pc[t] \in {"done", "error"})

-----------------------------------------------------------------------------
(* Inductive invariants.                                                   *)

Origins == Tasks \cup {Inline}

\* A plan as a server makes one: a file is in one task, a token in one answer,
\* all tokens can be reached, and a deletion vector is of its file.
WellPlanned(p) ==
  /\ \A k, l \in Origins :
       /\ \A i \in DOMAIN p[k].file_scan_tasks, j \in DOMAIN p[l].file_scan_tasks :
            p[k].file_scan_tasks[i].file = p[l].file_scan_tasks[j].file
              => k = l /\ i = j
       /\ \A i \in DOMAIN p[k].plan_tasks, j \in DOMAIN p[l].plan_tasks :
            p[k].plan_tasks[i] = p[l].plan_tasks[j] => k = l /\ i = j
  /\ \A D \in SUBSET Origins :
       Inline \in D
       /\ (\A k \in D : \A i \in DOMAIN p[k].plan_tasks : p[k].plan_tasks[i] \in D)
         => D = Origins
  /\ \A k \in Origins : \A i \in DOMAIN p[k].file_scan_tasks :
       LET task == p[k].file_scan_tasks[i]
       IN  WellFormed(p[k], task) =>
             \A j \in DOMAIN task.refs :
               Resolve(p[k], task)[j].kind = "vector" =>
                 \A r \in Resolve(p[k], task)[j].rows : r[1] = task.file

\* x is queued, or being exchanged.
Waits(x) ==
  \/ \E i \in DOMAIN remaining_tokens : remaining_tokens[i] = x
  \/ token = <<x>>

Brought(D, x) ==
  \E k \in D : \E i \in DOMAIN plan[k].plan_tasks : plan[k].plan_tasks[i] = x

\* D are the answers that the list has taken: what they bring has been
\* exchanged, or waits to be, once.
TokensInv(D) ==
  /\ D \subseteq Origins /\ Inline \in D
  /\ \A x \in Tasks :
       /\ Brought(D, x) <=> x \in D \/ Waits(x)
       /\ ~(x \in D /\ Waits(x))
  /\ \A i, j \in DOMAIN remaining_tokens :
       /\ remaining_tokens[i] = remaining_tokens[j] => i = j
       /\ token # <<remaining_tokens[i]>>

\* Their files are the list, each once.
FilesInv(D) ==
  /\ \A i, j \in DOMAIN expanded_files :
       expanded_files[i] = expanded_files[j] => i = j
  /\ \A file \in Files :
       (\E i \in DOMAIN expanded_files : expanded_files[i] = file) <=>
         \E k \in D : \E i \in DOMAIN plan[k].file_scan_tasks :
           plan[k].file_scan_tasks[i].file = file

Rest(i) == i <= handed_out /\ \A t \in Threads : ~(Active(t) /\ idx[t] = i)

\* A file has been read by one thread, or by none yet.
ReadInv ==
  /\ \A t, u \in Threads : Active(t) /\ Active(u) /\ idx[t] = idx[u] => t = u
  /\ \A row \in Rows :
       output[row] =
         IF /\ \E i \in DOMAIN expanded_files : expanded_files[i] = row[1] /\ Rest(i)
            /\ Live(plan, row)
           THEN 1 ELSE 0
  /\ \A t \in Threads : pc[t] = "read" =>
       \A p \in Positions :
         p \in positions[t] <=> ~Live(plan, <<expanded_files[idx[t]], p>>)

\* Nobody stops before the end of the list.
EndInv ==
  /\ \A t \in Threads : pc[t] # "error"
  /\ lock = NoThread => token = <<>>
  /\ \A t \in Threads :
       /\ pc[t] = "expand" => token = <<>>
       /\ lock = t /\ ~probing => handed_out = Len(expanded_files)
  /\ all_files_expanded => remaining_tokens = <<>> /\ token = <<>>
  /\ (\A t \in Threads : pc[t] = "done") =>
       all_files_expanded /\ handed_out = Len(expanded_files)
=============================================================================
