----------------------------- MODULE PlannedScan -----------------------------
(***************************************************************************)
(* One query over a planned scan, from its predicates to its rows: the     *)
(* optimizer hands the predicates over (UCScanPlanPushdownFilter of        *)
(* src/src/storage/uc_table_entry.cpp), FilterExpression translates them,  *)
(* the server leaves out files by the translation, DeletionVector decodes  *)
(* what is deleted of a file (ScanDeletionVectorFile of                    *)
(* src/src/uc_multi_file_list.cpp), and DuckDB applies the predicates to   *)
(* the rows that are left.  It may be executed again, on a table that has  *)
(* changed.  uc_read_deletion_vector                                       *)
(* (src/src/functions/uc_deletion_vector.cpp) reads the same vector.       *)
(*                                                                         *)
(* FileList has the files and threads of such a scan, ScanPlanGate the     *)
(* failures of its /plan call; here each is one step that succeeds.        *)
(***************************************************************************)
EXTENDS FilterExpression, DeletionVector

CONSTANTS
  Files,      \* data files
  Marked,     \* the one with a deletion vector
  Positions,  \* rows of a file
  Data,       \* their values
  Tables,     \* the versions that a table goes through, for each table
  Cases       \* queries, each with a table

Rows == Files \X Positions

\* A version: the positions deleted of Marked, the blob that says so (<<>>: no
\* delete file), the Puffin file, and the positions that all its blobs mark.
\* What is stored may be damaged.
ASSUME PlannedScanAssumption ==
  /\ Marked \in Files
  /\ Data \in [Rows -> RowValues]
  /\ Cases \subseteq Seq(Expressions) \X DOMAIN Tables
  /\ \A t \in DOMAIN Tables :
       /\ Len(Tables[t]) \in Nat \ {0}
       /\ DOMAIN Tables[t] = 1 .. Len(Tables[t])
       /\ \A v \in DOMAIN Tables[t] :
            /\ Tables[t][v].deleted \subseteq Positions
            /\ Tables[t][v].blob = <<>> => Tables[t][v].deleted = {}
            /\ IsBuffer(Tables[t][v].blob) /\ IsBuffer(Tables[t][v].puffin)

\* No damage escapes a checksum: a body followed by its own is one that a writer
\* made of what is deleted.
ASSUME StoredAssumption ==
  \A t \in DOMAIN Tables : \A v \in DOMAIN Tables[t] :
    /\ SectionOf(Tables[t][v].blob, Tables[t][v].deleted)
    /\ FileOf(Tables[t][v].puffin, Tables[t][v].all_deleted)

VARIABLES
  filters,      \* the predicates of the query
  table,        \* the table
  version,      \* which version the table has
  pc,           \* where the query is
  filter_json,  \* bind data: the translated predicates
  calls,        \* how often the optimizer has called for pushdown
  planned,      \* the files of the plan
  output,       \* the rows returned
  live,         \* ghost: rows of the table when it was planned
  marked        \* ghost: positions that the vector being read stands for

scanVars == <<filters, table, version, pc, filter_json, calls, planned,
              output, live, marked>>
vars == <<scanVars, dvVars>>

stored == Tables[table][version]

LiveRows == {r \in Rows : ~(r[1] = Marked /\ r[2] \in stored.deleted)}

Init ==
  /\ \E c \in Cases : filters = c[1] /\ table = c[2]
  /\ version = 1
  /\ pc = "optimize"
  /\ filter_json = {}
  /\ calls = 0
  /\ planned = {} /\ output = {} /\ live = {} /\ marked = {}
  /\ Idle

-----------------------------------------------------------------------------
(* Planning the query.                                                     *)

\* Mutant: a call without predicates is serialized as well.
PushdownFilterAlways(fs) ==
  /\ filter_json' = IF SerializeThrows(fs) THEN {}
                                           ELSE SerializeFiltersToIRC(fs)
  /\ UNCHANGED <<filters, table, version, pc, planned, output, live, marked, dvVars>>

\* A call without predicates brings nothing; an exception drops the filter.
PushdownFilter(fs) ==
  /\ filter_json' = CASE fs = <<>> -> filter_json
                      [] fs # <<>> /\ SerializeThrows(fs) -> {}
                      [] OTHER -> SerializeFiltersToIRC(fs)
  /\ UNCHANGED <<filters, table, version, pc, planned, output, live, marked, dvVars>>

\* The optimizer calls with the predicates, and again with none once they have
\* become table filters; or not at all.
Optimize ==
  /\ pc = "optimize"
  /\ calls < 2
  /\ PushdownFilter(IF calls = 0 THEN filters ELSE <<>>)
  /\ calls' = calls + 1

Bound ==
  /\ pc = "optimize"
  /\ pc' = "bound"
  /\ UNCHANGED <<filters, table, version, filter_json, calls, planned, output, live,
                 marked, dvVars>>

-----------------------------------------------------------------------------
(* Execution.                                                              *)

\* Files that the server must plan.
Needed == {r[1] : r \in {x \in LiveRows : MatchesFilter(filter_json, Data[x])}}

\* Mutant: a plan is kept with the query and used again.
InitGlobalKeepsPlan ==
  /\ pc = "bound"
  /\ live' = LiveRows
  /\ IF planned # {}
       THEN /\ pc' = "scan"
            /\ UNCHANGED <<planned, marked, dvVars>>
       ELSE /\ planned' \in {S \in SUBSET Files : Needed \subseteq S}
            /\ marked' = stored.deleted
            /\ IF Marked \in planned' /\ stored.blob # <<>>
                 THEN pc' = "filter" /\ ReadSection(stored.blob)
                 ELSE pc' = "scan" /\ Reset
  /\ UNCHANGED <<filters, table, version, filter_json, calls, output>>

\* UCScanPlanInitGlobal: the scan is planned, whenever it is executed, and the
\* file with a vector, if planned, gets its delete filter.
InitGlobal ==
  /\ pc = "bound"
  /\ planned' \in {S \in SUBSET Files : Needed \subseteq S}
  /\ live' = LiveRows
  /\ marked' = stored.deleted
  /\ IF Marked \in planned' /\ stored.blob # <<>>
       THEN /\ pc' = "filter"
            /\ ReadSection(stored.blob)
       ELSE /\ pc' = "scan"
            /\ Reset
  /\ UNCHANGED <<filters, table, version, filter_json, calls, output>>

\* The reader of the vector, for the scan and for the function.
Read ==
  /\ pc \in {"filter", "function"}
  /\ Decode
  /\ UNCHANGED scanVars

\* ScanDeletionVectorFile rethrows, and the query fails.
FilterFails ==
  /\ pc = "filter"
  /\ dv = "error"
  /\ pc' = "failed"
  /\ UNCHANGED <<filters, table, version, filter_json, calls, planned, output, live,
                 marked, dvVars>>

FilterBuilt ==
  /\ pc = "filter"
  /\ dv = "done"
  /\ pc' = "scan"
  /\ UNCHANGED <<filters, table, version, filter_json, calls, planned, output, live,
                 marked, dvVars>>

Scan ==
  /\ pc = "scan"
  /\ output' = {r \in planned \X Positions :
                  /\ ~(r[1] = Marked /\ r[2] \in positions)
                  /\ Accepts(filters, Data[r])}
  /\ pc' = "answered"
  /\ UNCHANGED <<filters, table, version, filter_json, calls, planned, live, marked,
                 dvVars>>

\* A prepared statement is executed again.
ExecuteAgain ==
  /\ pc \in {"answered", "failed"}
  /\ pc' = "bound"
  /\ UNCHANGED <<filters, table, version, filter_json, calls, planned, output, live,
                 marked, dvVars>>

\* Another client changes the table.  The files that are there stay.
TableChanges ==
  /\ version < Len(Tables[table])
  /\ version' = version + 1
  /\ UNCHANGED <<filters, table, pc, filter_json, calls, planned, output, live, marked,
                 dvVars>>

-----------------------------------------------------------------------------
(* uc_read_deletion_vector.                                                *)

\* A statement on the function has no predicates on a table.  It reads the whole
\* file; or a section, when both of offset and size are given.
ReadDVInit ==
  /\ pc = "optimize"
  /\ calls = 0 /\ filters = <<>>
  /\ pc' = "function"
  /\ \/ marked' = stored.all_deleted /\ ParseFooter(stored.puffin)
     \/ marked' = stored.deleted /\ ReadSection(stored.blob)
  /\ UNCHANGED <<filters, table, version, filter_json, calls, planned, output, live>>

\* One of offset and size is missing, or negative.
ReadDVBindFails ==
  /\ pc = "optimize"
  /\ calls = 0 /\ filters = <<>>
  /\ pc' = "returned"
  /\ Throw
  /\ UNCHANGED <<filters, table, version, filter_json, calls, planned, output, live,
                 marked>>

ReadDVEnds ==
  /\ pc = "function"
  /\ dv \in {"done", "error"}
  /\ pc' = "returned"
  /\ UNCHANGED <<filters, table, version, filter_json, calls, planned, output, live,
                 marked, dvVars>>

Next ==
  \/ Optimize \/ Bound
  \/ InitGlobal \/ Read \/ FilterFails \/ FilterBuilt \/ Scan \/ ExecuteAgain
  \/ TableChanges
  \/ ReadDVInit \/ ReadDVBindFails \/ ReadDVEnds

Spec == Init /\ [][Next]_vars

-----------------------------------------------------------------------------
(* Properties.                                                             *)

\* The reader's counters stay in the ranges of their C++ types, and a query is
\* where its reader is.
TypeOK ==
  /\ filters \in Seq(Expressions)
  /\ table \in DOMAIN Tables
  /\ version \in DOMAIN Tables[table]
  /\ pc \in {"optimize", "bound", "filter", "scan", "answered", "failed",
             "function", "returned"}
  /\ calls \in 0 .. 2
  /\ planned \subseteq Files
  /\ output \subseteq Rows /\ live \subseteq Rows
  /\ dv \in {"idle", "next", "header", "bitmaps", "done", "error"}
  /\ pos \in Nat /\ left \in Nat /\ reached \in Nat
  /\ vector_size \in 0 .. Word - 1
  /\ dv \in {"header", "bitmaps", "next"} => pc \in {"filter", "function"}

\* FromBlob's comment: "Bound maxbytes by the buffer, not by the blob's
\* self-declared vector_size".  No read goes past the blob, and no blob past the
\* buffer, whatever the sizes and offsets in a damaged file say.
ReadsInBounds ==
  dv \in {"header", "bitmaps"} =>
    /\ reached <= window.length
    /\ window.offset + window.length <= Len(file)

\* What is decoded is what the writer marked, or the reader throws: damage to a
\* blob does not make another set of it.
VectorExact == dv = "done" => positions = marked

\* And what was written is read: the bounds that vector_size puts on each bitmap,
\* and the checks of the header and of the end, refuse no blob that is whole.
WholeIsRead == dv = "error" => ~IsWhole(file, window)

\* The pushed filter is implied: a row that DuckDB's own filter lets through
\* matches it, NULLs, flipped operands and dropped terms included.
FilterImplied ==
  pc = "bound" =>
    \A r \in RowValues : Accepts(filters, r) => MatchesFilter(filter_json, r)

\* The call that brings no predicates does not undo the one that did: once it
\* has been made, and whenever the query runs, what was translated is sent.
PruningKept ==
  pc = "bound" /\ calls > 0 /\ ~SerializeThrows(filters)
    => filter_json = SerializeFiltersToIRC(filters)

\* A query that succeeds returns the rows that its predicates accept of the
\* table as it was when the execution was planned, the deleted ones left out.
QueryAnswers ==
  pc = "answered" =>
    output = {r \in live : Accepts(filters, Data[r])}
=============================================================================
