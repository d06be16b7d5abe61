------------------------------ MODULE TableSet ------------------------------
(***************************************************************************)
(* An attached catalog, from ATTACH to DETACH: the schemas it knows        *)
(* (UCSchemaSet of src/src/storage/uc_schema_set.cpp), the tables of one   *)
(* of them (UCTableSet of src/src/storage/uc_table_set.cpp), and the       *)
(* threads that look them up, list them and create them.  The lock of the  *)
(* schemas covers their load with its request, and all of OnDetach;        *)
(* load_lock covers a load of tables, entry_lock one insertion or one      *)
(* lookup.  The server, where other clients create and drop tables too, is *)
(* external.  CreateTable has a create in detail, CatalogManagedTable the  *)
(* internal database of a table.                                           *)
(***************************************************************************)
EXTENDS Integers

CONSTANTS
  Threads,  \* the threads of the attached catalog
  Names,    \* the names of tables
  NoThread, \* the value of a lock nobody holds
  NoName,   \* no name
  MaxMade,  \* bound: how many tables are made
  Failures  \* TRUE: requests may fail

ASSUME TableSetAssumption ==
  /\ NoThread \notin Threads
  /\ NoName \notin Names
  /\ MaxMade \in Nat
  /\ Failures \in BOOLEAN

VARIABLES
  gone,           \* DETACH has taken the name of the catalog
  schemas_loaded, \* SchemaSetState: is_loaded.  The server lists the schema.
  schema_lock,    \* MutexProtected: the thread holding it
  to_detach,      \* OnDetach: tables it has still to visit
  internal,       \* the internal database of each table: "none", "attached",
                  \* or "late": attached after DETACH began
  listed,     \* server: the table each name stands for, 0 for none
  made,       \* server: the number of tables made so far, which number them
  tables,     \* the table each entry describes, 0 for no entry
  is_loaded,
  load_lock,  \* the thread holding it
  entry_lock, \* the thread holding it
  pc,         \* where each thread is
  call,       \* the call it is in
  name,       \* the name that is about
  answer,     \* what is left to merge of the answer of GetTables
  held,       \* the table a lookup found, or a create registered
  created,    \* ghost: the table of each name that a CREATE of this catalog
              \* returned for, 0 for none and once another client dropped it
  expected    \* ghost: created, as the call of the thread began

serverVars == <<listed, made>>
lockVars   == <<load_lock, entry_lock>>
callVars   == <<call, name, expected>>
setVars    == <<tables, is_loaded, lockVars, answer, held, created>>
schemaVars == <<gone, schemas_loaded, schema_lock, to_detach>>
catalogVars == <<schemaVars, internal>>
vars == <<catalogVars, serverVars, setVars, pc, callVars>>

Tables  == 0 .. MaxMade
Nothing == [n \in Names |-> 0]
Loading == {"request", "merge", "insert"}
Calls   == {"lookup", "scan", "create"}

ValuesOK ==
  /\ gone \in BOOLEAN /\ schemas_loaded \in BOOLEAN
  /\ schema_lock \in Threads \cup {NoThread}
  /\ to_detach \in SUBSET Names
  /\ internal \in [Names -> {"none", "attached", "late"}]
  /\ listed \in [Names -> Tables]
  /\ made \in Tables
  /\ tables \in [Names -> Tables]
  /\ is_loaded \in BOOLEAN
  /\ load_lock \in Threads \cup {NoThread}
  /\ entry_lock \in Threads \cup {NoThread}
  /\ pc \in [Threads -> {"idle", "schema", "schemas", "walk", "ensure", "find",
                         "bind", "using", "register", "mark"} \cup Loading]
  /\ call \in [Threads -> {"none", "detach"} \cup Calls]
  /\ name \in [Threads -> Names \cup {NoName}]
  /\ expected \in [Threads -> Tables]
  /\ answer \in [Names -> Tables]
  /\ held \in [Threads -> Tables]
  /\ created \in [Names -> Tables]

\* The locks are held where the code holds them.
LocksHeld ==
  \A t \in Threads :
    /\ call[t] \in Calls <=> name[t] \in Names
    /\ pc[t] = "idle" <=> call[t] = "none"
    /\ call[t] = "detach" => pc[t] \in {"schema", "schemas", "walk"}
    /\ pc[t] = "walk" => call[t] = "detach"
    /\ pc[t] \in {"schemas", "walk"} <=> schema_lock = t
    /\ pc[t] \in Loading <=> load_lock = t
    /\ pc[t] \in {"insert", "bind"} <=> entry_lock = t

TypeOK == ValuesOK /\ LocksHeld

Init ==
  /\ gone = FALSE /\ schemas_loaded = FALSE
  /\ schema_lock = NoThread
  /\ to_detach = {}
  /\ internal = [n \in Names |-> "none"]
  /\ listed = Nothing
  /\ made = 0
  /\ tables = Nothing
  /\ is_loaded = FALSE
  /\ load_lock = NoThread
  /\ entry_lock = NoThread
  /\ pc = [t \in Threads |-> "idle"]
  /\ call = [t \in Threads |-> "none"]
  /\ name = [t \in Threads |-> NoName]
  /\ expected = [t \in Threads |-> 0]
  /\ answer = Nothing
  /\ held = [t \in Threads |-> 0]
  /\ created = Nothing

Goto(t, label) == pc' = [pc EXCEPT ![t] = label]

\* The call of t returns, or throws.
Return(t) ==
  /\ Goto(t, "idle")
  /\ call' = [call EXCEPT ![t] = "none"]
  /\ expected' = [expected EXCEPT ![t] = 0]
  /\ held' = [held EXCEPT ![t] = 0]
  /\ name' = [name EXCEPT ![t] = NoName]

-----------------------------------------------------------------------------
(* UCSchemaSet.  Every call begins with its schema.                        *)

Begin(t, n, c) ==
  /\ ~gone
  /\ pc[t] = "idle"
  /\ Goto(t, "schema")
  /\ call' = [call EXCEPT ![t] = c]
  /\ name' = [name EXCEPT ![t] = n]
  /\ expected' = [expected EXCEPT ![t] = IF c = "create" THEN 0 ELSE created[n]]
  /\ UNCHANGED <<catalogVars, serverVars, setVars>>

\* With the schemas loaded: GetEntry returns the schema, and Scan, which keeps
\* the lock, starts on the tables.
WithSchemas(t) ==
  IF call[t] = "detach"
    THEN /\ schema_lock' = t
         /\ to_detach' = {n \in Names : tables[n] # 0}
         /\ Goto(t, "walk")
    ELSE /\ schema_lock' = NoThread
         /\ Goto(t, IF call[t] = "create" THEN "register" ELSE "ensure")
         /\ UNCHANGED to_detach

\* Mutant: a lookup takes entry_lock before EnsureLoaded.
LookupSchemaLocked(t) ==
  /\ pc[t] = "schema"
  /\ schema_lock = NoThread
  /\ IF schemas_loaded
       THEN /\ entry_lock = NoThread
            /\ entry_lock' = IF call[t] = "lookup" THEN t ELSE entry_lock
            /\ WithSchemas(t)
       ELSE /\ Goto(t, "schemas")
            /\ schema_lock' = t
            /\ UNCHANGED <<to_detach, entry_lock>>
  /\ UNCHANGED <<gone, schemas_loaded, internal, serverVars, tables, is_loaded,
                 load_lock, answer, held, created, callVars>>

\* EnsureLoaded of the schemas: nothing to do, or a request under the lock.
LookupSchema(t) ==
  /\ pc[t] = "schema"
  /\ schema_lock = NoThread
  /\ IF schemas_loaded
       THEN WithSchemas(t)
       ELSE /\ Goto(t, "schemas")
            /\ schema_lock' = t
            /\ UNCHANGED to_detach
  /\ UNCHANGED <<gone, schemas_loaded, internal, serverVars, setVars,
                 callVars>>

GetSchemas(t) ==
  /\ pc[t] = "schemas"
  /\ schemas_loaded' = TRUE
  /\ WithSchemas(t)
  /\ UNCHANGED <<gone, internal, serverVars, setVars, callVars>>

\* The request fails, or a schema of the answer has no name: the load is still
\* to do.
GetSchemasFails(t) ==
  /\ Failures
  /\ pc[t] = "schemas"
  /\ schema_lock' = NoThread
  /\ Return(t)
  /\ UNCHANGED <<gone, schemas_loaded, to_detach, internal, serverVars, tables,
                 is_loaded, lockVars, answer, created>>

-----------------------------------------------------------------------------
(* ATTACH and DETACH.                                                      *)

\* DuckDB takes the catalog's name away and calls OnDetach, while the calls
\* that hold the catalog go on.
Detach(t) ==
  /\ ~gone
  /\ gone' = TRUE
  /\ pc[t] = "idle"
  /\ Goto(t, "schema")
  /\ call' = [call EXCEPT ![t] = "detach"]
  /\ expected' = [expected EXCEPT ![t] = 0]
  /\ UNCHANGED <<schemas_loaded, schema_lock, to_detach, internal, serverVars,
                 setVars, name>>

\* InternalDetach of one table, once nobody attaches it (attach_lock, which
\* GetVersion holds).
InternalDetach(t) ==
  /\ pc[t] = "walk"
  /\ \E n \in to_detach :
       /\ \A u \in Threads : ~(pc[u] = "bind" /\ name[u] = n)
       /\ to_detach' = to_detach \ {n}
       /\ internal' = [internal EXCEPT ![n] = "none"]
  /\ UNCHANGED <<gone, schemas_loaded, schema_lock, serverVars, setVars, pc,
                 callVars>>

\* Mutant: a set that has a reload to do is passed over.
DetachedUnlessReloading(t) ==
  /\ pc[t] = "walk"
  /\ to_detach = {} \/ ~is_loaded
  /\ to_detach' = {}
  /\ schema_lock' = NoThread
  /\ Return(t)
  /\ UNCHANGED <<gone, schemas_loaded, internal, serverVars, tables, is_loaded,
                 lockVars, answer, created>>

\* An entry inserted meanwhile may be missed: the map is walked without
\* entry_lock.
Detached(t) ==
  /\ pc[t] = "walk"
  /\ to_detach = {}
  /\ schema_lock' = NoThread
  /\ Return(t)
  /\ UNCHANGED <<gone, schemas_loaded, to_detach, internal, serverVars, tables,
                 is_loaded, lockVars, answer, created>>

\* Another ATTACH, under a name of its own that its internal databases bear,
\* once the calls that hold the old catalog are over.
Attach ==
  /\ gone
  /\ \A t \in Threads : pc[t] = "idle"
  /\ gone' = FALSE
  /\ schemas_loaded' = FALSE
  /\ internal' = [n \in Names |-> "none"]
  /\ tables' = Nothing
  /\ is_loaded' = FALSE
  /\ UNCHANGED <<schema_lock, to_detach, serverVars, lockVars, answer, held,
                 created, pc, callVars>>

-----------------------------------------------------------------------------
(* GetEntry and Scan of the tables begin alike.                            *)

\* EnsureLoaded: nothing to do, or a load begins.
EnsureLoaded(t) ==
  /\ pc[t] = "ensure"
  /\ load_lock = NoThread
  /\ IF is_loaded
       THEN Goto(t, "find") /\ UNCHANGED load_lock
       ELSE Goto(t, "request") /\ load_lock' = t
  /\ UNCHANGED <<catalogVars, serverVars, tables, is_loaded, entry_lock,
                 callVars, answer, held, created>>

-----------------------------------------------------------------------------
(* LoadEntries.                                                            *)

GetTables(t) ==
  /\ pc[t] = "request"
  /\ answer' = listed
  /\ Goto(t, "merge")
  /\ UNCHANGED <<catalogVars, serverVars, tables, is_loaded, lockVars,
                 callVars, held, created>>

\* GetTables throws, or a table of the answer cannot be taken (no name, or two
\* columns of one name): the entries merged so far stay, and the load is still
\* to do.
LoadFails(t) ==
  /\ Failures
  /\ pc[t] \in {"request", "merge"}
  /\ load_lock' = NoThread
  /\ answer' = Nothing
  /\ Return(t)
  /\ UNCHANGED <<catalogVars, serverVars, tables, is_loaded, entry_lock,
                 created>>

TakeEntryLock(t) ==
  /\ pc[t] = "merge"
  /\ answer # Nothing
  /\ entry_lock = NoThread
  /\ entry_lock' = t
  /\ Goto(t, "insert")
  /\ UNCHANGED <<catalogVars, serverVars, tables, is_loaded, load_lock,
                 callVars, answer, held, created>>

\* One table of the answer: a name with an entry keeps it.
InsertEntry(t) ==
  /\ pc[t] = "insert"
  /\ \E n \in Names :
       /\ answer[n] # 0
       /\ tables' = [tables EXCEPT ![n] = IF @ = 0 THEN answer[n] ELSE @]
       /\ answer' = [answer EXCEPT ![n] = 0]
  /\ entry_lock' = NoThread
  /\ Goto(t, "merge")
  /\ UNCHANGED <<catalogVars, serverVars, is_loaded, load_lock, callVars, held,
                 created>>

Loaded(t) ==
  /\ pc[t] = "merge"
  /\ answer = Nothing
  /\ is_loaded' = TRUE
  /\ load_lock' = NoThread
  /\ Goto(t, "find")
  /\ UNCHANGED <<catalogVars, serverVars, tables, entry_lock, callVars, answer,
                 held, created>>

-----------------------------------------------------------------------------
(* The rest of GetEntry and Scan.                                          *)

\* Mutant: GetEntry lets go of entry_lock before GetVersion.
FindEntryUnlocks(t) ==
  /\ pc[t] = "find"
  /\ call[t] = "lookup"
  /\ entry_lock = NoThread
  /\ IF tables[name[t]] = 0
       THEN Return(t)
       ELSE /\ Goto(t, "bind")
            /\ held' = [held EXCEPT ![t] = tables[name[t]]]
            /\ UNCHANGED callVars
  /\ UNCHANGED <<catalogVars, serverVars, tables, is_loaded, lockVars, answer,
                 created>>

\* GetEntry keeps entry_lock for GetVersion.
FindEntry(t) ==
  /\ pc[t] = "find"
  /\ call[t] = "lookup"
  /\ entry_lock = NoThread
  /\ IF tables[name[t]] = 0
       THEN Return(t) /\ UNCHANGED entry_lock
       ELSE /\ Goto(t, "bind")
            /\ entry_lock' = t
            /\ held' = [held EXCEPT ![t] = tables[name[t]]]
            /\ UNCHANGED callVars
  /\ UNCHANGED <<catalogVars, serverVars, tables, is_loaded, load_lock, answer,
                 created>>

\* The internal database is attached, if it is not.
InternalAttach(n) ==
  internal' = [internal EXCEPT ![n] =
    IF @ # "none" THEN @ ELSE IF gone THEN "late" ELSE "attached"]

\* GetVersion returns an entry that refers to the TableInformation: of the
\* attached log, or as reported.
GetVersion(t) ==
  /\ pc[t] = "bind"
  /\ entry_lock' = NoThread
  /\ Goto(t, "using")
  /\ InternalAttach(name[t]) \/ UNCHANGED internal
  /\ UNCHANGED <<schemaVars, serverVars, tables, is_loaded, load_lock,
                 callVars, answer, held, created>>

GetVersionFails(t) ==
  /\ Failures
  /\ pc[t] = "bind"
  /\ entry_lock' = NoThread
  /\ Return(t)
  /\ UNCHANGED <<catalogVars, serverVars, tables, is_loaded, load_lock, answer,
                 created>>

\* The statement is over.
Used(t) ==
  /\ pc[t] = "using"
  /\ Return(t)
  /\ UNCHANGED <<catalogVars, serverVars, tables, is_loaded, lockVars, answer,
                 created>>

\* Scan hands every entry to the callback.
ScanEntries(t) ==
  /\ pc[t] = "find"
  /\ call[t] = "scan"
  /\ entry_lock = NoThread
  /\ Return(t)
  /\ UNCHANGED <<catalogVars, serverVars, tables, is_loaded, lockVars, answer,
                 created>>

-----------------------------------------------------------------------------
(* CREATE TABLE.                                                           *)

\* The server lists a new table under the name n.
List(n) ==
  /\ listed[n] = 0
  /\ made < MaxMade
  /\ made' = made + 1
  /\ listed' = [listed EXCEPT ![n] = made']

Register(t) ==
  /\ pc[t] = "register"
  /\ List(name[t])
  /\ held' = [held EXCEPT ![t] = made']
  /\ Goto(t, "mark")
  /\ UNCHANGED <<catalogVars, tables, is_loaded, lockVars, callVars, answer,
                 created>>

\* The name is taken: an error, or nothing for IF NOT EXISTS.
NameTaken(t) ==
  /\ pc[t] = "register"
  /\ listed[name[t]] # 0
  /\ Return(t)
  /\ UNCHANGED <<catalogVars, serverVars, tables, is_loaded, lockVars, answer,
                 created>>

\* The create throws, whether the server lists the table or not.
CreateFails(t) ==
  /\ Failures
  /\ pc[t] = "register"
  /\ List(name[t]) \/ UNCHANGED serverVars
  /\ Return(t)
  /\ UNCHANGED <<catalogVars, tables, is_loaded, lockVars, answer, created>>

\* What CREATE returned for, unless it is gone again.
Created(t) ==
  created' = [created EXCEPT ![name[t]] =
                IF listed[name[t]] = held[t] THEN held[t] ELSE @]

\* Mutant: is_loaded is cleared without load_lock.
MarkNeedsReloadUnlocked(t) ==
  /\ pc[t] = "mark"
  /\ is_loaded' = FALSE
  /\ Created(t)
  /\ Return(t)
  /\ UNCHANGED <<catalogVars, serverVars, tables, lockVars, answer>>

\* Mutant: ClearEntries in its place.
MarkNeedsReloadClears(t) ==
  /\ pc[t] = "mark"
  /\ load_lock = NoThread
  /\ entry_lock = NoThread
  /\ tables' = Nothing
  /\ is_loaded' = FALSE
  /\ Created(t)
  /\ Return(t)
  /\ UNCHANGED <<catalogVars, serverVars, lockVars, answer>>

\* MarkNeedsReload, and CREATE returns.
MarkNeedsReload(t) ==
  /\ pc[t] = "mark"
  /\ load_lock = NoThread
  /\ is_loaded' = FALSE
  /\ Created(t)
  /\ Return(t)
  /\ UNCHANGED <<catalogVars, serverVars, tables, lockVars, answer>>

-----------------------------------------------------------------------------
(* Other clients of the server.                                            *)

CreatedElsewhere(n) ==
  /\ List(n)
  /\ UNCHANGED <<catalogVars, tables, is_loaded, lockVars, pc, callVars,
                 answer, held, created>>

DroppedElsewhere(n) ==
  /\ listed[n] # 0
  /\ listed' = [listed EXCEPT ![n] = 0]
  /\ created' = [created EXCEPT ![n] = 0]
  /\ expected' = [t \in Threads |-> IF name[t] = n THEN 0 ELSE expected[t]]
  /\ UNCHANGED <<catalogVars, made, tables, is_loaded, lockVars, pc, call,
                 name, answer, held>>

SchemaStep(t) == GetSchemas(t) \/ GetSchemasFails(t) \/ Detached(t)

LoadStep(t) == GetTables(t) \/ LoadFails(t) \/ InsertEntry(t) \/ Loaded(t)

UseStep(t) ==
  GetVersion(t) \/ GetVersionFails(t) \/ Used(t)

CreateStep(t) == Register(t) \/ NameTaken(t) \/ CreateFails(t)

\* Steps that wait for a lock
LockStep(t) ==
  \/ LookupSchema(t) \/ InternalDetach(t)
  \/ EnsureLoaded(t) \/ TakeEntryLock(t) \/ FindEntry(t) \/ ScanEntries(t)
  \/ MarkNeedsReload(t)

Next ==
  \/ \E t \in Threads :
       \/ SchemaStep(t) \/ LoadStep(t) \/ UseStep(t) \/ CreateStep(t)
       \/ LockStep(t)
       \/ \E n \in Names, c \in Calls : Begin(t, n, c)
       \/ Detach(t)
  \/ Attach
  \/ \E n \in Names : CreatedElsewhere(n) \/ DroppedElsewhere(n)

Spec == Init /\ [][Next]_vars

\* Requests return, statements end, and a mutex that is free again and again
\* is got in the end.
FairSpec ==
  /\ Spec
  /\ \A t \in Threads :
       /\ WF_vars(SchemaStep(t) \/ LoadStep(t) \/ UseStep(t) \/ CreateStep(t))
       /\ SF_vars(LockStep(t))

-----------------------------------------------------------------------------
(* Properties.                                                             *)

\* CreateTable's comment: "The catalog now owns a table this set has never
\* seen; its next lookup loads it from UC".  A lookup or a listing that begins
\* after a CREATE returned has an entry of that name to find, whatever loads
\* were under way, unless another client dropped the table.
CreatedIsFound ==
  \A t \in Threads :
    pc[t] = "find" /\ expected[t] # 0 => tables[name[t]] # 0

\* MarkNeedsReload's comment: "Tables this set handed out stay valid".
HandedOutStaysValid ==
  \A t \in Threads : pc[t] \in {"bind", "using"} => tables[name[t]] = held[t]

\* EnsureLoaded's comment: it "must be done before entry_lock".  No call waits
\* for ever, whichever lock it holds.
CallsReturn ==
  \A t \in Threads : pc[t] # "idle" ~> pc[t] = "idle"

\* InternalDetach's comment: "the name has to be released either way, or the
\* next attach collides with it".  Once OnDetach is over, with or without an
\* error, no internal database is left that was attached before DETACH began.
NamesReleased ==
  gone /\ (\A t \in Threads : call[t] # "detach")
    => \A n \in Names : internal[n] # "attached"

\* The same comment of CreateTable: what the next lookup finds is the table
\* that was created, or a later one.
CreatedIsCurrent ==
  \A t \in Threads :
    pc[t] = "find" /\ expected[t] # 0 => tables[name[t]] >= expected[t]

-----------------------------------------------------------------------------
(* Inductive invariants.                                                   *)

\* What a finished load, or the one under way, does not miss: every table
\* that a CREATE returned for.
SetFound ==
  /\ \A n \in Names : created[n] # 0 => listed[n] # 0
  /\ is_loaded => \A n \in Names : created[n] # 0 => tables[n] # 0
  /\ (\E t \in Threads : pc[t] \in {"merge", "insert"}) =>
       \A n \in Names : created[n] # 0 => tables[n] # 0 \/ answer[n] # 0

\* A call on its way to its lookup expects nothing that is not there.
CallFound(t) ==
  /\ call[t] # "detach" /\ expected[t] # 0
     /\ pc[t] \in {"schema", "schemas", "ensure"} \cup Loading =>
       created[name[t]] # 0
  /\ pc[t] = "find" /\ expected[t] # 0 => tables[name[t]] # 0

FoundInv == SetFound /\ \A t \in Threads : CallFound(t)

\* The entry a lookup returned is there, and the one of that name.
ValidInv ==
  \A t \in Threads :
    pc[t] \in {"bind", "using"} => held[t] # 0 /\ tables[name[t]] = held[t]

\* An internal database has its entry, in a catalog that has its schemas, which
\* OnDetach therefore reaches.
ReleaseInv ==
  /\ \A t \in Threads :
       pc[t] \notin {"idle", "schema", "schemas"} => schemas_loaded
  /\ \A t \in Threads : call[t] = "detach" => gone
  /\ \A t \in Threads : pc[t] = "schemas" => ~schemas_loaded
  /\ \A n \in Names :
       internal[n] = "attached" => schemas_loaded /\ tables[n] # 0
  /\ \A t \in Threads : pc[t] = "walk" =>
       \A n \in Names : internal[n] = "attached" => n \in to_detach
  /\ NamesReleased
=============================================================================
