--------------------------- MODULE TableSetProofs ---------------------------
(***************************************************************************)
(* Proofs about TableSet: the locks are held where the code holds them, a  *)
(* created table is found by the lookups that follow, a table handed out   *)
(* stays the table of its entry, and DETACH releases what was attached.    *)
(***************************************************************************)
EXTENDS TableSet, TLAPS

LEMMA ReturnValues ==
  ASSUME ValuesOK, NEW t \in Threads, Return(t)
  PROVE  /\ pc' = [pc EXCEPT ![t] = "idle"]
         /\ call' = [call EXCEPT ![t] = "none"]
         /\ call' \in [Threads -> {"none", "detach"} \cup Calls]
         /\ name' = [name EXCEPT ![t] = NoName]
         /\ expected' \in [Threads -> Tables]
         /\ held' \in [Threads -> Tables]
BY TableSetAssumption DEF ValuesOK, Return, Goto, Tables

LEMMA ListValues ==
  ASSUME ValuesOK, NEW n \in Names, List(n)
  PROVE  /\ made' \in Tables
         /\ made' # 0
         /\ listed' = [listed EXCEPT ![n] = made']
         /\ listed[n] = 0
BY TableSetAssumption DEF ValuesOK, List, Tables

-----------------------------------------------------------------------------

LEMMA ValuesStep ==
  ASSUME TypeOK, [Next]_vars
  PROVE  ValuesOK'
<1>. USE TableSetAssumption
     DEF TypeOK, ValuesOK, Tables, Loading, Calls, catalogVars, schemaVars,
         setVars
<1>0. ASSUME NEW t \in Threads, SchemaStep(t) PROVE ValuesOK'
  <2>1. CASE GetSchemas(t)
    BY <2>1 DEF GetSchemas, WithSchemas, Goto, serverVars, lockVars, callVars
  <2>2. CASE GetSchemasFails(t) \/ Detached(t)
    BY <2>2, ReturnValues DEF GetSchemasFails, Detached, serverVars, lockVars
  <2>. QED
    BY <1>0, <2>1, <2>2 DEF SchemaStep
<1>1. ASSUME NEW t \in Threads, LoadStep(t) PROVE ValuesOK'
  <2>1. CASE GetTables(t)
    BY <2>1 DEF GetTables, Goto, serverVars, lockVars, callVars
  <2>2. CASE LoadFails(t)
    BY <2>2, ReturnValues DEF LoadFails, Nothing, serverVars
  <2>3. CASE InsertEntry(t)
    BY <2>3 DEF InsertEntry, Goto, serverVars, callVars
  <2>4. CASE Loaded(t)
    BY <2>4 DEF Loaded, Goto, serverVars, callVars
  <2>. QED
    BY <1>1, <2>1, <2>2, <2>3, <2>4 DEF LoadStep
<1>2. ASSUME NEW t \in Threads, UseStep(t) PROVE ValuesOK'
  <2>1. CASE GetVersion(t)
    BY <2>1 DEF GetVersion, InternalAttach, Goto, serverVars, callVars
  <2>2. CASE GetVersionFails(t) \/ Used(t)
    BY <2>2, ReturnValues DEF GetVersionFails, Used, serverVars, lockVars
  <2>. QED
    BY <1>2, <2>1, <2>2 DEF UseStep
<1>3. ASSUME NEW t \in Threads, CreateStep(t) PROVE ValuesOK'
  <2>0. name[t] \in Names
    BY <1>3 DEF CreateStep, Register, NameTaken, CreateFails, LocksHeld
  <2>1. CASE Register(t)
    BY <2>0, <2>1, ListValues DEF Register, Goto, lockVars, callVars
  <2>2. CASE NameTaken(t)
    BY <2>2, ReturnValues DEF NameTaken, serverVars, lockVars
  <2>3. CASE CreateFails(t)
    BY <2>0, <2>3, ReturnValues, ListValues
    DEF CreateFails, serverVars, lockVars
  <2>. QED
    BY <1>3, <2>1, <2>2, <2>3 DEF CreateStep
<1>4. ASSUME NEW t \in Threads, LockStep(t) PROVE ValuesOK'
  <2>1. CASE EnsureLoaded(t)
    BY <2>1 DEF EnsureLoaded, Goto, serverVars, callVars
  <2>2. CASE TakeEntryLock(t)
    BY <2>2 DEF TakeEntryLock, Goto, serverVars, callVars
  <2>3. ASSUME FindEntry(t), Return(t) PROVE ValuesOK'
    BY <2>3, ReturnValues DEF FindEntry, serverVars
  <2>4. ASSUME FindEntry(t), ~Return(t) PROVE ValuesOK'
    <3>1. name[t] \in Names
      BY <2>4 DEF FindEntry, LocksHeld
    <3>. QED
      BY <2>4, <3>1 DEF FindEntry, Goto, serverVars, callVars
  <2>5. CASE ScanEntries(t)
    BY <2>5, ReturnValues DEF ScanEntries, serverVars, lockVars
  <2>6. CASE MarkNeedsReload(t)
    BY <2>6, ReturnValues DEF MarkNeedsReload, Created, serverVars, lockVars
  <2>7. CASE LookupSchema(t)
    BY <2>7 DEF LookupSchema, WithSchemas, Goto, serverVars, lockVars, callVars
  <2>8. CASE InternalDetach(t)
    BY <2>8 DEF InternalDetach, serverVars, lockVars, callVars
  <2>. QED
    BY <1>4, <2>1, <2>2, <2>3, <2>4, <2>5, <2>6, <2>7, <2>8 DEF LockStep
<1>5. ASSUME NEW t \in Threads, Detach(t) PROVE ValuesOK'
  BY <1>5 DEF Detach, Goto, serverVars, lockVars, callVars
<1>10. CASE Attach
  <2>1. Nothing \in [Names -> Tables]
    BY DEF Nothing
  <2>2. internal' \in [Names -> {"none", "attached", "late"}]
    BY <1>10 DEF Attach
  <2>. QED
    BY <1>10, <2>1, <2>2 DEF Attach, serverVars, lockVars, callVars
<1>6. ASSUME NEW t \in Threads, NEW n \in Names,
             NEW c \in Calls, Begin(t, n, c)
      PROVE  ValuesOK'
  BY <1>6 DEF Begin, Goto, serverVars, lockVars
<1>7. ASSUME NEW n \in Names, CreatedElsewhere(n) PROVE ValuesOK'
  BY <1>7, ListValues DEF CreatedElsewhere, lockVars, callVars
<1>8. ASSUME NEW n \in Names, DroppedElsewhere(n) PROVE ValuesOK'
  BY <1>8 DEF DroppedElsewhere, lockVars
<1>9. CASE UNCHANGED vars
  BY <1>9 DEF vars, serverVars, lockVars, callVars
<1>. QED
  BY <1>0, <1>1, <1>2, <1>3, <1>4, <1>5, <1>6, <1>7, <1>8, <1>9, <1>10
  DEF Next

LEMMA LocksStep ==
  ASSUME TypeOK, [Next]_vars
  PROVE  LocksHeld'
<1>. USE TableSetAssumption
     DEF TypeOK, ValuesOK, LocksHeld, Loading, Calls, Goto, Return,
         catalogVars, schemaVars, setVars
<1>0. ASSUME NEW t \in Threads, SchemaStep(t) PROVE LocksHeld'
  <2>1. CASE GetSchemas(t)
    BY <2>1 DEF GetSchemas, WithSchemas, lockVars, callVars
  <2>2. CASE GetSchemasFails(t)
    BY <2>2 DEF GetSchemasFails, lockVars
  <2>3. CASE Detached(t)
    BY <2>3 DEF Detached, lockVars
  <2>. QED
    BY <1>0, <2>1, <2>2, <2>3 DEF SchemaStep
<1>1. ASSUME NEW t \in Threads, LoadStep(t) PROVE LocksHeld'
  <2>1. CASE GetTables(t)
    BY <2>1 DEF GetTables, lockVars, callVars
  <2>2. CASE LoadFails(t)
    BY <2>2 DEF LoadFails
  <2>3. CASE InsertEntry(t)
    BY <2>3 DEF InsertEntry, callVars
  <2>4. CASE Loaded(t)
    BY <2>4 DEF Loaded, callVars
  <2>. QED
    BY <1>1, <2>1, <2>2, <2>3, <2>4 DEF LoadStep
<1>2. ASSUME NEW t \in Threads, UseStep(t) PROVE LocksHeld'
  <2>1. CASE GetVersion(t)
    BY <2>1 DEF GetVersion, callVars
  <2>2. CASE GetVersionFails(t)
    BY <2>2 DEF GetVersionFails
  <2>3. CASE Used(t)
    BY <2>3 DEF Used, lockVars
  <2>. QED
    BY <1>2, <2>1, <2>2, <2>3 DEF UseStep
<1>3. ASSUME NEW t \in Threads, CreateStep(t) PROVE LocksHeld'
  BY <1>3 DEF CreateStep, Register, NameTaken, CreateFails, lockVars, callVars
<1>4. ASSUME NEW t \in Threads, LockStep(t) PROVE LocksHeld'
  <2>1. CASE EnsureLoaded(t)
    BY <2>1 DEF EnsureLoaded, callVars
  <2>2. CASE TakeEntryLock(t)
    BY <2>2 DEF TakeEntryLock, callVars
  <2>3. CASE FindEntry(t)
    BY <2>3 DEF FindEntry, callVars
  <2>4. CASE ScanEntries(t)
    BY <2>4 DEF ScanEntries, lockVars
  <2>5. CASE MarkNeedsReload(t)
    BY <2>5 DEF MarkNeedsReload, lockVars
  <2>6. CASE LookupSchema(t)
    BY <2>6 DEF LookupSchema, WithSchemas, lockVars, callVars
  <2>7. CASE InternalDetach(t)
    BY <2>7 DEF InternalDetach, lockVars, callVars
  <2>. QED
    BY <1>4, <2>1, <2>2, <2>3, <2>4, <2>5, <2>6, <2>7 DEF LockStep
<1>5. ASSUME NEW t \in Threads, Detach(t) PROVE LocksHeld'
  BY <1>5 DEF Detach, lockVars
<1>9. CASE Attach
  BY <1>9 DEF Attach, lockVars, callVars
<1>6. ASSUME NEW t \in Threads, NEW n \in Names,
             NEW c \in Calls, Begin(t, n, c)
      PROVE  LocksHeld'
  BY <1>6 DEF Begin, lockVars
<1>7. ASSUME NEW n \in Names, CreatedElsewhere(n) \/ DroppedElsewhere(n)
      PROVE  LocksHeld'
  BY <1>7 DEF CreatedElsewhere, DroppedElsewhere, lockVars, callVars
<1>8. CASE UNCHANGED vars
  BY <1>8 DEF vars, serverVars, lockVars, callVars
<1>. QED
  BY <1>0, <1>1, <1>2, <1>3, <1>4, <1>5, <1>6, <1>7, <1>8, <1>9 DEF Next

\* Every reachable state is well typed, and load_lock and entry_lock are held
\* by the threads that are inside LoadEntries, InsertEntry or GetVersion.
THEOREM TypeCorrect == Spec => []TypeOK
<1>1. Init => TypeOK
  <2>. SUFFICES ASSUME Init PROVE ValuesOK /\ LocksHeld
    BY DEF TypeOK
  <2>1. ValuesOK
    <3>1. 0 \in Tables
      BY TableSetAssumption DEF Tables
    <3>. QED
      BY <3>1 DEF Init, ValuesOK, Nothing
  <2>2. LocksHeld
    BY TableSetAssumption DEF Init, LocksHeld, Loading, Calls
  <2>. QED
    BY <2>1, <2>2
<1>2. TypeOK /\ [Next]_vars => TypeOK'
  BY ValuesStep, LocksStep DEF TypeOK
<1>. QED
  BY <1>1, <1>2, PTL DEF Spec

-----------------------------------------------------------------------------

\* A step that adds no promise, drops no entry, and leaves a load as it was.
LEMMA SetFoundKept ==
  ASSUME SetFound,
         UNCHANGED <<created, answer, is_loaded>>,
         \A n \in Names : created[n] # 0 /\ listed[n] # 0 => listed'[n] # 0,
         \A n \in Names : tables[n] # 0 => tables'[n] # 0,
         \A t \in Threads : pc'[t] \in {"merge", "insert"} =>
           \E u \in Threads : pc[u] \in {"merge", "insert"}
  PROVE  SetFound'
BY DEF SetFound

LEMMA SetFoundStep ==
  ASSUME TypeOK, SetFound, [Next]_vars
  PROVE  SetFound'
<1>. USE TableSetAssumption
     DEF TypeOK, ValuesOK, LocksHeld, Loading, Calls, Goto, Return, Tables,
         catalogVars, schemaVars, setVars
<1>0. ASSUME NEW t \in Threads, SchemaStep(t) PROVE SetFound'
  BY <1>0, SetFoundKept
  DEF SchemaStep, GetSchemas, GetSchemasFails, Detached, WithSchemas, serverVars
<1>1. ASSUME NEW t \in Threads, LoadStep(t) PROVE SetFound'
  <2>1. CASE GetTables(t)
    BY <2>1 DEF GetTables, SetFound, serverVars
  <2>2. CASE LoadFails(t)
    BY <2>2 DEF LoadFails, SetFound, serverVars
  <2>3. CASE InsertEntry(t)
    BY <2>3 DEF InsertEntry, SetFound, serverVars
  <2>4. CASE Loaded(t)
    BY <2>4 DEF Loaded, SetFound, serverVars, Nothing
  <2>. QED
    BY <1>1, <2>1, <2>2, <2>3, <2>4 DEF LoadStep
<1>2. ASSUME NEW t \in Threads, UseStep(t) PROVE SetFound'
  BY <1>2, SetFoundKept
  DEF UseStep, GetVersion, GetVersionFails, Used, serverVars
<1>3. ASSUME NEW t \in Threads, CreateStep(t) PROVE SetFound'
  BY <1>3, SetFoundKept, ListValues
  DEF CreateStep, Register, NameTaken, CreateFails, serverVars
<1>4. ASSUME NEW t \in Threads, LockStep(t) PROVE SetFound'
  <2>1. CASE EnsureLoaded(t) \/ TakeEntryLock(t) \/ FindEntry(t)
              \/ ScanEntries(t)
    BY <2>1, SetFoundKept
    DEF EnsureLoaded, TakeEntryLock, FindEntry, ScanEntries, serverVars
  <2>3. CASE LookupSchema(t) \/ InternalDetach(t)
    BY <2>3, SetFoundKept
    DEF LookupSchema, WithSchemas, InternalDetach, serverVars, callVars
  <2>2. CASE MarkNeedsReload(t)
    <3>1. \A u \in Threads : pc'[u] \notin {"merge", "insert"}
      BY <2>2 DEF MarkNeedsReload
    <3>2. \A n \in Names : created'[n] # 0 => listed[n] # 0
      BY <2>2 DEF MarkNeedsReload, Created, SetFound
    <3>. QED
      BY <2>2, <3>1, <3>2 DEF MarkNeedsReload, SetFound, serverVars
  <2>. QED
    BY <1>4, <2>1, <2>2, <2>3 DEF LockStep
<1>5. ASSUME NEW t \in Threads, Detach(t) PROVE SetFound'
  BY <1>5, SetFoundKept DEF Detach, serverVars
<1>10. CASE Attach
  BY <1>10 DEF Attach, SetFound, serverVars, lockVars, callVars
<1>6. ASSUME NEW t \in Threads, NEW n \in Names,
             NEW c \in Calls, Begin(t, n, c)
      PROVE  SetFound'
  BY <1>6, SetFoundKept DEF Begin, serverVars
<1>7. ASSUME NEW n \in Names, CreatedElsewhere(n) PROVE SetFound'
  BY <1>7, SetFoundKept, ListValues DEF CreatedElsewhere
<1>8. ASSUME NEW n \in Names, DroppedElsewhere(n) PROVE SetFound'
  BY <1>8 DEF DroppedElsewhere, SetFound
<1>9. CASE UNCHANGED vars
  BY <1>9 DEF vars, serverVars, SetFound
<1>. QED
  BY <1>0, <1>1, <1>2, <1>3, <1>4, <1>5, <1>6, <1>7, <1>8, <1>9, <1>10
  DEF Next

\* A thread that a step leaves where it is, with what it expects, when that
\* step neither breaks a promise to it nor drops an entry.
LEMMA CallFoundKept ==
  ASSUME NEW t \in Threads, CallFound(t),
         pc'[t] = pc[t], name'[t] = name[t], call'[t] = call[t],
         expected'[t] # 0 => /\ expected[t] # 0
                             /\ created[name[t]] # 0 => created'[name[t]] # 0,
         tables[name[t]] # 0 => tables'[name[t]] # 0
  PROVE  CallFound(t)'
BY DEF CallFound

LEMMA CallFoundStep ==
  ASSUME TypeOK, FoundInv, [Next]_vars, NEW u \in Threads
  PROVE  CallFound(u)'
<1>. USE TableSetAssumption
     DEF TypeOK, ValuesOK, LocksHeld, Loading, Calls, Goto, Return, Tables,
         catalogVars, schemaVars, setVars
<1>0. CallFound(u) /\ SetFound
  BY DEF FoundInv
<1>11. ASSUME NEW t \in Threads, SchemaStep(t) PROVE CallFound(u)'
  <2>1. CASE GetSchemas(t)
    BY <1>0, <2>1 DEF GetSchemas, WithSchemas, CallFound, callVars
  <2>2. CASE GetSchemasFails(t) \/ Detached(t)
    BY <1>0, <2>2 DEF GetSchemasFails, Detached, CallFound
  <2>. QED
    BY <1>11, <2>1, <2>2 DEF SchemaStep
<1>1. ASSUME NEW t \in Threads, LoadStep(t) PROVE CallFound(u)'
  <2>1. CASE GetTables(t)
    BY <1>0, <2>1, CallFoundKept DEF GetTables, CallFound, callVars
  <2>2. CASE LoadFails(t)
    BY <1>0, <2>2, CallFoundKept DEF LoadFails, CallFound
  <2>3. CASE InsertEntry(t)
    <3>1. \A n \in Names : tables[n] # 0 => tables'[n] # 0
      BY <2>3 DEF InsertEntry
    <3>. QED
      BY <1>0, <2>3, <3>1 DEF InsertEntry, CallFound, callVars
  <2>4. CASE Loaded(t)
    <3>1. \A n \in Names : created[n] # 0 => tables[n] # 0
      BY <1>0, <2>4 DEF Loaded, SetFound, Nothing
    <3>. QED
      BY <1>0, <2>4, <3>1 DEF Loaded, CallFound, callVars
  <2>. QED
    BY <1>1, <2>1, <2>2, <2>3, <2>4 DEF LoadStep
<1>2. ASSUME NEW t \in Threads, UseStep(t) PROVE CallFound(u)'
  BY <1>0, <1>2
  DEF UseStep, GetVersion, GetVersionFails, Used, CallFound, callVars
<1>3. ASSUME NEW t \in Threads, CreateStep(t) PROVE CallFound(u)'
  BY <1>0, <1>3
  DEF CreateStep, Register, NameTaken, CreateFails, CallFound, callVars
<1>4. ASSUME NEW t \in Threads, LockStep(t) PROVE CallFound(u)'
  <2>1. CASE EnsureLoaded(t)
    BY <1>0, <2>1 DEF EnsureLoaded, CallFound, SetFound, callVars
  <2>2. CASE TakeEntryLock(t)
    BY <1>0, <2>2 DEF TakeEntryLock, CallFound, callVars
  <2>3. CASE FindEntry(t)
    BY <1>0, <2>3 DEF FindEntry, CallFound, callVars
  <2>4. CASE ScanEntries(t)
    BY <1>0, <2>4 DEF ScanEntries, CallFound
  <2>5. CASE MarkNeedsReload(t)
    <3>1. \A n \in Names : created[n] # 0 => created'[n] # 0
      BY <1>0, <2>5 DEF MarkNeedsReload, Created, SetFound
    <3>2. CASE u = t
      BY <2>5, <3>2 DEF MarkNeedsReload, CallFound
    <3>3. CASE u # t
      <4>1. /\ pc'[u] = pc[u] /\ name'[u] = name[u] /\ call'[u] = call[u]
            /\ expected'[u] = expected[u] /\ tables' = tables
        BY <2>5, <3>3 DEF MarkNeedsReload
      <4>. QED
        BY <1>0, <3>1, <4>1 DEF CallFound
    <3>. QED
      BY <3>2, <3>3
  <2>6. CASE LookupSchema(t)
    BY <1>0, <2>6 DEF LookupSchema, WithSchemas, CallFound, callVars
  <2>7. CASE InternalDetach(t)
    BY <1>0, <2>7, CallFoundKept DEF InternalDetach, callVars
  <2>. QED
    BY <1>4, <2>1, <2>2, <2>3, <2>4, <2>5, <2>6, <2>7 DEF LockStep
<1>5. ASSUME NEW t \in Threads, Detach(t) PROVE CallFound(u)'
  BY <1>0, <1>5 DEF Detach, CallFound
<1>10. CASE Attach
  BY <1>10 DEF Attach, CallFound, callVars
<1>6. ASSUME NEW t \in Threads, NEW n \in Names,
             NEW c \in Calls, Begin(t, n, c)
      PROVE  CallFound(u)'
  BY <1>0, <1>6 DEF Begin, CallFound
<1>7. ASSUME NEW n \in Names, CreatedElsewhere(n) PROVE CallFound(u)'
  BY <1>0, <1>7 DEF CreatedElsewhere, CallFound, callVars
<1>8. ASSUME NEW n \in Names, DroppedElsewhere(n) PROVE CallFound(u)'
  BY <1>0, <1>8 DEF DroppedElsewhere, CallFound
<1>9. CASE UNCHANGED vars
  BY <1>0, <1>9 DEF vars, callVars, CallFound
<1>. QED
  BY <1>0, <1>1, <1>2, <1>3, <1>4, <1>5, <1>6, <1>7, <1>8, <1>9, <1>10,
     <1>11 DEF Next

\* A lookup or a listing that begins after a CREATE returned
\* has an entry of that name to find, whatever loads were under way and
\* whichever of them failed.
THEOREM CreatedTablesAreFound == Spec => []CreatedIsFound
<1>1. Init => FoundInv
  BY DEF Init, FoundInv, SetFound, CallFound, Nothing, Loading
<1>2. TypeOK /\ FoundInv /\ [Next]_vars => FoundInv'
  BY SetFoundStep, CallFoundStep DEF FoundInv
<1>3. FoundInv => CreatedIsFound
  BY DEF FoundInv, CallFound, CreatedIsFound
<1>. QED
  BY <1>1, <1>2, <1>3, TypeCorrect, PTL DEF Spec

-----------------------------------------------------------------------------

LEMMA ValidStep ==
  ASSUME TypeOK, ValidInv, [Next]_vars
  PROVE  ValidInv'
<1>. USE TableSetAssumption
     DEF TypeOK, ValuesOK, LocksHeld, Loading, Calls, Goto, Return, Tables,
         catalogVars, schemaVars, setVars, ValidInv
<1>0. ASSUME NEW t \in Threads, SchemaStep(t) PROVE ValidInv'
  BY <1>0
  DEF SchemaStep, GetSchemas, GetSchemasFails, Detached, WithSchemas, callVars
<1>1. ASSUME NEW t \in Threads, LoadStep(t) PROVE ValidInv'
  <2>1. CASE InsertEntry(t)
    <3>1. \A n \in Names : tables[n] # 0 => tables'[n] = tables[n]
      BY <2>1 DEF InsertEntry
    <3>. QED
      BY <2>1, <3>1 DEF InsertEntry, callVars
  <2>2. CASE GetTables(t) \/ LoadFails(t) \/ Loaded(t)
    BY <2>2 DEF GetTables, LoadFails, Loaded, callVars
  <2>. QED
    BY <1>1, <2>1, <2>2 DEF LoadStep
<1>2. ASSUME NEW t \in Threads, UseStep(t) PROVE ValidInv'
  BY <1>2 DEF UseStep, GetVersion, GetVersionFails, Used, callVars
<1>3. ASSUME NEW t \in Threads, CreateStep(t) PROVE ValidInv'
  BY <1>3 DEF CreateStep, Register, NameTaken, CreateFails, callVars
<1>4. ASSUME NEW t \in Threads, LockStep(t) PROVE ValidInv'
  BY <1>4 DEF LockStep, EnsureLoaded, TakeEntryLock, FindEntry, ScanEntries,
              MarkNeedsReload, LookupSchema, WithSchemas, InternalDetach,
              callVars
<1>5. ASSUME NEW t \in Threads, Detach(t) PROVE ValidInv'
  BY <1>5 DEF Detach
<1>9. CASE Attach
  BY <1>9 DEF Attach, callVars
<1>6. ASSUME NEW t \in Threads, NEW n \in Names,
             NEW c \in Calls, Begin(t, n, c)
      PROVE  ValidInv'
  BY <1>6 DEF Begin
<1>7. ASSUME NEW n \in Names, CreatedElsewhere(n) \/ DroppedElsewhere(n)
      PROVE  ValidInv'
  BY <1>7 DEF CreatedElsewhere, DroppedElsewhere, callVars
<1>8. CASE UNCHANGED vars
  BY <1>8 DEF vars, callVars
<1>. QED
  BY <1>0, <1>1, <1>2, <1>3, <1>4, <1>5, <1>6, <1>7, <1>8, <1>9 DEF Next

\* A table that a lookup handed out stays the table of its entry for as long
\* as the statement uses it, through every reload.
THEOREM HandedOutTablesStay == Spec => []HandedOutStaysValid
<1>1. Init => ValidInv
  BY DEF Init, ValidInv
<1>2. ValidInv => HandedOutStaysValid
  BY DEF ValidInv, HandedOutStaysValid
<1>. QED
  BY <1>1, <1>2, ValidStep, TypeCorrect, PTL DEF Spec
-----------------------------------------------------------------------------

\* A step that neither attaches nor detaches, and starts or ends no DETACH.
LEMMA ReleaseKept ==
  ASSUME ReleaseInv,
         UNCHANGED <<gone, schemas_loaded, to_detach, internal>>,
         \A n \in Names : tables[n] # 0 => tables'[n] # 0,
         \A t \in Threads : call'[t] = "detach" <=> call[t] = "detach",
         \A t \in Threads :
           pc[t] \in {"idle", "schema", "schemas"} /\ ~schemas_loaded =>
             pc'[t] \in {"idle", "schema", "schemas"},
         \A t \in Threads : \A l \in {"schemas", "walk"} :
           pc'[t] = l => pc[t] = l
  PROVE  ReleaseInv'
BY DEF ReleaseInv, NamesReleased

LEMMA ReleaseStep ==
  ASSUME TypeOK, ValidInv, ReleaseInv, [Next]_vars
  PROVE  ReleaseInv'
<1>. USE TableSetAssumption
     DEF TypeOK, ValuesOK, LocksHeld, Loading, Calls, Goto, Return, Tables,
         catalogVars, schemaVars, setVars
<1>0. ASSUME NEW t \in Threads, SchemaStep(t) PROVE ReleaseInv'
  <2>1. CASE GetSchemas(t)
    <3>1. /\ pc[t] = "schemas" /\ schema_lock = t /\ schemas_loaded'
          /\ UNCHANGED <<gone, internal, tables, call>>
          /\ \A u \in Threads \ {t} : pc'[u] = pc[u]
      BY <2>1 DEF GetSchemas, WithSchemas, callVars
    <3>2. ASSUME NEW u \in Threads, u # t PROVE pc'[u] \notin {"schemas", "walk"}
      BY <3>1, <3>2
    <3>3. CASE call[t] = "detach"
      <4>1. to_detach' = {n \in Names : tables[n] # 0} /\ pc'[t] = "walk"
        BY <2>1, <3>3 DEF GetSchemas, WithSchemas
      <4>. QED
        BY <3>1, <3>2, <3>3, <4>1 DEF ReleaseInv, NamesReleased
    <3>4. CASE call[t] # "detach"
      <4>1. pc'[t] \in {"register", "ensure"}
        BY <2>1, <3>4 DEF GetSchemas, WithSchemas
      <4>. QED
        BY <3>1, <3>2, <3>4, <4>1 DEF ReleaseInv, NamesReleased
    <3>. QED BY <3>3, <3>4
  <2>2. CASE GetSchemasFails(t)
    BY <2>2 DEF GetSchemasFails, ReleaseInv, NamesReleased
  <2>3. CASE Detached(t)
    BY <2>3 DEF Detached, ReleaseInv, NamesReleased
  <2>. QED
    BY <1>0, <2>1, <2>2, <2>3 DEF SchemaStep
<1>1. ASSUME NEW t \in Threads, LoadStep(t) PROVE ReleaseInv'
  <2>1. \A n \in Names : tables[n] # 0 => tables'[n] # 0
    BY <1>1 DEF LoadStep, GetTables, LoadFails, InsertEntry, Loaded
  <2>. QED
    BY <1>1, <2>1, ReleaseKept
    DEF LoadStep, GetTables, LoadFails, InsertEntry, Loaded, callVars
<1>2. ASSUME NEW t \in Threads, UseStep(t) PROVE ReleaseInv'
  <2>1. CASE GetVersion(t)
    <3>1. schemas_loaded /\ tables[name[t]] # 0
      BY <2>1 DEF GetVersion, ValidInv, ReleaseInv
    <3>2. \A n \in Names : internal'[n] = "attached" =>
            internal[n] = "attached" \/ (n = name[t] /\ ~gone)
      BY <2>1 DEF GetVersion, InternalAttach
    <3>. QED
      BY <2>1, <3>1, <3>2 DEF GetVersion, ReleaseInv, NamesReleased, callVars
  <2>2. CASE GetVersionFails(t) \/ Used(t)
    BY <2>2, ReleaseKept DEF GetVersionFails, Used
  <2>. QED
    BY <1>2, <2>1, <2>2 DEF UseStep
<1>3. ASSUME NEW t \in Threads, CreateStep(t) PROVE ReleaseInv'
  BY <1>3, ReleaseKept DEF CreateStep, Register, NameTaken, CreateFails, callVars
<1>4. ASSUME NEW t \in Threads, LockStep(t) PROVE ReleaseInv'
  <2>1. CASE EnsureLoaded(t) \/ TakeEntryLock(t) \/ FindEntry(t)
              \/ ScanEntries(t) \/ MarkNeedsReload(t)
    BY <2>1, ReleaseKept DEF EnsureLoaded, TakeEntryLock, FindEntry,
                             ScanEntries, MarkNeedsReload, callVars
  <2>2. CASE LookupSchema(t)
    BY <2>2 DEF LookupSchema, WithSchemas, ReleaseInv, NamesReleased, callVars
  <2>3. CASE InternalDetach(t)
    BY <2>3 DEF InternalDetach, ReleaseInv, NamesReleased, callVars
  <2>. QED
    BY <1>4, <2>1, <2>2, <2>3 DEF LockStep
<1>5. ASSUME NEW t \in Threads, NEW n \in Names, NEW c \in Calls, Begin(t, n, c)
      PROVE  ReleaseInv'
  BY <1>5, ReleaseKept DEF Begin
<1>6. ASSUME NEW t \in Threads, Detach(t) PROVE ReleaseInv'
  BY <1>6 DEF Detach, ReleaseInv, NamesReleased
<1>7. CASE Attach
  BY <1>7 DEF Attach, ReleaseInv, NamesReleased, callVars
<1>8. ASSUME NEW n \in Names, CreatedElsewhere(n) \/ DroppedElsewhere(n)
      PROVE  ReleaseInv'
  BY <1>8, ReleaseKept DEF CreatedElsewhere, DroppedElsewhere, callVars
<1>9. CASE UNCHANGED vars
  BY <1>9, ReleaseKept DEF vars, callVars
<1>. QED
  BY <1>0, <1>1, <1>2, <1>3, <1>4, <1>5, <1>6, <1>7, <1>8, <1>9 DEF Next

\* When OnDetach is over, whether or not the schemas could be loaded for it, it
\* has released every internal database that was attached before DETACH began.
THEOREM DetachReleasesNames == Spec => []NamesReleased
<1>1. Init => ValidInv /\ ReleaseInv
  BY DEF Init, ValidInv, ReleaseInv, NamesReleased
<1>2. ReleaseInv => NamesReleased
  BY DEF ReleaseInv
<1>. QED
  BY <1>1, <1>2, ValidStep, ReleaseStep, TypeCorrect, PTL DEF Spec
=============================================================================
