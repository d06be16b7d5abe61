---------------------------- MODULE CreateTable ----------------------------
(***************************************************************************)
(* UCTableSet::CreateTable of src/src/storage/uc_table_set.cpp, as clients *)
(* of one schema in processes of their own run it: the check of the name   *)
(* or the staging request, version 0 of the log, the registration with its *)
(* recovery from an unclear answer (RegisterTable), and the removal of a   *)
(* version 0 that was not registered (RemoveUnregisteredVersionZero).  The *)
(* Unity Catalog server and the storage are external.                      *)
(*                                                                         *)
(* A place is a location; a managed table's is the one its staging id      *)
(* names, so that comparing ids is comparing places.                       *)
(***************************************************************************)
EXTENDS Integers, FiniteSets

CONSTANTS
  Clients,  \* each creates one table at a time
  Names,    \* the names of tables
  External, \* locations a client may choose
  Staged,   \* bound: the places the server can stage managed tables at
  Nowhere,  \* no place
  NoOne,    \* no client
  MaxKills, \* bound: how many times a client is killed
  MaxLate,  \* bound: how many registrations are late
  Failures  \* TRUE: requests and file operations may fail

ASSUME CreateAssumption ==
  /\ External \cap Staged = {}
  /\ Nowhere \notin External \cup Staged
  /\ NoOne \notin Clients
  /\ MaxKills \in Nat
  /\ MaxLate \in Nat
  /\ Failures \in BOOLEAN

VARIABLES
  registered, \* server: where the table of each name is
  allocated,  \* server: the staged places given out
  late,       \* server: registrations it received and has not carried out,
              \* though their client saw the request fail
  log,        \* storage: who wrote version 0 at each place
  pc,         \* where each client is
  name,       \* table_name of its create
  place,      \* location, or staging.location
  outcome,    \* what its create came to
  overtaken,  \* ghost: those of them carried out since
  abandoned,  \* ghost: locations whose clean-up failed or never ran
  kills       \* number of kills so far

serverVars == <<registered, allocated, late, overtaken>>
callVars   == <<name, place>>
vars == <<serverVars, log, pc, callVars, outcome, abandoned, kills>>

Places == External \cup Staged
Writing  == {"read", "register", "recover"}
Cleaning == {"exists", "load", "remove"}
\* From the write of version 0 to the end of the call
InFlight == Writing \cup Cleaning
Outcomes == {"none", "created", "noop", "taken", "error"}

TypeOK ==
  /\ registered \in [Names -> Places \cup {Nowhere}]
  /\ allocated \subseteq Staged
  /\ late \subseteq Names \X Places
  /\ overtaken \subseteq Names \X Places
  /\ log \in [Places -> Clients \cup {NoOne}]
  /\ pc \in [Clients -> {"idle", "check", "stage", "write"} \cup Writing
                          \cup Cleaning]
  /\ name \in [Clients -> Names]
  /\ place \in [Clients -> Places \cup {Nowhere}]
  /\ outcome \in [Clients -> Outcomes]
  /\ abandoned \subseteq Places
  /\ kills \in 0 .. MaxKills
  /\ \A c \in Clients : pc[c] \in {"write"} \cup Writing => place[c] \in Places
  /\ \A c \in Clients : pc[c] \in {"check"} \cup Cleaning => place[c] \in External

\* Nothing is created yet.
Init ==
  /\ registered = [n \in Names |-> Nowhere]
  /\ allocated = {}
  /\ late = {}
  /\ overtaken = {}
  /\ log = [p \in Places |-> NoOne]
  /\ pc = [c \in Clients |-> "idle"]
  /\ name \in [Clients -> Names]
  /\ place = [c \in Clients |-> Nowhere]
  /\ outcome = [c \in Clients |-> "none"]
  /\ abandoned = {}
  /\ kills = 0

Goto(c, label) == pc' = [pc EXCEPT ![c] = label]
IsFree(n) == registered[n] = Nowhere

\* The call returns, or throws, and its locals are gone.
Finish(c, result) ==
  /\ Goto(c, "idle")
  /\ outcome' = [outcome EXCEPT ![c] = result]
  /\ place' = [place EXCEPT ![c] = Nowhere]
  /\ UNCHANGED name

\* Mutant: a managed create cleans up too.
GiveUpCleans(c, result) ==
  /\ Goto(c, "exists")
  /\ outcome' = [outcome EXCEPT ![c] = result]
  /\ UNCHANGED callVars

\* RegisterTable throws: an external create cleans up before it goes on
\* throwing.
GiveUp(c, result) ==
  IF place[c] \in External
    THEN /\ Goto(c, "exists")
         /\ outcome' = [outcome EXCEPT ![c] = result]
         /\ UNCHANGED callVars
    ELSE Finish(c, result)

\* A version 0 this create wrote stays behind.
Abandon(c) == abandoned' = abandoned \cup ({place[c]} \cap External)

\* EntryAlreadyExists, or nothing for CREATE TABLE IF NOT EXISTS
NameTaken == {"taken", "noop"}

-----------------------------------------------------------------------------
(* The statement, and what comes before the write.                         *)

Start(c) ==
  /\ pc[c] = "idle"
  /\ \E n \in Names : name' = [name EXCEPT ![c] = n]
  /\ outcome' = [outcome EXCEPT ![c] = "none"]
  /\ \/ /\ Goto(c, "check")
        /\ \E p \in External : place' = [place EXCEPT ![c] = p]
     \/ /\ Goto(c, "stage")
        /\ place' = [place EXCEPT ![c] = Nowhere]
  /\ UNCHANGED <<serverVars, log, abandoned, kills>>

\* TableExists, for a table with a location.
CheckName(c) ==
  /\ pc[c] = "check"
  /\ IF IsFree(name[c])
       THEN Goto(c, "write") /\ UNCHANGED <<callVars, outcome>>
       ELSE \E r \in NameTaken : Finish(c, r)
  /\ UNCHANGED <<serverVars, log, abandoned, kills>>

\* CreateStagingTable answers with a place of its own, or that the name is
\* taken.
CreateStagingTable(c) ==
  /\ pc[c] = "stage"
  /\ IF IsFree(name[c])
       THEN /\ \E p \in Staged \ allocated :
                 /\ allocated' = allocated \cup {p}
                 /\ place' = [place EXCEPT ![c] = p]
            /\ Goto(c, "write")
            /\ UNCHANGED <<name, outcome>>
       ELSE \E r \in NameTaken : Finish(c, r) /\ UNCHANGED allocated
  /\ UNCHANGED <<registered, late, overtaken, log, abandoned, kills>>

\* TableExists, CreateStagingTable or StageCredentials throws.
PrepareFails(c) ==
  /\ Failures
  /\ pc[c] \in {"check", "stage"}
  /\ Finish(c, "error")
  /\ UNCHANGED <<serverVars, log, abandoned, kills>>

-----------------------------------------------------------------------------
(* WriteVersionZero: outside every try block of CreateTable.               *)

\* Kernel writes version 0 where _delta_log is empty.
WriteVersionZero(c) ==
  /\ pc[c] = "write"
  /\ log[place[c]] = NoOne
  /\ log' = [log EXCEPT ![place[c]] = c]
  /\ Goto(c, "read")
  /\ UNCHANGED <<serverVars, callVars, outcome, abandoned, kills>>

\* Mutant: WriteVersionZero is inside the try block of an external create.
WriteRefusedCleansUp(c) ==
  /\ pc[c] = "write"
  /\ Failures \/ log[place[c]] # NoOne
  /\ GiveUp(c, "error")
  /\ UNCHANGED <<serverVars, log, abandoned, kills>>

\* Kernel refuses a _delta_log that holds anything; the attach or the write
\* may fail besides.
WriteRefused(c) ==
  /\ pc[c] = "write"
  /\ Failures \/ log[place[c]] # NoOne
  /\ Finish(c, "error")
  /\ UNCHANGED <<serverVars, log, abandoned, kills>>

ReadCommittedTable(c) ==
  /\ pc[c] = "read"
  /\ Goto(c, "register")
  /\ UNCHANGED <<serverVars, log, callVars, outcome, abandoned, kills>>

\* Version 0 is there and cannot be read back, or the database it was written
\* through cannot be detached.
ReadCommittedTableFails(c) ==
  /\ Failures
  /\ pc[c] = "read"
  /\ Finish(c, "error")
  /\ Abandon(c)
  /\ UNCHANGED <<serverVars, log, kills>>

-----------------------------------------------------------------------------
(* RegisterTable.                                                          *)

Register(n, p) == registered' = [registered EXCEPT ![n] = p]

Registered(c) ==
  /\ pc[c] = "register"
  /\ IsFree(name[c])
  /\ Register(name[c], place[c])
  /\ Finish(c, "created")
  /\ UNCHANGED <<allocated, late, overtaken, log, abandoned, kills>>

\* A CatalogException: the name was taken in the meantime.
RegisterConflict(c) ==
  /\ pc[c] = "register"
  /\ ~IsFree(name[c])
  /\ \E r \in NameTaken : GiveUp(c, r)
  /\ UNCHANGED <<serverVars, log, abandoned, kills>>

\* The request fails as seen from the client: the server carried it out, never
\* will, or is going to.
UnclearRegistration(c) ==
  /\ Failures
  /\ pc[c] = "register"
  /\ \/ UNCHANGED <<registered, late>>
     \/ /\ IsFree(name[c])
        /\ Register(name[c], place[c])
        /\ UNCHANGED late
     \/ /\ Cardinality(late) + Cardinality(overtaken) < MaxLate
        /\ late' = late \cup {<<name[c], place[c]>>}
        /\ UNCHANGED registered

RegisterFails(c) ==
  /\ UnclearRegistration(c)
  /\ Goto(c, "recover")
  /\ UNCHANGED <<allocated, overtaken, log, callVars, outcome, abandoned,
                 kills>>

\* Mutant: an interrupt passes the clean-up by.
RegisterInterruptedKeeps(c) ==
  /\ UnclearRegistration(c)
  /\ Finish(c, "error")
  /\ UNCHANGED <<allocated, overtaken, log, abandoned, kills>>

\* InterruptException is rethrown, without a look at what became of it.
RegisterInterrupted(c) ==
  /\ UnclearRegistration(c)
  /\ GiveUp(c, "error")
  /\ UNCHANGED <<allocated, overtaken, log, abandoned, kills>>

\* Mutant: any table of that name counts as the one just written.
RecoverByName(c) ==
  /\ pc[c] = "recover"
  /\ IF ~IsFree(name[c]) THEN Finish(c, "created") ELSE GiveUp(c, "error")
  /\ UNCHANGED <<serverVars, log, abandoned, kills>>

\* LoadTable, and is_ours.
Recover(c) ==
  /\ pc[c] = "recover"
  /\ IF registered[name[c]] = place[c]
       THEN Finish(c, "created")
       ELSE GiveUp(c, "error")
  /\ UNCHANGED <<serverVars, log, abandoned, kills>>

RecoverFails(c) ==
  /\ Failures
  /\ pc[c] = "recover"
  /\ GiveUp(c, "error")
  /\ UNCHANGED <<serverVars, log, abandoned, kills>>

-----------------------------------------------------------------------------
(* RemoveUnregisteredVersionZero.                                          *)

CleanupExists(c) ==
  /\ pc[c] = "exists"
  /\ Goto(c, IF IsFree(name[c]) THEN "remove" ELSE "load")
  /\ UNCHANGED <<serverVars, log, callVars, outcome, abandoned, kills>>

\* Mutant: the version 0 is removed wherever the table of that name is.
CleanupLoadIgnored(c) ==
  /\ pc[c] = "load"
  /\ Goto(c, "remove")
  /\ UNCHANGED <<serverVars, log, callVars, outcome, abandoned, kills>>

CleanupLoad(c) ==
  /\ pc[c] = "load"
  /\ IF registered[name[c]] = place[c]
       THEN Finish(c, outcome[c])
       ELSE Goto(c, "remove") /\ UNCHANGED <<callVars, outcome>>
  /\ UNCHANGED <<serverVars, log, abandoned, kills>>

RemoveVersionZero(c) ==
  /\ pc[c] = "remove"
  /\ log' = [log EXCEPT ![place[c]] = NoOne]
  /\ Finish(c, outcome[c])
  /\ UNCHANGED <<serverVars, abandoned, kills>>

\* A request or a file operation of the clean-up fails: a warning.
CleanupFails(c) ==
  /\ Failures
  /\ pc[c] \in Cleaning
  /\ Finish(c, outcome[c])
  /\ Abandon(c)
  /\ UNCHANGED <<serverVars, log, kills>>

-----------------------------------------------------------------------------
(* The rest of the world.                                                  *)

LateRegistration(n, p) ==
  /\ <<n, p>> \in late
  /\ late' = late \ {<<n, p>>}
  /\ IF IsFree(n)
       THEN Register(n, p) /\ overtaken' = overtaken \cup {<<n, p>>}
       ELSE UNCHANGED <<registered, overtaken>>
  /\ UNCHANGED <<allocated, log, pc, callVars, outcome, abandoned, kills>>

\* The process of the client is killed.
Kill(c) ==
  /\ kills < MaxKills
  /\ kills' = kills + 1
  /\ pc[c] # "idle"
  /\ Finish(c, "none")
  /\ IF pc[c] \in InFlight THEN Abandon(c) ELSE UNCHANGED abandoned
  /\ UNCHANGED <<serverVars, log>>

PrepareStep(c) ==
  CheckName(c) \/ CreateStagingTable(c) \/ PrepareFails(c)

WriteStep(c) ==
  \/ WriteVersionZero(c) \/ WriteRefused(c)
  \/ ReadCommittedTable(c) \/ ReadCommittedTableFails(c)

RegisterStep(c) ==
  \/ Registered(c) \/ RegisterConflict(c) \/ RegisterFails(c)
  \/ RegisterInterrupted(c) \/ Recover(c) \/ RecoverFails(c)

CleanupStep(c) ==
  \/ CleanupExists(c) \/ CleanupLoad(c) \/ RemoveVersionZero(c)
  \/ CleanupFails(c)

Next ==
  \/ \E c \in Clients :
       \/ Start(c) \/ PrepareStep(c) \/ WriteStep(c) \/ RegisterStep(c)
       \/ CleanupStep(c) \/ Kill(c)
  \/ \E n \in Names, p \in Places : LateRegistration(n, p)

Spec == Init /\ [][Next]_vars

-----------------------------------------------------------------------------
(* Properties.                                                             *)

\* A registered table has its version 0: RemoveUnregisteredVersionZero's comment
\* says it is "Kept when UC lists the table at `location` after all, or cannot
\* say, since a registered table owns that log".  No clean-up, of its own create
\* or of another's, removes the log of a table the server lists, unless the
\* server only listed it after its client had looked.
RegisteredHasLog ==
  \A n \in Names :
    registered[n] # Nowhere =>
      log[registered[n]] # NoOne \/ <<n, registered[n]>> \in overtaken

\* A create that reports success made that table, whatever became of the
\* answers: the name is registered where it wrote, and the log is its own.
CreatedIsOurs ==
  [][\A c \in Clients :
       (outcome'[c] = "created" /\ outcome[c] # "created") =>
         registered'[name[c]] = place[c] /\ log[place[c]] = c]_vars

\* A create that failed leaves its location to the next one: a version 0
\* nobody registered belongs to a create under way, unless its clean-up
\* failed or never ran.
NoOrphan ==
  \A p \in External :
    \/ log[p] = NoOne
    \/ p \in abandoned
    \/ \E n \in Names : registered[n] = p
    \/ \E c \in Clients : place[c] = p /\ pc[c] \in InFlight

\* The files a clean-up is about to remove are the ones its own create wrote.
CleanupRemovesOwn ==
  \A c \in Clients : pc[c] = "remove" => log[place[c]] = c

-----------------------------------------------------------------------------
(* The inductive invariant.                                                *)

\* A version 0 in flight is the one its client wrote, and no other name is
\* registered at its place, unless late.
ClientInv(c) ==
  /\ pc[c] \in InFlight =>
       /\ log[place[c]] = c
       /\ \A n \in Names :
            registered[n] = place[c] =>
              n = name[c] \/ <<n, place[c]>> \in overtaken
  /\ pc[c] = "remove" =>
       \A n \in Names :
         registered[n] = place[c] => <<n, place[c]>> \in overtaken

CreateInv == RegisteredHasLog /\ \A c \in Clients : ClientInv(c)
=============================================================================
