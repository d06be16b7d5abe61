------------------------- MODULE CreateTableProofs -------------------------
(***************************************************************************)
(* Proofs about CreateTable: a registered table keeps its version 0, a     *)
(* clean-up removes the files of its own create only, a create that fails  *)
(* leaves no version 0 behind, and one that succeeds made the table.       *)
(***************************************************************************)
EXTENDS CreateTable, TLAPS

LEMMA FinishTypes ==
  ASSUME TypeOK, NEW c \in Clients, NEW r \in Outcomes, Finish(c, r)
  PROVE  /\ pc' = [pc EXCEPT ![c] = "idle"]
         /\ outcome' \in [Clients -> Outcomes]
         /\ place' = [place EXCEPT ![c] = Nowhere]
         /\ name' = name
BY DEF TypeOK, Finish, Goto

LEMMA GiveUpTypes ==
  ASSUME TypeOK, NEW c \in Clients, NEW r \in Outcomes, GiveUp(c, r)
  PROVE  /\ outcome' \in [Clients -> Outcomes]
         /\ name' = name
         /\ \/ /\ place[c] \in External
               /\ pc' = [pc EXCEPT ![c] = "exists"]
               /\ place' = place
            \/ /\ place[c] \notin External
               /\ pc' = [pc EXCEPT ![c] = "idle"]
               /\ place' = [place EXCEPT ![c] = Nowhere]
BY DEF TypeOK, GiveUp, Finish, Goto, callVars

\* What a step of a client does to pc and place, to keep them in their types
LEMMA MoveTypes ==
  ASSUME TypeOK, NEW c \in Clients,
         \/ /\ pc' = [pc EXCEPT ![c] = "idle"]
            /\ place' = [place EXCEPT ![c] = Nowhere]
         \/ /\ place' = place
            /\ \/ pc' = [pc EXCEPT ![c] = "write"] /\ place[c] \in Places
               \/ \E l \in Writing :
                    pc' = [pc EXCEPT ![c] = l] /\ place[c] \in Places
               \/ \E l \in Cleaning :
                    pc' = [pc EXCEPT ![c] = l] /\ place[c] \in External
  PROVE  /\ pc' \in [Clients -> {"idle", "check", "stage", "write"}
                                  \cup Writing \cup Cleaning]
         /\ place' \in [Clients -> Places \cup {Nowhere}]
         /\ \A d \in Clients :
              pc'[d] \in {"write"} \cup Writing => place'[d] \in Places
         /\ \A d \in Clients :
              pc'[d] \in {"check"} \cup Cleaning => place'[d] \in External
BY DEF TypeOK, Writing, Cleaning

LEMMA TypeStep ==
  ASSUME TypeOK, [Next]_vars
  PROVE  TypeOK'
<1>. USE CreateAssumption
<1>0. /\ "error" \in Outcomes /\ "created" \in Outcomes /\ "none" \in Outcomes
      /\ NameTaken \subseteq Outcomes
      /\ \A c \in Clients : outcome[c] \in Outcomes /\ name[c] \in Names
  BY DEF TypeOK, Outcomes, NameTaken
<1>1. ASSUME NEW c \in Clients, Start(c) PROVE TypeOK'
  BY <1>0, <1>1
  DEF Start, Goto, TypeOK, Places, Writing, Cleaning, serverVars
<1>2. ASSUME NEW c \in Clients, PrepareStep(c) PROVE TypeOK'
  <2>1. CASE CheckName(c)
    <3>1. CASE IsFree(name[c])
      BY <2>1, <3>1 DEF CheckName, Goto, TypeOK, Places, Writing, Cleaning, serverVars, callVars
    <3>2. CASE ~IsFree(name[c])
      BY <1>0, <2>1, <3>2, FinishTypes, MoveTypes DEF CheckName, TypeOK, serverVars
    <3>. QED
      BY <3>1, <3>2
  <2>2. CASE CreateStagingTable(c)
    <3>1. CASE IsFree(name[c])
      BY <2>2, <3>1
      DEF CreateStagingTable, Goto, TypeOK, Places, Writing, Cleaning
    <3>2. CASE ~IsFree(name[c])
      BY <1>0, <2>2, <3>2, FinishTypes, MoveTypes
      DEF CreateStagingTable, TypeOK
    <3>. QED
      BY <3>1, <3>2
  <2>3. CASE PrepareFails(c)
    BY <1>0, <2>3, FinishTypes, MoveTypes DEF PrepareFails, TypeOK, serverVars
  <2>. QED
    BY <1>2, <2>1, <2>2, <2>3 DEF PrepareStep
<1>3. ASSUME NEW c \in Clients, WriteStep(c) PROVE TypeOK'
  <2>1. CASE WriteVersionZero(c)
    BY <2>1 DEF WriteVersionZero, Goto, TypeOK, Writing, Cleaning, serverVars, callVars
  <2>2. CASE WriteRefused(c)
    BY <1>0, <2>2, FinishTypes, MoveTypes DEF WriteRefused, TypeOK, serverVars
  <2>3. CASE ReadCommittedTable(c)
    BY <2>3 DEF ReadCommittedTable, Goto, TypeOK, Writing, Cleaning, serverVars, callVars
  <2>4. CASE ReadCommittedTableFails(c)
    BY <1>0, <2>4, FinishTypes, MoveTypes
    DEF ReadCommittedTableFails, Abandon, TypeOK, Places, serverVars
  <2>. QED
    BY <1>3, <2>1, <2>2, <2>3, <2>4 DEF WriteStep
<1>4. ASSUME NEW c \in Clients, RegisterStep(c) PROVE TypeOK'
  <2>0. pc[c] \in Writing /\ place[c] \in Places
    BY <1>4 DEF RegisterStep, Registered, RegisterConflict, RegisterFails,
                RegisterInterrupted, UnclearRegistration, Recover,
                RecoverFails, Writing, TypeOK
  <2>1. CASE Registered(c)
    BY <1>0, <2>0, <2>1, FinishTypes, MoveTypes DEF Registered, Register, TypeOK
  <2>2. CASE RegisterConflict(c)
    BY <1>0, <2>0, <2>2, GiveUpTypes, MoveTypes
    DEF RegisterConflict, Cleaning, TypeOK, serverVars
  <2>3. ASSUME UnclearRegistration(c)
        PROVE  /\ registered' \in [Names -> Places \cup {Nowhere}]
               /\ late' \subseteq Names \X Places
    BY <1>0, <2>0, <2>3 DEF UnclearRegistration, Register, TypeOK
  <2>4. CASE RegisterFails(c)
    BY <2>0, <2>3, <2>4, MoveTypes
    DEF RegisterFails, Goto, Writing, TypeOK, callVars
  <2>5. CASE RegisterInterrupted(c)
    BY <1>0, <2>0, <2>3, <2>5, GiveUpTypes, MoveTypes
    DEF RegisterInterrupted, Cleaning, TypeOK
  <2>6. CASE Recover(c)
    <3>1. CASE registered[name[c]] = place[c]
      BY <1>0, <2>6, <3>1, FinishTypes, MoveTypes DEF Recover, TypeOK, serverVars
    <3>2. CASE registered[name[c]] # place[c]
      BY <1>0, <2>6, <3>2, GiveUpTypes, MoveTypes
      DEF Recover, Cleaning, TypeOK, serverVars
    <3>. QED
      BY <3>1, <3>2
  <2>7. CASE RecoverFails(c)
    BY <1>0, <2>7, GiveUpTypes, MoveTypes
    DEF RecoverFails, Cleaning, TypeOK, serverVars
  <2>. QED
    BY <1>4, <2>1, <2>2, <2>4, <2>5, <2>6, <2>7 DEF RegisterStep
<1>5. ASSUME NEW c \in Clients, CleanupStep(c) PROVE TypeOK'
  <2>0. pc[c] \in Cleaning /\ place[c] \in External
    BY <1>5 DEF CleanupStep, CleanupExists, CleanupLoad, RemoveVersionZero,
                CleanupFails, Cleaning, TypeOK
  <2>1. CASE CleanupExists(c)
    BY <2>0, <2>1, MoveTypes
    DEF CleanupExists, Goto, Cleaning, TypeOK, serverVars, callVars
  <2>2. CASE CleanupLoad(c)
    <3>1. CASE registered[name[c]] = place[c]
      BY <1>0, <2>2, <3>1, FinishTypes, MoveTypes
      DEF CleanupLoad, TypeOK, serverVars
    <3>2. CASE registered[name[c]] # place[c]
      BY <2>0, <2>2, <3>2, MoveTypes
      DEF CleanupLoad, Goto, Cleaning, TypeOK, serverVars, callVars
    <3>. QED
      BY <3>1, <3>2
  <2>3. CASE RemoveVersionZero(c)
    BY <1>0, <2>3, FinishTypes, MoveTypes
    DEF RemoveVersionZero, TypeOK, serverVars
  <2>4. CASE CleanupFails(c)
    BY <1>0, <2>4, FinishTypes, MoveTypes
    DEF CleanupFails, Abandon, TypeOK, Places, serverVars
  <2>. QED
    BY <1>5, <2>1, <2>2, <2>3, <2>4 DEF CleanupStep
<1>6. ASSUME NEW c \in Clients, Kill(c) PROVE TypeOK'
  BY <1>0, <1>6, FinishTypes, MoveTypes
  DEF Kill, Abandon, TypeOK, Places, serverVars
<1>7. ASSUME NEW n \in Names, NEW p \in Places, LateRegistration(n, p)
      PROVE  TypeOK'
  BY <1>7 DEF LateRegistration, Register, TypeOK, callVars
<1>8. CASE UNCHANGED vars
  BY <1>8 DEF vars, serverVars, callVars, TypeOK
<1>. QED
  BY <1>1, <1>2, <1>3, <1>4, <1>5, <1>6, <1>7, <1>8 DEF Next

\* Every reachable state is well typed, for any number of clients, names,
\* places and kills.
THEOREM TypeCorrect == Spec => []TypeOK
<1>1. Init => TypeOK
  BY CreateAssumption DEF Init, TypeOK, Outcomes, Writing, Cleaning
<1>2. TypeOK /\ [Next]_vars => TypeOK'
  BY TypeStep
<1>. QED
  BY <1>1, <1>2, PTL DEF Spec

-----------------------------------------------------------------------------

\* A client whose place keeps its files, and whose place no other name comes
\* to be registered at, unless late.
LEMMA ClientKept ==
  ASSUME NEW d \in Clients, ClientInv(d),
         pc'[d] \in InFlight =>
           /\ pc[d] \in InFlight
           /\ pc'[d] = "remove" => pc[d] = "remove"
           /\ place'[d] = place[d] /\ name'[d] = name[d]
           /\ log'[place[d]] = log[place[d]]
           /\ \A n \in Names :
                registered'[n] = place[d] =>
                  registered[n] = place[d] \/ <<n, place[d]>> \in overtaken',
         overtaken \subseteq overtaken'
  PROVE  ClientInv(d)'
BY DEF ClientInv, InFlight, Cleaning

\* Two clients in flight are at two places.
LEMMA PlacesApart ==
  ASSUME NEW c \in Clients, NEW d \in Clients, ClientInv(c), ClientInv(d),
         pc[c] \in InFlight, pc[d] \in InFlight, place[c] = place[d]
  PROVE  c = d
BY DEF ClientInv

\* Steps that touch neither the log nor the server's tables, and bring no
\* client into flight or to the removal of files
LEMMA QuietStep ==
  ASSUME CreateInv, NEW c \in Clients,
         UNCHANGED <<registered, overtaken, log>>,
         \A d \in Clients \ {c} :
           pc'[d] = pc[d] /\ place'[d] = place[d] /\ name'[d] = name[d],
         pc'[c] \in InFlight =>
           /\ pc[c] \in InFlight /\ pc'[c] # "remove"
           /\ place'[c] = place[c] /\ name'[c] = name[c]
  PROVE  CreateInv'
<1>1. ASSUME NEW d \in Clients PROVE ClientInv(d)'
  BY <1>1, ClientKept DEF CreateInv
<1>. QED
  BY <1>1 DEF CreateInv, RegisteredHasLog

\* The step of c registers its table under its name.
LEMMA RegisterKeeps ==
  ASSUME TypeOK, CreateInv, NEW c \in Clients,
         pc[c] = "register", registered' = [registered EXCEPT ![name[c]] = place[c]],
         UNCHANGED <<overtaken, log, name>>,
         \A d \in Clients \ {c} : pc'[d] = pc[d] /\ place'[d] = place[d],
         pc'[c] # "remove",
         pc'[c] \in InFlight => place'[c] = place[c]
  PROVE  CreateInv'
<1>0. /\ pc[c] \in InFlight /\ log[place[c]] = c /\ c # NoOne
      /\ name[c] \in Names /\ registered \in [Names -> Places \cup {Nowhere}]
  BY CreateAssumption DEF CreateInv, ClientInv, InFlight, Writing, TypeOK
<1>1. ClientInv(c)'
  BY <1>0 DEF CreateInv, ClientInv
<1>2. ASSUME NEW d \in Clients \ {c} PROVE ClientInv(d)'
  <2>1. pc[d] \in InFlight => place[d] # place[c]
    BY <1>0, <1>2, PlacesApart DEF CreateInv
  <2>. QED
    BY <1>0, <1>2, <2>1, ClientKept DEF CreateInv
<1>3. RegisteredHasLog'
  BY <1>0 DEF CreateInv, RegisteredHasLog
<1>. QED
  BY <1>1, <1>2, <1>3 DEF CreateInv

LEMMA InvStep ==
  ASSUME TypeOK, CreateInv, [Next]_vars
  PROVE  CreateInv'
<1>. USE CreateAssumption DEF Goto, InFlight, Writing, Cleaning
<1>0. /\ pc \in [Clients -> {"idle", "check", "stage", "write"}
                              \cup Writing \cup Cleaning]
      /\ name \in [Clients -> Names]
      /\ place \in [Clients -> Places \cup {Nowhere}]
      /\ log \in [Places -> Clients \cup {NoOne}]
      /\ registered \in [Names -> Places \cup {Nowhere}]
  BY DEF TypeOK
<1>1. ASSUME NEW c \in Clients, Start(c) PROVE CreateInv'
  BY <1>0, <1>1, QuietStep DEF Start, serverVars
<1>2. ASSUME NEW c \in Clients, PrepareStep(c) PROVE CreateInv'
  BY <1>0, <1>2, QuietStep
  DEF PrepareStep, CheckName, CreateStagingTable, PrepareFails, Finish,
      serverVars, callVars
<1>3. ASSUME NEW c \in Clients, WriteStep(c) PROVE CreateInv'
  <2>1. CASE WriteVersionZero(c)
    <3>1. place[c] \in Places
      BY <2>1 DEF WriteVersionZero, TypeOK
    <3>2. \A n \in Names :
            registered[n] = place[c] => <<n, place[c]>> \in overtaken
      BY <2>1, <3>1
      DEF WriteVersionZero, CreateInv, RegisteredHasLog, Places
    <3>3. ClientInv(c)'
      BY <1>0, <2>1, <3>1, <3>2
      DEF WriteVersionZero, ClientInv, serverVars, callVars
    <3>4. ASSUME NEW d \in Clients \ {c} PROVE ClientInv(d)'
      <4>1. pc[d] \in InFlight => place[d] # place[c]
        BY <2>1, <3>4 DEF WriteVersionZero, CreateInv, ClientInv
      <4>. QED
        BY <1>0, <2>1, <3>1, <3>4, <4>1, ClientKept
        DEF WriteVersionZero, CreateInv, serverVars, callVars
    <3>5. RegisteredHasLog'
      BY <1>0, <2>1, <3>1
      DEF WriteVersionZero, CreateInv, RegisteredHasLog, serverVars
    <3>. QED
      BY <3>3, <3>4, <3>5 DEF CreateInv
  <2>2. CASE WriteRefused(c) \/ ReadCommittedTable(c)
              \/ ReadCommittedTableFails(c)
    BY <1>0, <2>2, QuietStep
    DEF WriteRefused, ReadCommittedTable, ReadCommittedTableFails, Finish,
        serverVars, callVars
  <2>. QED
    BY <1>3, <2>1, <2>2 DEF WriteStep
<1>4. ASSUME NEW c \in Clients, RegisterStep(c) PROVE CreateInv'
  <2>1. CASE Registered(c)
    BY <1>0, <2>1, RegisterKeeps DEF Registered, Register, Finish
  <2>2. CASE RegisterConflict(c) \/ Recover(c) \/ RecoverFails(c)
    BY <1>0, <2>2, QuietStep
    DEF RegisterConflict, Recover, RecoverFails, GiveUp, Finish, serverVars,
        callVars
  <2>3. CASE RegisterFails(c) \/ RegisterInterrupted(c)
    <3>1. CASE UNCHANGED registered
      BY <1>0, <2>3, <3>1, QuietStep
      DEF RegisterFails, RegisterInterrupted, UnclearRegistration, GiveUp,
          Finish, callVars
    <3>2. CASE ~UNCHANGED registered
      BY <1>0, <2>3, <3>2, RegisterKeeps
      DEF RegisterFails, RegisterInterrupted, UnclearRegistration, Register,
          GiveUp, Finish, callVars
    <3>. QED
      BY <3>1, <3>2
  <2>. QED
    BY <1>4, <2>1, <2>2, <2>3 DEF RegisterStep
<1>5. ASSUME NEW c \in Clients, CleanupStep(c) PROVE CreateInv'
  <2>1. CASE (CleanupExists(c) \/ CleanupLoad(c)) /\ pc'[c] = "remove"
    <3>0. pc[c] \in InFlight
      BY <2>1 DEF CleanupExists, CleanupLoad
    <3>1. registered[name[c]] # place[c]
      BY <1>0, <2>1 DEF CleanupExists, CleanupLoad, IsFree, Finish, TypeOK, Places
    <3>2. \A n \in Names :
            registered[n] = place[c] => <<n, place[c]>> \in overtaken
      BY <3>0, <3>1 DEF CreateInv, ClientInv
    <3>3. UNCHANGED <<log, registered, overtaken, name, place>>
      BY <1>0, <2>1 DEF CleanupExists, CleanupLoad, Finish, serverVars, callVars
    <3>4. ClientInv(c)'
      BY <3>0, <3>2, <3>3 DEF CreateInv, ClientInv
    <3>5. ASSUME NEW d \in Clients \ {c} PROVE ClientInv(d)'
      BY <1>0, <2>1, <3>3, <3>5, ClientKept
      DEF CleanupExists, CleanupLoad, Finish, CreateInv
    <3>. QED
      BY <3>3, <3>4, <3>5 DEF CreateInv, RegisteredHasLog
  <2>2. CASE (CleanupExists(c) \/ CleanupLoad(c)) /\ pc'[c] # "remove"
    BY <1>0, <2>2, QuietStep
    DEF CleanupExists, CleanupLoad, Finish, serverVars, callVars
  <2>3. CASE RemoveVersionZero(c)
    <3>1. /\ pc[c] \in InFlight
          /\ place[c] \in Places
          /\ \A n \in Names :
               registered[n] = place[c] => <<n, place[c]>> \in overtaken
      BY <2>3 DEF RemoveVersionZero, CreateInv, ClientInv, TypeOK, Places
    <3>2. ClientInv(c)'
      BY <1>0, <2>3 DEF RemoveVersionZero, Finish, ClientInv
    <3>3. ASSUME NEW d \in Clients \ {c} PROVE ClientInv(d)'
      <4>1. pc[d] \in InFlight => place[d] # place[c]
        BY <3>1, <3>3, PlacesApart DEF CreateInv
      <4>. QED
        BY <1>0, <2>3, <3>3, <4>1, ClientKept
        DEF RemoveVersionZero, Finish, CreateInv, serverVars
    <3>4. RegisteredHasLog'
      BY <1>0, <2>3, <3>1
      DEF RemoveVersionZero, CreateInv, RegisteredHasLog, serverVars
    <3>. QED
      BY <3>2, <3>3, <3>4 DEF CreateInv
  <2>4. CASE CleanupFails(c)
    BY <1>0, <2>4, QuietStep DEF CleanupFails, Finish, serverVars
  <2>. QED
    BY <1>5, <2>1, <2>2, <2>3, <2>4 DEF CleanupStep
<1>6. ASSUME NEW c \in Clients, Kill(c) PROVE CreateInv'
  BY <1>0, <1>6, QuietStep DEF Kill, Finish, serverVars
<1>7. ASSUME NEW n \in Names, NEW p \in Places, LateRegistration(n, p)
      PROVE  CreateInv'
  <2>1. ASSUME NEW d \in Clients PROVE ClientInv(d)'
    BY <1>0, <1>7, <2>1, ClientKept
    DEF LateRegistration, Register, CreateInv, callVars
  <2>2. RegisteredHasLog'
    BY <1>0, <1>7 DEF LateRegistration, Register, CreateInv, RegisteredHasLog
  <2>. QED
    BY <2>1, <2>2 DEF CreateInv
<1>8. CASE UNCHANGED vars
  <2>1. ASSUME NEW d \in Clients PROVE ClientInv(d)'
    BY <1>8, <2>1, ClientKept DEF vars, serverVars, callVars, CreateInv
  <2>. QED
    BY <1>8, <2>1 DEF vars, serverVars, CreateInv, RegisteredHasLog
<1>. QED
  BY <1>1, <1>2, <1>3, <1>4, <1>5, <1>6, <1>7, <1>8 DEF Next

LEMMA Reachable == Spec => [](TypeOK /\ CreateInv)
<1>1. Init => CreateInv
  BY DEF Init, CreateInv, RegisteredHasLog, ClientInv, InFlight, Writing,
         Cleaning
<1>. QED
  BY <1>1, InvStep, TypeCorrect, PTL DEF Spec

\* No clean-up removes the version 0 of a table the server lists, unless the
\* server only listed it after the client had looked.
THEOREM RegisteredKeepsLog == Spec => []RegisteredHasLog
<1>1. CreateInv => RegisteredHasLog
  BY DEF CreateInv
<1>. QED
  BY <1>1, Reachable, PTL

\* A clean-up removes the files that its own create wrote.
THEOREM CleanupIsOwn == Spec => []CleanupRemovesOwn
<1>1. CreateInv => CleanupRemovesOwn
  BY DEF CreateInv, ClientInv, CleanupRemovesOwn, InFlight, Cleaning
<1>. QED
  BY <1>1, Reachable, PTL

\* A create that reports success made the table registered under its name.
THEOREM SuccessIsOurs == Spec => CreatedIsOurs
<1>1. ASSUME TypeOK, CreateInv, [Next]_vars, NEW c \in Clients,
             outcome'[c] = "created", outcome[c] # "created"
      PROVE  registered'[name[c]] = place[c] /\ log[place[c]] = c
  <2>. USE <1>1 DEF Finish, GiveUp, NameTaken
  <2>0. outcome \in [Clients -> Outcomes]
    BY DEF TypeOK
  <2>1. Registered(c) \/ (Recover(c) /\ registered[name[c]] = place[c])
    <3>1. ASSUME NEW d \in Clients, Start(d) PROVE FALSE
      BY <2>0, <3>1 DEF Start
    <3>2. ASSUME NEW d \in Clients, PrepareStep(d) PROVE FALSE
      BY <2>0, <3>2
      DEF PrepareStep, CheckName, CreateStagingTable, PrepareFails
    <3>3. ASSUME NEW d \in Clients, WriteStep(d) PROVE FALSE
      BY <2>0, <3>3
      DEF WriteStep, WriteVersionZero, WriteRefused, ReadCommittedTable,
          ReadCommittedTableFails
    <3>4. ASSUME NEW d \in Clients, RegisterStep(d)
          PROVE  Registered(c) \/ (Recover(c) /\ registered[name[c]] = place[c])
      BY <2>0, <3>4
      DEF RegisterStep, Registered, RegisterConflict, RegisterFails,
          RegisterInterrupted, Recover, RecoverFails
    <3>5. ASSUME NEW d \in Clients, CleanupStep(d) PROVE FALSE
      BY <2>0, <3>5
      DEF CleanupStep, CleanupExists, CleanupLoad, RemoveVersionZero,
          CleanupFails
    <3>6. ASSUME NEW d \in Clients, Kill(d) PROVE FALSE
      BY <2>0, <3>6 DEF Kill
    <3>7. ASSUME NEW n \in Names, NEW p \in Places, LateRegistration(n, p)
          PROVE  FALSE
      BY <3>7 DEF LateRegistration
    <3>8. CASE UNCHANGED vars
      BY <3>8 DEF vars
    <3>. QED
      BY <3>1, <3>2, <3>3, <3>4, <3>5, <3>6, <3>7, <3>8 DEF Next
  <2>2. pc[c] \in InFlight
    BY <2>1 DEF Registered, Recover, InFlight, Writing
  <2>3. registered'[name[c]] = place[c]
    BY <2>1 DEF Registered, Register, Recover, TypeOK, serverVars
  <2>. QED
    BY <2>2, <2>3 DEF CreateInv, ClientInv
<1>2. TypeOK /\ CreateInv /\ [Next]_vars =>
        [\A c \in Clients :
           (outcome'[c] = "created" /\ outcome[c] # "created") =>
             registered'[name[c]] = place[c] /\ log[place[c]] = c]_vars
  BY <1>1
<1>. QED
  BY <1>2, Reachable, PTL DEF Spec, CreatedIsOurs

-----------------------------------------------------------------------------

\* A step of c after which c is done with its place, or still in flight there
LEMMA OrphanKept ==
  ASSUME NoOrphan, NEW c \in Clients,
         UNCHANGED log,
         abandoned \subseteq abandoned',
         \A n \in Names : registered[n] # Nowhere => registered'[n] = registered[n],
         \A d \in Clients \ {c} : pc'[d] = pc[d] /\ place'[d] = place[d],
         pc[c] \in InFlight /\ place[c] \in External =>
           \/ pc'[c] \in InFlight /\ place'[c] = place[c]
           \/ place[c] \in abandoned'
           \/ \E n \in Names : registered'[n] = place[c]
  PROVE  NoOrphan'
<1>. USE CreateAssumption
<1>1. ASSUME NEW p \in External, log[p] # NoOne
      PROVE  \/ p \in abandoned'
             \/ \E n \in Names : registered'[n] = p
             \/ \E d \in Clients : place'[d] = p /\ pc'[d] \in InFlight
  <2>1. CASE p \in abandoned
    BY <2>1
  <2>2. CASE \E n \in Names : registered[n] = p
    <3>1. p # Nowhere
      OBVIOUS
    <3>. QED
      BY <2>2, <3>1
  <2>3. CASE \E d \in Clients : place[d] = p /\ pc[d] \in InFlight
    <3>1. PICK d \in Clients : place[d] = p /\ pc[d] \in InFlight
      BY <2>3
    <3>2. CASE d = c
      BY <3>1, <3>2
    <3>3. CASE d # c
      BY <3>1, <3>3
    <3>. QED
      BY <3>2, <3>3
  <2>. QED
    BY <1>1, <2>1, <2>2, <2>3 DEF NoOrphan
<1>. QED
  BY <1>1 DEF NoOrphan

LEMMA OrphanStep ==
  ASSUME TypeOK, NoOrphan, [Next]_vars
  PROVE  NoOrphan'
<1>. USE CreateAssumption DEF Goto, InFlight, Writing, Cleaning
<1>0. /\ pc \in [Clients -> {"idle", "check", "stage", "write"}
                              \cup Writing \cup Cleaning]
      /\ name \in [Clients -> Names]
      /\ place \in [Clients -> Places \cup {Nowhere}]
      /\ log \in [Places -> Clients \cup {NoOne}]
      /\ registered \in [Names -> Places \cup {Nowhere}]
  BY DEF TypeOK
<1>1. ASSUME NEW c \in Clients, Start(c) \/ PrepareStep(c) PROVE NoOrphan'
  BY <1>0, <1>1, OrphanKept
  DEF Start, PrepareStep, CheckName, CreateStagingTable, PrepareFails, Finish,
      serverVars, callVars
<1>2. ASSUME NEW c \in Clients, WriteStep(c) PROVE NoOrphan'
  <2>1. CASE WriteVersionZero(c)
    <3>1. place[c] \in Places
      BY <2>1 DEF WriteVersionZero, TypeOK
    <3>. QED
      BY <1>0, <2>1, <3>1
      DEF WriteVersionZero, NoOrphan, Places, serverVars, callVars
  <2>2. CASE WriteRefused(c) \/ ReadCommittedTable(c)
              \/ ReadCommittedTableFails(c)
    BY <1>0, <2>2, OrphanKept
    DEF WriteRefused, ReadCommittedTable, ReadCommittedTableFails, Finish,
        Abandon, serverVars, callVars
  <2>. QED
    BY <1>2, <2>1, <2>2 DEF WriteStep
<1>3. ASSUME NEW c \in Clients, RegisterStep(c) PROVE NoOrphan'
  <2>1. CASE Registered(c)
    <3>1. \E n \in Names : registered'[n] = place[c]
      BY <1>0, <2>1 DEF Registered, Register
    <3>. QED
      BY <1>0, <2>1, <3>1, OrphanKept
      DEF Registered, Register, IsFree, Finish
  <2>2. CASE RegisterConflict(c) \/ RecoverFails(c)
    BY <1>0, <2>2, OrphanKept
    DEF RegisterConflict, RecoverFails, GiveUp, Finish, serverVars, callVars
  <2>3. CASE Recover(c)
    BY <1>0, <2>3, OrphanKept DEF Recover, GiveUp, Finish, serverVars, callVars
  <2>4. CASE RegisterFails(c) \/ RegisterInterrupted(c)
    BY <1>0, <2>4, OrphanKept
    DEF RegisterFails, RegisterInterrupted, UnclearRegistration, Register,
        IsFree, GiveUp, Finish, callVars
  <2>. QED
    BY <1>3, <2>1, <2>2, <2>3, <2>4 DEF RegisterStep
<1>4. ASSUME NEW c \in Clients, CleanupStep(c) PROVE NoOrphan'
  <2>1. CASE CleanupExists(c) \/ CleanupLoad(c) \/ CleanupFails(c)
    BY <1>0, <2>1, OrphanKept
    DEF CleanupExists, CleanupLoad, CleanupFails, Finish, Abandon, serverVars,
        callVars
  <2>2. CASE RemoveVersionZero(c)
    <3>1. place[c] \in External
      BY <2>2 DEF RemoveVersionZero, TypeOK
    <3>. QED
      BY <1>0, <2>2, <3>1
      DEF RemoveVersionZero, Finish, NoOrphan, Places, serverVars
  <2>. QED
    BY <1>4, <2>1, <2>2 DEF CleanupStep
<1>5. ASSUME NEW c \in Clients, Kill(c) PROVE NoOrphan'
  BY <1>0, <1>5, OrphanKept DEF Kill, Finish, Abandon, serverVars
<1>6. ASSUME NEW n \in Names, NEW p \in Places, LateRegistration(n, p)
      PROVE  NoOrphan'
  BY <1>0, <1>6 DEF LateRegistration, Register, IsFree, NoOrphan, callVars,
                    Places
<1>7. CASE UNCHANGED vars
  BY <1>7 DEF vars, serverVars, callVars, NoOrphan
<1>. QED
  BY <1>1, <1>2, <1>3, <1>4, <1>5, <1>6, <1>7 DEF Next

\* A location holds a version 0 nobody registered only while its create is
\* under way, or when its clean-up failed or never ran.
THEOREM NothingIsOrphaned == Spec => []NoOrphan
<1>1. Init => NoOrphan
  BY DEF Init, NoOrphan, Places
<1>. QED
  BY <1>1, OrphanStep, TypeCorrect, PTL DEF Spec
=============================================================================
