-------------------------- MODULE DeploymentApiProofs --------------------------
(***************************************************************************)
(* Proofs about DeploymentApi: what the table of deployments claims has    *)
(* happened, whatever the workers do to each other and wherever they die;  *)
(* and as long as requests come one at a time, each row is deployed once   *)
(* and goes through the states of DeploymentLifecycle.                     *)
(***************************************************************************)
EXTENDS DeploymentApi, TLAPS

Started(d) == \E n \in 1..MaxLaunches : process[<<d, n>>] # "none"
HasEnded(d) == \E n \in 1..MaxLaunches : process[<<d, n>>] = "ended"

-----------------------------------------------------------------------------
(* At any time. *)

\* A request has a row, but for one that is to insert it.
HasRow == \A c \in Client : at[c] \notin {"idle", "insert"} => row[c] \in Deployment

\* What a request is about to save, it has launched.
LaunchedFirst ==
  \A c \in Client :
    /\ at[c] = "save" => Started(row[c])
    /\ at[c] = "saveRemoved" => row[c] \in undeploys

-----------------------------------------------------------------------------
(* As long as requests come one at a time and no worker dies. *)

OneAtATime == \A c, o \in Client : at[c] # "idle" /\ at[o] # "idle" => c = o

OneProcess ==
  \A d \in Deployment, m, n \in 1..MaxLaunches :
    process[<<d, m>>] # "none" /\ process[<<d, n>>] # "none" => m = n

\* The token is missing only until the request that launches has saved it.
TokenTells ==
  \A d \in Deployment :
    Started(d) => token[d] \/ \E c \in Client : at[c] = "save" /\ row[c] = d

\* Rows are inserted next to no working one, so one works at a time.
WorksAlone ==
  /\ \A d, e \in Deployment : state[d] = "working" /\ state[e] = "working" => d = e
  /\ \A c \in Client :
       /\ at[c] \in {"insert", "insertNew"} => NoOtherWorking(0)
       /\ at[c] \in {"launch", "save"} => NoOtherWorking(row[c])

\* Only working rows are deployed, and work until their process ends.
DeploysWorking ==
  /\ \A c \in Client : at[c] = "launch" =>
       state[row[c]] = "working" /\ ~Started(row[c])
  /\ \A d \in Deployment, n \in 1..MaxLaunches :
       process[<<d, n>>] = "running" => state[d] = "working"

\* Only successes are removed, or followed by the next deployment.
Follows(c) == at[c] \in {"launchUndeploy", "saveRemoved", "validateNew",
                         "insertNew", "launchCommit", "saveCommit"}
RemovesSuccess ==
  /\ \A d \in undeploys \union commits :
       HasEnded(d) /\ state[d] \in {"success", "removed"}
  /\ \A c \in Client : Follows(c) =>
       HasEnded(row[c]) /\ state[row[c]] \in {"success", "removed"}

RemovalSaved ==
  \A d \in undeploys :
    state[d] = "removed" \/ \E c \in Client : at[c] = "saveRemoved" /\ row[c] = d

OrderlyInv ==
  /\ OneAtATime /\ OneProcess /\ TokenTells /\ WorksAlone
  /\ DeploysWorking /\ RemovesSuccess /\ RemovalSaved

BackedInv == TypeOK /\ HasRow /\ LaunchedFirst /\ OutcomesBacked
IInv == BackedInv /\ (orderly => OrderlyInv)

-----------------------------------------------------------------------------
LEMMA InitInductive == Init => IInv
<1> SUFFICES ASSUME Init PROVE IInv
  OBVIOUS
<1> USE NAssumption, LaunchesAssumption DEF Init
<1>1. \A d \in Deployment, n \in 1..MaxLaunches : process[<<d, n>>] = "none"
  BY DEF Process
<1>2. TypeOK
  BY DEF TypeOK, RowStates, Process
<1>3. HasRow /\ LaunchedFirst /\ OutcomesBacked
  BY <1>1 DEF HasRow, LaunchedFirst, OutcomesBacked
<1>4. OrderlyInv
  BY <1>1 DEF OrderlyInv, OneAtATime, OneProcess, TokenTells, WorksAlone,
     DeploysWorking, RemovesSuccess, RemovalSaved, Started, HasEnded, Follows,
     NoOtherWorking
<1> QED
  BY <1>2, <1>3, <1>4 DEF IInv, BackedInv

\* What a launch and the end of a process do to the processes, row by row.
LEMMA LaunchSets ==
  ASSUME TypeOK, NEW c \in Client, row[c] \in Deployment, DeployLaunch(c)
  PROVE  \E k \in 1..MaxLaunches :
           /\ process[<<row[c], k>>] = "none"
           /\ \A d \in Deployment, n \in 1..MaxLaunches :
                process'[<<d, n>>] = IF d = row[c] /\ n = k THEN "running"
                                     ELSE process[<<d, n>>]
<1>1. PICK k \in 1..MaxLaunches :
        /\ process[<<row[c], k>>] = "none"
        /\ process' = [process EXCEPT ![<<row[c], k>>] = "running"]
  BY DEF DeployLaunch
<1> QED
  BY <1>1 DEF TypeOK, Process

LEMMA StoreSets ==
  ASSUME TypeOK, NEW p \in Process, StoreInfo(p)
  PROVE  \E e \in Deployment, k \in 1..MaxLaunches :
           /\ process[<<e, k>>] = "running"
           /\ \A d \in Deployment, n \in 1..MaxLaunches :
                process'[<<d, n>>] = IF d = e /\ n = k THEN "ended"
                                     ELSE process[<<d, n>>]
           /\ state'[e] \in {"success", "failure"}
           /\ \A d \in Deployment : d # e => state'[d] = state[d]
           /\ state' = [state EXCEPT ![e] = state'[e]]
           /\ UNCHANGED <<token, undeploys, commits, at, copy, orderly>>
<1>1. PICK e \in Deployment, k \in 1..MaxLaunches : p = <<e, k>>
  BY DEF Process
<1>2. /\ process[<<e, k>>] = "running"
      /\ process' = [process EXCEPT ![<<e, k>>] = "ended"]
      /\ UNCHANGED <<token, undeploys, commits, at, copy, orderly>>
      /\ \E s \in {"success", "failure"} : state' = [state EXCEPT ![e] = s]
  BY <1>1 DEF StoreInfo
<1>3. \A d \in Deployment, n \in 1..MaxLaunches :
        process'[<<d, n>>] = IF d = e /\ n = k THEN "ended" ELSE process[<<d, n>>]
  BY <1>2 DEF TypeOK, Process
<1>4. /\ state'[e] \in {"success", "failure"}
      /\ \A d \in Deployment : d # e => state'[d] = state[d]
      /\ state' = [state EXCEPT ![e] = state'[e]]
  BY <1>2 DEF TypeOK
<1> QED
  BY <1>2, <1>3, <1>4

\* Every step keeps the types, and the rows of the requests.
TableTyped ==
  state \in [Deployment -> RowStates] /\ token \in [Deployment -> BOOLEAN]
EngineTyped ==
  /\ process \in [Process -> {"none", "running", "ended"}]
  /\ undeploys \in SUBSET Deployment /\ commits \in SUBSET Deployment
RequestTyped ==
  /\ at \in [Client -> {"idle", "insert", "launch", "save", "launchUndeploy",
                        "saveRemoved", "validateNew", "insertNew",
                        "launchCommit", "saveCommit"}]
  /\ row \in [Client -> 0..N]
  /\ seenState \in [Client -> RowStates]
  /\ orderly \in BOOLEAN

LEMMA TypeParts == TypeOK <=> TableTyped /\ EngineTyped /\ RequestTyped
  BY DEF TypeOK, TableTyped, EngineTyped, RequestTyped

LEMMA StepTable == TypeOK /\ [Next]_vars => TableTyped'
<1> SUFFICES ASSUME TypeOK, [Next]_vars PROVE TableTyped'
  OBVIOUS
<1>0. TableTyped
  BY TypeParts
<1> USE DEF TableTyped, RowStates
<1>1. CASE UNCHANGED table
  BY <1>0, <1>1 DEF table
<1>2. ASSUME NEW c \in Client, CreateInsert(c) \/ CommitInsert(c)
      PROVE  TableTyped'
  BY <1>0, <1>2 DEF CreateInsert, CommitInsert, Insert
<1>3. ASSUME NEW c \in Client, DeploySave(c) \/ UndeploySave(c)
      PROVE  TableTyped'
  BY <1>0, <1>3 DEF DeploySave, UndeploySave
<1>4. ASSUME NEW d, SetStateRemoved(d) PROVE TableTyped'
  BY <1>0, <1>4 DEF SetStateRemoved
<1>5. ASSUME NEW p \in Process, StoreInfo(p) PROVE TableTyped'
  BY <1>0, <1>5 DEF StoreInfo
<1> QED
  BY <1>1, <1>2, <1>3, <1>4, <1>5 DEF Next, vars, CreateValidate, DeployLaunch,
     UndeployLaunch, CommitValidate, CommitLaunch, CommitSave, Crash, DeployLoad,
     UndeployLoad, CommitLoad

LEMMA StepEngine == TypeOK /\ HasRow /\ [Next]_vars => EngineTyped'
<1> SUFFICES ASSUME TypeOK, HasRow, [Next]_vars PROVE EngineTyped'
  OBVIOUS
<1>0. EngineTyped
  BY TypeParts
<1> USE DEF EngineTyped
<1>1. CASE UNCHANGED engine
  BY <1>0, <1>1 DEF engine
<1>2. ASSUME NEW c \in Client, DeployLaunch(c) PROVE EngineTyped'
  BY <1>0, <1>2 DEF DeployLaunch
<1>3. ASSUME NEW c \in Client, UndeployLaunch(c) \/ CommitLaunch(c)
      PROVE  EngineTyped'
  BY <1>0, <1>3 DEF UndeployLaunch, CommitLaunch, HasRow
<1>4. ASSUME NEW p \in Process, StoreInfo(p) PROVE EngineTyped'
  BY <1>0, <1>4 DEF StoreInfo
<1> QED
  BY <1>1, <1>2, <1>3, <1>4 DEF Next, vars, engine, CreateValidate, CreateInsert,
     DeploySave, UndeploySave, CommitValidate, CommitInsert, CommitSave, Crash,
     DeployLoad, UndeployLoad, CommitLoad, SetStateRemoved

\* The steps of a request: it begins, with a row or to insert one, goes on
\* with the row it has, or ends.
GoesOn(c) ==
  /\ at[c] # "idle" /\ at' = [at EXCEPT ![c] = at'[c]]
  /\ <<at[c], at'[c]>> \in {<<"launch", "save">>, <<"launchUndeploy", "saveRemoved">>,
       <<"validateNew", "insertNew">>, <<"insertNew", "launchCommit">>,
       <<"launchCommit", "saveCommit">>}
  /\ at[c] = "launch" => DeployLaunch(c)
  /\ at[c] = "launchUndeploy" => UndeployLaunch(c)
  /\ UNCHANGED <<copy, orderly>>
Begins(c) ==
  /\ Begin(c, at'[c])
  /\ \/ at'[c] = "insert" /\ UNCHANGED copy
     \/ /\ at'[c] \in {"launch", "launchUndeploy", "validateNew"}
        /\ \E d \in Deployment : Load(c, d)
Ends(c) ==
  at[c] # "idle" /\ Answer(c) /\ (orderly' = orderly \/ orderly' = FALSE)

LEMMA RequestMoves ==
  ASSUME TypeOK, [Next]_vars
  PROVE  \/ UNCHANGED <<at, copy, orderly>>
         \/ \E c \in Client : GoesOn(c) \/ Begins(c) \/ Ends(c)
<1> USE DEF TypeOK
<1>1. ASSUME NEW c \in Client, CreateValidate(c) PROVE Begins(c)
  BY <1>1 DEF CreateValidate, Begins, Begin
<1>2. ASSUME NEW c \in Client, NEW d \in Deployment,
             DeployLoad(c, d) \/ UndeployLoad(c, d) \/ CommitLoad(c, d)
      PROVE  Begins(c)
  BY <1>2 DEF DeployLoad, UndeployLoad, CommitLoad, Begins, Begin
<1>3. ASSUME NEW c \in Client,
             \/ CreateInsert(c) \/ DeploySave(c) \/ UndeploySave(c)
             \/ CommitSave(c) \/ Crash(c)
      PROVE  Ends(c)
  BY <1>3 DEF CreateInsert, DeploySave, UndeploySave, CommitSave, Crash, Ends
<1>4. ASSUME NEW c \in Client,
             \/ DeployLaunch(c) \/ UndeployLaunch(c) \/ CommitInsert(c)
             \/ CommitLaunch(c)
      PROVE  GoesOn(c)
  BY <1>4 DEF DeployLaunch, UndeployLaunch, CommitInsert, CommitLaunch, GoesOn
<1>5. ASSUME NEW c \in Client, CommitValidate(c) PROVE GoesOn(c) \/ Ends(c)
  BY <1>5 DEF CommitValidate, GoesOn, Ends
<1> QED
  BY <1>1, <1>2, <1>3, <1>4, <1>5 DEF Next, vars, SetStateRemoved, StoreInfo

LEMMA StepRequests ==
  TypeOK /\ HasRow /\ [Next]_vars => RequestTyped' /\ HasRow'
<1> SUFFICES ASSUME TypeOK, HasRow, [Next]_vars PROVE RequestTyped' /\ HasRow'
  OBVIOUS
<1>0. /\ RequestTyped /\ state \in [Deployment -> RowStates]
      /\ Deployment \subseteq 0..N /\ 0 \in 0..N /\ "absent" \in RowStates
  BY TypeParts, NAssumption DEF TypeOK, Deployment, RowStates
<1> USE DEF RequestTyped, HasRow
<1>1. ASSUME NEW c \in Client, GoesOn(c) PROVE RequestTyped' /\ HasRow'
  BY <1>0, <1>1 DEF GoesOn, copy
<1>2. ASSUME NEW c \in Client, Begins(c) PROVE RequestTyped' /\ HasRow'
  BY <1>0, <1>2 DEF Begins, Begin, Load, copy
<1>3. ASSUME NEW c \in Client, Ends(c) PROVE RequestTyped' /\ HasRow'
  BY <1>0, <1>3 DEF Ends, Answer
<1> QED
  BY <1>0, <1>1, <1>2, <1>3, RequestMoves DEF copy

-----------------------------------------------------------------------------
(* What the table claims has happened. *)

\* No process is ever taken back.
LEMMA EngineGrows ==
  ASSUME TypeOK, HasRow, [Next]_vars
  PROVE  /\ \A d \in Deployment, n \in 1..MaxLaunches :
              /\ process[<<d, n>>] # "none" => process'[<<d, n>>] # "none"
              /\ process[<<d, n>>] = "ended" => process'[<<d, n>>] = "ended"
         /\ undeploys \subseteq undeploys' /\ commits \subseteq commits'
<1>1. CASE UNCHANGED engine
  BY <1>1 DEF engine
<1>2. ASSUME NEW c \in Client, DeployLaunch(c)
      PROVE  /\ UNCHANGED <<undeploys, commits>>
             /\ \A d \in Deployment, n \in 1..MaxLaunches :
                  /\ process[<<d, n>>] # "none" => process'[<<d, n>>] # "none"
                  /\ process[<<d, n>>] = "ended" => process'[<<d, n>>] = "ended"
  <2>1. row[c] \in Deployment /\ UNCHANGED <<undeploys, commits>>
    BY <1>2 DEF HasRow, DeployLaunch
  <2> QED
    BY <1>2, <2>1, LaunchSets
<1>3. ASSUME NEW c \in Client, UndeployLaunch(c) \/ CommitLaunch(c)
      PROVE  /\ undeploys \subseteq undeploys' /\ commits \subseteq commits'
             /\ UNCHANGED process
  BY <1>3 DEF UndeployLaunch, CommitLaunch
<1>4. ASSUME NEW p \in Process, StoreInfo(p)
      PROVE  /\ UNCHANGED <<undeploys, commits>>
             /\ \A d \in Deployment, n \in 1..MaxLaunches :
                  /\ process[<<d, n>>] # "none" => process'[<<d, n>>] # "none"
                  /\ process[<<d, n>>] = "ended" => process'[<<d, n>>] = "ended"
  BY <1>4, StoreSets
<1> QED
  BY <1>1, <1>2, <1>3, <1>4 DEF Next, vars, engine, CreateValidate, CreateInsert,
     DeploySave, UndeploySave, CommitValidate, CommitInsert, CommitSave, Crash,
     DeployLoad, UndeployLoad, CommitLoad, SetStateRemoved

LEMMA StepLaunchedFirst == BackedInv /\ [Next]_vars => LaunchedFirst'
<1> SUFFICES ASSUME BackedInv, [Next]_vars PROVE LaunchedFirst'
  OBVIOUS
<1> USE DEF BackedInv, LaunchedFirst, TypeOK
<1>1. /\ \A d \in Deployment : Started(d) => Started(d)'
      /\ undeploys \subseteq undeploys'
  BY EngineGrows DEF Started
<1>2. ASSUME NEW c \in Client, DeployLaunch(c) PROVE LaunchedFirst'
  <2>1. row[c] \in Deployment /\ row' = row
    BY <1>2 DEF HasRow, DeployLaunch, copy
  <2>2. Started(row[c])'
    BY <1>2, <2>1, LaunchSets DEF Started
  <2> QED
    BY <1>1, <1>2, <2>1, <2>2 DEF HasRow, DeployLaunch
<1>3. ASSUME NEW c \in Client, UndeployLaunch(c) PROVE LaunchedFirst'
  BY <1>1, <1>3 DEF HasRow, UndeployLaunch, copy
<1>4. ASSUME \A c \in Client : at'[c] \in {"save", "saveRemoved"} =>
               at'[c] = at[c] /\ row'[c] = row[c]
      PROVE  LaunchedFirst'
  BY <1>1, <1>4 DEF HasRow
<1>5. ASSUME NEW c \in Client, Begins(c) \/ Ends(c) PROVE LaunchedFirst'
  BY <1>4, <1>5 DEF Begins, Ends, Begin, Answer, Load, copy
<1>6. ASSUME NEW c \in Client,
             GoesOn(c), at[c] # "launch", at[c] # "launchUndeploy"
      PROVE  LaunchedFirst'
  BY <1>4, <1>6 DEF GoesOn, copy
<1>7. ASSUME NEW c \in Client, GoesOn(c) PROVE LaunchedFirst'
  BY <1>2, <1>3, <1>6, <1>7 DEF GoesOn
<1>8. CASE UNCHANGED <<at, copy, orderly>>
  BY <1>4, <1>8 DEF copy
<1> QED
  BY RequestMoves, <1>5, <1>7, <1>8

LEMMA StepOutcomes == BackedInv /\ [Next]_vars => OutcomesBacked'
<1> SUFFICES ASSUME BackedInv, [Next]_vars PROVE OutcomesBacked'
  OBVIOUS
<1> USE DEF BackedInv, OutcomesBacked, TypeOK
<1>1. /\ \A d \in Deployment : Started(d) => Started(d)'
      /\ \A d \in Deployment : HasEnded(d) => HasEnded(d)'
      /\ undeploys \subseteq undeploys' /\ commits \subseteq commits'
  BY EngineGrows DEF Started, HasEnded
<1> USE DEF Started, HasEnded
<1>2. CASE UNCHANGED table
  BY <1>1, <1>2 DEF table
<1>3. ASSUME NEW c \in Client, CreateInsert(c) \/ CommitInsert(c)
      PROVE  OutcomesBacked'
  <2>1. /\ UNCHANGED token
        /\ \A d \in Deployment : state'[d] = state[d] \/ state'[d] = "working"
    BY <1>3 DEF CreateInsert, CommitInsert, Insert
  <2> QED
    BY <1>1, <2>1
<1>4. ASSUME NEW c \in Client, DeploySave(c) PROVE OutcomesBacked'
  BY <1>1, <1>4 DEF DeploySave, HasRow, LaunchedFirst
<1>5. ASSUME NEW c \in Client, UndeploySave(c) PROVE OutcomesBacked'
  BY <1>1, <1>5 DEF UndeploySave, HasRow, LaunchedFirst
<1>6. ASSUME NEW d \in Deployment, SetStateRemoved(d) PROVE OutcomesBacked'
  BY <1>1, <1>6 DEF SetStateRemoved
<1>7. ASSUME NEW p \in Process, StoreInfo(p) PROVE OutcomesBacked'
  <2>1. PICK e \in Deployment, k \in 1..MaxLaunches :
           /\ process'[<<e, k>>] = "ended"
           /\ state'[e] \in {"success", "failure"}
           /\ \A d \in Deployment : d # e => state'[d] = state[d]
           /\ UNCHANGED token
    BY <1>7, StoreSets
  <2> QED
    BY <1>1, <2>1
<1> QED
  BY <1>2, <1>3, <1>4, <1>5, <1>6, <1>7 DEF Next, vars, CreateValidate,
     DeployLaunch, UndeployLaunch, CommitValidate, CommitLaunch, CommitSave,
     Crash, DeployLoad, UndeployLoad, CommitLoad

LEMMA StepBacked == BackedInv /\ [Next]_vars => BackedInv'
  BY StepTable, StepEngine, StepRequests, StepLaunchedFirst, StepOutcomes,
     TypeParts DEF BackedInv, TypeOK, TableTyped, EngineTyped, RequestTyped

-----------------------------------------------------------------------------
(* As long as requests come one at a time. *)

\* Then only the request that makes a step is under way.
LEMMA OrderlyStep ==
  ASSUME IInv, [Next]_vars, orderly'
  PROVE  /\ orderly /\ OrderlyInv
         /\ \/ UNCHANGED <<at, copy>>
            \/ \E c \in Client :
                 /\ GoesOn(c) \/ Begins(c) \/ Ends(c)
                 /\ \A o \in Client : o # c => at[o] = "idle" /\ at'[o] = "idle"
<1>1. orderly
  BY RequestMoves DEF IInv, BackedInv, TypeOK, GoesOn, Begins, Ends, Begin
<1>2. ASSUME NEW c \in Client, GoesOn(c) \/ Begins(c) \/ Ends(c)
      PROVE  \A o \in Client : o # c => at[o] = "idle" /\ at'[o] = "idle"
  <2>1. \A o \in Client : o # c => at[o] = "idle"
    BY <1>1, <1>2 DEF GoesOn, Begins, Ends, Begin, IInv, OrderlyInv, OneAtATime
  <2>2. at' = [at EXCEPT ![c] = at'[c]]
    BY <1>2 DEF GoesOn, Begins, Ends, Begin, Answer, IInv, BackedInv, TypeOK
  <2> QED
    BY <2>1, <2>2 DEF IInv, BackedInv, TypeOK
<1> QED
  BY <1>1, <1>2, RequestMoves DEF IInv, BackedInv

LEMMA StepOneAtATime ==
  ASSUME IInv, [Next]_vars, orderly' PROVE OneAtATime'
  BY OrderlyStep DEF OneAtATime, OrderlyInv

\* A row whose token is missing between two requests works and has no process.
LEMMA MissingToken ==
  ASSUME BackedInv, OrderlyInv, \A c \in Client : at[c] = "idle",
         NEW d \in Deployment, state[d] # "absent", ~token[d]
  PROVE  state[d] = "working" /\ ~Started(d)
<1>1. ~Started(d)
  BY DEF OrderlyInv, TokenTells
<1>2. ~HasEnded(d)
  BY <1>1 DEF Started, HasEnded
<1>3. state[d] \notin {"success", "failure", "removed"}
  BY <1>2 DEF BackedInv, OutcomesBacked, HasEnded, OrderlyInv, RemovesSuccess
<1> QED
  BY <1>1, <1>3 DEF BackedInv, TypeOK, RowStates

\* Where a process has ended, none runs.
LEMMA NoneRuns ==
  ASSUME BackedInv, OneProcess, NEW d \in Deployment, HasEnded(d)
  PROVE  \A n \in 1..MaxLaunches : process[<<d, n>>] # "running"
  BY DEF OneProcess, HasEnded

\* A request is accepted.
LEMMA AcceptOrderly ==
  ASSUME IInv, [Next]_vars, orderly', NEW c \in Client,
         \/ CreateValidate(c) \/ CommitValidate(c) \/ CommitSave(c)
         \/ \E d \in Deployment :
              DeployLoad(c, d) \/ UndeployLoad(c, d) \/ CommitLoad(c, d)
  PROVE  OrderlyInv'
<1>1. /\ orderly /\ OrderlyInv /\ BackedInv /\ OneAtATime'
      /\ UNCHANGED <<state, token, process, undeploys, commits>>
      /\ \A d : (Started(d) <=> Started(d)') /\ (HasEnded(d) <=> HasEnded(d)')
  BY OrderlyStep, StepOneAtATime DEF IInv, CreateValidate, CommitValidate,
     CommitSave, DeployLoad, UndeployLoad, CommitLoad, table, engine, Started,
     HasEnded
<1>2. \A o \in Client : o # c => at[o] = "idle" /\ at'[o] = at[o] /\ row'[o] = row[o]
  BY <1>1, OrderlyStep DEF BackedInv, TypeOK, OrderlyInv, OneAtATime,
     CreateValidate, CommitValidate, CommitSave, DeployLoad, UndeployLoad,
     CommitLoad, Begin, Load, Answer, copy
<1> USE DEF BackedInv, TypeOK
<1>3. CASE CreateValidate(c) \/ CommitValidate(c) \/ CommitSave(c)
  <2>1. \/ at'[c] = "insert" /\ NoOtherWorking(0)
        \/ at[c] = "validateNew" /\ at'[c] = "insertNew" /\ row'[c] = row[c]
           /\ NoOtherWorking(0)
        \/ at[c] \in {"validateNew", "saveCommit"} /\ at'[c] = "idle"
    BY <1>1, <1>3 DEF CreateValidate, CommitValidate, CommitSave, Begin, Answer, copy
  <2>2. \A o \in Client : at[o] \notin {"save", "saveRemoved"}
    BY <1>2, <1>3 DEF CreateValidate, CommitValidate, CommitSave, Begin
  <2>3. OneProcess'
    BY <1>1, <1>2, <2>1, <2>2 DEF OrderlyInv, OneProcess
  <2>4. TokenTells'
    BY <1>1, <1>2, <2>1, <2>2 DEF OrderlyInv, TokenTells
  <2>5. WorksAlone'
    BY <1>1, <1>2, <2>1, <2>2 DEF OrderlyInv, WorksAlone, NoOtherWorking
  <2>6. DeploysWorking'
    BY <1>1, <1>2, <2>1, <2>2 DEF OrderlyInv, DeploysWorking
  <2>7. RemovesSuccess'
    BY <1>1, <1>2, <2>1, <2>2 DEF OrderlyInv, RemovesSuccess, Follows
  <2>8. RemovalSaved'
    BY <1>1, <1>2, <2>1, <2>2 DEF OrderlyInv, RemovalSaved
  <2> QED
    BY <1>1, <2>3, <2>4, <2>5, <2>6, <2>7, <2>8 DEF OrderlyInv
<1>4. ASSUME NEW d \in Deployment, DeployLoad(c, d) PROVE OrderlyInv'
  <2>1. /\ at'[c] = "launch" /\ row'[c] = d /\ at[c] = "idle"
        /\ state[d] # "absent" /\ ~token[d]
    BY <1>1, <1>4 DEF DeployLoad, Begin, Load
  <2>2. state[d] = "working" /\ ~Started(d)
    BY <1>1, <1>2, <2>1, MissingToken
  <2>3. OneProcess'
    BY <1>1, <1>2, <2>1, <2>2 DEF OrderlyInv, OneProcess
  <2>4. TokenTells'
    BY <1>1, <1>2, <2>1, <2>2 DEF OrderlyInv, TokenTells
  <2>5. WorksAlone'
    BY <1>1, <1>2, <2>1, <2>2 DEF OrderlyInv, WorksAlone, NoOtherWorking
  <2>6. DeploysWorking'
    BY <1>1, <1>2, <2>1, <2>2 DEF OrderlyInv, DeploysWorking
  <2>7. RemovesSuccess'
    BY <1>1, <1>2, <2>1, <2>2 DEF OrderlyInv, RemovesSuccess, Follows
  <2>8. RemovalSaved'
    BY <1>1, <1>2, <2>1, <2>2 DEF OrderlyInv, RemovalSaved
  <2> QED
    BY <1>1, <2>3, <2>4, <2>5, <2>6, <2>7, <2>8 DEF OrderlyInv
<1>5. ASSUME NEW d \in Deployment, UndeployLoad(c, d) \/ CommitLoad(c, d)
      PROVE  OrderlyInv'
  <2>1. /\ at'[c] \in {"launchUndeploy", "validateNew"} /\ row'[c] = d
        /\ at[c] = "idle" /\ state[d] = "success"
    BY <1>1, <1>5 DEF UndeployLoad, CommitLoad, Begin, Load
  <2>2. HasEnded(d)
    BY <1>1, <2>1 DEF OutcomesBacked, HasEnded
  <2>3. OneProcess'
    BY <1>1, <1>2, <2>1, <2>2 DEF OrderlyInv, OneProcess
  <2>4. TokenTells'
    BY <1>1, <1>2, <2>1, <2>2 DEF OrderlyInv, TokenTells
  <2>5. WorksAlone'
    BY <1>1, <1>2, <2>1, <2>2 DEF OrderlyInv, WorksAlone, NoOtherWorking
  <2>6. DeploysWorking'
    BY <1>1, <1>2, <2>1, <2>2 DEF OrderlyInv, DeploysWorking
  <2>7. RemovesSuccess'
    BY <1>1, <1>2, <2>1, <2>2 DEF OrderlyInv, RemovesSuccess, Follows
  <2>8. RemovalSaved'
    BY <1>1, <1>2, <2>1, <2>2 DEF OrderlyInv, RemovalSaved
  <2> QED
    BY <1>1, <2>3, <2>4, <2>5, <2>6, <2>7, <2>8 DEF OrderlyInv
<1> QED
  BY <1>3, <1>4, <1>5

\* A request launches a process.
LEMMA LaunchOrderly ==
  ASSUME IInv, [Next]_vars, orderly', NEW c \in Client,
         DeployLaunch(c) \/ UndeployLaunch(c) \/ CommitLaunch(c)
  PROVE  OrderlyInv'
<1>1. /\ orderly /\ OrderlyInv /\ BackedInv /\ OneAtATime'
      /\ UNCHANGED <<state, token, row>>
      /\ at[c] # "idle" /\ row[c] \in Deployment
  BY OrderlyStep, StepOneAtATime DEF IInv, BackedInv, HasRow, DeployLaunch,
     UndeployLaunch, CommitLaunch, table, copy
<1>2. \A o \in Client : o # c => at[o] = "idle" /\ at'[o] = at[o]
  BY <1>1 DEF BackedInv, TypeOK, OrderlyInv, OneAtATime, DeployLaunch,
     UndeployLaunch, CommitLaunch
<1> USE DEF BackedInv, TypeOK
<1>3. CASE DeployLaunch(c)
  <2>1. /\ at[c] = "launch" /\ at'[c] = "save"
        /\ UNCHANGED <<undeploys, commits>>
    BY <1>1, <1>3 DEF DeployLaunch
  <2>2. state[row[c]] = "working" /\ ~Started(row[c])
    BY <1>1, <2>1 DEF OrderlyInv, DeploysWorking
  <2>3. PICK k \in 1..MaxLaunches :
          \A d \in Deployment, n \in 1..MaxLaunches :
            process'[<<d, n>>] = IF d = row[c] /\ n = k THEN "running"
                                 ELSE process[<<d, n>>]
    BY <1>1, <1>3, LaunchSets
  <2>4. \A d \in Deployment : /\ d # row[c] => (Started(d)' => Started(d))
                              /\ HasEnded(d) => HasEnded(d)'
    BY <1>1, <2>2, <2>3 DEF Started, HasEnded
  <2>5. \A n \in 1..MaxLaunches : process[<<row[c], n>>] = "none"
    BY <2>2 DEF Started
  <2>6. OneProcess'
    BY <1>1, <1>2, <2>1, <2>2, <2>3, <2>4, <2>5 DEF OrderlyInv, OneProcess
  <2>7. TokenTells'
    BY <1>1, <1>2, <2>1, <2>2, <2>3, <2>4, <2>5 DEF OrderlyInv, TokenTells
  <2>8. WorksAlone'
    BY <1>1, <1>2, <2>1, <2>2, <2>3, <2>4, <2>5 DEF OrderlyInv, WorksAlone, NoOtherWorking
  <2>9. DeploysWorking'
    BY <1>1, <1>2, <2>1, <2>2, <2>3, <2>4, <2>5 DEF OrderlyInv, DeploysWorking
  <2>10. RemovesSuccess'
    BY <1>1, <1>2, <2>1, <2>2, <2>3, <2>4, <2>5 DEF OrderlyInv, RemovesSuccess, Follows
  <2>11. RemovalSaved'
    BY <1>1, <1>2, <2>1, <2>2, <2>3, <2>4, <2>5 DEF OrderlyInv, RemovalSaved
  <2> QED
    BY <1>1, <2>6, <2>7, <2>8, <2>9, <2>10, <2>11 DEF OrderlyInv
<1>4. CASE UndeployLaunch(c) \/ CommitLaunch(c)
  <2>1. /\ UNCHANGED process
        /\ \/ /\ at[c] = "launchUndeploy" /\ at'[c] = "saveRemoved"
              /\ undeploys' = undeploys \union {row[c]} /\ commits' = commits
           \/ /\ at[c] = "launchCommit" /\ at'[c] = "saveCommit"
              /\ commits' = commits \union {row[c]} /\ undeploys' = undeploys
    BY <1>1, <1>4 DEF UndeployLaunch, CommitLaunch
  <2>2. \A d : (Started(d) <=> Started(d)') /\ (HasEnded(d) <=> HasEnded(d)')
    BY <2>1 DEF Started, HasEnded
  <2>3. OneProcess'
    BY <1>1, <1>2, <2>1, <2>2 DEF OrderlyInv, OneProcess
  <2>4. TokenTells'
    BY <1>1, <1>2, <2>1, <2>2 DEF OrderlyInv, TokenTells
  <2>5. WorksAlone'
    BY <1>1, <1>2, <2>1, <2>2 DEF OrderlyInv, WorksAlone, NoOtherWorking
  <2>6. DeploysWorking'
    BY <1>1, <1>2, <2>1, <2>2 DEF OrderlyInv, DeploysWorking
  <2>7. RemovesSuccess'
    BY <1>1, <1>2, <2>1, <2>2 DEF OrderlyInv, RemovesSuccess, Follows
  <2>8. RemovalSaved'
    BY <1>1, <1>2, <2>1, <2>2 DEF OrderlyInv, RemovalSaved
  <2> QED
    BY <1>1, <2>3, <2>4, <2>5, <2>6, <2>7, <2>8 DEF OrderlyInv
<1> QED
  BY <1>3, <1>4

\* A request saves its row, or inserts one.
LEMMA SaveOrderly ==
  ASSUME IInv, [Next]_vars, orderly', NEW c \in Client,
         \/ DeploySave(c) \/ UndeploySave(c) \/ CreateInsert(c) \/ CommitInsert(c)
  PROVE  OrderlyInv'
<1>1. /\ orderly /\ OrderlyInv /\ BackedInv /\ OneAtATime'
      /\ UNCHANGED <<process, undeploys, commits>>
      /\ at[c] # "idle"
      /\ \A d : (Started(d) <=> Started(d)') /\ (HasEnded(d) <=> HasEnded(d)')
  BY OrderlyStep, StepOneAtATime DEF IInv, DeploySave, UndeploySave,
     CreateInsert, CommitInsert, engine, Started, HasEnded
<1>2. \A o \in Client : o # c => at[o] = "idle" /\ at'[o] = at[o]
  BY <1>1 DEF BackedInv, TypeOK, OrderlyInv, OneAtATime, DeploySave, UndeploySave,
     CreateInsert, CommitInsert, Answer
<1> USE DEF BackedInv, TypeOK
<1>3. CASE DeploySave(c)
  <2>1. /\ at[c] = "save" /\ at'[c] = "idle" /\ state' = state
        /\ row[c] \in Deployment
    BY <1>1, <1>3 DEF DeploySave, Answer, HasRow
  <2>2. Valid(c)
    BY <1>1, <2>1 DEF Valid, OrderlyInv, WorksAlone
  <2>3. token' = [token EXCEPT ![row[c]] = TRUE]
    BY <1>3, <2>2 DEF DeploySave
  <2>4. OneProcess'
    BY <1>1, <1>2, <2>1, <2>3 DEF OrderlyInv, OneProcess
  <2>5. TokenTells'
    BY <1>1, <1>2, <2>1, <2>3 DEF OrderlyInv, TokenTells
  <2>6. WorksAlone'
    BY <1>1, <1>2, <2>1, <2>3 DEF OrderlyInv, WorksAlone, NoOtherWorking
  <2>7. DeploysWorking'
    BY <1>1, <1>2, <2>1, <2>3 DEF OrderlyInv, DeploysWorking
  <2>8. RemovesSuccess'
    BY <1>1, <1>2, <2>1, <2>3 DEF OrderlyInv, RemovesSuccess, Follows
  <2>9. RemovalSaved'
    BY <1>1, <1>2, <2>1, <2>3 DEF OrderlyInv, RemovalSaved
  <2> QED
    BY <1>1, <2>4, <2>5, <2>6, <2>7, <2>8, <2>9 DEF OrderlyInv
<1>4. CASE UndeploySave(c)
  <2>1. /\ at[c] = "saveRemoved" /\ at'[c] = "idle" /\ token' = token
        /\ row[c] \in Deployment
        /\ state' = [state EXCEPT ![row[c]] = "removed"]
    BY <1>1, <1>4 DEF UndeploySave, Answer, HasRow
  <2>2. HasEnded(row[c])
    BY <1>1, <2>1 DEF OrderlyInv, RemovesSuccess, Follows
  <2>3. \A n \in 1..MaxLaunches : process[<<row[c], n>>] # "running"
    BY <1>1, <2>1, <2>2, NoneRuns DEF OrderlyInv
  <2>4. OneProcess'
    BY <1>1, <1>2, <2>1, <2>2, <2>3 DEF OrderlyInv, OneProcess
  <2>5. TokenTells'
    BY <1>1, <1>2, <2>1, <2>2, <2>3 DEF OrderlyInv, TokenTells
  <2>6. WorksAlone'
    BY <1>1, <1>2, <2>1, <2>2, <2>3 DEF OrderlyInv, WorksAlone, NoOtherWorking
  <2>7. DeploysWorking'
    BY <1>1, <1>2, <2>1, <2>2, <2>3 DEF OrderlyInv, DeploysWorking
  <2>8. RemovesSuccess'
    BY <1>1, <1>2, <2>1, <2>2, <2>3 DEF OrderlyInv, RemovesSuccess, Follows
  <2>9. RemovalSaved'
    BY <1>1, <1>2, <2>1, <2>2, <2>3 DEF OrderlyInv, RemovalSaved
  <2> QED
    BY <1>1, <2>4, <2>5, <2>6, <2>7, <2>8, <2>9 DEF OrderlyInv
<1>5. CASE CreateInsert(c) \/ CommitInsert(c)
  <2>1. /\ token' = token
        /\ \/ at[c] = "insert" /\ at'[c] = "idle"
           \/ at[c] = "insertNew" /\ at'[c] = "launchCommit" /\ row'[c] = row[c]
    BY <1>1, <1>5 DEF CreateInsert, CommitInsert, Answer, copy
  <2>2. PICK d \in Deployment :
          state[d] = "absent" /\ state' = [state EXCEPT ![d] = "working"]
    BY <1>5 DEF CreateInsert, CommitInsert, Insert
  <2>3. \A e \in Deployment : state[e] # "working"
    BY <1>1, <2>1 DEF OrderlyInv, WorksAlone, NoOtherWorking, Deployment
  <2>4. at[c] = "insertNew" => row[c] \in Deployment
    BY <1>1 DEF HasRow
  <2>5. OneProcess'
    BY <1>1, <1>2, <2>1, <2>2, <2>3, <2>4 DEF OrderlyInv, OneProcess
  <2>6. TokenTells'
    BY <1>1, <1>2, <2>1, <2>2, <2>3, <2>4 DEF OrderlyInv, TokenTells
  <2>7. WorksAlone'
    BY <1>1, <1>2, <2>1, <2>2, <2>3, <2>4 DEF OrderlyInv, WorksAlone, NoOtherWorking
  <2>8. DeploysWorking'
    BY <1>1, <1>2, <2>1, <2>2, <2>3, <2>4 DEF OrderlyInv, DeploysWorking
  <2>9. RemovesSuccess'
    BY <1>1, <1>2, <2>1, <2>2, <2>3, <2>4 DEF OrderlyInv, RemovesSuccess, Follows
  <2>10. RemovalSaved'
    BY <1>1, <1>2, <2>1, <2>2, <2>3, <2>4 DEF OrderlyInv, RemovalSaved
  <2> QED
    BY <1>1, <2>5, <2>6, <2>7, <2>8, <2>9, <2>10 DEF OrderlyInv
<1> QED
  BY <1>3, <1>4, <1>5

\* A process writes the state of its row.
LEMMA ProcessOrderly ==
  ASSUME IInv, [Next]_vars, orderly',
         \/ \E d \in Deployment : SetStateRemoved(d)
         \/ \E p \in Process : StoreInfo(p)
  PROVE  OrderlyInv'
<1>1. /\ orderly /\ OrderlyInv /\ BackedInv /\ OneAtATime'
      /\ UNCHANGED <<token, undeploys, commits, at, row>>
  BY OrderlyStep, StepOneAtATime DEF IInv, SetStateRemoved, StoreInfo, engine, copy
<1> USE DEF BackedInv, TypeOK
<1>2. ASSUME NEW e \in Deployment, SetStateRemoved(e) PROVE OrderlyInv'
  <2>1. /\ e \in commits /\ state' = [state EXCEPT ![e] = "removed"]
        /\ process' = process
        /\ \A d : (Started(d) <=> Started(d)') /\ (HasEnded(d) <=> HasEnded(d)')
    BY <1>2 DEF SetStateRemoved, engine, Started, HasEnded
  <2>2. HasEnded(e)
    BY <1>1, <2>1 DEF OrderlyInv, RemovesSuccess
  <2>3. \A n \in 1..MaxLaunches : process[<<e, n>>] # "running"
    BY <1>1, <2>1, <2>2, NoneRuns DEF OrderlyInv
  <2>4. Started(e)
    BY <2>2 DEF HasEnded, Started
  <2>5. OneProcess'
    BY <1>1, <2>1, <2>2, <2>3, <2>4 DEF OrderlyInv, OneProcess
  <2>6. TokenTells'
    BY <1>1, <2>1, <2>2, <2>3, <2>4 DEF OrderlyInv, TokenTells
  <2>7. WorksAlone'
    BY <1>1, <2>1, <2>2, <2>3, <2>4 DEF OrderlyInv, WorksAlone, NoOtherWorking
  <2>8. DeploysWorking'
    BY <1>1, <2>1, <2>2, <2>3, <2>4 DEF OrderlyInv, DeploysWorking
  <2>9. RemovesSuccess'
    BY <1>1, <2>1, <2>2, <2>3, <2>4 DEF OrderlyInv, RemovesSuccess, Follows
  <2>10. RemovalSaved'
    BY <1>1, <2>1, <2>2, <2>3, <2>4 DEF OrderlyInv, RemovalSaved
  <2> QED
    BY <1>1, <2>5, <2>6, <2>7, <2>8, <2>9, <2>10 DEF OrderlyInv
<1>3. ASSUME NEW p \in Process, StoreInfo(p) PROVE OrderlyInv'
  <2>1. PICK e \in Deployment, k \in 1..MaxLaunches :
          /\ process[<<e, k>>] = "running"
          /\ \A d \in Deployment, n \in 1..MaxLaunches :
               process'[<<d, n>>] = IF d = e /\ n = k THEN "ended"
                                    ELSE process[<<d, n>>]
          /\ state'[e] \in {"success", "failure"}
          /\ \A d \in Deployment : d # e => state'[d] = state[d]
    BY <1>1, <1>3, StoreSets
  <2>2. state[e] = "working" /\ Started(e) /\ ~HasEnded(e)
    <3>1. state[e] = "working" /\ Started(e)
      BY <1>1, <2>1 DEF OrderlyInv, DeploysWorking, Started
    <3>2. ~HasEnded(e)
      BY <1>1, <2>1, NoneRuns DEF OrderlyInv
    <3> QED
      BY <3>1, <3>2
  <2>3. \A d \in Deployment : /\ Started(d)' <=> Started(d)
                              /\ HasEnded(d) => HasEnded(d)'
    BY <2>1 DEF Started, HasEnded
  <2>4. \A n \in 1..MaxLaunches : process'[<<e, n>>] # "running"
    BY <1>1, <2>1 DEF OrderlyInv, OneProcess
  <2>5. OneProcess'
    BY <1>1, <2>1, <2>2, <2>3, <2>4 DEF OrderlyInv, OneProcess
  <2>6. TokenTells'
    BY <1>1, <2>1, <2>2, <2>3, <2>4 DEF OrderlyInv, TokenTells
  <2>7. WorksAlone'
    BY <1>1, <2>1, <2>2, <2>3, <2>4 DEF OrderlyInv, WorksAlone, NoOtherWorking
  <2>8. DeploysWorking'
    <3>1. ASSUME NEW c \in Client, at[c] = "launch"
          PROVE  state'[row[c]] = "working" /\ ~Started(row[c])'
      <4>1. row[c] \in Deployment
        BY <1>1, <3>1 DEF HasRow
      <4>2. state[row[c]] = "working" /\ ~Started(row[c])
        BY <1>1, <3>1 DEF OrderlyInv, DeploysWorking
      <4>3. row[c] # e
        BY <2>2, <4>2
      <4>4. (Started(row[c]) <=> Started(row[c])')
        BY <1>1, <2>1, <4>1, <4>3 DEF Started
      <4> QED
        BY <2>1, <4>1, <4>2, <4>3, <4>4
    <3>2. ASSUME NEW d \in Deployment, NEW n \in 1..MaxLaunches,
                 process'[<<d, n>>] = "running"
          PROVE  state'[d] = "working"
      <4>1. d # e
        BY <2>4, <3>2
      <4>2. process[<<d, n>>] = "running"
        BY <2>1, <3>2, <4>1
      <4> QED
        BY <1>1, <2>1, <4>1, <4>2 DEF OrderlyInv, DeploysWorking
    <3> QED
      BY <1>1, <3>1, <3>2 DEF DeploysWorking
  <2>9. RemovesSuccess'
    <3>1. ASSUME NEW d \in Deployment, HasEnded(d),
                 state[d] \in {"success", "removed"}
          PROVE  HasEnded(d)' /\ state'[d] \in {"success", "removed"}
      BY <2>1, <2>2, <2>3, <3>1
    <3>2. \A d \in undeploys \union commits :
            HasEnded(d) /\ state[d] \in {"success", "removed"}
      BY <1>1 DEF OrderlyInv, RemovesSuccess
    <3>3. \A c \in Client : Follows(c) =>
            /\ row[c] \in Deployment /\ HasEnded(row[c])
            /\ state[row[c]] \in {"success", "removed"}
      BY <1>1 DEF OrderlyInv, RemovesSuccess, HasRow, Follows
    <3>4. ASSUME NEW c \in Client, Follows(c)
          PROVE  HasEnded(row[c])' /\ state'[row[c]] \in {"success", "removed"}
      <4>1. PICK d \in Deployment : d = row[c]
        BY <3>3, <3>4
      <4>2. HasEnded(d) /\ state[d] \in {"success", "removed"}
        BY <3>3, <3>4, <4>1
      <4>3. HasEnded(row[c])' <=> HasEnded(d)'
        BY <1>1, <4>1 DEF HasEnded
      <4> QED
        BY <1>1, <3>1, <4>1, <4>2, <4>3
    <3>5. \A c \in Client : Follows(c)' <=> Follows(c)
      BY <1>1 DEF Follows
    <3>6. undeploys' \union commits' \in SUBSET Deployment
      BY <1>1
    <3> QED
      BY <1>1, <3>1, <3>2, <3>4, <3>5, <3>6 DEF RemovesSuccess
  <2>10. RemovalSaved'
    BY <1>1, <2>1, <2>2, <2>3, <2>4 DEF OrderlyInv, RemovalSaved
  <2> QED
    BY <1>1, <2>5, <2>6, <2>7, <2>8, <2>9, <2>10 DEF OrderlyInv
<1> QED
  BY <1>2, <1>3

LEMMA StepOrderly == IInv /\ [Next]_vars /\ orderly' => OrderlyInv'
<1> SUFFICES ASSUME IInv, [Next]_vars, orderly' PROVE OrderlyInv'
  OBVIOUS
<1>1. ASSUME NEW c \in Client, Crash(c) PROVE FALSE
  BY <1>1 DEF Crash
<1>2. CASE UNCHANGED vars
  <2>1. orderly /\ OrderlyInv
    BY OrderlyStep
  <2> QED
    BY <1>2, <2>1 DEF vars, table, engine, copy, OrderlyInv, OneAtATime,
       OneProcess, TokenTells, WorksAlone, DeploysWorking, RemovesSuccess,
       RemovalSaved, Started, HasEnded, Follows, NoOtherWorking
<1> QED
  BY <1>1, <1>2, AcceptOrderly, LaunchOrderly, SaveOrderly, ProcessOrderly DEF Next

-----------------------------------------------------------------------------
\* The invariant holds in every state of every behaviour.
THEOREM Inductive == Spec => []IInv
<1>1. IInv /\ [Next]_vars => IInv'
  BY StepBacked, StepOrderly DEF IInv
<1> QED
  BY InitInductive, <1>1, PTL DEF Spec

\* The variables of the requests, the table and the engine keep their types.
THEOREM TypeCorrect == Spec => []TypeOK
<1>1. IInv => TypeOK
  BY DEF IInv, BackedInv
<1> QED
  BY Inductive, <1>1, PTL

\* Success, failure, removed and a token are backed by a process, however
\* requests interleave and wherever a worker dies.
THEOREM TableBacked == Spec => []OutcomesBacked
<1>1. IInv => OutcomesBacked
  BY DEF IInv, BackedInv
<1> QED
  BY Inductive, <1>1, PTL

\* Requests that come one at a time leave token, process and state in agreement,
\* and deploy no row twice.
THEOREM CompleteInTurn == Spec => []RequestsComplete
<1>1. IInv => RequestsComplete
  <2>1. SUFFICES ASSUME IInv, orderly, \A c \in Client : at[c] = "idle",
                        NEW d \in Deployment
                 PROVE  /\ \A m, n \in 1..MaxLaunches :
                             process[<<d, m>>] # "none" /\ process[<<d, n>>] # "none" => m = n
                        /\ token[d] <=> \E n \in 1..MaxLaunches : process[<<d, n>>] # "none"
                        /\ d \in undeploys => state[d] = "removed"
                        /\ state[d] = "removed" => d \in undeploys \union commits
    BY DEF RequestsComplete
  <2>2. BackedInv /\ OrderlyInv
    BY <2>1 DEF IInv
  <2>3. \A m, n \in 1..MaxLaunches :
          process[<<d, m>>] # "none" /\ process[<<d, n>>] # "none" => m = n
    BY <2>2 DEF OrderlyInv, OneProcess
  <2>4. token[d] <=> \E n \in 1..MaxLaunches : process[<<d, n>>] # "none"
    BY <2>1, <2>2 DEF OrderlyInv, TokenTells, Started, BackedInv, OutcomesBacked,
       TypeOK
  <2>5. d \in undeploys => state[d] = "removed"
    BY <2>1, <2>2 DEF OrderlyInv, RemovalSaved
  <2>6. state[d] = "removed" => d \in undeploys \union commits
    BY <2>2 DEF BackedInv, OutcomesBacked
  <2> QED
    BY <2>3, <2>4, <2>5, <2>6
<1> QED
  BY Inductive, <1>1, PTL

\* So long the table goes through the states of DeploymentLifecycle: no row
\* starts to work beside another, and nothing leaves failure and removed.
THEOREM OrderlyLifecycleImplemented == Spec => OrderlyLifecycle
<1>1. ASSUME IInv, [Next]_vars, orderly' PROVE [Lifecycle!Next]_state
  <2>1. orderly /\ OrderlyInv /\ BackedInv
    BY <1>1, OrderlyStep DEF IInv
  <2> USE DEF Lifecycle!Next, BackedInv, TypeOK
  <2>2. ASSUME NEW c \in Client, CreateInsert(c) \/ CommitInsert(c)
        PROVE  Lifecycle!Next
    <3>1. PICK d \in Deployment :
            state[d] = "absent" /\ state' = [state EXCEPT ![d] = "working"]
      BY <2>2 DEF CreateInsert, CommitInsert, Insert
    <3>2. at[c] \in {"insert", "insertNew"}
      BY <2>2 DEF CreateInsert, CommitInsert
    <3>3. NoOtherWorking(0)
      BY <2>1, <3>2 DEF OrderlyInv, WorksAlone
    <3>4. \A e \in Deployment : state[e] # "working"
      BY <3>3, NAssumption DEF NoOtherWorking, Deployment
    <3> QED
      BY <3>1, <3>4 DEF Lifecycle!Create
  <2>3. ASSUME NEW c \in Client, UndeploySave(c)
        PROVE  Lifecycle!Next \/ UNCHANGED state
    <3>1. /\ row[c] \in Deployment /\ state[row[c]] \in {"success", "removed"}
          /\ state' = [state EXCEPT ![row[c]] = "removed"]
      BY <2>1, <2>3 DEF UndeploySave, HasRow, OrderlyInv, RemovesSuccess, Follows
    <3> QED
      BY <2>1, <3>1 DEF Lifecycle!Remove
  <2>4. ASSUME NEW d \in Deployment, SetStateRemoved(d)
        PROVE  Lifecycle!Next \/ UNCHANGED state
    <3>1. /\ state[d] \in {"success", "removed"}
          /\ state' = [state EXCEPT ![d] = "removed"]
      BY <2>1, <2>4 DEF SetStateRemoved, OrderlyInv, RemovesSuccess
    <3> QED
      BY <2>1, <3>1 DEF Lifecycle!Remove
  <2>5. ASSUME NEW p \in Process, StoreInfo(p) PROVE Lifecycle!Next
    <3>1. PICK e \in Deployment, k \in 1..MaxLaunches :
            /\ process[<<e, k>>] = "running"
            /\ state'[e] \in {"success", "failure"}
            /\ state' = [state EXCEPT ![e] = state'[e]]
      BY <2>1, <2>5, StoreSets
    <3>2. state[e] = "working"
      BY <2>1, <3>1 DEF OrderlyInv, DeploysWorking
    <3> QED
      BY <3>1, <3>2 DEF Lifecycle!Finish
  <2>6. CASE UNCHANGED table
    BY <2>6 DEF table
  <2>7. ASSUME NEW c \in Client, DeploySave(c) PROVE UNCHANGED state
    BY <2>7 DEF DeploySave
  <2> QED
    BY <1>1, <2>2, <2>3, <2>4, <2>5, <2>6, <2>7 DEF Next, vars, CreateValidate,
       DeployLaunch, UndeployLaunch, CommitValidate, CommitLaunch, CommitSave,
       Crash, DeployLoad, UndeployLoad, CommitLoad
<1> QED
  BY Inductive, <1>1, PTL DEF Spec, OrderlyLifecycle
===============================================================================
