---------------------------- MODULE DeploymentApi ----------------------------
(***************************************************************************)
(* The requests of the API on the deployments of one app, database access  *)
(* by database access: several unicorn workers serve requests at once, the *)
(* rows they load are copies, nothing locks a row, and the launch of a     *)
(* Ruote process goes to another connection than the row's transaction.    *)
(* Of a deploy process only the last write to its row is kept, the final   *)
(* state: module DeployWorkflow has the rest.                              *)
(***************************************************************************)
EXTENDS Integers

CONSTANTS N,             \* rows the table ever has (bound)
          MaxLaunches,   \* deploy processes launched for one row (bound)
          Client         \* unicorn workers serving a request

ASSUME NAssumption == N \in Nat \ {0}
ASSUME LaunchesAssumption == MaxLaunches \in Nat \ {0}

Deployment == 1..N
Process == Deployment \X (1..MaxLaunches)

VARIABLES
  state,       \* Deployment#state, "absent" before the row exists
  token,       \* is task_token set?
  process,     \* the deploy processes launched for each row
  undeploys,   \* rows with an undeploy process
  commits,     \* rows with a commit_staging process
  at,          \* what a worker does next for its request
  row,         \* ... the row it has loaded
  seenState,   \* ... and the state of its copy
  orderly      \* have all requests come one at a time, and been answered?

table == <<state, token>>
engine == <<process, undeploys, commits>>
copy == <<row, seenState>>
vars == <<table, engine, at, copy, orderly>>

RowStates == {"absent", "working", "success", "failure", "removed"}

TypeOK ==
  /\ state \in [Deployment -> RowStates]
  /\ token \in [Deployment -> BOOLEAN]
  /\ process \in [Process -> {"none", "running", "ended"}]
  /\ undeploys \in SUBSET Deployment
  /\ commits \in SUBSET Deployment
  /\ at \in [Client -> {"idle", "insert", "launch", "save", "launchUndeploy",
                        "saveRemoved", "validateNew", "insertNew",
                        "launchCommit", "saveCommit"}]
  /\ row \in [Client -> 0..N]
  /\ seenState \in [Client -> RowStates]
  /\ orderly \in BOOLEAN

Init ==
  /\ state = [d \in Deployment |-> "absent"]
  /\ token = [d \in Deployment |-> FALSE]
  /\ process = [p \in Process |-> "none"]
  /\ undeploys = {}
  /\ commits = {}
  /\ at = [c \in Client |-> "idle"]
  /\ row = [c \in Client |-> 0]
  /\ seenState = [c \in Client |-> "absent"]
  /\ orderly = TRUE

\* A request comes in; its worker goes on with the step a.
Begin(c, a) ==
  /\ at[c] = "idle"
  /\ at' = [at EXCEPT ![c] = a]
  /\ orderly' = (orderly /\ \A o \in Client : at[o] = "idle")

\* The request is answered, and the copy is garbage.
Answer(c) ==
  /\ at' = [at EXCEPT ![c] = "idle"]
  /\ row' = [row EXCEPT ![c] = 0]
  /\ seenState' = [seenState EXCEPT ![c] = "absent"]

Load(c, d) ==
  /\ row' = [row EXCEPT ![c] = d]
  /\ seenState' = [seenState EXCEPT ![c] = state[d]]

-----------------------------------------------------------------------------
(* create: cannot_have_existing_working_deployment reads the table, then    *)
(* the row is inserted.                                                     *)

NoOtherWorking(d) == \A e \in Deployment : e # d => state[e] # "working"

\* Mutant: the validation is left out.
CreateValidateNot(c) ==
  /\ Begin(c, "insert")
  /\ UNCHANGED <<table, engine, copy>>

CreateValidate(c) ==
  /\ Begin(c, "insert")
  /\ NoOtherWorking(0)
  /\ UNCHANGED <<table, engine, copy>>

\* Ids are given out in order.
Insert(s) ==
  \E d \in Deployment :
    /\ state[d] = "absent"
    /\ \A e \in Deployment : e < d => state[e] # "absent"
    /\ state' = [state EXCEPT ![d] = s]

\* Mutant: the row has no state by default.
CreateInsertNoDefault(c) ==
  /\ at[c] = "insert"
  /\ Insert("nil")
  /\ Answer(c)
  /\ UNCHANGED <<token, engine, orderly>>

CreateInsert(c) ==
  /\ at[c] = "insert"
  /\ Insert("working")
  /\ Answer(c)
  /\ UNCHANGED <<token, engine, orderly>>

(* deploy!: check the token, launch the process, save! the token.  save!    *)
(* validates the copy and writes the attributes the request has changed.    *)

DeployLoad(c, d) ==
  /\ Begin(c, "launch")
  /\ state[d] # "absent" /\ ~token[d]
  /\ Load(c, d)
  /\ UNCHANGED <<table, engine>>

DeployLaunch(c) ==
  /\ at[c] = "launch"
  /\ \E n \in 1..MaxLaunches :
       /\ process[<<row[c], n>>] = "none"
       /\ \A m \in 1..(n - 1) : process[<<row[c], m>>] # "none"
       /\ process' = [process EXCEPT ![<<row[c], n>>] = "running"]
  /\ at' = [at EXCEPT ![c] = "save"]
  /\ UNCHANGED <<table, undeploys, commits, copy, orderly>>

\* Invalid, the copy is not saved and the request fails.
Valid(c) == seenState[c] = "working" => NoOtherWorking(row[c])

DeploySave(c) ==
  /\ at[c] = "save"
  /\ IF Valid(c)
     THEN token' = [token EXCEPT ![row[c]] = TRUE]
     ELSE UNCHANGED token
  /\ Answer(c)
  /\ UNCHANGED <<state, engine, orderly>>

(* undeploy!: check token and state, launch the process, save! the state. *)

UndeployLoad(c, d) ==
  /\ Begin(c, "launchUndeploy")
  /\ token[d] /\ state[d] = "success"
  /\ Load(c, d)
  /\ UNCHANGED <<table, engine>>

\* Mutant: the state is saved before the process is launched.
UndeployLaunchLater(c) ==
  /\ at[c] = "launchUndeploy"
  /\ state' = [state EXCEPT ![row[c]] = "removed"]
  /\ at' = [at EXCEPT ![c] = "saveRemoved"]
  /\ UNCHANGED <<token, engine, copy, orderly>>

UndeployLaunch(c) ==
  /\ at[c] = "launchUndeploy"
  /\ undeploys' = undeploys \union {row[c]}
  /\ at' = [at EXCEPT ![c] = "saveRemoved"]
  /\ UNCHANGED <<table, process, commits, copy, orderly>>

\* Mutant: the state of the copy was not set.
UndeploySaveUnset(c) ==
  /\ at[c] = "saveRemoved"
  /\ Answer(c)
  /\ UNCHANGED <<table, engine, orderly>>

UndeploySave(c) ==
  /\ at[c] = "saveRemoved"
  /\ state' = [state EXCEPT ![row[c]] = "removed"]
  /\ Answer(c)
  /\ UNCHANGED <<token, engine, orderly>>

(* commit_staging!: check token and state, create! the next deployment (the *)
(* table is read, then the row inserted), launch the process, save! its     *)
(* token.                                                                   *)

CommitLoad(c, d) ==
  /\ Begin(c, "validateNew")
  /\ token[d] /\ state[d] = "success"
  /\ Load(c, d)
  /\ UNCHANGED <<table, engine>>

CommitValidate(c) ==
  /\ at[c] = "validateNew"
  /\ IF NoOtherWorking(0)
     THEN at' = [at EXCEPT ![c] = "insertNew"] /\ UNCHANGED copy
     ELSE Answer(c)
  /\ UNCHANGED <<table, engine, orderly>>

CommitInsert(c) ==
  /\ at[c] = "insertNew"
  /\ Insert("working")
  /\ at' = [at EXCEPT ![c] = "launchCommit"]
  /\ UNCHANGED <<token, engine, copy, orderly>>

CommitLaunch(c) ==
  /\ at[c] = "launchCommit"
  /\ commits' = commits \union {row[c]}
  /\ at' = [at EXCEPT ![c] = "saveCommit"]
  /\ UNCHANGED <<table, process, undeploys, copy, orderly>>

\* Only commit_staging_task_token has changed, which nothing reads.
CommitSave(c) ==
  /\ at[c] = "saveCommit"
  /\ Answer(c)
  /\ UNCHANGED <<table, engine, orderly>>

\* The worker is gone, and with it the request.
Crash(c) ==
  /\ at[c] # "idle"
  /\ Answer(c)
  /\ orderly' = FALSE
  /\ UNCHANGED <<table, engine>>

-----------------------------------------------------------------------------
(* The processes: store_deployment_info and deployment_set_state load the    *)
(* row and save it at once.  deployment_call_deploy is one more client that *)
(* asks for a deploy!.                                                      *)

StoreInfo(p) ==
  /\ process[p] = "running"
  /\ \E s \in {"success", "failure"} : state' = [state EXCEPT ![p[1]] = s]
  /\ process' = [process EXCEPT ![p] = "ended"]
  /\ UNCHANGED <<token, undeploys, commits, at, copy, orderly>>

SetStateRemoved(d) ==
  /\ d \in commits
  /\ state' = [state EXCEPT ![d] = "removed"]
  /\ UNCHANGED <<token, engine, at, copy, orderly>>

Next ==
  \/ \E c \in Client :
       \/ CreateValidate(c) \/ CreateInsert(c)
       \/ DeployLaunch(c) \/ DeploySave(c)
       \/ UndeployLaunch(c) \/ UndeploySave(c)
       \/ CommitValidate(c) \/ CommitInsert(c) \/ CommitLaunch(c)
       \/ CommitSave(c) \/ Crash(c)
       \/ \E d \in Deployment :
            DeployLoad(c, d) \/ UndeployLoad(c, d) \/ CommitLoad(c, d)
  \/ \E d \in Deployment : SetStateRemoved(d)
  \/ \E p \in Process : StoreInfo(p)

Spec == Init /\ [][Next]_vars

-----------------------------------------------------------------------------
(* What holds whatever the workers do to each other. *)

\* The table never claims what has not happened: a row with an outcome has a
\* process that reached it, a token a process that was launched, and a removed
\* row a process that takes it down -- also when the worker dies half way.
OutcomesBacked ==
  \A d \in Deployment :
    /\ token[d] => \E n \in 1..MaxLaunches : process[<<d, n>>] # "none"
    /\ state[d] \in {"success", "failure"} =>
         \E n \in 1..MaxLaunches : process[<<d, n>>] = "ended"
    /\ state[d] = "removed" => d \in undeploys \union commits

\* As long as requests come one at a time and no worker dies, the token tells
\* between two requests whether there is a process, and the state whether the
\* deployment is being taken down; and no row is ever deployed twice ("Already
\* deployed", deployment.rb:147).
RequestsComplete ==
  orderly /\ (\A c \in Client : at[c] = "idle") =>
    \A d \in Deployment :
      /\ \A m, n \in 1..MaxLaunches :
           process[<<d, m>>] # "none" /\ process[<<d, n>>] # "none" => m = n
      /\ token[d] <=> \E n \in 1..MaxLaunches : process[<<d, n>>] # "none"
      /\ d \in undeploys => state[d] = "removed"
      /\ state[d] = "removed" => d \in undeploys \union commits

\* So long, the rows also go through the states that the abstract specification
\* allows, whatever the processes do meanwhile: no row starts to work beside
\* another ("can't have two running at the same time", deployment.rb:82).
Lifecycle == INSTANCE DeploymentLifecycle
               WITH Deployment <- Deployment, state <- state
OrderlyLifecycle == [][orderly' => [Lifecycle!Next]_state]_vars
=============================================================================
