--------------------------- MODULE DeployWorkflow ---------------------------
(***************************************************************************)
(* The deployments of one app: the API requests that create, deploy,       *)
(* undeploy and commit them, the three Ruote processes those requests      *)
(* launch (RUOTE_DEFINITION, UNDEPLOY_RUOTE_DEFINITION and                 *)
(* COMMIT_STAGING_RUOTE_DEFINITION of Deployment), participant by          *)
(* participant, and the jobs the participants hand to the agents, the      *)
(* environment builder and the HTTP gateways.                              *)
(*                                                                         *)
(* A request is one step here (module DeploymentApi splits it), and the    *)
(* end of a job and the reply of the rrs worker to the engine are one step *)
(* (the job's status is read once a second, in no particular order).       *)
(***************************************************************************)
EXTENDS Integers, FiniteSets

CONSTANTS N,                 \* deployments the app ever has (bound)
          Host,              \* servers that run an AppHost service
          NoHost,            \* no server
          ServiceInstances,  \* number of service instances of the app
          TemplateType,      \* template_type of the app's template
          Removals,          \* removals clients ask for, a subset of Remover
          Faults             \* what may go wrong, a subset of FaultKinds

Deployment == 1..N           \* rows in the order of their creation
EnvType == {"production", "staging"}
Install == Deployment \X Host
Remover == {"undeploy", "commit"}      \* processes that remove their deployment
Removal == Remover \X Deployment

FaultKinds ==
  { "job",          \* a job of a deploy or commit process fails
    "undeploy",     \* an UndeployAppJob fails
    "gateway",      \* a gateway takes more than the 5 seconds of wait_for_jobs
    "participant",  \* a participant raises before it has done anything
    "crash" }       \* the worker dies in a participant, its workitem is lost

ASSUME NAssumption == N \in Nat \ {0}
ASSUME NoHostAssumption == NoHost \notin Host
ASSUME ServicesAssumption == ServiceInstances \in Nat
ASSUME TemplateAssumption == TemplateType \in {"framework", "application"}
ASSUME RemovalsAssumption == Removals \subseteq Remover
ASSUME FaultsAssumption == Faults \subseteq FaultKinds

VARIABLES
  state,        \* Deployment#state, "absent" before the row exists
  env,          \* Deployment#envtype
  pc,           \* where the deploy process is; "none": task_token is nil
  build,        \* the "build" branch of its first concurrence
  services,     \* service instances its iterator has still to update
  hosts,        \* fields primary_app_host and other_app_hosts together
  primary,      \* field primary_app_host
  step,         \* branch of a host: DeployAppJob, then store_deployment_install
  running,      \* the deployments each agent runs
  installs,     \* rows of deployment_installs
  sent,         \* agent_ips of the last gateway update sent for a deployment
  routed,       \* ... and of the last one the gateways have applied
  jobs,         \* UndeployAppJobs created
  undeployed,   \* ... those whose status is completed
  broken,       \* ... those whose status is failed
  unroute,      \* http_gateway_update :remove_routes of a removal
  removal,      \* remove_deployment_installs of a removal
  commit,       \* commit_staging process of a deployment
  calls,        \* its deployment_call_deploy branch
  setState,     \* its deployment_set_state branch
  successor     \* the deployment commit_staging! created, 0 when none

deployVars == <<pc, build, services, hosts, primary>>
agentVars == <<step, running>>
gatewayVars == <<sent, routed>>
undeployVars == <<jobs, undeployed, broken>>
removalVars == <<unroute, removal>>
commitVars == <<commit, calls, setState, successor>>
vars == <<state, env, deployVars, agentVars, installs, gatewayVars,
          undeployVars, removalVars, commitVars>>

Job == [kind : {"cleanup"} \union Remover, by : Deployment, install : Install]

RowStates == {"absent", "working", "success", "failure", "removed"}

\* Positions of a deploy process that are a participant being consumed.
Consuming == {"select", "configure", "publish", "publishing", "cleanup",
              "cleanupWait", "info", "handler"}
Positions == Consuming \union
             {"none", "prepare", "primary", "configuring", "parked", "others",
              "ended", "lost"}

\* The DeployAppJob of a host is queued; then its row is to be stored, or it
\* was dropped with its cancelled branch; "lost" is a row never stored.
StepStates == {"none", "queued", "failed", "store", "stored", "dropped", "lost"}

TypeOK ==
  /\ state \in [Deployment -> RowStates]
  /\ env \in [Deployment -> EnvType]
  /\ pc \in [Deployment -> Positions]
  /\ build \in [Deployment -> {"none", "queued", "store", "stored"}]
  /\ services \in [Deployment -> 0..ServiceInstances]
  /\ hosts \in [Deployment -> SUBSET Host]
  /\ primary \in [Deployment -> Host \union {NoHost}]
  /\ step \in [Install -> StepStates]
  /\ running \in SUBSET Install
  /\ installs \in SUBSET Install
  /\ sent \in [Deployment -> SUBSET Host]
  /\ routed \in [Deployment -> SUBSET Host]
  /\ jobs \in SUBSET Job
  /\ undeployed \in SUBSET jobs
  /\ broken \in SUBSET jobs
  /\ unroute \in [Removal -> {"none", "ready", "ended"}]
  /\ removal \in [Removal -> {"none", "ready", "polling", "partial", "error",
                              "ended"}]
  /\ commit \in [Deployment -> {"none", "pack", "packing", "forked", "error"}]
  /\ calls \in [Deployment -> {"none", "ready", "error", "ended"}]
  /\ setState \in [Deployment -> {"none", "ready", "ended"}]
  /\ successor \in [Deployment -> 0..N]

Init ==
  /\ state = [d \in Deployment |-> "absent"]
  /\ env = [d \in Deployment |-> "production"]
  /\ pc = [d \in Deployment |-> "none"]
  /\ build = [d \in Deployment |-> "none"]
  /\ services = [d \in Deployment |-> 0]
  /\ hosts = [d \in Deployment |-> {}]
  /\ primary = [d \in Deployment |-> NoHost]
  /\ step = [i \in Install |-> "none"]
  /\ running = {}
  /\ installs = {}
  /\ sent = [d \in Deployment |-> {}]
  /\ routed = [d \in Deployment |-> {}]
  /\ jobs = {}
  /\ undeployed = {}
  /\ broken = {}
  /\ unroute = [r \in Removal |-> "none"]
  /\ removal = [r \in Removal |-> "none"]
  /\ commit = [d \in Deployment |-> "none"]
  /\ calls = [d \in Deployment |-> "none"]
  /\ setState = [d \in Deployment |-> "none"]
  /\ successor = [d \in Deployment |-> 0]

-----------------------------------------------------------------------------
(* Queries on the table. *)

HostsOf(d) == {h \in Host : <<d, h>> \in installs}
Active == {d \in Deployment : state[d] = "success" /\ env[d] = "production"}
First == Active = {}                              \* Deployment#first?
Pending(j) == j \in jobs \ (undeployed \union broken)

-----------------------------------------------------------------------------
(* API requests. *)

\* The row can be inserted: validation and the order of ids.
Insertable(d) ==
  /\ state[d] = "absent"
  /\ \A e \in Deployment : state[e] # "working"
  /\ \A e \in Deployment : e < d => state[e] # "absent"

Create(d) ==
  /\ Insertable(d)
  /\ state' = [state EXCEPT ![d] = "working"]
  /\ \E e \in EnvType : env' = [env EXCEPT ![d] = e]
  /\ UNCHANGED <<deployVars, agentVars, installs, gatewayVars, undeployVars,
                 removalVars, commitVars>>

\* deploy! raises "Already deployed" unless task_token is nil.
CanDeploy(d) == state[d] # "absent" /\ pc[d] = "none"

Deploy(d) ==
  /\ CanDeploy(d)
  /\ pc' = [pc EXCEPT ![d] = "select"]
  /\ UNCHANGED <<state, env, build, services, hosts, primary, agentVars,
                 installs, gatewayVars, undeployVars, removalVars, commitVars>>

\* Mutant: only the token is looked at.
DeployedToken(d) == pc[d] # "none"

\* undeploy! and commit_staging! raise "Not deployed" otherwise.
Deployed(d) == pc[d] # "none" /\ state[d] = "success"

Undeploy(d) ==
  /\ "undeploy" \in Removals
  /\ Deployed(d)
  /\ state' = [state EXCEPT ![d] = "removed"]
  /\ unroute' = [unroute EXCEPT ![<<"undeploy", d>>] = "ready"]
  /\ removal' = [removal EXCEPT ![<<"undeploy", d>>] = "ready"]
  /\ UNCHANGED <<env, deployVars, agentVars, installs, gatewayVars,
                 undeployVars, commitVars>>

\* A deployment is committed once (bound); new is a production deployment.
CommitStaging(d, new) ==
  /\ "commit" \in Removals
  /\ Deployed(d)
  /\ commit[d] = "none"
  /\ Insertable(new)
  /\ state' = [state EXCEPT ![new] = "working"]
  /\ env' = [env EXCEPT ![new] = "production"]
  /\ commit' = [commit EXCEPT ![d] = "pack"]
  /\ successor' = [successor EXCEPT ![d] = new]
  /\ UNCHANGED <<deployVars, agentVars, installs, gatewayVars, undeployVars,
                 removalVars, calls, setState>>

-----------------------------------------------------------------------------
(* The deploy process.  Go(d, p) moves the process, and nothing else of it. *)

Go(d, p) == pc' = [pc EXCEPT ![d] = p]

\* Mutant: the outer sequence has no :on_error.
RaiseUnhandled(d) == Go(d, "lost")

\* An error below the outer sequence cancels its branches, which only log it
\* (GenericParticipantCancelHandler), and puts handle_issue in their place.
Raise(d) == Go(d, "handler")

\* select_apphosts: all active hosts for production, one of them for staging;
\* the first is the primary.  Without any, it raises.
SelectAppHosts(d) ==
  /\ pc[d] = "select"
  /\ \/ \E hs \in SUBSET Host \ {{}} :
          /\ env[d] = "staging" => Cardinality(hs) = 1
          /\ \E p \in hs :
               /\ hosts' = [hosts EXCEPT ![d] = hs]
               /\ primary' = [primary EXCEPT ![d] = p]
          /\ build' = [build EXCEPT ![d] = "queued"]
          /\ services' = [services EXCEPT ![d] = ServiceInstances]
          /\ Go(d, "prepare")
     \/ /\ Raise(d)
        /\ UNCHANGED <<build, services, hosts, primary>>
  /\ UNCHANGED <<state, env, agentVars, installs, gatewayVars, undeployVars,
                 removalVars, commitVars>>

\* The environment builder ends the BuildRootJob of envroot_builder.
BuildEnvroot(d) ==
  /\ pc[d] = "prepare" /\ build[d] = "queued"
  /\ \/ build' = [build EXCEPT ![d] = "store"] /\ UNCHANGED pc
     \/ "job" \in Faults /\ Raise(d) /\ UNCHANGED build
  /\ UNCHANGED <<state, env, services, hosts, primary, agentVars, installs,
                 gatewayVars, undeployVars, removalVars, commitVars>>

StoreEnvrootBuilderResult(d) ==
  /\ pc[d] = "prepare" /\ build[d] = "store"
  /\ build' = [build EXCEPT ![d] = "stored"]
  /\ UNCHANGED <<state, env, pc, services, hosts, primary, agentVars, installs,
                 gatewayVars, undeployVars, removalVars, commitVars>>

\* One UpdateServiceInstanceJob at a time.
UpdateServiceInstance(d) ==
  /\ pc[d] = "prepare" /\ services[d] > 0
  /\ \/ services' = [services EXCEPT ![d] = @ - 1] /\ UNCHANGED pc
     \/ "job" \in Faults /\ Raise(d) /\ UNCHANGED services
  /\ UNCHANGED <<state, env, build, hosts, primary, agentVars, installs,
                 gatewayVars, undeployVars, removalVars, commitVars>>

\* Both branches have replied: the job for the primary is created.
DeployOnPrimary(d) ==
  /\ pc[d] = "prepare" /\ build[d] = "stored" /\ services[d] = 0
  /\ step' = [step EXCEPT ![<<d, primary[d]>>] = "queued"]
  /\ Go(d, "primary")
  /\ UNCHANGED <<state, env, build, services, hosts, primary, running,
                 installs, gatewayVars, undeployVars, removalVars, commitVars>>

\* An agent runs a DeployAppJob.  The job of a cancelled branch runs all the
\* same: the rrs worker then finds no expression to reply to.
DeployApp(d, h) ==
  /\ step[<<d, h>>] = "queued"
  /\ \/ /\ running' = running \union {<<d, h>>}
        /\ step' = [step EXCEPT ![<<d, h>>] =
                      IF pc[d] \in {"primary", "others"} THEN "store"
                                                         ELSE "dropped"]
        /\ UNCHANGED pc
     \/ /\ "job" \in Faults
        /\ step' = [step EXCEPT ![<<d, h>>] = "failed"]
        /\ IF pc[d] \in {"primary", "others"} THEN Raise(d) ELSE UNCHANGED pc
        /\ UNCHANGED running
  /\ UNCHANGED <<state, env, build, services, hosts, primary, installs,
                 gatewayVars, undeployVars, removalVars, commitVars>>

\* store_deployment_install, in a thread that a cancel does not stop.
StoreDeploymentInstall(d, h) ==
  /\ step[<<d, h>>] = "store"
  /\ \/ /\ installs' = installs \union {<<d, h>>}
        /\ step' = [step EXCEPT ![<<d, h>>] = "stored"]
        /\ UNCHANGED pc
     \/ /\ step' = [step EXCEPT ![<<d, h>>] = "lost"]
        /\ \/ "crash" \in Faults /\ UNCHANGED pc
           \/ /\ "participant" \in Faults
              /\ IF pc[d] \in {"primary", "others"} THEN Raise(d)
                                                    ELSE UNCHANGED pc
        /\ UNCHANGED installs
  /\ UNCHANGED <<state, env, build, services, hosts, primary, running,
                 gatewayVars, undeployVars, removalVars, commitVars>>

PrimaryDeployed(d) ==
  /\ pc[d] = "primary" /\ step[<<d, primary[d]>>] = "stored"
  /\ Go(d, "configure")
  /\ UNCHANGED <<state, env, build, services, hosts, primary, agentVars,
                 installs, gatewayVars, undeployVars, removalVars, commitVars>>

\* run_configure_script replies through its job only, and creates one for the
\* first deployment of an application: otherwise nothing ever replies.
RunConfigureScript(d) ==
  /\ pc[d] = "configure"
  /\ Go(d, IF First /\ TemplateType = "application" THEN "configuring"
                                                    ELSE "parked")
  /\ UNCHANGED <<state, env, build, services, hosts, primary, agentVars,
                 installs, gatewayVars, undeployVars, removalVars, commitVars>>

\* The RunConfigureScriptJob ends, and the jobs for the other hosts start.
Configured(d) ==
  /\ pc[d] = "configuring"
  /\ \/ /\ step' = [i \in Install |->
                      IF i[1] = d /\ i[2] \in hosts[d] \ {primary[d]}
                      THEN "queued" ELSE step[i]]
        /\ Go(d, "others")
     \/ "job" \in Faults /\ Raise(d) /\ UNCHANGED step
  /\ UNCHANGED <<state, env, build, services, hosts, primary, running,
                 installs, gatewayVars, undeployVars, removalVars, commitVars>>

\* Mutant: the concurrent iterator goes on with the first reply.
OthersDeployedFirstReply(d) ==
  /\ pc[d] = "others"
  /\ \E h \in hosts[d] : step[<<d, h>>] = "stored"
  /\ Go(d, "publish")
  /\ UNCHANGED <<state, env, build, services, hosts, primary, agentVars,
                 installs, gatewayVars, undeployVars, removalVars, commitVars>>

OthersDeployed(d) ==
  /\ pc[d] = "others"
  /\ \A h \in hosts[d] : step[<<d, h>>] = "stored"
  /\ Go(d, "publish")
  /\ UNCHANGED <<state, env, build, services, hosts, primary, agentVars,
                 installs, gatewayVars, undeployVars, removalVars, commitVars>>

\* http_gateway_update: the gateways are sent the hosts in the table ...
HttpGatewayUpdate(d) ==
  /\ pc[d] = "publish"
  /\ sent' = [sent EXCEPT ![d] = HostsOf(d)]
  /\ Go(d, "publishing")
  /\ UNCHANGED <<state, env, build, services, hosts, primary, agentVars,
                 installs, routed, undeployVars, removalVars, commitVars>>

\* Mutant: replies to the engine without waiting for the jobs.
WaitForGatewaysNot(d) ==
  /\ pc[d] = "publishing"
  /\ Go(d, "cleanup")
  /\ UNCHANGED <<state, env, build, services, hosts, primary, agentVars,
                 installs, gatewayVars, undeployVars, removalVars, commitVars>>

\* ... and wait_for_jobs ends when they have applied it, or after 5 seconds.
WaitForGateways(d) ==
  /\ pc[d] = "publishing"
  /\ routed[d] = sent[d] \/ "gateway" \in Faults
  /\ Go(d, "cleanup")
  /\ UNCHANGED <<state, env, build, services, hosts, primary, agentVars,
                 installs, gatewayVars, undeployVars, removalVars, commitVars>>

\* A gateway applies the latest update of a deployment.
UpdateGatewayRoute(d) ==
  /\ routed[d] # sent[d]
  /\ routed' = [routed EXCEPT ![d] = sent[d]]
  /\ UNCHANGED <<state, env, deployVars, agentVars, installs, sent,
                 undeployVars, removalVars, commitVars>>

\* The installs of all other deployments of the same envtype, whatever their
\* state.
OldInstalls(d) == {i \in installs : i[1] # d /\ env[i[1]] = env[d]}
CleanupJobs(d) == {j \in jobs : j.kind = "cleanup" /\ j.by = d}
JobsFor(kind, d, is) == {[kind |-> kind, by |-> d, install |-> i] : i \in is}

CleanupOldDeployments(d) ==
  /\ pc[d] = "cleanup"
  /\ \/ /\ jobs' = jobs \union JobsFor("cleanup", d, OldInstalls(d))
        /\ Go(d, IF OldInstalls(d) = {} THEN "info" ELSE "cleanupWait")
     \/ /\ "participant" \in Faults           \* raises between two jobs
        /\ \E is \in SUBSET OldInstalls(d) :
             jobs' = jobs \union JobsFor("cleanup", d, is)
        /\ Raise(d)
  /\ UNCHANGED <<state, env, build, services, hosts, primary, agentVars,
                 installs, gatewayVars, undeployed, broken, removalVars,
                 commitVars>>

\* Five looks at the jobs.  The first completed one ends them: its row is
\* destroyed, then Resque::Status.remove_one is not defined in this process
\* and the error is rescued.
CleanupWait(d) ==
  /\ pc[d] = "cleanupWait"
  /\ \/ \E j \in CleanupJobs(d) \intersect undeployed :
          installs' = installs \ {j.install}
     \/ UNCHANGED installs
  /\ Go(d, "info")
  /\ UNCHANGED <<state, env, build, services, hosts, primary, agentVars,
                 gatewayVars, undeployVars, removalVars, commitVars>>

\* store_deployment_info, at the end of the sequence or for handle_issue.
StoreDeploymentInfo(d) ==
  /\ pc[d] \in {"info", "handler"}
  /\ state' = [state EXCEPT ![d] = IF pc[d] = "info" THEN "success"
                                                     ELSE "failure"]
  /\ Go(d, "ended")
  /\ UNCHANGED <<env, build, services, hosts, primary, agentVars, installs,
                 gatewayVars, undeployVars, removalVars, commitVars>>

\* Any participant may raise before it has done anything; under handle_issue
\* nothing handles the error any more.
ParticipantRaises(d) ==
  /\ "participant" \in Faults
  /\ \/ pc[d] \in Consuming \ {"cleanupWait", "handler"} /\ Raise(d)
     \/ pc[d] = "prepare" /\ build[d] = "store" /\ Raise(d)
     \/ pc[d] = "handler" /\ Go(d, "lost")
  /\ UNCHANGED <<state, env, build, services, hosts, primary, agentVars,
                 installs, gatewayVars, undeployVars, removalVars, commitVars>>

\* The worker dies while a participant has the workitem.
WorkerCrash(d) ==
  /\ "crash" \in Faults
  /\ pc[d] \in Consuming \/ (pc[d] = "prepare" /\ build[d] = "store")
  /\ Go(d, "lost")
  /\ UNCHANGED <<state, env, build, services, hosts, primary, agentVars,
                 installs, gatewayVars, undeployVars, removalVars, commitVars>>

-----------------------------------------------------------------------------
(* Agents, and the processes that remove a deployment.  An UndeployAppJob  *)
(* stops the deployment on its host; the row is left to whoever waits for   *)
(* the job.                                                                *)

UndeployApp(j) ==
  /\ Pending(j)
  /\ \/ /\ undeployed' = undeployed \union {j}
        /\ running' = running \ {j.install}
        /\ UNCHANGED broken
     \/ /\ "undeploy" \in Faults
        /\ broken' = broken \union {j}
        /\ UNCHANGED <<undeployed, running>>
  /\ UNCHANGED <<state, env, deployVars, step, installs, gatewayVars, jobs,
                 removalVars, commitVars>>

\* http_gateway_update :remove_routes => true
RemoveRoutes(r) ==
  /\ unroute[r] = "ready"
  /\ sent' = [sent EXCEPT ![r[2]] = {}]
  /\ unroute' = [unroute EXCEPT ![r] = "ended"]
  /\ UNCHANGED <<state, env, deployVars, agentVars, installs, routed,
                 undeployVars, removal, commitVars>>

\* Mutant: a job for the first row only.
RemoveInstallsFirst(r) ==
  /\ removal[r] = "ready"
  /\ LET own == {i \in installs : i[1] = r[2]}
         one == IF own = {} THEN {} ELSE {CHOOSE i \in own : TRUE}
     IN  /\ jobs' = jobs \union JobsFor(r[1], r[2], one)
         /\ removal' = [removal EXCEPT ![r] = IF own = {} THEN "ended"
                                                          ELSE "polling"]
  /\ UNCHANGED <<state, env, deployVars, agentVars, installs, gatewayVars,
                 undeployed, broken, unroute, commitVars>>

\* remove_deployment_installs creates a job per row and looks at all of them
\* up to 30 times ...
RemoveInstalls(r) ==
  /\ removal[r] = "ready"
  /\ LET own == {i \in installs : i[1] = r[2]}
     IN  /\ jobs' = jobs \union JobsFor(r[1], r[2], own)
         /\ removal' = [removal EXCEPT ![r] = IF own = {} THEN "ended"
                                                          ELSE "polling"]
  /\ UNCHANGED <<state, env, deployVars, agentVars, installs, gatewayVars,
                 undeployed, broken, unroute, commitVars>>

\* ... and destroys the row of each completed one.  A completed job keeps its
\* status, so that the next look does not find its row: this raises, and no
\* one handles it.  So does a row a cleanup has destroyed.
RemovalJobs(r) == {j \in jobs : j.kind = r[1] /\ j.by = r[2]}
RowsOf(js) == {j.install : j \in js}

PollJobs(r) ==
  /\ removal[r] \in {"polling", "partial"}
  /\ LET seen == RemovalJobs(r) \intersect undeployed
     IN  /\ seen # {}
         /\ IF removal[r] = "polling" /\ RowsOf(seen) \subseteq installs
            THEN /\ installs' = installs \ RowsOf(seen)
                 /\ removal' = [removal EXCEPT ![r] =
                      IF seen = RemovalJobs(r) THEN "ended" ELSE "partial"]
            ELSE /\ \E is \in SUBSET (RowsOf(seen) \intersect installs) :
                      installs' = installs \ is
                 /\ removal' = [removal EXCEPT ![r] = "error"]
  /\ UNCHANGED <<state, env, deployVars, agentVars, gatewayVars, undeployVars,
                 unroute, commitVars>>

\* Mutant: the rows go when the thirty seconds are over.
PollTimeoutDestroys(r) ==
  /\ removal[r] \in {"polling", "partial"}
  /\ removal' = [removal EXCEPT ![r] = "ended"]
  /\ installs' = installs \ RowsOf(RemovalJobs(r))
  /\ UNCHANGED <<state, env, deployVars, agentVars, gatewayVars,
                 undeployVars, unroute, commitVars>>

\* The thirty seconds are over.
PollTimeout(r) ==
  /\ removal[r] \in {"polling", "partial"}
  /\ removal' = [removal EXCEPT ![r] = "ended"]
  /\ UNCHANGED <<state, env, deployVars, agentVars, installs, gatewayVars,
                 undeployVars, unroute, commitVars>>

\* staging_pack_and_store_code asks the agent of the first row; without a row
\* it raises.
PackAndStoreCode(d) ==
  /\ commit[d] = "pack"
  /\ commit' = [commit EXCEPT ![d] = IF HostsOf(d) = {} THEN "error"
                                                        ELSE "packing"]
  /\ UNCHANGED <<state, env, deployVars, agentVars, installs, gatewayVars,
                 undeployVars, removalVars, calls, setState, successor>>

\* The PackAndStoreCodeJob ends: the four branches of the concurrence start.
Packed(d) ==
  /\ commit[d] = "packing"
  /\ \/ /\ commit' = [commit EXCEPT ![d] = "forked"]
        /\ unroute' = [unroute EXCEPT ![<<"commit", d>>] = "ready"]
        /\ removal' = [removal EXCEPT ![<<"commit", d>>] = "ready"]
        /\ calls' = [calls EXCEPT ![d] = "ready"]
        /\ setState' = [setState EXCEPT ![d] = "ready"]
     \/ /\ "job" \in Faults
        /\ commit' = [commit EXCEPT ![d] = "error"]
        /\ UNCHANGED <<removalVars, calls, setState>>
  /\ UNCHANGED <<state, env, deployVars, agentVars, installs, gatewayVars,
                 undeployVars, successor>>

\* deployment_call_deploy: deploy! of the new deployment, which raises when a
\* client has deployed it already.
CallDeploy(d) ==
  /\ calls[d] = "ready"
  /\ IF CanDeploy(successor[d])
     THEN /\ Go(successor[d], "select")
          /\ calls' = [calls EXCEPT ![d] = "ended"]
     ELSE /\ calls' = [calls EXCEPT ![d] = "error"]
          /\ UNCHANGED pc
  /\ UNCHANGED <<state, env, build, services, hosts, primary, agentVars,
                 installs, gatewayVars, undeployVars, removalVars, commit,
                 setState, successor>>

\* deployment_set_state :state => 'removed', whatever the state is.
SetStateRemoved(d) ==
  /\ setState[d] = "ready"
  /\ state' = [state EXCEPT ![d] = "removed"]
  /\ setState' = [setState EXCEPT ![d] = "ended"]
  /\ UNCHANGED <<env, deployVars, agentVars, installs, gatewayVars,
                 undeployVars, removalVars, commit, calls, successor>>

-----------------------------------------------------------------------------
Request(d) ==
  \/ Create(d) \/ Deploy(d) \/ Undeploy(d)
  \/ \E new \in Deployment : CommitStaging(d, new)

DeployProcess(d) ==
  \/ SelectAppHosts(d) \/ BuildEnvroot(d) \/ StoreEnvrootBuilderResult(d)
  \/ UpdateServiceInstance(d) \/ DeployOnPrimary(d)
  \/ \E h \in Host : DeployApp(d, h) \/ StoreDeploymentInstall(d, h)
  \/ PrimaryDeployed(d) \/ RunConfigureScript(d) \/ Configured(d)
  \/ OthersDeployed(d) \/ HttpGatewayUpdate(d) \/ WaitForGateways(d)
  \/ UpdateGatewayRoute(d) \/ CleanupOldDeployments(d) \/ CleanupWait(d)
  \/ StoreDeploymentInfo(d)

RemovalProcess(r) ==
  RemoveRoutes(r) \/ RemoveInstalls(r) \/ PollJobs(r) \/ PollTimeout(r)

CommitProcess(d) ==
  PackAndStoreCode(d) \/ Packed(d) \/ CallDeploy(d) \/ SetStateRemoved(d)

Fault(d) == ParticipantRaises(d) \/ WorkerCrash(d)

Next ==
  \/ \E d \in Deployment :
       Request(d) \/ DeployProcess(d) \/ CommitProcess(d) \/ Fault(d)
  \/ \E r \in Removal : RemovalProcess(r)
  \/ \E j \in jobs : UndeployApp(j)

Spec == Init /\ [][Next]_vars

\* The workers, agents and gateways go on as long as they have something to
\* do; nothing makes clients ask or things fail.  No step of theirs can be
\* repeated for ever, so that none starves when the group goes on.
Fairness ==
  /\ WF_vars(\E d \in Deployment : DeployProcess(d) \/ CommitProcess(d))
  /\ WF_vars(\E r \in Removal : RemovalProcess(r))
  /\ WF_vars(\E j \in jobs : UndeployApp(j))

FairSpec == Spec /\ Fairness

-----------------------------------------------------------------------------
(* Properties. *)

\* A host that runs a deployment which has ended well, or which was removed
\* since, has a row in deployment_installs: the rows are all that a later
\* undeploy! or cleanup knows of, so that a host without one runs for ever.
\* Rows are destroyed by three kinds of participants that know nothing of each
\* other (ruote_participants.rb:184-193, 197, 233).
HostsAccounted ==
  \A i \in running : state[i[1]] \in {"success", "removed"} => i \in installs

\* A deployment becomes a success only when every host selected for it runs
\* it and has its row, and when the gateways were sent exactly these hosts.
\* No process of another deployment may have stopped one meanwhile.
SuccessServes ==
  [][\A d \in Deployment :
       state[d] = "working" /\ state'[d] = "success" =>
         /\ hosts[d] # {} /\ sent[d] = hosts[d]
         /\ {d} \X hosts[d] \subseteq running \intersect installs]_vars

\* An environment that the gateways route to running hosts does so for ever,
\* unless a client has undeployed or committed one of its deployments: a new
\* deployment stops the old ones only once it is itself published.
Serves(d) == routed[d] # {} /\ {d} \X routed[d] \subseteq running
Serving(e) == \E d \in Deployment : env[d] = e /\ Serves(d)
Gone(d) == state[d] = "removed" \/ commit[d] = "forked"
Withdrawn(e) == \E d \in Deployment : env[d] = e /\ Gone(d)
NoDowntime ==
  [][\A e \in EnvType : Serving(e) /\ ~Serving(e)' => Withdrawn(e)]_vars

\* The rows go through the states the abstract specification allows.
Lifecycle == INSTANCE DeploymentLifecycle
               WITH Deployment <- Deployment, state <- state
LifecycleSpec == Lifecycle!Spec

\* A deploy process that is launched comes to its end, whatever job fails, or
\* waits for a configure script that was never started.
EndsOrParks ==
  <>[](\A d \in Deployment : pc[d] \in {"none", "ended", "parked"})

\* A removed deployment stops on all its hosts, also when the process that
\* removes it stops with an error half way.
RemovedStops ==
  <>[](\A d \in Deployment :
         state[d] = "removed" => \A h \in Host : <<d, h>> \notin running)

-----------------------------------------------------------------------------
(* The inductive invariant behind the safety properties.                   *)

Selected == {"prepare", "primary", "configure", "configuring", "parked",
             "others"}
Complete == {"publish", "publishing", "cleanup", "cleanupWait", "info"}

\* A process and its row agree, and only one row is working.
ProcessOwnsRow ==
  \A d \in Deployment :
    /\ pc[d] = "none" => state[d] \in {"absent", "working"}
    /\ pc[d] \notin {"none", "ended"} => state[d] = "working"
    /\ pc[d] = "ended" => state[d] \in {"success", "failure", "removed"}

OneWorking ==
  \A d, e \in Deployment : state[d] = "working" /\ state[e] = "working" => d = e

\* Only a success is removed, by whichever process.
RemovalFollowsSuccess ==
  \A d \in Deployment :
    /\ \/ commit[d] # "none"
       \/ setState[d] # "none"
       \/ \E k \in Remover :
            unroute[<<k, d>>] # "none" \/ removal[<<k, d>>] # "none"
       => state[d] \in {"success", "removed"}
    /\ calls[d] # "none" => commit[d] # "none"
    /\ commit[d] # "none" => successor[d] \in Deployment

\* How far the branches of the hosts can be at each point of the process.
StepsFollowProcess ==
  \A d \in Deployment :
    /\ pc[d] \in Selected \union Complete => primary[d] \in hosts[d]
    /\ \A h \in Host :
         /\ pc[d] \in {"none", "select", "prepare"} => step[<<d, h>>] = "none"
         /\ pc[d] \in {"primary", "configure", "configuring", "parked"}
              => h = primary[d] \/ step[<<d, h>>] = "none"
         /\ pc[d] = "others" => h \in hosts[d] \/ step[<<d, h>>] = "none"
         /\ pc[d] \in Complete
              => step[<<d, h>>] = IF h \in hosts[d] THEN "stored" ELSE "none"
         /\ state[d] \in {"success", "removed"}
              => step[<<d, h>>] \in {"none", "stored"}

\* A running host has its row, or the thread that is to write it has not (yet)
\* done so; while its process works nobody stops a host.
RowsFollowSteps ==
  \A i \in Install :
    /\ i \in installs => step[i] = "stored"
    /\ step[i] = "store" => i \in running
    /\ i \in running \ installs => step[i] \in {"store", "dropped", "lost"}
    /\ step[i] = "stored" /\ state[i[1]] = "working" =>
         i \in running \intersect installs

\* An undeploy job is for a host that had its row, of a deployment that has
\* come to its end; once it is completed the host never runs it again.
JobsFollowRows ==
  \A j \in jobs :
    /\ step[j.install] = "stored"
    /\ state[j.install[1]] \notin {"absent", "working"}
    /\ j \in undeployed => j.install \notin running

\* What the gateways were sent when the process waits for them, or is past it.
SentFollowsProcess ==
  \A d \in Deployment : pc[d] \in Complete \ {"publish"} => sent[d] = hosts[d]

IInv ==
  /\ TypeOK
  /\ ProcessOwnsRow
  /\ OneWorking
  /\ RemovalFollowsSuccess
  /\ StepsFollowProcess
  /\ RowsFollowSteps
  /\ JobsFollowRows
  /\ SentFollowsProcess

-----------------------------------------------------------------------------
(* What NoDowntime needs on top, when every gateway answers within the five *)
(* seconds of wait_for_jobs.                                                *)

Unpublished == Selected \union {"none", "select", "publish"}
Published == {"cleanup", "cleanupWait", "info"}

\* The gateways follow what they are sent, and are sent nothing else for a
\* deployment that they serve unless a client has asked for its end.
RoutedFollowsSent ==
  \A d \in Deployment :
    /\ pc[d] \in Unpublished => sent[d] = {} /\ routed[d] = {}
    /\ pc[d] \in Published => routed[d] = sent[d]
    /\ routed[d] # {} /\ sent[d] # routed[d] => Gone(d)

RemovalsGone ==
  \A r \in Removal : unroute[r] # "none" \/ removal[r] # "none" => Gone(r[2])

\* A host is stopped for a later deployment of the same environment, or by
\* the process that removes its own deployment.
JobsAreDue ==
  \A j \in jobs :
    IF j.kind = "cleanup"
    THEN state[j.by] # "absent" /\ env[j.by] = env[j.install[1]]
    ELSE Gone(j.install[1])

\* Once a cleanup stops hosts of an environment, a deployment of it serves
\* that no cleanup stops.
Cleanups == {j \in jobs : j.kind = "cleanup"}
Spared(f) == \A j \in Cleanups : j.install[1] # f
Replaced ==
  \A e \in EnvType :
    (\E j \in Cleanups : env[j.by] = e) =>
      \/ Withdrawn(e)
      \/ \E f \in Deployment : env[f] = e /\ Serves(f) /\ Spared(f)

ServeInv == RoutedFollowsSent /\ RemovalsGone /\ JobsAreDue /\ Replaced
=============================================================================
