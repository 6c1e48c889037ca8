------------------------ MODULE DeployWorkflowProofs ------------------------
(***************************************************************************)
(* Proofs about DeployWorkflow, for every number of deployments and        *)
(* service instances, every set of hosts, both template types and every    *)
(* choice of faults and removals.                                          *)
(***************************************************************************)
EXTENDS DeployWorkflow, TLAPS

\* What UNCHANGED stands for in the actions.
USE DEF vars, deployVars, agentVars, gatewayVars, undeployVars, removalVars,
        commitVars

-----------------------------------------------------------------------------
(* Types. *)

LEMMA InitTypeOK == Init => TypeOK
  BY NAssumption, ServicesAssumption
  DEF Init, TypeOK, RowStates, EnvType, Positions, Consuming, StepStates

\* Steps of the API keep the types.
LEMMA TypeRequest ==
  ASSUME TypeOK, NEW d \in Deployment, Request(d)
  PROVE  TypeOK'
<1> USE DEF TypeOK, RowStates, EnvType, Positions, Consuming, Removal, Remover
<1>1. CASE Create(d)
  BY <1>1 DEF Create, Insertable
<1>2. CASE Deploy(d)
  BY <1>2 DEF Deploy
<1>3. CASE Undeploy(d)
  BY <1>3 DEF Undeploy
<1>4. CASE \E new \in Deployment : CommitStaging(d, new)
  BY <1>4 DEF CommitStaging, Deployment
<1>. QED
  BY <1>1, <1>2, <1>3, <1>4 DEF Request

\* Steps of a deploy process and its jobs keep the types.
LEMMA TypeDeployProcess ==
  ASSUME TypeOK, NEW d \in Deployment, DeployProcess(d)
  PROVE  TypeOK'
<1> USE ServicesAssumption
    DEF TypeOK, RowStates, Positions, Consuming, StepStates, Go, Raise
<1>1. CASE SelectAppHosts(d)
  BY <1>1 DEF SelectAppHosts
<1>2. CASE BuildEnvroot(d)
  BY <1>2 DEF BuildEnvroot
<1>3. CASE StoreEnvrootBuilderResult(d)
  BY <1>3 DEF StoreEnvrootBuilderResult
<1>4. CASE UpdateServiceInstance(d)
  BY <1>4 DEF UpdateServiceInstance
<1>5. CASE DeployOnPrimary(d)
  BY <1>5 DEF DeployOnPrimary
<1>6. ASSUME NEW h \in Host, DeployApp(d, h) PROVE TypeOK'
  <2>1. step' \in [Install -> StepStates]
    BY <1>6 DEF DeployApp
  <2>2. running' \in SUBSET Install
    BY <1>6 DEF DeployApp, Install
  <2>3. pc' \in [Deployment -> Positions]
    BY <1>6 DEF DeployApp
  <2>. QED
    BY <1>6, <2>1, <2>2, <2>3 DEF DeployApp
<1>7. ASSUME NEW h \in Host, StoreDeploymentInstall(d, h) PROVE TypeOK'
  <2>1. step' \in [Install -> StepStates]
    BY <1>7 DEF StoreDeploymentInstall
  <2>2. installs' \in SUBSET Install
    BY <1>7 DEF StoreDeploymentInstall, Install
  <2>3. pc' \in [Deployment -> Positions]
    BY <1>7 DEF StoreDeploymentInstall
  <2>. QED
    BY <1>7, <2>1, <2>2, <2>3 DEF StoreDeploymentInstall
<1>8. CASE PrimaryDeployed(d)
  BY <1>8 DEF PrimaryDeployed
<1>9. CASE RunConfigureScript(d)
  BY <1>9 DEF RunConfigureScript
<1>10. CASE Configured(d)
  BY <1>10 DEF Configured
<1>11. CASE OthersDeployed(d)
  BY <1>11 DEF OthersDeployed
<1>12. CASE HttpGatewayUpdate(d)
  BY <1>12 DEF HttpGatewayUpdate, HostsOf
<1>13. CASE WaitForGateways(d)
  BY <1>13 DEF WaitForGateways
<1>14. CASE UpdateGatewayRoute(d)
  BY <1>14 DEF UpdateGatewayRoute
<1>15. CASE CleanupOldDeployments(d)
  BY <1>15 DEF CleanupOldDeployments, JobsFor, OldInstalls, Job
<1>16. CASE CleanupWait(d)
  BY <1>16 DEF CleanupWait
<1>17. CASE StoreDeploymentInfo(d)
  BY <1>17 DEF StoreDeploymentInfo
<1>. QED
  BY <1>1, <1>2, <1>3, <1>4, <1>5, <1>6, <1>7, <1>8, <1>9, <1>10, <1>11,
     <1>12, <1>13, <1>14, <1>15, <1>16, <1>17 DEF DeployProcess

\* Steps of a removal, of a commit, of an agent that undeploys, and faults.
LEMMA TypeRemovalProcess ==
  ASSUME TypeOK, NEW r \in Removal, RemovalProcess(r)
  PROVE  TypeOK'
<1> USE DEF TypeOK
<1>1. CASE RemoveRoutes(r)
  BY <1>1 DEF RemoveRoutes, Removal
<1>2. CASE RemoveInstalls(r)
  BY <1>2 DEF RemoveInstalls, Removal, JobsFor, Job
<1>3. CASE PollJobs(r)
  <2>1. installs' \in SUBSET Install
    BY <1>3 DEF PollJobs
  <2>2. removal' \in [Removal -> {"none", "ready", "polling", "partial",
                                  "error", "ended"}]
    BY <1>3 DEF PollJobs
  <2>. QED
    BY <1>3, <2>1, <2>2 DEF PollJobs
<1>4. CASE PollTimeout(r)
  BY <1>4 DEF PollTimeout
<1>. QED
  BY <1>1, <1>2, <1>3, <1>4 DEF RemovalProcess

LEMMA TypeCommitProcess ==
  ASSUME TypeOK, NEW d \in Deployment, CommitProcess(d)
  PROVE  TypeOK'
<1> USE DEF TypeOK
<1>1. CASE PackAndStoreCode(d)
  BY <1>1 DEF PackAndStoreCode
<1>2. CASE Packed(d)
  BY <1>2 DEF Packed, Removal, Remover
<1>3. CASE CallDeploy(d)
  BY <1>3 DEF CallDeploy, Go, Positions, Consuming
<1>4. CASE SetStateRemoved(d)
  BY <1>4 DEF SetStateRemoved, RowStates
<1>. QED
  BY <1>1, <1>2, <1>3, <1>4 DEF CommitProcess

LEMMA TypeUndeployApp ==
  ASSUME TypeOK, NEW j \in jobs, UndeployApp(j)
  PROVE  TypeOK'
BY DEF TypeOK, UndeployApp

LEMMA TypeFault ==
  ASSUME TypeOK, NEW d \in Deployment, Fault(d)
  PROVE  TypeOK'
BY DEF TypeOK, Fault, ParticipantRaises, WorkerCrash, Raise, Go, Positions,
       Consuming

LEMMA TypeStep == TypeOK /\ [Next]_vars => TypeOK'
<1> SUFFICES ASSUME TypeOK, [Next]_vars PROVE TypeOK'
  OBVIOUS
<1>1. CASE UNCHANGED vars
  BY <1>1 DEF TypeOK
<1>2. CASE Next
  BY <1>2, TypeRequest, TypeDeployProcess, TypeRemovalProcess,
     TypeCommitProcess, TypeUndeployApp, TypeFault DEF Next
<1>. QED
  BY <1>1, <1>2

\* The variables stay within their types.
THEOREM TypeCorrect == Spec => []TypeOK
BY InitTypeOK, TypeStep, PTL DEF Spec

-----------------------------------------------------------------------------
(* The process and its row. *)

\* A deploy process goes from one position to another, and writes the state of
\* its row in store_deployment_info only.
Moves(d) ==
  \/ UNCHANGED pc
  \/ /\ pc[d] \notin {"none", "ended"}
     /\ \E p \in Positions \ {"none", "ended"} : pc' = [pc EXCEPT ![d] = p]

LEMMA DeployMoves ==
  ASSUME TypeOK, NEW d \in Deployment, DeployProcess(d)
  PROVE  /\ UNCHANGED <<env, removalVars, commitVars>>
         /\ StoreDeploymentInfo(d) \/ (UNCHANGED state /\ Moves(d))
<1> USE DEF Moves, Go, Raise, Positions, Consuming
<1>1. CASE SelectAppHosts(d)
  BY <1>1 DEF SelectAppHosts
<1>2. CASE BuildEnvroot(d)
  BY <1>2 DEF BuildEnvroot
<1>3. CASE StoreEnvrootBuilderResult(d)
  BY <1>3 DEF StoreEnvrootBuilderResult
<1>4. CASE UpdateServiceInstance(d)
  BY <1>4 DEF UpdateServiceInstance
<1>5. CASE DeployOnPrimary(d)
  BY <1>5 DEF DeployOnPrimary
<1>6. CASE \E h \in Host : DeployApp(d, h)
  BY <1>6 DEF DeployApp
<1>7. CASE \E h \in Host : StoreDeploymentInstall(d, h)
  BY <1>7 DEF StoreDeploymentInstall
<1>8. CASE PrimaryDeployed(d)
  BY <1>8 DEF PrimaryDeployed
<1>9. CASE RunConfigureScript(d)
  BY <1>9 DEF RunConfigureScript
<1>10. CASE Configured(d)
  BY <1>10 DEF Configured
<1>11. CASE OthersDeployed(d)
  BY <1>11 DEF OthersDeployed
<1>12. CASE HttpGatewayUpdate(d)
  BY <1>12 DEF HttpGatewayUpdate
<1>13. CASE WaitForGateways(d)
  BY <1>13 DEF WaitForGateways
<1>14. CASE UpdateGatewayRoute(d)
  BY <1>14 DEF UpdateGatewayRoute
<1>15. CASE CleanupOldDeployments(d)
  BY <1>15 DEF CleanupOldDeployments
<1>16. CASE CleanupWait(d)
  BY <1>16 DEF CleanupWait
<1>17. CASE StoreDeploymentInfo(d)
  BY <1>17 DEF StoreDeploymentInfo
<1>. QED
  BY <1>1, <1>2, <1>3, <1>4, <1>5, <1>6, <1>7, <1>8, <1>9, <1>10, <1>11,
     <1>12, <1>13, <1>14, <1>15, <1>16, <1>17 DEF DeployProcess

LEMMA FaultMoves ==
  ASSUME TypeOK, NEW d \in Deployment, Fault(d)
  PROVE  UNCHANGED <<state, env, removalVars, commitVars>> /\ Moves(d)
BY DEF Fault, ParticipantRaises, WorkerCrash, Moves, Go, Raise, Positions,
       Consuming

RowInv == ProcessOwnsRow /\ OneWorking /\ RemovalFollowsSuccess

LEMMA InitRowInv == Init => RowInv
<1> SUFFICES ASSUME Init PROVE RowInv
  OBVIOUS
<1>1. ProcessOwnsRow /\ OneWorking
  BY DEF Init, ProcessOwnsRow, OneWorking
<1>2. \A k \in Remover, d \in Deployment :
        unroute[<<k, d>>] = "none" /\ removal[<<k, d>>] = "none"
  BY DEF Init, Removal
<1>3. RemovalFollowsSuccess
  BY <1>2 DEF Init, RemovalFollowsSuccess
<1>. QED
  BY <1>1, <1>3 DEF RowInv

LEMMA MovesRowInv ==
  ASSUME TypeOK, RowInv, NEW d \in Deployment, Moves(d),
         UNCHANGED <<state, removalVars, commitVars>>
  PROVE  RowInv'
<1> USE DEF TypeOK, RowInv, Moves
<1>1. ProcessOwnsRow'
  BY DEF ProcessOwnsRow
<1>2. OneWorking'
  BY DEF OneWorking
<1>3. RemovalFollowsSuccess'
  BY DEF RemovalFollowsSuccess
<1>. QED
  BY <1>1, <1>2, <1>3

\* A row is inserted when none is working.
LEMMA InsertRowInv ==
  ASSUME TypeOK, RowInv, NEW d \in Deployment, Insertable(d),
         state' = [state EXCEPT ![d] = "working"], UNCHANGED pc
  PROVE  ProcessOwnsRow' /\ OneWorking'
<1>1. ProcessOwnsRow'
  BY DEF TypeOK, RowInv, ProcessOwnsRow, Insertable
<1>2. OneWorking'
  BY DEF TypeOK, OneWorking, Insertable
<1>. QED
  BY <1>1, <1>2

LEMMA RequestRowInv ==
  ASSUME TypeOK, RowInv, NEW d \in Deployment, Request(d)
  PROVE  RowInv'
<1>1. CASE Create(d)
  <2>1. RemovalFollowsSuccess'
    BY <1>1 DEF Create, Insertable, TypeOK, RowInv, RemovalFollowsSuccess
  <2>. QED
    BY <1>1, <2>1, InsertRowInv DEF Create, RowInv
<1>2. CASE Deploy(d)
  BY <1>2 DEF Deploy, CanDeploy, TypeOK, RowInv, ProcessOwnsRow, OneWorking,
     RemovalFollowsSuccess
<1>3. CASE Undeploy(d)
  <2>1. ProcessOwnsRow' /\ OneWorking'
    BY <1>3 DEF Undeploy, Deployed, TypeOK, RowInv, ProcessOwnsRow, OneWorking
  <2>2. \A k \in Remover, e \in Deployment : e # d =>
          /\ unroute'[<<k, e>>] = unroute[<<k, e>>]
          /\ removal'[<<k, e>>] = removal[<<k, e>>]
    BY <1>3 DEF Undeploy, TypeOK, Removal
  <2>3. RemovalFollowsSuccess'
    BY <1>3, <2>2 DEF Undeploy, Deployed, TypeOK, RowInv,
       RemovalFollowsSuccess
  <2>. QED
    BY <2>1, <2>3 DEF RowInv
<1>4. ASSUME NEW new \in Deployment, CommitStaging(d, new) PROVE RowInv'
  <2>1. RemovalFollowsSuccess'
    BY <1>4 DEF CommitStaging, Deployed, Insertable, TypeOK, RowInv,
       RemovalFollowsSuccess
  <2>. QED
    BY <1>4, <2>1, InsertRowInv DEF CommitStaging, RowInv
<1>. QED
  BY <1>1, <1>2, <1>3, <1>4 DEF Request

LEMMA RemovalRowInv ==
  ASSUME TypeOK, RowInv, NEW r \in Removal, RemovalProcess(r)
  PROVE  RowInv'
<1> USE DEF TypeOK, RowInv
<1>1. UNCHANGED <<state, pc, commitVars>>
  BY DEF RemovalProcess, RemoveRoutes, RemoveInstalls, PollJobs, PollTimeout
<1>2. ProcessOwnsRow' /\ OneWorking'
  BY <1>1 DEF ProcessOwnsRow, OneWorking
<1>3. \A q \in Removal :
        /\ unroute'[q] # "none" => unroute[q] # "none"
        /\ removal'[q] # "none" => removal[q] # "none"
  BY DEF RemovalProcess, RemoveRoutes, RemoveInstalls, PollJobs, PollTimeout
<1>4. RemovalFollowsSuccess'
  BY <1>1, <1>3 DEF RemovalFollowsSuccess, Removal
<1>. QED
  BY <1>2, <1>4

LEMMA CommitRowInv ==
  ASSUME TypeOK, RowInv, NEW d \in Deployment, CommitProcess(d)
  PROVE  RowInv'
<1> USE DEF TypeOK, RowInv, ProcessOwnsRow, OneWorking, RemovalFollowsSuccess
<1>1. CASE PackAndStoreCode(d)
  BY <1>1 DEF PackAndStoreCode
<1>2. CASE Packed(d)
  BY <1>2 DEF Packed, Removal, Remover
<1>3. CASE CallDeploy(d)
  BY <1>3 DEF CallDeploy, CanDeploy, Go
<1>4. CASE SetStateRemoved(d)
  BY <1>4 DEF SetStateRemoved
<1>. QED
  BY <1>1, <1>2, <1>3, <1>4 DEF CommitProcess

LEMMA InfoRowInv ==
  ASSUME TypeOK, RowInv, NEW d \in Deployment, StoreDeploymentInfo(d)
  PROVE  RowInv'
BY DEF TypeOK, RowInv, ProcessOwnsRow, OneWorking, RemovalFollowsSuccess,
       StoreDeploymentInfo, Go

LEMMA RowInvStep == TypeOK /\ RowInv /\ [Next]_vars => RowInv'
<1> SUFFICES ASSUME TypeOK, RowInv, [Next]_vars PROVE RowInv'
  OBVIOUS
<1>1. CASE UNCHANGED vars
  BY <1>1 DEF RowInv, ProcessOwnsRow, OneWorking, RemovalFollowsSuccess
<1>2. ASSUME NEW d \in Deployment, DeployProcess(d) PROVE RowInv'
  BY <1>2, DeployMoves, MovesRowInv, InfoRowInv
<1>3. ASSUME NEW d \in Deployment, Fault(d) PROVE RowInv'
  BY <1>3, FaultMoves, MovesRowInv
<1>4. ASSUME NEW j \in jobs, UndeployApp(j) PROVE RowInv'
  BY <1>4 DEF UndeployApp, RowInv, ProcessOwnsRow, OneWorking,
     RemovalFollowsSuccess
<1>. QED
  BY <1>1, <1>2, <1>3, <1>4, RequestRowInv, RemovalRowInv, CommitRowInv
  DEF Next

-----------------------------------------------------------------------------
(* The branches of the hosts, the rows, and the undeploy jobs. *)

StepInv == StepsFollowProcess /\ RowsFollowSteps /\ JobsFollowRows

LEMMA InitStepInv == Init => StepInv
BY DEF Init, StepInv, StepsFollowProcess, RowsFollowSteps, JobsFollowRows,
       Install, Selected, Complete

\* A step that leaves the agents, the rows, the jobs and the selection alone,
\* and at most creates a row or removes a success.
LEMMA QuietStepInv ==
  ASSUME TypeOK, RowInv, StepInv,
         UNCHANGED <<pc, hosts, primary, agentVars, installs, undeployVars>>,
         \A d \in Deployment :
           \/ state'[d] = state[d]
           \/ state[d] = "absent" /\ state'[d] = "working"
           \/ state[d] = "success" /\ state'[d] = "removed"
  PROVE  StepInv'
<1>1. StepsFollowProcess'
  BY DEF StepInv, StepsFollowProcess, RowInv, ProcessOwnsRow
<1>2. \A i \in Install : state[i[1]] = "absent" => step[i] = "none"
  BY DEF StepInv, StepsFollowProcess, RowInv, ProcessOwnsRow, Install, TypeOK
<1>3. RowsFollowSteps'
  BY <1>2 DEF StepInv, RowsFollowSteps, Install
<1>4. JobsFollowRows'
  BY DEF StepInv, JobsFollowRows, TypeOK, Job, Install
<1>. QED
  BY <1>1, <1>3, <1>4 DEF StepInv

LEMMA RequestStepInv ==
  ASSUME TypeOK, RowInv, StepInv, NEW d \in Deployment, Request(d)
  PROVE  StepInv'
<1>1. CASE Create(d)
  BY <1>1, QuietStepInv DEF Create, Insertable, TypeOK
<1>2. CASE Deploy(d)
  <2>1. StepsFollowProcess'
    BY <1>2 DEF Deploy, CanDeploy, StepInv, StepsFollowProcess, TypeOK,
       Selected, Complete
  <2>2. RowsFollowSteps' /\ JobsFollowRows'
    BY <1>2 DEF Deploy, StepInv, RowsFollowSteps, JobsFollowRows
  <2>. QED
    BY <2>1, <2>2 DEF StepInv
<1>3. CASE Undeploy(d)
  BY <1>3, QuietStepInv DEF Undeploy, Deployed, TypeOK
<1>4. ASSUME NEW new \in Deployment, CommitStaging(d, new) PROVE StepInv'
  BY <1>4, QuietStepInv DEF CommitStaging, Insertable, TypeOK
<1>. QED
  BY <1>1, <1>2, <1>3, <1>4 DEF Request

LEMMA CommitStepInv ==
  ASSUME TypeOK, RowInv, StepInv, NEW d \in Deployment, CommitProcess(d)
  PROVE  StepInv'
<1>1. CASE PackAndStoreCode(d)
  BY <1>1, QuietStepInv DEF PackAndStoreCode
<1>2. CASE Packed(d)
  BY <1>2, QuietStepInv DEF Packed
<1>3. CASE CallDeploy(d)
  <2>1. StepsFollowProcess'
    BY <1>3 DEF CallDeploy, CanDeploy, Go, StepInv, StepsFollowProcess,
       TypeOK, Selected, Complete
  <2>2. RowsFollowSteps' /\ JobsFollowRows'
    BY <1>3 DEF CallDeploy, StepInv, RowsFollowSteps, JobsFollowRows
  <2>. QED
    BY <2>1, <2>2 DEF StepInv
<1>4. CASE SetStateRemoved(d)
  <2>1. state[d] \in {"success", "removed"}
    BY <1>4 DEF SetStateRemoved, RowInv, RemovalFollowsSuccess
  <2>. QED
    BY <1>4, <2>1, QuietStepInv DEF SetStateRemoved, TypeOK
<1>. QED
  BY <1>1, <1>2, <1>3, <1>4 DEF CommitProcess

LEMMA RemovalStepInv ==
  ASSUME TypeOK, RowInv, StepInv, NEW r \in Removal, RemovalProcess(r)
  PROVE  StepInv'
<1>1. CASE RemoveRoutes(r)
  BY <1>1, QuietStepInv DEF RemoveRoutes
<1>2. CASE RemoveInstalls(r)
  <2>1. StepsFollowProcess' /\ RowsFollowSteps'
    BY <1>2 DEF RemoveInstalls, StepInv, StepsFollowProcess, RowsFollowSteps
  <2>2. state[r[2]] \in {"success", "removed"}
    BY <1>2 DEF RemoveInstalls, RowInv, RemovalFollowsSuccess, Removal
  <2>3. \A j \in jobs' \ jobs : j.install \in installs /\ j.install[1] = r[2]
    BY <1>2 DEF RemoveInstalls, JobsFor
  <2>4. JobsFollowRows'
    BY <1>2, <2>2, <2>3
    DEF RemoveInstalls, StepInv, JobsFollowRows, RowsFollowSteps, TypeOK
  <2>. QED
    BY <2>1, <2>4 DEF StepInv
<1>3. CASE PollJobs(r)
  <2>1. StepsFollowProcess' /\ JobsFollowRows'
    BY <1>3 DEF PollJobs, StepInv, StepsFollowProcess, JobsFollowRows
  <2>2. \A i \in installs \ installs' :
          \E j \in jobs : j \in undeployed /\ j.install = i
    BY <1>3 DEF PollJobs, RowsOf, RemovalJobs
  <2>3. installs' \subseteq installs
    BY <1>3 DEF PollJobs
  <2>4. \A i \in installs \ installs' :
          i \notin running /\ state[i[1]] # "working"
    BY <2>2 DEF StepInv, JobsFollowRows
  <2>5. RowsFollowSteps'
    BY <1>3, <2>3, <2>4 DEF PollJobs, StepInv, RowsFollowSteps
  <2>. QED
    BY <2>1, <2>5 DEF StepInv
<1>4. CASE PollTimeout(r)
  BY <1>4, QuietStepInv DEF PollTimeout
<1>. QED
  BY <1>1, <1>2, <1>3, <1>4 DEF RemovalProcess

LEMMA UndeployAppStepInv ==
  ASSUME TypeOK, RowInv, StepInv, NEW j \in jobs, UndeployApp(j)
  PROVE  StepInv'
<1>1. StepsFollowProcess'
  BY DEF UndeployApp, StepInv, StepsFollowProcess
<1>2. RowsFollowSteps'
  BY DEF UndeployApp, StepInv, RowsFollowSteps, JobsFollowRows
<1>3. JobsFollowRows'
  BY DEF UndeployApp, StepInv, JobsFollowRows
<1>. QED
  BY <1>1, <1>2, <1>3 DEF StepInv

\* A process that only moves keeps rows and jobs as they are.
LEMMA MovesRowsJobs ==
  ASSUME StepInv, UNCHANGED <<state, agentVars, installs, undeployVars>>
  PROVE  RowsFollowSteps' /\ JobsFollowRows'
BY DEF StepInv, RowsFollowSteps, JobsFollowRows

\* Errors and lost workitems: nothing is claimed of the steps there.
LEMMA FaultStepInv ==
  ASSUME TypeOK, RowInv, StepInv, NEW d \in Deployment, Fault(d)
  PROVE  StepInv'
<1>1. StepsFollowProcess'
  BY DEF Fault, ParticipantRaises, WorkerCrash, Raise, Go, StepInv,
     StepsFollowProcess, TypeOK, Selected, Complete
<1>2. RowsFollowSteps' /\ JobsFollowRows'
  BY MovesRowsJobs DEF Fault, ParticipantRaises, WorkerCrash
<1>. QED
  BY <1>1, <1>2 DEF StepInv

\* The participants that only pass the workitem on.
LEMMA MoveStepInv ==
  ASSUME TypeOK, RowInv, StepInv, NEW d \in Deployment,
         \/ SelectAppHosts(d) \/ BuildEnvroot(d)
         \/ StoreEnvrootBuilderResult(d) \/ UpdateServiceInstance(d)
         \/ PrimaryDeployed(d) \/ RunConfigureScript(d) \/ OthersDeployed(d)
         \/ HttpGatewayUpdate(d) \/ WaitForGateways(d) \/ UpdateGatewayRoute(d)
  PROVE  StepInv'
<1> USE DEF StepInv, TypeOK, Go, Raise, Selected, Complete
<1>1. RowsFollowSteps' /\ JobsFollowRows'
  BY MovesRowsJobs
  DEF SelectAppHosts, BuildEnvroot, StoreEnvrootBuilderResult,
      UpdateServiceInstance, PrimaryDeployed, RunConfigureScript,
      OthersDeployed, HttpGatewayUpdate, WaitForGateways, UpdateGatewayRoute
<1>2. StepsFollowProcess'
  <2> USE DEF StepsFollowProcess
  <2>1. CASE SelectAppHosts(d)
    BY <2>1 DEF SelectAppHosts, RowInv, ProcessOwnsRow
  <2>2. CASE BuildEnvroot(d)
    BY <2>2 DEF BuildEnvroot
  <2>3. CASE StoreEnvrootBuilderResult(d)
    BY <2>3 DEF StoreEnvrootBuilderResult
  <2>4. CASE UpdateServiceInstance(d)
    BY <2>4 DEF UpdateServiceInstance
  <2>5. CASE PrimaryDeployed(d)
    BY <2>5 DEF PrimaryDeployed
  <2>6. CASE RunConfigureScript(d)
    BY <2>6 DEF RunConfigureScript
  <2>7. CASE OthersDeployed(d)
    BY <2>7 DEF OthersDeployed
  <2>8. CASE HttpGatewayUpdate(d)
    BY <2>8 DEF HttpGatewayUpdate
  <2>9. CASE WaitForGateways(d)
    BY <2>9 DEF WaitForGateways
  <2>10. CASE UpdateGatewayRoute(d)
    BY <2>10 DEF UpdateGatewayRoute
  <2>. QED
    BY <2>1, <2>2, <2>3, <2>4, <2>5, <2>6, <2>7, <2>8, <2>9, <2>10
<1>. QED
  BY <1>1, <1>2

\* The branch of one host goes on, without any other row or job changing.
LEMMA BranchStepInv ==
  ASSUME TypeOK, RowInv, StepInv, NEW x \in Install,
         step[x] \in {"none", "queued", "store"},
         step'[x] \notin {"none", "stored"} \/ x \in running' \intersect installs',
         step'[x] = "store" => x \in running',
         x \in installs' => step'[x] = "stored",
         x \in running' \ installs' =>
           step'[x] \in {"store", "dropped", "lost"},
         \A i \in Install : i # x =>
           /\ step'[i] = step[i]
           /\ i \in running' <=> i \in running
           /\ i \in installs' <=> i \in installs,
         UNCHANGED <<state, undeployVars>>
  PROVE  RowsFollowSteps' /\ JobsFollowRows'
<1>1. RowsFollowSteps'
  BY DEF StepInv, RowsFollowSteps
<1>2. \A j \in jobs : j.install \in Install /\ j.install # x
  BY DEF StepInv, JobsFollowRows, TypeOK, Job
<1>3. JobsFollowRows'
  BY <1>2 DEF StepInv, JobsFollowRows
<1>. QED
  BY <1>1, <1>3

LEMMA DeployOnPrimaryStepInv ==
  ASSUME TypeOK, RowInv, StepInv, NEW d \in Deployment, DeployOnPrimary(d)
  PROVE  StepInv'
<1> DEFINE x == <<d, primary[d]>>
<1>1. x \in Install /\ step[x] = "none"
  BY DEF DeployOnPrimary, StepInv, StepsFollowProcess, Selected, TypeOK,
     Install
<1>2. step'[x] = "queued" /\ \A i \in Install : i # x => step'[i] = step[i]
  BY <1>1 DEF DeployOnPrimary, TypeOK
<1>3. x \notin running \union installs
  BY <1>1 DEF StepInv, RowsFollowSteps
<1>4. UNCHANGED <<state, hosts, primary, running, installs, undeployVars>>
  BY DEF DeployOnPrimary
<1>5. StepsFollowProcess'
  BY <1>1, <1>2, <1>4 DEF DeployOnPrimary, Go, StepInv, StepsFollowProcess,
     RowInv, ProcessOwnsRow, TypeOK, Install, Selected, Complete
<1>6. RowsFollowSteps' /\ JobsFollowRows'
  BY <1>1, <1>2, <1>3, <1>4, BranchStepInv
<1>. QED
  BY <1>5, <1>6 DEF StepInv

LEMMA DeployAppStepInv ==
  ASSUME TypeOK, RowInv, StepInv, NEW d \in Deployment, NEW h \in Host,
         DeployApp(d, h)
  PROVE  StepInv'
<1> DEFINE x == <<d, h>>
<1>1. x \in Install /\ step[x] = "queued"
  BY DEF DeployApp, Install
<1>2. x \notin running \union installs
  BY <1>1 DEF StepInv, RowsFollowSteps
<1>3. \A i \in Install : i # x => step'[i] = step[i]
  BY <1>1 DEF DeployApp, TypeOK
<1>4. \/ step'[x] \in {"store", "dropped"} /\ running' = running \union {x}
      \/ step'[x] = "failed" /\ running' = running
  BY <1>1 DEF DeployApp, TypeOK
<1>5. UNCHANGED <<state, hosts, primary, installs, undeployVars>>
  BY DEF DeployApp
<1>6. pc' = pc \/ pc' = [pc EXCEPT ![d] = "handler"]
  BY DEF DeployApp, Raise, Go
<1>7. StepsFollowProcess'
  BY <1>1, <1>3, <1>5, <1>6
  DEF StepInv, StepsFollowProcess, TypeOK, Install, Selected, Complete
<1>8. RowsFollowSteps' /\ JobsFollowRows'
  BY <1>1, <1>2, <1>3, <1>4, <1>5, BranchStepInv
<1>. QED
  BY <1>7, <1>8 DEF StepInv

LEMMA StoreInstallStepInv ==
  ASSUME TypeOK, RowInv, StepInv, NEW d \in Deployment, NEW h \in Host,
         StoreDeploymentInstall(d, h)
  PROVE  StepInv'
<1> DEFINE x == <<d, h>>
<1>1. x \in Install /\ step[x] = "store"
  BY DEF StoreDeploymentInstall, Install
<1>2. x \in running /\ x \notin installs
  BY <1>1 DEF StepInv, RowsFollowSteps
<1>3. \A i \in Install : i # x => step'[i] = step[i]
  BY <1>1 DEF StoreDeploymentInstall, TypeOK
<1>4. \/ step'[x] = "stored" /\ installs' = installs \union {x}
      \/ step'[x] = "lost" /\ installs' = installs
  BY <1>1 DEF StoreDeploymentInstall, TypeOK
<1>5. UNCHANGED <<state, hosts, primary, running, undeployVars>>
  BY DEF StoreDeploymentInstall
<1>6. pc' = pc \/ pc' = [pc EXCEPT ![d] = "handler"]
  BY DEF StoreDeploymentInstall, Raise, Go
<1>7. StepsFollowProcess'
  BY <1>1, <1>3, <1>5, <1>6
  DEF StepInv, StepsFollowProcess, TypeOK, Install, Selected, Complete
<1>8. RowsFollowSteps' /\ JobsFollowRows'
  BY <1>1, <1>2, <1>3, <1>4, <1>5, BranchStepInv
<1>. QED
  BY <1>7, <1>8 DEF StepInv

LEMMA ConfiguredStepInv ==
  ASSUME TypeOK, RowInv, StepInv, NEW d \in Deployment, Configured(d)
  PROVE  StepInv'
<1>1. CASE UNCHANGED step
  <2>1. StepsFollowProcess'
    BY <1>1 DEF Configured, Raise, Go, StepInv, StepsFollowProcess, TypeOK,
       Selected, Complete, RowInv, ProcessOwnsRow
  <2>2. RowsFollowSteps' /\ JobsFollowRows'
    BY <1>1, MovesRowsJobs DEF Configured
  <2>. QED
    BY <2>1, <2>2 DEF StepInv
<1>2. CASE step' # step
  <2> DEFINE queued == {i \in Install : i[1] = d /\ i[2] \in hosts[d] \ {primary[d]}}
  <2>1. /\ pc[d] = "configuring" /\ pc' = [pc EXCEPT ![d] = "others"]
        /\ \A i \in Install :
             step'[i] = IF i \in queued THEN "queued" ELSE step[i]
        /\ UNCHANGED <<state, hosts, primary, running, installs, undeployVars>>
    BY <1>2 DEF Configured, Go
  <2>2. \A i \in queued : step[i] = "none"
    BY <2>1 DEF StepInv, StepsFollowProcess, Install
  <2>3. \A i \in queued : i \notin running \union installs
    BY <2>2 DEF StepInv, RowsFollowSteps
  <2>4. StepsFollowProcess'
    BY <2>1 DEF StepInv, StepsFollowProcess, TypeOK, Install, Selected,
       Complete, RowInv, ProcessOwnsRow
  <2>5. RowsFollowSteps'
    BY <2>1, <2>2, <2>3 DEF StepInv, RowsFollowSteps
  <2>6. JobsFollowRows'
    BY <2>1, <2>2 DEF StepInv, JobsFollowRows, TypeOK, Job
  <2>. QED
    BY <2>4, <2>5, <2>6 DEF StepInv
<1>. QED
  BY <1>1, <1>2

LEMMA CleanupStepInv ==
  ASSUME TypeOK, RowInv, StepInv, NEW d \in Deployment,
         CleanupOldDeployments(d)
  PROVE  StepInv'
<1>1. StepsFollowProcess'
  BY DEF CleanupOldDeployments, Raise, Go, StepInv, StepsFollowProcess,
     TypeOK, Selected, Complete
<1>2. RowsFollowSteps'
  BY DEF CleanupOldDeployments, StepInv, RowsFollowSteps
<1>3. \A i \in OldInstalls(d) :
        step[i] = "stored" /\ state[i[1]] \notin {"absent", "working"}
  <2> SUFFICES ASSUME NEW i \in OldInstalls(d)
               PROVE  step[i] = "stored" /\ state[i[1]] \notin {"absent", "working"}
    OBVIOUS
  <2>1. i \in Install /\ i[1] \in Deployment /\ i[2] \in Host
        /\ i = <<i[1], i[2]>> /\ i[1] # d /\ step[i] = "stored"
    BY DEF OldInstalls, StepInv, RowsFollowSteps, TypeOK, Install
  <2>2. state[i[1]] # "working"
    BY <2>1 DEF CleanupOldDeployments, RowInv, ProcessOwnsRow, OneWorking
  <2>3. pc[i[1]] # "none"
    BY <2>1 DEF StepInv, StepsFollowProcess
  <2>. QED
    BY <2>1, <2>2, <2>3 DEF RowInv, ProcessOwnsRow
<1>4. \A j \in jobs' \ jobs : j.install \in OldInstalls(d)
  BY DEF CleanupOldDeployments, JobsFor
<1>5. JobsFollowRows'
  BY <1>3, <1>4 DEF CleanupOldDeployments, StepInv, JobsFollowRows, TypeOK
<1>. QED
  BY <1>1, <1>2, <1>5 DEF StepInv

LEMMA CleanupWaitStepInv ==
  ASSUME TypeOK, RowInv, StepInv, NEW d \in Deployment, CleanupWait(d)
  PROVE  StepInv'
<1>1. StepsFollowProcess'
  BY DEF CleanupWait, Go, StepInv, StepsFollowProcess, TypeOK, Selected,
     Complete
<1>2. JobsFollowRows'
  BY DEF CleanupWait, StepInv, JobsFollowRows
<1>3. /\ installs' \subseteq installs
      /\ \A i \in installs \ installs' :
           i \notin running /\ state[i[1]] # "working"
  BY DEF CleanupWait, CleanupJobs, StepInv, JobsFollowRows
<1>4. RowsFollowSteps'
  BY <1>3 DEF CleanupWait, StepInv, RowsFollowSteps
<1>. QED
  BY <1>1, <1>2, <1>4 DEF StepInv

LEMMA InfoStepInv ==
  ASSUME TypeOK, RowInv, StepInv, NEW d \in Deployment, StoreDeploymentInfo(d)
  PROVE  StepInv'
<1>1. StepsFollowProcess'
  BY DEF StoreDeploymentInfo, Go, StepInv, StepsFollowProcess, TypeOK,
     Selected, Complete
<1>2. RowsFollowSteps'
  BY DEF StoreDeploymentInfo, StepInv, RowsFollowSteps, TypeOK, Install
<1>3. JobsFollowRows'
  BY DEF StoreDeploymentInfo, StepInv, JobsFollowRows, TypeOK, Job, Install
<1>. QED
  BY <1>1, <1>2, <1>3 DEF StepInv

LEMMA StepInvStep == TypeOK /\ RowInv /\ StepInv /\ [Next]_vars => StepInv'
<1> SUFFICES ASSUME TypeOK, RowInv, StepInv, [Next]_vars PROVE StepInv'
  OBVIOUS
<1>1. CASE UNCHANGED vars
  BY <1>1, QuietStepInv
<1>2. ASSUME NEW d \in Deployment, DeployProcess(d) PROVE StepInv'
  BY <1>2, MoveStepInv, DeployOnPrimaryStepInv, DeployAppStepInv,
     StoreInstallStepInv, ConfiguredStepInv, CleanupStepInv,
     CleanupWaitStepInv, InfoStepInv DEF DeployProcess
<1>. QED
  BY <1>1, <1>2, RequestStepInv, CommitStepInv, RemovalStepInv,
     UndeployAppStepInv, FaultStepInv DEF Next

-----------------------------------------------------------------------------
(* What the gateways are sent. *)

LEMMA InitSent == Init => SentFollowsProcess
BY DEF Init, SentFollowsProcess, Complete

LEMMA SentStep ==
  ASSUME TypeOK, RowInv, StepInv, SentFollowsProcess, [Next]_vars
  PROVE  SentFollowsProcess'
<1> USE DEF SentFollowsProcess, Complete, TypeOK
<1>1. CASE UNCHANGED vars
  BY <1>1
<1>2. ASSUME NEW d \in Deployment, Request(d) PROVE SentFollowsProcess'
  BY <1>2 DEF Request, Create, Deploy, Undeploy, CommitStaging
<1>3. ASSUME NEW d \in Deployment, DeployProcess(d) PROVE SentFollowsProcess'
  <2>1. CASE HttpGatewayUpdate(d)
    <3>1. HostsOf(d) = hosts[d]
      <4>1. state[d] = "working"
        BY <2>1 DEF HttpGatewayUpdate, RowInv, ProcessOwnsRow
      <4>2. \A h \in Host : <<d, h>> \in Install
        BY DEF Install
      <4>3. \A h \in Host : h \in hosts[d] <=> <<d, h>> \in installs
        BY <2>1, <4>1, <4>2
        DEF HttpGatewayUpdate, StepInv, StepsFollowProcess, RowsFollowSteps
      <4>. QED
        BY <4>3 DEF HostsOf
    <3>. QED
      BY <2>1, <3>1 DEF HttpGatewayUpdate, Go
  <2>2. CASE SelectAppHosts(d)
    BY <2>2 DEF SelectAppHosts, Go, Raise
  <2>3. CASE BuildEnvroot(d) \/ StoreEnvrootBuilderResult(d)
             \/ UpdateServiceInstance(d) \/ DeployOnPrimary(d)
    BY <2>3 DEF BuildEnvroot, StoreEnvrootBuilderResult,
       UpdateServiceInstance, DeployOnPrimary, Go, Raise
  <2>4. ASSUME NEW h \in Host, DeployApp(d, h) \/ StoreDeploymentInstall(d, h)
        PROVE  SentFollowsProcess'
    BY <2>4 DEF DeployApp, StoreDeploymentInstall, Go, Raise
  <2>5. CASE PrimaryDeployed(d) \/ RunConfigureScript(d) \/ Configured(d)
             \/ OthersDeployed(d)
    BY <2>5 DEF PrimaryDeployed, RunConfigureScript, Configured,
       OthersDeployed, Go, Raise
  <2>6. CASE WaitForGateways(d) \/ UpdateGatewayRoute(d) \/ CleanupWait(d)
             \/ CleanupOldDeployments(d) \/ StoreDeploymentInfo(d)
    BY <2>6 DEF WaitForGateways, UpdateGatewayRoute, CleanupWait,
       CleanupOldDeployments, StoreDeploymentInfo, Go, Raise
  <2>. QED
    BY <1>3, <2>1, <2>2, <2>3, <2>4, <2>5, <2>6 DEF DeployProcess
<1>4. ASSUME NEW d \in Deployment, CommitProcess(d) PROVE SentFollowsProcess'
  BY <1>4 DEF CommitProcess, PackAndStoreCode, Packed, CallDeploy,
     SetStateRemoved, Go
<1>5. ASSUME NEW d \in Deployment, Fault(d) PROVE SentFollowsProcess'
  BY <1>5 DEF Fault, ParticipantRaises, WorkerCrash, Go, Raise
<1>6. ASSUME NEW r \in Removal, RemovalProcess(r) PROVE SentFollowsProcess'
  <2>1. CASE RemoveRoutes(r)
    <3>1. r[2] \in Deployment /\ state[r[2]] \in {"success", "removed"}
      <4>1. r[1] \in Remover /\ r[2] \in Deployment /\ r = <<r[1], r[2]>>
        BY DEF Removal
      <4>. QED
        BY <2>1, <4>1 DEF RemoveRoutes, RowInv, RemovalFollowsSuccess
    <3>2. pc[r[2]] \in {"none", "ended"}
      BY <3>1 DEF RowInv, ProcessOwnsRow
    <3>. QED
      BY <2>1, <3>1, <3>2 DEF RemoveRoutes
  <2>2. CASE RemoveInstalls(r) \/ PollJobs(r) \/ PollTimeout(r)
    BY <2>2 DEF RemoveInstalls, PollJobs, PollTimeout
  <2>. QED
    BY <1>6, <2>1, <2>2 DEF RemovalProcess
<1>7. ASSUME NEW j \in jobs, UndeployApp(j) PROVE SentFollowsProcess'
  BY <1>7 DEF UndeployApp
<1>. QED
  BY <1>1, <1>2, <1>3, <1>4, <1>5, <1>6, <1>7 DEF Next

-----------------------------------------------------------------------------
(* The inductive invariant and what follows from it. *)

THEOREM Inductive == Spec => []IInv
<1>1. Init => IInv
  BY InitTypeOK, InitRowInv, InitStepInv, InitSent DEF IInv, RowInv, StepInv
<1>2. IInv /\ [Next]_vars => IInv'
  BY TypeStep, RowInvStep, StepInvStep, SentStep DEF IInv, RowInv, StepInv
<1>. QED
  BY <1>1, <1>2, PTL DEF Spec

\* Every host that runs a deployment which ended well or was removed has its
\* row: nothing the workflow finishes is forgotten on an agent.
THEOREM Accounted == Spec => []HostsAccounted
<1>1. IInv => HostsAccounted
  <2> SUFFICES ASSUME IInv, NEW i \in running,
                      state[i[1]] \in {"success", "removed"}
               PROVE  i \in installs
    BY DEF HostsAccounted
  <2>1. i \in Install /\ i = <<i[1], i[2]>>
        /\ i[1] \in Deployment /\ i[2] \in Host
    BY DEF IInv, TypeOK, Install
  <2>2. step[i] \in {"none", "stored"}
    BY <2>1 DEF IInv, StepsFollowProcess
  <2>. QED
    BY <2>1, <2>2 DEF IInv, RowsFollowSteps
<1>. QED
  BY <1>1, Inductive, PTL

-----------------------------------------------------------------------------
(* What a step does to the states of the rows. *)

\* The four ways a step may change the state of rows.
LEMMA StateStep ==
  ASSUME TypeOK, RowInv, [Next]_vars
  PROVE  \/ UNCHANGED state
         \/ \E d \in Deployment :
              \/ /\ Insertable(d)
                 /\ state' = [state EXCEPT ![d] = "working"]
              \/ StoreDeploymentInfo(d)
              \/ /\ state[d] \in {"success", "removed"}
                 /\ state' = [state EXCEPT ![d] = "removed"]
<1>1. CASE UNCHANGED vars
  BY <1>1
<1>2. ASSUME NEW d \in Deployment, Request(d)
      PROVE  \/ UNCHANGED state
             \/ \E e \in Deployment :
                  /\ Insertable(e)
                  /\ state' = [state EXCEPT ![e] = "working"]
             \/ /\ state[d] \in {"success", "removed"}
                /\ state' = [state EXCEPT ![d] = "removed"]
  BY <1>2 DEF Request, Create, Deploy, Undeploy, CommitStaging, Deployed
<1>3. ASSUME NEW d \in Deployment, DeployProcess(d)
      PROVE  StoreDeploymentInfo(d) \/ UNCHANGED state
  BY <1>3, DeployMoves
<1>4. ASSUME NEW d \in Deployment, CommitProcess(d)
      PROVE  \/ UNCHANGED state
             \/ /\ state[d] \in {"success", "removed"}
                /\ state' = [state EXCEPT ![d] = "removed"]
  BY <1>4 DEF CommitProcess, PackAndStoreCode, Packed, CallDeploy,
     SetStateRemoved, RowInv, RemovalFollowsSuccess
<1>5. ASSUME NEW d \in Deployment, Fault(d) PROVE UNCHANGED state
  BY <1>5, FaultMoves
<1>6. ASSUME NEW r \in Removal, RemovalProcess(r) PROVE UNCHANGED state
  BY <1>6 DEF RemovalProcess, RemoveRoutes, RemoveInstalls, PollJobs,
     PollTimeout
<1>7. ASSUME NEW j \in jobs, UndeployApp(j) PROVE UNCHANGED state
  BY <1>7 DEF UndeployApp
<1>. QED
  BY <1>1, <1>2, <1>3, <1>4, <1>5, <1>6, <1>7 DEF Next

\* A deployment succeeds only when all its hosts run it, have their rows and
\* are what the gateways were sent.
THEOREM SuccessServed == Spec => SuccessServes
<1> DEFINE Succeeds(d) == state[d] = "working" /\ state'[d] = "success"
           Served(d) == /\ hosts[d] # {} /\ sent[d] = hosts[d]
                        /\ {d} \X hosts[d] \subseteq running \intersect installs
<1>1. IInv /\ [Next]_vars => [\A d \in Deployment : Succeeds(d) => Served(d)]_vars
  <2> SUFFICES ASSUME IInv, [Next]_vars, NEW d \in Deployment, Succeeds(d)
               PROVE  Served(d)
    OBVIOUS
  <2>1. pc[d] = "info"
    BY StateStep DEF IInv, RowInv, StoreDeploymentInfo, TypeOK
  <2>2. hosts[d] # {} /\ sent[d] = hosts[d]
    BY <2>1 DEF IInv, StepsFollowProcess, SentFollowsProcess, Complete
  <2>3. \A h \in hosts[d] : <<d, h>> \in running \intersect installs
    <3>1. \A h \in hosts[d] : <<d, h>> \in Install /\ step[<<d, h>>] = "stored"
      BY <2>1 DEF IInv, StepsFollowProcess, Complete, TypeOK, Install
    <3>. QED
      BY <3>1 DEF IInv, RowsFollowSteps
  <2>. QED
    BY <2>2, <2>3
<1>. QED
  BY <1>1, Inductive, PTL DEF Spec, SuccessServes

\* The workflow implements the life cycle of deployments.
THEOREM LifecycleImplemented == Spec => LifecycleSpec
<1>1. Init => Lifecycle!Init
  BY DEF Init, Lifecycle!Init
<1>2. IInv /\ [Next]_vars => [Lifecycle!Next]_state
  <2> SUFFICES ASSUME IInv, [Next]_vars, state' # state
               PROVE  Lifecycle!Next
    OBVIOUS
  <2> USE DEF IInv, TypeOK, Lifecycle!Next
  <2>1. ASSUME NEW d \in Deployment, Insertable(d),
               state' = [state EXCEPT ![d] = "working"]
        PROVE  Lifecycle!Next
    BY <2>1 DEF Insertable, Lifecycle!Create
  <2>2. ASSUME NEW d \in Deployment, StoreDeploymentInfo(d)
        PROVE  Lifecycle!Next
    BY <2>2 DEF StoreDeploymentInfo, ProcessOwnsRow, Lifecycle!Finish
  <2>3. ASSUME NEW d \in Deployment, state[d] \in {"success", "removed"},
               state' = [state EXCEPT ![d] = "removed"]
        PROVE  Lifecycle!Next
    BY <2>3 DEF Lifecycle!Remove
  <2>. QED
    BY <2>1, <2>2, <2>3, StateStep DEF RowInv
<1>. QED
  BY <1>1, <1>2, Inductive, PTL DEF Spec, LifecycleSpec, Lifecycle!Spec

-----------------------------------------------------------------------------
(* An environment keeps being served.  From here on every gateway answers   *)
(* within the five seconds of wait_for_jobs.                                *)

\* Nothing revives a deployment whose end was asked for, and the environment
\* of a row is the one it was created with.
LEMMA RowsLast ==
  ASSUME IInv, [Next]_vars, NEW d \in Deployment
  PROVE  /\ Gone(d) => Gone(d)' /\ state[d] # "absent"
         /\ state[d] # "absent" => state'[d] # "absent" /\ env'[d] = env[d]
<1> USE DEF IInv, TypeOK
<1>1. /\ state[d] = "removed" => state'[d] = "removed"
      /\ state[d] # "absent" => state'[d] # "absent"
  BY StateStep DEF RowInv, Insertable, StoreDeploymentInfo, ProcessOwnsRow
<1> DEFINE Kept == /\ commit[d] = "forked" => commit'[d] = "forked"
                   /\ state[d] # "absent" => env'[d] = env[d]
<1>2. Kept
  <2>1. CASE UNCHANGED vars
    BY <2>1
  <2>2. ASSUME NEW e \in Deployment, Request(e) PROVE Kept
    BY <2>2 DEF Request, Create, Deploy, Undeploy, CommitStaging, Insertable
  <2>3. ASSUME NEW e \in Deployment, DeployProcess(e) \/ Fault(e) PROVE Kept
    BY <2>3, DeployMoves, FaultMoves
  <2>4. ASSUME NEW e \in Deployment, CommitProcess(e) PROVE Kept
    BY <2>4 DEF CommitProcess, PackAndStoreCode, Packed, CallDeploy,
       SetStateRemoved
  <2>5. ASSUME NEW r \in Removal, RemovalProcess(r) PROVE Kept
    BY <2>5 DEF RemovalProcess, RemoveRoutes, RemoveInstalls, PollJobs,
       PollTimeout
  <2>6. ASSUME NEW j \in jobs, UndeployApp(j) PROVE Kept
    BY <2>6 DEF UndeployApp
  <2> QED
    BY <2>1, <2>2, <2>3, <2>4, <2>5, <2>6 DEF Next
<1>3. commit[d] = "forked" => state[d] # "absent"
  BY DEF RemovalFollowsSuccess
<1> QED
  BY <1>1, <1>2, <1>3 DEF Gone

\* Who stops a host, changes what the gateways serve, or creates jobs.
LEMMA WhoChanges ==
  ASSUME [Next]_vars
  PROVE  /\ running \subseteq running' \/ \E j \in jobs : UndeployApp(j)
         /\ routed' = routed \/ \E d \in Deployment : UpdateGatewayRoute(d)
         /\ \/ jobs' = jobs
            \/ \E d \in Deployment : CleanupOldDeployments(d)
            \/ \E r \in Removal : RemoveInstalls(r)
<1>1. CASE UNCHANGED vars
  BY <1>1
<1>2. ASSUME NEW d \in Deployment, Request(d)
      PROVE  running' = running /\ routed' = routed /\ jobs' = jobs
  BY <1>2 DEF Request, Create, Deploy, Undeploy, CommitStaging
<1>3. ASSUME NEW d \in Deployment, DeployProcess(d)
      PROVE  /\ running \subseteq running'
             /\ routed' = routed \/ UpdateGatewayRoute(d)
             /\ jobs' = jobs \/ CleanupOldDeployments(d)
  <2>1. CASE \E h \in Host : DeployApp(d, h) \/ StoreDeploymentInstall(d, h)
    BY <2>1 DEF DeployApp, StoreDeploymentInstall
  <2> QED
    BY <1>3, <2>1
    DEF DeployProcess, SelectAppHosts, BuildEnvroot,
        StoreEnvrootBuilderResult, UpdateServiceInstance, DeployOnPrimary,
        PrimaryDeployed, RunConfigureScript, Configured, OthersDeployed,
        HttpGatewayUpdate, WaitForGateways, UpdateGatewayRoute,
        CleanupOldDeployments, CleanupWait, StoreDeploymentInfo
<1>4. ASSUME NEW d \in Deployment, CommitProcess(d) \/ Fault(d)
      PROVE  running' = running /\ routed' = routed /\ jobs' = jobs
  BY <1>4 DEF CommitProcess, PackAndStoreCode, Packed, CallDeploy,
     SetStateRemoved, Fault, ParticipantRaises, WorkerCrash
<1>5. ASSUME NEW r \in Removal, RemovalProcess(r)
      PROVE  running' = running /\ routed' = routed
             /\ (jobs' = jobs \/ RemoveInstalls(r))
  BY <1>5 DEF RemovalProcess, RemoveRoutes, RemoveInstalls, PollJobs,
     PollTimeout
<1>6. ASSUME NEW j \in jobs, UndeployApp(j)
      PROVE  routed' = routed /\ jobs' = jobs
  BY <1>6 DEF UndeployApp
<1> QED
  BY <1>1, <1>2, <1>3, <1>4, <1>5, <1>6 DEF Next

\* A deployment serves on until its end is asked for or a cleanup stops it.
LEMMA ServesOn ==
  ASSUME IInv, ServeInv, [Next]_vars, NEW f \in Deployment, Serves(f),
         Spared(f), ~Gone(f)
  PROVE  Serves(f)' /\ env'[f] = env[f]
<1> USE DEF IInv, TypeOK
<1>1. state[f] # "absent" /\ pc[f] \notin Unpublished /\ routed[f] # {}
  BY DEF Serves, ServeInv, RoutedFollowsSent, Unpublished, ProcessOwnsRow
<1>2. routed'[f] = routed[f]
  BY <1>1, WhoChanges DEF UpdateGatewayRoute, ServeInv, RoutedFollowsSent
<1>3. \A h \in routed[f] : <<f, h>> \in running'
  <2>1. \A h \in routed[f] : <<f, h>> \in running
    BY DEF Serves
  <2>2. ASSUME NEW j \in jobs, UndeployApp(j)
        PROVE  \A h \in routed[f] : <<f, h>> \in running'
    <3>1. j.install[1] # f
      BY DEF ServeInv, JobsAreDue, Spared, Cleanups
    <3> QED
      BY <2>1, <2>2, <3>1 DEF UndeployApp
  <2> QED
    BY <2>1, <2>2, WhoChanges
<1> QED
  BY <1>1, <1>2, <1>3, RowsLast DEF Serves

LEMMA InitServeInv == Init => ServeInv
<1> SUFFICES ASSUME Init PROVE ServeInv
  OBVIOUS
<1>1. RoutedFollowsSent
  BY DEF Init, RoutedFollowsSent, Published
<1>2. RemovalsGone
  BY DEF Init, RemovalsGone
<1>3. JobsAreDue /\ Replaced
  BY DEF Init, JobsAreDue, Replaced, Cleanups
<1> QED
  BY <1>1, <1>2, <1>3 DEF ServeInv

\* What a step does to the process and the routes of a deployment.
LEMMA RouteStep ==
  ASSUME TypeOK, "gateway" \notin Faults, [Next]_vars, NEW d \in Deployment
  PROVE  \/ /\ UNCHANGED <<sent[d], routed[d]>>
            /\ pc'[d] \in Unpublished => pc[d] \in Unpublished
            /\ pc'[d] \in Published => \/ pc[d] \in Published
                                       \/ pc[d] = "publishing" /\ routed[d] = sent[d]
         \/ /\ pc[d] = "publish" /\ pc'[d] = "publishing"
            /\ routed'[d] = routed[d]
         \/ /\ sent[d] # routed[d] /\ routed'[d] = sent[d]
            /\ UNCHANGED <<pc[d], sent[d]>>
         \/ /\ \E r \in Removal : unroute[r] = "ready" /\ r[2] = d
            /\ sent'[d] = {} /\ UNCHANGED <<pc[d], routed[d]>>
<1> DEFINE Same == /\ UNCHANGED <<sent[d], routed[d]>>
                   /\ pc'[d] \in Unpublished => pc[d] \in Unpublished
                   /\ pc'[d] \in Published =>
                        \/ pc[d] \in Published
                        \/ pc[d] = "publishing" /\ routed[d] = sent[d]
           Publish == /\ pc[d] = "publish" /\ pc'[d] = "publishing"
                      /\ routed'[d] = routed[d]
           Follow == /\ sent[d] # routed[d] /\ routed'[d] = sent[d]
                     /\ UNCHANGED <<pc[d], sent[d]>>
           Unroute == /\ \E r \in Removal : unroute[r] = "ready" /\ r[2] = d
                      /\ sent'[d] = {} /\ UNCHANGED <<pc[d], routed[d]>>
<1> USE DEF TypeOK, Unpublished, Published, Selected, Go, Raise
<1>1. CASE UNCHANGED vars
  BY <1>1
<1>2. ASSUME NEW e \in Deployment, Request(e) PROVE Same
  BY <1>2 DEF Request, Create, Deploy, CanDeploy, Undeploy, CommitStaging
<1>3. ASSUME NEW e \in Deployment, DeployProcess(e)
      PROVE  Same \/ Publish \/ Follow
  <2>1. CASE HttpGatewayUpdate(e)
    BY <2>1 DEF HttpGatewayUpdate
  <2>2. CASE WaitForGateways(e)
    BY <2>2 DEF WaitForGateways
  <2>3. CASE UpdateGatewayRoute(e)
    BY <2>3 DEF UpdateGatewayRoute
  <2>4. CASE \/ SelectAppHosts(e) \/ BuildEnvroot(e)
             \/ StoreEnvrootBuilderResult(e) \/ UpdateServiceInstance(e)
             \/ DeployOnPrimary(e)
    BY <2>4 DEF SelectAppHosts, BuildEnvroot, StoreEnvrootBuilderResult,
       UpdateServiceInstance, DeployOnPrimary
  <2>5. ASSUME NEW h \in Host, DeployApp(e, h) \/ StoreDeploymentInstall(e, h)
        PROVE  Same
    BY <2>5 DEF DeployApp, StoreDeploymentInstall
  <2>6. CASE \/ PrimaryDeployed(e) \/ RunConfigureScript(e) \/ Configured(e)
             \/ OthersDeployed(e)
    BY <2>6 DEF PrimaryDeployed, RunConfigureScript, Configured,
       OthersDeployed
  <2>7. CASE \/ CleanupOldDeployments(e) \/ CleanupWait(e)
             \/ StoreDeploymentInfo(e)
    BY <2>7 DEF CleanupOldDeployments, CleanupWait, StoreDeploymentInfo
  <2> QED
    BY <1>3, <2>1, <2>2, <2>3, <2>4, <2>5, <2>6, <2>7 DEF DeployProcess
<1>4. ASSUME NEW e \in Deployment, CommitProcess(e) PROVE Same
  BY <1>4 DEF CommitProcess, PackAndStoreCode, Packed, CallDeploy, CanDeploy,
     SetStateRemoved
<1>5. ASSUME NEW e \in Deployment, Fault(e) PROVE Same
  BY <1>5 DEF Fault, ParticipantRaises, WorkerCrash
<1>6. ASSUME NEW r \in Removal, RemovalProcess(r) PROVE Same \/ Unroute
  <2>1. CASE RemoveRoutes(r)
    BY <2>1 DEF RemoveRoutes
  <2>2. CASE RemoveInstalls(r) \/ PollJobs(r) \/ PollTimeout(r)
    BY <2>2 DEF RemoveInstalls, PollJobs, PollTimeout
  <2> QED
    BY <1>6, <2>1, <2>2 DEF RemovalProcess
<1>7. ASSUME NEW j \in jobs, UndeployApp(j) PROVE Same
  BY <1>7 DEF UndeployApp
<1> QED
  BY <1>1, <1>2, <1>3, <1>4, <1>5, <1>6, <1>7 DEF Next

LEMMA RoutedStep ==
  ASSUME IInv, ServeInv, "gateway" \notin Faults, [Next]_vars
  PROVE  RoutedFollowsSent'
<1> SUFFICES ASSUME NEW d \in Deployment
             PROVE  /\ pc'[d] \in Unpublished => sent'[d] = {} /\ routed'[d] = {}
                    /\ pc'[d] \in Published => routed'[d] = sent'[d]
                    /\ routed'[d] # {} /\ sent'[d] # routed'[d] => Gone(d)'
  BY DEF RoutedFollowsSent
<1>1. TypeOK /\ (Gone(d) => Gone(d)')
  BY RowsLast DEF IInv
<1>2. /\ pc[d] \in Unpublished => sent[d] = {} /\ routed[d] = {}
      /\ pc[d] \in Published => routed[d] = sent[d]
      /\ routed[d] # {} /\ sent[d] # routed[d] => Gone(d)
  BY DEF ServeInv, RoutedFollowsSent
<1>3. ASSUME NEW r \in Removal, unroute[r] = "ready", r[2] = d
      PROVE  Gone(d) /\ pc[d] \notin Published
  <2>1. Gone(d)
    BY <1>3 DEF ServeInv, RemovalsGone
  <2>2. state[d] \in {"success", "removed"}
    BY <2>1 DEF IInv, Gone, RemovalFollowsSuccess
  <2> QED
    BY <2>1, <2>2 DEF IInv, ProcessOwnsRow, Published
<1>4. "publish" \in Unpublished /\ "publishing" \notin Unpublished \union Published
  BY DEF Unpublished, Published, Selected
<1> QED
  BY <1>1, <1>2, <1>3, <1>4, RouteStep

LEMMA RemovalsGoneStep ==
  ASSUME IInv, ServeInv, [Next]_vars
  PROVE  RemovalsGone'
<1> SUFFICES ASSUME NEW r \in Removal,
                    unroute'[r] # "none" \/ removal'[r] # "none"
             PROVE  Gone(r[2])'
  BY DEF RemovalsGone
<1>0. r[2] \in Deployment
  BY DEF Removal
<1>1. CASE unroute[r] # "none" \/ removal[r] # "none"
  BY <1>0, <1>1, RowsLast DEF ServeInv, RemovalsGone
<1>2. CASE ~(unroute[r] # "none" \/ removal[r] # "none")
  <2> USE DEF IInv, TypeOK
  <2>1. CASE UNCHANGED vars
    BY <1>2, <2>1
  <2>2. ASSUME NEW d \in Deployment, Request(d) PROVE Gone(r[2])'
    BY <1>0, <1>2, <2>2
    DEF Request, Create, Deploy, Undeploy, CommitStaging, Gone, Removal
  <2>3. ASSUME NEW d \in Deployment, DeployProcess(d) \/ Fault(d)
        PROVE  Gone(r[2])'
    BY <1>2, <2>3, DeployMoves, FaultMoves
  <2>4. ASSUME NEW d \in Deployment, CommitProcess(d) PROVE Gone(r[2])'
    BY <1>0, <1>2, <2>4
    DEF CommitProcess, PackAndStoreCode, Packed, CallDeploy, SetStateRemoved,
        Gone, Removal
  <2>5. ASSUME NEW q \in Removal, RemovalProcess(q) PROVE Gone(r[2])'
    BY <1>2, <2>5
    DEF RemovalProcess, RemoveRoutes, RemoveInstalls, PollJobs, PollTimeout
  <2>6. ASSUME NEW j \in jobs, UndeployApp(j) PROVE Gone(r[2])'
    BY <1>2, <2>6 DEF UndeployApp
  <2> QED
    BY <2>1, <2>2, <2>3, <2>4, <2>5, <2>6 DEF Next
<1> QED
  BY <1>1, <1>2

\* A cleanup job is for a host of another deployment of its environment, which
\* works; the jobs of a removal are for its own deployment.
LEMMA NewJobs ==
  ASSUME IInv, ServeInv, [Next]_vars, NEW j \in jobs', j \notin jobs
  PROVE  /\ j \in Job /\ j.install[1] \in Deployment
         /\ \/ /\ j.kind = "cleanup" /\ CleanupOldDeployments(j.by)
               /\ env[j.by] = env[j.install[1]] /\ j.install[1] # j.by
               /\ state[j.by] = "working" /\ state[j.install[1]] # "absent"
            \/ j.kind # "cleanup" /\ Gone(j.install[1])
<1>1. ASSUME NEW d \in Deployment, CleanupOldDeployments(d)
      PROVE  /\ j.kind = "cleanup" /\ j.by = d
             /\ j.install[1] # d /\ env[d] = env[j.install[1]]
             /\ state[d] = "working"
  BY <1>1 DEF CleanupOldDeployments, JobsFor, OldInstalls, IInv,
     ProcessOwnsRow
<1>2. ASSUME NEW r \in Removal, RemoveInstalls(r)
      PROVE  j.kind # "cleanup" /\ Gone(j.install[1])
  BY <1>2 DEF RemoveInstalls, JobsFor, ServeInv, RemovalsGone, Removal,
     Remover
<1>3. j \in Job /\ j.install[1] \in Deployment
  BY TypeStep DEF IInv, TypeOK, Job, Install
<1>4. state[j.install[1]] # "absent"
  <2>1. IInv'
    BY TypeStep, RowInvStep, StepInvStep, SentStep DEF IInv, RowInv, StepInv
  <2>2. ASSUME NEW d \in Deployment, CleanupOldDeployments(d)
        PROVE  state' = state
    BY <2>2 DEF CleanupOldDeployments
  <2>3. ASSUME NEW r \in Removal, RemoveInstalls(r)
        PROVE  state' = state
    BY <2>3 DEF RemoveInstalls
  <2> QED
    BY <2>1, <2>2, <2>3, WhoChanges DEF IInv, JobsFollowRows
<1> QED
  BY <1>1, <1>2, <1>3, <1>4, WhoChanges

LEMMA JobsAreDueStep ==
  ASSUME IInv, ServeInv, [Next]_vars
  PROVE  JobsAreDue'
<1> SUFFICES ASSUME NEW j \in jobs'
             PROVE  IF j.kind = "cleanup"
                    THEN state'[j.by] # "absent"
                         /\ env'[j.by] = env'[j.install[1]]
                    ELSE Gone(j.install[1])'
  BY DEF JobsAreDue
<1>1. j \in Job /\ j.by \in Deployment /\ j.install[1] \in Deployment
  BY TypeStep DEF IInv, TypeOK, Job, Install
<1>2. CASE j \in jobs
  <2>1. state[j.install[1]] # "absent"
    BY <1>2 DEF IInv, JobsFollowRows
  <2> QED
    BY <1>1, <1>2, <2>1, RowsLast DEF ServeInv, JobsAreDue
<1>3. CASE j \notin jobs
  BY <1>1, <1>3, NewJobs, RowsLast
<1> QED
  BY <1>2, <1>3

\* Who cleans an environment up serves it, and no cleanup stops it.
LEMMA CleanerServes ==
  ASSUME IInv, ServeInv, NEW d \in Deployment, CleanupOldDeployments(d)
  PROVE  Serves(d)' /\ Spared(d) /\ state[d] = "working"
<1>1. pc[d] = "cleanup" /\ state[d] = "working"
  BY DEF CleanupOldDeployments, IInv, ProcessOwnsRow
<1>2. routed[d] = hosts[d] /\ hosts[d] # {}
  BY <1>1 DEF ServeInv, RoutedFollowsSent, Published, IInv,
     SentFollowsProcess, StepsFollowProcess, Complete
<1>3. \A h \in hosts[d] : <<d, h>> \in running
  <2>1. \A h \in hosts[d] : <<d, h>> \in Install /\ step[<<d, h>>] = "stored"
    BY <1>1 DEF IInv, StepsFollowProcess, Complete, TypeOK, Install
  <2> QED
    BY <1>1, <2>1 DEF IInv, RowsFollowSteps
<1>4. Spared(d)
  BY <1>1 DEF Spared, Cleanups, IInv, JobsFollowRows
<1> QED
  BY <1>1, <1>2, <1>3, <1>4 DEF CleanupOldDeployments, Serves

LEMMA ReplacedStep ==
  ASSUME IInv, ServeInv, [Next]_vars
  PROVE  Replaced'
<1> SUFFICES ASSUME NEW e \in EnvType, NEW j \in Cleanups', env'[j.by] = e,
                    ~Withdrawn(e)'
             PROVE  \E f \in Deployment : env'[f] = e /\ Serves(f)' /\ Spared(f)'
  BY DEF Replaced
<1>1. j \in jobs' /\ j.kind = "cleanup" /\ j.by \in Deployment
  BY TypeStep DEF Cleanups, IInv, TypeOK, Job
<1>2. \A d \in Deployment : env'[d] = e => ~Gone(d)'
  BY DEF Withdrawn
<1>3. \A f \in Deployment : Gone(f) => env[f] # e
  BY <1>2, RowsLast
<1>4. CASE \E d \in Deployment : CleanupOldDeployments(d) /\ env[d] = e
  <2>1. PICK d \in Deployment : CleanupOldDeployments(d) /\ env[d] = e
    BY <1>4
  <2>2. Serves(d)' /\ Spared(d) /\ env'[d] = e
    BY <2>1, CleanerServes DEF CleanupOldDeployments
  <2>3. \A k \in Cleanups' : k \in Cleanups \/ k.install[1] # d
    BY <2>1, NewJobs DEF Cleanups, CleanupOldDeployments, JobsFor, OldInstalls
  <2> QED
    BY <2>2, <2>3 DEF Spared
<1>5. CASE ~ \E d \in Deployment : CleanupOldDeployments(d) /\ env[d] = e
  <2>1. \A k \in Cleanups' : k \in Cleanups \/ env[k.install[1]] # e
    BY <1>5, NewJobs, TypeStep DEF Cleanups, IInv, TypeOK, Job
  <2>2. j \in Cleanups /\ env[j.by] = e
    <3>1. CASE j \notin jobs
      <4>1. CleanupOldDeployments(j.by)
        BY <1>1, <3>1, NewJobs
      <4> QED
        BY <1>1, <1>5, <4>1 DEF CleanupOldDeployments
    <3>2. CASE j \in jobs
      BY <1>1, <3>2, RowsLast DEF ServeInv, JobsAreDue, Cleanups
    <3> QED
      BY <3>1, <3>2
  <2>3. PICK f \in Deployment : env[f] = e /\ Serves(f) /\ Spared(f)
    BY <1>3, <2>2 DEF ServeInv, Replaced, Withdrawn
  <2>4. Serves(f)' /\ env'[f] = e
    BY <1>3, <2>3, ServesOn
  <2>5. Spared(f)'
    BY <2>1, <2>3 DEF Spared
  <2> QED
    BY <2>4, <2>5
<1> QED
  BY <1>4, <1>5

\* An environment the gateways route to running hosts is served for ever,
\* unless a client asks for the end of one of its deployments: with gateways
\* that answer in time, a cleanup stops what a newer deployment has replaced.
THEOREM NoDowntimeOfItsOwn ==
  ASSUME "gateway" \notin Faults
  PROVE  Spec => NoDowntime
<1> DEFINE Kept(e) == Serving(e) /\ ~Serving(e)' => Withdrawn(e)
<1>1. Init => ServeInv
  BY InitServeInv
<1>2. IInv /\ ServeInv /\ [Next]_vars => ServeInv'
  BY RoutedStep, RemovalsGoneStep, JobsAreDueStep, ReplacedStep DEF ServeInv
<1>3. IInv /\ ServeInv /\ [Next]_vars => [\A e \in EnvType : Kept(e)]_vars
  <2> SUFFICES ASSUME IInv, ServeInv, [Next]_vars, NEW e \in EnvType,
                      Serving(e), ~Withdrawn(e)
               PROVE  Serving(e)'
    OBVIOUS
  <2>1. PICK d \in Deployment : env[d] = e /\ Serves(d)
    BY DEF Serving
  <2>2. \A f \in Deployment : env[f] = e => ~Gone(f)
    BY DEF Withdrawn
  <2>3. \E f \in Deployment : env[f] = e /\ Serves(f) /\ Spared(f)
    <3>1. CASE Spared(d)
      BY <2>1, <3>1
    <3>2. CASE ~Spared(d)
      <4>1. PICK j \in Cleanups : j.install[1] = d
        BY <3>2 DEF Spared
      <4>2. env[j.by] = e
        BY <2>1, <4>1 DEF Cleanups, ServeInv, JobsAreDue
      <4> QED
        BY <4>1, <4>2 DEF ServeInv, Replaced
    <3> QED
      BY <3>1, <3>2
  <2> QED
    BY <2>2, <2>3, ServesOn DEF Serving
<1>4. Spec => []ServeInv
  BY <1>1, <1>2, Inductive, PTL DEF Spec
<1> QED
  BY <1>3, <1>4, Inductive, PTL DEF Spec, NoDowntime
=============================================================================
