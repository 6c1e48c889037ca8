------------------------ MODULE DeploymentLifecycle ------------------------
(***************************************************************************)
(* What the table of deployments of one app promises to the users of the   *)
(* API, whatever runs underneath: a deployment is created in state         *)
(* working and only while no other one is working; it ends once, as a      *)
(* success or as a failure; a success may later be removed, and nothing    *)
(* leaves the states failure and removed.                                  *)
(***************************************************************************)
CONSTANT Deployment          \* the rows of the table, created or not yet

RowStates == {"absent", "working", "success", "failure", "removed"}

VARIABLE state               \* Deployment#state, "absent" before the row exists

TypeOK == state \in [Deployment -> RowStates]

Init == state = [d \in Deployment |-> "absent"]

Create(d) ==
  /\ state[d] = "absent"
  /\ \A e \in Deployment : state[e] # "working"
  /\ state' = [state EXCEPT ![d] = "working"]

Finish(d) ==
  /\ state[d] = "working"
  /\ \E s \in {"success", "failure"} : state' = [state EXCEPT ![d] = s]

Remove(d) ==
  /\ state[d] = "success"
  /\ state' = [state EXCEPT ![d] = "removed"]

Next == \E d \in Deployment : Create(d) \/ Finish(d) \/ Remove(d)

Spec == Init /\ [][Next]_state

(* At most one deployment of the app is working at any time: the          *)
(* validation of Deployment, "can't have two running at the same time".    *)
OneWorking ==
  \A d, e \in Deployment : state[d] = "working" /\ state[e] = "working" => d = e
=============================================================================
