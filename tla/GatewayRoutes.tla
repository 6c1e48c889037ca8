----------------------------- MODULE GatewayRoutes -----------------------------
(***************************************************************************)
(* The routes of one app, its domain and its key material, and how their   *)
(* changes reach an HTTP gateway.  Saving or destroying a route launches a *)
(* process of one participant, http_gateway_update, inside the transaction *)
(* that changes the row.  The participant reads the routes, creates a job  *)
(* for the gateway with them and the hosts of the deployment it was given; *)
(* the gateway replaces what it has by what the job says.                  *)
(*                                                                         *)
(* Deployment 1 is active; deployment 2 may replace it: its process runs   *)
(* the same participant, then removes the installs of deployment 1, then   *)
(* becomes a success, or it fails on the way.  Its other steps and faults   *)
(* are in module DeployWorkflow.                                           *)
(***************************************************************************)
EXTENDS Naturals, Sequences

CONSTANTS Route,         \* rows of routes, all of one domain
          Matching,      \* routes whose hostname the certificate matches
          Client,        \* requests at once
          NoClient,      \* no request
          MaxUpdates     \* processes the requests ever launch (bound)

ASSUME MatchingAssumption == Matching \subseteq Route
ASSUME NoClientAssumption == NoClient \notin Client
ASSUME MaxUpdatesAssumption == MaxUpdates \in Nat

VARIABLES
  domain,      \* the domain exists
  material,    \* the key material: it is created once (bound)
  table,       \* routes in the table
  https,       \* ... that have https_enabled
  keyed,       \* ... that have a key_material_id
  request,     \* the open transaction of a client
  process,     \* the processes; 0 is the one of deployment 2
  queue,       \* jobs of the gateway
  gateway,     \* what it has applied last
  deploying,   \* where deployment 2 is
  installed,   \* deployments with rows in deployment_installs
  raced,       \* an update ran too early, beside another, or too late
  failed,      \* an update was lost, or deployment 2 failed after its own, and
               \* nobody has read the routes since
  overlapped,  \* two requests were open at once
  withdrawn    \* the key of an https route was destroyed

tableVars == <<domain, material, table, https, keyed>>
deployVars == <<deploying, installed>>
gatewayVars == <<queue, gateway>>
ghostVars == <<raced, failed, overlapped, withdrawn>>
vars == <<tableVars, request, process, gatewayVars, deployVars, ghostVars>>

Process == 0..MaxUpdates
Deployment == {1, 2}
Update == [routes : SUBSET Route, https : SUBSET Route, to : {0, 1, 2}]
Write == {"same", "set", "clear"}           \* only changed columns are written
NoRequest == [kind |-> "none", on |-> {}, https |-> "same", keyed |-> "same"]

TypeOK ==
  /\ material \in {"none", "present", "destroyed"}
  /\ {domain, raced, failed, overlapped, withdrawn} \subseteq BOOLEAN
  /\ {https, keyed} \subseteq SUBSET table /\ table \subseteq Route
  /\ request \in [Client ->
       [kind : {"none", "create", "update", "destroy", "domain", "material"},
        on : SUBSET Route, https : Write, keyed : Write]]
  /\ process \in [Process ->
       [pc : {"none", "launched", "read", "ended", "error"},
        by : Client \union {NoClient}, of : Deployment,
        routes : SUBSET Route, https : SUBSET Route]]
  /\ queue \in Seq(Update) /\ Len(queue) <= MaxUpdates + 1
  /\ gateway \in Update
  /\ deploying \in {"no", "publish", "cleaned", "success", "failure"}
  /\ installed \subseteq Deployment

Idle == [pc |-> "none", by |-> NoClient, of |-> 1, routes |-> {}, https |-> {}]

Init ==
  /\ domain = TRUE
  /\ material \in {"none", "present"}
  /\ table = {} /\ https = {} /\ keyed = {}
  /\ request = [c \in Client |-> NoRequest]
  /\ process = [p \in Process |-> Idle]
  /\ queue = <<>>
  /\ gateway = [routes |-> {}, https |-> {}, to |-> 1]
  /\ deploying = "no"
  /\ installed = {1}
  /\ raced = FALSE /\ failed = FALSE
  /\ overlapped = FALSE /\ withdrawn = FALSE

-----------------------------------------------------------------------------
(* Requests: callbacks run in Begin..., the transaction ends in Commit. *)

Active == IF deploying = "success" THEN 2 ELSE 1     \* App#active_deployment

\* update_gateways: one process for all routes a transaction saves or destroys.
Launch(c) ==
  \E p \in Process \ {0} :
    /\ process[p].pc = "none"
    /\ \A q \in 1..(p - 1) : process[q].pc # "none"
    /\ process' = [process EXCEPT ![p].pc = "launched", ![p].by = c,
                                  ![p].of = Active]

Open(c, r) ==
  /\ request[c] = NoRequest
  /\ request' = [request EXCEPT ![c] = r]
  /\ overlapped' = (overlapped \/ \E d \in Client : request[d] # NoRequest)
  /\ UNCHANGED <<tableVars, gatewayVars, deployVars, raced, failed, withdrawn>>

Usable == material = "present"
Assigned(r) == Usable /\ r \in Matching      \* auto_assign_key_material

Column(r, rows, value) ==
  IF r \in table /\ (r \in rows <=> value) THEN "same"
                                           ELSE IF value THEN "set" ELSE "clear"

\* Mutant: https_requires_key_material is not validated.
BeginSaveUnchecked(c, r) ==
  /\ domain
  /\ \E s, k \in BOOLEAN :
       /\ k => Usable
       /\ Open(c, [kind |-> IF r \in table THEN "update" ELSE "create",
                   on |-> {r}, https |-> Column(r, https, s),
                   keyed |-> Column(r, keyed, k \/ Assigned(r))])
  /\ Launch(c)

\* POST or PUT of a route.  The validation of the key comes before
\* auto_assign_key_material; the key given must exist.
BeginSave(c, r) ==
  /\ domain
  /\ \E s, k \in BOOLEAN :
       /\ s => k
       /\ k => Usable
       /\ Open(c, [kind |-> IF r \in table THEN "update" ELSE "create",
                   on |-> {r}, https |-> Column(r, https, s),
                   keyed |-> Column(r, keyed, k \/ Assigned(r))])
  /\ \A d \in Client \ {c} :
       request[d].kind = "create" => r \notin request[d].on
  /\ Launch(c)

\* Mutant: only after_save updates the gateways.
BeginDestroyQuietly(c, r) ==
  /\ r \in table
  /\ Open(c, [NoRequest EXCEPT !.kind = "destroy", !.on = {r}])
  /\ UNCHANGED process

BeginDestroy(c, r) ==
  /\ r \in table
  /\ Open(c, [NoRequest EXCEPT !.kind = "destroy", !.on = {r}])
  /\ Launch(c)

\* delete_associated_routes destroys the routes it finds, one by one.
BeginDestroyDomain(c) ==
  /\ domain
  /\ Open(c, [NoRequest EXCEPT !.kind = "domain", !.on = table])
  /\ IF table = {} THEN UNCHANGED process ELSE Launch(c)

\* auto_assign_routes saves the routes that match.  Without their domain, their
\* hostname raises.
BeginCreateMaterial(c) ==
  /\ material = "none" /\ \A d \in Client : request[d].kind # "material"
  /\ table # {} => domain
  /\ Open(c, [NoRequest EXCEPT !.kind = "material", !.keyed = "set",
                                !.on = table \intersect Matching])
  /\ IF table \intersect Matching = {} THEN UNCHANGED process ELSE Launch(c)

With(rows, on, write) ==
  CASE write = "set"   -> rows \union on
    [] write = "clear" -> rows \ on
    [] OTHER           -> rows

\* Mutant: an UPDATE does not mind whether the row is still there.
WrittenAnyway(rows) == rows

\* An UPDATE of a row that is gone does nothing.
Written(rows) == rows \intersect table'

Commit(c) ==
  LET r == request[c] IN
    /\ r # NoRequest
    /\ request' = [request EXCEPT ![c] = NoRequest]
    /\ table' = CASE r.kind = "create"                -> table \union r.on
                  [] r.kind \in {"destroy", "domain"} -> table \ r.on
                  [] OTHER                            -> table
    /\ https' = Written(With(https, r.on, r.https))
    /\ keyed' = Written(With(keyed, r.on, r.keyed))
    /\ domain' = (domain /\ r.kind # "domain")
    /\ material' = IF r.kind = "material" THEN "present" ELSE material
    /\ UNCHANGED <<process, gatewayVars, deployVars, ghostVars>>

\* The worker is killed: the transaction is rolled back, the process is not.
Rollback(c) ==
  /\ request[c] # NoRequest
  /\ request' = [request EXCEPT ![c] = NoRequest]
  /\ UNCHANGED <<tableVars, process, gatewayVars, deployVars, ghostVars>>

\* has_many :routes, :dependent => :nullify, which calls no callback.
DestroyMaterial ==
  /\ Usable
  /\ material' = "destroyed"
  /\ keyed' = {}
  /\ withdrawn' = (withdrawn \/ https # {})
  /\ overlapped' = (overlapped \/ \E c \in Client : request[c] # NoRequest)
  /\ UNCHANGED <<domain, table, https, request, process, gatewayVars,
                 deployVars, raced, failed>>

-----------------------------------------------------------------------------
(* The participant http_gateway_update. *)

\* build_routes goes through: every route has its domain, every https route its
\* key material.
Sound ==
  /\ table # {} => domain
  /\ https # {} => Usable
  /\ https \subseteq keyed

\* The commit that the process is about has not come yet.
TooEarly(p) ==
  \E c \in Client : process[p].by = c /\ request[c] # NoRequest

BesideAnother == \E q \in Process : process[q].pc = "read"

ReadRoutes(p) ==
  /\ process[p].pc = "launched"
  /\ Sound
  /\ process' = [process EXCEPT ![p].pc = "read", ![p].routes = table,
                                ![p].https = https, ![p].by = NoClient]
  /\ raced' = (raced \/ TooEarly(p) \/ BesideAnother)
  /\ failed' = FALSE
  /\ UNCHANGED <<tableVars, request, gatewayVars, deployVars, overlapped,
                 withdrawn>>

\* The process of a route stays in the engine with its error; deployment 2 is a
\* failure.
EndsInError(p) ==
  /\ process' = [process EXCEPT ![p] = [Idle EXCEPT !.pc = "error"]]
  /\ deploying' = IF p = 0 THEN "failure" ELSE deploying
  /\ raced' = (raced \/ TooEarly(p))
  /\ UNCHANGED <<tableVars, request, gatewayVars, installed, overlapped,
                 withdrawn>>

BuildRoutesRaises(p) ==
  /\ process[p].pc = "launched"
  /\ ~Sound
  /\ EndsInError(p)
  /\ UNCHANGED failed

\* Something else raises before there is a job (the database, Redis, a gateway
\* without server), or the engine's worker dies with the workitem.
UpdateRaises(p) ==
  /\ process[p].pc \in {"launched", "read"}
  /\ EndsInError(p)
  /\ failed' = TRUE

\* The gateways have been sent deployment 2 already.
TooLate(p) ==
  process[p].of = 1 /\ process[0].pc = "ended" /\ deploying # "failure"

\* build_gw_update_job reads the hosts of the deployment it was given.
CreateJobs(p) ==
  LET d == process[p].of IN
    /\ process[p].pc = "read"
    /\ queue' = Append(queue,
         [routes |-> process[p].routes, https |-> process[p].https,
          to |-> IF d \in installed THEN d ELSE 0])
    /\ process' = [process EXCEPT ![p] = [Idle EXCEPT !.pc = "ended"]]
    /\ raced' = (raced \/ TooLate(p))
    /\ UNCHANGED <<tableVars, request, gateway, deployVars, failed, overlapped,
                   withdrawn>>

UpdateGateway ==
  /\ queue # <<>>
  /\ gateway' = Head(queue)
  /\ queue' = Tail(queue)
  /\ UNCHANGED <<tableVars, request, process, deployVars, ghostVars>>

-----------------------------------------------------------------------------
(* Deployment 2. *)

Publish ==
  /\ deploying = "no"
  /\ deploying' = "publish"
  /\ installed' = installed \union {2}
  /\ process' = [process EXCEPT ![0].pc = "launched", ![0].of = 2]
  /\ UNCHANGED <<tableVars, request, gatewayVars, ghostVars>>

\* Rows whose undeploy job has not completed after five seconds stay.
CleanupOldDeployments ==
  /\ deploying = "publish" /\ process[0].pc = "ended"
  /\ deploying' = "cleaned"
  /\ installed' \in {installed, installed \ {1}}
  /\ UNCHANGED <<tableVars, request, process, gatewayVars, ghostVars>>

StoreDeploymentInfo ==
  /\ deploying = "cleaned"
  /\ deploying' = "success"
  /\ UNCHANGED <<tableVars, request, process, gatewayVars, installed,
                 ghostVars>>

\* The wait for the gateway raises, or the creation of an undeploy job, or the
\* logs cannot be read: handle_issue stores a failure, and nobody tells the
\* gateway.
DeploymentFails ==
  /\ deploying \in {"publish", "cleaned"} /\ process[0].pc = "ended"
  /\ deploying' = "failure"
  /\ failed' = TRUE
  /\ UNCHANGED <<tableVars, request, process, gatewayVars, installed, raced,
                 overlapped, withdrawn>>

-----------------------------------------------------------------------------
Request(c) ==
  \/ \E r \in Route : BeginSave(c, r) \/ BeginDestroy(c, r)
  \/ BeginDestroyDomain(c) \/ BeginCreateMaterial(c)

EndRequest(c) == Commit(c) \/ Rollback(c)

Participant(p) ==
  ReadRoutes(p) \/ BuildRoutesRaises(p) \/ UpdateRaises(p) \/ CreateJobs(p)

Next ==
  \/ \E c \in Client : Request(c) \/ EndRequest(c)
  \/ DestroyMaterial
  \/ \E p \in Process : Participant(p)
  \/ UpdateGateway
  \/ Publish \/ CleanupOldDeployments \/ StoreDeploymentInfo \/ DeploymentFails

Spec == Init /\ [][Next]_vars

-----------------------------------------------------------------------------
(* Properties. *)

Table ==
  [routes |-> table, https |-> https,
   to |-> IF Active \in installed THEN Active ELSE 0]

Quiet ==
  /\ \A c \in Client : request[c] = NoRequest
  /\ \A p \in Process : process[p].pc \in {"none", "ended", "error"}
  /\ queue = <<>>
  /\ deploying \in {"no", "success", "failure"}

\* When all that is under way has ended, the gateway does what the table says --
\* unless one of four things has happened.  Three are races: a process ran
\* before the transaction that launched it was committed, two participants were
\* at work at once, or a route was saved while deployment 2 was between its
\* gateway update and its success.  The fourth is a failure that nobody makes
\* good: an update that raised although the routes could be sent, or deployment
\* 2 failing after it had sent the gateway its hosts; it lasts until the next
\* update.  Rollbacks, routes that could not be sent and destroyed keys do no
\* lasting harm: once the routes can be sent again, they have been.
GatewayFollows == Quiet /\ Sound => gateway = Table \/ raced \/ failed

\* The routes can always be sent, unless somebody destroyed the key of an https
\* route or two requests were open at once.
SentUnless == Sound \/ withdrawn \/ overlapped
=============================================================================
