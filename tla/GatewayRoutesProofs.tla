-------------------------- MODULE GatewayRoutesProofs --------------------------
(***************************************************************************)
(* Proofs about GatewayRoutes: the routes can be sent unless a key was     *)
(* withdrawn or requests overlapped, and what the gateway has been sent    *)
(* last is the table and the active deployment, once all is quiet, unless  *)
(* an update ran too early, beside another, or too late, or failed.        *)
(***************************************************************************)
EXTENDS GatewayRoutes, FiniteSetTheorems, SequenceTheorems, TLAPS

-----------------------------------------------------------------------------
(* Requests. *)

\* What callbacks have put into a request.
RequestShape ==
  \A c \in Client :
    /\ request[c].kind = "none" => request[c] = NoRequest
    /\ request[c].kind \in {"destroy", "domain"} =>
         request[c].https = "same" /\ request[c].keyed = "same"
    /\ request[c].kind = "material" =>
         request[c].https = "same" /\ request[c].keyed = "set"

\* The key material is created once, and https comes after it.
MaterialOnce ==
  /\ \A c \in Client : request[c].kind = "material" =>
       /\ material = "none"
       /\ \A d \in Client : request[d].kind = "material" => c = d
  /\ https # {} => material # "none"
  /\ \A c \in Client : request[c].https = "set" => material # "none"

\* A request that nobody has overtaken leaves routes that can be sent.
Alone ==
  \A c, d \in Client : request[c] # NoRequest /\ request[d] # NoRequest => c = d
LeavesSound(r) ==
  /\ r.kind \in {"create", "update"} =>
       /\ domain
       /\ r.https = "set" => Usable
       /\ With(https, r.on, r.https) \subseteq With(keyed, r.on, r.keyed)
  /\ r.kind = "domain" => r.on = table
SoundInv ==
  ~overlapped =>
    Alone /\ (~withdrawn => Sound /\ \A c \in Client : LeavesSound(request[c]))

-----------------------------------------------------------------------------
(* Deployment 2, its process, and the deployment that updates are given. *)

DeployInv ==
  /\ deploying = "no" => installed = {1} /\ process[0].pc = "none"
  /\ deploying = "publish" =>
       /\ installed = {1, 2}
       /\ process[0].pc \in {"launched", "read", "ended"}
  /\ deploying \in {"cleaned", "success"} =>
       2 \in installed /\ process[0].pc = "ended"
  /\ deploying = "failure" => process[0].pc \in {"ended", "error"}
  /\ process[0].pc \in {"launched", "read"} => process[0].of = 2
  /\ \A p \in Process \ {0} :
       process[p].pc \in {"launched", "read"} /\ process[p].of = 2 =>
         deploying = "success"

-----------------------------------------------------------------------------
(* As long as no update has raced. *)

\* The process of an open transaction has not run yet.
Waits ==
  \A c \in Client : request[c].on # {} =>
    \E p \in Process : process[p].pc = "launched" /\ process[p].by = c

OneReads ==
  \A p, q \in Process : process[p].pc = "read" /\ process[q].pc = "read" => p = q

\* What the gateway has been sent last.
Sent == IF queue = <<>> THEN gateway ELSE queue[Len(queue)]

\* The deployment that the gateway is to have: 2 from its update on, unless it
\* fails.
Due == IF process[0].pc = "ended" /\ deploying # "failure" THEN 2 ELSE 1
Hosts(d) == IF d \in installed THEN d ELSE 0

\* Whoever reads the routes will send the gateway where it belongs.
Nobody(pc) == \A p \in Process : process[p].pc # pc
SentTo == Nobody("read") => Sent.to = Hosts(Due)

\* Unless somebody is still to read the routes, the latest who did has read
\* what the table says.
Fresh ==
  Sound /\ Nobody("launched") =>
    /\ \A p \in Process : process[p].pc = "read" =>
         process[p].routes = table /\ process[p].https = https
    /\ Nobody("read") => Sent.routes = table /\ Sent.https = https

RaceInv == ~raced => Waits /\ OneReads /\ (~failed => SentTo /\ Fresh)

-----------------------------------------------------------------------------
\* Every job comes from a process that has ended.
QueueBounded == Len(queue) <= Cardinality({p \in Process : process[p].pc = "ended"})

IInv ==
  /\ TypeOK /\ QueueBounded /\ RequestShape /\ MaterialOnce /\ SoundInv
  /\ DeployInv /\ RaceInv

-----------------------------------------------------------------------------
(* Types. *)

RequestRecord ==
  [kind : {"none", "create", "update", "destroy", "domain", "material"},
   on : SUBSET Route, https : Write, keyed : Write]
ProcessRecord ==
  [pc : {"none", "launched", "read", "ended", "error"},
   by : Client \union {NoClient}, of : Deployment,
   routes : SUBSET Route, https : SUBSET Route]

TableTyped ==
  /\ material \in {"none", "present", "destroyed"}
  /\ {domain, raced, failed, overlapped, withdrawn} \subseteq BOOLEAN
  /\ {https, keyed} \subseteq SUBSET table /\ table \subseteq Route
RequestTyped == request \in [Client -> RequestRecord]
ProcessTyped == process \in [Process -> ProcessRecord]
DeployTyped ==
  /\ deploying \in {"no", "publish", "cleaned", "success", "failure"}
  /\ installed \subseteq Deployment
Typed ==
  /\ TableTyped /\ RequestTyped /\ ProcessTyped /\ DeployTyped
  /\ queue \in Seq(Update) /\ gateway \in Update

LEMMA TypeParts == TypeOK <=> Typed /\ Len(queue) <= MaxUpdates + 1
BY DEF TypeOK, Typed, TableTyped, RequestTyped, ProcessTyped, DeployTyped,
   RequestRecord, ProcessRecord

-----------------------------------------------------------------------------
(* What the actions do. *)

LEMMA NoRequestTyped == NoRequest \in RequestRecord
BY DEF NoRequest, RequestRecord, Write

\* A launch takes a process of its own.
LEMMA LaunchSets ==
  ASSUME Typed, NEW c \in Client, Launch(c)
  PROVE  \E p \in Process \ {0} :
           /\ process[p].pc = "none"
           /\ process'[p].pc = "launched"
           /\ process'[p].by = c
           /\ process'[p].of = Active
           /\ \A q \in Process : q # p => process'[q] = process[q]
           /\ ProcessTyped'
<1>1. PICK p \in Process \ {0} :
        /\ process[p].pc = "none"
        /\ process' = [process EXCEPT ![p].pc = "launched", ![p].by = c,
                                      ![p].of = Active]
  BY DEF Launch
<1>2. process[p] \in ProcessRecord /\ Active \in Deployment
  BY DEF Typed, ProcessTyped, Active, Deployment
<1> DEFINE one == [process EXCEPT ![p].pc = "launched"]
           two == [one EXCEPT ![p].by = c]
<1>3. process' = [two EXCEPT ![p].of = Active]
  BY <1>1
<1>4. /\ one = [process EXCEPT ![p] = [process[p] EXCEPT !.pc = "launched"]]
      /\ one \in [Process -> ProcessRecord]
  BY <1>2 DEF Typed, ProcessTyped, ProcessRecord
<1>5. /\ two = [one EXCEPT ![p] = [one[p] EXCEPT !.by = c]]
      /\ two \in [Process -> ProcessRecord]
  <2> HIDE DEF one
  <2>1. one[p] \in ProcessRecord
    BY <1>4
  <2>2. [one[p] EXCEPT !.by = c] \in ProcessRecord
    BY <2>1 DEF ProcessRecord
  <2>3. two = [one EXCEPT ![p] = [one[p] EXCEPT !.by = c]]
    OBVIOUS
  <2> QED
    BY <1>4, <2>2, <2>3
<1>6. /\ process' = [two EXCEPT ![p] = [two[p] EXCEPT !.of = Active]]
      /\ process' \in [Process -> ProcessRecord]
  <2> HIDE DEF two
  <2>1. two[p] \in ProcessRecord
    BY <1>5
  <2>2. [two[p] EXCEPT !.of = Active] \in ProcessRecord
    BY <1>2, <2>1 DEF ProcessRecord
  <2>3. process' = [two EXCEPT ![p] = [two[p] EXCEPT !.of = Active]]
    BY <1>3
  <2> QED
    BY <1>5, <2>2, <2>3
<1>7. \A q \in Process : q # p => process'[q] = process[q]
  BY <1>4, <1>5, <1>6 DEF Typed, ProcessTyped
<1>8. process'[p].pc = "launched" /\ process'[p].by = c /\ process'[p].of = Active
  BY <1>2, <1>4, <1>5, <1>6 DEF Typed, ProcessTyped, ProcessRecord
<1> QED
  BY <1>1, <1>6, <1>7, <1>8 DEF ProcessTyped

\* What a request has decided when its transaction is open.
Decided(r) ==
  /\ r \in RequestRecord /\ r.kind # "none"
  /\ r.kind \in {"destroy", "domain"} => r.https = "same" /\ r.keyed = "same"
  /\ r.kind = "material" =>
       /\ r.https = "same" /\ r.keyed = "set"
       /\ material = "none" /\ \A d \in Client : request[d].kind # "material"
  /\ r.https = "set" => Usable
  /\ Sound => LeavesSound(r)

LEMMA SaveDecided ==
  ASSUME Typed, domain, NEW x \in Route, NEW s \in BOOLEAN, NEW k \in BOOLEAN,
         s => k, k => Usable
  PROVE  Decided([kind |-> IF x \in table THEN "update" ELSE "create",
                  on |-> {x}, https |-> Column(x, https, s),
                  keyed |-> Column(x, keyed, k \/ Assigned(x))])
<1> DEFINE h == Column(x, https, s)
           w == Column(x, keyed, k \/ Assigned(x))
           kd == IF x \in table THEN "update" ELSE "create"
           r == [kind |-> kd, on |-> {x}, https |-> h, keyed |-> w]
<1>1. h \in Write /\ w \in Write
  BY DEF Column, Write
<1>2. kd \in {"update", "create"}
  OBVIOUS
<1>3. h = "set" => Usable
  BY DEF Column
<1>4. Sound => With(https, {x}, h) \subseteq With(keyed, {x}, w)
  <2> SUFFICES ASSUME Sound, NEW y \in With(https, {x}, h)
               PROVE  y \in With(keyed, {x}, w)
    OBVIOUS
  <2>1. https \subseteq keyed /\ keyed \subseteq table
    BY DEF Sound, Typed, TableTyped
  <2>2. CASE y # x
    BY <2>1, <2>2, <1>1 DEF With, Write
  <2>3. CASE y = x
    <3>1. s
      BY <2>1, <2>3 DEF With, Column
    <3> QED
      BY <2>1, <2>3, <3>1 DEF With, Column
  <2> QED
    BY <2>2, <2>3
<1>5. r \in RequestRecord
  BY <1>1, <1>2 DEF RequestRecord
<1> HIDE DEF h, w, kd
<1>6. r.kind = kd /\ r.on = {x} /\ r.https = h /\ r.keyed = w
  OBVIOUS
<1> HIDE DEF r
<1>7. Decided(r)
  BY <1>2, <1>3, <1>4, <1>5, <1>6 DEF Decided, LeavesSound
<1> QED
  BY <1>7 DEF r, h, w, kd

\* A request launches a process, or has nothing to save or to destroy.
LEMMA RequestOpens ==
  ASSUME Typed, NEW c \in Client, Request(c)
  PROVE  \E r : /\ Decided(r) /\ Open(c, r)
                /\ Launch(c) \/ (r.on = {} /\ process' = process)
<1>1. ASSUME NEW x \in Route, BeginSave(c, x)
      PROVE  \E r : Decided(r) /\ Open(c, r) /\ Launch(c)
  BY <1>1, SaveDecided DEF BeginSave
<1>2. ASSUME NEW x \in Route, BeginDestroy(c, x)
      PROVE  \E r : Decided(r) /\ Open(c, r) /\ Launch(c)
  <2> DEFINE r == [NoRequest EXCEPT !.kind = "destroy", !.on = {x}]
  <2>1. Decided(r)
    BY DEF Decided, LeavesSound, NoRequest, RequestRecord, Write
  <2> QED
    BY <1>2, <2>1 DEF BeginDestroy
<1>3. ASSUME BeginDestroyDomain(c)
      PROVE  \E r : /\ Decided(r) /\ Open(c, r)
                    /\ Launch(c) \/ (r.on = {} /\ process' = process)
  <2> DEFINE r == [NoRequest EXCEPT !.kind = "domain", !.on = table]
  <2>1. Decided(r)
    BY DEF Decided, LeavesSound, NoRequest, RequestRecord, Write, Typed, TableTyped
  <2>2. r.on = table
    BY DEF NoRequest
  <2> QED
    BY <1>3, <2>1, <2>2 DEF BeginDestroyDomain
<1>4. ASSUME BeginCreateMaterial(c)
      PROVE  \E r : /\ Decided(r) /\ Open(c, r)
                    /\ Launch(c) \/ (r.on = {} /\ process' = process)
  <2> DEFINE r == [NoRequest EXCEPT !.kind = "material", !.keyed = "set",
                                    !.on = table \intersect Matching]
  <2>1. Decided(r)
    BY <1>4 DEF BeginCreateMaterial, Decided, LeavesSound, NoRequest,
       RequestRecord, Write, Typed, TableTyped
  <2>2. r.on = table \intersect Matching
    BY DEF NoRequest
  <2> QED
    BY <1>4, <2>1, <2>2 DEF BeginCreateMaterial
<1> QED
  BY <1>1, <1>2, <1>3, <1>4 DEF Request

\* The participant changes its own process only.
LEMMA ReadSets ==
  ASSUME Typed, NEW p \in Process, ReadRoutes(p)
  PROVE  /\ process[p].pc = "launched" /\ process'[p].pc = "read"
         /\ process'[p].routes = table /\ process'[p].https = https
         /\ process'[p].by = NoClient /\ process'[p].of = process[p].of
         /\ \A q \in Process : q # p => process'[q] = process[q]
         /\ ProcessTyped'
<1>1. process[p] \in ProcessRecord /\ process \in [Process -> ProcessRecord]
  BY DEF Typed, ProcessTyped
<1>2. table \in SUBSET Route /\ https \in SUBSET Route
  BY DEF Typed, TableTyped
<1> DEFINE rec1 == [process[p] EXCEPT !.pc = "read"]
           rec2 == [rec1 EXCEPT !.routes = table]
           rec3 == [rec2 EXCEPT !.https = https]
           new == [rec3 EXCEPT !.by = NoClient]
<1>3. rec1 \in ProcessRecord /\ rec1.pc = "read" /\ rec1.of = process[p].of
  BY <1>1 DEF ProcessRecord
<1>4. /\ rec2 \in ProcessRecord /\ rec2.pc = "read" /\ rec2.of = process[p].of
      /\ rec2.routes = table
  <2> HIDE DEF rec1
  <2> QED
    BY <1>2, <1>3 DEF ProcessRecord
<1>5. /\ rec3 \in ProcessRecord /\ rec3.pc = "read" /\ rec3.of = process[p].of
      /\ rec3.routes = table /\ rec3.https = https
  <2> HIDE DEF rec2
  <2> QED
    BY <1>2, <1>4 DEF ProcessRecord
<1>6. /\ new \in ProcessRecord /\ new.pc = "read" /\ new.of = process[p].of
      /\ new.routes = table /\ new.https = https /\ new.by = NoClient
  <2> HIDE DEF rec3
  <2> QED
    BY <1>5 DEF ProcessRecord
<1> DEFINE one == [process EXCEPT ![p].pc = "read"]
           two == [one EXCEPT ![p].routes = table]
           three == [two EXCEPT ![p].https = https]
<1>7. process' = [three EXCEPT ![p].by = NoClient] /\ process[p].pc = "launched"
  BY DEF ReadRoutes
<1> HIDE DEF rec1, rec2, rec3, new
<1>8. one = [process EXCEPT ![p] = rec1]
  BY DEF rec1
<1>9. two = [process EXCEPT ![p] = rec2]
  <2> HIDE DEF one
  <2> QED
    BY <1>1, <1>8 DEF rec2
<1>10. three = [process EXCEPT ![p] = rec3]
  <2> HIDE DEF two
  <2> QED
    BY <1>1, <1>9 DEF rec3
<1>11. process' = [process EXCEPT ![p] = new]
  <2> HIDE DEF three
  <2> QED
    BY <1>1, <1>7, <1>10 DEF new
<1> HIDE DEF one, two, three
<1> QED
  BY <1>1, <1>6, <1>7, <1>11 DEF ProcessTyped

Raises(p) == BuildRoutesRaises(p) \/ UpdateRaises(p)

LEMMA EndSets ==
  ASSUME Typed, NEW p \in Process, Raises(p) \/ CreateJobs(p)
  PROVE  /\ Raises(p) => process[p].pc \in {"launched", "read"}
                         /\ process'[p].pc = "error"
         /\ CreateJobs(p) => process[p].pc = "read" /\ process'[p].pc = "ended"
         /\ \A q \in Process : q # p => process'[q] = process[q]
         /\ ProcessTyped'
<1> DEFINE new(s) == [Idle EXCEPT !.pc = s]
<1>1. \A s \in {"error", "ended"} : new(s) \in ProcessRecord /\ new(s).pc = s
  BY DEF Idle, ProcessRecord, Deployment
<1>2. \/ Raises(p) /\ process[p].pc \in {"launched", "read"}
         /\ process' = [process EXCEPT ![p] = new("error")]
      \/ CreateJobs(p) /\ process[p].pc = "read"
         /\ process' = [process EXCEPT ![p] = new("ended")]
  BY DEF Raises, BuildRoutesRaises, UpdateRaises, EndsInError, CreateJobs
<1>3. ~(Raises(p) /\ CreateJobs(p))
  <2>1. Raises(p) => process' = [process EXCEPT ![p] = new("error")]
    BY DEF Raises, BuildRoutesRaises, UpdateRaises, EndsInError
  <2>2. CreateJobs(p) => process' = [process EXCEPT ![p] = new("ended")]
    BY DEF CreateJobs
  <2> HIDE DEF new
  <2> QED
    BY <1>1, <2>1, <2>2 DEF Typed, ProcessTyped
<1> HIDE DEF new
<1> QED
  BY <1>1, <1>2, <1>3 DEF Typed, ProcessTyped

LEMMA RaiseSets ==
  ASSUME NEW p \in Process, Raises(p)
  PROVE  /\ raced' = (raced \/ TooEarly(p))
         /\ deploying' = IF p = 0 THEN "failure" ELSE deploying
         /\ failed' \/ (process[p].pc = "launched" /\ ~Sound)
         /\ UNCHANGED <<tableVars, request, queue, gateway, installed,
                        overlapped, withdrawn>>
BY DEF Raises, BuildRoutesRaises, UpdateRaises, EndsInError, gatewayVars

LEMMA PublishSets ==
  ASSUME Typed, Publish
  PROVE  /\ 0 \in Process
         /\ process'[0].pc = "launched" /\ process'[0].of = 2
         /\ \A q \in Process : q # 0 => process'[q] = process[q]
         /\ ProcessTyped'
<1> DEFINE new == [process[0] EXCEPT !.pc = "launched", !.of = 2]
           one == [process EXCEPT ![0].pc = "launched"]
<1>1. 0 \in Process
  BY MaxUpdatesAssumption DEF Process
<1>2. process[0] \in ProcessRecord /\ process \in [Process -> ProcessRecord]
  BY <1>1 DEF Typed, ProcessTyped
<1>3. new \in ProcessRecord
  BY <1>2 DEF ProcessRecord, Deployment
<1>4. one = [process EXCEPT ![0] = [process[0] EXCEPT !.pc = "launched"]]
  OBVIOUS
<1>5. process' = [one EXCEPT ![0].of = 2]
  BY DEF Publish
<1>6. process' = [process EXCEPT ![0] = new]
  BY <1>1, <1>2, <1>4, <1>5
<1>7. new.pc = "launched" /\ new.of = 2
  BY <1>2 DEF ProcessRecord
<1> QED
  BY <1>1, <1>2, <1>3, <1>6, <1>7 DEF ProcessTyped

-----------------------------------------------------------------------------
\* Deployment 2 goes on, or fails, after its gateway update.
DeploymentMoves ==
  CleanupOldDeployments \/ StoreDeploymentInfo \/ DeploymentFails

LEMMA StepTyped == Typed /\ [Next]_vars => Typed'
<1> SUFFICES ASSUME Typed, [Next]_vars PROVE Typed'
  OBVIOUS
<1>1. ASSUME NEW c \in Client, Request(c) PROVE Typed'
  <2>1. PICK r : /\ Decided(r) /\ Open(c, r)
                 /\ Launch(c) \/ (r.on = {} /\ process' = process)
    BY <1>1, RequestOpens
  <2>2. ProcessTyped'
    BY <2>1, LaunchSets DEF Typed, ProcessTyped
  <2>3. RequestTyped'
    BY <2>1 DEF Decided, Open, Typed, RequestTyped
  <2>4. TableTyped' /\ DeployTyped'
    BY <2>1 DEF Open, tableVars, deployVars, Typed, TableTyped, DeployTyped
  <2> QED
    BY <2>1, <2>2, <2>3, <2>4 DEF Typed, Open, gatewayVars
<1>2. ASSUME NEW c \in Client, EndRequest(c) PROVE Typed'
  <2>1. RequestTyped'
    BY <1>2, NoRequestTyped DEF EndRequest, Commit, Rollback, Typed, RequestTyped
  <2>2. ASSUME Commit(c) PROVE TableTyped'
    <3>1. request[c] \in RequestRecord
      BY DEF Typed, RequestTyped
    <3>2. request[c].on \subseteq Route /\ table \subseteq Route
      BY <3>1 DEF RequestRecord, Typed, TableTyped
    <3>3. table' \subseteq Route
      BY <2>2, <3>2 DEF Commit
    <3>4. https' \subseteq table' /\ keyed' \subseteq table'
      BY <2>2 DEF Commit, Written
    <3>5. domain' \in BOOLEAN /\ material' \in {"none", "present", "destroyed"}
      BY <2>2 DEF Commit, Typed, TableTyped
    <3> QED
      BY <2>2, <3>3, <3>4, <3>5 DEF Commit, ghostVars, Typed, TableTyped
  <2>3. ASSUME Rollback(c) PROVE TableTyped'
    BY <2>3 DEF Rollback, tableVars, ghostVars, Typed, TableTyped
  <2> QED
    BY <1>2, <2>1, <2>2, <2>3 DEF EndRequest, Commit, Rollback, Typed,
       ProcessTyped, DeployTyped, gatewayVars, deployVars
<1>3. ASSUME DestroyMaterial PROVE Typed'
  BY <1>3 DEF DestroyMaterial, Typed, TableTyped, RequestTyped, ProcessTyped,
     DeployTyped, gatewayVars, deployVars
<1>4. ASSUME NEW p \in Process, ReadRoutes(p) PROVE Typed'
  <2>1. ProcessTyped'
    BY <1>4, ReadSets
  <2> QED
    BY <1>4, <2>1 DEF ReadRoutes, Typed, TableTyped, RequestTyped, DeployTyped,
       tableVars, gatewayVars, deployVars
<1>5. ASSUME NEW p \in Process, Raises(p) PROVE Typed'
  <2>1. ProcessTyped'
    BY <1>5, EndSets
  <2> QED
    BY <1>5, <2>1 DEF Raises, BuildRoutesRaises, UpdateRaises, EndsInError, Typed,
       TableTyped, RequestTyped, DeployTyped, tableVars, gatewayVars
<1>6. ASSUME NEW p \in Process, CreateJobs(p) PROVE Typed'
  <2>1. ProcessTyped'
    BY <1>6, EndSets
  <2>2. process[p] \in ProcessRecord
    BY DEF Typed, ProcessTyped
  <2>3. [routes |-> process[p].routes, https |-> process[p].https,
         to |-> IF process[p].of \in installed THEN process[p].of ELSE 0] \in Update
    BY <2>2 DEF ProcessRecord, Update, Deployment
  <2>4. queue' \in Seq(Update)
    BY <1>6, <2>3 DEF CreateJobs, Typed
  <2> QED
    BY <1>6, <2>1, <2>4 DEF CreateJobs, Typed, TableTyped, RequestTyped,
       DeployTyped, tableVars, deployVars
<1>7. ASSUME UpdateGateway PROVE Typed'
  <2>1. queue' \in Seq(Update) /\ gateway' \in Update
    BY <1>7 DEF UpdateGateway, Typed
  <2> QED
    BY <1>7, <2>1 DEF UpdateGateway, Typed, TableTyped, RequestTyped,
       ProcessTyped, DeployTyped, tableVars, deployVars, ghostVars
<1>8. ASSUME Publish PROVE Typed'
  <2>1. ProcessTyped'
    BY <1>8, PublishSets
  <2> QED
    BY <1>8, <2>1 DEF Publish, Typed, TableTyped, RequestTyped, DeployTyped,
       Deployment, tableVars, gatewayVars, ghostVars
<1>9. ASSUME DeploymentMoves PROVE Typed'
  BY <1>9 DEF DeploymentMoves, CleanupOldDeployments, StoreDeploymentInfo,
     DeploymentFails, Typed, TableTyped, RequestTyped, ProcessTyped, DeployTyped,
     tableVars, gatewayVars, ghostVars
<1>10. CASE UNCHANGED vars
  BY <1>10 DEF vars, tableVars, gatewayVars, deployVars, ghostVars, Typed,
     TableTyped, RequestTyped, ProcessTyped, DeployTyped
<1> QED
  BY <1>1, <1>2, <1>3, <1>4, <1>5, <1>6, <1>7, <1>8, <1>9, <1>10
     DEF Next, Participant, Raises, DeploymentMoves

-----------------------------------------------------------------------------
\* What becomes of the processes in a step: what has ended stays.
LEMMA StepEnded ==
  ASSUME Typed, DeployInv, [Next]_vars
  PROVE  \/ /\ UNCHANGED queue
            /\ \A q \in Process : process[q].pc = "ended" => process'[q] = process[q]
         \/ UpdateGateway
         \/ \E p \in Process : CreateJobs(p)
<1>1. ASSUME NEW c \in Client, Request(c)
      PROVE  /\ UNCHANGED queue
             /\ \A q \in Process : process[q].pc = "ended" => process'[q] = process[q]
  BY <1>1, RequestOpens, LaunchSets DEF Open, gatewayVars
<1>2. ASSUME NEW p \in Process, ReadRoutes(p) \/ Raises(p)
      PROVE  /\ UNCHANGED queue
             /\ \A q \in Process : process[q].pc = "ended" => process'[q] = process[q]
  BY <1>2, ReadSets, EndSets, RaiseSets DEF ReadRoutes, gatewayVars
<1>3. ASSUME Publish
      PROVE  /\ UNCHANGED queue
             /\ \A q \in Process : process[q].pc = "ended" => process'[q] = process[q]
  BY <1>3, PublishSets DEF Publish, DeployInv, gatewayVars
<1>4. ASSUME NEW c \in Client, EndRequest(c)
      PROVE  UNCHANGED <<process, queue>>
  BY <1>4 DEF EndRequest, Commit, Rollback, gatewayVars
<1>5. DestroyMaterial \/ DeploymentMoves \/ UNCHANGED vars
         => UNCHANGED <<process, queue>>
  BY DEF DestroyMaterial, DeploymentMoves, CleanupOldDeployments,
     StoreDeploymentInfo, DeploymentFails, vars, gatewayVars
<1> QED
  BY <1>1, <1>2, <1>3, <1>4, <1>5 DEF Next, Participant, Raises, DeploymentMoves

LEMMA ProcessesFinite ==
  IsFiniteSet(Process) /\ Cardinality(Process) = MaxUpdates + 1
BY FS_Interval, MaxUpdatesAssumption DEF Process

LEMMA StepQueueBounded ==
  Typed /\ DeployInv /\ QueueBounded /\ [Next]_vars => QueueBounded'
<1> DEFINE Ended == {p \in Process : process[p].pc = "ended"}
<1> SUFFICES ASSUME Typed, DeployInv, QueueBounded, [Next]_vars
             PROVE  Len(queue') <= Cardinality(Ended')
  BY DEF QueueBounded
<1>1. queue \in Seq(Update) /\ Len(queue) \in Nat /\ Len(queue) <= Cardinality(Ended)
  BY DEF Typed, QueueBounded
<1>2. Ended \subseteq Process /\ Ended' \subseteq Process
  OBVIOUS
<1>3. /\ IsFiniteSet(Ended) /\ IsFiniteSet(Ended')
      /\ Cardinality(Ended) \in Nat /\ Cardinality(Ended') \in Nat
  BY <1>2, ProcessesFinite, FS_Subset, FS_CardinalityType
<1>4. ASSUME UNCHANGED queue,
             \A q \in Process : process[q].pc = "ended" => process'[q] = process[q]
      PROVE  Len(queue') <= Cardinality(Ended')
  <2>1. Ended \subseteq Ended'
    BY <1>4
  <2>2. Cardinality(Ended) <= Cardinality(Ended')
    BY <1>3, <2>1, FS_Subset
  <2> QED
    BY <1>1, <1>3, <1>4, <2>2
<1>5. ASSUME UpdateGateway PROVE Len(queue') <= Cardinality(Ended')
  <2>1. Len(queue') = Len(queue) - 1
    BY <1>1, <1>5 DEF UpdateGateway
  <2>2. Ended' = Ended
    BY <1>5 DEF UpdateGateway
  <2> HIDE DEF Ended
  <2> QED
    BY <1>1, <1>3, <2>1, <2>2
<1>6. ASSUME NEW p \in Process, CreateJobs(p) PROVE Len(queue') <= Cardinality(Ended')
  <2>1. Len(queue') = Len(queue) + 1
    BY <1>1, <1>6 DEF CreateJobs
  <2>2. p \notin Ended /\ Ended' = Ended \union {p}
    BY <1>6, EndSets
  <2>3. Cardinality(Ended') = Cardinality(Ended) + 1
    BY <1>3, <2>2, FS_AddElement
  <2> QED
    BY <1>1, <1>3, <2>1, <2>3
<1> QED
  BY <1>4, <1>5, <1>6, StepEnded

LEMMA QueueFits == Typed /\ QueueBounded => TypeOK
<1> DEFINE Ended == {p \in Process : process[p].pc = "ended"}
<1>1. Cardinality(Ended) <= MaxUpdates + 1
  BY ProcessesFinite, FS_Subset
<1>2. Cardinality(Ended) \in Nat
  BY ProcessesFinite, FS_Subset, FS_CardinalityType
<1> QED
  BY <1>1, <1>2, TypeParts, MaxUpdatesAssumption DEF QueueBounded, Typed

-----------------------------------------------------------------------------
(* Requests, and whether the routes can be sent. *)

\* A step opens a transaction, ends one, or leaves them alone.
LEMMA StepRequests ==
  ASSUME Typed, [Next]_vars
  PROVE  \/ \E c \in Client : \E r : Decided(r) /\ Open(c, r)
         \/ \E c \in Client : EndRequest(c)
         \/ DestroyMaterial
         \/ UNCHANGED <<tableVars, request, overlapped, withdrawn>>
<1>1. ASSUME NEW c \in Client, Request(c)
      PROVE  \E d \in Client : \E r : Decided(r) /\ Open(d, r)
  BY <1>1, RequestOpens
<1>2. ASSUME NEW p \in Process, Participant(p)
      PROVE  UNCHANGED <<tableVars, request, overlapped, withdrawn>>
  BY <1>2 DEF Participant, ReadRoutes, BuildRoutesRaises, UpdateRaises,
     EndsInError, CreateJobs
<1>3. UpdateGateway \/ Publish \/ DeploymentMoves \/ UNCHANGED vars
          => UNCHANGED <<tableVars, request, overlapped, withdrawn>>
  BY DEF UpdateGateway, Publish, DeploymentMoves, CleanupOldDeployments,
     StoreDeploymentInfo, DeploymentFails, vars, ghostVars
<1> QED
  BY <1>1, <1>2, <1>3 DEF Next, DeploymentMoves

\* What the end of a transaction does to the request.
LEMMA EndRequestSets ==
  ASSUME Typed, NEW c \in Client, EndRequest(c)
  PROVE  /\ request[c] # NoRequest /\ request'[c] = NoRequest
         /\ \A d \in Client : d # c => request'[d] = request[d]
         /\ UNCHANGED <<process, queue, gateway, deploying, installed, raced,
                        failed, overlapped, withdrawn>>
BY DEF EndRequest, Commit, Rollback, Typed, RequestTyped, gatewayVars,
   deployVars, ghostVars

LEMMA OpenSets ==
  ASSUME Typed, NEW c \in Client, NEW r, Open(c, r)
  PROVE  /\ request[c] = NoRequest /\ request'[c] = r
         /\ \A d \in Client : d # c => request'[d] = request[d]
BY DEF Open, Typed, RequestTyped

LEMMA NoRequestFields ==
  /\ NoRequest.kind = "none" /\ NoRequest.on = {}
  /\ NoRequest.https = "same" /\ NoRequest.keyed = "same"
BY DEF NoRequest

LEMMA StepRequestShape == Typed /\ RequestShape /\ [Next]_vars => RequestShape'
<1> SUFFICES ASSUME Typed, RequestShape, [Next]_vars PROVE RequestShape'
  OBVIOUS
<1>1. ASSUME NEW c \in Client, NEW r, Decided(r), Open(c, r) PROVE RequestShape'
  BY <1>1, OpenSets DEF Decided, RequestShape
<1>2. ASSUME NEW c \in Client, EndRequest(c) PROVE RequestShape'
  BY <1>2, EndRequestSets, NoRequestFields DEF RequestShape
<1>3. request' = request => RequestShape'
  BY DEF RequestShape
<1> QED
  BY <1>1, <1>2, <1>3, StepRequests DEF DestroyMaterial

LEMMA StepMaterialOnce ==
  Typed /\ RequestShape /\ MaterialOnce /\ [Next]_vars => MaterialOnce'
<1> SUFFICES ASSUME Typed, RequestShape, MaterialOnce, [Next]_vars
             PROVE  MaterialOnce'
  OBVIOUS
<1>1. ASSUME NEW c \in Client, NEW r, Decided(r), Open(c, r) PROVE MaterialOnce'
  BY <1>1, OpenSets DEF Decided, MaterialOnce, Open, tableVars, Usable
<1>2. ASSUME NEW c \in Client, Commit(c) PROVE MaterialOnce'
  <2>1. /\ request[c] # NoRequest /\ request'[c] = NoRequest
        /\ \A d \in Client : d # c => request'[d] = request[d]
    BY <1>2, EndRequestSets DEF EndRequest
  <2>2. material' = IF request[c].kind = "material" THEN "present" ELSE material
    BY <1>2 DEF Commit
  <2>3. https' # {} => https # {} \/ request[c].https = "set"
    <3>1. request[c] \in RequestRecord
      BY DEF Typed, RequestTyped
    <3>2. request[c].https \in {"same", "set", "clear"}
      BY <3>1 DEF RequestRecord, Write
    <3>3. https' \subseteq With(https, request[c].on, request[c].https)
      BY <1>2 DEF Commit, Written
    <3> QED
      BY <3>2, <3>3 DEF With
  <2>4. https' # {} => material' # "none"
    BY <2>2, <2>3 DEF MaterialOnce
  <2>5. \A d \in Client : request'[d].kind = "material" =>
          request[d].kind = "material" /\ material' = "none"
    BY <2>1, <2>2, NoRequestFields DEF MaterialOnce
  <2>6. \A d \in Client : request'[d].https = "set" => material' # "none"
    BY <2>1, <2>2, NoRequestFields DEF MaterialOnce
  <2> QED
    BY <2>4, <2>5, <2>6 DEF MaterialOnce
<1>3. ASSUME NEW c \in Client, Rollback(c) PROVE MaterialOnce'
  BY <1>3, EndRequestSets, NoRequestFields
     DEF EndRequest, Rollback, tableVars, MaterialOnce
<1>4. ASSUME DestroyMaterial PROVE MaterialOnce'
  BY <1>4 DEF DestroyMaterial, Usable, MaterialOnce
<1>5. UNCHANGED <<tableVars, request>> => MaterialOnce'
  BY DEF tableVars, MaterialOnce
<1> QED
  BY <1>1, <1>2, <1>3, <1>4, <1>5, StepRequests DEF EndRequest

LEMMA StepSoundInv ==
  Typed /\ RequestShape /\ SoundInv /\ [Next]_vars => SoundInv'
<1> SUFFICES ASSUME Typed, RequestShape, SoundInv, [Next]_vars, ~overlapped'
             PROVE  /\ Alone'
                    /\ ~withdrawn' =>
                         Sound' /\ \A c \in Client : LeavesSound(request[c])'
  BY DEF SoundInv
<1>1. ASSUME NEW c \in Client, NEW r, Decided(r), Open(c, r)
      PROVE  /\ Alone'
             /\ ~withdrawn' =>
                  Sound' /\ \A d \in Client : LeavesSound(request[d])'
  <2>1. /\ ~overlapped /\ \A d \in Client : request[d] = NoRequest
        /\ UNCHANGED <<domain, material, table, https, keyed, withdrawn>>
    BY <1>1 DEF Open, tableVars
  <2>2. Alone'
    BY <1>1, <2>1, OpenSets DEF Alone
  <2>3. ASSUME ~withdrawn' PROVE Sound'
    BY <2>1, <2>3 DEF SoundInv, Sound, Usable
  <2>4. ASSUME ~withdrawn', NEW d \in Client PROVE LeavesSound(request[d])'
    <3>1. request'[d] = r \/ request'[d] = NoRequest
      BY <1>1, <2>1, OpenSets
    <3>2. LeavesSound(r)
      BY <1>1, <2>1, <2>4 DEF SoundInv, Decided
    <3>3. LeavesSound(NoRequest)
      BY NoRequestFields DEF LeavesSound
    <3>4. LeavesSound(request'[d])
      BY <3>1, <3>2, <3>3
    <3> QED
      BY <2>1, <3>4 DEF LeavesSound, Usable, With
  <2> QED
    BY <2>2, <2>3, <2>4
<1>2. ASSUME NEW c \in Client, EndRequest(c)
      PROVE  /\ Alone'
             /\ ~withdrawn' =>
                  Sound' /\ \A d \in Client : LeavesSound(request[d])'
  <2>1. /\ ~overlapped /\ request[c] # NoRequest
        /\ \A d \in Client : request'[d] = NoRequest
        /\ UNCHANGED withdrawn
    BY <1>2, EndRequestSets DEF SoundInv, Alone
  <2>2. \A d \in Client : LeavesSound(request[d])'
    BY <2>1, NoRequestFields DEF LeavesSound
  <2>3. ASSUME ~withdrawn' PROVE Sound'
    <3>1. Sound /\ LeavesSound(request[c])
      BY <2>1, <2>3 DEF SoundInv
    <3>2. ASSUME Commit(c) PROVE Sound'
      <4> DEFINE r == request[c]
      <4>1. r \in RequestRecord
        BY DEF Typed, RequestTyped
      <4>2. r.kind \in {"create", "update", "destroy", "domain", "material"}
        BY <2>1, <4>1 DEF RequestShape, RequestRecord
      <4>3. r.https \in {"same", "set", "clear"} /\ r.keyed \in {"same", "set", "clear"}
        BY <4>1 DEF RequestRecord, Write
      <4>4. /\ https' = With(https, r.on, r.https) \intersect table'
            /\ keyed' = With(keyed, r.on, r.keyed) \intersect table'
            /\ domain' = (domain /\ r.kind # "domain")
            /\ material' = IF r.kind = "material" THEN "present" ELSE material
        BY <3>2 DEF Commit, Written
      <4>5. table' = CASE r.kind = "create"                -> table \union r.on
                       [] r.kind \in {"destroy", "domain"} -> table \ r.on
                       [] OTHER                            -> table
        BY <3>2 DEF Commit
      <4>6. table' # {} => domain'
        BY <3>1, <4>2, <4>4, <4>5 DEF LeavesSound, Sound
      <4>7. With(https, r.on, r.https) \subseteq With(keyed, r.on, r.keyed)
        BY <3>1, <4>2 DEF LeavesSound, Sound, RequestShape, With
      <4>8. https' # {} => material' = "present"
        <5>1. r.https = "set" => Usable
          BY <3>1, <4>2 DEF LeavesSound, RequestShape
        <5>2. https' # {} => https # {} \/ r.https = "set"
          BY <4>3, <4>4 DEF With
        <5> QED
          BY <3>1, <4>4, <5>1, <5>2 DEF Sound, Usable
      <4> QED
        BY <4>4, <4>6, <4>7, <4>8 DEF Sound, Usable
    <3>3. ASSUME Rollback(c) PROVE Sound'
      BY <3>1, <3>3 DEF Rollback, tableVars, Sound, Usable
    <3> QED
      BY <1>2, <3>2, <3>3 DEF EndRequest
  <2> QED
    BY <2>1, <2>2, <2>3 DEF Alone
<1>3. ASSUME DestroyMaterial
      PROVE  /\ Alone'
             /\ ~withdrawn' =>
                  Sound' /\ \A d \in Client : LeavesSound(request[d])'
  <2>1. /\ ~overlapped /\ \A d \in Client : request'[d] = NoRequest
        /\ UNCHANGED <<domain, table, https>>
    BY <1>3 DEF DestroyMaterial
  <2>2. ~withdrawn' => ~withdrawn /\ https = {}
    BY <1>3 DEF DestroyMaterial
  <2>3. ~withdrawn' => Sound'
    BY <2>1, <2>2 DEF SoundInv, Sound, Usable
  <2> QED
    BY <2>1, <2>3, NoRequestFields DEF Alone, LeavesSound
<1>4. UNCHANGED <<tableVars, request, overlapped, withdrawn>> =>
             /\ Alone'
             /\ ~withdrawn' =>
                  Sound' /\ \A d \in Client : LeavesSound(request[d])'
  BY DEF SoundInv, Alone, Sound, Usable, LeavesSound, With, tableVars
<1> QED
  BY <1>1, <1>2, <1>3, <1>4, StepRequests

-----------------------------------------------------------------------------
(* Deployment 2. *)

LEMMA StepDeployInv == Typed /\ DeployInv /\ [Next]_vars => DeployInv'
<1> SUFFICES ASSUME Typed, DeployInv, [Next]_vars PROVE DeployInv'
  OBVIOUS
<1>1. 0 \in Process
  BY MaxUpdatesAssumption DEF Process
<1>2. ASSUME NEW c \in Client, Request(c) PROVE DeployInv'
  <2>1. UNCHANGED <<deploying, installed>>
    BY <1>2, RequestOpens DEF Open, deployVars
  <2>2. CASE process' = process
    BY <2>1, <2>2 DEF DeployInv
  <2>3. CASE Launch(c)
    <3>1. PICK p \in Process \ {0} :
            /\ process'[p].of = Active
            /\ \A q \in Process : q # p => process'[q] = process[q]
      BY <2>3, LaunchSets
    <3>2. process'[0] = process[0]
      BY <1>1, <3>1
    <3>3. process'[p].of = 2 => deploying' = "success"
      BY <2>1, <3>1 DEF Active
    <3> QED
      BY <2>1, <3>1, <3>2, <3>3 DEF DeployInv
  <2> QED
    BY <1>2, <2>2, <2>3, RequestOpens
<1>3. ASSUME NEW c \in Client, EndRequest(c) PROVE DeployInv'
  BY <1>3, EndRequestSets DEF DeployInv
<1>4. ASSUME NEW p \in Process, ReadRoutes(p) PROVE DeployInv'
  BY <1>1, <1>4, ReadSets DEF ReadRoutes, deployVars, DeployInv
<1>5. ASSUME NEW p \in Process, Raises(p) PROVE DeployInv'
  <2>1. /\ process[p].pc \in {"launched", "read"} /\ process'[p].pc = "error"
        /\ \A q \in Process : q # p => process'[q] = process[q]
        /\ deploying' = IF p = 0 THEN "failure" ELSE deploying
        /\ installed' = installed
    BY <1>5, EndSets, RaiseSets
  <2>2. CASE p = 0
    <3>1. deploying = "publish"
      BY <2>1, <2>2 DEF DeployInv, Typed, DeployTyped
    <3>2. \A q \in Process \ {0} :
            ~(process[q].pc \in {"launched", "read"} /\ process[q].of = 2)
      BY <3>1 DEF DeployInv
    <3> QED
      BY <2>1, <2>2, <3>1, <3>2 DEF DeployInv
  <2>3. CASE p # 0
    BY <1>1, <2>1, <2>3 DEF DeployInv
  <2> QED
    BY <2>2, <2>3
<1>6. ASSUME NEW p \in Process, CreateJobs(p) PROVE DeployInv'
  <2>1. /\ process[p].pc = "read" /\ process'[p].pc = "ended"
        /\ \A q \in Process : q # p => process'[q] = process[q]
        /\ UNCHANGED <<deploying, installed>>
    BY <1>6, EndSets DEF CreateJobs, deployVars
  <2> QED
    BY <1>1, <2>1 DEF DeployInv
<1>7. ASSUME Publish PROVE DeployInv'
  <2>1. /\ process'[0].pc = "launched" /\ process'[0].of = 2
        /\ \A q \in Process : q # 0 => process'[q] = process[q]
    BY <1>7, PublishSets
  <2>2. /\ deploying = "no" /\ deploying' = "publish" /\ installed' = {1, 2}
    BY <1>7 DEF Publish, DeployInv
  <2> QED
    BY <1>1, <2>1, <2>2 DEF DeployInv
<1>8. ASSUME DeploymentMoves PROVE DeployInv'
  <2>1. process' = process /\ process[0].pc = "ended" /\ deploying # "success"
    BY <1>8 DEF DeploymentMoves, CleanupOldDeployments, StoreDeploymentInfo,
       DeploymentFails, DeployInv
  <2>2. 2 \in installed'
    BY <1>8 DEF DeploymentMoves, CleanupOldDeployments, StoreDeploymentInfo,
       DeploymentFails, DeployInv
  <2>3. deploying' \in {"cleaned", "success", "failure"}
    BY <1>8 DEF DeploymentMoves, CleanupOldDeployments, StoreDeploymentInfo,
       DeploymentFails
  <2> QED
    BY <2>1, <2>2, <2>3 DEF DeployInv
<1>9. UNCHANGED <<process, deploying, installed>> => DeployInv'
  BY DEF DeployInv
<1> QED
  BY <1>2, <1>3, <1>4, <1>5, <1>6, <1>7, <1>8, <1>9
     DEF Next, Participant, Raises, DestroyMaterial, UpdateGateway,
         DeploymentMoves, vars, deployVars

-----------------------------------------------------------------------------
(* What has been sent, as long as no update has raced. *)

LEMMA RacedStays == [Next]_vars /\ ~raced' /\ Typed => ~raced
<1> SUFFICES ASSUME [Next]_vars, Typed, raced PROVE raced'
  OBVIOUS
<1>1. ASSUME NEW c \in Client, Request(c) PROVE raced'
  BY <1>1, RequestOpens DEF Open
<1>2. ASSUME NEW c \in Client, EndRequest(c) PROVE raced'
  BY <1>2, EndRequestSets
<1> QED
  BY <1>1, <1>2 DEF Next, Participant, ReadRoutes, BuildRoutesRaises,
     UpdateRaises, EndsInError, CreateJobs, DestroyMaterial, UpdateGateway,
     Publish, CleanupOldDeployments, StoreDeploymentInfo, DeploymentFails, vars,
     ghostVars

\* Nobody makes a failure good but who reads the routes.
LEMMA FailedStays ==
  ASSUME [Next]_vars, Typed, failed, ~failed'
  PROVE  \E p \in Process : ReadRoutes(p)
<1>1. ASSUME NEW c \in Client, Request(c) PROVE FALSE
  BY <1>1, RequestOpens DEF Open
<1>2. ASSUME NEW c \in Client, EndRequest(c) PROVE FALSE
  BY <1>2, EndRequestSets
<1> QED
  BY <1>1, <1>2 DEF Next, Participant, BuildRoutesRaises, UpdateRaises,
     CreateJobs, DestroyMaterial, UpdateGateway, Publish, CleanupOldDeployments,
     StoreDeploymentInfo, DeploymentFails, vars, ghostVars

\* The process of an open transaction could only run too early.
LEMMA StepWaits ==
  Typed /\ DeployInv /\ Waits /\ [Next]_vars /\ ~raced' => Waits'
<1> SUFFICES ASSUME Typed, DeployInv, Waits, [Next]_vars, ~raced' PROVE Waits'
  OBVIOUS
<1>1. ASSUME NEW c \in Client, Request(c) PROVE Waits'
  <2>1. PICK r : /\ Decided(r) /\ Open(c, r)
                 /\ Launch(c) \/ (r.on = {} /\ process' = process)
    BY <1>1, RequestOpens
  <2>2. CASE Launch(c)
    <3>1. PICK p \in Process \ {0} :
            /\ process[p].pc = "none"
            /\ process'[p].pc = "launched" /\ process'[p].by = c
            /\ \A q \in Process : q # p => process'[q] = process[q]
      BY <2>2, LaunchSets
    <3>2. ASSUME NEW d \in Client, d # c, request'[d].on # {}
          PROVE  \E q \in Process : process'[q].pc = "launched" /\ process'[q].by = d
      <4>1. PICK q \in Process : process[q].pc = "launched" /\ process[q].by = d
        BY <2>1, <3>2, OpenSets DEF Waits
      <4> QED
        BY <3>1, <4>1
    <3> QED
      BY <3>1, <3>2 DEF Waits
  <2>3. CASE r.on = {} /\ process' = process
    BY <2>1, <2>3, OpenSets DEF Waits
  <2> QED
    BY <2>1, <2>2, <2>3
<1>2. ASSUME NEW c \in Client, EndRequest(c) PROVE Waits'
  BY <1>2, EndRequestSets, NoRequestFields DEF Waits
<1>3. ASSUME NEW p \in Process, ReadRoutes(p) \/ Raises(p) PROVE Waits'
  <2>1. /\ ~TooEarly(p) /\ request' = request
        /\ \A q \in Process : q # p => process'[q] = process[q]
    BY <1>3, ReadSets, EndSets, RaiseSets DEF ReadRoutes
  <2>2. ASSUME NEW c \in Client, request[c].on # {}
        PROVE  \E q \in Process : process'[q].pc = "launched" /\ process'[q].by = c
    <3>1. PICK q \in Process : process[q].pc = "launched" /\ process[q].by = c
      BY <2>2 DEF Waits
    <3>2. q # p
      BY <2>1, <2>2, <3>1, NoRequestFields DEF TooEarly
    <3> QED
      BY <2>1, <3>1, <3>2
  <2> QED
    BY <2>1, <2>2 DEF Waits
<1>4. ASSUME NEW p \in Process, CreateJobs(p) PROVE Waits'
  <2>1. /\ process[p].pc = "read" /\ request' = request
        /\ \A q \in Process : q # p => process'[q] = process[q]
    BY <1>4, EndSets DEF CreateJobs
  <2> QED
    BY <2>1 DEF Waits
<1>5. ASSUME Publish PROVE Waits'
  <2>1. /\ process[0].pc = "none" /\ request' = request
        /\ \A q \in Process : q # 0 => process'[q] = process[q]
    BY <1>5, PublishSets DEF Publish, DeployInv
  <2> QED
    BY <2>1 DEF Waits
<1>6. UNCHANGED <<process, request>> => Waits'
  BY DEF Waits
<1> QED
  BY <1>1, <1>2, <1>3, <1>4, <1>5, <1>6
     DEF Next, Participant, Raises, DestroyMaterial, UpdateGateway,
         CleanupOldDeployments, StoreDeploymentInfo, DeploymentFails, vars

\* A process starts to read, ends, or nobody begins or ceases to read.
LEMMA StepReads ==
  ASSUME Typed, DeployInv, [Next]_vars
  PROVE  \/ \E p \in Process : ReadRoutes(p)
         \/ \E p \in Process : CreateJobs(p) \/ Raises(p)
         \/ /\ \A q \in Process : process'[q].pc = "read" <=> process[q].pc = "read"
            /\ \A q \in Process : process[q].pc = "read" => process'[q] = process[q]
<1> DEFINE Same ==
      \A q \in Process : /\ process'[q].pc = "read" <=> process[q].pc = "read"
                         /\ process[q].pc = "read" => process'[q] = process[q]
<1>1. ASSUME NEW c \in Client, Request(c) PROVE Same
  BY <1>1, RequestOpens, LaunchSets
<1>2. ASSUME NEW c \in Client, EndRequest(c) PROVE Same
  BY <1>2, EndRequestSets
<1>4. ASSUME Publish PROVE Same
  BY <1>4, PublishSets DEF DeployInv, Publish
<1>5. process' = process => Same
  OBVIOUS
<1> QED
  BY <1>1, <1>2, <1>4, <1>5
     DEF Next, Participant, Raises, DestroyMaterial, UpdateGateway,
         CleanupOldDeployments, StoreDeploymentInfo, DeploymentFails, vars

LEMMA StepOneReads ==
  Typed /\ DeployInv /\ OneReads /\ [Next]_vars /\ ~raced' => OneReads'
<1> SUFFICES ASSUME Typed, DeployInv, OneReads, [Next]_vars, ~raced' PROVE OneReads'
  OBVIOUS
<1>1. ASSUME NEW p \in Process, ReadRoutes(p) PROVE OneReads'
  <2>1. /\ \A q \in Process : process[q].pc # "read"
        /\ \A q \in Process : q # p => process'[q] = process[q]
    BY <1>1, ReadSets DEF ReadRoutes, BesideAnother
  <2> QED
    BY <2>1 DEF OneReads
<1>2. ASSUME NEW p \in Process, CreateJobs(p) \/ Raises(p) PROVE OneReads'
  <2>1. /\ process'[p].pc \in {"ended", "error"}
        /\ \A q \in Process : q # p => process'[q] = process[q]
    BY <1>2, EndSets
  <2> QED
    BY <2>1 DEF OneReads
<1> QED
  BY <1>1, <1>2, StepReads DEF OneReads

\* What a job says is what the gateway has been sent last; no other step changes
\* that, also the one in which the gateway applies it.
LEMMA JobSent ==
  ASSUME Typed, NEW p \in Process, CreateJobs(p)
  PROVE  /\ Sent'.routes = process[p].routes /\ Sent'.https = process[p].https
         /\ Sent'.to = IF process[p].of \in installed THEN process[p].of ELSE 0
<1> DEFINE job == [routes |-> process[p].routes, https |-> process[p].https,
                   to |-> IF process[p].of \in installed THEN process[p].of ELSE 0]
<1>1. process[p] \in ProcessRecord
  BY DEF Typed, ProcessTyped
<1>2. job \in Update
  BY <1>1 DEF ProcessRecord, Update, Deployment
<1>3. queue' = Append(queue, job)
  BY DEF CreateJobs
<1> HIDE DEF job
<1>4. queue' # <<>> /\ queue'[Len(queue')] = job
  BY <1>2, <1>3 DEF Typed
<1>5. Sent' = job
  BY <1>4 DEF Sent
<1> QED
  BY <1>5 DEF job

LEMMA AppliedSent ==
  ASSUME Typed, UpdateGateway
  PROVE  Sent' = Sent
<1>1. /\ queue \in Seq(Update) /\ queue # <<>>
      /\ gateway' = Head(queue) /\ queue' = Tail(queue)
  BY DEF UpdateGateway, Typed
<1>2. /\ Len(queue) \in Nat \ {0}
      /\ queue' \in Seq(Update) /\ Len(queue') = Len(queue) - 1
      /\ \A i \in 1..Len(queue') : queue'[i] = queue[i + 1]
      /\ gateway' = queue[1]
  BY <1>1, EmptySeq, HeadTailProperties
<1>3. CASE Len(queue) = 1
  <2>1. queue' = <<>>
    BY <1>2, <1>3, EmptySeq
  <2> QED
    BY <1>1, <1>2, <1>3, <2>1 DEF Sent
<1>4. CASE Len(queue) # 1
  <2>1. Len(queue') \in 1..Len(queue') /\ Len(queue') + 1 = Len(queue)
    BY <1>2, <1>4
  <2>2. queue' # <<>>
    BY <1>2, <1>4, EmptySeq
  <2>3. queue'[Len(queue')] = queue[Len(queue)]
    BY <1>2, <2>1
  <2> QED
    BY <1>1, <2>2, <2>3 DEF Sent
<1> QED
  BY <1>3, <1>4

LEMMA StepSent ==
  ASSUME Typed, [Next]_vars
  PROVE  Sent' = Sent \/ \E p \in Process : CreateJobs(p)
<1>1. UpdateGateway => Sent' = Sent
  BY AppliedSent
<1>2. ASSUME NEW c \in Client, Request(c) PROVE UNCHANGED <<queue, gateway>>
  BY <1>2, RequestOpens DEF Open, gatewayVars
<1>3. ASSUME NEW c \in Client, EndRequest(c) PROVE UNCHANGED <<queue, gateway>>
  BY <1>3, EndRequestSets
<1>4. UNCHANGED <<queue, gateway>> => Sent' = Sent
  BY DEF Sent
<1> QED
  BY <1>1, <1>2, <1>3, <1>4 DEF Next, Participant, ReadRoutes, BuildRoutesRaises,
     UpdateRaises, EndsInError, DestroyMaterial, Publish, CleanupOldDeployments,
     StoreDeploymentInfo, DeploymentFails, vars, gatewayVars

\* Who reads the routes makes good what has failed before.
LEMMA ReadSettles ==
  ASSUME Typed, NEW p \in Process, ReadRoutes(p), ~raced'
  PROVE  SentTo' /\ Fresh'
<1>1. /\ process'[p].pc = "read" /\ process'[p].routes = table
      /\ process'[p].https = https
      /\ \A q \in Process : process[q].pc # "read"
      /\ \A q \in Process : q # p => process'[q] = process[q]
  BY ReadSets DEF ReadRoutes, BesideAnother
<1>2. table' = table /\ https' = https
  BY DEF ReadRoutes, tableVars
<1> QED
  BY <1>1, <1>2 DEF SentTo, Fresh, Nobody

\* Deployment 2 is not overwritten: an update that was given deployment 1 before
\* would come too late.
LEMMA StepSentTo ==
  Typed /\ DeployInv /\ SentTo /\ [Next]_vars /\ ~raced' /\ ~failed' => SentTo'
<1> SUFFICES ASSUME Typed, DeployInv, SentTo, [Next]_vars, ~raced', ~failed'
             PROVE  SentTo'
  OBVIOUS
<1>1. 0 \in Process
  BY MaxUpdatesAssumption DEF Process
<1>2. deploying \in {"no", "publish", "cleaned", "success", "failure"}
  BY DEF Typed, DeployTyped
<1>3. ASSUME NEW p \in Process, CreateJobs(p) PROVE SentTo'
  <2>1. /\ process[p].pc = "read" /\ process'[p].pc = "ended"
        /\ \A q \in Process : q # p => process'[q] = process[q]
        /\ ~TooLate(p) /\ UNCHANGED <<deploying, installed>>
    BY <1>3, EndSets DEF CreateJobs, deployVars
  <2>2. process[p].of \in {1, 2}
    <3>1. process[p] \in ProcessRecord
      BY DEF Typed, ProcessTyped
    <3> QED
      BY <3>1 DEF ProcessRecord, Deployment
  <2>3. process[p].of = Due'
    <3>1. CASE p = 0
      BY <1>2, <2>1, <3>1 DEF DeployInv, Due
    <3>2. CASE p # 0 /\ process[p].of = 2
      BY <1>1, <2>1, <3>2 DEF DeployInv, Due
    <3>3. CASE p # 0 /\ process[p].of = 1
      BY <1>1, <2>1, <3>3 DEF TooLate, Due
    <3> QED
      BY <2>2, <3>1, <3>2, <3>3
  <2> QED
    BY <1>3, <2>1, <2>3, JobSent DEF SentTo, Hosts
<1>4. ASSUME Sent' = Sent, Nobody("read")' => Nobody("read"), Due' = Due,
             Due \in installed <=> Due \in installed'
      PROVE  SentTo'
  BY <1>4 DEF SentTo, Hosts
<1>5. ASSUME NEW c \in Client, Request(c)
      PROVE  (Nobody("read")' => Nobody("read")) /\ UNCHANGED <<Due, installed>>
  <2>1. UNCHANGED <<deploying, installed>>
    BY <1>5, RequestOpens DEF Open, deployVars
  <2>2. ASSUME NEW q \in Process
        PROVE  \/ process'[q] = process[q]
               \/ process[q].pc = "none" /\ process'[q].pc = "launched"
    BY <1>5, RequestOpens, LaunchSets
  <2> QED
    BY <1>1, <2>1, <2>2 DEF Nobody, Due
<1>6. ASSUME NEW p \in Process, ReadRoutes(p) PROVE SentTo'
  BY <1>6, ReadSettles
<1>7. ASSUME NEW p \in Process, Raises(p)
      PROVE  (Nobody("read")' => Nobody("read")) /\ UNCHANGED <<Due, installed>>
  <2>1. /\ process[p].pc = "launched" /\ process'[p].pc = "error"
        /\ \A q \in Process : q # p => process'[q] = process[q]
        /\ deploying' = IF p = 0 THEN "failure" ELSE deploying
        /\ installed' = installed
    BY <1>7, EndSets, RaiseSets
  <2> QED
    BY <1>1, <2>1 DEF Nobody, Due
<1>8. ASSUME Publish PROVE SentTo'
  <2>1. /\ process[0].pc = "none" /\ process'[0].pc = "launched"
        /\ \A q \in Process : q # 0 => process'[q] = process[q]
        /\ installed = {1} /\ installed' = {1, 2}
        /\ UNCHANGED <<queue, gateway>>
    BY <1>8, PublishSets DEF Publish, DeployInv, gatewayVars
  <2>2. Sent' = Sent
    BY <2>1 DEF Sent
  <2> QED
    BY <1>1, <1>4, <2>1, <2>2 DEF Nobody, Due
<1>9. ASSUME DeploymentMoves PROVE SentTo'
  <2>1. /\ process[0].pc = "ended" /\ deploying # "failure"
        /\ deploying' \in {"cleaned", "success"} /\ 2 \in installed
        /\ 2 \in installed' /\ UNCHANGED <<process, queue, gateway>>
    BY <1>9 DEF DeploymentMoves, CleanupOldDeployments, StoreDeploymentInfo,
       DeploymentFails, DeployInv, gatewayVars
  <2>2. Sent' = Sent
    BY <2>1 DEF Sent
  <2> QED
    BY <1>4, <2>1, <2>2 DEF Nobody, Due
<1>10. ASSUME UNCHANGED <<process, deploying, installed>>, Sent' = Sent PROVE SentTo'
  BY <1>4, <1>10 DEF Nobody, Due
<1>11. ASSUME NEW c \in Client, EndRequest(c)
       PROVE  UNCHANGED <<process, deploying, installed>>
  BY <1>11, EndRequestSets
<1>12. CASE \E p \in Process : CreateJobs(p)
  BY <1>3, <1>12
<1>13. CASE Sent' = Sent
  BY <1>4, <1>5, <1>6, <1>7, <1>3, <1>8, <1>9, <1>10, <1>11, <1>13
     DEF Next, Participant, Raises, DeploymentMoves, DestroyMaterial,
         UpdateGateway, vars, deployVars
<1> QED
  BY <1>12, <1>13, StepSent

\* A change that could be sent has launched a process that waits for it; a step
\* that launches none makes nothing sendable that was not before.
LEMMA StepFresh ==
  /\ Typed /\ RequestShape /\ MaterialOnce /\ DeployInv
  /\ Waits /\ OneReads /\ Fresh /\ [Next]_vars /\ ~raced' /\ ~failed'
  => Fresh'
<1> SUFFICES ASSUME Typed, RequestShape, MaterialOnce, DeployInv, Waits,
                    OneReads, Fresh, [Next]_vars, ~raced', ~failed',
                    Sound', Nobody("launched")'
             PROVE  /\ \A q \in Process : process'[q].pc = "read" =>
                         process'[q].routes = table' /\ process'[q].https = https'
                    /\ Nobody("read")' => Sent'.routes = table' /\ Sent'.https = https'
  BY DEF Fresh
<1> DEFINE Goal ==
      /\ \A q \in Process : process'[q].pc = "read" =>
           process'[q].routes = table' /\ process'[q].https = https'
      /\ Nobody("read")' => Sent'.routes = table' /\ Sent'.https = https'
\* Nothing is launched, read or sent, and the routes stay as they are.
<1>1. ASSUME process' = process, Sent' = Sent, table' = table, https' = https,
             Sound' => Sound
      PROVE  Goal
  BY <1>1 DEF Fresh, Nobody
<1>2. ASSUME NEW c \in Client, Request(c) PROVE Goal
  <2>1. PICK r : Open(c, r) /\ (Launch(c) \/ (r.on = {} /\ process' = process))
    BY <1>2, RequestOpens
  <2>2. ~Launch(c)
    BY LaunchSets DEF Nobody
  <2>3. Sent' = Sent
    BY <2>1 DEF Open, gatewayVars, Sent
  <2>4. Sound' => Sound
    BY <2>1 DEF Open, tableVars, Sound, Usable
  <2> QED
    BY <1>1, <2>1, <2>2, <2>3, <2>4 DEF Open, tableVars
<1>3. ASSUME NEW c \in Client, Commit(c) PROVE Goal
  <2> DEFINE r == request[c]
  <2>1. process' = process /\ Sent' = Sent /\ r # NoRequest
    BY <1>3 DEF Commit, gatewayVars, Sent
  <2>2. r.on = {}
    BY <2>1 DEF Waits, Nobody
  <2>3. table' = table
    BY <1>3, <2>2 DEF Commit
  <2>4. r.https \in {"same", "set", "clear"} /\ r.keyed \in {"same", "set", "clear"}
    <3>1. r \in RequestRecord
      BY DEF Typed, RequestTyped
    <3> QED
      BY <3>1 DEF RequestRecord, Write
  <2>5. https' = https /\ keyed' = keyed
    <3>1. https \subseteq table /\ keyed \subseteq table
      BY DEF Typed, TableTyped
    <3>2. With(https, r.on, r.https) = https /\ With(keyed, r.on, r.keyed) = keyed
      BY <2>2, <2>4 DEF With
    <3>3. https' = With(https, r.on, r.https) \intersect table'
      BY <1>3 DEF Commit, Written
    <3>4. keyed' = With(keyed, r.on, r.keyed) \intersect table'
      BY <1>3 DEF Commit, Written
    <3> QED
      BY <2>3, <3>1, <3>2, <3>3, <3>4
  <2>6. domain' => domain
    BY <1>3 DEF Commit
  <2>7. https # {} => material' = material
    BY <1>3 DEF Commit, MaterialOnce
  <2>8. Sound' => Sound
    BY <2>3, <2>5, <2>6, <2>7 DEF Sound, Usable
  <2> QED
    BY <1>1, <2>1, <2>3, <2>5, <2>8
<1>4. ASSUME NEW c \in Client, Rollback(c) PROVE Goal
  BY <1>1, <1>4 DEF Rollback, tableVars, gatewayVars, Sent, Sound, Usable
<1>5. ASSUME DestroyMaterial PROVE Goal
  <2>1. Sound' => Sound
    BY <1>5 DEF DestroyMaterial, Sound, Usable
  <2> QED
    BY <1>1, <1>5, <2>1 DEF DestroyMaterial, gatewayVars, Sent
<1>6. ASSUME NEW p \in Process, ReadRoutes(p) PROVE Goal
  BY <1>6, ReadSettles DEF Fresh
<1>7. ASSUME NEW p \in Process, Raises(p) PROVE FALSE
  <2>1. ~Sound
    BY <1>7, RaiseSets
  <2> QED
    BY <1>7, <2>1, RaiseSets DEF tableVars, Sound, Usable
<1>8. ASSUME NEW p \in Process, CreateJobs(p) PROVE Goal
  <2>1. /\ process[p].pc = "read" /\ process'[p].pc = "ended"
        /\ \A q \in Process : q # p => process'[q] = process[q]
    BY <1>8, EndSets
  <2>2. table' = table /\ https' = https /\ Sound
    BY <1>8 DEF CreateJobs, tableVars, Sound, Usable
  <2>3. Nobody("launched")
    BY <2>1 DEF Nobody
  <2>4. process[p].routes = table /\ process[p].https = https
    BY <2>1, <2>2, <2>3 DEF Fresh
  <2>5. \A q \in Process : process'[q].pc # "read"
    BY <2>1 DEF OneReads
  <2> QED
    BY <1>8, <2>2, <2>4, <2>5, JobSent
<1>9. ASSUME UpdateGateway PROVE Goal
  <2>1. Sent' = Sent
    BY <1>9, AppliedSent
  <2> QED
    BY <1>1, <1>9, <2>1 DEF UpdateGateway, tableVars, Sound, Usable
<1>10. ASSUME Publish PROVE FALSE
  BY <1>10, PublishSets DEF Nobody
<1>11. ASSUME DeploymentMoves \/ UNCHANGED vars PROVE Goal
  BY <1>1, <1>11 DEF DeploymentMoves, CleanupOldDeployments, StoreDeploymentInfo,
     DeploymentFails, vars, tableVars, gatewayVars, Sent, Sound, Usable
<1> QED
  BY <1>2, <1>3, <1>4, <1>5, <1>6, <1>7, <1>8, <1>9, <1>10, <1>11
     DEF Next, EndRequest, Participant, Raises, DeploymentMoves

-----------------------------------------------------------------------------
LEMMA InitInductive == Init => IInv
<1> SUFFICES ASSUME Init PROVE IInv
  OBVIOUS
<1> USE DEF Init
<1>1. \A p \in Process : process[p].pc = "none"
  BY DEF Idle
<1>2. \A c \in Client : request[c] = NoRequest
  OBVIOUS
<1>3. Typed
  <2>1. Idle \in ProcessRecord
    BY DEF Idle, ProcessRecord, Deployment
  <2>2. gateway \in Update
    BY DEF Update
  <2>3. TableTyped /\ DeployTyped
    BY DEF TableTyped, DeployTyped, Deployment
  <2>4. RequestTyped /\ ProcessTyped
    BY <2>1, NoRequestTyped DEF RequestTyped, ProcessTyped
  <2>5. queue \in Seq(Update)
    BY EmptySeq
  <2> QED
    BY <2>2, <2>3, <2>4, <2>5 DEF Typed
<1>4. QueueBounded
  BY ProcessesFinite, FS_Subset, FS_CardinalityType DEF QueueBounded
<1>5. RequestShape /\ MaterialOnce /\ SoundInv
  BY <1>2, NoRequestFields DEF RequestShape, MaterialOnce, SoundInv, Alone, Sound,
     LeavesSound
<1>6. DeployInv
  BY <1>1, MaxUpdatesAssumption DEF DeployInv, Process
<1>7. RaceInv
  BY <1>1, <1>2, NoRequestFields, MaxUpdatesAssumption DEF RaceInv, Waits,
     OneReads, SentTo, Hosts, Due, Sent, Fresh, Process
<1> QED
  BY <1>3, <1>4, <1>5, <1>6, <1>7, QueueFits DEF IInv

\* The invariant holds in every state of every behaviour.
THEOREM Inductive == Spec => []IInv
<1>1. IInv /\ [Next]_vars => IInv'
  <2> SUFFICES ASSUME IInv, [Next]_vars PROVE IInv'
    OBVIOUS
  <2>1. Typed /\ Typed'
    BY TypeParts, StepTyped DEF IInv
  <2>2. QueueBounded'
    BY <2>1, StepQueueBounded DEF IInv
  <2>3. TypeOK'
    BY <2>1, <2>2, QueueFits, PTL
  <2>4. RequestShape' /\ MaterialOnce' /\ SoundInv' /\ DeployInv'
    BY <2>1, StepRequestShape, StepMaterialOnce, StepSoundInv, StepDeployInv DEF IInv
  <2>5. RaceInv'
    <3>1. ASSUME ~raced' PROVE Waits' /\ OneReads'
      BY <2>1, <3>1, RacedStays, StepWaits, StepOneReads DEF IInv, RaceInv
    <3>2. ASSUME ~raced', ~failed' PROVE SentTo' /\ Fresh'
      <4>1. CASE failed
        BY <2>1, <3>2, <4>1, FailedStays, ReadSettles
      <4>2. CASE ~failed
        BY <2>1, <3>2, <4>2, RacedStays, StepSentTo, StepFresh DEF IInv, RaceInv
      <4> QED
        BY <4>1, <4>2
    <3> QED
      BY <3>1, <3>2 DEF RaceInv
  <2> QED
    BY <2>2, <2>3, <2>4, <2>5 DEF IInv
<1> QED
  BY InitInductive, <1>1, PTL DEF Spec

\* The variables keep their types, and the queue its bound.
THEOREM TypeCorrect == Spec => []TypeOK
BY Inductive, PTL DEF IInv

\* The routes can be sent as long as requests come one at a time and nobody
\* destroys the key of an https route.
THEOREM SentOneAtATime == Spec => []SentUnless
<1>1. IInv => SentUnless
  BY DEF IInv, SoundInv, SentUnless
<1> QED
  BY Inductive, <1>1, PTL

\* When all is quiet the gateway does what the table says, if no update ran too
\* early, beside another, or too late, and none was lost for good.
THEOREM FollowsUnlessRacedOrFailed == Spec => []GatewayFollows
<1>1. IInv => GatewayFollows
  <2> SUFFICES ASSUME IInv, Quiet, Sound, ~raced, ~failed PROVE gateway = Table
    BY DEF GatewayFollows
  <2>1. /\ Typed /\ DeployInv /\ SentTo /\ Fresh
    BY TypeParts DEF IInv, RaceInv
  <2>2. gateway.routes = table /\ gateway.https = https
    BY <2>1 DEF Quiet, Fresh, Nobody, Sent
  <2>3. gateway.to = IF Active \in installed THEN Active ELSE 0
    <3>1. Due = Active
      BY <2>1 DEF Quiet, DeployInv, Due, Active
    <3>2. Nobody("read")
      BY DEF Quiet, Nobody
    <3> QED
      BY <2>1, <3>1, <3>2 DEF Quiet, SentTo, Sent, Hosts
  <2>4. gateway \in Update
    BY <2>1 DEF Typed
  <2> QED
    BY <2>2, <2>3, <2>4 DEF Update, Table
<1> QED
  BY Inductive, <1>1, PTL
===============================================================================
