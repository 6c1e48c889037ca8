---------------------------- MODULE ServiceInstances ----------------------------
(***************************************************************************)
(* The instances of one service that gives each its port (Memcached), from *)
(* their creation to their end, and what the agent of the server learns of *)
(* them.  A row is created in one transaction: its insert, the choice of a *)
(* port by after_create, a second save inside the first, and one process   *)
(* launched by each of the two saves, which asks the agent to run the      *)
(* instance.  Its end is announced to the agent before the row is deleted. *)
(***************************************************************************)
EXTENDS Integers, Sequences

CONSTANTS Instance,            \* ids of rows
          PortMin, PortMax,    \* config of the service
          MaxSaves,            \* times a row is saved again (bound)
          MaxFails             \* requests that are rolled back (bound)

ASSUME PortAssumption ==
  PortMin \in Nat \ {0} /\ PortMax \in Nat /\ PortMin <= PortMax
ASSUME BoundsAssumption == MaxSaves \in Nat /\ MaxFails \in Nat

VARIABLES
  row,         \* where a row is
  port,        \* its port, 0 for nil
  saves,       \* times it was saved again
  fails,       \* requests that were rolled back
  launched,    \* update_service_instance processes that have not run yet
  queue,       \* jobs of the agent
  running,     \* the instances it runs, with their ports
  told,        \* instances for which there was an update job
  late,        \* ... after their undeploy job
  revived,     \* instances whose end was announced, and rolled back
  rivals       \* pairs of instances one of which took its port while the
               \* transaction of the other was open

rowVars == <<row, port, saves, fails>>
agentVars == <<queue, running>>
ghostVars == <<told, late, revived, rivals>>
vars == <<rowVars, launched, agentVars, ghostVars>>

Port == PortMin..PortMax
AnyPort == Port \union {0}
Job == [kind : {"update", "undeploy"}, id : Instance, port : AnyPort]
RowStates == {"none", "inserted", "present", "leaving", "gone"}

TypeOK ==
  /\ row \in [Instance -> RowStates]
  /\ port \in [Instance -> AnyPort]
  /\ saves \in [Instance -> 0..MaxSaves]
  /\ fails \in 0..MaxFails
  /\ launched \in [Instance -> Nat]
  /\ queue \in Seq(Job)
  /\ running \in SUBSET (Instance \X AnyPort)
  /\ told \in SUBSET Instance
  /\ late \in SUBSET Instance
  /\ revived \in SUBSET Instance
  /\ rivals \in SUBSET (Instance \X Instance)

Init ==
  /\ row = [i \in Instance |-> "none"]
  /\ port = [i \in Instance |-> 0]
  /\ saves = [i \in Instance |-> 0]
  /\ fails = 0
  /\ launched = [i \in Instance |-> 0]
  /\ queue = <<>>
  /\ running = {}
  /\ told = {}
  /\ late = {}
  /\ revived = {}
  /\ rivals = {}

-----------------------------------------------------------------------------
(* Creation. *)

Committed(i) == row[i] \in {"present", "leaving"}
Open(i) == row[i] = "inserted"

\* Mutant: the ports of instances that are about to go count as free.
UsedPortsPresent == {port[j] : j \in {k \in Instance : row[k] = "present"}}

\* set_instance_connectiondata reads the ports of the committed rows.
UsedPorts == {port[j] : j \in {k \in Instance : Committed(k)}}

FreePorts == Port \ UsedPorts

UpdateJob(i) == [kind |-> "update", id |-> i, port |-> port[i]]
UndeployJob(i) == [kind |-> "undeploy", id |-> i, port |-> port[i]]

\* The row is inserted, takes the lowest free port, and is saved with it by
\* after_create; after_save follows each of the two saves.
Insert(i) ==
  /\ row[i] = "none"
  /\ \E p \in FreePorts :
       /\ \A q \in FreePorts : p <= q
       /\ port' = [port EXCEPT ![i] = p]
  /\ row' = [row EXCEPT ![i] = "inserted"]
  /\ launched' = [launched EXCEPT ![i] = @ + 2]
  /\ rivals' = rivals \union ({i} \X {j \in Instance : Open(j)})
  /\ UNCHANGED <<saves, fails, agentVars, told, late, revived>>

\* Without a free port it destroys itself, which creates an undeploy job, and
\* raises: the transaction is rolled back, the job is not.
InsertExhausted(i) ==
  /\ row[i] = "none"
  /\ FreePorts = {}
  /\ row' = [row EXCEPT ![i] = "gone"]
  /\ queue' = Append(queue, UndeployJob(i))
  /\ UNCHANGED <<port, saves, fails, launched, running, ghostVars>>

CommitCreate(i) ==
  /\ row[i] = "inserted"
  /\ row' = [row EXCEPT ![i] = "present"]
  /\ UNCHANGED <<port, saves, fails, launched, agentVars, ghostVars>>

\* The worker is killed.
RollbackCreate(i) ==
  /\ Open(i)
  /\ fails < MaxFails
  /\ fails' = fails + 1
  /\ row' = [row EXCEPT ![i] = "gone"]
  /\ UNCHANGED <<port, saves, launched, agentVars, ghostVars>>

\* PUT: nothing the agent is told changes.
Save(i) ==
  /\ row[i] = "present"
  /\ saves[i] < MaxSaves
  /\ saves' = [saves EXCEPT ![i] = @ + 1]
  /\ launched' = [launched EXCEPT ![i] = @ + 1]
  /\ UNCHANGED <<row, port, fails, agentVars, ghostVars>>

-----------------------------------------------------------------------------
(* The participant update_service_instance, and the agent. *)

UpdateServiceInstance(i) ==
  /\ launched[i] > 0
  /\ launched' = [launched EXCEPT ![i] = @ - 1]
  /\ Committed(i)
  /\ queue' = Append(queue, UpdateJob(i))
  /\ told' = told \union {i}
  /\ late' = IF row[i] = "leaving" THEN late \union {i} ELSE late
  /\ UNCHANGED <<rowVars, running, revived, rivals>>

\* ServiceInstance.find does not see the row, yet or any more.
FindRaises(i) ==
  /\ launched[i] > 0
  /\ launched' = [launched EXCEPT ![i] = @ - 1]
  /\ ~Committed(i)
  /\ UNCHANGED <<rowVars, agentVars, ghostVars>>

\* The jobs of a server are taken in turn.
Perform ==
  /\ queue # <<>>
  /\ LET job == Head(queue) IN
       running' = IF job.kind = "update"
                  THEN running \union {<<job.id, job.port>>}
                  ELSE running \ ({job.id} \X AnyPort)
  /\ queue' = Tail(queue)
  /\ UNCHANGED <<rowVars, launched, ghostVars>>

-----------------------------------------------------------------------------
(* The end. *)

\* Mutant: the agent is told when the row is gone.
DestroyTellLater(i) ==
  /\ row[i] = "present"
  /\ row' = [row EXCEPT ![i] = "leaving"]
  /\ UNCHANGED <<port, saves, fails, launched, agentVars, ghostVars>>

\* before_destroy: delete_from_agents.
Destroy(i) ==
  /\ row[i] = "present"
  /\ row' = [row EXCEPT ![i] = "leaving"]
  /\ queue' = Append(queue, UndeployJob(i))
  /\ UNCHANGED <<port, saves, fails, launched, running, ghostVars>>

CommitDestroy(i) ==
  /\ row[i] = "leaving"
  /\ row' = [row EXCEPT ![i] = "gone"]
  /\ UNCHANGED <<port, saves, fails, launched, agentVars, ghostVars>>

RollbackDestroy(i) ==
  /\ row[i] = "leaving"
  /\ fails < MaxFails
  /\ fails' = fails + 1
  /\ row' = [row EXCEPT ![i] = "present"]
  /\ revived' = revived \union {i}
  /\ UNCHANGED <<port, saves, launched, agentVars, told, late, rivals>>

-----------------------------------------------------------------------------
Request(i) ==
  \/ Insert(i) \/ InsertExhausted(i) \/ CommitCreate(i)
  \/ RollbackCreate(i) \/ Save(i)
  \/ Destroy(i) \/ CommitDestroy(i) \/ RollbackDestroy(i)

Participant(i) == UpdateServiceInstance(i) \/ FindRaises(i)

Next == Perform \/ \E i \in Instance : Request(i) \/ Participant(i)

Spec == Init /\ [][Next]_vars

-----------------------------------------------------------------------------
(* Properties. *)

Rivals(i, j) == <<i, j>> \in rivals \/ <<j, i>> \in rivals

\* Two instances in the table have a port in common only if one was created
\* while the transaction of the other was open.
PortsDistinct ==
  \A i, j \in Instance :
    Committed(i) /\ Committed(j) /\ port[i] = port[j] => i = j \/ Rivals(i, j)

\* The port of an instance that goes is given to a new one at once.  The agent
\* still never runs two instances on one port, since it hears of the end before
\* the row is deleted -- but for rivals, and for an instance that a late update
\* process has brought back.
NoPortClash ==
  \A e, f \in running :
    e[2] = f[2] => e = f \/ Rivals(e[1], f[1]) \/ {e[1], f[1]} \cap late # {}

\* When nothing is under way, the agent runs what is in the table: all it was
\* ever told of, unless the end of one was announced and rolled back; and
\* nothing else, unless an update process was slower than the end.
Quiet ==
  /\ queue = <<>>
  /\ \A i \in Instance :
       row[i] \in {"none", "present", "gone"} /\ launched[i] = 0
AgentFollows ==
  Quiet =>
    \A i \in Instance :
      /\ row[i] = "present" /\ i \in told =>
           <<i, port[i]>> \in running \/ i \in revived
      /\ row[i] # "present" =>
           i \in late \/ \A p \in AnyPort : <<i, p>> \notin running
=============================================================================
