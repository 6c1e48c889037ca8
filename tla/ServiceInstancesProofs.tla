------------------------ MODULE ServiceInstancesProofs ------------------------
(***************************************************************************)
(* Proofs about ServiceInstances: the ports of the instances in the table  *)
(* differ, but for those of instances created at the same time.            *)
(***************************************************************************)
EXTENDS ServiceInstances, SequenceTheorems, TLAPS

USE DEF RowStates, Committed, Open, Rivals

\* An instance takes a port no row in the table has, and becomes the rival of
\* every open one: what holds of the rows in the table holds of open ones too.
Live(i) == Open(i) \/ Committed(i)
LivePortsDistinct ==
  \A i, j \in Instance :
    Live(i) /\ Live(j) /\ port[i] = port[j] => i = j \/ Rivals(i, j)

\* What the agent runs and what its queue holds, in the order in which it
\* takes effect: position 0 is now, position k the k-th job.
At == 0..Len(queue)
Runs(k, i) == IF k = 0 THEN \E p \in AnyPort : <<i, p>> \in running
                       ELSE queue[k].kind = "update" /\ queue[k].id = i
Stops(k, i) == k # 0 /\ queue[k].kind = "undeploy" /\ queue[k].id = i

\* The agent hears of committed rows only, and of their port.
JobsTrue ==
  /\ \A i \in Instance, k \in At :
       row[i] \in {"none", "inserted"} => ~Runs(k, i) /\ ~Stops(k, i)
  /\ \A i \in Instance, p \in AnyPort : <<i, p>> \in running => p = port[i]
  /\ \A k \in 1..Len(queue) :
       queue[k].kind = "update" => queue[k].port = port[queue[k].id]

\* An instance that is about to go, or gone, has its undeploy job behind all
\* that makes it run, unless an update process was late.
EndAnnounced ==
  \A i \in Instance, k \in At :
    row[i] \in {"leaving", "gone"} /\ i \notin late /\ Runs(k, i) =>
      \E m \in At : k < m /\ Stops(m, i)

\* Between two instances on one port the agent stops the first.
Separated ==
  \A i, j \in Instance :
    port[i] = port[j] /\ i # j /\ {i, j} \cap late = {} =>
      \/ Rivals(i, j)
      \/ /\ ~(Runs(0, i) /\ Runs(0, j))
         /\ \A k, l \in At :
              k < l /\ Runs(k, i) /\ Runs(l, j) =>
                \E m \in At : k < m /\ m < l /\ Stops(m, i)

\* An instance whose end nobody has begun is not stopped, and runs in the end
\* if the agent was ever told of it.
ToldRuns ==
  \A i \in Instance \ revived :
    row[i] \in {"none", "inserted", "present"} =>
      /\ \A k \in At : ~Stops(k, i)
      /\ i \in told => \E k \in At : Runs(k, i)

QueueInv == JobsTrue /\ EndAnnounced /\ Separated /\ ToldRuns
IInv == TypeOK /\ LivePortsDistinct /\ QueueInv

LEMMA InitInductive == Init => IInv
  BY BoundsAssumption DEF Init, IInv, TypeOK, LivePortsDistinct, Live, QueueInv,
     JobsTrue, EndAnnounced, Separated, ToldRuns, At, Runs, Stops, AnyPort

\* What is taken from a queue, and what stays there.
LEMMA TakeFromQueue ==
  ASSUME NEW S, NEW q \in Seq(S), q # <<>>
  PROVE  Tail(q) \in Seq(S) /\ Head(q) \in S
  OBVIOUS

\* Every step keeps the types.
LEMMA StepTypes == TypeOK /\ [Next]_vars => TypeOK'
<1> SUFFICES ASSUME TypeOK, [Next]_vars PROVE TypeOK'
  OBVIOUS
<1> USE PortAssumption, BoundsAssumption DEF TypeOK, Port, AnyPort, Job
<1>1. ASSUME NEW i \in Instance, Insert(i) PROVE TypeOK'
  BY <1>1 DEF Insert, FreePorts, agentVars
<1>2. ASSUME NEW i \in Instance, InsertExhausted(i) PROVE TypeOK'
  <2>1. UndeployJob(i) \in Job
    BY DEF UndeployJob
  <2> QED
    BY <1>2, <2>1 DEF InsertExhausted, ghostVars
<1>3. ASSUME NEW i \in Instance, CommitCreate(i) PROVE TypeOK'
  BY <1>3 DEF CommitCreate, agentVars, ghostVars
<1>4. ASSUME NEW i \in Instance, RollbackCreate(i) PROVE TypeOK'
  BY <1>4 DEF RollbackCreate, agentVars, ghostVars
<1>5. ASSUME NEW i \in Instance, Save(i) PROVE TypeOK'
  <2>1. saves'[i] \in 0..MaxSaves /\ launched'[i] \in Nat
    BY <1>5 DEF Save
  <2> QED
    BY <1>5, <2>1 DEF Save, agentVars, ghostVars
<1>6. ASSUME NEW i \in Instance, Destroy(i) PROVE TypeOK'
  <2>1. UndeployJob(i) \in Job
    BY DEF UndeployJob
  <2> QED
    BY <1>6, <2>1 DEF Destroy, ghostVars
<1>7. ASSUME NEW i \in Instance, CommitDestroy(i) PROVE TypeOK'
  BY <1>7 DEF CommitDestroy, agentVars, ghostVars
<1>8. ASSUME NEW i \in Instance, RollbackDestroy(i) PROVE TypeOK'
  BY <1>8 DEF RollbackDestroy, agentVars
<1>9. ASSUME NEW i \in Instance, UpdateServiceInstance(i) PROVE TypeOK'
  <2>1. UpdateJob(i) \in Job
    BY DEF UpdateJob
  <2> QED
    BY <1>9, <2>1 DEF UpdateServiceInstance, rowVars
<1>10. ASSUME NEW i \in Instance, FindRaises(i) PROVE TypeOK'
  <2>1. launched'[i] \in Nat
    BY <1>10 DEF FindRaises
  <2> QED
    BY <1>10, <2>1 DEF FindRaises, rowVars, agentVars, ghostVars
<1>11. ASSUME Perform PROVE TypeOK'
  <2>1. Tail(queue) \in Seq(Job) /\ Head(queue) \in Job
    BY <1>11, TakeFromQueue, Zenon DEF Perform
  <2>2. <<Head(queue).id, Head(queue).port>> \in Instance \X AnyPort
    BY <2>1
  <2>3. \/ running' = running \union {<<Head(queue).id, Head(queue).port>>}
        \/ running' = running \ ({Head(queue).id} \X AnyPort)
    BY <1>11 DEF Perform
  <2>4. running' \in SUBSET (Instance \X AnyPort)
    BY <2>2, <2>3
  <2> QED
    BY <1>11, <2>1, <2>4 DEF Perform, rowVars, ghostVars
<1>12. CASE UNCHANGED vars
  BY <1>12 DEF vars, rowVars, agentVars, ghostVars
<1> QED
  BY <1>1, <1>2, <1>3, <1>4, <1>5, <1>6, <1>7, <1>8, <1>9, <1>10, <1>11,
     <1>12 DEF Next, Request, Participant

\* Only an insert gives a port or opens a row; no rival is ever forgotten.
LEMMA StepPorts ==
  TypeOK /\ LivePortsDistinct /\ [Next]_vars => LivePortsDistinct'
<1> SUFFICES ASSUME TypeOK, LivePortsDistinct, [Next]_vars
             PROVE  LivePortsDistinct'
  OBVIOUS
<1> USE DEF TypeOK, LivePortsDistinct, Live, Port, AnyPort
<1>1. ASSUME NEW i \in Instance, Insert(i) PROVE LivePortsDistinct'
  <2>1. /\ port'[i] \in FreePorts
        /\ \A j \in Instance \ {i} : port'[j] = port[j] /\ row'[j] = row[j]
        /\ rivals' = rivals \union ({i} \X {j \in Instance : Open(j)})
    BY <1>1 DEF Insert
  <2>2. \A j \in Instance \ {i} :
          Live(j) /\ port[j] = port'[i] => <<i, j>> \in rivals'
    BY <2>1 DEF FreePorts, UsedPorts
  <2> QED
    BY <2>1, <2>2
<1>2. ASSUME \A j \in Instance : port'[j] = port[j] /\ (Live(j)' => Live(j)),
             rivals' = rivals
      PROVE  LivePortsDistinct'
  BY <1>2
<1>3. ASSUME NEW i \in Instance,
             \/ InsertExhausted(i) \/ CommitCreate(i) \/ RollbackCreate(i)
             \/ Destroy(i) \/ CommitDestroy(i) \/ RollbackDestroy(i)
      PROVE  LivePortsDistinct'
  BY <1>2, <1>3 DEF InsertExhausted, CommitCreate, RollbackCreate,
     Destroy, CommitDestroy, RollbackDestroy, ghostVars
<1>4. ASSUME NEW i \in Instance,
             Save(i) \/ UpdateServiceInstance(i) \/ FindRaises(i)
      PROVE  LivePortsDistinct'
  BY <1>2, <1>4 DEF Save, UpdateServiceInstance, FindRaises, rowVars,
     ghostVars
<1>5. ASSUME Perform \/ UNCHANGED vars PROVE LivePortsDistinct'
  BY <1>2, <1>5 DEF Perform, vars, rowVars, ghostVars
<1> QED
  BY <1>1, <1>3, <1>4, <1>5 DEF Next, Request, Participant

\* A job is for an instance, with its port.
LEMMA JobParts ==
  /\ \A job \in Job : /\ job.kind \in {"update", "undeploy"}
                      /\ job.id \in Instance /\ job.port \in AnyPort
  /\ \A i \in Instance : TypeOK => UpdateJob(i) \in Job /\ UndeployJob(i) \in Job
  BY DEF Job, TypeOK, UpdateJob, UndeployJob

-----------------------------------------------------------------------------
(* The queue of the agent. *)

\* A job is appended: what was to happen stays, the job comes last.
LEMMA AppendJob ==
  ASSUME TypeOK, NEW job \in Job, queue' = Append(queue, job),
         running' = running, NEW n \in Nat, n = Len(queue) + 1
  PROVE  /\ Len(queue') = n /\ n \in At' /\ At \subseteq At' /\ 0 \in At
         /\ \A k \in At : k < n
         /\ \A k \in At' : k # n => k \in At
         /\ \A k \in At, i \in Instance :
              (Runs(k, i)' <=> Runs(k, i)) /\ (Stops(k, i)' <=> Stops(k, i))
         /\ \A i \in Instance :
              /\ Runs(n, i)' <=> job.kind = "update" /\ job.id = i
              /\ Stops(n, i)' <=> job.kind = "undeploy" /\ job.id = i
         /\ \A k \in 1..Len(queue') :
              \/ k \in 1..Len(queue) /\ queue'[k] = queue[k]
              \/ k = n /\ queue'[k] = job
<1>1. queue \in Seq(Job) /\ Len(queue) \in Nat
  BY DEF TypeOK
<1>2. /\ Len(queue') = n
      /\ \A k \in 1..Len(queue) : queue'[k] = queue[k]
      /\ queue'[n] = job
  BY <1>1
<1>3. /\ n \in At' /\ At \subseteq At' /\ 0 \in At
      /\ \A k \in At : k < n
      /\ \A k \in At' : k # n => k \in At
      /\ \A k \in At : k # 0 => k \in 1..Len(queue)
      /\ n # 0
  BY <1>1, <1>2 DEF At
<1>4. \A k \in At, i \in Instance :
        (Runs(k, i)' <=> Runs(k, i)) /\ (Stops(k, i)' <=> Stops(k, i))
  BY <1>2, <1>3 DEF Runs, Stops
<1>5. \A i \in Instance :
        /\ Runs(n, i)' <=> job.kind = "update" /\ job.id = i
        /\ Stops(n, i)' <=> job.kind = "undeploy" /\ job.id = i
  BY <1>2, <1>3 DEF Runs, Stops
<1>6. \A k \in 1..Len(queue') :
        \/ k \in 1..Len(queue) /\ queue'[k] = queue[k]
        \/ k = n /\ queue'[k] = job
  BY <1>1, <1>2
<1> QED
  BY <1>2, <1>3, <1>4, <1>5, <1>6

\* A job is performed: what was to happen comes one position nearer.
LEMMA PerformJob ==
  ASSUME TypeOK, Perform
  PROVE  /\ Len(queue) \in Nat \ {0} /\ Len(queue') = Len(queue) - 1
         /\ \A k \in 1..Len(queue'), i \in Instance :
              /\ Runs(k, i)' <=> Runs(k + 1, i)
              /\ Stops(k, i)' <=> Stops(k + 1, i)
         /\ \A i \in Instance :
              /\ Runs(0, i)' <=> Runs(1, i) \/ (Runs(0, i) /\ ~Stops(1, i))
              /\ ~Stops(0, i)
              /\ ~Stops(0, i)'
         /\ \A k \in 1..Len(queue') : queue'[k] = queue[k + 1]
         /\ \A i \in Instance, p \in AnyPort : <<i, p>> \in running' =>
              \/ <<i, p>> \in running
              \/ Runs(1, i) /\ p = queue[1].port
<1>1. queue \in Seq(Job) /\ queue # <<>> /\ Len(queue) \in Nat \ {0}
  BY DEF TypeOK, Perform
<1>2. /\ Len(queue') = Len(queue) - 1
      /\ \A k \in 1..Len(queue') : queue'[k] = queue[k + 1]
  BY <1>1 DEF Perform
<1>3. queue[1] \in Job /\ Head(queue) = queue[1]
  BY <1>1, HeadTailProperties
<1>4. \A k \in 1..Len(queue'), i \in Instance :
        /\ Runs(k, i)' <=> Runs(k + 1, i)
        /\ Stops(k, i)' <=> Stops(k + 1, i)
  BY <1>1, <1>2 DEF Runs, Stops
<1>5. queue[1].kind \in {"update", "undeploy"} /\ queue[1].port \in AnyPort
  BY <1>3, JobParts
<1>6. running' = IF queue[1].kind = "update"
                 THEN running \union {<<queue[1].id, queue[1].port>>}
                 ELSE running \ ({queue[1].id} \X AnyPort)
  BY <1>3 DEF Perform
<1>7. \A i \in Instance, p \in AnyPort : <<i, p>> \in running' <=>
        \/ <<i, p>> \in running /\ ~Stops(1, i)
        \/ Runs(1, i) /\ p = queue[1].port
  <2>1. CASE queue[1].kind = "update"
    BY <1>6, <2>1 DEF Runs, Stops
  <2>2. CASE queue[1].kind = "undeploy"
    BY <1>6, <2>2 DEF Runs, Stops
  <2> QED
    BY <1>5, <2>1, <2>2
<1>8. \A i \in Instance :
        Runs(0, i)' <=> Runs(1, i) \/ (Runs(0, i) /\ ~Stops(1, i))
  BY <1>5, <1>7 DEF Runs
<1>9. \A i \in Instance : ~Stops(0, i) /\ ~Stops(0, i)'
  BY DEF Stops
<1> QED
  BY <1>1, <1>2, <1>4, <1>7, <1>8, <1>9

\* A row moves on, or is saved, and the agent is left alone.
LEMMA RowMoves ==
  ASSUME IInv, NEW i \in Instance,
         \/ Insert(i) \/ CommitCreate(i) \/ RollbackCreate(i) \/ Save(i)
         \/ CommitDestroy(i) \/ RollbackDestroy(i) \/ FindRaises(i)
  PROVE  QueueInv'
<1>0. UNCHANGED <<queue, running>> /\ Len(queue) \in Nat
  BY DEF IInv, TypeOK, Insert, CommitCreate, RollbackCreate, Save, CommitDestroy,
     RollbackDestroy, FindRaises, agentVars
<1>1. /\ At' = At
      /\ \A k \in At, j \in Instance :
           (Runs(k, j)' <=> Runs(k, j)) /\ (Stops(k, j)' <=> Stops(k, j))
      /\ 0 \in At /\ \A k \in 1..Len(queue) : k \in At /\ k # 0
  BY <1>0 DEF At, Runs, Stops
<1> USE DEF IInv, QueueInv, TypeOK
<1>2. ASSUME Insert(i) PROVE QueueInv'
  <2>1. /\ row[i] = "none" /\ row'[i] = "inserted"
        /\ \A j \in Instance \ {i} : row'[j] = row[j] /\ port'[j] = port[j]
        /\ UNCHANGED <<queue, running, told, late, revived>>
        /\ rivals \subseteq rivals'
    BY <1>2 DEF Insert, agentVars
  <2>2. \A k \in At : ~Runs(k, i) /\ ~Stops(k, i)
    BY <2>1 DEF JobsTrue
  <2>3. \A p \in AnyPort : <<i, p>> \notin running
    BY <1>1, <2>2 DEF Runs
  <2>4. \A k \in 1..Len(queue) : queue[k].kind = "update" => queue[k].id # i
    BY <1>1, <2>2 DEF Runs
  <2>5. \A k \in 1..Len(queue) : queue[k] \in Job
    OBVIOUS
  <2>6. JobsTrue'
    <3>1. \A k \in 1..Len(queue) : queue[k].id \in Instance
      BY <2>5, JobParts
    <3>2. \A k \in 1..Len(queue') : queue'[k].kind = "update" =>
            queue'[k].port = port'[queue'[k].id]
      BY <2>1, <2>4, <3>1 DEF JobsTrue
    <3>3. \A j \in Instance, p \in AnyPort : <<j, p>> \in running' => p = port'[j]
      BY <2>1, <2>3 DEF JobsTrue
    <3>4. \A j \in Instance, k \in At' :
            row'[j] \in {"none", "inserted"} => ~Runs(k, j)' /\ ~Stops(k, j)'
      BY <1>1, <2>1, <2>2 DEF JobsTrue
    <3> QED
      BY <3>2, <3>3, <3>4 DEF JobsTrue
  <2>7. EndAnnounced'
    BY <1>1, <2>1 DEF EndAnnounced
  <2>8. Separated'
    BY <1>1, <2>1, <2>2 DEF Separated
  <2>9. ToldRuns'
    BY <1>1, <2>1, <2>2 DEF ToldRuns
  <2> QED
    BY <2>6, <2>7, <2>8, <2>9
<1>3. ASSUME ~Insert(i) PROVE QueueInv'
  <2>1. /\ UNCHANGED <<port, queue, running, told, late, rivals>>
        /\ revived \subseteq revived'
        /\ \A j \in Instance \ {i} : row'[j] = row[j]
        /\ \/ row'[i] = row[i]
           \/ row[i] = "inserted" /\ row'[i] \in {"present", "gone"}
           \/ row[i] = "leaving" /\ row'[i] = "gone"
           \/ row[i] = "leaving" /\ row'[i] = "present" /\ i \in revived'
    BY <1>3 DEF CommitCreate, RollbackCreate, Save, CommitDestroy,
       RollbackDestroy, FindRaises, rowVars, agentVars, ghostVars
  <2>2. JobsTrue'
    BY <1>1, <2>1 DEF JobsTrue
  <2>3. EndAnnounced'
    BY <1>1, <2>1 DEF EndAnnounced, JobsTrue
  <2>4. Separated'
    BY <1>1, <2>1 DEF Separated
  <2>5. ToldRuns'
    BY <1>1, <2>1 DEF ToldRuns
  <2> QED
    BY <2>2, <2>3, <2>4, <2>5
<1> QED
  BY <1>2, <1>3

\* The end of an instance is announced, or that of one that got no port.
LEMMA EndMoves ==
  ASSUME IInv, NEW i \in Instance, InsertExhausted(i) \/ Destroy(i)
  PROVE  QueueInv'
<1>t. TypeOK /\ Len(queue) \in Nat
  BY DEF IInv, TypeOK
<1>1. /\ queue' = Append(queue, UndeployJob(i))
      /\ UNCHANGED <<port, running, told, late, revived, rivals>>
      /\ \A j \in Instance \ {i} : row'[j] = row[j]
      /\ \/ row[i] = "none" /\ row'[i] = "gone"
         \/ row[i] = "present" /\ row'[i] = "leaving"
  BY <1>t DEF InsertExhausted, Destroy, ghostVars, TypeOK
<1>2. UndeployJob(i) \in Job /\ UndeployJob(i).kind = "undeploy"
      /\ UndeployJob(i).id = i
  BY <1>t, JobParts DEF UndeployJob
<1>0. PICK n \in Nat : n = Len(queue) + 1
  BY <1>t
<1>3. /\ Len(queue') = n /\ n \in At' /\ At \subseteq At' /\ 0 \in At
      /\ \A k \in At : k < n
      /\ \A k \in At' : k # n => k \in At
      /\ \A k \in At, j \in Instance :
           (Runs(k, j)' <=> Runs(k, j)) /\ (Stops(k, j)' <=> Stops(k, j))
      /\ \A j \in Instance : ~Runs(n, j)' /\ (Stops(n, j)' <=> j = i)
      /\ \A k \in 1..Len(queue') :
           \/ k \in 1..Len(queue) /\ queue'[k] = queue[k]
           \/ k = n /\ queue'[k] = UndeployJob(i)
  <2>1. queue' = Append(queue, UndeployJob(i)) /\ running' = running
    BY <1>1
  <2> HIDE DEF UndeployJob
  <2> QED
    BY <1>t, <1>0, <1>2, <2>1, AppendJob
<1> USE DEF IInv, QueueInv, TypeOK
<1>4. JobsTrue'
  <2>1. \A j \in Instance, k \in At' :
          row'[j] \in {"none", "inserted"} => ~Runs(k, j)' /\ ~Stops(k, j)'
    BY <1>1, <1>3 DEF JobsTrue
  <2>2. \A k \in 1..Len(queue') : queue'[k].kind = "update" =>
          queue'[k].port = port'[queue'[k].id]
    BY <1>1, <1>2, <1>3 DEF JobsTrue
  <2> QED
    BY <1>1, <2>1, <2>2 DEF JobsTrue
<1>5. EndAnnounced'
  BY <1>1, <1>3 DEF EndAnnounced
<1>6. Separated'
  BY <1>1, <1>3 DEF Separated
<1>7. ToldRuns'
  BY <1>1, <1>3 DEF ToldRuns
<1> QED
  BY <1>4, <1>5, <1>6, <1>7

\* The agent is told to run an instance.
LEMMA UpdateMoves ==
  ASSUME IInv, NEW i \in Instance, UpdateServiceInstance(i)
  PROVE  QueueInv'
<1>t. TypeOK /\ Len(queue) \in Nat
  BY DEF IInv, TypeOK
<1>1. /\ queue' = Append(queue, UpdateJob(i))
      /\ UNCHANGED <<row, port, running, revived, rivals>>
      /\ row[i] \in {"present", "leaving"}
      /\ told' = told \union {i}
      /\ late' = IF row[i] = "leaving" THEN late \union {i} ELSE late
  BY DEF UpdateServiceInstance, rowVars
<1>2. /\ UpdateJob(i) \in Job /\ UpdateJob(i).kind = "update"
      /\ UpdateJob(i).id = i /\ UpdateJob(i).port = port[i]
  BY <1>t, JobParts DEF UpdateJob
<1>0. PICK n \in Nat : n = Len(queue) + 1
  BY <1>t
<1>3. /\ Len(queue') = n /\ n \in At' /\ At \subseteq At' /\ 0 \in At
      /\ \A k \in At : k < n
      /\ \A k \in At' : k # n => k \in At
      /\ \A k \in At, j \in Instance :
           (Runs(k, j)' <=> Runs(k, j)) /\ (Stops(k, j)' <=> Stops(k, j))
      /\ \A j \in Instance : (Runs(n, j)' <=> j = i) /\ ~Stops(n, j)'
      /\ \A k \in 1..Len(queue') :
           \/ k \in 1..Len(queue) /\ queue'[k] = queue[k]
           \/ k = n /\ queue'[k] = UpdateJob(i)
  <2>1. queue' = Append(queue, UpdateJob(i)) /\ running' = running
    BY <1>1
  <2> HIDE DEF UpdateJob
  <2> QED
    BY <1>t, <1>0, <1>2, <2>1, AppendJob
<1> USE DEF IInv, QueueInv, TypeOK
<1>4. JobsTrue'
  <2>1. \A j \in Instance, k \in At' :
          row'[j] \in {"none", "inserted"} => ~Runs(k, j)' /\ ~Stops(k, j)'
    BY <1>1, <1>3 DEF JobsTrue
  <2>2. \A k \in 1..Len(queue') : queue'[k].kind = "update" =>
          queue'[k].port = port'[queue'[k].id]
    BY <1>1, <1>2, <1>3 DEF JobsTrue
  <2> QED
    BY <1>1, <2>1, <2>2 DEF JobsTrue
<1>5. EndAnnounced'
  BY <1>1, <1>3 DEF EndAnnounced
<1>6. Separated'
  <2>1. SUFFICES ASSUME NEW j \in Instance, NEW g \in Instance,
                        port[j] = port[g], j # g, {j, g} \cap late' = {},
                        ~Rivals(j, g)
                 PROVE  /\ ~(Runs(0, j)' /\ Runs(0, g)')
                        /\ \A k, l \in At' :
                             k < l /\ Runs(k, j)' /\ Runs(l, g)' =>
                               \E m \in At' : k < m /\ m < l /\ Stops(m, j)'
    BY <1>1 DEF Separated
  <2>2. {j, g} \cap late = {} /\ 0 \in At
    BY <1>1, <2>1 DEF At
  <2>3. ASSUME NEW k \in At, g = i, Runs(k, j)
        PROVE  \E m \in At : k < m /\ Stops(m, j)
    <3>1. row[j] \notin {"none", "inserted"}
      BY <2>3 DEF JobsTrue
    <3>2. row[j] \notin {"present", "leaving"}
      BY <1>1, <2>1, <2>3 DEF LivePortsDistinct, Live
    <3> QED
      BY <2>2, <2>3, <3>1, <3>2 DEF EndAnnounced
  <2>4. ASSUME NEW k \in At', NEW l \in At', k < l, Runs(k, j)', Runs(l, g)'
        PROVE  \E m \in At' : k < m /\ m < l /\ Stops(m, j)'
    <3>1. k \in At /\ Runs(k, j)
      BY <1>3, <2>4 DEF At
    <3>2. CASE l = n
      BY <1>3, <2>3, <2>4, <3>1, <3>2
    <3>3. CASE l # n
      BY <1>3, <2>1, <2>2, <2>4, <3>1, <3>3 DEF Separated
    <3> QED
      BY <3>2, <3>3
  <2> QED
    BY <1>3, <2>1, <2>2, <2>4 DEF Separated
<1>7. ToldRuns'
  BY <1>1, <1>3 DEF ToldRuns
<1> QED
  BY <1>4, <1>5, <1>6, <1>7

\* The agent performs its next job.
LEMMA PerformMoves == ASSUME IInv, Perform PROVE QueueInv'
<1> USE DEF IInv, QueueInv, TypeOK
<1>1. UNCHANGED <<row, port, told, late, revived, rivals>>
  BY DEF Perform, rowVars, ghostVars
<1>2. /\ Len(queue) \in Nat \ {0} /\ Len(queue') = Len(queue) - 1
      /\ \A k \in 1..Len(queue'), i \in Instance :
           /\ Runs(k, i)' <=> Runs(k + 1, i)
           /\ Stops(k, i)' <=> Stops(k + 1, i)
      /\ \A i \in Instance :
           /\ Runs(0, i)' <=> Runs(1, i) \/ (Runs(0, i) /\ ~Stops(1, i))
           /\ ~Stops(0, i)
           /\ ~Stops(0, i)'
      /\ \A k \in 1..Len(queue') : queue'[k] = queue[k + 1]
      /\ \A i \in Instance, p \in AnyPort : <<i, p>> \in running' =>
           \/ <<i, p>> \in running
           \/ Runs(1, i) /\ p = queue[1].port
  BY PerformJob
<1>3. /\ 0 \in At /\ 1 \in At /\ 0 \in At' /\ 0 + 1 = 1
      /\ \A k \in At' : k + 1 \in At /\ (k # 0 => k \in 1..Len(queue'))
      /\ \A k \in At : k # 0 => k - 1 \in At' /\ (k - 1) + 1 = k
      /\ \A k \in At : k = 0 \/ k = 1 \/ (k - 1 \in 1..Len(queue') /\ k > 1)
  BY <1>2 DEF At
<1>4. JobsTrue'
  <2>1. \A i \in Instance, k \in At' :
          row'[i] \in {"none", "inserted"} => ~Runs(k, i)' /\ ~Stops(k, i)'
    BY <1>1, <1>2, <1>3 DEF JobsTrue
  <2>2. \A i \in Instance, p \in AnyPort : <<i, p>> \in running' => p = port'[i]
    BY <1>1, <1>2 DEF JobsTrue, Runs
  <2>3. \A k \in 1..Len(queue') : queue'[k].kind = "update" =>
          queue'[k].port = port'[queue'[k].id]
    <3>1. \A k \in 1..Len(queue') : k + 1 \in 1..Len(queue)
      BY <1>2
    <3>2. \A k \in 1..Len(queue) :
            queue[k].kind = "update" => queue[k].port = port[queue[k].id]
      BY DEF JobsTrue
    <3> QED
      BY <1>1, <1>2, <3>1, <3>2
  <2> QED
    BY <2>1, <2>2, <2>3 DEF JobsTrue
<1>5. ASSUME NEW i \in Instance, NEW k \in At', Runs(k, i)'
      PROVE  \E h \in At : /\ Runs(h, i) /\ (h = k + 1 \/ (k = 0 /\ h = 0))
                           /\ h = 0 => ~Stops(1, i)
  <2>1. CASE k # 0
    <3>1. k + 1 \in At /\ k + 1 # 0 /\ Runs(k + 1, i)
      BY <1>2, <1>3, <1>5, <2>1 DEF At
    <3> QED
      BY <3>1
  <2>2. CASE k = 0
    <3>1. Runs(1, i) \/ (Runs(0, i) /\ ~Stops(1, i))
      BY <1>2, <1>5, <2>2
    <3> QED
      BY <1>3, <2>2, <3>1
  <2> QED
    BY <2>1, <2>2
<1>6. EndAnnounced'
  <2>1. SUFFICES ASSUME NEW i \in Instance, NEW k \in At',
                        row[i] \in {"leaving", "gone"}, i \notin late,
                        Runs(k, i)'
                 PROVE  \E m \in At' : k < m /\ Stops(m, i)'
    BY <1>1 DEF EndAnnounced
  <2>2. PICK h \in At : /\ Runs(h, i) /\ (h = k + 1 \/ (k = 0 /\ h = 0))
                        /\ h = 0 => ~Stops(1, i)
    BY <1>5, <2>1
  <2>3. PICK m \in At : h < m /\ Stops(m, i)
    BY <2>1, <2>2 DEF EndAnnounced
  <2>4. m > 1 /\ k < m - 1
    BY <2>2, <2>3 DEF At
  <2>5. m - 1 \in At' /\ Stops(m - 1, i)'
    BY <1>2, <1>3, <2>3, <2>4 DEF At
  <2> QED
    BY <2>4, <2>5
<1>7. Separated'
  <2>1. SUFFICES ASSUME NEW i \in Instance, NEW j \in Instance,
                        port[i] = port[j], i # j, {i, j} \cap late = {},
                        ~Rivals(i, j)
                 PROVE  /\ ~(Runs(0, i)' /\ Runs(0, j)')
                        /\ \A k, l \in At' :
                             k < l /\ Runs(k, i)' /\ Runs(l, j)' =>
                               \E m \in At' : k < m /\ m < l /\ Stops(m, i)'
    BY <1>1 DEF Separated
  <2>2. /\ ~(Runs(0, i) /\ Runs(0, j))
        /\ \A k, l \in At : k < l /\ Runs(k, i) /\ Runs(l, j) =>
             \E m \in At : k < m /\ m < l /\ Stops(m, i)
        /\ \A k, l \in At : k < l /\ Runs(k, j) /\ Runs(l, i) =>
             \E m \in At : k < m /\ m < l /\ Stops(m, j)
    BY <2>1 DEF Separated
  <2>3. ~(Runs(1, i) /\ Runs(1, j))
    BY <2>1 DEF Runs
  <2>4. ~(Runs(0, i)' /\ Runs(0, j)')
    <3>1. ~(Runs(1, i) /\ Runs(0, j)) /\ ~(Runs(1, j) /\ Runs(0, i))
      BY <1>3, <2>2 DEF At
    <3> QED
      BY <1>2, <2>2, <2>3, <3>1
  <2>5. ASSUME NEW k \in At', NEW l \in At', k < l, Runs(k, i)', Runs(l, j)'
        PROVE  \E m \in At' : k < m /\ m < l /\ Stops(m, i)'
    <3>1. PICK h \in At : /\ Runs(h, i) /\ (h = k + 1 \/ (k = 0 /\ h = 0))
                          /\ h = 0 => ~Stops(1, i)
      BY <1>5, <2>5
    <3>2. l + 1 \in At /\ Runs(l + 1, j) /\ h < l + 1
      BY <1>2, <1>3, <2>5, <3>1 DEF At
    <3>3. PICK m \in At : h < m /\ m < l + 1 /\ Stops(m, i)
      BY <2>2, <3>1, <3>2
    <3>4. m > 1 /\ k < m - 1 /\ m - 1 < l
      BY <3>1, <3>3, <2>5 DEF At
    <3>5. m - 1 \in At' /\ Stops(m - 1, i)'
      BY <1>2, <1>3, <3>3, <3>4 DEF At
    <3> QED
      BY <3>4, <3>5
  <2> QED
    BY <2>4, <2>5
<1>8. ToldRuns'
  <2>1. SUFFICES ASSUME NEW i \in Instance \ revived,
                        row[i] \in {"none", "inserted", "present"}
                 PROVE  /\ \A k \in At' : ~Stops(k, i)'
                        /\ i \in told => \E k \in At' : Runs(k, i)'
    BY <1>1 DEF ToldRuns
  <2>2. \A k \in At : ~Stops(k, i)
    BY <2>1 DEF ToldRuns
  <2>3. \A k \in At' : ~Stops(k, i)'
    BY <1>2, <1>3, <2>2
  <2>4. ASSUME i \in told PROVE \E k \in At' : Runs(k, i)'
    <3>1. PICK k \in At : Runs(k, i)
      BY <2>1, <2>4 DEF ToldRuns
    <3>2. CASE k = 0 \/ k = 1
      BY <1>2, <1>3, <2>2, <3>1, <3>2
    <3>3. CASE k - 1 \in 1..Len(queue') /\ k > 1
      <4>1. k - 1 \in At' /\ (k - 1) + 1 = k
        BY <1>3, <3>3 DEF At
      <4>2. Runs(k - 1, i)'
        BY <1>2, <3>1, <3>3, <4>1
      <4> QED
        BY <4>1, <4>2
    <3> QED
      BY <1>3, <3>2, <3>3
  <2> QED
    BY <2>3, <2>4
<1> QED
  BY <1>4, <1>6, <1>7, <1>8

LEMMA StepQueue == IInv /\ [Next]_vars => QueueInv'
<1> SUFFICES ASSUME IInv, [Next]_vars PROVE QueueInv'
  OBVIOUS
<1>1. CASE UNCHANGED vars
  <2>1. UNCHANGED <<row, port, queue, running, told, late, revived, rivals>>
    BY <1>1 DEF vars, rowVars, agentVars, ghostVars
  <2>2. /\ At' = At
        /\ \A k, i : (Runs(k, i)' <=> Runs(k, i)) /\ (Stops(k, i)' <=> Stops(k, i))
    BY <2>1 DEF At, Runs, Stops
  <2>3. JobsTrue' /\ EndAnnounced'
    BY <2>1, <2>2 DEF IInv, QueueInv, JobsTrue, EndAnnounced
  <2>4. Separated' /\ ToldRuns'
    BY <2>1, <2>2 DEF IInv, QueueInv, Separated, ToldRuns
  <2> QED
    BY <2>3, <2>4 DEF QueueInv
<1>2. CASE Perform
  BY <1>2, PerformMoves
<1>3. ASSUME NEW i \in Instance, Request(i) \/ Participant(i) PROVE QueueInv'
  BY <1>3, RowMoves, EndMoves, UpdateMoves DEF Request, Participant
<1> QED
  BY <1>1, <1>2, <1>3 DEF Next

-----------------------------------------------------------------------------
\* The invariant holds in every state of every behaviour.
THEOREM Inductive == Spec => []IInv
<1>1. IInv /\ [Next]_vars => IInv'
  BY StepTypes, StepPorts, StepQueue DEF IInv
<1> QED
  BY InitInductive, <1>1, PTL DEF Spec

\* Memcached instances that are in the table, whatever was created, ended or
\* rolled back in between, share a port only if they were created at once.
THEOREM GivesDistinctPorts == Spec => []PortsDistinct
<1>1. IInv => PortsDistinct
  BY DEF IInv, LivePortsDistinct, PortsDistinct, Live
<1> QED
  BY Inductive, <1>1, PTL

\* The agent of the server never runs two instances on one port, although a
\* port is given away again while the end of its instance is still under way.
THEOREM GivesNoClash == Spec => []NoPortClash
<1>1. IInv => NoPortClash
  <2>1. SUFFICES ASSUME IInv, NEW e \in running, NEW f \in running,
                        e[2] = f[2], ~Rivals(e[1], f[1]),
                        {e[1], f[1]} \cap late = {}
                 PROVE  e = f
    BY DEF NoPortClash
  <2>2. /\ e = <<e[1], e[2]>> /\ f = <<f[1], f[2]>>
        /\ e[1] \in Instance /\ f[1] \in Instance
        /\ e[2] \in AnyPort /\ f[2] \in AnyPort
    BY <2>1 DEF IInv, TypeOK
  <2>3. e[2] = port[e[1]] /\ f[2] = port[f[1]]
    BY <2>1, <2>2 DEF IInv, QueueInv, JobsTrue
  <2>4. Runs(0, e[1]) /\ Runs(0, f[1])
    BY <2>1, <2>2 DEF Runs
  <2>5. e[1] = f[1]
    BY <2>1, <2>2, <2>3, <2>4 DEF IInv, QueueInv, Separated
  <2> QED
    BY <2>1, <2>2, <2>5
<1> QED
  BY Inductive, <1>1, PTL

\* When nothing is under way, the agent runs what the table says, but for an
\* end that was announced and rolled back, and for a late update process.
THEOREM AgentFollowsTable == Spec => []AgentFollows
<1>1. IInv => AgentFollows
  <2>1. SUFFICES ASSUME IInv, Quiet, NEW i \in Instance
                 PROVE  /\ row[i] = "present" /\ i \in told =>
                             <<i, port[i]>> \in running \/ i \in revived
                        /\ row[i] # "present" =>
                             i \in late \/ \A p \in AnyPort : <<i, p>> \notin running
    BY DEF AgentFollows
  <2>2. At = {0}
    BY <2>1 DEF At, Quiet
  <2>3. ASSUME row[i] = "present", i \in told, i \notin revived
        PROVE  <<i, port[i]>> \in running
    <3>1. Runs(0, i)
      BY <2>1, <2>2, <2>3 DEF IInv, QueueInv, ToldRuns
    <3> QED
      BY <2>1, <3>1 DEF Runs, IInv, QueueInv, JobsTrue
  <2>4. ASSUME row[i] # "present", i \notin late
        PROVE  ~Runs(0, i)
    <3>1. row[i] \in {"none", "gone"}
      BY <2>1, <2>4 DEF Quiet
    <3>2. CASE row[i] = "none"
      BY <2>1, <2>2, <3>2 DEF IInv, QueueInv, JobsTrue
    <3>3. CASE row[i] = "gone"
      BY <2>1, <2>2, <2>4, <3>3 DEF IInv, QueueInv, EndAnnounced
    <3> QED
      BY <3>1, <3>2, <3>3
  <2> QED
    BY <2>3, <2>4 DEF Runs
<1> QED
  BY Inductive, <1>1, PTL
===============================================================================
