------------------------------ MODULE Backchannel ------------------------------
(***************************************************************************)
(* How the results of jobs come back to the engine.  A job leaves its      *)
(* status in Redis; the result worker (rake ruote:run_rrs_worker) looks at *)
(* all statuses once a second, hands each result to the engine or to its   *)
(* error handler, and removes the status.  The engine's worker takes the   *)
(* messages from its storage later.                                        *)
(***************************************************************************)
EXTENDS Integers

CONSTANTS Job,           \* jobs that carry a workitem
          NoJob,         \* no job
          Unreadable,    \* jobs whose result always raises in the worker
          MaxFaults      \* crashes and passing errors of the worker (bound)

ASSUME NoJobAssumption == NoJob \notin Job
ASSUME UnreadableAssumption == Unreadable \subseteq Job
ASSUME FaultsAssumption == MaxFaults \in Nat

VARIABLES
  job,       \* what has become of a job
  kept,      \* jobs whose status is in Redis
  expr,      \* the expression that waits for a job
  inbox,     \* messages in the engine's storage: an outcome of a job
  pass,      \* statuses the worker has read and not yet looked at
  holding,   \* the job it has handed over, whose status it removes next
  faults     \* faults so far

vars == <<job, kept, expr, inbox, pass, holding, faults>>
worker == <<pass, holding>>

Outcome == {"completed", "failed"}
JobStates == {"none", "queued"} \union Outcome
ExprStates == {"none", "waiting", "gone"} \union Outcome

TypeOK ==
  /\ job \in [Job -> JobStates]
  /\ kept \in SUBSET Job
  /\ expr \in [Job -> ExprStates]
  /\ inbox \in SUBSET (Job \X Outcome)
  /\ pass \in SUBSET (Job \X JobStates)
  /\ holding \in Job \union {NoJob}
  /\ faults \in 0..MaxFaults

Init ==
  /\ job = [j \in Job |-> "none"]
  /\ kept = {}
  /\ expr = [j \in Job |-> "none"]
  /\ inbox = {}
  /\ pass = {}
  /\ holding = NoJob
  /\ faults = 0

-----------------------------------------------------------------------------
(* Participants, job queues, and the engine. *)

\* A participant creates its job and waits for the answer.
Consume(j) ==
  /\ job[j] = "none"
  /\ job' = [job EXCEPT ![j] = "queued"]
  /\ kept' = kept \union {j}
  /\ expr' = [expr EXCEPT ![j] = "waiting"]
  /\ UNCHANGED <<inbox, worker, faults>>

Perform(j) ==
  /\ job[j] = "queued"
  /\ \E s \in Outcome : job' = [job EXCEPT ![j] = s]
  /\ UNCHANGED <<kept, expr, inbox, worker, faults>>

\* The engine takes a message: a reply lets the process go on, an error goes to
\* its :on_error.  Without the expression there is nothing to do.
Take(m) ==
  /\ m \in inbox
  /\ inbox' = inbox \ {m}
  /\ expr' = IF expr[m[1]] = "waiting" THEN [expr EXCEPT ![m[1]] = m[2]]
                                       ELSE expr
  /\ UNCHANGED <<job, kept, worker, faults>>

\* The process ends in another branch; GenericParticipantCancelHandler leaves
\* the job alone.
Cancel(j) ==
  /\ expr[j] = "waiting"
  /\ expr' = [expr EXCEPT ![j] = "gone"]
  /\ UNCHANGED <<job, kept, inbox, worker, faults>>

-----------------------------------------------------------------------------
(* The result worker. *)

\* Resque::Status.statuses, after a second's sleep.
BeginPass ==
  /\ pass = {} /\ holding = NoJob
  /\ kept # {}
  /\ pass' = {<<j, job[j]>> : j \in kept}
  /\ UNCHANGED <<job, kept, expr, inbox, holding, faults>>

Looks(j, s) == holding = NoJob /\ <<j, s>> \in pass
Passed(j, s) == pass' = pass \ {<<j, s>>}

\* Neither completed nor failed: printed.
Skip(j) ==
  /\ Looks(j, "queued")
  /\ Passed(j, "queued")
  /\ UNCHANGED <<job, kept, expr, inbox, holding, faults>>

\* Mutant: whatever has not failed is received, as it is.
ReceiveAnything(j) ==
  \E s \in {"queued", "completed"} :
    /\ Looks(j, s) /\ j \notin Unreadable
    /\ inbox' = inbox \union {<<j, s>>}
    /\ Passed(j, s)
    /\ holding' = j
    /\ UNCHANGED <<job, kept, expr, faults>>

\* RuoteEngine.receive
Receive(j) ==
  /\ Looks(j, "completed") /\ j \notin Unreadable
  /\ inbox' = inbox \union {<<j, "completed">>}
  /\ Passed(j, "completed")
  /\ holding' = j
  /\ UNCHANGED <<job, kept, expr, faults>>

\* Mutant: the test for the process is inverted.
ReportUnknown(j) ==
  /\ Looks(j, "failed") /\ j \notin Unreadable
  /\ IF expr[j] = "waiting" THEN UNCHANGED inbox
                            ELSE inbox' = inbox \union {<<j, "failed">>}
  /\ Passed(j, "failed")
  /\ holding' = j
  /\ UNCHANGED <<job, kept, expr, faults>>

\* The error handler is told, unless the process has ended.  It has not while
\* an expression of it waits.
Report(j) ==
  /\ Looks(j, "failed") /\ j \notin Unreadable
  /\ \/ inbox' = inbox \union {<<j, "failed">>}
     \/ expr[j] # "waiting" /\ UNCHANGED inbox
  /\ Passed(j, "failed")
  /\ holding' = j
  /\ UNCHANGED <<job, kept, expr, faults>>

\* Resque::Status.remove_one
Remove ==
  /\ holding # NoJob
  /\ kept' = kept \ {holding}
  /\ holding' = NoJob
  /\ UNCHANGED <<job, expr, inbox, pass, faults>>

\* Mutant: the rescue is outside the loop over the statuses.
RaiseEndsPass(j, s) ==
  /\ j \in Unreadable /\ s \in Outcome /\ Looks(j, s)
  /\ pass' = {}
  /\ UNCHANGED <<job, kept, expr, inbox, holding, faults>>

\* Something raises before anything is handed over: the error is printed, and
\* the status stays for the next pass.
Raise(j, s) ==
  /\ j \in Unreadable /\ s \in Outcome /\ Looks(j, s)
  /\ Passed(j, s)
  /\ UNCHANGED <<job, kept, expr, inbox, holding, faults>>

\* The same, for once, with any status -- or remove_one raises after the result
\* was handed over.
PassingError ==
  /\ faults < MaxFaults
  /\ \/ \E e \in pass :
          e[2] \in Outcome /\ Looks(e[1], e[2]) /\ Passed(e[1], e[2])
     \/ holding # NoJob /\ UNCHANGED pass
  /\ holding' = NoJob
  /\ faults' = faults + 1
  /\ UNCHANGED <<job, kept, expr, inbox>>

\* The worker dies; its supervisor starts it again.
Crash ==
  /\ faults < MaxFaults
  /\ pass' = {}
  /\ holding' = NoJob
  /\ faults' = faults + 1
  /\ UNCHANGED <<job, kept, expr, inbox>>

-----------------------------------------------------------------------------
LookAt(j) ==
  Skip(j) \/ Receive(j) \/ Report(j) \/ \E s \in Outcome : Raise(j, s)

ResultWorker == BeginPass \/ Remove \/ \E j \in Job : LookAt(j)

Next ==
  \/ \E j \in Job : Consume(j) \/ Perform(j) \/ Cancel(j)
  \/ \E m \in inbox : Take(m)
  \/ ResultWorker \/ PassingError \/ Crash

Spec == Init /\ [][Next]_vars

\* Both workers are loops that go on whatever they read.
Fairness == WF_vars(ResultWorker) /\ WF_vars(\E m \in inbox : Take(m))

FairSpec == Spec /\ Fairness

-----------------------------------------------------------------------------
(* Properties. *)

\* While an expression waits for a job that has ended, the result is somewhere
\* on its way: in Redis, where the next pass finds it, or in the engine's
\* storage.  Neither a crash between receive and remove_one nor an error loses
\* it (ruote.rake:52-53, 78-81).
ResultKept ==
  \A j \in Job :
    expr[j] = "waiting" /\ job[j] \in Outcome =>
      j \in kept \/ <<j, job[j]>> \in inbox

\* Results that are handed over twice, late, or after the expression was
\* cancelled do no harm: expressions are answered as JobReply says.
Reply == INSTANCE JobReply WITH Job <- Job, job <- job, expr <- expr
ReplySpec == Reply!Spec

\* Every result that can be read gets to its expression and leaves Redis, also
\* beside one that raises in every pass.
ResultsDelivered ==
  <>[](\A j \in Job \ Unreadable :
         job[j] \in Outcome => expr[j] # "waiting" /\ j \notin kept)

-----------------------------------------------------------------------------
(* The inductive invariant behind ResultKept and ReplySpec. *)

\* A job that was created has its expression; before the worker is done with
\* it, its status is in Redis.
CreatedKept ==
  \A j \in Job :
    /\ job[j] = "none" <=> expr[j] = "none"
    /\ job[j] = "queued" => j \in kept /\ expr[j] \in {"waiting", "gone"}

\* What is under way is the outcome of an ended job.
MessagesTrue == \A m \in inbox : job[m[1]] = m[2]

\* What the worker has read is still in Redis, once for each job, and an outcome
\* it has read is final.
PassTrue ==
  /\ \A e \in pass : e[1] \in kept /\ (e[2] \in Outcome => job[e[1]] = e[2])
  /\ \A e, f \in pass : e[1] = f[1] => e = f

\* The status to be removed is that of an ended job the worker is through with,
\* and whose expression has its answer, or does not need it any more.
HandedOver ==
  holding # NoJob =>
    /\ holding \in kept /\ job[holding] \in Outcome
    /\ \A e \in pass : e[1] # holding
    /\ expr[holding] = "waiting" => <<holding, job[holding]>> \in inbox

IInv ==
  TypeOK /\ CreatedKept /\ MessagesTrue /\ PassTrue /\ HandedOver /\ ResultKept
=============================================================================
