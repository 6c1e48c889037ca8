------------------------------- MODULE JobReply -------------------------------
(***************************************************************************)
(* What the participants of a Ruote process rely on when they create a     *)
(* Resque-status job with their workitem: the expression that waits for    *)
(* the job is answered at most once, with the job's own outcome, and only  *)
(* after the job has ended -- unless it was cancelled before.              *)
(***************************************************************************)
CONSTANT Job                 \* jobs with a workitem, each with its expression

VARIABLES
  job,                       \* "none" before it is created, then its outcome
  expr                       \* the expression that waits for it

vars == <<job, expr>>

Init ==
  /\ job = [j \in Job |-> "none"]
  /\ expr = [j \in Job |-> "none"]

Consume(j) ==
  /\ job[j] = "none"
  /\ job' = [job EXCEPT ![j] = "queued"]
  /\ expr' = [expr EXCEPT ![j] = "waiting"]

Perform(j) ==
  /\ job[j] = "queued"
  /\ \E s \in {"completed", "failed"} : job' = [job EXCEPT ![j] = s]
  /\ UNCHANGED expr

Answer(j) ==
  /\ expr[j] = "waiting"
  /\ job[j] \in {"completed", "failed"}
  /\ expr' = [expr EXCEPT ![j] = job[j]]
  /\ UNCHANGED job

Cancel(j) ==
  /\ expr[j] = "waiting"
  /\ expr' = [expr EXCEPT ![j] = "gone"]
  /\ UNCHANGED job

Next == \E j \in Job : Consume(j) \/ Perform(j) \/ Answer(j) \/ Cancel(j)

Spec == Init /\ [][Next]_vars
=============================================================================
