--------------------------- MODULE BackchannelProofs ---------------------------
(***************************************************************************)
(* Theorems about Backchannel, for any set of jobs, any of them unreadable, *)
(* and any number of faults of the result worker.  The parts of IInv are    *)
(* inductive only together: PassTrue and HandedOver say what the worker     *)
(* knows, CreatedKept and MessagesTrue what is in Redis and in the engine.  *)
(***************************************************************************)
EXTENDS Backchannel, TLAPS

USE DEF Outcome, JobStates, ExprStates

LEMMA InitIInv == Init => IInv
  BY NoJobAssumption, FaultsAssumption
     DEF Init, IInv, TypeOK, CreatedKept, MessagesTrue, PassTrue, HandedOver,
         ResultKept

\* Participants, job queues and the engine preserve the invariant: an ended job
\* never changes, a waiting expression is only answered from the inbox.
LEMMA OthersIInv ==
  ASSUME IInv,
         \/ \E j \in Job : Consume(j) \/ Perform(j) \/ Cancel(j)
         \/ \E m \in inbox : Take(m)
  PROVE  IInv'
<1> USE NoJobAssumption, FaultsAssumption DEF IInv, TypeOK
<1>1. CASE \E j \in Job : Consume(j)
  BY <1>1 DEF Consume, worker, CreatedKept, MessagesTrue, PassTrue, HandedOver,
              ResultKept
<1>2. CASE \E j \in Job : Perform(j)
  BY <1>2 DEF Perform, worker, CreatedKept, MessagesTrue, PassTrue, HandedOver,
              ResultKept
<1>3. CASE \E j \in Job : Cancel(j)
  BY <1>3 DEF Cancel, worker, CreatedKept, MessagesTrue, PassTrue, HandedOver,
              ResultKept
<1>4. ASSUME NEW m \in inbox, Take(m)
      PROVE  IInv'
  <2>1. PICK j \in Job, s \in Outcome : m = <<j, s>>
    OBVIOUS
  <2>2. job[j] = s
    BY <2>1 DEF MessagesTrue
  <2>3. /\ inbox' = inbox \ {<<j, s>>}
        /\ expr' = IF expr[j] = "waiting" THEN [expr EXCEPT ![j] = s] ELSE expr
        /\ UNCHANGED <<job, kept, pass, holding, faults>>
    BY <1>4, <2>1 DEF Take, worker
  <2> QED
    BY <2>1, <2>2, <2>3
       DEF CreatedKept, MessagesTrue, PassTrue, HandedOver, ResultKept
<1> QED
  BY <1>1, <1>2, <1>3, <1>4

\* The steps of the result worker that hand nothing over leave Redis, jobs and
\* expressions alone, and only shrink or renew what it has read.
LEMMA LooksIInv ==
  ASSUME IInv,
         \/ BeginPass \/ PassingError \/ Crash
         \/ \E j \in Job : Skip(j) \/ \E s \in Outcome : Raise(j, s)
  PROVE  IInv'
<1> USE NoJobAssumption, FaultsAssumption DEF IInv, TypeOK, Looks, Passed
<1>1. CASE BeginPass
  <2>1. \A j \in kept : job[j] \in JobStates
    OBVIOUS
  <2> QED
    BY <1>1, <2>1 DEF BeginPass, CreatedKept, MessagesTrue, PassTrue, HandedOver,
              ResultKept
<1>2. CASE PassingError
  <2>1. faults' \in 0..MaxFaults
    BY <1>2 DEF PassingError
  <2>2. pass' \subseteq pass
    BY <1>2 DEF PassingError
  <2>3. holding' = NoJob /\ UNCHANGED <<job, kept, expr, inbox>>
    BY <1>2 DEF PassingError
  <2> QED
    BY <2>1, <2>3, <2>2
       DEF CreatedKept, MessagesTrue, PassTrue, HandedOver, ResultKept
<1>3. CASE Crash
  BY <1>3 DEF Crash, CreatedKept, MessagesTrue, PassTrue, HandedOver, ResultKept
<1>4. ASSUME NEW j \in Job, Skip(j) \/ \E s \in Outcome : Raise(j, s)
      PROVE  IInv'
  <2>1. /\ pass' \subseteq pass
        /\ UNCHANGED <<job, kept, expr, inbox, holding, faults>>
    BY <1>4 DEF Skip, Raise
  <2> QED
    BY <2>1 DEF CreatedKept, MessagesTrue, PassTrue, HandedOver, ResultKept
<1> QED
  BY <1>1, <1>2, <1>3, <1>4

\* A result that is handed over is the outcome the worker has read, which is
\* final, so that the status may go afterwards.
LEMMA HandsOverIInv ==
  ASSUME IInv,
         Remove \/ \E j \in Job : Receive(j) \/ Report(j)
  PROVE  IInv'
<1> USE NoJobAssumption, FaultsAssumption DEF IInv, TypeOK, Looks, Passed
<1>1. CASE Remove
  BY <1>1 DEF Remove, CreatedKept, MessagesTrue, PassTrue, HandedOver, ResultKept
<1>2. ASSUME NEW j \in Job, Receive(j)
      PROVE  IInv'
  BY <1>2 DEF Receive, CreatedKept, MessagesTrue, PassTrue, HandedOver,
              ResultKept
<1>3. ASSUME NEW j \in Job, Report(j)
      PROVE  IInv'
  BY <1>3 DEF Report, CreatedKept, MessagesTrue, PassTrue, HandedOver, ResultKept
<1> QED
  BY <1>1, <1>2, <1>3

LEMMA IInvStep == IInv /\ [Next]_vars => IInv'
<1> SUFFICES ASSUME IInv, [Next]_vars
             PROVE  IInv'
  OBVIOUS
<1>1. CASE UNCHANGED vars
  BY <1>1 DEF vars, IInv, TypeOK, CreatedKept, MessagesTrue, PassTrue,
              HandedOver, ResultKept
<1>2. CASE Next
  BY <1>2, OthersIInv, LooksIInv, HandsOverIInv DEF Next, ResultWorker, LookAt
<1> QED
  BY <1>1, <1>2

-----------------------------------------------------------------------------
\* The invariant of the way back: what the worker and the engine hold is the
\* outcome of an ended job, and no outcome is dropped before it is handed over
\* (the loop of ruote.rake:42-92).
THEOREM Inductive == Spec => []IInv
<1>1. Init => IInv
  BY InitIInv
<1>2. IInv /\ [Next]_vars => IInv'
  BY IInvStep
<1> QED
  BY <1>1, <1>2, PTL DEF Spec

\* No crash and no error of the result worker loses the result of a job an
\* expression still waits for: it is handed over before its status is removed.
THEOREM NothingLost == Spec => []ResultKept
<1>1. IInv => ResultKept
  BY DEF IInv
<1> QED
  BY <1>1, Inductive, PTL

\* The result worker and the engine together answer expressions as JobReply
\* says, which is what the participants of the workflows rely on.
THEOREM ReplyImplemented == Spec => ReplySpec
<1>1. Init => Reply!Init
  BY DEF Init, Reply!Init
<1>2. IInv /\ [Next]_vars => [Reply!Next]_(Reply!vars)
  <2> SUFFICES ASSUME IInv, [Next]_vars
               PROVE  [Reply!Next]_(Reply!vars)
    OBVIOUS
  <2>1. ASSUME NEW j \in Job, Consume(j)
        PROVE  Reply!Consume(j)
    BY <2>1 DEF Consume, Reply!Consume
  <2>2. ASSUME NEW j \in Job, Perform(j)
        PROVE  Reply!Perform(j)
    BY <2>2 DEF Perform, Reply!Perform
  <2>3. ASSUME NEW j \in Job, Cancel(j)
        PROVE  Reply!Cancel(j)
    BY <2>3 DEF Cancel, Reply!Cancel
  <2>4. ASSUME NEW m \in inbox, Take(m)
        PROVE  (\E j \in Job : Reply!Answer(j)) \/ UNCHANGED Reply!vars
    <3>1. PICK j \in Job, s \in Outcome : m = <<j, s>>
      BY DEF IInv, TypeOK
    <3>2. job[j] = s
      BY <3>1 DEF IInv, MessagesTrue
    <3> QED
      BY <2>4, <3>1, <3>2 DEF Take, Reply!Answer, Reply!vars
  <2>5. ASSUME ResultWorker \/ PassingError \/ Crash
        PROVE  UNCHANGED Reply!vars
    BY <2>5 DEF ResultWorker, LookAt, BeginPass, Remove, Skip, Receive, Report,
                Raise, PassingError, Crash, Reply!vars
  <2>6. UNCHANGED vars => UNCHANGED Reply!vars
    BY DEF vars, Reply!vars
  <2> QED
    BY <2>1, <2>2, <2>3, <2>4, <2>5, <2>6 DEF Next, Reply!Next
<1> QED
  BY <1>1, <1>2, Inductive, PTL DEF Spec, ReplySpec, Reply!Spec
=============================================================================
