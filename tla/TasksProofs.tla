------------------------------ MODULE TasksProofs ------------------------------
(***************************************************************************)
(* Theorems about tasks: HourlyOnce of the worker that dispatches them, for *)
(* any number of tasks, edits and crashes and any clock; and NothingSkipped *)
(* and OnceAlone of the log that a task, or a deployment, leaves, for any   *)
(* number of requests and messages.                                        *)
(***************************************************************************)
EXTENDS PeriodicTasks, LogDrain, TLAPS

USE DEF NoCopy, NoEdit, Loaded

LEMMA AgeFacts ==
  /\ TicksPerHour \in Nat /\ Never \in Nat /\ TicksPerDay \in Nat \ {0}
  /\ 0 \in 0..Never /\ 0 \in 0..TicksPerHour /\ TicksPerHour \in 0..TicksPerHour
  /\ \A a \in 0..Never :
       /\ a \in Nat /\ Older(a) \in 0..Never /\ Older(a) \in Nat
       /\ a # -1 /\ Older(a) # -1
  /\ \A s \in 0..TicksPerHour : s \in 0..Never /\ Older(s) \in 0..TicksPerHour
<1>1. TicksPerDay \in Nat /\ TicksPerDay # 0
  BY ClockAssumption, Z3 DEF TicksPerDay
<1> QED
  BY <1>1, ClockAssumption DEF Never, Older

LEMMA InitInv == Init => IInv
<1> SUFFICES ASSUME Init PROVE IInv
    OBVIOUS
<1> USE DEF Init
<1>1. TypeOK
  <2>1. 0 \in Hour /\ 0 \in 0..(TicksPerDay - 1) /\ Never \in 0..Never
    BY AgeFacts, ClockAssumption DEF Hour
  <2>2. task \in [Task -> Row]
    BY DEF Row, Interval
  <2>3. 0 \in 0..MaxEdits /\ 0 \in 0..MaxCrashes
    BY BoundsAssumption
  <2> QED
    BY <2>1, <2>2, <2>3, AgeFacts DEF TypeOK
<1>2. LastRunKept /\ CurrentLoaded
  BY DEF LastRunKept, CurrentLoaded, Fresh
<1> QED
  BY <1>1, <1>2 DEF IInv

LEMMA TickStep == IInv /\ Tick => IInv'
<1> SUFFICES ASSUME IInv, Tick PROVE IInv'
    OBVIOUS
<1> USE DEF Tick
<1>0. \A t \in Task :
        /\ age[t] \in 0..Never /\ since[t] \in 0..TicksPerHour
        /\ age'[t] = Older(age[t]) /\ since'[t] = Older(since[t])
        /\ Loaded(t) => /\ copy[t] \in Copy /\ copy[t].age \in 0..Never
                        /\ copy'[t] = [copy[t] EXCEPT !.age = Older(copy[t].age)]
                        /\ copy'[t] \in Copy /\ copy'[t].age = Older(copy[t].age)
        /\ ~Loaded(t) => copy'[t] = NoCopy
  BY AgeFacts DEF IInv, TypeOK, Copy
<1>1. TypeOK'
  <2>1. now' \in 0..(TicksPerDay - 1)
    BY AgeFacts DEF IInv, TypeOK
  <2>2. edit' = NoEdit \/ edit' \in [of : Task, age : 0..Never]
    BY AgeFacts DEF IInv, TypeOK
  <2>3. copy' \in [Task -> Copy \union {NoCopy}]
    BY <1>0
  <2> QED
    BY <1>0, <2>1, <2>2, <2>3, AgeFacts DEF IInv, TypeOK
<1>2. LastRunKept'
  <2>1. ASSUME NEW t \in Task, NEW a \in 0..Never, Fresh(t, a)
        PROVE  disturbed[t] \/ since'[t] = TicksPerHour \/ Older(a) <= since'[t]
    <3>1. since'[t] = Older(since[t])
      BY <1>0
    <3>2. since[t] \in 0..TicksPerHour
      BY <1>0
    <3>3. disturbed[t] \/ since[t] = TicksPerHour \/ a <= since[t]
      BY <2>1 DEF Fresh
    <3> HIDE DEF Tick
    <3> QED
      BY <3>1, <3>2, <3>3, ClockAssumption DEF Older
  <2> QED
    BY <1>0, <2>1 DEF IInv, LastRunKept, Fresh, Copy
<1>3. CurrentLoaded'
  BY <1>0, AgeFacts, NoTaskAssumption DEF IInv, TypeOK, CurrentLoaded, Copy
<1> QED
  BY <1>1, <1>2, <1>3 DEF IInv

LEMMA BeginPassStep == IInv /\ BeginPass => IInv'
<1> SUFFICES ASSUME IInv, BeginPass PROVE IInv'
    OBVIOUS
<1> USE DEF BeginPass
<1>1. TypeOK'
  <2>1. \A t \in Task : Stored(t) \in Copy
    BY DEF IInv, TypeOK, Copy, Stored
  <2> QED
    BY <2>1 DEF IInv, TypeOK, rowVars, clientVars, ghostVars
<1>2. LastRunKept' /\ CurrentLoaded'
  BY AgeFacts, NoTaskAssumption
     DEF IInv, TypeOK, LastRunKept, CurrentLoaded, Fresh, Copy, Stored, timeVars,
         rowVars, workerVars, clientVars, ghostVars, PassOver, LooksAt
<1> QED
  BY <1>1, <1>2 DEF IInv

LEMMA EndPassStep == IInv /\ EndPass => IInv'
<1> SUFFICES ASSUME IInv, EndPass PROVE IInv'
    OBVIOUS
<1> USE DEF EndPass
<1>1. TypeOK'
  BY AgeFacts DEF IInv, TypeOK, timeVars, rowVars, workerVars, clientVars,
                  ghostVars, PassOver, LooksAt
<1>2. LastRunKept' /\ CurrentLoaded'
  BY AgeFacts, NoTaskAssumption
     DEF IInv, TypeOK, LastRunKept, CurrentLoaded, Fresh, Copy, timeVars,
         rowVars, workerVars, clientVars, ghostVars, PassOver, LooksAt
<1> QED
  BY <1>1, <1>2 DEF IInv

LEMMA SkipStep == \A t \in Task : IInv /\ Skip(t) => IInv'
<1> SUFFICES ASSUME NEW t \in Task, IInv, Skip(t) PROVE IInv'
    OBVIOUS
<1> USE DEF Skip
<1>1. TypeOK'
  BY AgeFacts DEF IInv, TypeOK, timeVars, rowVars, workerVars, clientVars,
                  ghostVars, PassOver, LooksAt
<1>2. LastRunKept' /\ CurrentLoaded'
  BY AgeFacts, NoTaskAssumption
     DEF IInv, TypeOK, LastRunKept, CurrentLoaded, Fresh, Copy, timeVars,
         rowVars, workerVars, clientVars, ghostVars, PassOver, LooksAt
<1> QED
  BY <1>1, <1>2 DEF IInv

LEMMA RaiseStep == \A t \in Task : IInv /\ Raise(t) => IInv'
<1> SUFFICES ASSUME NEW t \in Task, IInv, Raise(t) PROVE IInv'
    OBVIOUS
<1> USE DEF Raise
<1>1. TypeOK'
  BY AgeFacts DEF IInv, TypeOK, timeVars, rowVars, workerVars, clientVars,
                  ghostVars, PassOver, LooksAt
<1>2. LastRunKept' /\ CurrentLoaded'
  BY AgeFacts, NoTaskAssumption
     DEF IInv, TypeOK, LastRunKept, CurrentLoaded, Fresh, Copy, timeVars,
         rowVars, workerVars, clientVars, ghostVars, PassOver, LooksAt
<1> QED
  BY <1>1, <1>2 DEF IInv

LEMMA DispatchStep == \A t \in Task : IInv /\ Dispatch(t) => IInv'
<1> SUFFICES ASSUME NEW t \in Task, IInv, Dispatch(t) PROVE IInv'
    OBVIOUS
<1> USE DEF Dispatch
<1>1. TypeOK'
  BY AgeFacts DEF IInv, TypeOK, timeVars, rowVars, workerVars, clientVars,
                  ghostVars, PassOver, LooksAt
<1>2. LastRunKept' /\ CurrentLoaded'
  BY AgeFacts, NoTaskAssumption
     DEF IInv, TypeOK, LastRunKept, CurrentLoaded, Fresh, Copy, timeVars,
         rowVars, workerVars, clientVars, ghostVars, PassOver, LooksAt
<1> QED
  BY <1>1, <1>2 DEF IInv

LEMMA RanStep == IInv /\ Ran => IInv'
<1> SUFFICES ASSUME IInv, Ran PROVE IInv'
    OBVIOUS
<1> USE DEF Ran
<1>1. TypeOK'
  <2>1. copy[current] \in Copy
    BY DEF IInv, TypeOK, CurrentLoaded
  <2>2. /\ copy[current].row \in Row
        /\ task[current].enabled \in BOOLEAN
    BY <2>1, NoTaskAssumption DEF IInv, TypeOK, Copy, Row
  <2>3. [copy[current].row EXCEPT !.enabled = task[current].enabled] \in Row
    BY <2>2 DEF Row
  <2> QED
    BY <2>3, AgeFacts
       DEF IInv, TypeOK, timeVars, clientVars, ghostVars
<1>2. LastRunKept' /\ CurrentLoaded'
  BY AgeFacts, NoTaskAssumption
     DEF IInv, TypeOK, LastRunKept, CurrentLoaded, Fresh, Copy, timeVars,
         rowVars, workerVars, clientVars, ghostVars, PassOver, LooksAt
<1> QED
  BY <1>1, <1>2 DEF IInv

LEMMA CrashStep == IInv /\ Crash => IInv'
<1> SUFFICES ASSUME IInv, Crash PROVE IInv'
    OBVIOUS
<1> USE DEF Crash
<1>1. TypeOK'
  BY AgeFacts, BoundsAssumption
     DEF IInv, TypeOK, timeVars, rowVars, workerVars, clientVars, ghostVars
<1>2. LastRunKept' /\ CurrentLoaded'
  BY AgeFacts, NoTaskAssumption
     DEF IInv, TypeOK, LastRunKept, CurrentLoaded, Fresh, Copy, timeVars,
         rowVars, workerVars, clientVars, ghostVars, PassOver, LooksAt
<1> QED
  BY <1>1, <1>2 DEF IInv

LEMMA LoadTaskStep == \A t \in Task : IInv /\ LoadTask(t) => IInv'
<1> SUFFICES ASSUME NEW t \in Task, IInv, LoadTask(t) PROVE IInv'
    OBVIOUS
<1> USE DEF LoadTask
<1>1. TypeOK'
  BY AgeFacts, BoundsAssumption
     DEF IInv, TypeOK, timeVars, rowVars, workerVars, clientVars, ghostVars
<1>2. LastRunKept' /\ CurrentLoaded'
  BY AgeFacts, NoTaskAssumption
     DEF IInv, TypeOK, LastRunKept, CurrentLoaded, Fresh, Copy, timeVars,
         rowVars, workerVars, clientVars, ghostVars, PassOver, LooksAt
<1> QED
  BY <1>1, <1>2 DEF IInv

LEMMA SaveTaskStep == IInv /\ SaveTask => IInv'
<1> SUFFICES ASSUME IInv, SaveTask PROVE IInv'
    OBVIOUS
<1> USE DEF SaveTask
<1>1. TypeOK'
  BY AgeFacts DEF IInv, TypeOK, timeVars, rowVars, workerVars, clientVars,
                  ghostVars, PassOver, LooksAt
<1>2. LastRunKept' /\ CurrentLoaded'
  BY AgeFacts, NoTaskAssumption
     DEF IInv, TypeOK, LastRunKept, CurrentLoaded, Fresh, Copy, timeVars,
         rowVars, workerVars, clientVars, ghostVars, PassOver, LooksAt
<1> QED
  BY <1>1, <1>2 DEF IInv

LEMMA ChangeStep == \A t \in Task : IInv /\ Change(t) => IInv'
<1> SUFFICES ASSUME NEW t \in Task, IInv, Change(t) PROVE IInv'
    OBVIOUS
<1> USE DEF Change
<1>1. TypeOK'
  BY AgeFacts, BoundsAssumption
     DEF IInv, TypeOK, timeVars, rowVars, workerVars, clientVars, ghostVars
<1>2. LastRunKept' /\ CurrentLoaded'
  BY AgeFacts, NoTaskAssumption
     DEF IInv, TypeOK, LastRunKept, CurrentLoaded, Fresh, Copy, timeVars,
         rowVars, workerVars, clientVars, ghostVars, PassOver, LooksAt
<1> QED
  BY <1>1, <1>2 DEF IInv

\* Type correctness, and what the worker goes by is as new as its dispatches.
THEOREM Inductive == Spec => []IInv
<1>1. Init => IInv
  BY InitInv
<1>2. IInv /\ [Next]_vars => IInv'
  <2> SUFFICES ASSUME IInv, [Next]_vars PROVE IInv'
      OBVIOUS
  <2>1. CASE Tick \/ Crash \/ SaveTask
    BY <2>1, TickStep, CrashStep, SaveTaskStep
  <2>2. CASE Worker
    BY <2>2, BeginPassStep, EndPassStep, RanStep, SkipStep, RaiseStep,
       DispatchStep DEF Worker
  <2>3. CASE \E t \in Task : LoadTask(t) \/ Change(t)
    BY <2>3, LoadTaskStep, ChangeStep
  <2>4. CASE UNCHANGED vars
    BY <2>4
       DEF IInv, TypeOK, LastRunKept, CurrentLoaded, Fresh, vars, timeVars,
           rowVars, workerVars, clientVars, ghostVars
  <2> QED
    BY <2>1, <2>2, <2>3, <2>4 DEF Next
<1> QED
  BY <1>1, <1>2, PTL DEF Spec

\* Only Dispatch makes a task the current one.
LEMMA DispatchedDispatch ==
  ASSUME NEW t \in Task, IInv, [Next]_vars, Dispatched(t)
  PROVE  Dispatch(t)
<1> USE DEF Dispatched
<1>1. CASE UNCHANGED vars
  BY <1>1 DEF vars, workerVars
<1>2. CASE Tick \/ Crash \/ SaveTask
  BY <1>2, NoTaskAssumption DEF Tick, Crash, SaveTask, workerVars
<1>3. CASE \E u \in Task : LoadTask(u) \/ Change(u)
  BY <1>3 DEF LoadTask, Change, workerVars
<1>4. CASE Worker
  BY <1>4, NoTaskAssumption
     DEF Worker, BeginPass, EndPass, Skip, Raise, Dispatch, Ran
<1> QED
  BY <1>1, <1>2, <1>3, <1>4 DEF Next

\* An hourly task runs once an hour, but for a crash or an edit at the wrong
\* moment.
THEOREM RunsHourlyOnce == Spec => HourlyOnce
<1>1. ASSUME IInv, [Next]_vars, NEW t \in Task, Dispatched(t),
             copy[t].row.interval = "hourly"
      PROVE  since[t] = TicksPerHour \/ disturbed[t]
  <2>1. Dispatch(t)
    BY <1>1, DispatchedDispatch
  <2>2. /\ Loaded(t) /\ copy[t] \in Copy /\ current = NoTask
        /\ NextHourly(copy[t]) <= HourNow
    BY <1>1, <2>1 DEF Dispatch, LooksAt, Due, IInv, TypeOK
  <2>3. Fresh(t, copy[t].age)
    BY <1>1, <2>2, NoTaskAssumption DEF IInv, LastRunKept
  <2>4. copy[t].age \in 0..Never /\ since[t] \in 0..TicksPerHour
    BY <1>1, <2>2 DEF Copy, IInv, TypeOK
  <2>5. copy[t].age = Never \/ copy[t].age >= TicksPerHour
    <3>1. HourNow \in Int
      BY <1>1, ClockAssumption, AgeFacts DEF IInv, TypeOK, HourNow
    <3> QED
      BY <2>2, <3>1 DEF NextHourly
  <2> QED
    BY <2>3, <2>4, <2>5, ClockAssumption DEF Fresh, Never
<1>2. IInv /\ [Next]_vars =>
        [\A t \in Task :
           Dispatched(t) /\ copy[t].row.interval = "hourly" =>
             since[t] = TicksPerHour \/ disturbed[t]]_vars
  BY <1>1
<1> QED
  BY <1>2, Inductive, PTL DEF Spec, HourlyOnce

-----------------------------------------------------------------------------
(* The log. *)

LEMMA LogInitInv == LogInit => LogInv
<1> SUFFICES ASSUME LogInit PROVE LogInv
    OBVIOUS
<1> USE DEF LogInit
<1>1. LogTypeOK
  <2>1. /\ 0 \in 0..MaxMessages /\ 0 \in 0..0 /\ 0 \in 0..MaxFails
        /\ {} \in SUBSET Message
    BY MaxMessagesAssumption, MaxFailsAssumption
  <2> QED
    BY <2>1 DEF LogTypeOK
<1>2. InReach
  BY DEF InReach, Reach, Larger
<1>3. NothingSkipped /\ NothingSkippedBefore
  BY DEF NothingSkipped, NothingSkippedBefore, Message
<1>4. OneAfterTheOther /\ OnceAlone
  BY DEF OneAfterTheOther, OnceAlone, InHand
<1> QED
  BY <1>1, <1>2, <1>3, <1>4 DEF LogInv

LEMMA PushStep == LogInv /\ Push => LogInv'
<1> SUFFICES ASSUME LogInv, Push PROVE LogInv'
    OBVIOUS
<1> USE DEF Push
<1>1. LogTypeOK'
  BY MaxMessagesAssumption DEF LogInv, LogTypeOK, replyVars, Message
<1>2. InReach'
  BY MaxMessagesAssumption DEF LogInv, LogTypeOK, InReach, Reach, Larger
<1>3. NothingSkipped' /\ NothingSkippedBefore'
  BY DEF LogInv, NothingSkipped, NothingSkippedBefore, Accounted, InHand,
         replyVars
<1>4. OneAfterTheOther' /\ OnceAlone'
  BY MaxMessagesAssumption
     DEF LogInv, LogTypeOK, OneAfterTheOther, OnceAlone, InHand, replyVars,
         Message
<1> QED
  BY <1>1, <1>2, <1>3, <1>4 DEF LogInv

LEMMA CloseStep == LogInv /\ Close => LogInv'
<1> SUFFICES ASSUME LogInv, Close PROVE LogInv'
    OBVIOUS
<1> USE DEF Close
<1>1. LogTypeOK'
  BY MaxMessagesAssumption
     DEF LogInv, LogTypeOK, Goto, logVars, replyVars, Message, InHand, Larger
<1>2. InReach'
  BY MaxMessagesAssumption
     DEF LogInv, LogTypeOK, InReach, Reach, Larger, Goto, logVars, replyVars
<1>3. NothingSkipped' /\ NothingSkippedBefore'
  BY DEF LogInv, LogTypeOK, NothingSkipped, NothingSkippedBefore, Accounted,
         InHand, Goto, logVars, replyVars, Message, Larger
<1>4. OneAfterTheOther' /\ OnceAlone'
  BY MaxMessagesAssumption
     DEF LogInv, LogTypeOK, OneAfterTheOther, OnceAlone, InHand, Goto, logVars,
         replyVars, Message
<1> QED
  BY <1>1, <1>2, <1>3, <1>4 DEF LogInv

LEMMA DispatchTaskStep == LogInv /\ DispatchTask => LogInv'
<1> SUFFICES ASSUME LogInv, DispatchTask PROVE LogInv'
    OBVIOUS
<1> USE DEF DispatchTask
<1>1. LogTypeOK'
  BY MaxMessagesAssumption
     DEF LogInv, LogTypeOK, Goto, logVars, replyVars, Message, InHand, Larger
<1>2. InReach'
  BY MaxMessagesAssumption
     DEF LogInv, LogTypeOK, InReach, Reach, Larger, Goto, logVars, replyVars
<1>3. NothingSkipped' /\ NothingSkippedBefore'
  BY DEF LogInv, LogTypeOK, NothingSkipped, NothingSkippedBefore, Accounted,
         InHand, Goto, logVars, replyVars, Message, Larger
<1>4. OneAfterTheOther' /\ OnceAlone'
  BY MaxMessagesAssumption
     DEF LogInv, LogTypeOK, OneAfterTheOther, OnceAlone, InHand, Goto, logVars,
         replyVars, Message
<1> QED
  BY <1>1, <1>2, <1>3, <1>4 DEF LogInv

LEMMA ExpireStep == LogInv /\ Expire => LogInv'
<1> SUFFICES ASSUME LogInv, Expire PROVE LogInv'
    OBVIOUS
<1> USE DEF Expire
<1> DEFINE length == written - gone
<1>0. /\ written \in Nat /\ gone \in Nat /\ mark \in Nat /\ position \in Nat
      /\ length \in Nat /\ mark' \in Nat
      /\ \A d \in Drain : at[d] \in Nat /\ from[d] \in Nat /\ upto[d] \in Nat
      /\ mark <= mark' /\ length <= mark' /\ gone' = gone + length
      /\ written' = written /\ Reach <= mark' /\ Reach' = mark'
      /\ UNCHANGED <<position, step, at, from, upto, replyVars>>
  BY MaxMessagesAssumption DEF LogInv, LogTypeOK, Larger, Reach
<1>1. LogTypeOK'
  <2>1. gone' \in 0..written /\ mark' \in 0..MaxMessages
    BY MaxMessagesAssumption DEF LogInv, LogTypeOK, Larger
  <2> QED
    BY <2>1 DEF LogInv, LogTypeOK, replyVars
<1>2. InReach'
  <2>1. position' <= Reach'
    BY <1>0 DEF LogInv, InReach, Reach, Larger
  <2>2. ASSUME NEW d \in Drain, step[d] \in {"list", "write"}
        PROVE  at[d] <= Reach'
    BY <1>0, <2>2 DEF LogInv, InReach, Reach, Larger
  <2>3. ASSUME NEW d \in Drain, step[d] = "write"
        PROVE  /\ from[d] <= gone' + at[d]
               /\ at[d] + upto[d] - from[d] <= mark' \/ from[d] = upto[d]
    <3>1. /\ from[d] <= upto[d] /\ upto[d] <= written /\ from[d] <= gone + at[d]
          /\ \/ at[d] + upto[d] - from[d] <= mark
             \/ from[d] = gone + at[d]
             \/ from[d] = upto[d]
      BY <2>3 DEF LogInv, InReach
    <3> QED
      BY <1>0, <3>1
  <2> QED
    BY <1>0, <2>1, <2>2, <2>3 DEF LogInv, InReach
<1>3. NothingSkipped' /\ NothingSkippedBefore'
  <2>1. ASSUME NEW n \in Message, gone' + mark' < n, n <= gone' + position
        PROVE  FALSE
    <3>1. position <= Reach
      BY DEF LogInv, InReach
    <3>2. n \in Nat /\ Reach \in Nat
      BY <1>0 DEF Message, Reach, Larger
    <3> QED
      BY <1>0, <2>1, <3>1, <3>2
  <2>2. ASSUME NEW d \in Drain, step[d] \in {"list", "write"},
               NEW n \in Message, gone' + mark' < n, n <= gone' + at[d]
        PROVE  FALSE
    <3>1. at[d] <= Reach
      BY <2>2 DEF LogInv, InReach
    <3>2. n \in Nat /\ Reach \in Nat
      BY <1>0 DEF Message, Reach, Larger
    <3> QED
      BY <1>0, <2>2, <3>1, <3>2
  <2> QED
    BY <1>0, <2>1, <2>2 DEF NothingSkipped, NothingSkippedBefore
<1>4. OneAfterTheOther' /\ OnceAlone'
  BY MaxMessagesAssumption
     DEF LogInv, LogTypeOK, OneAfterTheOther, OnceAlone, InHand, Goto, logVars,
         replyVars, Message
<1> QED
  BY <1>1, <1>2, <1>3, <1>4 DEF LogInv

LEMMA ReadPositionStep ==
  \A d \in Drain : LogInv /\ ReadPosition(d) => LogInv'
<1> SUFFICES ASSUME NEW d \in Drain, LogInv, ReadPosition(d) PROVE LogInv'
    OBVIOUS
<1> USE DEF ReadPosition
<1>1. LogTypeOK'
  BY MaxMessagesAssumption
     DEF LogInv, LogTypeOK, Goto, logVars, replyVars, Message, InHand, Larger
<1>2. InReach'
  BY MaxMessagesAssumption
     DEF LogInv, LogTypeOK, InReach, Reach, Larger, Goto, logVars, replyVars
<1>3. NothingSkipped' /\ NothingSkippedBefore'
  BY DEF LogInv, LogTypeOK, NothingSkipped, NothingSkippedBefore, Accounted,
         InHand, Goto, logVars, replyVars, Message, Larger
<1>4. OneAfterTheOther' /\ OnceAlone'
  BY MaxMessagesAssumption
     DEF LogInv, LogTypeOK, OneAfterTheOther, OnceAlone, InHand, Goto, logVars,
         replyVars, Message
<1> QED
  BY <1>1, <1>2, <1>3, <1>4 DEF LogInv

LEMMA ReadListStep ==
  \A d \in Drain : LogInv /\ ReadList(d) => LogInv'
<1> SUFFICES ASSUME NEW d \in Drain, LogInv, ReadList(d) PROVE LogInv'
    OBVIOUS
<1> USE DEF ReadList
<1>1. LogTypeOK'
  BY MaxMessagesAssumption
     DEF LogInv, LogTypeOK, Goto, logVars, replyVars, Message, InHand, Larger
<1>2. InReach'
  BY MaxMessagesAssumption
     DEF LogInv, LogTypeOK, InReach, Reach, Larger, Goto, logVars, replyVars
<1>3. NothingSkipped' /\ NothingSkippedBefore'
  BY DEF LogInv, LogTypeOK, NothingSkipped, NothingSkippedBefore, Accounted,
         InHand, Goto, logVars, replyVars, Message, Larger
<1>4. OneAfterTheOther' /\ OnceAlone'
  BY MaxMessagesAssumption
     DEF LogInv, LogTypeOK, OneAfterTheOther, OnceAlone, InHand, Goto, logVars,
         replyVars, Message
<1> QED
  BY <1>1, <1>2, <1>3, <1>4 DEF LogInv

LEMMA WritePositionStep ==
  \A d \in Drain : LogInv /\ WritePosition(d) => LogInv'
<1> SUFFICES ASSUME NEW d \in Drain, LogInv, WritePosition(d) PROVE LogInv'
    OBVIOUS
<1> USE DEF WritePosition
<1>0. /\ written \in Nat /\ gone \in Nat /\ mark \in Nat /\ position \in Nat
      /\ at[d] \in Nat /\ from[d] \in Nat /\ upto[d] \in Nat
      /\ gone <= written /\ mark <= MaxMessages /\ written <= MaxMessages
  BY MaxMessagesAssumption DEF LogInv, LogTypeOK
<1>a. /\ from[d] <= upto[d] /\ upto[d] <= written /\ from[d] <= gone + at[d]
      /\ at[d] <= Reach
      /\ \/ at[d] + upto[d] - from[d] <= mark
         \/ from[d] = gone + at[d]
         \/ from[d] = upto[d]
  BY DEF LogInv, InReach
<1>b. position' \in Nat /\ position' <= Reach /\ position' <= MaxMessages
  BY <1>0, <1>a, MaxMessagesAssumption DEF Reach, Larger
<1>1. LogTypeOK'
  BY <1>b, MaxMessagesAssumption DEF LogInv, LogTypeOK, Goto, logVars,
                                     replyVars
<1>2. InReach'
  BY <1>0, <1>a, <1>b
     DEF LogInv, LogTypeOK, InReach, Reach, Larger, Goto, logVars, replyVars
<1>c. \A n : Accounted(n) => Accounted(n)'
  BY DEF LogInv, LogTypeOK, Accounted, InHand, Goto, replyVars
<1>3. NothingSkipped' /\ NothingSkippedBefore'
  <2>1. ASSUME NEW n \in Message, gone + mark < n, n <= gone + position'
        PROVE  Accounted(n)'
    <3>1. CASE n <= gone + at[d]
      BY <1>c, <2>1, <3>1 DEF LogInv, NothingSkippedBefore
    <3>2. CASE ~(n <= gone + at[d])
      <4>1. n \in Nat
        BY DEF Message
      <4>2. n \in (from[d] + 1)..upto[d]
        BY <1>0, <1>a, <2>1, <3>2, <4>1
      <4> QED
        BY <4>2 DEF LogInv, LogTypeOK, Accounted, InHand, Goto
    <3> QED
      BY <3>1, <3>2
  <2> QED
    BY <1>c, <2>1
       DEF LogInv, LogTypeOK, NothingSkipped, NothingSkippedBefore, Goto,
           logVars
<1>4. OneAfterTheOther' /\ OnceAlone'
  <2>1. upto[d] <= gone + position'
    BY <1>0, <1>a
  <2>2. at[d] <= position'
    BY <1>0, <1>a
  <2>3. shown \subseteq Nat
    BY DEF LogInv, LogTypeOK, Message
  <2> QED
    BY <1>0, <1>b, <2>1, <2>2, <2>3
       DEF LogInv, LogTypeOK, OneAfterTheOther, OnceAlone, InHand, Goto,
           logVars, replyVars
<1> QED
  BY <1>1, <1>2, <1>3, <1>4 DEF LogInv

LEMMA ReplyStep ==
  \A d \in Drain : LogInv /\ Reply(d) => LogInv'
<1> SUFFICES ASSUME NEW d \in Drain, LogInv, Reply(d) PROVE LogInv'
    OBVIOUS
<1> USE DEF Reply
<1>0. step[d] \in {"write", "reply"} => InHand(d) \subseteq Message
  BY MaxMessagesAssumption DEF LogInv, LogTypeOK, InReach, InHand, Message
<1>1. LogTypeOK'
  BY <1>0 DEF LogInv, LogTypeOK, Goto, logVars, replyVars
<1>2. InReach'
  BY MaxMessagesAssumption
     DEF LogInv, LogTypeOK, InReach, Reach, Larger, Goto, logVars, replyVars
<1>3. NothingSkipped' /\ NothingSkippedBefore'
  BY DEF LogInv, LogTypeOK, NothingSkipped, NothingSkippedBefore, Accounted,
         InHand, Goto, logVars, replyVars, Message, Larger
<1>4. OneAfterTheOther' /\ OnceAlone'
  <2>1. \A e \in Drain : e # d => InHand(e)' = InHand(e)
    BY DEF LogInv, LogTypeOK, InHand, Goto
  <2>2. upto[d] <= written
    BY DEF LogInv, InReach
  <2>3. ASSUME ~overlapped, NEW n \in shown'
        PROVE  n <= gone + position /\ n <= written
    <3>1. CASE n \in shown
      BY <2>3, <3>1 DEF LogInv, OneAfterTheOther
    <3>2. CASE n \in InHand(d)
      BY <2>2, <2>3, <3>2, MaxMessagesAssumption
         DEF LogInv, LogTypeOK, OneAfterTheOther, InHand
    <3> QED
      BY <3>1, <3>2
  <2>4. ~overlapped => \A e \in Drain : step'[e] = "idle"
    BY DEF LogInv, LogTypeOK, OneAfterTheOther, Goto
  <2>5. ~overlapped => twice' = {}
    BY DEF LogInv, OneAfterTheOther, OnceAlone
  <2> QED
    BY <2>3, <2>4, <2>5 DEF OneAfterTheOther, OnceAlone, logVars
<1> QED
  BY <1>1, <1>2, <1>3, <1>4 DEF LogInv

LEMMA FailStep ==
  \A d \in Drain : LogInv /\ Fail(d) => LogInv'
<1> SUFFICES ASSUME NEW d \in Drain, LogInv, Fail(d) PROVE LogInv'
    OBVIOUS
<1> USE DEF Fail
<1>0. step[d] \in {"write", "reply"} => InHand(d) \subseteq Message
  BY MaxMessagesAssumption DEF LogInv, LogTypeOK, InReach, InHand, Message
<1>1. LogTypeOK'
  BY <1>0, MaxFailsAssumption DEF LogInv, LogTypeOK, Goto, logVars, replyVars
<1>2. InReach'
  BY MaxMessagesAssumption
     DEF LogInv, LogTypeOK, InReach, Reach, Larger, Goto, logVars, replyVars
<1>3. NothingSkipped' /\ NothingSkippedBefore'
  BY DEF LogInv, LogTypeOK, NothingSkipped, NothingSkippedBefore, Accounted,
         InHand, Goto, logVars, replyVars, Message, Larger
<1>4. OneAfterTheOther' /\ OnceAlone'
  BY MaxMessagesAssumption
     DEF LogInv, LogTypeOK, OneAfterTheOther, OnceAlone, InHand, Goto, logVars,
         replyVars, Message
<1> QED
  BY <1>1, <1>2, <1>3, <1>4 DEF LogInv

\* Type correctness, and what each drain has read, is about to write and has in
\* hand agrees with the list and with what clients were shown.
THEOREM LogInductive == LogSpec => []LogInv
<1>1. LogInit => LogInv
  BY LogInitInv
<1>2. LogInv /\ [LogNext]_drainVars => LogInv'
  <2> SUFFICES ASSUME LogInv, [LogNext]_drainVars PROVE LogInv'
      OBVIOUS
  <2>1. CASE Push \/ Close \/ DispatchTask \/ Expire
    BY <2>1, PushStep, CloseStep, DispatchTaskStep, ExpireStep
  <2>2. CASE \E d \in Drain : DrainStatus(d) \/ Fail(d)
    BY <2>2, ReadPositionStep, ReadListStep, WritePositionStep, ReplyStep,
       FailStep DEF DrainStatus
  <2>3. CASE UNCHANGED drainVars
    BY <2>3
       DEF LogInv, drainVars, logVars, replyVars, LogTypeOK, InReach, Reach,
           NothingSkipped, NothingSkippedBefore, Accounted, OneAfterTheOther,
           OnceAlone, InHand
  <2> QED
    BY <2>1, <2>2, <2>3 DEF LogNext
<1> QED
  BY <1>1, <1>2, PTL DEF LogSpec

\* drain! never passes over a message of a list that has not expired, whatever
\* requests interleave or are killed.
THEOREM SkipsNothing == LogSpec => []NothingSkipped
<1>1. LogInv => NothingSkipped
  BY DEF LogInv
<1> QED
  BY <1>1, LogInductive, PTL

\* Without two drains at once, a message is shown once.
THEOREM ShowsOnce == LogSpec => []OnceAlone
<1>1. LogInv => OnceAlone
  BY DEF LogInv
<1> QED
  BY <1>1, LogInductive, PTL
=============================================================================
