----------------------------- MODULE PeriodicTasks -----------------------------
(***************************************************************************)
(* The worker that dispatches periodic tasks (rake periodictask:run_worker) *)
(* and the clients that edit them meanwhile.                               *)
(*                                                                         *)
(* Time is a clock of HoursPerDay hours of TicksPerHour ticks.  A pass of  *)
(* the worker comes every half minute, so that one fits between two ticks. *)
(* Rows are written as Rails does it: save writes the whole serialized     *)
(* config (interval, start_hour, last_run) of the copy that was loaded,    *)
(* other columns when they were changed.                                   *)
(***************************************************************************)
EXTENDS Integers

CONSTANTS Task,            \* rows of periodic tasks
          NoTask,          \* no task
          HoursPerDay, TicksPerHour,
          StartHour,       \* what clients set start_hour to: it is not validated
          MaxEdits,        \* what users do to the tasks and their app (bound)
          MaxCrashes       \* times the worker dies (bound)

ASSUME NoTaskAssumption == NoTask \notin Task
ASSUME ClockAssumption ==
  HoursPerDay \in Nat \ {0} /\ TicksPerHour \in Nat \ {0}
ASSUME StartHourAssumption == StartHour \subseteq Int
ASSUME BoundsAssumption == MaxEdits \in Nat /\ MaxCrashes \in Nat

VARIABLES
  now,         \* ticks since midnight
  clock,       \* "passed": since the last tick a pass has begun and ended
  task,        \* enabled, interval and start_hour of the rows
  age,         \* ticks since last_run, as far as it matters
  sound,       \* the task has a command, whose app has an active deployment
               \* with an install; otherwise dispatch! raises
  pc,          \* the worker is asleep or in a pass
  current,     \* the task it has dispatched and whose ran! it calls next
  copy,        \* what it has loaded of the tasks it is not yet through with
  edit,        \* what a client's request has loaded
  edits,       \* ... and what users have done so far
  crashes,     \* crashes so far
  since,       \* ticks since the worker has dispatched a task
  disturbed    \* its last_run was lost since then: in a crash, or in an edit

timeVars == <<now, clock>>
rowVars == <<task, age, sound>>
workerVars == <<pc, current, copy, crashes>>
clientVars == <<edit, edits>>
ghostVars == <<since, disturbed>>
vars == <<timeVars, rowVars, workerVars, clientVars, ghostVars>>

TicksPerDay == HoursPerDay * TicksPerHour
Hour == 0..(HoursPerDay - 1)
Interval == {"daily", "hourly", "unknown"}      \* next_run raises on any other
Never == TicksPerHour + 1                       \* last_run is Time.at(0)
Row == [enabled : BOOLEAN, interval : Interval, start_hour : StartHour]
Copy == [row : Row, age : 0..Never]
NoEdit == [of |-> NoTask]
NoCopy == [age |-> -1]

TypeOK ==
  /\ now \in 0..(TicksPerDay - 1)
  /\ clock \in {"ticked", "pass", "passed"}
  /\ task \in [Task -> Row]
  /\ age \in [Task -> 0..Never]
  /\ sound \in [Task -> BOOLEAN]
  /\ pc \in {"asleep", "pass"}
  /\ current \in Task \union {NoTask}
  /\ copy \in [Task -> Copy \union {NoCopy}]
  /\ edit = NoEdit \/ edit \in [of : Task, age : 0..Never]
  /\ edits \in 0..MaxEdits
  /\ crashes \in 0..MaxCrashes
  /\ since \in [Task -> 0..TicksPerHour]
  /\ disturbed \in [Task -> BOOLEAN]

\* Enabled tasks of all schedules within a day; the worker has just been
\* started.
Init ==
  /\ now = 0
  /\ clock = "ticked"
  /\ task \in [Task -> [enabled : {TRUE}, interval : {"daily", "hourly"},
                        start_hour : StartHour \intersect Hour]]
  /\ age = [t \in Task |-> Never]
  /\ sound = [t \in Task |-> TRUE]
  /\ pc = "asleep"
  /\ current = NoTask
  /\ copy = [t \in Task |-> NoCopy]
  /\ edit = NoEdit
  /\ edits = 0
  /\ crashes = 0
  /\ since = [t \in Task |-> TicksPerHour]
  /\ disturbed = [t \in Task |-> FALSE]

-----------------------------------------------------------------------------
(* The clock. *)

Loaded(t) == copy[t] # NoCopy
Older(a) == IF a < TicksPerHour THEN a + 1 ELSE a

Tick ==
  /\ clock = "passed"
  /\ clock' = "ticked"
  /\ now' = (now + 1) % TicksPerDay
  /\ age' = [t \in Task |-> Older(age[t])]
  /\ copy' = [t \in Task |-> IF Loaded(t) THEN [copy[t] EXCEPT !.age = Older(@)]
                                         ELSE NoCopy]
  /\ edit' = IF edit = NoEdit THEN edit ELSE [edit EXCEPT !.age = Older(@)]
  /\ since' = [t \in Task |-> Older(since[t])]
  /\ UNCHANGED <<task, sound, pc, current, crashes, edits, disturbed>>

-----------------------------------------------------------------------------
(* The worker. *)

HourNow == now \div TicksPerHour

\* Mutant: a task whose hour has come waits for the next day.
NextDailyLate(c) ==
  c.row.start_hour + (IF HourNow >= c.row.start_hour THEN HoursPerDay ELSE 0)

\* next_run, as the hour of today.  A daily task whose hour is over is due
\* tomorrow; whether it has run today is not looked at.
NextDaily(c) ==
  c.row.start_hour + (IF HourNow > c.row.start_hour THEN HoursPerDay ELSE 0)

NextHourly(c) ==
  CASE c.age = Never                        -> c.row.start_hour
    [] c.age # Never /\ c.age >= TicksPerHour -> HourNow
    [] OTHER                                -> HourNow + 1

\* Time.local takes the hours from 0 to 24, which is midnight.
NextRunRaises(c) ==
  \/ c.row.interval = "unknown"
  \/ /\ c.row.interval = "hourly" /\ c.age = Never
     /\ c.row.start_hour \notin 0..HoursPerDay

Due(c) ==
  /\ ~NextRunRaises(c)
  /\ \/ c.row.interval = "daily" /\ NextDaily(c) <= HourNow
     \/ c.row.interval = "hourly" /\ NextHourly(c) <= HourNow

Stored(t) == [row |-> task[t], age |-> age[t]]

\* PeriodicTask.all; what follows looks at these copies, in any order.
BeginPass ==
  /\ pc = "asleep"
  /\ pc' = "pass"
  /\ copy' = [t \in Task |-> Stored(t)]
  /\ clock' = IF clock = "ticked" THEN "pass" ELSE clock
  /\ UNCHANGED <<now, rowVars, current, crashes, clientVars, ghostVars>>

\* The pass is over: all tasks were looked at, or one raised and was rescued.
PassOver ==
  /\ pc' = "asleep"
  /\ copy' = [t \in Task |-> NoCopy]
  /\ clock' = IF clock = "pass" THEN "passed" ELSE clock

EndPass ==
  /\ pc = "pass" /\ \A t \in Task : ~Loaded(t)
  /\ PassOver
  /\ UNCHANGED <<now, rowVars, current, crashes, clientVars, ghostVars>>

LooksAt(t) == pc = "pass" /\ current = NoTask /\ Loaded(t)

\* should_run_now is false.
Skip(t) ==
  /\ LooksAt(t)
  /\ \/ ~copy[t].row.enabled
     \/ ~NextRunRaises(copy[t]) /\ ~Due(copy[t])
  /\ copy' = [copy EXCEPT ![t] = NoCopy]
  /\ UNCHANGED <<timeVars, rowVars, pc, current, crashes, clientVars,
                 ghostVars>>

\* next_run or dispatch! raises: the tasks not looked at yet have to wait.
Raise(t) ==
  /\ LooksAt(t)
  /\ copy[t].row.enabled
  /\ \/ NextRunRaises(copy[t])
     \/ Due(copy[t]) /\ ~sound[t]
  /\ PassOver
  /\ UNCHANGED <<now, rowVars, current, crashes, clientVars, ghostVars>>

Dispatch(t) ==
  /\ LooksAt(t)
  /\ copy[t].row.enabled /\ Due(copy[t]) /\ sound[t]
  /\ current' = t
  /\ since' = [since EXCEPT ![t] = 0]
  /\ disturbed' = [disturbed EXCEPT ![t] = FALSE]
  /\ UNCHANGED <<timeVars, rowVars, pc, copy, crashes, clientVars>>

\* Mutant: last_run is set in the copy, and not saved.
RanUnsaved ==
  /\ current # NoTask
  /\ current' = NoTask
  /\ copy' = [copy EXCEPT ![current] = NoCopy]
  /\ UNCHANGED <<timeVars, rowVars, pc, crashes, clientVars, ghostVars>>

\* ran! writes the config of the copy, which undoes an edit made meanwhile.
Ran ==
  /\ current # NoTask
  /\ current' = NoTask
  /\ copy' = [copy EXCEPT ![current] = NoCopy]
  /\ age' = [age EXCEPT ![current] = 0]
  /\ task' = [task EXCEPT
       ![current] = [copy[current].row EXCEPT !.enabled = task[current].enabled]]
  /\ UNCHANGED <<timeVars, sound, pc, crashes, clientVars, ghostVars>>

\* The worker dies; its supervisor starts it again.
Crash ==
  /\ pc # "asleep"
  /\ crashes < MaxCrashes
  /\ crashes' = crashes + 1
  /\ pc' = "asleep"
  /\ current' = NoTask
  /\ copy' = [t \in Task |-> NoCopy]
  /\ clock' = IF clock = "pass" THEN "ticked" ELSE clock
  /\ disturbed' = [t \in Task |-> disturbed[t] \/ t = current]
  /\ UNCHANGED <<now, rowVars, clientVars, since>>

-----------------------------------------------------------------------------
(* Clients. *)

\* PUT loads the task...
LoadTask(t) ==
  /\ edit = NoEdit
  /\ edits < MaxEdits
  /\ edits' = edits + 1
  /\ edit' = [of |-> t, age |-> age[t]]
  /\ UNCHANGED <<timeVars, rowVars, workerVars, ghostVars>>

\* ...and saves it, with the last_run it had then.
SaveTask ==
  /\ edit # NoEdit
  /\ edit' = NoEdit
  /\ \E r \in Row : task' = [task EXCEPT ![edit.of] = r]
  /\ age' = [age EXCEPT ![edit.of] = edit.age]
  /\ disturbed' = [disturbed EXCEPT ![edit.of] = @ \/ edit.age # age[edit.of]]
  /\ UNCHANGED <<timeVars, sound, workerVars, edits, since>>

\* A deployment fails to replace the one undeployed, a command is destroyed; or
\* the user repairs it.
Change(t) ==
  /\ edits < MaxEdits
  /\ edits' = edits + 1
  /\ sound' = [sound EXCEPT ![t] = ~@]
  /\ UNCHANGED <<timeVars, task, age, workerVars, edit, ghostVars>>

-----------------------------------------------------------------------------
Worker ==
  \/ BeginPass \/ EndPass \/ Ran
  \/ \E t \in Task : Skip(t) \/ Raise(t) \/ Dispatch(t)

Next ==
  \/ Tick \/ Worker \/ Crash \/ SaveTask
  \/ \E t \in Task : LoadTask(t) \/ Change(t)

Spec == Init /\ [][Next]_vars

\* Time passes, and the worker is a loop under a supervisor.
Fairness == WF_vars(Tick) /\ WF_vars(Worker)

FairSpec == Spec /\ Fairness

-----------------------------------------------------------------------------
(* Properties. *)

Dispatched(t) == current # t /\ current' = t

\* The worker dispatches an hourly task again only when an hour has passed --
\* unless it died before last_run was saved, or a client that had loaded the
\* task before that saved it afterwards.
HourlyOnce ==
  [][\A t \in Task :
       Dispatched(t) /\ copy[t].row.interval = "hourly" =>
         since[t] = TicksPerHour \/ disturbed[t]]_vars

NothingRaises ==
  \A t \in Task :
    task[t].enabled => sound[t] /\ ~NextRunRaises(Stored(t))

\* The clock comes to the start hour of a daily task, or of an hourly one that
\* has not run yet, only if it is an hour of the day or one before: next_run of
\* the others is always tomorrow, or later.
Reached(t) ==
  \/ task[t].start_hour < HoursPerDay
  \/ task[t].interval = "hourly" /\ age[t] # Never

\* When from some time on nothing raises, every enabled task whose start hour
\* is reached runs again and again: what other tasks raised before, edits,
\* crashes and clock hours do not make the worker pass over it for ever.  An
\* edit that sets a start hour past the end of the day does.
RunsAgain ==
  \A t \in Task :
    <>[](NothingRaises /\ task[t].enabled /\ Reached(t)) => []<>(current = t)

-----------------------------------------------------------------------------
(* The inductive invariant behind HourlyOnce. *)

\* last_run, in the row and in what the worker goes by, is not older than the
\* last dispatch, unless that has just been made or was disturbed.
Fresh(t, a) == disturbed[t] \/ since[t] = TicksPerHour \/ a <= since[t]
LastRunKept ==
  \A t \in Task :
    t # current => Fresh(t, age[t]) /\ (Loaded(t) => Fresh(t, copy[t].age))

\* ran! is called in a pass, and only for a task that was loaded.
CurrentLoaded == current # NoTask => pc = "pass" /\ Loaded(current)

IInv == TypeOK /\ LastRunKept /\ CurrentLoaded
=============================================================================
