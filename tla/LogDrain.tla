------------------------------- MODULE LogDrain -------------------------------
(***************************************************************************)
(* The log of a deployment or of a task: agents push messages to a list in *)
(* Redis, drain_status returns those that came since the last call.  drain!*)
(* is three calls to Redis, and several requests may be in it at once.     *)
(*                                                                         *)
(* The list of a task expires a day after a dispatch; the key that holds   *)
(* the position does not.  Messages are numbered in the order in which     *)
(* they were pushed, the list holds those from gone + 1 on.                *)
(***************************************************************************)
EXTENDS Integers

CONSTANTS Drain,         \* requests that may drain the log at once
          MaxMessages,   \* messages ever pushed (bound)
          MaxFails       \* requests killed half way (bound)

ASSUME MaxMessagesAssumption == MaxMessages \in Nat
ASSUME MaxFailsAssumption == MaxFails \in Nat

VARIABLES
  kind,        \* whose log it is
  reachable,   \* the process of the deployment exists; the task's deployment
               \* is the active one
  written,     \* messages pushed
  gone,        \* ... of which expired with their list
  expires,     \* the list has a time to live
  position,    \* the key log_name:position
  step,        \* where a drain is
  at,          \* the position it has read
  from, upto,  \* it has read the messages from + 1 .. upto
  shown,       \* messages some client got
  twice,       \* ... more than once
  lost,        \* ... in the reply of a killed request
  overlapped,  \* two drains have been under way at once
  mark,        \* length of the longest list that expired
  fails        \* requests killed

logVars == <<kind, reachable, written, gone, expires, mark>>
replyVars == <<shown, twice, lost, fails>>
drainVars == <<logVars, position, step, at, from, upto, replyVars, overlapped>>

Message == 1..MaxMessages
Larger(a, b) == IF a < b THEN b ELSE a

LogTypeOK ==
  /\ kind \in {"deployment", "task"}
  /\ reachable \in BOOLEAN
  /\ written \in 0..MaxMessages
  /\ gone \in 0..written
  /\ expires \in BOOLEAN
  /\ position \in 0..MaxMessages
  /\ step \in [Drain -> {"idle", "list", "write", "reply"}]
  /\ at \in [Drain -> 0..MaxMessages]
  /\ from \in [Drain -> 0..MaxMessages]
  /\ upto \in [Drain -> 0..MaxMessages]
  /\ shown \in SUBSET Message
  /\ twice \in SUBSET Message
  /\ lost \in SUBSET Message
  /\ overlapped \in BOOLEAN
  /\ mark \in 0..MaxMessages
  /\ fails \in 0..MaxFails

LogInit ==
  /\ kind \in {"deployment", "task"}
  /\ reachable = TRUE
  /\ written = 0
  /\ gone = 0
  /\ expires = FALSE
  /\ position = 0
  /\ step = [d \in Drain |-> "idle"]
  /\ at = [d \in Drain |-> 0]
  /\ from = [d \in Drain |-> 0]
  /\ upto = [d \in Drain |-> 0]
  /\ shown = {}
  /\ twice = {}
  /\ lost = {}
  /\ overlapped = FALSE
  /\ mark = 0
  /\ fails = 0

-----------------------------------------------------------------------------
(* The list. *)

\* An agent or the environment builder logs a message.
Push ==
  /\ written < MaxMessages
  /\ written' = written + 1
  /\ UNCHANGED <<kind, reachable, gone, expires, mark, position, step, at, from,
                 upto, replyVars, overlapped>>

\* drain_status of a deployment looks for its process first; log_name of a task
\* has the token of the active deployment in it, and there is a new one.
Close ==
  /\ reachable
  /\ reachable' = FALSE
  /\ UNCHANGED <<kind, written, gone, expires, mark, position, step, at, from,
                 upto, replyVars, overlapped>>

\* dispatch! of the task: EXPIRE does nothing without a list.
DispatchTask ==
  /\ kind = "task" /\ reachable
  /\ gone < written
  /\ expires' = TRUE
  /\ UNCHANGED <<kind, reachable, written, gone, mark, position, step, at, from,
                 upto, replyVars, overlapped>>

Expire ==
  /\ expires
  /\ expires' = FALSE
  /\ gone' = written
  /\ mark' = Larger(mark, written - gone)
  /\ UNCHANGED <<kind, reachable, written, position, step, at, from, upto,
                 replyVars, overlapped>>

-----------------------------------------------------------------------------
(* drain!, call by call. *)

Goto(d, p) == step' = [step EXCEPT ![d] = p]

\* $redis.get
ReadPosition(d) ==
  /\ step[d] = "idle" /\ reachable
  /\ Goto(d, "list")
  /\ at' = [at EXCEPT ![d] = position]
  /\ overlapped' = (overlapped \/ \E e \in Drain : step[e] # "idle")
  /\ UNCHANGED <<logVars, position, from, upto, replyVars>>

\* $redis.lrange from the position to the end; beyond the end it is empty.
ReadList(d) ==
  /\ step[d] = "list"
  /\ Goto(d, "write")
  /\ upto' = [upto EXCEPT ![d] = written]
  /\ from' = [from EXCEPT ![d] = IF gone + at[d] < written THEN gone + at[d]
                                                           ELSE written]
  /\ UNCHANGED <<logVars, position, at, replyVars, overlapped>>

\* Mutant: the position becomes the length the list has by now.
WriteLength(d) ==
  /\ step[d] = "write"
  /\ Goto(d, "reply")
  /\ position' = written - gone
  /\ UNCHANGED <<logVars, at, from, upto, replyVars, overlapped>>

\* Mutant: the position becomes the number of messages just read.
WriteCount(d) ==
  /\ step[d] = "write"
  /\ Goto(d, "reply")
  /\ position' = upto[d] - from[d]
  /\ UNCHANGED <<logVars, at, from, upto, replyVars, overlapped>>

\* $redis.set of the old position plus the number of messages read.
WritePosition(d) ==
  /\ step[d] = "write"
  /\ Goto(d, "reply")
  /\ position' = at[d] + upto[d] - from[d]
  /\ UNCHANGED <<logVars, at, from, upto, replyVars, overlapped>>

InHand(d) == IF step[d] \in {"write", "reply"} THEN (from[d] + 1)..upto[d]
                                             ELSE {}

\* drain_status renders the messages.
Reply(d) ==
  /\ step[d] = "reply"
  /\ Goto(d, "idle")
  /\ shown' = shown \union InHand(d)
  /\ twice' = twice \union (InHand(d) \intersect shown)
  /\ UNCHANGED <<logVars, position, at, from, upto, lost, fails, overlapped>>

\* The worker is killed, or its client has gone.
Fail(d) ==
  /\ step[d] # "idle"
  /\ fails < MaxFails
  /\ fails' = fails + 1
  /\ Goto(d, "idle")
  /\ lost' = IF step[d] = "reply" THEN lost \union InHand(d) ELSE lost
  /\ UNCHANGED <<logVars, position, at, from, upto, shown, twice, overlapped>>

-----------------------------------------------------------------------------
DrainStatus(d) ==
  ReadPosition(d) \/ ReadList(d) \/ WritePosition(d) \/ Reply(d)

LogNext ==
  \/ Push \/ Close \/ DispatchTask \/ Expire
  \/ \E d \in Drain : DrainStatus(d) \/ Fail(d)

LogSpec == LogInit /\ [][LogNext]_drainVars

-----------------------------------------------------------------------------
(* Properties. *)

\* What becomes of a message that was taken from the list.
Accounted(n) ==
  \/ n \in shown \union lost
  \/ \E d \in Drain : step[d] = "reply" /\ n \in InHand(d)

\* However requests interleave and die, no message before the position is
\* passed over: it was shown, or went with the reply of a killed request.  The
\* exception: once a list has expired, as many messages of the next one may be
\* passed over as the expired list had, since its position outlives it.
NothingSkipped ==
  \A n \in Message :
    gone + mark < n /\ n <= gone + position => Accounted(n)

\* A message is shown once, across expiries and killed requests, unless two
\* requests were in drain! at the same time.
OnceAlone == overlapped \/ twice = {}

-----------------------------------------------------------------------------
(* The inductive invariant behind them. *)

\* Neither the position nor one that a request is about to write lies beyond
\* both the list and the longest list that expired.
Reach == Larger(mark, written - gone)
InReach ==
  /\ position <= Reach
  /\ \A d \in Drain :
       /\ step[d] \in {"list", "write"} => at[d] <= Reach
       /\ step[d] \in {"write", "reply"} =>
            from[d] <= upto[d] /\ upto[d] <= written
       /\ step[d] = "write" => from[d] <= gone + at[d]
       /\ step[d] = "write" =>
            \/ at[d] + upto[d] - from[d] <= mark
            \/ from[d] = gone + at[d]
            \/ from[d] = upto[d]

\* What a request has read as the position, no message is missing before it.
NothingSkippedBefore ==
  \A d \in Drain, n \in Message :
    /\ step[d] \in {"list", "write"}
    /\ gone + mark < n /\ n <= gone + at[d]
    => Accounted(n)

\* While drains come one after the other, what was shown lies before the
\* position, and what the one under way has in hand comes after.
OneAfterTheOther ==
  ~overlapped =>
    /\ \A d, e \in Drain : step[d] # "idle" /\ step[e] # "idle" => d = e
    /\ \A n \in shown : n <= gone + position /\ n <= written
    /\ \A d \in Drain : step[d] # "idle" => InHand(d) \intersect shown = {}
    /\ \A d \in Drain :
         /\ step[d] \in {"list", "write"} => at[d] = position
         /\ step[d] = "reply" => upto[d] <= gone + position

LogInv ==
  LogTypeOK /\ InReach /\ NothingSkipped /\ NothingSkippedBefore
    /\ OneAfterTheOther /\ OnceAlone
=============================================================================
