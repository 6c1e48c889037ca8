------------------------------ MODULE JQueryAjax ------------------------------
(***************************************************************************)
(* jQuery.ajax of the vendored jQuery 1.6.1 with its XMLHttpRequest        *)
(* transport: every call is a record, and what runs without returning to   *)
(* the browser is one step.  The handlers of the page are choices: they    *)
(* return, throw, or abort the call at hand.                               *)
(***************************************************************************)
EXTENDS Integers, Sequences, SequencesExt, FiniteSets

CONSTANTS Call,     \* calls, each made at most once (bound)
          Extra,    \* callbacks that scripts attach to a jqXHR they hold
          Timed,    \* calls with a timeout
          Held      \* calls whose jqXHR a script keeps

ASSUME TimedAssumption == Timed \subseteq Call
ASSUME HeldAssumption == Held \subseteq Call

VARIABLES call,     \* the closure of each call of jQuery.ajax
          active,   \* jQuery.active
          upset     \* a handler has thrown or aborted a call on ajaxSend

ajaxVars == <<call, active, upset>>

Option == "option"                       \* the callback given in the options
Callback == Extra \union {Option}
ASSUME ExtraAssumption == Option \notin Extra
Entry == {"done", "fail", "complete"} \X Callback

-----------------------------------------------------------------------------
(* jQuery._Deferred: callbacks are run once, in order; one that throws     *)
(* leaves the rest in the list, for the next call of done().               *)

New == [list |-> <<>>, fired |-> FALSE, cancelled |-> FALSE]

\* Those that resolveWith runs when the k-th of them throws, or none (k = 0).
Fires(d, k) == IF d.cancelled \/ d.fired THEN <<>>
               ELSE IF k = 0 THEN d.list ELSE SubSeq(d.list, 1, k)

\* Mutant: the callbacks stay in the list once run.
ResolveWithKept(d, k) ==
  IF d.cancelled \/ d.fired THEN d ELSE [d EXCEPT !.fired = TRUE]

ResolveWith(d, k) ==
  IF d.cancelled \/ d.fired THEN d
  ELSE [d EXCEPT !.fired = TRUE,
                 !.list = SubSeq(@, Len(Fires(d, k)) + 1, Len(@))]

Push(d, e) == IF d.cancelled THEN d ELSE [d EXCEPT !.list = Append(@, e)]

\* done(): what is added to a deferred that has fired makes it fire again.
Done(d, e, k) ==
  IF d.fired THEN ResolveWith([Push(d, e) EXCEPT !.fired = FALSE], k)
             ELSE Push(d, e)

DoneFires(d, e, k) ==
  IF d.fired THEN Fires([Push(d, e) EXCEPT !.fired = FALSE], k) ELSE <<>>

Cancel(d) == [d EXCEPT !.cancelled = TRUE, !.list = <<>>]

\* jQuery.Deferred: the first callback of each list cancels the other list.
Settle(r, ok, k) ==
  LET d == IF ok THEN r.done ELSE r.fail
      runs == Fires(d, k)
      other == IF ok THEN r.fail ELSE r.done IN
  IF d.cancelled \/ d.fired THEN r
  ELSE [r EXCEPT !.done = IF ok THEN ResolveWith(d, k) ELSE Cancel(other),
                 !.fail = IF ok THEN Cancel(other) ELSE ResolveWith(d, k),
                 !.ran = @ \o runs]

Complete(r, k) == [r EXCEPT !.complete = ResolveWith(@, k),
                            !.ran = @ \o Fires(r.complete, k)]

-----------------------------------------------------------------------------
(* The end of a call. *)

\* Where a handler throws: a callback (the k-th of its list), a handler of a
\* global event, or nowhere.
NoThrow == [at |-> "nowhere", k |-> 0]
Throw == {NoThrow} \union [at : {"callback", "complete"}, k : {1, 2}]
                   \union [at : {"ajaxError", "ajaxComplete"}, k : {0}]

Possible(r, ok, t) ==
  CASE t.at = "callback" -> t.k <= Len(Fires(IF ok THEN r.done ELSE r.fail, 0))
    [] t.at = "complete" -> t.k <= Len(Fires(r.complete, 0))
    [] OTHER -> TRUE

\* done( status, ... ): the deferred, then the complete callbacks.
Finished(r, ok, t) ==
  LET s == Settle([r EXCEPT !.state = 2, !.timer = FALSE, !.transport = FALSE],
                  ok, IF t.at = "callback" THEN t.k ELSE 0) IN
  IF r.state = 2 THEN r
  ELSE IF t.at \in {"callback", "ajaxError"} THEN s
  ELSE Complete(s, IF t.at = "complete" THEN t.k ELSE 0)

\* Mutant: done() does not see that it was called before.
CountedAgain(r, t) == IF t = NoThrow THEN 1 ELSE 0

\* What done() takes from jQuery.active, when it comes that far.
Counted(r, t) == IF r.state # 2 /\ t = NoThrow THEN 1 ELSE 0

\* transport.abort: the listener is taken off and the request aborted; then
\* done( 0, statusText ).
Aborted(r, t) == Finished([r EXCEPT !.listening = FALSE], FALSE, t)

-----------------------------------------------------------------------------
(* Calls.  A call that has not been made has no jqXHR. *)

Fresh == [state |-> 0, made |-> FALSE, transport |-> FALSE,
          listening |-> FALSE, timer |-> FALSE,
          done |-> New, fail |-> New, complete |-> New, ran |-> <<>>]

AjaxInit == call = [c \in Call |-> Fresh] /\ active = 0 /\ upset = FALSE

Opened == [Fresh EXCEPT !.made = TRUE]

\* The callbacks of the options are installed after beforeSend.
Installed == [Opened EXCEPT !.done.list = <<<<"done", Option>>>>,
                            !.fail.list = <<<<"fail", Option>>>>,
                            !.complete.list = <<<<"complete", Option>>>>]

Sent(c) == [Installed EXCEPT !.state = 1, !.transport = TRUE,
                             !.listening = TRUE, !.timer = c \in Timed]

\* How far jQuery.ajax comes: it sends; a prefilter aborts; a handler of
\* ajaxStart throws; beforeSend vetoes or throws; there is no transport;
\* a handler of ajaxSend aborts the call or throws; the request cannot be sent.
Hook == {"send", "prefilter", "startThrows", "veto", "beforeThrows",
         "noTransport", "sendAborts", "sendThrows", "openThrows"}
Throws == {"startThrows", "beforeThrows", "sendThrows"}
Failing == {"veto", "noTransport", "openThrows"}    \* done() before it returns
Start == {<<h, NoThrow>> : h \in Hook} \union Failing \X Throw

\* An abort on ajaxSend ends the call and drops the transport; sending then
\* fails with state 1, so done() runs a second time.
Twice(t) == Finished([Finished(Installed, FALSE, NoThrow) EXCEPT !.state = 1],
                     FALSE, t)

Made(c, hook, t) ==
  CASE hook = "send" -> Sent(c)
    [] hook \in {"prefilter", "veto"} -> Aborted(Opened, t)
    [] hook \in {"startThrows", "beforeThrows"} -> Opened
    [] hook \in {"noTransport", "openThrows"} -> Finished(Installed, FALSE, t)
    [] hook = "sendAborts" -> Twice(t)
    [] hook = "sendThrows" -> [Installed EXCEPT !.transport = TRUE]

Begin(c, hook, t) ==
  /\ ~call[c].made
  /\ hook = "startThrows" => active = 0
  /\ Possible(IF hook = "veto" THEN Opened ELSE Installed, FALSE, t)
  /\ call' = [call EXCEPT ![c] = Made(c, hook, t)]
  /\ active' = active +
       (CASE hook \in {"prefilter"} -> 0
          [] hook \in Failing -> 1 - Counted(Opened, t)
          [] hook = "sendAborts" -> -1
          [] OTHER -> 1)
  /\ upset' = (upset \/ t # NoThrow \/ hook \in Throws \union {"sendAborts"})

\* done() with its effects on the page.
Finish(c, r, ok, t) ==
  /\ IF r.state = 2 THEN t = NoThrow ELSE Possible(r, ok, t)
  /\ call' = [call EXCEPT ![c] = Finished(r, ok, t)]
  /\ active' = active - Counted(r, t)
  /\ upset' = (upset \/ t # NoThrow)

\* readyState 4: the listener is called, once, with what came.
Answer(c, ok, t) ==
  /\ call[c].listening
  /\ Finish(c, [call[c] EXCEPT !.listening = FALSE], ok, t)

TimeOut(c, t) ==
  /\ call[c].timer
  /\ Finish(c, [call[c] EXCEPT !.listening = FALSE], FALSE, t)

\* A script that holds the jqXHR calls abort(), at any time.
Abort(c, t) ==
  /\ c \in Held /\ call[c].made
  /\ Finish(c, [call[c] EXCEPT !.listening = FALSE], FALSE, t)

\* ... or adds a callback that no list has had yet (bound); it may throw, as
\* those may that an earlier throw left in the list.
Attach(c, list, x, k) ==
  /\ c \in Held /\ call[c].made
  /\ LET d == call[c][list]
         runs == DoneFires(d, <<list, x>>, k) IN
     /\ ~ \E i \in 1..Len(d.list) : d.list[i] = <<list, x>>
     /\ ~ \E i \in 1..Len(call[c].ran) : call[c].ran[i] = <<list, x>>
     /\ k <= Len(DoneFires(d, <<list, x>>, 0))
     /\ call' = [call EXCEPT ![c][list] = Done(d, <<list, x>>, k),
                             ![c].ran = @ \o runs]
     /\ upset' = (upset \/ k # 0)
  /\ UNCHANGED active

-----------------------------------------------------------------------------
Outcome(r) == IF r.done.fired THEN "success"
              ELSE IF r.fail.fired THEN "error" ELSE "pending"

Open(c) == call[c].made /\ call[c].state # 2

-----------------------------------------------------------------------------
(* What every call keeps to, whatever its callbacks do.                    *)

Lists == {"done", "fail", "complete"}
Deferred == [list : Seq(Entry), fired : BOOLEAN, cancelled : BOOLEAN]
Record == [state : 0..2, made : BOOLEAN, transport : BOOLEAN,
           listening : BOOLEAN, timer : BOOLEAN, done : Deferred,
           fail : Deferred, complete : Deferred, ran : Seq(Entry)]

Distinct(s) == \A i, j \in 1..Len(s) : s[i] = s[j] => i = j

\* A list holds callbacks of its own that have not run; the one of the options
\* is the first of them until the list fires.
Waiting(d, l, ran) ==
  /\ d \in Deferred /\ Distinct(d.list)
  /\ \A i \in 1..Len(d.list) :
       /\ d.list[i][1] = l
       /\ \A j \in 1..Len(ran) : ran[j] # d.list[i]
       /\ d.list[i] = <<l, Option>> => i = 1 /\ ~d.fired
  /\ d.cancelled => d.list = <<>> /\ ~d.fired

Heard(d, l, ran) == \A j \in 1..Len(ran) : ran[j][1] = l => d.fired

Listed(r) ==
  /\ Waiting(r.done, "done", r.ran) /\ Heard(r.done, "done", r.ran)
  /\ Waiting(r.fail, "fail", r.ran) /\ Heard(r.fail, "fail", r.ran)
  /\ Waiting(r.complete, "complete", r.ran)
  /\ Heard(r.complete, "complete", r.ran)
  /\ Distinct(r.ran)

\* One of done and fail fires, and then complete may.
OneEnd(r) ==
  /\ r.done.fired <=> r.fail.cancelled
  /\ r.fail.fired <=> r.done.cancelled
  /\ r.complete.fired => r.done.fired \/ r.fail.fired
  /\ ~r.complete.cancelled

OptionWaits(r) == \E i \in 1..Len(r.complete.list) :
                    r.complete.list[i] = <<"complete", Option>>

UnderWay(r) ==
  /\ r.made \/ r = Fresh
  /\ r.listening => r.state = 1 /\ r.transport
  /\ r.timer => r.state = 1
  /\ r.state = 1 => ~r.complete.fired /\ OptionWaits(r)

Sound(r) == r \in Record /\ Listed(r) /\ OneEnd(r) /\ UnderWay(r)
===============================================================================
