----------------------------- MODULE RemoteForms -----------------------------
(***************************************************************************)
(* The forms of a page under jquery_ujs.js, on top of jQuery.ajax: the     *)
(* handlers that jquery_ujs binds live to forms and their buttons send a   *)
(* remote form as a call, disable its button for the time of the call and  *)
(* give it back its label at the end.  Handlers of the page may decline,   *)
(* stop an event before jquery_ujs sees it, or throw.  A link in a form    *)
(* may make a call of its own, or submit a form made for it.               *)
(***************************************************************************)
EXTENDS JQueryAjax

CONSTANTS Form,      \* forms with one submit button with data-disable-with
          Remote,    \* those with data-remote
          NoForm

ASSUME RemoteAssumption == Remote \subseteq Form
ASSUME NoFormAssumption == NoForm \notin Form

VARIABLES form,      \* the button of each form
          timer,     \* forms whose 13 ms timer runs
          page,      \* "left" once a native submission has replaced it
          owner,     \* the form a call was made for (NoForm: a link)
          spoilt,    \* forms whose events a page handler has cut short
          scripted   \* remote forms a script has submitted

formVars == <<form, timer, page, owner, spoilt, scripted>>
vars == <<ajaxVars, formVars>>

Label == {"own", "wait"}

TypeOK ==
  /\ \A c \in Call :
       /\ call[c].state \in 0..2
       /\ {call[c].made, call[c].transport, call[c].listening, call[c].timer}
            \subseteq BOOLEAN
       /\ \A l \in {"done", "fail", "complete"} :
            /\ ToSet(call[c][l].list) \subseteq Entry
            /\ {call[c][l].fired, call[c][l].cancelled} \subseteq BOOLEAN
       /\ call[c].listening => call[c].state = 1 /\ call[c].transport
       /\ call[c].timer => call[c].state = 1
  /\ active \in Int /\ upset \in BOOLEAN
  /\ form \in [Form -> [disabled : BOOLEAN, label : Label,
                        kept : Label \union {"none"}]]
  /\ timer \subseteq Form \ Remote
  /\ page \in {"here", "left"}
  /\ owner \in [Call -> Form \union {NoForm}]
  /\ {spoilt, scripted} \subseteq SUBSET Form

Init ==
  /\ AjaxInit
  /\ form = [f \in Form |-> [disabled |-> FALSE, label |-> "own",
                             kept |-> "none"]]
  /\ timer = {}
  /\ page = "here"
  /\ owner = [c \in Call |-> NoForm]
  /\ spoilt = {} /\ scripted = {}

-----------------------------------------------------------------------------
(* The button. *)

\* disableSelector matches a button that is disabled already: its label is
\* kept again, whatever it is now.
DisableFormElements(b) ==
  [b EXCEPT !.kept = b.label, !.label = "wait", !.disabled = TRUE]

\* Mutant: enableSelector matches enabled buttons.
EnableFormElementsEnabled(b) ==
  IF ~b.disabled THEN [b EXCEPT !.label = b.kept, !.disabled = FALSE] ELSE b

\* enableSelector matches disabled buttons only.
EnableFormElements(b) ==
  IF b.disabled THEN [b EXCEPT !.label = b.kept, !.disabled = FALSE] ELSE b

\* The complete callback of the options triggers ajax:complete on the form.
Completes(c) ==
  LET complete == <<"complete", Option>> IN
  complete \in ToSet(call'[c].ran) \ ToSet(call[c].ran)

\* Mutant: it is ajax:success that enables the button.
EnablesOnSuccess(c) ==
  LET success == <<"done", Option>> IN
  success \in ToSet(call'[c].ran) \ ToSet(call[c].ran)

\* jquery_ujs's handler of ajax:complete, when the event reaches it.
Enables(c) == Completes(c)

\* The buttons after a step of call c of form f: b is its button before the
\* call ends, stopped says that a page handler keeps an event from jquery_ujs.
\* The events of a link pass its form, whose button they do not concern.
Buttons(f, c, b, stopped) ==
  form' = [g \in Form |-> IF g # f THEN form[g]
                          ELSE IF Enables(c) /\ ~stopped
                          THEN EnableFormElements(b) ELSE b]

\* A handler of the page keeps ajax:complete, or the complete callback, from
\* being reached.
Silences(t, stopped) == stopped \/ t.at \in {"callback", "ajaxError"}

-----------------------------------------------------------------------------
(* Submitting. *)

Here == page = "here"
Running(f) == {c \in Call : owner[c] = f /\ call[c].state = 1}

\* A click needs a button that is not disabled; a script submits whatever the
\* button is.  When the form, its required inputs or ajax:before decline,
\* nothing changes here.
Way == {"click", "script"}
MaySubmit(f, way) == way = "click" => ~form[f].disabled
ByScript(f, way) ==
  IF way = "script" THEN scripted \union {f} ELSE scripted

\* The browser submits the form itself: the answer replaces the page, or is
\* something the browser does not show in it.
Native == page' \in {"here", "left"}

\* A file has been chosen: the browser sends the form, unless a handler of
\* ajax:aborted:file returns false.
SendFiles(f, way) ==
  /\ Here /\ MaySubmit(f, way)
  /\ f \in Remote
  /\ scripted' = ByScript(f, way)
  /\ Native
  /\ UNCHANGED <<ajaxVars, form, timer, owner, spoilt>>

\* handleRemote.  The event ajax:beforeSend bubbles to the document, where
\* jquery_ujs disables the button; early says that a handler of the page
\* stops it, vetoes or throws before that.  What throws leaves the submission
\* of a click to the browser.
HandleRemote(f, way, c, hook, t, early, stopped) ==
  LET asked == hook \notin {"prefilter", "startThrows"}
      d == IF asked /\ ~early THEN DisableFormElements(form[f]) ELSE form[f] IN
  /\ early => asked
  /\ Begin(c, hook, t)
  /\ owner' = [owner EXCEPT ![c] = f]
  /\ stopped => Completes(c)
  /\ Buttons(f, c, d, stopped)
  /\ spoilt' = IF early \/ hook \in {"veto", "beforeThrows", "sendThrows"}
                     \/ Silences(t, stopped)
               THEN spoilt \union {f} ELSE spoilt
  /\ scripted' = ByScript(f, way)

SubmitRemote(f, way, c, hook, t, early, stopped) ==
  /\ Here /\ MaySubmit(f, way)
  /\ f \in Remote
  /\ HandleRemote(f, way, c, hook, t, early, stopped)
  /\ IF way = "click" /\ (hook \in Throws \/ t # NoThrow)
     THEN Native ELSE UNCHANGED page
  /\ UNCHANGED timer

\* A form that is not remote: its button is disabled 13 ms later, by when the
\* browser has serialized it; a later handler may have prevented it from
\* being sent.  (bound: clicks submit it; no property is about its button)
SubmitNative(f) ==
  /\ Here /\ MaySubmit(f, "click")
  /\ f \notin Remote
  /\ timer' = timer \union {f}
  /\ Native
  /\ UNCHANGED <<ajaxVars, form, owner, spoilt, scripted>>

DisableLater(f) ==
  /\ Here
  /\ f \in timer
  /\ timer' = timer \ {f}
  /\ form' = [form EXCEPT ![f] = DisableFormElements(@)]
  /\ UNCHANGED <<ajaxVars, page, owner, spoilt, scripted>>

-----------------------------------------------------------------------------
(* Links.  When a confirmation is declined nothing changes here. *)

\* A remote link makes a call; no form is disabled for it (bound: no handler
\* interferes as the call is made, no script holds it).
FollowRemote(c) ==
  /\ Here
  /\ c \notin Held
  /\ Begin(c, "send", NoThrow)
  /\ UNCHANGED <<formVars>>

\* handleMethod: the form made for the link has no button and is not remote.
HandleMethod ==
  /\ Here
  /\ Native
  /\ UNCHANGED <<ajaxVars, form, timer, owner, spoilt, scripted>>

-----------------------------------------------------------------------------
(* The calls go on while the page is here. *)

\* A call of form f goes on: what it leads to for the button of f.
GoesOn(c, t, stopped) ==
  LET f == owner[c]
      b == IF f = NoForm THEN <<>> ELSE form[f] IN
  /\ Here
  /\ stopped => Completes(c)
  /\ Buttons(f, c, b, stopped)
  /\ spoilt' = IF Silences(t, stopped) THEN spoilt \union ({f} \ {NoForm})
               ELSE spoilt
  /\ UNCHANGED <<timer, page, owner, scripted>>

Answered(c, ok, t, stopped) == Answer(c, ok, t) /\ GoesOn(c, t, stopped)
TimedOut(c, t, stopped) == TimeOut(c, t) /\ GoesOn(c, t, stopped)
AbortedBy(c, t, stopped) == Abort(c, t) /\ GoesOn(c, t, stopped)
Attached(c, list, x, k, stopped) ==
  Attach(c, list, x, k) /\ GoesOn(c, NoThrow, stopped)

Submitted ==
  \E f \in Form :
    \/ SubmitNative(f)
    \/ \E way \in Way :
         \/ SendFiles(f, way)
         \/ \E c \in {d \in Call : ~call[d].made}, s \in Start,
               early, stopped \in BOOLEAN :
              SubmitRemote(f, way, c, s[1], s[2], early, stopped)

Ends(c) ==
  /\ call[c].listening \/ call[c].timer
  /\ \E t \in Throw, stopped \in BOOLEAN :
       \/ \E ok \in BOOLEAN : Answered(c, ok, t, stopped)
       \/ TimedOut(c, t, stopped)

Next ==
  \/ Submitted
  \/ \E c \in Call : FollowRemote(c)
  \/ HandleMethod
  \/ \E f \in Form : DisableLater(f)
  \/ \E c \in Call : Ends(c)
  \/ \E c \in Held, t \in Throw, stopped \in BOOLEAN : AbortedBy(c, t, stopped)
  \/ \E c \in Held, list \in {"done", "fail", "complete"}, x \in Extra,
        k \in 0..2, stopped \in BOOLEAN : Attached(c, list, x, k, stopped)

Spec == Init /\ [][Next]_vars

\* The browser answers every request at last, if only with a network error.
FairSpec == Spec /\ \A c \in Call : WF_vars(Ends(c))

-----------------------------------------------------------------------------
(* Properties. *)

\* A call ends once and in one way, its callbacks hear of it once, of that
\* end only: a late answer, a timeout and an abort do not get in each other's
\* way, nor do a throw and the callbacks it leaves behind.
Once == INSTANCE AjaxCall WITH outcome <- [c \in Call |-> Outcome(call[c])],
                               heard <- [c \in Call |-> call[c].ran]
OnceSpec == Once!Spec

\* jQuery.active counts the calls that have not ended, as long as no handler
\* throws and none aborts its call on ajaxSend (which ends it twice).
ActiveCounts == ~upset => active = Cardinality({c \in Call : Open(c)})

\* Calls, forms and the page have the states jQuery gives them, and the count
\* is right.
CallsInOrder == TypeOK /\ ActiveCounts

\* When no call of a remote form is under way its button is enabled, and has
\* its own label if its calls never overlapped (a script may submit a form
\* whose button is disabled): whichever way the calls ended.  Clicks alone
\* never have two calls of a form under way.
ButtonBack ==
  \A f \in Remote \ spoilt :
    /\ Running(f) = {} =>
         ~form[f].disabled /\ (f \notin scripted => form[f].label = "own")
    /\ f \notin scripted => Cardinality(Running(f)) <= 1

\* The button of a form whose call is under way comes back, unless the page
\* goes away or a handler of the page interferes.
ButtonReturns ==
  \A f \in Remote :
    Running(f) # {} ~> (~form[f].disabled \/ f \in spoilt \/ ~Here)

-----------------------------------------------------------------------------
(* The inductive invariant behind the safety properties.                   *)

CallsSound == call \in [Call -> Record] /\ \A c \in Call : Sound(call[c])

OpenCalls == {c \in Call : Open(c)}
Counts == /\ active \in Int /\ upset \in BOOLEAN
          /\ IsFiniteSet(OpenCalls) /\ ActiveCounts

Button == [disabled : BOOLEAN, label : Label, kept : Label \union {"none"}]

FormsTyped ==
  /\ form \in [Form -> Button]
  /\ \A f \in Form : form[f].disabled => form[f].kept # "none"
  /\ timer \subseteq Form \ Remote
  /\ page \in {"here", "left"}
  /\ owner \in [Call -> Form \union {NoForm}]
  /\ \A c \in Call : ~call[c].made => owner[c] = NoForm
  /\ spoilt \subseteq Form /\ scripted \subseteq Form

\* A button is disabled while a call of its form is under way, and by nothing
\* else: calls that were never sent do not give it back.
ButtonOf(f) ==
  /\ Running(f) = {} => ~form[f].disabled
  /\ f \notin scripted =>
       /\ \A c, d \in Running(f) : c = d
       /\ IF Running(f) = {} THEN form[f].label = "own"
          ELSE form[f].disabled /\ form[f].kept = "own"
  /\ \A c \in Call : owner[c] = f /\ call[c].state = 0 => ~OptionWaits(call[c])

ButtonInv == \A f \in Remote \ spoilt : ButtonOf(f)

IInv == CallsSound /\ Counts /\ FormsTyped /\ ButtonInv
===============================================================================
