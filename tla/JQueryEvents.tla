----------------------------- MODULE JQueryEvents -----------------------------
(***************************************************************************)
(* The event layer of the vendored jQuery 1.6.1 for one type of event: the *)
(* handlers bound to a button, to the form it is in and to the document,   *)
(* those bound live to what matches a selector, and how an event visits    *)
(* them.  A handler may return false, stop the event, change the handlers  *)
(* or the document, or raise another event, which is dispatched before the *)
(* one at hand goes on.                                                    *)
(*                                                                         *)
(* Handlers are only ever appended to a list, and each gets the next id:   *)
(* a list, or a snapshot of one, is the set of what it holds, in the order *)
(* of the ids.                                                             *)
(***************************************************************************)
EXTENDS Naturals, Sequences

CONSTANTS Fn,          \* functions of the page
          MaxBinds,    \* registrations ever made (bound)
          MaxEvents    \* events ever raised (bound)

ASSUME MaxAssumption == {MaxBinds, MaxEvents} \subseteq Nat

VARIABLES
  events,     \* events[ type ] of each element
  live,       \* events.live of the document
  guided,     \* functions that have a guid
  cache,      \* the parts of each element's entry in jQuery.cache
  stored,     \* elements the page has stored data on
  inside,     \* the form and its button are in the document
  stack,      \* the events being dispatched, the innermost first
  binds,      \* registrations made so far
  raised,     \* events raised so far
  spent,      \* registrations of one() that have run
  odd,        \* what has happened that the properties exclude
  excuses     \* what has happened that they do not hold after: an event was
              \* raised by a handler, the document was unbound of handlers
              \* that serve live ones

registry == <<events, live, guided, cache, stored, inside, binds>>
ghosts == <<spent, odd, excuses>>
vars == <<registry, stack, raised, ghosts>>

Element == {"button", "form", "document"}
Selector == {"button", "form"}
Part == {"internal", "user"}
Id == 1..MaxBinds
Guid == (Fn \X {0}) \union (Fn \X Id)
\* A registration, with the element it is on.
HandleObj == [id : Id, on : Element, fn : Fn, kind : {"bind", "one", "live"},
              guid : Guid, sel : Selector \union {"none"}]
Odd == {"again", "repeated", "stray", "disordered"}

\* An event on its way: where it is, what is left to run of the snapshots made
\* there, what it has been told, the handlers that have run for it and those
\* that had been unbound when it was raised.
Frame == [way : {"native", "trigger", "echo"}, target : Selector, at : Element,
          todo : SUBSET HandleObj, lives : SUBSET HandleObj, level : 0..2,
          told : SUBSET {"fired", "stop", "prevented", "stopped", "immediate"},
          ran : SUBSET Id, dead : SUBSET Id]

TypeOK ==
  /\ events \in [Element -> SUBSET HandleObj] /\ live \in SUBSET HandleObj
  /\ guided \subseteq Fn
  /\ cache \in [Element -> SUBSET Part] /\ stored \subseteq Element
  /\ inside \in BOOLEAN
  /\ stack \in Seq(Frame) /\ Len(stack) <= raised
  /\ binds \in 0..MaxBinds /\ raised \in 0..MaxEvents
  /\ spent \subseteq Id /\ odd \subseteq Odd
  /\ excuses \subseteq {"nested", "muddled"}

Init ==
  /\ events = [e \in Element |-> {}]
  /\ live = {}
  /\ guided = {}
  /\ cache = [e \in Element |-> {}] /\ stored = {}
  /\ inside = TRUE
  /\ stack = <<>>
  /\ binds = 0 /\ raised = 0
  /\ spent = {} /\ odd = {} /\ excuses = {}

-----------------------------------------------------------------------------
(* The data of elements.  One entry of jQuery.cache holds what the page has *)
(* stored and, as a part of its own, what the library keeps.                *)

\* data() makes the entry, and the part, unless they are there.
Data(c, e, part) == [c EXCEPT ![e] = @ \union {part}]

\* removeData(): the entry stays for what is left in it.
RemoveData(c, e, part) == [c EXCEPT ![e] = @ \ {part}]

\* The page stores data on the form, and removes it (bound: nowhere else,
\* and not in a handler).
StoreData ==
  /\ cache' = Data(cache, "form", "user")
  /\ stored' = stored \union {"form"}
  /\ UNCHANGED <<events, live, guided, inside, binds, excuses>>

DropData ==
  /\ stored # {}
  /\ cache' = RemoveData(cache, "form", "user")
  /\ stored' = stored \ {"form"}
  /\ UNCHANGED <<events, live, guided, inside, binds, excuses>>

-----------------------------------------------------------------------------
(* Binding.  The registration gets the next id. *)

Add(e, h) ==
  /\ events' = [events EXCEPT ![e] = @ \union {h}]
  /\ cache' = Data(cache, e, "internal")

Register == binds < MaxBinds /\ binds' = binds + 1

Bind(e, f) ==
  /\ Register
  /\ Add(e, [id |-> binds', on |-> e, fn |-> f, kind |-> "bind",
             guid |-> <<f, 0>>, sel |-> "none"])
  /\ guided' = guided \union {f}
  /\ UNCHANGED <<live, stored, inside, excuses>>

\* one(): the wrapper takes the guid of the function, or one of its own when
\* the function has none yet; the function stays without.
One(e, f) ==
  /\ Register
  /\ Add(e, [id |-> binds', on |-> e, fn |-> f, kind |-> "one", sel |-> "none",
             guid |-> IF f \in guided THEN <<f, 0>> ELSE <<f, binds'>>])
  /\ UNCHANGED <<live, guided, stored, inside, excuses>>

\* live(): the handler goes to events.live, and liveHandler is bound to the
\* document under the same guid.
Live(f, s) ==
  LET h == [id |-> binds', on |-> "document", fn |-> f, kind |-> "live",
            guid |-> <<f, 0>>, sel |-> s] IN
  /\ Register
  /\ live' = live \union {h}
  /\ Add("document", h)
  /\ guided' = guided \union {f}
  /\ UNCHANGED <<stored, inside, excuses>>

-----------------------------------------------------------------------------
(* Unbinding. *)

\* jQuery.event.remove: the data of an element with no handler left goes.
RemoveHandlers(e, gone) ==
  /\ events' = [events EXCEPT ![e] = @ \ gone]
  /\ cache' = IF events'[e] = {} /\ (e = "document" => live' = {})
              THEN RemoveData(cache, e, "internal") ELSE cache
  /\ UNCHANGED stored

Muddles(gone) ==
  excuses' = excuses \union {x \in {"muddled"} : \E h \in gone : h.kind = "live"}

\* unbind( type, fn ) goes by guid, whatever the handler was bound with: on
\* the document it finds the liveHandler of a live handler too.
Unbind(e, f) ==
  LET gone == {h \in events[e] : h.guid = <<f, 0>>} IN
  /\ f \in guided /\ gone # {}
  /\ Muddles(gone)
  /\ UNCHANGED <<live, guided, inside, binds>>
  /\ RemoveHandlers(e, gone)

\* unbind( type ): on the document the liveHandlers go, events.live stays.
UnbindAll(e) ==
  LET gone == events[e] IN
  /\ gone # {}
  /\ Muddles(gone)
  /\ UNCHANGED <<live, guided, inside, binds>>
  /\ RemoveHandlers(e, gone)

\* Mutant: the liveHandlers stay on the document.
DieHalf(f, s) ==
  LET gone == {h \in live : h.guid = <<f, 0>> /\ h.sel = s} IN
  /\ gone # {}
  /\ live' = live \ gone
  /\ UNCHANGED <<events, cache, stored, guided, inside, binds, excuses>>

\* Mutant: the handlers stay in events.live.
DieBound(f, s) ==
  LET gone == {h \in live : h.guid = <<f, 0>> /\ h.sel = s} IN
  /\ gone # {}
  /\ UNCHANGED <<live, guided, inside, binds, excuses>>
  /\ RemoveHandlers("document", gone)

\* die(): the handlers go from events.live, and with each the liveHandlers of
\* its guid and selector.
Die(f, s) ==
  LET gone == {h \in live : h.guid = <<f, 0>> /\ h.sel = s} IN
  /\ gone # {}
  /\ live' = live \ gone
  /\ UNCHANGED <<guided, inside, binds, excuses>>
  /\ RemoveHandlers("document", gone)

-----------------------------------------------------------------------------
(* The document. *)

\* cleanData of the form and all that is in it.
CleanData ==
  /\ events' = [e \in Element |-> IF e = "document" THEN events[e] ELSE {}]
  /\ cache' = [e \in Element |-> IF e = "document" THEN cache[e] ELSE {}]
  /\ stored' = {}

RemoveForm ==
  /\ CleanData
  /\ inside' = FALSE
  /\ UNCHANGED <<live, guided, binds, excuses>>

DetachForm ==
  /\ inside
  /\ inside' = FALSE
  /\ UNCHANGED <<events, live, guided, cache, stored, binds, excuses>>

InsertForm ==
  /\ ~inside
  /\ inside' = TRUE
  /\ UNCHANGED <<events, live, guided, cache, stored, binds, excuses>>

Operation ==
  \/ \E e \in Element, f \in Fn : Bind(e, f) \/ One(e, f) \/ Unbind(e, f)
  \/ \E e \in Element : UnbindAll(e)
  \/ \E f \in Fn, s \in Selector : Live(f, s) \/ Die(f, s)
  \/ RemoveForm \/ DetachForm \/ InsertForm

-----------------------------------------------------------------------------
(* Events, the innermost first. *)

Parent(e) == CASE e = "button" -> "form"
               [] e = "form" -> "document"
               [] OTHER -> "window"

Bound == {h.id : h \in UNION {events[e] : e \in Element}}

Event(target, way) ==
  [way |-> way, target |-> target, at |-> target, todo |-> events[target],
   lives |-> {}, level |-> 0, told |-> {}, ran |-> {},
   dead |-> (1..binds) \ Bound]

\* A native event of what is in the document, or trigger() of anything.
Raise(below) ==
  /\ raised < MaxEvents /\ raised' = raised + 1
  /\ \E target \in Selector, way \in {"native", "trigger"} :
       /\ way = "native" => inside
       /\ stack' = <<Event(target, way)>> \o below

Top == Head(stack)
Rest == Tail(stack)
Becomes(fr) == stack' = <<fr>> \o Rest

\* The level of a selector above the target; 0 when the target is not in it.
Level(fr, s) == CASE fr.target = s -> 1
                  [] fr.target = "button" /\ s = "form" -> 2
                  [] OTHER -> 0

\* liveHandler: the live handlers of what the event passed.
Matched(fr) == {h \in live : Level(fr, h.sel) > 0}

\* eventHandle discards the event that trigger()'s native call raises.
Discards(fr) == fr.way = "echo"

\* What is left of the snapshot of this element is not to be run.
Over(fr) == "immediate" \in fr.told \/ fr.todo = {} \/ Discards(fr)

InLive(fr) == fr.lives # {}
AtHandler(fr) == ~InLive(fr) /\ "stop" \notin fr.told /\ ~Over(fr)

\* The handler of the snapshot whose turn it is.
First(fr, h) == h \in fr.todo /\ \A g \in fr.todo : h.id <= g.id

\* The first liveHandler of an event that finds live handlers runs them all.
Fires(fr) == live # {} /\ "fired" \notin fr.told

Entered(fr, h) ==
  LET passed == [fr EXCEPT !.todo = @ \ {h}] IN
  IF Fires(fr)
  THEN [passed EXCEPT !.told = @ \union {"fired"}, !.lives = Matched(fr)]
  ELSE passed

EnterLive ==
  /\ stack # <<>> /\ AtHandler(Top)
  /\ \E h \in Top.todo :
       /\ First(Top, h) /\ h.kind = "live"
       /\ Becomes(Entered(Top, h))
  /\ UNCHANGED <<registry, raised, ghosts>>

\* It returns false when one of them did.
Left(fr) ==
  [fr EXCEPT !.told = (@ \ {"stop"}) \union {"prevented", "stopped"}]

LeaveLive ==
  /\ stack # <<>> /\ ~InLive(Top) /\ "stop" \in Top.told
  /\ Becomes(Left(Top))
  /\ UNCHANGED <<registry, raised, ghosts>>

-----------------------------------------------------------------------------
(* Handlers. *)

Verdict == {"undefined", "false", "stopNow"}

\* Mutant: the live handlers run in the order they were bound in.
SoonerBound(fr, h, g) == h.id <= g.id

\* Live handlers run from the target outwards, and by age on one element.
Sooner(fr, h, g) ==
  \/ Level(fr, h.sel) < Level(fr, g.sel)
  \/ Level(fr, h.sel) = Level(fr, g.sel) /\ h.id <= g.id

\* The handler that runs next.
Due(fr, h) ==
  \/ InLive(fr) /\ h \in fr.lives /\ \A g \in fr.lives : Sooner(fr, h, g)
  \/ AtHandler(fr) /\ First(fr, h) /\ h.kind # "live"

\* What the event is told by a handler of the snapshot, and by a live one:
\* liveHandler answers for its handlers when it is through.
Told(v) == CASE v = "stopNow" -> {"stopped", "immediate"}
             [] v = "false" -> {"prevented", "stopped"}
             [] OTHER -> {}
ToldLive(v) == IF v = "false" THEN {"stop"} ELSE Told(v)

\* The event when handler h has returned.
ReturnedHere(fr, h, v) ==
  [fr EXCEPT !.ran = @ \union {h.id}, !.todo = @ \ {h},
             !.told = @ \union Told(v)]

\* liveHandler drops what is further out once the event is stopped.
LeftOver(fr, h, v) ==
  {g \in fr.lives \ {h} :
     /\ v # "stopNow"
     /\ v = "false" \/ "stopped" \in fr.told =>
          Level(fr, g.sel) <= Level(fr, h.sel)}

ReturnedLive(fr, h, v) ==
  [fr EXCEPT !.ran = @ \union {h.id}, !.told = @ \union ToldLive(v),
             !.level = Level(fr, h.sel), !.lives = LeftOver(fr, h, v)]

Returned(fr, h, v) ==
  IF InLive(fr) THEN ReturnedLive(fr, h, v) ELSE ReturnedHere(fr, h, v)

Ran(h) ==
  /\ spent' = IF h.kind = "one" THEN spent \union {h.id} ELSE spent
  /\ odd' = odd \union {o \in Odd :
       \/ o = "again" /\ h.id \in spent /\ "nested" \notin excuses
       \/ o = "repeated" /\ h.id \in Top.ran
       \/ o = "stray" /\ h.id \in Top.dead /\ "muddled" \notin excuses
       \/ o = "disordered" /\ InLive(Top) /\ Level(Top, h.sel) < Top.level}

\* What the wrapper of one() unbinds: all of its guid.
SameGuid(fr, h) == {g \in events[fr.at] : g.guid = h.guid}

Wrapped(fr, h) == h.kind = "one" /\ SameGuid(fr, h) # {}

\* Mutant: the wrapper unbinds once its function has raised its event.
RunWrapperLate(h, v) ==
  /\ Wrapped(Top, h)
  /\ Becomes(Returned(Top, h, v))
  /\ UNCHANGED <<registry, raised, excuses>>

\* The wrapper of one() unbinds before its function runs.
RunWrapper(h, v) ==
  /\ Wrapped(Top, h)
  /\ Becomes(Returned(Top, h, v))
  /\ UNCHANGED <<live, guided, inside, binds, raised>>
  /\ RemoveHandlers(Top.at, SameGuid(Top, h))
  /\ Muddles(SameGuid(Top, h))

\* A handler runs; it may change the registrations or raise an event.
RunHandler(h, v) ==
  /\ ~Wrapped(Top, h)
  /\ \/ /\ Becomes(Returned(Top, h, v))
        /\ UNCHANGED <<registry, raised, excuses>>
     \/ /\ Becomes(Returned(Top, h, v))
        /\ Operation
        /\ UNCHANGED raised
     \/ /\ Raise(<<Returned(Top, h, v)>> \o Rest)
        /\ excuses' = excuses \union {"nested"}
        /\ UNCHANGED registry

Run ==
  /\ stack # <<>>
  /\ \E h \in Top.todo \union Top.lives, v \in Verdict :
       /\ Due(Top, h)
       /\ Ran(h)
       /\ RunWrapper(h, v) \/ RunHandler(h, v)

Above(fr) == [fr EXCEPT !.at = Parent(@), !.todo = events[Parent(fr.at)]]

\* The event goes on to the parent, unless it has been stopped; trigger()
\* finds the document above a form that is not in it.
Bubble ==
  /\ stack # <<>> /\ ~InLive(Top) /\ "stop" \notin Top.told /\ Over(Top)
  /\ "stopped" \notin Top.told /\ Parent(Top.at) # "window"
  /\ Becomes(Above(Top))
  /\ UNCHANGED <<registry, raised, ghosts>>

Echo(fr) == [Event(fr.target, "echo") EXCEPT !.ran = fr.ran]

\* The event ends; trigger() calls the native method when no handler has
\* prevented it, which makes the browser raise the event once more.
Finish ==
  /\ stack # <<>> /\ ~InLive(Top) /\ "stop" \notin Top.told /\ Over(Top)
  /\ "stopped" \in Top.told \/ Parent(Top.at) = "window"
  /\ IF Top.way = "trigger" /\ "prevented" \notin Top.told
     THEN Becomes(Echo(Top))
     ELSE stack' = Rest
  /\ UNCHANGED <<registry, raised, ghosts>>

Next ==
  \/ stack = <<>> /\ (Operation \/ StoreData \/ DropData)
       /\ UNCHANGED <<stack, raised, spent, odd>>
  \/ stack = <<>> /\ Raise(<<>>) /\ UNCHANGED <<registry, ghosts>>
  \/ Run \/ EnterLive \/ LeaveLive \/ Bubble \/ Finish

Spec == Init /\ [][Next]_vars

-----------------------------------------------------------------------------
(* Properties. *)

\* The document keeps one liveHandler for each live handler, in their order,
\* as long as nobody unbinds handlers of the document that have the guid of a
\* live one: otherwise a live handler is silent, or one too many runs.
LiveBacked ==
  "muddled" \notin excuses =>
    live = {h \in events["document"] : h.kind = "live"}

\* jQuery.cache holds the library's part for an element exactly while it has
\* handlers, and the page's part while the page wants it: neither takes the
\* other away, and an element removed or cleared leaves nothing behind.
CacheExact ==
  \A e \in Element :
    /\ "internal" \in cache[e] <=>
         events[e] # {} \/ (e = "document" /\ live # {})
    /\ "user" \in cache[e] <=> e \in stored

\* Elements, registrations and events have the shape that jQuery gives them,
\* and the three places that tell of a registration agree.
RegistryExact == TypeOK /\ LiveBacked /\ CacheExact

\* No handler runs twice for an event, not even when trigger() makes the
\* browser raise it again; and a handler of one() runs once at all, unless a
\* handler raises its event within the event (the snapshot of the outer event
\* still holds it then).
RunsOnce == odd \intersect {"again", "repeated"} = {}

\* A handler that was unbound before an event was raised does not run for it.
NoStray == "stray" \notin odd

\* Live handlers run from the target outwards, whatever order they were bound
\* in.
InsideOut == "disordered" \notin odd
===============================================================================
