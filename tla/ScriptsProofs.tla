---------------------------- MODULE ScriptsProofs ----------------------------
(***************************************************************************)
(* Theorems about two scripts of the pages, for any number of functions,   *)
(* registrations, events, heads, expressions and changes: the event layer  *)
(* of jQuery (JQueryEvents) and, further below, the editor and the canvas  *)
(* of process definitions (FluoEditor).                                    *)
(***************************************************************************)
EXTENDS JQueryEvents, FluoEditor, SequenceTheorems, FiniteSetTheorems, TLAPS


-----------------------------------------------------------------------------
(* The inductive invariant. *)

OnStack == {stack[i] : i \in DOMAIN stack}

\* The registrations that some list or snapshot holds.
InUse == {h \in HandleObj : \/ \E e \in Element : h \in events[e]
                            \/ h \in live
                            \/ \E fr \in OnStack : h \in fr.todo \union fr.lives}

\* Every registration has an id of its own, and stays on its element.
RegistryInv ==
  /\ stored \subseteq {"form"}
  /\ \A h \in InUse : h.id <= binds
  /\ \A g, h \in InUse : g.id = h.id => g = h
  /\ \A e \in Element : \A h \in events[e] : h.on = e
  /\ \A h \in live : h.kind = "live"

\* The elements an event has yet to visit.
Ahead(e) == CASE e = "button" -> {"form", "document"}
              [] e = "form" -> {"document"}
              [] OTHER -> {}

\* The snapshots hold handlers of the element at hand and live handlers, the
\* latter for the first liveHandler only and from the target outwards.
SnapshotInv(fr) ==
  /\ fr.ran \union fr.dead \subseteq 1..binds
  /\ \A h \in fr.todo : h.on = fr.at
  /\ \A h \in fr.lives : h.kind = "live" /\ fr.level <= Level(fr, h.sel)
  /\ "fired" \notin fr.told => fr.level = 0 /\ fr.lives = {}
  /\ Discards(fr) => fr.lives = {}

\* Nothing that was unbound when the event was raised comes back.
DeadInv(fr) ==
  "muddled" \notin excuses =>
    /\ \A e \in Element : \A h \in events[e] : h.id \notin fr.dead
    /\ \A h \in fr.todo \union fr.lives : h.id \notin fr.dead

\* Nothing that has run for the event is ahead of it.
RanInv(fr) ==
  ~Discards(fr) =>
    /\ \A h \in fr.todo : h.id \in fr.ran => h.kind = "live"
    /\ \A h \in fr.lives : h.id \notin fr.ran
    /\ "fired" \notin fr.told => \A h \in live : h.id \notin fr.ran
    /\ \A e \in Ahead(fr.at) : \A h \in events[e] :
         h.id \in fr.ran => h.kind = "live"

FrameInv(fr) == SnapshotInv(fr) /\ DeadInv(fr) /\ RanInv(fr)

\* A handler of one() that has run is gone, unless events were nested.
OnceInv ==
  /\ spent \subseteq 1..binds
  /\ \A h \in InUse : h.id \in spent => h.kind = "one"
  /\ "nested" \notin excuses =>
       /\ Len(stack) <= 1
       /\ \A e \in Element : \A h \in events[e] : h.id \notin spent
       /\ \A fr \in OnStack : \A h \in fr.todo : h.id \notin spent

IInv ==
  /\ RegistryExact /\ RegistryInv /\ OnceInv
  /\ \A fr \in OnStack : FrameInv(fr)
  /\ odd = {}

-----------------------------------------------------------------------------
(* The stack. *)

LEMMA FrameFields ==
  ASSUME NEW fr \in Frame
  PROVE  /\ fr.way \in {"native", "trigger", "echo"} /\ fr.target \in Selector
         /\ fr.at \in Element
         /\ fr.todo \in SUBSET HandleObj /\ fr.lives \in SUBSET HandleObj
         /\ fr.level \in 0..2
         /\ fr.told \in SUBSET {"fired", "stop", "prevented", "stopped",
                                "immediate"}
         /\ fr.ran \in SUBSET Id /\ fr.dead \in SUBSET Id
BY DEF Frame

LEMMA HandleFields ==
  ASSUME NEW h \in HandleObj
  PROVE  /\ h.id \in Id /\ h.id \in Nat /\ h.on \in Element /\ h.fn \in Fn
         /\ h.kind \in {"bind", "one", "live"} /\ h.guid \in Guid
         /\ h.sel \in Selector \union {"none"}
BY DEF HandleObj, Id

\* An event in front of a stack.
LEMMA FramePushed ==
  ASSUME NEW fr \in Frame, NEW s \in Seq(Frame)
  PROVE  LET t == <<fr>> \o s
         IN  /\ t \in Seq(Frame) /\ Len(t) = Len(s) + 1
             /\ {t[i] : i \in DOMAIN t} \subseteq
                  {fr} \union {s[i] : i \in DOMAIN s}
<1> DEFINE t == <<fr>> \o s
<1>1. <<fr>> \in Seq(Frame) /\ Len(<<fr>>) = 1 /\ <<fr>>[1] = fr
  OBVIOUS
<1>2. /\ t \in Seq(Frame) /\ Len(t) = 1 + Len(s)
      /\ \A i \in 1..(1 + Len(s)) :
           t[i] = IF i <= 1 THEN <<fr>>[i] ELSE s[i - 1]
  BY <1>1, ConcatProperties
<1> HIDE DEF t
<1>3. Len(s) \in Nat /\ DOMAIN s = 1..Len(s) /\ DOMAIN t = 1..Len(t)
  BY <1>2
<1>4. ASSUME NEW i \in DOMAIN t
      PROVE  t[i] \in {fr} \union {s[j] : j \in DOMAIN s}
  <2>1. CASE i = 1
    BY <2>1, <1>1, <1>2, <1>3
  <2>2. CASE i # 1
    <3>1. i - 1 \in DOMAIN s /\ t[i] = s[i - 1]
      BY <2>2, <1>2, <1>3
    <3> QED
      BY <3>1
  <2> QED
    BY <2>1, <2>2
<1> QED
  BY <1>2, <1>3, <1>4 DEF t

\* What is below the first event.
LEMMA Below ==
  ASSUME NEW s \in Seq(Frame), s # <<>>
  PROVE  /\ Head(s) \in Frame /\ Head(s) \in {s[i] : i \in DOMAIN s}
         /\ Tail(s) \in Seq(Frame) /\ Len(Tail(s)) = Len(s) - 1
         /\ {Tail(s)[i] : i \in DOMAIN Tail(s)} \subseteq
              {s[i] : i \in DOMAIN s}
<1>1. /\ Head(s) \in Frame /\ Head(s) = s[1] /\ 1 \in DOMAIN s
      /\ Tail(s) \in Seq(Frame) /\ Len(Tail(s)) = Len(s) - 1
      /\ \A i \in 1..Len(Tail(s)) : Tail(s)[i] = s[i + 1]
      /\ Len(s) \in Nat /\ DOMAIN s = 1..Len(s)
      /\ DOMAIN Tail(s) = 1..Len(Tail(s))
  BY HeadTailProperties
<1>2. ASSUME NEW i \in DOMAIN Tail(s)
      PROVE  Tail(s)[i] \in {s[j] : j \in DOMAIN s}
  <2>1. i + 1 \in DOMAIN s /\ Tail(s)[i] = s[i + 1]
    BY <1>1
  <2> QED
    BY <2>1
<1> QED
  BY <1>1, <1>2

-----------------------------------------------------------------------------
(* Changes of the registrations. *)

\* The types of the registrations, and what they keep.
RegistryTyped ==
  /\ events \in [Element -> SUBSET HandleObj] /\ live \in SUBSET HandleObj
  /\ guided \subseteq Fn
  /\ cache \in [Element -> SUBSET Part]
  /\ inside \in BOOLEAN
  /\ binds \in 0..MaxBinds
  /\ excuses \subseteq {"nested", "muddled"}

RegistryOK ==
  RegistryTyped /\ stored \subseteq {"form"} /\ LiveBacked /\ CacheExact

\* A change makes at most one registration, S, with the next id.
Adds(S) ==
  /\ S \in SUBSET HandleObj /\ \A g, h \in S : g = h
  /\ binds <= binds' /\ \A h \in S : h.id = binds' /\ binds < binds'
  /\ \A e \in Element : events'[e] \subseteq events[e] \union {h \in S : h.on = e}
  /\ live' \subseteq live \union {h \in S : h.kind = "live"}
  /\ excuses \subseteq excuses'

\* An event that knows nothing of the new registration keeps its invariant.
LEMMA FrameKept ==
  ASSUME RegistryTyped, RegistryTyped', NEW S, Adds(S),
         NEW fr \in Frame, FrameInv(fr)
  PROVE  FrameInv(fr)'
<1> USE FrameFields
<1>1. /\ binds \in Nat /\ binds' \in Nat /\ fr.ran \subseteq 1..binds
      /\ fr.dead \subseteq 1..binds /\ binds <= binds'
  BY DEF FrameInv, SnapshotInv, RegistryTyped, Adds
<1>2. SnapshotInv(fr)'
  BY <1>1 DEF FrameInv, SnapshotInv, Level, Discards
<1>3. ASSUME NEW h \in S
      PROVE  h.id \notin fr.ran /\ h.id \notin fr.dead
  BY <1>1 DEF Adds
<1>4. DeadInv(fr)'
  BY <1>3 DEF FrameInv, DeadInv, Adds
<1>5. Ahead(fr.at) \subseteq Element
  BY DEF Ahead, Element
<1>6. RanInv(fr)'
  BY <1>3, <1>5 DEF FrameInv, RanInv, Adds, Discards
<1> QED
  BY <1>2, <1>4, <1>6 DEF FrameInv

\* The events that a step changes, T, and the registration it makes, S, keep
\* the invariant.
LEMMA StepKept ==
  ASSUME RegistryOK, RegistryOK', RegistryInv,
         NEW S, Adds(S), NEW T \in SUBSET Frame, OnStack' \subseteq T \union OnStack,
         OnStack \subseteq Frame,
         \A fr \in T : fr.todo \union fr.lives \subseteq InUse,
         \A fr \in T \union OnStack : FrameInv(fr)
  PROVE  /\ RegistryInv' /\ InUse' \subseteq InUse \union S
         /\ \A fr \in OnStack' : FrameInv(fr)'
<1> USE HandleFields
<1>1. /\ binds \in Nat /\ binds' \in Nat /\ binds <= binds'
      /\ S \subseteq HandleObj
  BY DEF RegistryOK, RegistryTyped, Adds
<1>2. InUse' \subseteq InUse \union S
  <2>1. ASSUME NEW h \in InUse' PROVE h \in InUse \union S
    <3>1. h \in HandleObj
      BY DEF InUse
    <3>2. CASE \E e \in Element : h \in events'[e]
      BY <3>1, <3>2 DEF InUse, Adds
    <3>3. CASE h \in live'
      BY <3>1, <3>3 DEF InUse, Adds
    <3>4. CASE \E fr \in OnStack' : h \in fr.todo \union fr.lives
      <4>1. PICK fr \in T \union OnStack : h \in fr.todo \union fr.lives
        BY <3>4
      <4> QED
        BY <3>1, <4>1 DEF InUse
    <3> QED
      BY <2>1, <3>2, <3>3, <3>4 DEF InUse
  <2> QED
    BY <2>1
<1>3. RegistryInv'
  <2>1. stored' \subseteq {"form"}
    BY DEF RegistryOK
  <2>2. \A h \in InUse' : h \in HandleObj /\ h.id <= binds'
    BY <1>1, <1>2 DEF RegistryInv, Adds, InUse
  <2>3. ASSUME NEW g \in InUse', NEW h \in InUse', g.id = h.id
        PROVE  g = h
    <3>1. CASE g \in InUse /\ h \in InUse
      BY <3>1, <2>3 DEF RegistryInv
    <3>2. CASE g \in S /\ h \in S
      BY <3>2 DEF Adds
    <3>3. \A x \in InUse, y \in S : x.id <= binds /\ binds < y.id
      BY <1>1 DEF RegistryInv, Adds
    <3>4. g.id \in Nat /\ h.id \in Nat
      BY <2>2
    <3> QED
      BY <1>1, <1>2, <2>3, <3>1, <3>2, <3>3, <3>4
  <2>4. \A e \in Element : \A h \in events'[e] : h.on = e
    BY DEF RegistryInv, Adds
  <2>5. \A h \in live' : h.kind = "live"
    BY DEF RegistryInv, Adds
  <2> QED
    BY <2>1, <2>2, <2>3, <2>4, <2>5 DEF RegistryInv
<1>4. \A fr \in OnStack' : FrameInv(fr)'
  BY FrameKept DEF RegistryOK
<1> QED
  BY <1>2, <1>3, <1>4

\* A step that runs no handler of one() keeps what is known of them.
LEMMA OnceKept ==
  ASSUME RegistryTyped, RegistryTyped', OnceInv, NEW S, Adds(S),
         InUse' \subseteq InUse \union S, spent' = spent,
         "nested" \notin excuses' =>
            /\ Len(stack') <= 1
            /\ \A fr \in OnStack' : \A h \in fr.todo : h.id \notin spent
  PROVE  OnceInv'
<1>1. /\ binds \in Nat /\ binds' \in Nat /\ binds <= binds'
      /\ spent \subseteq 1..binds
  BY DEF RegistryTyped, Adds, OnceInv
<1>2. \A h \in S : h.id \notin spent
  BY <1>1 DEF Adds
<1> QED
  BY <1>1, <1>2 DEF OnceInv, Adds

-----------------------------------------------------------------------------
(* The operations on the registrations. *)

LEMMA AddKept ==
  ASSUME RegistryOK, NEW e \in Element, NEW h \in HandleObj, Register, Add(e, h),
         h.id = binds', h.on = e, UNCHANGED <<stored, inside, excuses>>,
         live' = IF h.kind = "live" THEN live \union {h} ELSE live,
         h.kind = "live" => e = "document",
         guided' \subseteq Fn
  PROVE  RegistryOK' /\ Adds({h})
<1>1. binds' \in 0..MaxBinds /\ binds < binds' /\ binds <= binds'
  BY MaxAssumption DEF Register, RegistryOK, RegistryTyped
<1>2. /\ events' \in [Element -> SUBSET HandleObj]
      /\ \A x \in Element : events'[x] = IF x = e THEN events[e] \union {h}
                                                  ELSE events[x]
  BY DEF Add, RegistryOK, RegistryTyped
<1>3. /\ cache' \in [Element -> SUBSET Part]
      /\ \A x \in Element : cache'[x] = IF x = e THEN cache[e] \union {"internal"}
                                                 ELSE cache[x]
  BY DEF Add, Data, RegistryOK, RegistryTyped, Part
<1>4. RegistryTyped'
  BY <1>1, <1>2, <1>3 DEF RegistryOK, RegistryTyped
<1>5. LiveBacked'
  BY <1>2 DEF RegistryOK, LiveBacked, Element
<1>6. CacheExact'
  BY <1>2, <1>3 DEF RegistryOK, CacheExact
<1>7. Adds({h})
  BY <1>1, <1>2 DEF Adds
<1> QED
  BY <1>4, <1>5, <1>6, <1>7 DEF RegistryOK

LEMMA RemoveKept ==
  ASSUME RegistryOK, NEW e \in Element, NEW gone, RemoveHandlers(e, gone),
         UNCHANGED <<guided, inside, binds>>,
         live' \subseteq live, e # "document" => live' = live,
         excuses \subseteq excuses' /\ excuses' \subseteq {"nested", "muddled"},
         LiveBacked'
  PROVE  RegistryOK' /\ Adds({})
<1>1. /\ events' \in [Element -> SUBSET HandleObj]
      /\ \A x \in Element : events'[x] = IF x = e THEN events[e] \ gone
                                                  ELSE events[x]
  BY DEF RemoveHandlers, RegistryOK, RegistryTyped
<1>2. \A x \in Element : \A p \in Part :
        p \in cache'[x] <=>
          /\ p \in cache[x]
          /\ ~(/\ x = e /\ p = "internal" /\ events'[e] = {}
               /\ (e = "document" => live' = {}))
  BY DEF RemoveHandlers, RemoveData, RegistryOK, RegistryTyped, Part
<1>3. cache' \in [Element -> SUBSET Part]
  BY DEF RemoveHandlers, RemoveData, RegistryOK, RegistryTyped
<1>4. RegistryTyped'
  BY <1>1, <1>3 DEF RegistryOK, RegistryTyped
<1>6. CacheExact'
  <2>1. ASSUME NEW x \in Element
        PROVE  /\ "internal" \in cache'[x] <=>
                    events'[x] # {} \/ (x = "document" /\ live' # {})
               /\ "user" \in cache'[x] <=> x \in stored'
    <3>1. /\ "internal" \in cache[x] <=>
               events[x] # {} \/ (x = "document" /\ live # {})
          /\ "user" \in cache[x] <=> x \in stored
      BY DEF RegistryOK, CacheExact
    <3>2. stored' = stored
      BY DEF RemoveHandlers
    <3>3. CASE x = e
      BY <1>1, <1>2, <3>1, <3>2, <3>3 DEF Part
    <3>4. CASE x # e
      BY <1>1, <1>2, <3>1, <3>2, <3>4 DEF Part
    <3> QED
      BY <3>3, <3>4
  <2> QED
    BY <2>1 DEF CacheExact
<1>7. Adds({})
  BY <1>1 DEF Adds, RegistryOK, RegistryTyped
<1> QED
  BY <1>4, <1>6, <1>7 DEF RegistryOK, RemoveHandlers

\* Unbinding leaves events.live alone.
LEMMA UnboundKept ==
  ASSUME RegistryOK, NEW e \in Element, NEW gone, RemoveHandlers(e, gone),
         UNCHANGED <<live, guided, inside, binds>>, Muddles(gone)
  PROVE  RegistryOK' /\ Adds({})
<1>1. excuses \subseteq excuses' /\ excuses' \subseteq {"nested", "muddled"}
  BY DEF Muddles, RegistryOK, RegistryTyped
<1>2. LiveBacked'
  <2> SUFFICES ASSUME "muddled" \notin excuses'
               PROVE  live' = {h \in events'["document"] : h.kind = "live"}
    BY DEF LiveBacked
  <2>1. live = {h \in events["document"] : h.kind = "live"}
    BY <1>1 DEF RegistryOK, LiveBacked
  <2>2. \A h \in gone : h.kind # "live"
    BY DEF Muddles
  <2>3. events'["document"] = IF e = "document" THEN events[e] \ gone
                                                ELSE events["document"]
    BY DEF RemoveHandlers, RegistryOK, RegistryTyped, Element
  <2> QED
    BY <2>1, <2>2, <2>3
<1> QED
  BY <1>1, <1>2, RemoveKept

LEMMA DieKept ==
  ASSUME RegistryOK, NEW f \in Fn, NEW s \in Selector, Die(f, s)
  PROVE  RegistryOK' /\ Adds({})
<1> DEFINE gone == {h \in live : h.guid = <<f, 0>> /\ h.sel = s}
<1>1. /\ live' = live \ gone /\ RemoveHandlers("document", gone)
      /\ UNCHANGED <<guided, inside, binds, excuses>>
  BY DEF Die
<1> HIDE DEF gone
<1>2. LiveBacked'
  <2> SUFFICES ASSUME "muddled" \notin excuses'
               PROVE  live' = {h \in events'["document"] : h.kind = "live"}
    BY DEF LiveBacked
  <2>1. live = {h \in events["document"] : h.kind = "live"}
    BY <1>1 DEF RegistryOK, LiveBacked
  <2>2. events'["document"] = events["document"] \ gone
    BY <1>1 DEF RemoveHandlers, RegistryOK, RegistryTyped, Element
  <2> QED
    BY <1>1, <2>1, <2>2
<1>3. "document" \in Element /\ excuses \subseteq {"nested", "muddled"}
  BY DEF Element, RegistryOK, RegistryTyped
<1> QED
  BY <1>1, <1>2, <1>3, RemoveKept

LEMMA RemoveFormKept ==
  ASSUME RegistryOK, RemoveForm
  PROVE  RegistryOK' /\ Adds({})
<1>1. /\ events' \in [Element -> SUBSET HandleObj]
      /\ cache' \in [Element -> SUBSET Part]
      /\ \A e \in Element :
           IF e = "document" THEN events'[e] = events[e] /\ cache'[e] = cache[e]
                             ELSE events'[e] = {} /\ cache'[e] = {}
  BY DEF RemoveForm, CleanData, RegistryOK, RegistryTyped
<1>2. UNCHANGED <<live, guided, binds, excuses>> /\ stored' = {}
  BY DEF RemoveForm, CleanData
<1>3. inside' \in BOOLEAN
  BY Zenon DEF RemoveForm
<1>4. RegistryTyped'
  BY <1>1, <1>2, <1>3 DEF RegistryOK, RegistryTyped
<1>5. LiveBacked'
  BY <1>1, <1>2 DEF RegistryOK, LiveBacked, Element
<1>6. CacheExact'
  BY <1>1, <1>2 DEF RegistryOK, CacheExact
<1>7. Adds({})
  BY <1>1, <1>2 DEF Adds, RegistryOK, RegistryTyped
<1> QED
  BY <1>2, <1>4, <1>5, <1>6, <1>7 DEF RegistryOK

\* An operation makes at most one registration and keeps what the lists tell.
LEMMA OperationKept ==
  ASSUME RegistryOK, Operation
  PROVE  RegistryOK' /\ \E S : Adds(S)
<1> DEFINE Kept == RegistryOK' /\ \E S : Adds(S)
<1>1. ASSUME NEW e \in Element, NEW f \in Fn, Bind(e, f) PROVE Kept
  <2> DEFINE h == [id |-> binds', on |-> e, fn |-> f, kind |-> "bind",
                   guid |-> <<f, 0>>, sel |-> "none"]
  <2>1. binds' \in Id
    BY <1>1, MaxAssumption DEF Bind, Register, RegistryOK, RegistryTyped, Id
  <2>2. h \in HandleObj
    BY <2>1 DEF HandleObj, Guid
  <2>3. h.kind = "bind" /\ h.id = binds' /\ h.on = e
    OBVIOUS
  <2>4. /\ Register /\ Add(e, h) /\ UNCHANGED <<live, stored, inside, excuses>>
        /\ guided' \subseteq Fn
    BY <1>1 DEF Bind, RegistryOK, RegistryTyped
  <2> HIDE DEF h
  <2> QED
    BY <2>2, <2>3, <2>4, AddKept
<1>2. ASSUME NEW e \in Element, NEW f \in Fn, One(e, f) PROVE Kept
  <2> DEFINE h == [id |-> binds', on |-> e, fn |-> f, kind |-> "one",
                   sel |-> "none",
                   guid |-> IF f \in guided THEN <<f, 0>> ELSE <<f, binds'>>]
  <2>1. binds' \in Id
    BY <1>2, MaxAssumption DEF One, Register, RegistryOK, RegistryTyped, Id
  <2>2. h \in HandleObj
    BY <2>1 DEF HandleObj, Guid
  <2>3. h.kind = "one" /\ h.id = binds' /\ h.on = e
    OBVIOUS
  <2>4. /\ Register /\ Add(e, h) /\ UNCHANGED <<live, stored, inside, excuses>>
        /\ guided' \subseteq Fn
    BY <1>2 DEF One, RegistryOK, RegistryTyped
  <2> HIDE DEF h
  <2> QED
    BY <2>2, <2>3, <2>4, AddKept
<1>3. ASSUME NEW f \in Fn, NEW s \in Selector, Live(f, s) PROVE Kept
  <2> DEFINE h == [id |-> binds', on |-> "document", fn |-> f, kind |-> "live",
                   guid |-> <<f, 0>>, sel |-> s]
  <2>1. binds' \in Id
    BY <1>3, MaxAssumption DEF Live, Register, RegistryOK, RegistryTyped, Id
  <2>2. h \in HandleObj
    BY <2>1 DEF HandleObj, Guid, Element
  <2>3. h.kind = "live" /\ h.id = binds' /\ h.on = "document"
    OBVIOUS
  <2>4. /\ Register /\ Add("document", h) /\ UNCHANGED <<stored, inside, excuses>>
        /\ live' = live \union {h} /\ guided' \subseteq Fn
    BY <1>3 DEF Live, RegistryOK, RegistryTyped
  <2>5. "document" \in Element
    BY DEF Element
  <2> HIDE DEF h
  <2> QED
    BY <2>2, <2>3, <2>4, <2>5, AddKept
<1>4. ASSUME NEW e \in Element, NEW f \in Fn, Unbind(e, f) PROVE Kept
  <2> DEFINE gone == {h \in events[e] : h.guid = <<f, 0>>}
  <2>1. gone \subseteq events[e] /\ gone # {} /\ RemoveHandlers(e, gone)
    BY <1>4 DEF Unbind
  <2>2. UNCHANGED <<live, guided, inside, binds>> /\ Muddles(gone)
    BY <1>4 DEF Unbind
  <2> HIDE DEF gone
  <2> QED
    BY <2>1, <2>2, UnboundKept
<1>5. ASSUME NEW e \in Element, UnbindAll(e) PROVE Kept
  <2> DEFINE gone == events[e]
  <2>1. gone \subseteq events[e] /\ gone # {} /\ RemoveHandlers(e, gone)
    BY <1>5 DEF UnbindAll
  <2>2. UNCHANGED <<live, guided, inside, binds>> /\ Muddles(gone)
    BY <1>5 DEF UnbindAll
  <2> HIDE DEF gone
  <2> QED
    BY <2>1, <2>2, UnboundKept
<1>6. ASSUME NEW f \in Fn, NEW s \in Selector, Die(f, s) PROVE Kept
  BY <1>6, DieKept
<1>7. CASE RemoveForm
  BY <1>7, RemoveFormKept
<1>8. CASE DetachForm \/ InsertForm
  <2>1. UNCHANGED <<events, live, guided, cache, stored, binds, excuses>>
    BY <1>8 DEF DetachForm, InsertForm
  <2>2. inside' \in BOOLEAN
    BY <1>8, Zenon DEF DetachForm, InsertForm
  <2>3. RegistryOK'
    BY <2>1, <2>2 DEF RegistryOK, RegistryTyped, LiveBacked, CacheExact
  <2>4. Adds({})
    BY <2>1 DEF Adds, RegistryOK, RegistryTyped
  <2> QED
    BY <2>3, <2>4
<1> QED
  BY <1>1, <1>2, <1>3, <1>4, <1>5, <1>6, <1>7, <1>8 DEF Operation

LEMMA DataKept ==
  ASSUME RegistryOK, StoreData \/ DropData
  PROVE  RegistryOK' /\ Adds({})
<1>1. UNCHANGED <<events, live, guided, inside, binds, excuses>>
  BY DEF StoreData, DropData
<1>2. /\ cache' \in [Element -> SUBSET Part]
      /\ \A e \in Element : "internal" \in cache'[e] <=> "internal" \in cache[e]
      /\ \A e \in Element : e # "form" => cache'[e] = cache[e]
      /\ "user" \in cache'["form"] <=> "form" \in stored'
      /\ stored' \ {"form"} = stored \ {"form"}
  BY DEF StoreData, DropData, Data, RemoveData, Part, Element, RegistryOK,
         RegistryTyped
<1>3. RegistryTyped'
  BY <1>1, <1>2 DEF RegistryOK, RegistryTyped
<1>4. LiveBacked'
  BY <1>1 DEF RegistryOK, LiveBacked
<1>5. CacheExact'
  BY <1>1, <1>2 DEF RegistryOK, CacheExact, Element
<1>6. Adds({})
  BY <1>1 DEF Adds, RegistryOK, RegistryTyped
<1> QED
  BY <1>2, <1>3, <1>4, <1>5, <1>6 DEF RegistryOK

-----------------------------------------------------------------------------
(* An event on its way. *)

\* What a handler makes of an event, field by field.
LEMMA ReturnedHereFields ==
  ASSUME NEW fr \in Frame, NEW h \in fr.todo, NEW v
  PROVE  LET to == ReturnedHere(fr, h, v)
         IN  /\ to \in Frame
             /\ to.way = fr.way /\ to.target = fr.target /\ to.at = fr.at
             /\ to.todo = fr.todo \ {h} /\ to.lives = fr.lives
             /\ to.level = fr.level /\ to.told = fr.told \union Told(v)
             /\ to.ran = fr.ran \union {h.id} /\ to.dead = fr.dead
<1> USE FrameFields, HandleFields
<1>1. h.id \in Id
  OBVIOUS
<1>2. Told(v) \subseteq {"prevented", "stopped", "immediate"}
  BY DEF Told
<1> HIDE DEF Told
<1> QED
  BY <1>1, <1>2 DEF ReturnedHere, Frame

LEMMA ReturnedLiveFields ==
  ASSUME NEW fr \in Frame, NEW h \in fr.lives, NEW v
  PROVE  LET to == ReturnedLive(fr, h, v)
         IN  /\ to \in Frame
             /\ to.way = fr.way /\ to.target = fr.target /\ to.at = fr.at
             /\ to.todo = fr.todo /\ to.lives = LeftOver(fr, h, v)
             /\ to.level = Level(fr, h.sel)
             /\ to.told = fr.told \union ToldLive(v)
             /\ to.ran = fr.ran \union {h.id} /\ to.dead = fr.dead
<1> USE FrameFields, HandleFields
<1>1. h.id \in Id /\ Level(fr, h.sel) \in 0..2
  BY DEF Level
<1>2. ToldLive(v) \subseteq {"stop", "prevented", "stopped", "immediate"}
  BY DEF ToldLive, Told
<1>3. LeftOver(fr, h, v) \subseteq fr.lives
  BY DEF LeftOver
<1> QED
  BY <1>1, <1>2, <1>3 DEF ReturnedLive, Frame

LEMMA EnteredFields ==
  ASSUME live \in SUBSET HandleObj, NEW fr \in Frame, NEW h, ~InLive(fr)
  PROVE  LET to == Entered(fr, h)
         IN  /\ to \in Frame
             /\ to.way = fr.way /\ to.target = fr.target /\ to.at = fr.at
             /\ to.todo = fr.todo \ {h}
             /\ to.lives = IF Fires(fr) THEN Matched(fr) ELSE {}
             /\ to.level = fr.level
             /\ to.told = IF Fires(fr) THEN fr.told \union {"fired"} ELSE fr.told
             /\ to.ran = fr.ran /\ to.dead = fr.dead
<1> USE FrameFields
<1>1. Matched(fr) \subseteq HandleObj
  BY DEF Matched
<1> QED
  BY <1>1 DEF Entered, Frame, InLive

LEMMA LeftFields ==
  ASSUME NEW fr \in Frame
  PROVE  LET to == Left(fr)
         IN  /\ to \in Frame
             /\ to.way = fr.way /\ to.target = fr.target /\ to.at = fr.at
             /\ to.todo = fr.todo /\ to.lives = fr.lives /\ to.level = fr.level
             /\ to.told = (fr.told \ {"stop"}) \union {"prevented", "stopped"}
             /\ to.ran = fr.ran /\ to.dead = fr.dead
BY FrameFields DEF Left, Frame

LEMMA AboveFields ==
  ASSUME events \in [Element -> SUBSET HandleObj], NEW fr \in Frame,
         Parent(fr.at) # "window"
  PROVE  LET to == Above(fr)
         IN  /\ to \in Frame
             /\ to.way = fr.way /\ to.target = fr.target
             /\ to.at = Parent(fr.at) /\ to.at \in Ahead(fr.at)
             /\ Ahead(to.at) \subseteq Ahead(fr.at)
             /\ to.todo = events[to.at] /\ to.lives = fr.lives
             /\ to.level = fr.level /\ to.told = fr.told
             /\ to.ran = fr.ran /\ to.dead = fr.dead
<1> USE FrameFields
<1>1. Parent(fr.at) \in Element /\ Parent(fr.at) \in Ahead(fr.at)
      /\ Ahead(Parent(fr.at)) \subseteq Ahead(fr.at)
  BY DEF Parent, Element, Ahead
<1> HIDE DEF Parent
<1> QED
  BY <1>1 DEF Above, Frame

LEMMA EventFields ==
  ASSUME RegistryTyped, NEW target \in Selector,
         NEW way \in {"native", "trigger", "echo"}
  PROVE  LET to == Event(target, way)
         IN  /\ to \in Frame
             /\ to.way = way /\ to.target = target /\ to.at = target
             /\ to.todo = events[target] /\ to.lives = {} /\ to.level = 0
             /\ to.told = {} /\ to.ran = {} /\ to.dead = (1..binds) \ Bound
<1>1. target \in Element /\ (1..binds) \ Bound \subseteq Id
  BY MaxAssumption DEF Selector, Element, Id, RegistryTyped
<1>2. events[target] \in SUBSET HandleObj
  BY <1>1 DEF RegistryTyped
<1> QED
  BY <1>1, <1>2 DEF Event, Frame

LEMMA EchoFields ==
  ASSUME RegistryTyped, NEW fr \in Frame
  PROVE  LET to == Echo(fr)
         IN  /\ to \in Frame
             /\ to.way = "echo" /\ to.target = fr.target /\ to.at = fr.target
             /\ to.todo = events[fr.target] /\ to.lives = {} /\ to.level = 0
             /\ to.told = {} /\ to.ran = fr.ran
             /\ to.dead = (1..binds) \ Bound
<1> DEFINE e == Event(fr.target, "echo")
<1>1. /\ e \in Frame
      /\ e.way = "echo" /\ e.target = fr.target /\ e.at = fr.target
      /\ e.todo = events[fr.target] /\ e.lives = {} /\ e.level = 0
      /\ e.told = {} /\ e.ran = {} /\ e.dead = (1..binds) \ Bound
  BY FrameFields, EventFields
<1>2. Echo(fr) = [e EXCEPT !.ran = fr.ran] /\ fr.ran \in SUBSET Id
  BY FrameFields DEF Echo
<1> HIDE DEF e
<1> QED
  BY <1>1, <1>2 DEF Frame

\* The state in which an event goes on.
Sound == RegistryOK /\ RegistryInv

\* What an event makes of itself: it keeps its invariant, and its snapshots
\* hold nothing that was not in use.
Goes(to) ==
  to \in Frame /\ FrameInv(to) /\ to.todo \union to.lives \subseteq InUse

AllGo(T) == \A fr \in T : Goes(fr)

LEMMA InUseFacts ==
  ASSUME RegistryTyped
  PROVE  /\ \A e \in Element : events[e] \subseteq InUse
         /\ live \subseteq InUse
         /\ \A fr \in OnStack \cap Frame : fr.todo \union fr.lives \subseteq InUse
         /\ InUse \subseteq HandleObj
BY FrameFields DEF InUse, RegistryTyped

LEMMA HereGoes ==
  ASSUME Sound, NEW fr \in OnStack \cap Frame, FrameInv(fr), ~InLive(fr),
         ~Discards(fr), NEW h \in fr.todo, h.kind # "live", NEW v
  PROVE  Goes(ReturnedHere(fr, h, v))
<1> DEFINE to == ReturnedHere(fr, h, v)
<1>1. /\ to \in Frame
      /\ to.way = fr.way /\ to.target = fr.target /\ to.at = fr.at
      /\ to.todo = fr.todo \ {h} /\ to.lives = fr.lives
      /\ to.level = fr.level /\ to.told = fr.told \union Told(v)
      /\ to.ran = fr.ran \union {h.id} /\ to.dead = fr.dead
  BY ReturnedHereFields
<1> HIDE DEF to
<1>2. "fired" \in to.told <=> "fired" \in fr.told
  BY <1>1 DEF Told
<1>3. fr.lives = {} /\ fr.lives \subseteq HandleObj /\ fr.todo \subseteq HandleObj
  BY FrameFields DEF InLive
<1>4. RegistryTyped /\ fr.todo \subseteq InUse
  BY InUseFacts DEF Sound, RegistryOK
<1>5. h.id \in 1..binds
  BY <1>3, <1>4, HandleFields DEF Sound, RegistryInv, Id, RegistryTyped
<1>6. SnapshotInv(to)
  BY <1>1, <1>2, <1>3, <1>5 DEF FrameInv, SnapshotInv, Discards
<1>7. DeadInv(to)
  BY <1>1, <1>3 DEF FrameInv, DeadInv
<1>8. RanInv(to)
  <2>1. \A g \in InUse : g.id = h.id => g = h
    BY <1>4 DEF Sound, RegistryInv
  <2>2. \A g \in to.todo : g.id \in to.ran => g.kind = "live"
    BY <1>1, <1>4, <2>1 DEF FrameInv, RanInv
  <2>3. \A g \in live : g.id # h.id
    BY <1>4, <2>1, InUseFacts DEF Sound, RegistryInv
  <2>4. ASSUME NEW e \in Ahead(fr.at), NEW g \in events[e]
        PROVE  g.id # h.id
    <3>1. e \in Element /\ e # fr.at
      BY FrameFields DEF Ahead, Element
    <3>2. g.on = e /\ h.on = fr.at /\ g \in InUse
      BY <1>4, <3>1, InUseFacts DEF Sound, RegistryInv, FrameInv, SnapshotInv
    <3> QED
      BY <2>1, <3>1, <3>2
  <2> QED
    BY <1>1, <1>2, <1>3, <2>2, <2>3, <2>4 DEF FrameInv, RanInv
<1> QED
  BY <1>1, <1>3, <1>4, <1>6, <1>7, <1>8 DEF Goes, FrameInv, to

LEMMA LiveGoes ==
  ASSUME Sound, NEW fr \in OnStack \cap Frame, FrameInv(fr),
         NEW h \in fr.lives, \A g \in fr.lives : Sooner(fr, h, g), NEW v
  PROVE  Goes(ReturnedLive(fr, h, v))
<1> DEFINE to == ReturnedLive(fr, h, v)
<1>1. /\ to \in Frame
      /\ to.way = fr.way /\ to.target = fr.target /\ to.at = fr.at
      /\ to.todo = fr.todo /\ to.lives = LeftOver(fr, h, v)
      /\ to.level = Level(fr, h.sel)
      /\ to.told = fr.told \union ToldLive(v)
      /\ to.ran = fr.ran \union {h.id} /\ to.dead = fr.dead
  BY ReturnedLiveFields
<1> HIDE DEF to
<1>2. "fired" \in fr.told /\ "fired" \in to.told
  BY <1>1 DEF FrameInv, SnapshotInv
<1>3. /\ to.lives \subseteq fr.lives \ {h} /\ h.kind = "live"
      /\ fr.lives \subseteq HandleObj /\ fr.todo \subseteq HandleObj
  BY <1>1, FrameFields DEF LeftOver, FrameInv, SnapshotInv
<1>4. RegistryTyped /\ fr.todo \subseteq InUse /\ fr.lives \subseteq InUse
  BY InUseFacts DEF Sound, RegistryOK
<1>5. h.id \in 1..binds
  BY <1>3, <1>4, HandleFields DEF Sound, RegistryInv, Id, RegistryTyped
<1>6. SnapshotInv(to)
  <2>1. \A s : Level(to, s) = Level(fr, s) /\ Level(fr, s) \in 0..2
    BY <1>1 DEF Level
  <2>2. \A g \in to.lives : to.level <= Level(to, g.sel)
    BY <1>1, <1>3, <2>1 DEF Sooner
  <2> QED
    BY <1>1, <1>2, <1>3, <1>5, <2>2 DEF FrameInv, SnapshotInv, Discards
<1>7. DeadInv(to)
  BY <1>1, <1>3 DEF FrameInv, DeadInv
<1>8. RanInv(to)
  <2>1. \A g \in InUse : g.id = h.id => g = h
    BY <1>4 DEF Sound, RegistryInv
  <2>2. ~Discards(fr)
    BY DEF FrameInv, SnapshotInv
  <2>3. \A g \in to.todo : g.id \in to.ran => g.kind = "live"
    BY <1>1, <1>3, <1>4, <2>1, <2>2 DEF FrameInv, RanInv
  <2>4. \A g \in to.lives : g.id \notin to.ran
    BY <1>1, <1>3, <1>4, <2>1, <2>2 DEF FrameInv, RanInv
  <2>5. Ahead(fr.at) \subseteq Element
    BY DEF Ahead, Element
  <2>6. \A e \in Ahead(fr.at) : \A g \in events[e] :
          g.id \in to.ran => g.kind = "live"
    BY <1>1, <1>3, <1>4, <2>1, <2>2, <2>5, InUseFacts DEF FrameInv, RanInv
  <2> QED
    BY <1>1, <1>2, <2>3, <2>4, <2>6 DEF RanInv
<1> QED
  BY <1>1, <1>3, <1>4, <1>6, <1>7, <1>8 DEF Goes, FrameInv, to

LEMMA EnteredGoes ==
  ASSUME Sound, NEW fr \in OnStack \cap Frame, FrameInv(fr), ~InLive(fr),
         ~Discards(fr), NEW h \in fr.todo
  PROVE  Goes(Entered(fr, h))
<1> DEFINE to == Entered(fr, h)
<1>1. RegistryTyped /\ fr.todo \subseteq InUse /\ live \subseteq InUse
  BY InUseFacts DEF Sound, RegistryOK
<1>2. /\ to \in Frame
      /\ to.way = fr.way /\ to.target = fr.target /\ to.at = fr.at
      /\ to.todo = fr.todo \ {h}
      /\ to.lives = IF Fires(fr) THEN Matched(fr) ELSE {}
      /\ to.level = fr.level
      /\ to.told = IF Fires(fr) THEN fr.told \union {"fired"} ELSE fr.told
      /\ to.ran = fr.ran /\ to.dead = fr.dead
  BY <1>1, EnteredFields DEF RegistryTyped
<1> HIDE DEF to
<1>3. /\ to.lives \subseteq live
      /\ to.lives # {} => "fired" \notin fr.told /\ "fired" \in to.told
      /\ "fired" \notin to.told => "fired" \notin fr.told /\ to.lives = {}
  BY <1>2 DEF Matched, Fires
<1>4. SnapshotInv(to)
  <2>1. \A s : Level(to, s) \in 0..2
    BY <1>2 DEF Level
  <2>2. ASSUME NEW g \in to.lives
        PROVE  g.kind = "live" /\ to.level <= Level(to, g.sel)
    <3>1. fr.level = 0 /\ g.kind = "live"
      BY <1>3 DEF FrameInv, SnapshotInv, Sound, RegistryInv
    <3> QED
      BY <1>2, <2>1, <3>1
  <2> QED
    BY <1>2, <1>3, <2>2 DEF FrameInv, SnapshotInv, Discards
<1>5. DeadInv(to)
  <2>1. "muddled" \notin excuses => live \subseteq events["document"]
    BY DEF Sound, RegistryOK, LiveBacked
  <2>2. "document" \in Element
    BY DEF Element
  <2> QED
    BY <1>2, <1>3, <2>1, <2>2 DEF FrameInv, DeadInv
<1>6. RanInv(to)
  BY <1>2, <1>3 DEF FrameInv, RanInv, Discards
<1> QED
  BY <1>1, <1>2, <1>3, <1>4, <1>5, <1>6 DEF Goes, FrameInv, to

LEMMA LeftGoes ==
  ASSUME Sound, NEW fr \in OnStack \cap Frame, FrameInv(fr)
  PROVE  Goes(Left(fr))
<1> DEFINE to == Left(fr)
<1>1. /\ to \in Frame
      /\ to.way = fr.way /\ to.target = fr.target /\ to.at = fr.at
      /\ to.todo = fr.todo /\ to.lives = fr.lives /\ to.level = fr.level
      /\ to.told = (fr.told \ {"stop"}) \union {"prevented", "stopped"}
      /\ to.ran = fr.ran /\ to.dead = fr.dead
  BY LeftFields
<1> HIDE DEF to
<1>2. "fired" \in to.told <=> "fired" \in fr.told
  BY <1>1
<1>3. FrameInv(to)
  BY <1>1, <1>2
     DEF FrameInv, SnapshotInv, DeadInv, RanInv, Discards, Level
<1> QED
  BY <1>1, <1>3, InUseFacts DEF Goes, Sound, RegistryOK, to

LEMMA AboveGoes ==
  ASSUME Sound, NEW fr \in OnStack \cap Frame, FrameInv(fr), ~InLive(fr),
         Parent(fr.at) # "window"
  PROVE  Goes(Above(fr))
<1> DEFINE to == Above(fr)
<1>1. RegistryTyped
  BY DEF Sound, RegistryOK
<1>2. /\ to \in Frame
      /\ to.way = fr.way /\ to.target = fr.target
      /\ to.at \in Ahead(fr.at) /\ Ahead(to.at) \subseteq Ahead(fr.at)
      /\ to.todo = events[to.at] /\ to.lives = fr.lives
      /\ to.level = fr.level /\ to.told = fr.told
      /\ to.ran = fr.ran /\ to.dead = fr.dead
  BY <1>1, AboveFields DEF RegistryTyped
<1> HIDE DEF to
<1>3. to.at \in Element /\ to.lives = {}
  BY <1>2, FrameFields DEF InLive
<1>4. SnapshotInv(to)
  BY <1>2, <1>3 DEF FrameInv, SnapshotInv, Discards, Sound, RegistryInv
<1>5. DeadInv(to)
  BY <1>2, <1>3 DEF FrameInv, DeadInv
<1>6. RanInv(to)
  BY <1>2, <1>3 DEF FrameInv, RanInv, Discards
<1> QED
  BY <1>1, <1>2, <1>3, <1>4, <1>5, <1>6, InUseFacts DEF Goes, FrameInv, to

LEMMA EventGoes ==
  ASSUME Sound, NEW target \in Selector, NEW way \in {"native", "trigger"}
  PROVE  Goes(Event(target, way))
<1> DEFINE to == Event(target, way)
<1>1. RegistryTyped /\ target \in Element
  BY DEF Sound, RegistryOK, Selector, Element
<1>2. /\ to \in Frame /\ to.way = way /\ to.at = target
      /\ to.todo = events[target] /\ to.lives = {} /\ to.level = 0
      /\ to.told = {} /\ to.ran = {} /\ to.dead = (1..binds) \ Bound
  BY <1>1, EventFields
<1> HIDE DEF to
<1>3. \A e \in Element : \A h \in events[e] : h.id \notin to.dead
  BY <1>2 DEF Bound
<1>4. SnapshotInv(to) /\ DeadInv(to) /\ RanInv(to)
  BY <1>1, <1>2, <1>3
     DEF SnapshotInv, DeadInv, RanInv, Discards, Sound, RegistryInv
<1> QED
  BY <1>1, <1>2, <1>4, InUseFacts DEF Goes, FrameInv, to

LEMMA EchoGoes ==
  ASSUME Sound, NEW fr \in OnStack \cap Frame, FrameInv(fr)
  PROVE  Goes(Echo(fr))
<1> DEFINE to == Echo(fr)
<1>1. RegistryTyped /\ fr.target \in Element
  BY FrameFields DEF Sound, RegistryOK, Selector, Element
<1>2. /\ to \in Frame /\ to.way = "echo" /\ to.at = fr.target
      /\ to.todo = events[fr.target] /\ to.lives = {} /\ to.level = 0
      /\ to.told = {} /\ to.ran = fr.ran /\ to.dead = (1..binds) \ Bound
  BY <1>1, EchoFields
<1> HIDE DEF to
<1>3. \A e \in Element : \A h \in events[e] : h.id \notin to.dead
  BY <1>2 DEF Bound
<1>4. SnapshotInv(to) /\ DeadInv(to) /\ RanInv(to)
  BY <1>1, <1>2, <1>3
     DEF FrameInv, SnapshotInv, DeadInv, RanInv, Discards, Sound, RegistryInv
<1> QED
  BY <1>1, <1>2, <1>4, InUseFacts DEF Goes, FrameInv, to

-----------------------------------------------------------------------------
(* A handler runs. *)

\* The invariant as the steps use it.
LEMMA InvFacts ==
  ASSUME IInv
  PROVE  /\ Sound /\ RegistryTyped /\ OnceInv /\ odd = {}
         /\ stack \in Seq(Frame) /\ OnStack \subseteq Frame
         /\ Len(stack) \in Nat /\ Len(stack) <= raised
         /\ raised \in 0..MaxEvents /\ spent \subseteq Id
         /\ \A fr \in OnStack : FrameInv(fr)
<1>1. /\ RegistryTyped /\ stack \in Seq(Frame) /\ Len(stack) <= raised
      /\ raised \in 0..MaxEvents /\ spent \subseteq Id
  BY DEF IInv, RegistryExact, TypeOK, RegistryTyped
<1>2. Sound
  BY <1>1 DEF IInv, RegistryExact, RegistryInv, Sound, RegistryOK
<1>3. Len(stack) \in Nat /\ OnStack \subseteq Frame
  BY <1>1 DEF OnStack
<1> QED
  BY <1>1, <1>2, <1>3 DEF IInv

\* The first event of the stack.
LEMMA TopFacts ==
  ASSUME IInv, stack # <<>>
  PROVE  /\ Top \in OnStack /\ Top \in Frame /\ FrameInv(Top)
         /\ Rest \in Seq(Frame) /\ Len(Rest) = Len(stack) - 1
         /\ {Rest[i] : i \in DOMAIN Rest} \subseteq OnStack
         /\ Top.todo \union Top.lives \subseteq InUse
<1>1. stack \in Seq(Frame) /\ OnStack \subseteq Frame /\ RegistryTyped
      /\ \A fr \in OnStack : FrameInv(fr)
  BY InvFacts
<1>2. /\ Top \in OnStack /\ Top \in Frame
      /\ Rest \in Seq(Frame) /\ Len(Rest) = Len(stack) - 1
      /\ {Rest[i] : i \in DOMAIN Rest} \subseteq OnStack
  BY <1>1, Below DEF Top, Rest, OnStack
<1>3. Top.todo \union Top.lives \subseteq InUse
  BY <1>1, <1>2, InUseFacts
<1> QED
  BY <1>1, <1>2, <1>3

\* A live handler is due on its own, any other from the snapshot of the
\* element, for an event that is not discarded.
LEMMA DueFacts ==
  ASSUME IInv, stack # <<>>, NEW h, Due(Top, h)
  PROVE  /\ h \in InUse /\ h \in HandleObj /\ h.id \in 1..binds
         /\ ~Discards(Top)
         /\ \/ /\ InLive(Top) /\ h \in Top.lives /\ h.kind = "live"
               /\ \A g \in Top.lives : Sooner(Top, h, g)
            \/ ~InLive(Top) /\ h \in Top.todo /\ h.kind # "live"
<1>1. /\ Top \in OnStack /\ Top \in Frame /\ FrameInv(Top)
      /\ Top.todo \union Top.lives \subseteq InUse
  BY TopFacts
<1>2. \/ /\ InLive(Top) /\ h \in Top.lives /\ h.kind = "live"
         /\ \A g \in Top.lives : Sooner(Top, h, g)
      \/ /\ ~InLive(Top) /\ h \in Top.todo /\ h.kind # "live"
         /\ ~Discards(Top)
  BY <1>1 DEF Due, AtHandler, Over, First, FrameInv, SnapshotInv
<1>3. InLive(Top) => ~Discards(Top)
  BY <1>1 DEF InLive, FrameInv, SnapshotInv
<1>4. h \in InUse /\ h \in HandleObj
  BY <1>1, <1>2 DEF InUse
<1>5. h.id \in 1..binds
  BY <1>4, HandleFields, InvFacts DEF Sound, RegistryInv, Id, RegistryTyped
<1> QED
  BY <1>2, <1>3, <1>4, <1>5

\* Nothing odd happens.
LEMMA NothingOdd ==
  ASSUME IInv, stack # <<>>, NEW h, Due(Top, h), Ran(h)
  PROVE  odd' = {}
<1>1. /\ Top \in OnStack /\ Top \in Frame /\ FrameInv(Top)
  BY TopFacts
<1>2. /\ h \in InUse /\ ~Discards(Top)
      /\ \/ InLive(Top) /\ h \in Top.lives /\ h.kind = "live"
         \/ ~InLive(Top) /\ h \in Top.todo /\ h.kind # "live"
  BY DueFacts
<1>3. ~(h.id \in spent /\ "nested" \notin excuses)
  BY <1>1, <1>2, InvFacts DEF OnceInv
<1>4. h.id \notin Top.ran
  BY <1>1, <1>2 DEF FrameInv, RanInv
<1>5. ~(h.id \in Top.dead /\ "muddled" \notin excuses)
  BY <1>1, <1>2 DEF FrameInv, DeadInv
<1>6. ~(InLive(Top) /\ Level(Top, h.sel) < Top.level)
  <2>1. Level(Top, h.sel) \in 0..2 /\ Top.level \in 0..2
    BY <1>1, FrameFields DEF Level
  <2> QED
    BY <1>1, <1>2, <2>1 DEF FrameInv, SnapshotInv
<1> QED
  BY <1>3, <1>4, <1>5, <1>6, InvFacts DEF Ran

LEMMA ReturnedGoes ==
  ASSUME IInv, stack # <<>>, NEW h, Due(Top, h), NEW v
  PROVE  /\ Goes(Returned(Top, h, v))
         /\ Returned(Top, h, v).todo =
              IF h.kind = "live" THEN Top.todo ELSE Top.todo \ {h}
<1>1. Top \in OnStack \cap Frame /\ FrameInv(Top) /\ Sound
  BY TopFacts, InvFacts
<1>2. CASE /\ InLive(Top) /\ h \in Top.lives /\ h.kind = "live"
           /\ \A g \in Top.lives : Sooner(Top, h, g)
  BY <1>1, <1>2, LiveGoes, ReturnedLiveFields DEF Returned
<1>3. CASE ~InLive(Top) /\ h \in Top.todo /\ h.kind # "live"
  BY <1>1, <1>3, HereGoes, DueFacts, ReturnedHereFields DEF Returned
<1> QED
  BY <1>2, <1>3, DueFacts

\* What is known of the handlers of one() when a handler has run.
LEMMA OnceRan ==
  ASSUME IInv, RegistryTyped', stack # <<>>, NEW h, Due(Top, h), Ran(h), NEW v,
         NEW S, Adds(S), InUse' \subseteq InUse \union S,
         "nested" \notin excuses' =>
           /\ OnStack' \subseteq {Returned(Top, h, v)} /\ Len(stack') <= 1
           /\ h.kind = "one" => \A e \in Element : h \notin events'[e]
  PROVE  OnceInv'
<1>1. /\ binds \in Nat /\ binds' \in Nat /\ binds <= binds'
      /\ spent \subseteq 1..binds /\ OnceInv /\ RegistryTyped
  BY InvFacts DEF RegistryTyped, Adds, OnceInv
<1>2. h \in InUse /\ h \in HandleObj /\ h.id \in 1..binds
  BY DueFacts
<1>3. /\ spent' \subseteq spent \union {h.id}
      /\ h.kind # "one" => spent' = spent
      /\ spent' \subseteq 1..binds /\ spent' \subseteq 1..binds'
  <2>1. spent' = IF h.kind = "one" THEN spent \union {h.id} ELSE spent
    BY DEF Ran
  <2>2. 1..binds \subseteq 1..binds'
    BY <1>1
  <2> QED
    BY <1>1, <1>2, <2>1, <2>2
<1>4. \A g \in S : g.id \notin spent'
  BY <1>1, <1>3 DEF Adds
<1>5. \A g \in InUse : g.id = h.id => g = h
  BY <1>2, InvFacts DEF Sound, RegistryInv
<1>6. \A g \in InUse' : g.id \in spent' => g.kind = "one"
  BY <1>1, <1>3, <1>4, <1>5 DEF OnceInv
<1>7. ASSUME "nested" \notin excuses'
      PROVE  /\ \A e \in Element : \A g \in events'[e] : g.id \notin spent'
             /\ \A fr \in OnStack' : \A g \in fr.todo : g.id \notin spent'
  <2>1. "nested" \notin excuses
    BY <1>7 DEF Adds
  <2>2. ASSUME NEW e \in Element, NEW g \in events'[e]
        PROVE  g.id \notin spent'
    <3>1. CASE g \in S
      BY <3>1, <1>4
    <3>2. CASE g \in events[e]
      <4>1. g \in InUse /\ g.id \notin spent
        BY <1>1, <2>1, <3>2, InUseFacts DEF OnceInv
      <4>2. h.kind = "one" => g # h
        BY <1>7, <2>2
      <4> QED
        BY <1>3, <1>5, <4>1, <4>2
    <3> QED
      BY <3>1, <3>2, <2>2 DEF Adds
  <2>3. ASSUME NEW fr \in OnStack', NEW g \in fr.todo
        PROVE  g.id \notin spent'
    <3>1. g \in IF h.kind = "live" THEN Top.todo ELSE Top.todo \ {h}
      BY <1>7, <2>3, ReturnedGoes
    <3>2. g \in InUse /\ g.id \notin spent
      BY <1>1, <2>1, <3>1, TopFacts DEF OnceInv
    <3> QED
      BY <1>3, <1>5, <3>1, <3>2
  <2> QED
    BY <2>2, <2>3
<1> QED
  BY <1>3, <1>6, <1>7 DEF OnceInv

-----------------------------------------------------------------------------
(* The steps. *)

\* The first event becomes another one.
LEMMA BecomesFacts ==
  ASSUME IInv, stack # <<>>, NEW to \in Frame, Becomes(to)
  PROVE  /\ stack' \in Seq(Frame) /\ Len(stack') = Len(stack)
         /\ OnStack' \subseteq {to} \union OnStack
         /\ Len(stack) <= 1 => OnStack' \subseteq {to}
<1>1. /\ Rest \in Seq(Frame) /\ Len(Rest) = Len(stack) - 1
      /\ {Rest[i] : i \in DOMAIN Rest} \subseteq OnStack
      /\ Len(stack) \in Nat
  BY TopFacts, InvFacts
<1>2. /\ stack' \in Seq(Frame) /\ Len(stack') = Len(Rest) + 1
      /\ OnStack' \subseteq {to} \union {Rest[i] : i \in DOMAIN Rest}
  BY <1>1, FramePushed DEF Becomes, OnStack
<1>3. Len(stack) <= 1 => {Rest[i] : i \in DOMAIN Rest} = {}
  <2>1. DOMAIN Rest = 1..Len(Rest)
    BY <1>1
  <2> QED
    BY <1>1, <2>1
<1> QED
  BY <1>1, <1>2, <1>3

\* The parts of the invariant together.
LEMMA Combined ==
  ASSUME IInv, RegistryOK', NEW S, Adds(S), NEW T, AllGo(T),
         OnStack' \subseteq T \union OnStack,
         stack' \in Seq(Frame), Len(stack') <= raised',
         raised' \in 0..MaxEvents, spent' \subseteq Id, odd' = {},
         InUse' \subseteq InUse \union S => OnceInv'
  PROVE  IInv'
<1>1. /\ Sound /\ OnStack \subseteq Frame /\ \A fr \in OnStack : FrameInv(fr)
  BY InvFacts
<1>2. /\ T \in SUBSET Frame
      /\ \A fr \in T : FrameInv(fr) /\ fr.todo \union fr.lives \subseteq InUse
  BY DEF AllGo, Goes
<1>3. /\ RegistryInv' /\ InUse' \subseteq InUse \union S
      /\ \A fr \in OnStack' : FrameInv(fr)'
  BY <1>1, <1>2, StepKept DEF Sound
<1>4. TypeOK'
  <2>1. stored' \subseteq Element
    BY DEF RegistryOK, Element
  <2> QED
    BY <2>1 DEF RegistryOK, RegistryTyped, TypeOK
<1> QED
  BY <1>3, <1>4 DEF IInv, RegistryExact, RegistryOK

\* A step that leaves the registrations alone.
LEMMA SameRegistry ==
  ASSUME IInv, UNCHANGED registry, excuses \subseteq excuses',
         excuses' \subseteq {"nested", "muddled"}
  PROVE  RegistryOK' /\ Adds({})
<1>1. RegistryOK
  BY InvFacts DEF Sound
<1>2. UNCHANGED <<events, live, guided, cache, stored, inside, binds>>
  BY DEF registry
<1>3. RegistryTyped'
  BY <1>1, <1>2 DEF RegistryOK, RegistryTyped
<1>4. LiveBacked'
  BY <1>1, <1>2 DEF RegistryOK, LiveBacked
<1>5. CacheExact'
  BY <1>1, <1>2 DEF RegistryOK, CacheExact
<1>6. Adds({})
  BY <1>1, <1>2 DEF RegistryOK, RegistryTyped, Adds
<1> QED
  BY <1>1, <1>2, <1>3, <1>4, <1>5, <1>6 DEF RegistryOK

\* An event goes on, and no handler runs.
LEMMA MovedKept ==
  ASSUME IInv, stack # <<>>, NEW to, Goes(to), Becomes(to),
         UNCHANGED <<registry, raised, ghosts>>,
         \A h \in to.todo : h \in Top.todo \/ \E e \in Element : h \in events[e]
  PROVE  IInv'
<1>1. UNCHANGED <<spent, odd, excuses>> /\ UNCHANGED registry /\ raised' = raised
  BY DEF ghosts
<1>2. /\ stack' \in Seq(Frame) /\ Len(stack') = Len(stack)
      /\ OnStack' \subseteq {to} \union OnStack
  BY BecomesFacts DEF Goes
<1>3. /\ OnceInv /\ odd = {} /\ RegistryTyped /\ Len(stack) <= raised
      /\ raised \in 0..MaxEvents /\ spent \subseteq Id
  BY InvFacts
<1>4. RegistryOK' /\ Adds({})
  BY <1>1, <1>3, SameRegistry DEF RegistryTyped
<1>5. InUse' \subseteq InUse \union {} => OnceInv'
  <2>1. "nested" \notin excuses' =>
          /\ Len(stack') <= 1
          /\ \A fr \in OnStack' : \A h \in fr.todo : h.id \notin spent
    BY <1>1, <1>2, <1>3, TopFacts DEF OnceInv
  <2> QED
    BY <1>1, <1>3, <1>4, <2>1, OnceKept DEF RegistryOK
<1>6. /\ Len(stack') <= raised' /\ raised' \in 0..MaxEvents
      /\ spent' \subseteq Id /\ odd' = {} /\ AllGo({to})
  BY <1>1, <1>2, <1>3 DEF AllGo
<1> QED
  BY <1>2, <1>4, <1>5, <1>6, Combined

LEMMA EnterLiveKept ==
  ASSUME IInv, EnterLive
  PROVE  IInv'
<1>1. stack # <<>> /\ UNCHANGED <<registry, raised, ghosts>>
  BY DEF EnterLive
<1>2. PICK h \in Top.todo : Becomes(Entered(Top, h))
  BY DEF EnterLive
<1>3. ~InLive(Top) /\ ~Discards(Top)
  BY DEF EnterLive, AtHandler, Over
<1>4. Top \in OnStack \cap Frame /\ FrameInv(Top) /\ Sound /\ RegistryTyped
  BY <1>1, TopFacts, InvFacts
<1>5. Goes(Entered(Top, h))
  BY <1>3, <1>4, EnteredGoes
<1>6. Entered(Top, h).todo = Top.todo \ {h}
  BY <1>3, <1>4, EnteredFields DEF RegistryTyped
<1> QED
  BY <1>1, <1>2, <1>5, <1>6, MovedKept

LEMMA LeaveLiveKept ==
  ASSUME IInv, LeaveLive
  PROVE  IInv'
<1>1. stack # <<>> /\ UNCHANGED <<registry, raised, ghosts>> /\ Becomes(Left(Top))
  BY DEF LeaveLive
<1>2. Top \in OnStack \cap Frame /\ FrameInv(Top) /\ Sound
  BY <1>1, TopFacts, InvFacts
<1>3. Goes(Left(Top)) /\ Left(Top).todo = Top.todo
  BY <1>2, LeftGoes, LeftFields
<1> QED
  BY <1>1, <1>3, MovedKept

LEMMA BubbleKept ==
  ASSUME IInv, Bubble
  PROVE  IInv'
<1>1. /\ stack # <<>> /\ UNCHANGED <<registry, raised, ghosts>>
      /\ Becomes(Above(Top)) /\ ~InLive(Top) /\ Parent(Top.at) # "window"
  BY DEF Bubble
<1>2. Top \in OnStack \cap Frame /\ FrameInv(Top) /\ Sound /\ RegistryTyped
  BY <1>1, TopFacts, InvFacts
<1>3. Goes(Above(Top))
  BY <1>1, <1>2, AboveGoes
<1>4. /\ Above(Top).todo = events[Above(Top).at] /\ Above(Top) \in Frame
  BY <1>1, <1>2, AboveFields DEF RegistryTyped
<1>5. Above(Top).at \in Element
  BY <1>4, FrameFields
<1> QED
  BY <1>1, <1>3, <1>4, <1>5, MovedKept

LEMMA FinishKept ==
  ASSUME IInv, Finish
  PROVE  IInv'
<1>1. stack # <<>> /\ UNCHANGED <<registry, raised, ghosts>>
  BY DEF Finish
<1>2. /\ Top \in OnStack \cap Frame /\ FrameInv(Top) /\ Sound /\ RegistryTyped
      /\ Top.target \in Element
  BY <1>1, TopFacts, InvFacts, FrameFields DEF Selector, Element
<1>3. CASE Becomes(Echo(Top))
  <2>1. Goes(Echo(Top)) /\ Echo(Top).todo = events[Top.target]
    BY <1>2, EchoGoes, EchoFields
  <2> QED
    BY <1>1, <1>2, <1>3, <2>1, MovedKept
<1>4. CASE stack' = Rest
  <2>1. UNCHANGED <<spent, odd, excuses>> /\ UNCHANGED registry
        /\ raised' = raised
    BY <1>1 DEF ghosts
  <2>2. /\ OnceInv /\ odd = {} /\ Len(stack) <= raised /\ Len(stack) \in Nat
        /\ raised \in 0..MaxEvents /\ spent \subseteq Id
    BY InvFacts
  <2>3. /\ stack' \in Seq(Frame) /\ Len(stack') = Len(stack) - 1
        /\ OnStack' \subseteq OnStack
    BY <1>1, <1>4, TopFacts DEF OnStack
  <2>4. RegistryOK' /\ Adds({})
    BY <1>2, <2>1, SameRegistry DEF RegistryTyped
  <2>5. InUse' \subseteq InUse \union {} => OnceInv'
    <3>1. "nested" \notin excuses' =>
            /\ Len(stack') <= 1
            /\ \A fr \in OnStack' : \A h \in fr.todo : h.id \notin spent
      BY <2>1, <2>2, <2>3 DEF OnceInv
    <3> QED
      BY <1>2, <2>1, <2>2, <2>4, <3>1, OnceKept DEF RegistryOK
  <2>6. /\ Len(stack') <= raised' /\ raised' \in 0..MaxEvents
        /\ spent' \subseteq Id /\ odd' = {} /\ AllGo({})
        /\ OnStack' \subseteq {} \union OnStack
    BY <2>1, <2>2, <2>3 DEF AllGo
  <2> QED
    BY <2>3, <2>4, <2>5, <2>6, Combined
<1> QED
  BY <1>3, <1>4 DEF Finish

\* A handler runs and raises no event: what it does to the registrations is
\* sound, and one() has unbound it.
LEMMA RanKept ==
  ASSUME IInv, stack # <<>>, NEW h, Due(Top, h), Ran(h), NEW v,
         Becomes(Returned(Top, h, v)), UNCHANGED raised,
         RegistryOK', NEW S, Adds(S),
         h.kind = "one" => h \notin events'[Top.at]
  PROVE  IInv'
<1> DEFINE to == Returned(Top, h, v)
<1>1. Goes(to) /\ Becomes(to)
  BY ReturnedGoes
<1> HIDE DEF to
<1>2. /\ stack' \in Seq(Frame) /\ Len(stack') = Len(stack)
      /\ OnStack' \subseteq {to} \union OnStack
      /\ Len(stack) <= 1 => OnStack' \subseteq {to}
  BY <1>1, BecomesFacts DEF Goes
<1>3. /\ OnceInv /\ Len(stack) <= raised /\ raised \in 0..MaxEvents
      /\ spent \subseteq Id /\ RegistryTyped /\ Sound
  BY InvFacts
<1>4. /\ h \in InUse /\ h \in HandleObj /\ h.id \in 1..binds /\ h.id \in Id
  BY DueFacts, HandleFields
<1>5. /\ Len(stack') <= raised' /\ raised' \in 0..MaxEvents
      /\ spent' \subseteq Id /\ odd' = {} /\ AllGo({to})
  BY <1>1, <1>2, <1>3, <1>4, NothingOdd DEF AllGo, Ran
<1>6. InUse' \subseteq InUse \union S => OnceInv'
  <2> SUFFICES ASSUME InUse' \subseteq InUse \union S PROVE OnceInv'
    OBVIOUS
  <2>1. ASSUME "nested" \notin excuses'
        PROVE  OnStack' \subseteq {to} /\ Len(stack') <= 1
    BY <1>2, <1>3, <2>1 DEF OnceInv, Adds
  <2>2. ASSUME h.kind = "one", NEW e \in Element, h \in events'[e]
        PROVE  FALSE
    <3>1. h.on = Top.at
      <4>1. h \in Top.todo
        BY <2>2, DueFacts
      <4> QED
        BY <4>1, TopFacts DEF FrameInv, SnapshotInv
    <3>2. h \notin S
      BY <1>3, <1>4 DEF Adds, RegistryTyped
    <3>3. h \in events[e]
      BY <2>2, <3>2 DEF Adds
    <3>4. h.on = e
      BY <1>3, <3>3 DEF Sound, RegistryInv
    <3> QED
      BY <2>2, <3>1, <3>4
  <2> QED
    BY <2>1, <2>2, OnceRan DEF to, RegistryOK
<1> QED
  BY <1>2, <1>5, <1>6, Combined

\* A new event, on top of what is left of the stack.
LEMMA RaiseFacts ==
  ASSUME RegistryTyped, NEW below \in Seq(Frame), Raise(below)
  PROVE  /\ raised' = raised + 1 /\ raised < MaxEvents
         /\ \E target \in Selector, way \in {"native", "trigger"} :
              /\ stack' \in Seq(Frame) /\ Len(stack') = Len(below) + 1
              /\ OnStack' \subseteq
                   {Event(target, way)} \union {below[i] : i \in DOMAIN below}
<1>1. PICK target \in Selector, way \in {"native", "trigger"} :
        stack' = <<Event(target, way)>> \o below
  BY DEF Raise
<1>2. Event(target, way) \in Frame
  BY EventFields
<1>3. /\ stack' \in Seq(Frame) /\ Len(stack') = Len(below) + 1
      /\ OnStack' \subseteq
           {Event(target, way)} \union {below[i] : i \in DOMAIN below}
  BY <1>1, <1>2, FramePushed DEF OnStack
<1> QED
  BY <1>3 DEF Raise

\* An event is raised while there is none.
LEMMA RaiseKept ==
  ASSUME IInv, stack = <<>>, Raise(<<>>), UNCHANGED <<registry, ghosts>>
  PROVE  IInv'
<1>1. UNCHANGED <<spent, odd, excuses>> /\ UNCHANGED registry
  BY DEF ghosts
<1>2. /\ OnceInv /\ odd = {} /\ RegistryTyped /\ Sound
      /\ raised \in 0..MaxEvents /\ spent \subseteq Id /\ MaxEvents \in Nat
  BY InvFacts, MaxAssumption
<1>3. PICK below \in Seq(Frame) :
        /\ Raise(below) /\ Len(below) = 0
        /\ {below[i] : i \in DOMAIN below} = {}
  <2>1. <<>> \in Seq(Frame) /\ Len(<<>>) = 0
        /\ {<<>>[i] : i \in DOMAIN <<>>} = {}
    OBVIOUS
  <2> QED
    BY <2>1
<1>4. PICK target \in Selector, way \in {"native", "trigger"} :
        /\ stack' \in Seq(Frame) /\ Len(stack') = Len(below) + 1
        /\ OnStack' \subseteq
             {Event(target, way)} \union {below[i] : i \in DOMAIN below}
  BY <1>2, <1>3, RaiseFacts
<1> DEFINE to == Event(target, way)
<1>5. Goes(to) /\ to.todo = events[target] /\ target \in Element
  BY <1>2, EventGoes, EventFields DEF Selector, Element
<1>6. OnStack' \subseteq {to} /\ Len(stack') = 1
  BY <1>3, <1>4
<1> HIDE DEF to
<1>7. RegistryOK' /\ Adds({})
  BY <1>1, <1>2, SameRegistry DEF RegistryTyped
<1>8. InUse' \subseteq InUse \union {} => OnceInv'
  <2>1. "nested" \notin excuses' =>
          /\ Len(stack') <= 1
          /\ \A fr \in OnStack' : \A h \in fr.todo : h.id \notin spent
    BY <1>1, <1>2, <1>4, <1>5, <1>6 DEF OnceInv
  <2> QED
    BY <1>1, <1>2, <1>7, <2>1, OnceKept DEF RegistryOK
<1>9. /\ Len(stack') <= raised' /\ raised' \in 0..MaxEvents
      /\ spent' \subseteq Id /\ odd' = {} /\ AllGo({to})
      /\ OnStack' \subseteq {to} \union OnStack
  BY <1>1, <1>2, <1>4, <1>5, <1>6 DEF AllGo, Raise
<1> QED
  BY <1>4, <1>7, <1>8, <1>9, Combined

\* A handler raises an event within the event.
LEMMA NestedKept ==
  ASSUME IInv, stack # <<>>, NEW h, Due(Top, h), Ran(h), NEW v,
         Raise(<<Returned(Top, h, v)>> \o Rest), UNCHANGED registry,
         excuses' = excuses \union {"nested"}
  PROVE  IInv'
<1> DEFINE fr == Returned(Top, h, v)
           below == <<fr>> \o Rest
<1>1. Goes(fr) /\ fr \in Frame
  BY ReturnedGoes DEF Goes
<1>2. /\ OnceInv /\ RegistryTyped /\ Sound /\ Len(stack) <= raised
      /\ Len(stack) \in Nat /\ raised \in 0..MaxEvents /\ spent \subseteq Id
      /\ MaxEvents \in Nat
  BY InvFacts, MaxAssumption
<1>3. /\ Rest \in Seq(Frame) /\ Len(Rest) = Len(stack) - 1
      /\ {Rest[i] : i \in DOMAIN Rest} \subseteq OnStack
  BY TopFacts
<1> HIDE DEF fr
<1>4. /\ below \in Seq(Frame) /\ Len(below) = Len(Rest) + 1
      /\ {below[i] : i \in DOMAIN below} \subseteq
           {fr} \union {Rest[i] : i \in DOMAIN Rest}
  BY <1>1, <1>3, FramePushed
<1>5. Raise(below)
  BY DEF fr
<1> HIDE DEF below
<1>6. PICK target \in Selector, way \in {"native", "trigger"} :
        /\ stack' \in Seq(Frame) /\ Len(stack') = Len(below) + 1
        /\ OnStack' \subseteq
             {Event(target, way)} \union {below[i] : i \in DOMAIN below}
  BY <1>2, <1>4, <1>5, RaiseFacts
<1> DEFINE to == Event(target, way)
<1>7. Goes(to)
  BY <1>2, EventGoes
<1>8. OnStack' \subseteq {fr, to} \union OnStack
  BY <1>3, <1>4, <1>6
<1> HIDE DEF to
<1>9. RegistryOK' /\ Adds({})
  BY <1>2, SameRegistry DEF RegistryTyped
<1>10. h.id \in Id
  BY DueFacts, HandleFields
<1>11. InUse' \subseteq InUse \union {} => OnceInv'
  BY <1>9, OnceRan DEF RegistryOK
<1>12. /\ Len(stack') <= raised' /\ raised' \in 0..MaxEvents
  BY <1>2, <1>3, <1>4, <1>5, <1>6 DEF Raise
<1>13. /\ spent' \subseteq Id /\ odd' = {} /\ AllGo({fr, to})
  BY <1>1, <1>2, <1>7, <1>10, NothingOdd DEF AllGo, Ran
<1> QED
  BY <1>6, <1>8, <1>9, <1>11, <1>12, <1>13, Combined

LEMMA RunKept ==
  ASSUME IInv, Run
  PROVE  IInv'
<1>1. stack # <<>>
  BY DEF Run
<1>2. PICK h, v : Due(Top, h) /\ Ran(h) /\ (RunWrapper(h, v) \/ RunHandler(h, v))
  BY DEF Run
<1>3. /\ Top \in Frame /\ Top.at \in Element /\ RegistryOK /\ RegistryTyped
  BY <1>1, TopFacts, FrameFields, InvFacts DEF Sound
<1>4. h.kind = "one" => h \in Top.todo /\ h \in HandleObj
  BY <1>1, <1>2, DueFacts
<1>5. CASE RunWrapper(h, v)
  <2> DEFINE gone == SameGuid(Top, h)
  <2>1. /\ Becomes(Returned(Top, h, v)) /\ UNCHANGED raised
        /\ UNCHANGED <<live, guided, inside, binds>>
        /\ RemoveHandlers(Top.at, gone) /\ Muddles(gone)
    BY <1>5 DEF RunWrapper
  <2>2. RegistryOK' /\ Adds({})
    BY <1>3, <2>1, UnboundKept
  <2>3. h \notin events'[Top.at]
    <3>1. events'[Top.at] = events[Top.at] \ gone
      BY <1>3, <2>1 DEF RemoveHandlers, RegistryTyped
    <3> QED
      BY <3>1 DEF SameGuid
  <2> QED
    BY <1>1, <1>2, <2>1, <2>2, <2>3, RanKept
<1>6. CASE RunHandler(h, v)
  <2>1. h.kind = "one" => h \notin events[Top.at]
    BY <1>6 DEF RunHandler, Wrapped, SameGuid
  <2>2. h \in HandleObj /\ h.id \in 1..binds
    BY <1>1, <1>2, DueFacts
  <2>3. ASSUME NEW S, Adds(S)
        PROVE  h.kind = "one" => h \notin events'[Top.at]
    <3>1. h \notin S
      BY <1>3, <2>2, <2>3 DEF Adds, RegistryTyped
    <3> QED
      BY <1>3, <2>1, <2>3, <3>1 DEF Adds
  <2>4. CASE Becomes(Returned(Top, h, v)) /\ UNCHANGED <<registry, raised, excuses>>
    <3>1. UNCHANGED registry /\ UNCHANGED raised /\ UNCHANGED excuses
      BY <2>4
    <3>2. RegistryOK' /\ Adds({})
      BY <1>3, <3>1, SameRegistry DEF RegistryTyped
    <3> QED
      BY <1>1, <1>2, <2>3, <2>4, <3>1, <3>2, RanKept
  <2>5. CASE Becomes(Returned(Top, h, v)) /\ Operation /\ UNCHANGED raised
    <3>1. RegistryOK' /\ \E S : Adds(S)
      BY <1>3, <2>5, OperationKept
    <3>2. PICK S : Adds(S)
      BY <3>1
    <3> QED
      BY <1>1, <1>2, <2>3, <2>5, <3>1, <3>2, RanKept
  <2>6. CASE /\ Raise(<<Returned(Top, h, v)>> \o Rest)
             /\ excuses' = excuses \union {"nested"}
             /\ UNCHANGED registry
    BY <1>1, <1>2, <2>6, NestedKept
  <2> QED
    BY <1>6, <2>4, <2>5, <2>6 DEF RunHandler
<1> QED
  BY <1>2, <1>5, <1>6

\* The page changes the registrations while there is no event.
LEMMA PageKept ==
  ASSUME IInv, stack = <<>>, Operation \/ StoreData \/ DropData,
         UNCHANGED <<stack, raised, spent, odd>>
  PROVE  IInv'
<1>1. RegistryOK /\ OnceInv /\ odd = {} /\ RegistryTyped
      /\ stack \in Seq(Frame) /\ Len(stack) <= raised
      /\ raised \in 0..MaxEvents /\ spent \subseteq Id
  BY InvFacts DEF Sound
<1>2. RegistryOK' /\ \E S : Adds(S)
  BY <1>1, OperationKept, DataKept
<1>3. PICK S : Adds(S)
  BY <1>2
<1>4. OnStack' = OnStack /\ OnStack = {} /\ Len(stack) = 0
  BY DEF OnStack
<1>5. InUse' \subseteq InUse \union S => OnceInv'
  BY <1>1, <1>2, <1>3, <1>4, OnceKept DEF RegistryOK
<1>6. /\ Len(stack') <= raised' /\ raised' \in 0..MaxEvents
      /\ spent' \subseteq Id /\ odd' = {} /\ AllGo({})
      /\ stack' \in Seq(Frame) /\ OnStack' \subseteq {} \union OnStack
  BY <1>1, <1>4 DEF AllGo
<1> QED
  BY <1>2, <1>3, <1>5, <1>6, Combined

-----------------------------------------------------------------------------
(* The theorems. *)

LEMMA InitInv == Init => IInv
<1> SUFFICES ASSUME Init PROVE IInv
  OBVIOUS
<1>1. /\ OnStack = {} /\ InUse = {} /\ Len(stack) = 0 /\ stack \in Seq(Frame)
  BY DEF Init, OnStack, InUse
<1>2. inside \in BOOLEAN
  BY Zenon DEF Init
<1>3. TypeOK
  BY <1>1, <1>2, MaxAssumption DEF Init, TypeOK
<1>4. LiveBacked /\ CacheExact
  BY DEF Init, LiveBacked, CacheExact, Element
<1>5. RegistryInv /\ OnceInv
  BY <1>1 DEF Init, RegistryInv, OnceInv, Element
<1> QED
  BY <1>1, <1>3, <1>4, <1>5 DEF Init, IInv, RegistryExact

LEMMA NextInv == IInv /\ [Next]_vars => IInv'
<1> SUFFICES ASSUME IInv, [Next]_vars PROVE IInv'
  OBVIOUS
<1>1. CASE /\ stack = <<>> /\ (Operation \/ StoreData \/ DropData)
           /\ UNCHANGED <<stack, raised, spent, odd>>
  BY <1>1, PageKept
<1>2. CASE stack = <<>> /\ Raise(<<>>) /\ UNCHANGED <<registry, ghosts>>
  BY <1>2, RaiseKept
<1>3. CASE Run
  BY <1>3, RunKept
<1>4. CASE EnterLive \/ LeaveLive \/ Bubble \/ Finish
  BY <1>4, EnterLiveKept, LeaveLiveKept, BubbleKept, FinishKept
<1>5. CASE UNCHANGED vars
  BY <1>5 DEF vars, registry, ghosts, IInv, RegistryExact, TypeOK, LiveBacked,
              CacheExact, RegistryInv, OnceInv, InUse, OnStack, FrameInv,
              SnapshotInv, DeadInv, RanInv
<1> QED
  BY <1>1, <1>2, <1>3, <1>4, <1>5 DEF Next

\* The inductive invariant: what each snapshot holds, that an id belongs to one
\* registration on one element, and that nothing which has run for an event, or
\* was unbound before it, is still ahead of it.
THEOREM Inductive == Spec => []IInv
BY InitInv, NextInv, PTL DEF Spec

\* Elements, registrations and events keep their shape; events.live and the
\* liveHandlers of the document agree, and jQuery.cache holds the parts that
\* are wanted.
THEOREM RegistryCorrect == Spec => []RegistryExact
<1>1. IInv => RegistryExact
  BY DEF IInv
<1> QED
  BY <1>1, Inductive, PTL

\* No handler runs twice for an event, and a handler of one() runs once at all
\* unless events are raised within events.
THEOREM HandlersRunOnce == Spec => []RunsOnce
<1>1. IInv => RunsOnce
  BY DEF IInv, RunsOnce
<1> QED
  BY <1>1, Inductive, PTL

\* A handler that was unbound before an event was raised does not run for it.
THEOREM UnboundStaysSilent == Spec => []NoStray
<1>1. IInv => NoStray
  BY DEF IInv, NoStray
<1> QED
  BY <1>1, Inductive, PTL

\* Live handlers run from the target outwards.
THEOREM LiveInsideOut == Spec => []InsideOut
<1>1. IInv => InsideOut
  BY DEF IInv, InsideOut
<1> QED
  BY <1>1, Inductive, PTL

-----------------------------------------------------------------------------
(* The editor and the canvas. *)

Path == Seq(Nat \ {0})

\* The paths of a tree that has a root, or of a part of one.
Paths(D) == IsFiniteSet(D) /\ D \subseteq Path
Rooted(D) == Paths(D) /\ <<>> \in D

Node(n) == n = [name |-> n.name, atts |-> n.atts, expid |-> n.expid]
Nodes(t) == \A p \in DOMAIN t : Node(t[p])

\* An expression is identified once, and what was identified last is the root.
Single(t) ==
  \A q, r \in DOMAIN t : t[q].expid = t[r].expid /\ t[q].expid # None => q = r

Tree(t) == Rooted(DOMAIN t) /\ Nodes(t) /\ Single(t)

\* What has been identified goes by the name that the editor shows there.
Tells(t, heads) ==
  \A q \in DOMAIN t :
    t[q].expid \in DOMAIN heads => t[q].name = heads[t[q].expid].name

\* A tree as editor and canvas share it.
Shared(o) ==
  /\ o = [nodes |-> o.nodes, adjusted |-> o.adjusted, touched |-> o.touched,
          sized |-> o.sized, missed |-> o.missed, taken |-> o.taken]
  /\ o.touched \in BOOLEAN /\ o.missed \in BOOLEAN /\ o.taken \in BOOLEAN
  /\ Tree(o.nodes)

Identifies(o) == o.nodes[<<>>].expid # None

\* ... and was drawn last the way the canvas draws now.
Sized(o, mode) == ~o.missed => o.sized = {mode}
Untouched(o, heads) ==
  /\ ~o.touched => Heads(o.nodes) = heads
  /\ ~o.taken => Names(o.nodes) = Names(heads) /\ Tells(o.nodes, heads)

IsSeq(s) == s \in Seq({s[i] : i \in DOMAIN s})

EditorInv ==
  /\ Rooted(DOMAIN dom) /\ Paths(DOMAIN clipboard)
  /\ Shared(current) /\ Identifies(current) /\ Sized(current, canvas)
  /\ ~current.touched => Heads(current.nodes) = Heads(dom)
  /\ ~current.taken => Names(current.nodes) = Names(dom)
  /\ astray \in BOOLEAN
  /\ IF astray THEN current.taken ELSE Tells(current.nodes, Heads(dom))
  /\ IsSeq(undoStack) /\ IsSeq(past) /\ Len(past) = Len(undoStack)
  /\ \A i \in DOMAIN undoStack :
       /\ Shared(undoStack[i]) /\ Identifies(undoStack[i])
       /\ Sized(undoStack[i], canvas)
       /\ Untouched(undoStack[i], past[i])

-----------------------------------------------------------------------------
(* Paths. *)

LEMMA PathFacts ==
  ASSUME NEW q \in Path
  PROVE  /\ Len(q) \in Nat /\ DOMAIN q = 1..Len(q)
         /\ \A i \in 1..Len(q) : q[i] \in Nat /\ q[i] # 0
         /\ q # <<>> <=> Len(q) > 0
         /\ q \in Seq(Int)
  BY EmptySeq DEF Path

\* A sibling of p, or what is below it, is p or below p when it has its number.
LEMMA SameNumber ==
  ASSUME NEW p \in Path, p # <<>>, NEW q \in Path,
         IsPrefix(Front(p), q), Len(q) >= Len(p), q[Len(p)] = Last(p)
  PROVE  IsPrefix(p, q)
<1>1. /\ Len(p) \in Nat /\ Len(q) \in Nat /\ Len(p) > 0
      /\ p \in Seq(Int) /\ q \in Seq(Int)
  BY PathFacts
<1>2. Front(p) \in Seq(Int) /\ Len(Front(p)) = Len(p) - 1
      /\ \A i \in 1..(Len(p) - 1) : Front(p)[i] = p[i]
  <2>1. 1 \in Int /\ Len(p) - 1 \in Int /\ \A i \in 1..(Len(p) - 1) : p[i] \in Int
    BY <1>1
  <2>2. /\ Front(p) \in Seq(Int)
        /\ Len(Front(p)) = IF 1 <= Len(p) - 1 THEN (Len(p) - 1) - 1 + 1 ELSE 0
        /\ \A i \in 1..((Len(p) - 1) - 1 + 1) : Front(p)[i] = p[1 + i - 1]
    BY <2>1, SubSeqProperties DEF Front
  <2> QED
    <3>0. /\ Len(p) \in Nat /\ Len(p) > 0
          /\ Len(Front(p)) = IF 1 <= Len(p) - 1 THEN (Len(p) - 1) - 1 + 1 ELSE 0
      BY <1>1, <2>2
    <3>1. Len(Front(p)) = Len(p) - 1
      <4> DEFINE m == Len(p)  n == Len(Front(p))
      <4>1. m \in Nat /\ m > 0 /\ n = IF 1 <= m - 1 THEN (m - 1) - 1 + 1 ELSE 0
        BY <3>0
      <4> HIDE DEF m, n
      <4>2. n = m - 1
        BY <4>1
      <4> QED
        BY <4>2 DEF m, n
    <3>2. ASSUME NEW i \in 1..(Len(p) - 1) PROVE Front(p)[i] = p[i]
      <4>1. i \in 1..((Len(p) - 1) - 1 + 1) /\ 1 + i - 1 = i
        BY <1>1
      <4> QED
        BY <2>2, <4>1
    <3> QED
      BY <2>2, <3>1, <3>2
<1>3. ASSUME NEW i \in 1..(Len(p) - 1) PROVE p[i] = q[i]
  <2>1. SubSeq(Front(p), 1, Len(p) - 1)[i] = SubSeq(q, 1, Len(p) - 1)[i]
    BY <1>2 DEF IsPrefix
  <2>2. /\ SubSeq(Front(p), 1, Len(p) - 1)[i] = Front(p)[i]
        /\ SubSeq(q, 1, Len(p) - 1)[i] = q[i]
    BY <1>1, <1>2, SubSeqProperties
  <2> QED
    BY <1>2, <2>1, <2>2
<1>4. \A i \in 1..Len(p) : p[i] = q[i]
  BY <1>1, <1>3 DEF Last
<1>5. /\ SubSeq(p, 1, Len(p)) \in Seq(Int) /\ SubSeq(q, 1, Len(p)) \in Seq(Int)
      /\ Len(SubSeq(p, 1, Len(p))) = Len(p) /\ Len(SubSeq(q, 1, Len(p))) = Len(p)
      /\ \A i \in 1..Len(p) : SubSeq(p, 1, Len(p))[i] = SubSeq(q, 1, Len(p))[i]
  BY <1>1, <1>4, SubSeqProperties
<1>6. SubSeq(p, 1, Len(p)) = SubSeq(q, 1, Len(p))
  BY <1>5, SeqEqual
<1> QED
  BY <1>1, <1>6 DEF IsPrefix

LEMMA ShiftPath ==
  ASSUME NEW p \in Path, p # <<>>, NEW q \in Path
  PROVE  /\ Shift(q, p, 1) \in Path /\ Len(Shift(q, p, 1)) = Len(q)
         /\ Len(Shift(q, p, -1)) = Len(q)
         /\ ~IsPrefix(p, q) => Shift(q, p, -1) \in Path
<1>1. /\ Len(p) \in Nat /\ Len(q) \in Nat /\ Len(p) > 0 /\ q \in Seq(Int)
      /\ \A i \in 1..Len(q) : q[i] \in Nat /\ q[i] # 0
      /\ Last(p) \in Nat /\ Last(p) # 0
  BY PathFacts DEF Last
<1>2. CASE ~(IsPrefix(Front(p), q) /\ Len(q) >= Len(p) /\ q[Len(p)] >= Last(p))
  BY <1>2 DEF Shift
<1>3. CASE IsPrefix(Front(p), q) /\ Len(q) >= Len(p) /\ q[Len(p)] >= Last(p)
  <2>1. Len(p) \in 1..Len(q) /\ q[Len(p)] \in Nat
    BY <1>1, <1>3
  <2>2. /\ Shift(q, p, 1) = [q EXCEPT ![Len(p)] = q[Len(p)] + 1]
        /\ Shift(q, p, -1) = [q EXCEPT ![Len(p)] = q[Len(p)] - 1]
    BY <1>1, <1>3, <2>1 DEF Shift
  <2>3. Shift(q, p, 1) \in Path /\ Len(Shift(q, p, 1)) = Len(q)
    <3>1. q[Len(p)] + 1 \in Nat \ {0} /\ q \in Seq(Nat \ {0})
      BY <2>1 DEF Path
    <3> QED
      <4> DEFINE r == [q EXCEPT ![Len(p)] = q[Len(p)] + 1]
      <4>1. r \in Seq(Nat \ {0}) /\ Len(r) = Len(q)
        BY <2>1, <3>1, ExceptSeq
      <4> QED
        BY <2>2, <4>1 DEF Path
  <2>4. Len(Shift(q, p, -1)) = Len(q)
    BY <1>1, <2>1, <2>2, ExceptSeq
  <2>5. ASSUME ~IsPrefix(p, q) PROVE Shift(q, p, -1) \in Path
    <3>1. q[Len(p)] # Last(p)
      BY <1>3, <2>5, SameNumber
    <3>2. q[Len(p)] - 1 \in Nat \ {0}
      BY <1>1, <1>3, <2>1, <3>1
    <3>3. q \in Seq(Nat \ {0})
      BY DEF Path
    <3> QED
      <4> DEFINE r == [q EXCEPT ![Len(p)] = q[Len(p)] - 1]
      <4>1. r \in Seq(Nat \ {0})
        BY <2>1, <3>2, <3>3, ExceptSeq
      <4> QED
        BY <2>2, <4>1 DEF Path
  <2> QED
    BY <2>3, <2>4, <2>5
<1> QED
  BY <1>2, <1>3

-----------------------------------------------------------------------------
(* Trees. *)

LEMMA FiniteImage ==
  ASSUME NEW f, IsFiniteSet(DOMAIN f)
  PROVE  IsFiniteSet({f[x] : x \in DOMAIN f})
<1> DEFINE T == {f[x] : x \in DOMAIN f}
           g == [x \in DOMAIN f |-> f[x]]
<1>1. g \in Surjection(DOMAIN f, T)
  BY DEF Surjection
<1> QED
  BY <1>1, FS_Surjection

\* Where siblings move, each node is one of those there were, under a path of
\* the same length.
LEMMA ShiftedFacts ==
  ASSUME NEW t, NEW p \in Path, p # <<>>, NEW S, S \subseteq DOMAIN t,
         NEW d \in {-1, 1}, IsFiniteSet(S), S \subseteq Path,
         \A q \in S : Shift(q, p, d) \in Path
  PROVE  /\ Paths(DOMAIN Shifted(t, S, p, d))
         /\ \A q \in DOMAIN Shifted(t, S, p, d) :
              \E r \in S : Shift(r, p, d) = q /\ Shifted(t, S, p, d)[q] = t[r]
         /\ <<>> \in S => /\ <<>> \in DOMAIN Shifted(t, S, p, d)
                          /\ Shifted(t, S, p, d)[<<>>] = t[<<>>]
<1> DEFINE u == Shifted(t, S, p, d)
<1>1. DOMAIN u = {Shift(r, p, d) : r \in S}
  BY DEF Shifted
<1>2. IsFiniteSet({Shift(r, p, d) : r \in S})
  <2> DEFINE f == [r \in S |-> Shift(r, p, d)]
  <2>1. IsFiniteSet({f[x] : x \in DOMAIN f})
    BY FiniteImage
  <2> QED
    BY <2>1
<1>3. ASSUME NEW q \in DOMAIN u
      PROVE  \E r \in S : Shift(r, p, d) = q /\ u[q] = t[r]
  <2>1. \E r \in S : Shift(r, p, d) = q
    BY <1>1
  <2> DEFINE r == CHOOSE r \in S : Shift(r, p, d) = q
  <2>2. r \in S /\ Shift(r, p, d) = q
    BY <2>1
  <2>3. u[q] = t[r]
    BY <1>1 DEF Shifted
  <2> QED
    BY <2>2, <2>3
<1>4. ASSUME <<>> \in S PROVE <<>> \in DOMAIN u /\ u[<<>>] = t[<<>>]
  <2>1. \A r \in S : Len(Shift(r, p, d)) = Len(r)
    BY ShiftPath
  <2>2. \A r \in Path : Len(r) = 0 <=> r = <<>>
    BY EmptySeq DEF Path
  <2>3. \A r \in S : Shift(r, p, d) = <<>> <=> r = <<>>
    BY <2>1, <2>2
  <2>4. <<>> \in DOMAIN u
    BY <1>1, <1>4, <2>3
  <2> QED
    BY <1>3, <2>3, <2>4
<1> QED
  BY <1>1, <1>2, <1>3, <1>4 DEF Paths

\* u holds some nodes of t, each once.
LEMMA ShiftedSingle ==
  ASSUME NEW t, NEW p \in Path, p # <<>>, NEW S, S \subseteq DOMAIN t,
         NEW d \in {-1, 1}, IsFiniteSet(S), S \subseteq Path,
         \A q \in S : Shift(q, p, d) \in Path, Single(t)
  PROVE  Single(Shifted(t, S, p, d))
<1> DEFINE u == Shifted(t, S, p, d)
<1> SUFFICES ASSUME NEW q1 \in DOMAIN u, NEW q2 \in DOMAIN u,
                    u[q1].expid = u[q2].expid, u[q1].expid # None
             PROVE  q1 = q2
  BY DEF Single
<1>1. PICK r1 \in S : Shift(r1, p, d) = q1 /\ u[q1] = t[r1]
  BY ShiftedFacts
<1>2. PICK r2 \in S : Shift(r2, p, d) = q2 /\ u[q2] = t[r2]
  BY ShiftedFacts
<1>3. r1 = r2
  BY <1>1, <1>2 DEF Single
<1> QED
  BY <1>1, <1>2, <1>3

\* Each node of u is one of t.
From(u, t) == \A q \in DOMAIN u : \E r \in DOMAIN t : u[q] = t[r]

LEMMA WithoutFacts ==
  ASSUME NEW t, Rooted(DOMAIN t), NEW p \in DOMAIN t, p # <<>>
  PROVE  /\ Rooted(DOMAIN Without(t, p)) /\ From(Without(t, p), t)
         /\ Without(t, p)[<<>>] = t[<<>>]
         /\ Single(t) => Single(Without(t, p))
<1> DEFINE S == {q \in DOMAIN t : ~IsPrefix(p, q)}
<1>1. p \in Path
  BY DEF Rooted, Paths
<1>2. S \subseteq DOMAIN t /\ IsFiniteSet(S) /\ S \subseteq Path
  BY FS_Subset DEF Rooted, Paths
<1>3. \A q \in S : Shift(q, p, -1) \in Path
  BY <1>1, <1>2, ShiftPath
<1>4. <<>> \in S
  <2>1. Len(p) > 0 /\ Len(p) \in Nat /\ Len(<<>>) = 0
    BY <1>1, PathFacts, EmptySeq
  <2> QED
    BY <2>1 DEF IsPrefix, Rooted
<1>5. Without(t, p) = Shifted(t, S, p, -1)
  BY DEF Without
<1> HIDE DEF S
<1>6. -1 \in {-1, 1}
  OBVIOUS
<1>7. /\ Rooted(DOMAIN Shifted(t, S, p, -1)) /\ From(Shifted(t, S, p, -1), t)
      /\ Shifted(t, S, p, -1)[<<>>] = t[<<>>]
  BY <1>1, <1>2, <1>3, <1>4, <1>6, ShiftedFacts DEF Rooted, From
<1>8. Single(t) => Single(Shifted(t, S, p, -1))
  BY <1>1, <1>2, <1>3, <1>6, ShiftedSingle
<1> QED
  BY <1>5, <1>7, <1>8

LEMMA PathBelow ==
  ASSUME NEW p \in Path, p # <<>>, NEW s \in Path
  PROVE  /\ p \o s \in Path /\ p \o s # <<>>
         /\ SubSeq(p \o s, Len(p) + 1, Len(p \o s)) = s
<1>1. /\ p \in Seq(Nat \ {0}) /\ s \in Seq(Nat \ {0})
      /\ Len(p) \in Nat /\ Len(s) \in Nat /\ Len(p) > 0
  BY PathFacts DEF Path
<1>2. /\ p \o s \in Seq(Nat \ {0}) /\ Len(p \o s) = Len(p) + Len(s)
  BY <1>1, ConcatProperties
<1>3. p \o s # <<>>
  BY <1>1, <1>2, EmptySeq
<1>4. SubSeq(p \o s, Len(p) + 1, Len(p) + Len(s)) = s
  BY <1>1, SubSeqOfConcat2
<1> QED
  BY <1>2, <1>3, <1>4 DEF Path

\* What is put into a tree joins what was there.
LEMMA WithFacts ==
  ASSUME NEW t, Rooted(DOMAIN t), NEW p \in Path, p # <<>>,
         NEW sub, Paths(DOMAIN sub)
  PROVE  /\ Rooted(DOMAIN With(t, p, sub))
         /\ With(t, p, sub)[<<>>] = t[<<>>]
         /\ \A q \in DOMAIN With(t, p, sub) :
              \/ \E r \in DOMAIN t : With(t, p, sub)[q] = t[r]
              \/ \E s \in DOMAIN sub : With(t, p, sub)[q] = sub[s]
         /\ Single(t) /\ (\A s \in DOMAIN sub : sub[s].expid = None)
              => Single(With(t, p, sub))
<1> DEFINE moved == Shifted(t, DOMAIN t, p, 1)
           added == {p \o s : s \in DOMAIN sub}
           w == With(t, p, sub)
<1>1. w = [q \in DOMAIN moved \union added |->
             IF q \in DOMAIN moved THEN moved[q]
             ELSE sub[SubSeq(q, Len(p) + 1, Len(q))]]
  BY DEF With
<1>2. /\ 1 \in {-1, 1} /\ IsFiniteSet(DOMAIN t) /\ DOMAIN t \subseteq Path
      /\ \A q \in DOMAIN t : Shift(q, p, 1) \in Path
      /\ <<>> \in DOMAIN t
  BY ShiftPath DEF Rooted, Paths
<1>3. /\ Paths(DOMAIN moved)
      /\ \A q \in DOMAIN moved : \E r \in DOMAIN t : moved[q] = t[r]
      /\ <<>> \in DOMAIN moved /\ moved[<<>>] = t[<<>>]
  BY <1>2, ShiftedFacts
<1>4. Single(t) => Single(moved)
  BY <1>2, ShiftedSingle
<1>5. IsFiniteSet(added) /\ added \subseteq Path
  <2> DEFINE f == [s \in DOMAIN sub |-> p \o s]
  <2>1. IsFiniteSet({f[x] : x \in DOMAIN f})
    BY FiniteImage DEF Paths
  <2>2. added = {f[x] : x \in DOMAIN f}
    OBVIOUS
  <2>3. added \subseteq Path
    BY PathBelow DEF Paths
  <2> QED
    BY <2>1, <2>2, <2>3
<1>6. \A q \in added : \E s \in DOMAIN sub :
        q = p \o s /\ SubSeq(q, Len(p) + 1, Len(q)) = s
  BY PathBelow DEF Paths
<1> HIDE DEF moved, added
<1>7. DOMAIN w = DOMAIN moved \union added
  BY <1>1
<1>8. Rooted(DOMAIN w)
  <2>1. IsFiniteSet(DOMAIN moved \union added)
    BY <1>3, <1>5, FS_Union DEF Paths
  <2> QED
    BY <1>3, <1>5, <1>7, <2>1 DEF Rooted, Paths
<1>9. /\ \A q \in DOMAIN moved : w[q] = moved[q]
      /\ \A q \in DOMAIN w : q \notin DOMAIN moved =>
           \E s \in DOMAIN sub : w[q] = sub[s]
  BY <1>1, <1>6, <1>7
<1>10. \A q \in DOMAIN w : \/ \E r \in DOMAIN t : w[q] = t[r]
                          \/ \E s \in DOMAIN sub : w[q] = sub[s]
  BY <1>3, <1>9
<1>11. ASSUME Single(t), \A s \in DOMAIN sub : sub[s].expid = None
       PROVE  Single(w)
  <2>1. Single(moved)
    BY <1>4, <1>11
  <2>2. \A q \in DOMAIN w : w[q].expid # None => q \in DOMAIN moved
    BY <1>9, <1>11
  <2> HIDE DEF w
  <2> QED
    BY <1>9, <2>1, <2>2 DEF Single
<1> QED
  BY <1>3, <1>8, <1>9, <1>10, <1>11

\* The next child of a node has a path.
LEMMA ChildPath ==
  ASSUME NEW t, Paths(DOMAIN t), NEW p \in Path
  PROVE  /\ Arity(t, p) \in Nat
         /\ \A n \in Nat : Child(p, n + 1) \in Path /\ Child(p, n + 1) # <<>>
<1>1. IsFiniteSet(Children(t, p))
  BY FS_Subset DEF Children, Paths
<1>2. Arity(t, p) \in Nat
  BY <1>1, FS_CardinalityType DEF Arity
<1>3. ASSUME NEW n \in Nat
      PROVE  Child(p, n + 1) \in Path /\ Child(p, n + 1) # <<>>
  BY AppendProperties DEF Child, Path
<1> QED
  BY <1>2, <1>3

-----------------------------------------------------------------------------
(* The canvas. *)

\* The canvas keeps the name and the expid of what it moves, and adds what has
\* no expid.
Known(u, t) ==
  \A q \in DOMAIN u :
    \/ u[q].expid = None
    \/ \E r \in DOMAIN t : u[q].expid = t[r].expid /\ u[q].name = t[r].name

LEMMA NodeMade ==
  ASSUME NEW name, NEW atts, NEW expid
  PROVE  LET n == [name |-> name, atts |-> atts, expid |-> expid] IN
         Node(n) /\ n.name = name /\ n.atts = atts /\ n.expid = expid
  BY DEF Node

LEMMA NodeAtts ==
  ASSUME NEW n, Node(n), NEW a
  PROVE  /\ Node([n EXCEPT !.atts = a])
         /\ [n EXCEPT !.atts = a].name = n.name
         /\ [n EXCEPT !.atts = a].expid = n.expid
  BY DEF Node

LEMMA GhostFacts ==
  /\ Paths(DOMAIN Ghost) /\ \A s \in DOMAIN Ghost : Ghost[s].expid = None
  /\ \A s \in DOMAIN Ghost : Node(Ghost[s])
<1>1. DOMAIN Ghost = {<<>>}
  BY DEF Ghost, Leaf
<1>2. IsFiniteSet({<<>>})
  BY FS_Singleton
<1>3. <<>> \in Path
  BY EmptySeq DEF Path
<1>4. Ghost[<<>>] = [name |-> "_", atts |-> <<>>, expid |-> None]
  BY DEF Ghost, Leaf
<1> QED
  <2>1. Ghost[<<>>].expid = None /\ Node(Ghost[<<>>])
    <3> DEFINE n == [name |-> "_", atts |-> <<>>, expid |-> None]
    <3>1. Node(n) /\ n.expid = None
      BY NodeMade
    <3>2. Ghost[<<>>] = n
      BY <1>4
    <3> HIDE DEF n
    <3> QED
      BY <3>1, <3>2
  <2>2. Paths(DOMAIN Ghost)
    BY <1>1, <1>2, <1>3 DEF Paths
  <2> QED
    BY <1>1, <2>1, <2>2

\* Taking the condition out of an "if".
LEMMA ConditionTaken ==
  ASSUME NEW t, Tree(t), NEW c \in DOMAIN t, c # <<>>, NEW p, NEW a
  PROVE  LET u == [Without(t, c) EXCEPT ![p].atts = a] IN
         /\ Tree(u) /\ Known(u, t) /\ u[<<>>].expid = t[<<>>].expid
<1> DEFINE v == Without(t, c)
           u == [v EXCEPT ![p].atts = a]
<1>1. /\ Rooted(DOMAIN v) /\ From(v, t) /\ v[<<>>] = t[<<>>] /\ Single(v)
  BY WithoutFacts DEF Tree
<1>2. Nodes(v)
  BY <1>1 DEF From, Tree, Nodes
<1> HIDE DEF v
<1>3. DOMAIN u = DOMAIN v
  OBVIOUS
<1>4. ASSUME NEW q \in DOMAIN v
      PROVE  Node(u[q]) /\ u[q].name = v[q].name /\ u[q].expid = v[q].expid
  <2>1. CASE q = p
    <3>1. u[q] = [v[q] EXCEPT !.atts = a]
      BY <2>1
    <3>2. Node(v[q])
      BY <1>2 DEF Nodes
    <3> QED
      BY <3>1, <3>2, NodeAtts
  <2>2. CASE q # p
    BY <1>2, <2>2 DEF Nodes
  <2> QED
    BY <2>1, <2>2
<1> HIDE DEF u
<1>5. Single(u)
  BY <1>1, <1>3, <1>4 DEF Single
<1>6. Known(u, t)
  BY <1>1, <1>3, <1>4 DEF Known, From
<1>7. Tree(u)
  BY <1>1, <1>3, <1>4, <1>5 DEF Tree, Nodes
<1>8. u[<<>>].expid = t[<<>>].expid
  BY <1>1, <1>4 DEF Rooted
<1> QED
  BY <1>6, <1>7, <1>8 DEF u, v

LEMMA GhostAdded ==
  ASSUME NEW t, Tree(t), NEW p \in Path, p # <<>>
  PROVE  LET u == With(t, p, Ghost) IN
         /\ Tree(u) /\ Known(u, t) /\ u[<<>>].expid = t[<<>>].expid
<1> DEFINE u == With(t, p, Ghost)
<1>1. /\ Rooted(DOMAIN u) /\ u[<<>>] = t[<<>>] /\ Single(u)
      /\ \A q \in DOMAIN u : \/ \E r \in DOMAIN t : u[q] = t[r]
                             \/ \E s \in DOMAIN Ghost : u[q] = Ghost[s]
  BY WithFacts, GhostFacts DEF Tree
<1> HIDE DEF u
<1>2. Nodes(u)
  BY <1>1, GhostFacts DEF Tree, Nodes
<1>3. Known(u, t)
  BY <1>1, GhostFacts DEF Known
<1> QED
  BY <1>1, <1>2, <1>3 DEF Tree, u

LEMMA AdjustFacts ==
  ASSUME NEW t, Tree(t), NEW p \in DOMAIN t
  PROVE  /\ Tree(Adjust(t, p)) /\ Known(Adjust(t, p), t)
         /\ Adjust(t, p)[<<>>].expid = t[<<>>].expid
<1> DEFINE c == Child(p, 1)
           u == IF c \notin DOMAIN t THEN t
                ELSE [Without(t, c) EXCEPT ![p].atts =
                        Put(t[c].atts, "condition", t[c].name)]
           g == Child(p, Arity(u, p) + 1)
<1>1. Adjust(t, p) = IF Arity(u, p) < 2 THEN With(u, g, Ghost) ELSE u
  BY DEF Adjust
<1>2. p \in Path
  BY DEF Tree, Rooted, Paths
<1>3. c # <<>>
  <2>1. Paths(DOMAIN t) /\ 0 \in Nat /\ 0 + 1 = 1
    BY DEF Tree, Rooted
  <2>2. Child(p, 0 + 1) # <<>>
    BY <1>2, <2>1, ChildPath
  <2> QED
    BY <2>1, <2>2
<1>4. Known(t, t)
  BY DEF Known
<1>5. /\ Tree(u) /\ Known(u, t) /\ u[<<>>].expid = t[<<>>].expid
  <2>1. CASE c \notin DOMAIN t
    BY <1>4, <2>1
  <2>2. CASE c \in DOMAIN t
    <3> DEFINE a == Put(t[c].atts, "condition", t[c].name)
    <3>1. u = [Without(t, c) EXCEPT ![p].atts = a]
      BY <2>2
    <3> HIDE DEF a, u, c
    <3>2. LET w == [Without(t, c) EXCEPT ![p].atts = a] IN
          /\ Tree(w) /\ Known(w, t) /\ w[<<>>].expid = t[<<>>].expid
      BY <1>3, <2>2, ConditionTaken
    <3> QED
      BY <3>1, <3>2
  <2> QED
    BY <2>1, <2>2
<1> HIDE DEF u
<1>6. g \in Path /\ g # <<>>
  BY <1>2, <1>5, ChildPath DEF Tree, Rooted
<1> HIDE DEF g
<1>7. LET w == With(u, g, Ghost) IN
      /\ Tree(w) /\ Known(w, u) /\ w[<<>>].expid = u[<<>>].expid
  BY <1>5, <1>6, GhostAdded
<1>8. Known(With(u, g, Ghost), t)
  BY <1>5, <1>7 DEF Known
<1> QED
  BY <1>1, <1>5, <1>7, <1>8

LEMMA NamesFacts ==
  ASSUME NEW t
  PROVE  /\ DOMAIN Names(t) = DOMAIN t
         /\ \A q \in DOMAIN t : Names(t)[q] = t[q].name
         /\ Names(Heads(t)) = Names(t)
         /\ Names(ToTree(t)) = Names(t) /\ Names(Rendered(t)) = Names(t)
<1>1. /\ DOMAIN ToTree(t) = DOMAIN t /\ DOMAIN Rendered(t) = DOMAIN t
      /\ DOMAIN Heads(t) = DOMAIN t
  BY DEF ToTree, Rendered, Heads
<1>2. ASSUME NEW p \in DOMAIN t
      PROVE  /\ ToTree(t)[p].name = t[p].name
             /\ Rendered(t)[p].name = t[p].name /\ Heads(t)[p].name = t[p].name
  BY DEF ToTree, Rendered, Heads
<1>3. Names(Heads(t)) = Names(t)
  BY <1>1, <1>2 DEF Names
<1>4. Names(ToTree(t)) = Names(t)
  BY <1>1, <1>2 DEF Names
<1>5. Names(Rendered(t)) = Names(t)
  BY <1>1, <1>2 DEF Names
<1> QED
  BY <1>3, <1>4, <1>5 DEF Names

LEMMA HeadsFacts ==
  ASSUME NEW t
  PROVE  /\ DOMAIN Heads(t) = DOMAIN t
         /\ \A q \in DOMAIN t : Heads(t)[q].name = t[q].name
         /\ Heads(ToTree(t)) = Heads(t) /\ Heads(Rendered(t)) = Heads(t)
<1>1. Heads(t) = [p \in DOMAIN t |-> [name |-> t[p].name, atts |-> t[p].atts]]
  BY DEF Heads
<1>2. DOMAIN ToTree(t) = DOMAIN t /\ DOMAIN Rendered(t) = DOMAIN t
  BY DEF ToTree, Rendered
<1>3. ASSUME NEW p \in DOMAIN t
      PROVE  /\ ToTree(t)[p].name = t[p].name /\ ToTree(t)[p].atts = t[p].atts
             /\ Rendered(t)[p].name = t[p].name
             /\ Rendered(t)[p].atts = t[p].atts
  BY DEF ToTree, Rendered
<1>4. Heads(ToTree(t)) = Heads(t)
  BY <1>2, <1>3 DEF Heads
<1>5. Heads(Rendered(t)) = Heads(t)
  BY <1>2, <1>3 DEF Heads
<1> QED
  BY <1>1, <1>4, <1>5

\* A new tree has no expids.
LEMMA ToTreeFacts ==
  ASSUME NEW d, Rooted(DOMAIN d)
  PROVE  /\ Tree(ToTree(d)) /\ ToTree(d)[<<>>].expid = None
<1>1. DOMAIN ToTree(d) = DOMAIN d
  BY DEF ToTree
<1>2. \A p \in DOMAIN d : Node(ToTree(d)[p]) /\ ToTree(d)[p].expid = None
  BY NodeMade DEF ToTree
<1> QED
  BY <1>1, <1>2 DEF Tree, Nodes, Single, Rooted

\* Expressions are identified by their paths, when the root was not identified
\* before.
LEMMA IdentifiedFacts ==
  ASSUME NEW t, Tree(t)
  PROVE  /\ Tree(Identified(t)) /\ Identified(t)[<<>>].expid # None
         /\ Heads(Identified(t)) = Heads(t)
         /\ Names(Identified(t)) = Names(t)
         /\ t[<<>>].expid # None => Identified(t) = t
         /\ t[<<>>].expid = None => Tells(Identified(t), Heads(t))
<1>1. CASE t[<<>>].expid # None
  BY <1>1 DEF Identified
<1>2. CASE t[<<>>].expid = None
  <2> DEFINE u == Identified(t)
  <2>1. u = [p \in DOMAIN t |-> [name |-> t[p].name, atts |-> t[p].atts,
                                 expid |-> p]]
    BY <1>2 DEF Identified
  <2> HIDE DEF u
  <2>2. DOMAIN u = DOMAIN t
    BY <2>1
  <2>3. \A p \in DOMAIN t : /\ Node(u[p]) /\ u[p].name = t[p].name
                            /\ u[p].atts = t[p].atts /\ u[p].expid = p
    BY <2>1, NodeMade
  <2>4. <<>> \in DOMAIN t /\ None # <<>>
    BY DEF Tree, Rooted, None
  <2>5. Tree(u)
    BY <2>2, <2>3 DEF Tree, Nodes, Single
  <2>6. Heads(u) = Heads(t) /\ Names(u) = Names(t)
    BY <2>2, <2>3 DEF Heads, Names
  <2>7. Tells(u, Heads(t))
    <3>1. \A q \in DOMAIN t : u[q].expid = q /\ Heads(t)[q].name = u[q].name
      BY <2>3, HeadsFacts
    <3>2. DOMAIN Heads(t) = DOMAIN t
      BY HeadsFacts
    <3> QED
      BY <2>2, <3>1, <3>2 DEF Tells
  <2>8. u[<<>>].expid # None
    BY <2>3, <2>4
  <2> QED
    BY <1>2, <2>5, <2>6, <2>7, <2>8 DEF u
<1> QED
  BY <1>1, <1>2

LEMMA TellsKnown ==
  ASSUME NEW t, NEW u, Known(u, t), NEW heads, DOMAIN heads \subseteq Path,
         Tells(t, heads)
  PROVE  Tells(u, heads)
<1>1. None \notin Path
  BY PathFacts DEF None
<1> QED
  BY <1>1 DEF Known, Tells

\* What is told by some heads is told by others of the same names.
LEMMA TellsNamed ==
  ASSUME NEW t, NEW g, NEW h, Names(g) = Names(h), Tells(t, g)
  PROVE  Tells(t, h)
<1>1. DOMAIN g = DOMAIN h /\ \A q \in DOMAIN g : g[q].name = h[q].name
  BY NamesFacts
<1> QED
  BY <1>1 DEF Tells

LEMMA SharedMade ==
  ASSUME NEW nodes, Tree(nodes), NEW adjusted, NEW touched \in BOOLEAN,
         NEW taken \in BOOLEAN, NEW sized, NEW missed \in BOOLEAN
  PROVE  LET o == [nodes |-> nodes, adjusted |-> adjusted, taken |-> taken,
                   touched |-> touched, sized |-> sized,
                   missed |-> missed] IN
         /\ Shared(o) /\ o.nodes = nodes /\ o.touched = touched
         /\ o.taken = taken /\ o.sized = sized /\ o.missed = missed
  BY DEF Shared

\* What may be said of the expressions of a tree before it is drawn.
Ready(o, heads) ==
  \/ Identifies(o) /\ Tells(o.nodes, heads)
  \/ ~Identifies(o) /\ heads = Heads(o.nodes)

\* An expression that gets a "ref" stays where and what it is.
LEMMA ReferringFacts ==
  ASSUME NEW t, Tree(t), NEW shown
  PROVE  LET u == Referring(t, shown) IN
         /\ Tree(u) /\ Known(u, t) /\ u[<<>>].expid = t[<<>>].expid
<1> DEFINE u == Referring(t, shown)
<1>1. DOMAIN u = DOMAIN t
  BY DEF Referring
<1>2. ASSUME NEW q \in DOMAIN t
      PROVE  Node(u[q]) /\ u[q].name = t[q].name /\ u[q].expid = t[q].expid
  <2> DEFINE n == t[q]
             a == Put(n.atts, "ref", Heads(Subtree(t, Child(q, 1))))
             m == [n EXCEPT !.atts = a]
  <2>1. Node(n)
    BY DEF Tree, Nodes
  <2>2. u[q] = m \/ u[q] = n
    BY DEF Referring
  <2>3. t[q] = n
    OBVIOUS
  <2> HIDE DEF n, a, u
  <2>4. Node(m) /\ m.name = n.name /\ m.expid = n.expid
    BY <2>1, NodeAtts
  <2> HIDE DEF m
  <2> QED
    BY <2>1, <2>2, <2>3, <2>4
<1> HIDE DEF u
<1>3. Single(u)
  BY <1>1, <1>2 DEF Tree, Single
<1>4. Known(u, t)
  BY <1>1, <1>2 DEF Known
<1>5. Tree(u) /\ u[<<>>].expid = t[<<>>].expid
  BY <1>1, <1>2, <1>3 DEF Tree, Nodes, Rooted
<1> QED
  BY <1>4, <1>5 DEF u

LEMMA DrawnFacts ==
  ASSUME NEW o, Shared(o), NEW mode
  PROVE  LET d == Drawn(o, mode) IN
         /\ Shared(d) /\ Identifies(d)
         /\ d.missed = o.missed
         /\ d.sized = IF o.sized = {} THEN {mode} ELSE o.sized
         /\ (o.touched => d.touched) /\ (o.taken => d.taken)
         /\ ~d.touched => Heads(d.nodes) = Heads(o.nodes)
         /\ ~d.taken => Names(d.nodes) = Names(o.nodes)
         /\ \A heads : DOMAIN heads \subseteq Path /\ Ready(o, heads)
                         => Tells(d.nodes, heads)
<1> DEFINE t == Identified(o.nodes)
           ifs == {p \in Shown(t, mode.hide) : t[p].name = "if"}
           a == IF ifs = {} \/ o.adjusted THEN t
                ELSE Adjust(t, CHOOSE p \in ifs : TRUE)
           u == Referring(a, Shown(a, mode.hide))
           touched == o.touched \/ Heads(u) # Heads(t)
           taken == o.taken \/ Names(u) # Names(t)
           adjusted == o.adjusted \/ ifs # {}
           sized == IF o.sized = {} THEN {mode} ELSE o.sized
           d == Drawn(o, mode)
<1>1. d = [nodes |-> u, adjusted |-> adjusted, taken |-> taken,
           touched |-> touched, sized |-> sized, missed |-> o.missed]
  BY DEF Drawn
<1>2. /\ Tree(t) /\ t[<<>>].expid # None /\ Heads(t) = Heads(o.nodes)
      /\ Names(t) = Names(o.nodes)
      /\ \A heads : Ready(o, heads) => Tells(t, heads)
  BY IdentifiedFacts DEF Shared, Ready, Identifies
<1>3. ifs \subseteq DOMAIN t
  BY DEF Shown
<1> HIDE DEF t, ifs
<1>4. Tree(a) /\ Known(a, t) /\ a[<<>>].expid # None
  <2>1. CASE ifs = {} \/ o.adjusted
    <3>1. a = t /\ Known(t, t)
      BY <2>1 DEF Known
    <3> QED
      BY <1>2, <3>1
  <2>2. CASE ~(ifs = {} \/ o.adjusted)
    <3> DEFINE p == CHOOSE p \in ifs : TRUE
    <3>1. p \in DOMAIN t /\ a = Adjust(t, p)
      BY <1>3, <2>2
    <3> HIDE DEF p, a
    <3> QED
      BY <1>2, <3>1, AdjustFacts
  <2> QED
    BY <2>1, <2>2
<1> HIDE DEF a
<1>5. Tree(u) /\ Known(u, a) /\ u[<<>>].expid # None
  BY <1>4, ReferringFacts
<1> HIDE DEF u
<1>6. Known(u, t)
  BY <1>4, <1>5 DEF Known
<1>7. /\ o.touched \in BOOLEAN /\ o.missed \in BOOLEAN /\ o.taken \in BOOLEAN
      /\ touched \in BOOLEAN /\ taken \in BOOLEAN
  BY DEF Shared
<1>8. /\ (o.touched => touched) /\ (o.taken => taken)
      /\ ~touched => Heads(u) = Heads(o.nodes)
      /\ ~taken => Names(u) = Names(o.nodes)
  BY <1>2, <1>7
<1> HIDE DEF touched, taken, adjusted, sized, d
<1>9. /\ Shared(d) /\ d.nodes = u /\ d.touched = touched /\ d.taken = taken
      /\ d.sized = sized /\ d.missed = o.missed
  BY <1>1, <1>5, <1>7, SharedMade
<1>10. Identifies(d)
  BY <1>5, <1>9 DEF Identifies
<1>11. ASSUME NEW heads, DOMAIN heads \subseteq Path, Ready(o, heads)
       PROVE  Tells(d.nodes, heads)
  BY <1>2, <1>6, <1>9, <1>11, TellsKnown
<1> QED
  BY <1>8, <1>9, <1>10, <1>11 DEF d, sized

-----------------------------------------------------------------------------
(* The undo stack. *)

LEMMA SeqFacts ==
  ASSUME NEW s, IsSeq(s)
  PROVE  Len(s) \in Nat /\ DOMAIN s = 1..Len(s) /\ (s # <<>> <=> Len(s) > 0)
<1> DEFINE S == {s[i] : i \in DOMAIN s}
<1>1. s \in Seq(S)
  BY DEF IsSeq
<1> HIDE DEF S
<1> QED
  BY <1>1, LenProperties, EmptySeq

LEMMA FunctionSeq ==
  ASSUME NEW f, NEW n \in Nat, f = [i \in 1..n |-> f[i]]
  PROVE  IsSeq(f) /\ Len(f) = n
<1> DEFINE S == {f[i] : i \in DOMAIN f}
<1>1. f \in [1..n -> S]
  OBVIOUS
<1> HIDE DEF S
<1>2. f \in Seq(S)
  BY <1>1, SeqDef
<1>3. Len(f) = n
  BY <1>1, <1>2, LenProperties
<1> QED
  BY <1>2, <1>3 DEF IsSeq, S

LEMMA AppendSeq ==
  ASSUME NEW s, IsSeq(s), NEW x
  PROVE  /\ IsSeq(Append(s, x)) /\ Len(Append(s, x)) = Len(s) + 1
         /\ DOMAIN Append(s, x) = 1..(Len(s) + 1)
         /\ \A i \in 1..Len(s) : Append(s, x)[i] = s[i]
         /\ Append(s, x)[Len(s) + 1] = x
<1> DEFINE S == {s[i] : i \in DOMAIN s}
           T == S \union {x}
           a == Append(s, x)
           A == {a[i] : i \in DOMAIN a}
<1>1. s \in Seq(S)
  BY DEF IsSeq
<1>2. S \subseteq T /\ x \in T
  OBVIOUS
<1> HIDE DEF S, T
<1>3. s \in Seq(T)
  BY <1>1, <1>2, SeqMonotonic
<1>4. /\ a \in Seq(T) /\ Len(a) = Len(s) + 1
      /\ \A i \in 1..Len(s) : a[i] = s[i]
      /\ a[Len(s) + 1] = x
  BY <1>2, <1>3, AppendProperties
<1> HIDE DEF a
<1>5. Len(a) \in Nat /\ DOMAIN a = 1..Len(a) /\ a \in [1..Len(a) -> T]
  BY <1>4, LenProperties
<1>6. a = [i \in 1..Len(a) |-> a[i]]
  BY <1>5
<1>7. IsSeq(a)
  BY <1>5, <1>6, FunctionSeq
<1> QED
  BY <1>4, <1>5, <1>7 DEF a

LEMMA FrontSeq ==
  ASSUME NEW s, IsSeq(s), s # <<>>
  PROVE  /\ IsSeq(Front(s)) /\ Len(Front(s)) = Len(s) - 1
         /\ DOMAIN Front(s) = 1..(Len(s) - 1)
         /\ \A i \in 1..(Len(s) - 1) : Front(s)[i] = s[i]
         /\ Last(s) = s[Len(s)] /\ Len(s) \in DOMAIN s
<1>1. Len(s) \in Nat /\ Len(s) > 0 /\ DOMAIN s = 1..Len(s)
  BY SeqFacts
<1> DEFINE S == {s[i] : i \in DOMAIN s}
           n == Len(s) - 1
           f == Front(s)
<1>2. n \in Nat /\ 1 \in Int /\ n \in Int /\ \A i \in 1..n : s[i] \in S
  BY <1>1
<1>3. f = SubSeq(s, 1, n)
  BY DEF Front
<1> HIDE DEF S, n, f
<1>4. /\ f \in Seq(S) /\ Len(f) = IF 1 <= n THEN n - 1 + 1 ELSE 0
      /\ \A i \in 1..(n - 1 + 1) : f[i] = s[1 + i - 1]
  BY <1>2, <1>3, SubSeqProperties
<1>5. n - 1 + 1 = n /\ \A i \in 1..n : 1 + i - 1 = i
  BY <1>2
<1>6. Len(f) = n /\ \A i \in 1..n : f[i] = s[i]
  BY <1>2, <1>4, <1>5
<1>7. DOMAIN f = 1..n /\ f \in [1..n -> S]
  BY <1>4, <1>6, LenProperties
<1>8. f = [i \in 1..n |-> f[i]]
  BY <1>7
<1>9. IsSeq(f)
  BY <1>2, <1>8, FunctionSeq
<1> QED
  BY <1>1, <1>6, <1>7, <1>9 DEF Last, n, f

-----------------------------------------------------------------------------
(* The steps. *)

LEMMA NewShared ==
  ASSUME NEW t, Tree(t)
  PROVE  /\ Shared(New(t)) /\ New(t).nodes = t /\ New(t).touched = FALSE
         /\ New(t).taken = FALSE
         /\ New(t).missed = FALSE /\ New(t).sized = {}
  BY SharedMade DEF New

LEMMA SharedExcept ==
  ASSUME NEW o, Shared(o), NEW missed \in BOOLEAN
  PROVE  /\ LET c == [o EXCEPT !.missed = missed] IN
            /\ Shared(c) /\ c.nodes = o.nodes /\ c.touched = o.touched
            /\ c.taken = o.taken /\ c.sized = o.sized /\ c.missed = missed
         /\ Shared(Cleared(o)) /\ Cleared(o).nodes = o.nodes
         /\ Cleared(o).touched = o.touched /\ Cleared(o).missed = o.missed
         /\ Cleared(o).taken = o.taken
         /\ Cleared(o).sized = {}
  BY DEF Shared, Cleared

\* The parts of EditorInv, for the steps that change some of them.
Stacked ==
  /\ IsSeq(undoStack) /\ IsSeq(past) /\ Len(past) = Len(undoStack)
  /\ \A i \in DOMAIN undoStack :
       /\ Shared(undoStack[i]) /\ Identifies(undoStack[i])
       /\ Sized(undoStack[i], canvas)
       /\ Untouched(undoStack[i], past[i])

Drawing ==
  /\ Shared(current) /\ Identifies(current) /\ Sized(current, canvas)
  /\ ~current.touched => Heads(current.nodes) = Heads(dom)
  /\ ~current.taken => Names(current.nodes) = Names(dom)
  /\ astray \in BOOLEAN
  /\ IF astray THEN current.taken ELSE Tells(current.nodes, Heads(dom))

LEMMA InvParts ==
  /\ EditorInv <=>
       Rooted(DOMAIN dom) /\ Paths(DOMAIN clipboard) /\ Drawing /\ Stacked
  /\ EditorInv' <=>
       Rooted(DOMAIN dom)' /\ Paths(DOMAIN clipboard)' /\ Drawing' /\ Stacked'
  BY DEF EditorInv, Drawing, Stacked

\* A new tree is drawn.
LEMMA FreshDrawing ==
  ASSUME NEW d, Rooted(DOMAIN d), NEW mode,
         NEW o, o = Drawn(New(ToTree(d)), mode)
  PROVE  /\ Shared(o) /\ Identifies(o) /\ o.sized = {mode}
         /\ ~o.touched => Heads(o.nodes) = Heads(d)
         /\ ~o.taken => Names(o.nodes) = Names(d)
         /\ Tells(o.nodes, Heads(d))
<1> DEFINE t == ToTree(d)
           n == New(t)
<1>1. /\ Tree(t) /\ t[<<>>].expid = None /\ Heads(t) = Heads(d)
      /\ Names(t) = Names(d)
  BY ToTreeFacts, HeadsFacts, NamesFacts
<1> HIDE DEF t
<1>2. Shared(n) /\ n.nodes = t /\ n.sized = {}
  BY <1>1, NewShared
<1>3. DOMAIN Heads(d) \subseteq Path
  BY HeadsFacts DEF Rooted, Paths
<1>4. Ready(n, Heads(d))
  BY <1>1, <1>2 DEF Ready, Identifies
<1>5. o = Drawn(n, mode)
  BY DEF t
<1> HIDE DEF n
<1> QED
  <2>1. /\ Shared(o) /\ Identifies(o)
        /\ o.sized = IF n.sized = {} THEN {mode} ELSE n.sized
        /\ ~o.touched => Heads(o.nodes) = Heads(n.nodes)
        /\ ~o.taken => Names(o.nodes) = Names(n.nodes)
    <3>1. LET r == Drawn(n, mode) IN
          /\ Shared(r) /\ Identifies(r)
          /\ r.sized = IF n.sized = {} THEN {mode} ELSE n.sized
          /\ ~r.touched => Heads(r.nodes) = Heads(n.nodes)
          /\ ~r.taken => Names(r.nodes) = Names(n.nodes)
      BY <1>2, DrawnFacts
    <3> QED
      BY <1>5, <3>1
  <2>2. Tells(o.nodes, Heads(d))
    BY <1>2, <1>3, <1>4, <1>5, DrawnFacts
  <2> QED
    BY <1>1, <1>2, <2>1, <2>2

LEMMA FlowTree ==
  ASSUME NEW t \in Flows
  PROVE  Tree(t) /\ t[<<>>].expid = None
<1>1. Rooted(DOMAIN t)
  BY FlowsAssumption DEF Rooted, Paths, Path
<1>2. ASSUME NEW p \in DOMAIN t PROVE Node(t[p]) /\ t[p].expid = None
  <2> DEFINE name == t[p].name
             atts == t[p].atts
  <2>1. t[p] = [name |-> name, atts |-> atts, expid |-> None]
    BY FlowsAssumption
  <2> HIDE DEF name, atts
  <2> QED
    BY <2>1, NodeMade
<1> QED
  BY <1>1, <1>2 DEF Tree, Nodes, Single, Rooted

LEMMA EditorInitInv == EditorInit => EditorInv
<1> SUFFICES ASSUME EditorInit PROVE EditorInv
    OBVIOUS
<1>1. PICK t \in Flows : /\ dom = Rendered(t)
                        /\ current = Drawn(New(t), canvas)
  BY DEF EditorInit
<1>2. astray = FALSE /\ undoStack = <<>> /\ past = <<>> /\ clipboard = <<>>
  BY DEF EditorInit
<1>3. Tree(t) /\ t[<<>>].expid = None /\ Rooted(DOMAIN t)
  BY FlowTree DEF Tree
<1>4. /\ Shared(New(t)) /\ New(t).nodes = t /\ New(t).sized = {}
      /\ New(t).missed = FALSE
  BY <1>3, NewShared
<1>5. /\ DOMAIN dom = DOMAIN t /\ Heads(dom) = Heads(t)
      /\ Names(dom) = Names(t) /\ DOMAIN Heads(dom) = DOMAIN t
  BY <1>1, HeadsFacts, NamesFacts DEF Rendered
<1>6. Ready(New(t), Heads(dom)) /\ DOMAIN Heads(dom) \subseteq Path
  BY <1>3, <1>4, <1>5 DEF Ready, Identifies, Rooted, Paths
<1>7. Drawing
  <2> DEFINE n == New(t)
  <2> HIDE DEF n
  <2>1. /\ Shared(n) /\ n.nodes = t /\ n.sized = {} /\ Ready(n, Heads(dom))
        /\ current = Drawn(n, canvas)
    BY <1>1, <1>4, <1>6 DEF n
  <2>2. /\ Shared(current) /\ Identifies(current) /\ current.sized = {canvas}
        /\ ~current.touched => Heads(current.nodes) = Heads(t)
        /\ ~current.taken => Names(current.nodes) = Names(t)
        /\ Tells(current.nodes, Heads(dom))
    BY <1>6, <2>1, DrawnFacts
  <2> QED
    BY <1>2, <1>5, <2>2 DEF Drawing, Sized
<1>8. Stacked
  <2>1. IsSeq(<<>>) /\ Len(<<>>) = 0 /\ DOMAIN <<>> = {}
    BY EmptySeq DEF IsSeq
  <2> QED
    BY <1>2, <2>1 DEF Stacked
<1>9. Paths(DOMAIN clipboard)
  <2>1. DOMAIN clipboard = {}
    BY <1>2
  <2> QED
    BY <2>1, FS_EmptySet DEF Paths
<1> QED
  BY <1>3, <1>5, <1>7, <1>8, <1>9, InvParts

\* Every change of the tree shown is stacked and drawn.
LEMMA ChangeStep ==
  ASSUME EditorInv, NEW d, Rooted(DOMAIN d), Change(d),
         Paths(DOMAIN clipboard)'
  PROVE  EditorInv'
<1>1. /\ dom' = d /\ undoStack' = Append(undoStack, current)
      /\ past' = Append(past, Heads(dom))
      /\ current' = Drawn(New(ToTree(d)), canvas)
      /\ astray' = FALSE /\ canvas' = canvas
  BY DEF Change, Pushed
<1>2. Rooted(DOMAIN dom)'
  BY <1>1
<1>3. Drawing'
  <2>1. /\ Shared(current') /\ Identifies(current')
        /\ current'.sized = {canvas}
        /\ ~current'.touched => Heads(current'.nodes) = Heads(d)
        /\ ~current'.taken => Names(current'.nodes) = Names(d)
        /\ Tells(current'.nodes, Heads(d))
    BY <1>1, FreshDrawing
  <2> QED
    BY <1>1, <2>1 DEF Drawing, Sized
<1>4. Drawing /\ Stacked
  BY InvParts
<1>5. Stacked'
  <2> DEFINE n == Len(undoStack)
  <2>1. n \in Nat /\ DOMAIN undoStack = 1..n /\ Len(past) = n
    BY <1>4, SeqFacts DEF Stacked
  <2>2. /\ IsSeq(undoStack') /\ Len(undoStack') = n + 1
        /\ DOMAIN undoStack' = 1..(n + 1)
        /\ \A i \in 1..n : undoStack'[i] = undoStack[i]
        /\ undoStack'[n + 1] = current
    BY <1>1, <1>4, AppendSeq DEF Stacked
  <2>3. /\ IsSeq(past') /\ Len(past') = n + 1
        /\ \A i \in 1..n : past'[i] = past[i]
        /\ past'[n + 1] = Heads(dom)
    BY <1>1, <1>4, <2>1, AppendSeq DEF Stacked
  <2>4. Untouched(current, Heads(dom))
    BY <1>4, NamesFacts DEF Drawing, Untouched
  <2> HIDE DEF n
  <2>5. ASSUME NEW i \in 1..(n + 1)
        PROVE  /\ Shared(undoStack'[i]) /\ Identifies(undoStack'[i])
               /\ Sized(undoStack'[i], canvas')
               /\ Untouched(undoStack'[i], past'[i])
    <3>1. CASE i \in 1..n
      <4>1. /\ Shared(undoStack[i]) /\ Identifies(undoStack[i])
            /\ Sized(undoStack[i], canvas) /\ Untouched(undoStack[i], past[i])
        BY <1>4, <2>1, <3>1 DEF Stacked
      <4> QED
        BY <1>1, <2>2, <2>3, <3>1, <4>1
    <3>2. CASE i = n + 1
      BY <1>1, <1>4, <2>2, <2>3, <2>4, <3>2 DEF Drawing
    <3> QED
      BY <2>1, <3>1, <3>2
  <2> QED
    BY <2>2, <2>3, <2>5 DEF Stacked
<1> QED
  BY <1>2, <1>3, <1>5, InvParts

LEMMA LeafPaths ==
  ASSUME NEW node
  PROVE  Paths(DOMAIN Leaf(node))
<1>1. DOMAIN Leaf(node) = {<<>>}
  BY DEF Leaf
<1>2. IsFiniteSet({<<>>}) /\ <<>> \in Path
  BY EmptySeq, FS_Singleton DEF Path
<1> QED
  BY <1>1, <1>2 DEF Paths

LEMMA SubtreePaths ==
  ASSUME NEW t, Paths(DOMAIN t), NEW p \in Path
  PROVE  Paths(DOMAIN Subtree(t, p))
<1> DEFINE B == {r \in DOMAIN t : IsPrefix(p, r)}
           f == [q \in B |-> SubSeq(q, Len(p) + 1, Len(q))]
<1>1. IsFiniteSet(B) /\ B \subseteq Path
  BY FS_Subset DEF Paths
<1>2. DOMAIN Subtree(t, p) = {f[x] : x \in DOMAIN f}
  BY DEF Subtree
<1>3. IsFiniteSet({f[x] : x \in DOMAIN f})
  BY <1>1, FiniteImage
<1>4. ASSUME NEW q \in B PROVE SubSeq(q, Len(p) + 1, Len(q)) \in Path
  <2>1. /\ Len(p) + 1 \in Int /\ Len(p) \in Nat /\ Len(q) \in Int
        /\ q \in Seq(Nat \ {0}) /\ DOMAIN q = 1..Len(q)
    BY <1>1, PathFacts DEF Path
  <2>2. \A i \in (Len(p) + 1)..Len(q) : q[i] \in Nat \ {0}
    BY <2>1
  <2>3. SubSeq(q, Len(p) + 1, Len(q)) \in Seq(Nat \ {0})
    BY <2>1, <2>2, SubSeqProperties
  <2> QED
    BY <2>3 DEF Path
<1> QED
  BY <1>2, <1>3, <1>4 DEF Paths

LEMMA AddStep ==
  ASSUME EditorInv, NEW p \in DOMAIN dom, AddExpression(p)
  PROVE  EditorInv'
<1> DEFINE c == Child(p, Arity(dom, p) + 1)
           w == With(dom, c, Leaf(NewHead("---")))
<1>1. Rooted(DOMAIN dom) /\ p \in Path /\ Paths(DOMAIN dom)
  BY DEF EditorInv, Rooted, Paths
<1>2. c \in Path /\ c # <<>>
  BY <1>1, ChildPath
<1>3. Change([w EXCEPT ![p].end = TRUE]) /\ clipboard' = clipboard
  BY DEF AddExpression
<1> HIDE DEF c
<1>4. Rooted(DOMAIN w)
  BY <1>1, <1>2, WithFacts, LeafPaths
<1> HIDE DEF w
<1>5. DOMAIN [w EXCEPT ![p].end = TRUE] = DOMAIN w
  OBVIOUS
<1>6. Paths(DOMAIN clipboard)'
  BY <1>3 DEF EditorInv
<1> DEFINE d == [w EXCEPT ![p].end = TRUE]
<1>7. Rooted(DOMAIN d) /\ Change(d)
  BY <1>3, <1>4, <1>5
<1> HIDE DEF d
<1> QED
  BY <1>6, <1>7, ChangeStep

LEMMA RemoveStep ==
  ASSUME EditorInv, NEW p \in DOMAIN dom, RemoveExpression(p)
  PROVE  EditorInv'
<1> DEFINE w == Without(dom, p)
           d == [w EXCEPT ![Front(p)].end = @ /\ Arity(w, Front(p)) > 0]
<1>1. Rooted(DOMAIN dom) /\ p \in Path /\ Paths(DOMAIN dom)
  BY DEF EditorInv, Rooted, Paths
<1>2. p # <<>> /\ clipboard' = ToTree(Subtree(dom, p)) /\ Change(d)
  BY DEF RemoveExpression, HasButtons
<1>3. Rooted(DOMAIN w)
  BY <1>1, <1>2, WithoutFacts
<1> HIDE DEF w
<1>4. Rooted(DOMAIN d)
  BY <1>3
<1>5. Paths(DOMAIN clipboard)'
  <2>1. DOMAIN clipboard' = DOMAIN Subtree(dom, p)
    BY <1>2 DEF ToTree
  <2> QED
    BY <1>1, <2>1, SubtreePaths
<1> HIDE DEF d
<1> QED
  BY <1>2, <1>4, <1>5, ChangeStep

LEMMA MoveStep ==
  ASSUME EditorInv, NEW p \in DOMAIN dom, MoveExpression(p)
  PROVE  EditorInv'
<1> DEFINE before == Sibling(p, Last(p) - 1)
           w == Without(dom, p)
           d == With(w, before, Subtree(dom, p))
<1>1. Rooted(DOMAIN dom) /\ p \in Path /\ Paths(DOMAIN dom)
  BY DEF EditorInv, Rooted, Paths
<1>2. p # <<>> /\ Last(p) > 1 /\ Change(d) /\ clipboard' = clipboard
  BY DEF MoveExpression, HasButtons
<1>3. before \in Path /\ before # <<>>
  <2>1. /\ Len(p) \in 1..Len(p) /\ p[Len(p)] \in Nat /\ p[Len(p)] > 1
        /\ p \in Seq(Nat \ {0})
    BY <1>1, <1>2, PathFacts DEF Last, Path
  <2>2. p[Len(p)] - 1 \in Nat \ {0}
    BY <2>1
  <2> DEFINE r == [p EXCEPT ![Len(p)] = p[Len(p)] - 1]
  <2>3. r \in Seq(Nat \ {0}) /\ Len(r) = Len(p)
    BY <2>1, <2>2, ExceptSeq
  <2>4. Len(p) > 0
    BY <1>1, <1>2, PathFacts
  <2>5. before = r
    BY DEF Sibling, Last
  <2> HIDE DEF before, r
  <2> QED
    BY <2>3, <2>4, <2>5, EmptySeq DEF Path
<1> HIDE DEF before
<1>4. Rooted(DOMAIN w) /\ Paths(DOMAIN Subtree(dom, p))
  BY <1>1, <1>2, WithoutFacts, SubtreePaths
<1> HIDE DEF w
<1>5. Rooted(DOMAIN d)
  BY <1>3, <1>4, WithFacts
<1>6. Paths(DOMAIN clipboard)'
  BY <1>2 DEF EditorInv
<1> HIDE DEF d
<1> QED
  BY <1>2, <1>5, <1>6, ChangeStep

LEMMA InsertStep ==
  ASSUME EditorInv, NEW p \in DOMAIN dom, InsertExpression(p)
  PROVE  EditorInv'
<1> DEFINE d == With(dom, p, Rendered(clipboard))
<1>1. /\ Rooted(DOMAIN dom) /\ p \in Path /\ p # <<>>
      /\ Change(d) /\ clipboard' = clipboard
  BY DEF EditorInv, Rooted, Paths, InsertExpression, HasButtons
<1>2. Paths(DOMAIN Rendered(clipboard)) /\ Paths(DOMAIN clipboard)'
  BY <1>1 DEF EditorInv, Rendered
<1>3. Rooted(DOMAIN d)
  BY <1>1, <1>2, WithFacts
<1> HIDE DEF d
<1> QED
  BY <1>1, <1>2, <1>3, ChangeStep

LEMMA EditStep ==
  ASSUME EditorInv, NEW p \in DOMAIN dom, NEW name, EditHead(p, name)
  PROVE  EditorInv'
<1> DEFINE d == [dom EXCEPT ![p].name = name]
<1>1. Rooted(DOMAIN d) /\ Change(d) /\ Paths(DOMAIN clipboard)'
  BY DEF EditorInv, EditHead
<1> HIDE DEF d
<1> QED
  BY <1>1, ChangeStep

LEMMA UndoStep == EditorInv /\ Undo => EditorInv'
<1> SUFFICES ASSUME EditorInv, Undo PROVE EditorInv'
    OBVIOUS
<1> DEFINE o == Last(undoStack)
           n == Len(undoStack)
<1>1. /\ undoStack # <<>> /\ dom' = Rendered(o.nodes)
      /\ current' = Drawn(o, canvas) /\ astray' = o.taken
      /\ undoStack' = Front(undoStack) /\ past' = Front(past)
      /\ UNCHANGED <<clipboard, canvas>>
  BY DEF Undo
<1>2. Drawing /\ Stacked /\ Paths(DOMAIN clipboard)
  BY InvParts
<1>3. /\ n \in Nat /\ n > 0 /\ DOMAIN undoStack = 1..n /\ n \in 1..n
      /\ Len(past) = n /\ past # <<>>
  <2>1. n \in Nat /\ n > 0 /\ DOMAIN undoStack = 1..n /\ Len(past) = n
    BY <1>1, <1>2, SeqFacts DEF Stacked
  <2>2. past # <<>>
    BY <1>2, <2>1, SeqFacts DEF Stacked
  <2> QED
    BY <2>1, <2>2
<1>4. /\ Shared(o) /\ Identifies(o) /\ Sized(o, canvas)
      /\ Untouched(o, past[n])
  <2>1. o = undoStack[n]
    BY DEF Last
  <2> HIDE DEF o
  <2> QED
    BY <1>2, <1>3, <2>1 DEF Stacked
<1>5. o.taken \in BOOLEAN /\ Rooted(DOMAIN o.nodes)
  BY <1>4 DEF Shared, Tree
<1>6. /\ DOMAIN dom' = DOMAIN o.nodes /\ Heads(dom') = Heads(o.nodes)
      /\ Names(dom') = Names(o.nodes)
  BY <1>1, HeadsFacts, NamesFacts DEF Rendered
<1>7. Rooted(DOMAIN dom)'
  BY <1>5, <1>6
<1> HIDE DEF o
<1>8. Drawing'
  <2>1. /\ Shared(current') /\ Identifies(current')
        /\ current'.missed = o.missed
        /\ current'.sized = IF o.sized = {} THEN {canvas} ELSE o.sized
        /\ o.taken => current'.taken
        /\ ~current'.touched => Heads(current'.nodes) = Heads(o.nodes)
        /\ ~current'.taken => Names(current'.nodes) = Names(o.nodes)
    <3>1. LET d == Drawn(o, canvas) IN
          /\ Shared(d) /\ Identifies(d) /\ d.missed = o.missed
          /\ d.sized = IF o.sized = {} THEN {canvas} ELSE o.sized
          /\ o.taken => d.taken
          /\ ~d.touched => Heads(d.nodes) = Heads(o.nodes)
          /\ ~d.taken => Names(d.nodes) = Names(o.nodes)
      BY <1>4, DrawnFacts
    <3> QED
      BY <1>1, <3>1
  <2>2. Sized(current', canvas)
    BY <1>4, <2>1 DEF Sized
  <2>3. ASSUME ~o.taken PROVE Tells(current'.nodes, Heads(dom'))
    <3> DEFINE heads == Heads(dom')
    <3>1. Ready(o, heads)
      <4>1. Tells(o.nodes, past[n]) /\ Names(past[n]) = Names(o.nodes)
        BY <1>4, <2>3 DEF Untouched
      <4>2. Names(heads) = Names(past[n])
        BY <1>6, <4>1, NamesFacts
      <4> HIDE DEF heads
      <4> QED
        BY <1>4, <4>1, <4>2, TellsNamed DEF Ready
    <3>2. DOMAIN heads \subseteq Path
      BY <1>5, <1>6, HeadsFacts DEF Rooted, Paths
    <3> HIDE DEF heads
    <3>3. Tells(Drawn(o, canvas).nodes, heads)
      BY <1>4, <3>1, <3>2, DrawnFacts
    <3> QED
      BY <1>1, <3>3 DEF heads
  <2> QED
    BY <1>1, <1>5, <1>6, <2>1, <2>2, <2>3 DEF Drawing
<1>9. Stacked'
  <2>1. /\ IsSeq(undoStack') /\ Len(undoStack') = n - 1
        /\ DOMAIN undoStack' = 1..(n - 1)
        /\ \A i \in 1..(n - 1) : undoStack'[i] = undoStack[i]
    BY <1>1, <1>2, FrontSeq DEF Stacked
  <2>2. /\ IsSeq(past') /\ Len(past') = n - 1
        /\ \A i \in 1..(n - 1) : past'[i] = past[i]
    BY <1>1, <1>2, <1>3, FrontSeq DEF Stacked
  <2> HIDE DEF n
  <2>3. \A i \in 1..(n - 1) : i \in DOMAIN undoStack
    BY <1>3
  <2> QED
    BY <1>1, <1>2, <2>1, <2>2, <2>3 DEF Stacked
<1> QED
  BY <1>1, <1>2, <1>7, <1>8, <1>9, InvParts

LEMMA ToggleStep == ASSUME EditorInv, NEW f, Toggle(f) PROVE EditorInv'
<1> DEFINE o == [Cleared(current) EXCEPT !.missed = FALSE]
<1>1. /\ current' = Drawn(o, canvas')
      /\ undoStack' =
           [i \in DOMAIN undoStack |-> [undoStack[i] EXCEPT !.missed = TRUE]]
      /\ UNCHANGED <<dom, clipboard, past, astray>>
  BY DEF Toggle
<1>2. /\ Drawing /\ Stacked /\ Paths(DOMAIN clipboard) /\ Rooted(DOMAIN dom)
  BY InvParts
<1>3. /\ Shared(o) /\ o.nodes = current.nodes /\ o.touched = current.touched
      /\ o.taken = current.taken /\ o.sized = {} /\ o.missed = FALSE
  <2>1. /\ Shared(Cleared(current)) /\ Cleared(current).nodes = current.nodes
        /\ Cleared(current).touched = current.touched
        /\ Cleared(current).taken = current.taken
        /\ Cleared(current).sized = {}
    BY <1>2, SharedExcept DEF Drawing
  <2> DEFINE c == Cleared(current)
  <2> HIDE DEF c
  <2>2. LET e == [c EXCEPT !.missed = FALSE] IN
        /\ Shared(e) /\ e.nodes = c.nodes /\ e.touched = c.touched
        /\ e.taken = c.taken
        /\ e.sized = c.sized /\ e.missed = FALSE
    BY <2>1, SharedExcept DEF c
  <2> QED
    BY <2>1, <2>2 DEF c
<1> HIDE DEF o
<1>4. Identifies(o)
  BY <1>2, <1>3 DEF Drawing, Identifies
<1>5. Drawing'
  <2>1. /\ Shared(current') /\ Identifies(current')
        /\ current'.sized = {canvas'}
        /\ (o.taken => current'.taken) /\ (o.touched => current'.touched)
        /\ ~current'.touched => Heads(current'.nodes) = Heads(o.nodes)
        /\ ~current'.taken => Names(current'.nodes) = Names(o.nodes)
    <3>1. LET d == Drawn(o, canvas') IN
          /\ Shared(d) /\ Identifies(d)
          /\ d.sized = IF o.sized = {} THEN {canvas'} ELSE o.sized
          /\ (o.taken => d.taken) /\ (o.touched => d.touched)
          /\ ~d.touched => Heads(d.nodes) = Heads(o.nodes)
          /\ ~d.taken => Names(d.nodes) = Names(o.nodes)
      BY <1>3, DrawnFacts
    <3> QED
      BY <1>1, <1>3, <3>1
  <2>2. Sized(current', canvas')
    BY <2>1 DEF Sized
  <2>3. ASSUME ~astray PROVE Tells(current'.nodes, Heads(dom))
    <3> DEFINE heads == Heads(dom)
    <3>1. Ready(o, heads)
      BY <1>2, <1>3, <1>4, <2>3 DEF Drawing, Ready
    <3>2. DOMAIN heads \subseteq Path
      BY <1>2, HeadsFacts DEF Rooted, Paths
    <3> HIDE DEF heads
    <3>3. Tells(Drawn(o, canvas').nodes, heads)
      BY <1>3, <3>1, <3>2, DrawnFacts
    <3> QED
      BY <1>1, <3>3 DEF heads
  <2>4. /\ o.touched \in BOOLEAN /\ current'.touched \in BOOLEAN
        /\ o.taken \in BOOLEAN /\ current'.taken \in BOOLEAN
        /\ ~o.touched => Heads(o.nodes) = Heads(dom)
        /\ ~o.taken => Names(o.nodes) = Names(dom)
        /\ astray => o.taken
    BY <1>2, <1>3, <2>1 DEF Drawing, Shared
  <2> QED
    BY <1>1, <1>2, <2>1, <2>2, <2>3, <2>4 DEF Drawing
<1>6. Stacked'
  <2> DEFINE n == Len(undoStack)
  <2>1. n \in Nat /\ DOMAIN undoStack = 1..n
    BY <1>2, SeqFacts DEF Stacked
  <2> HIDE DEF n
  <2>2. DOMAIN undoStack' = 1..n /\ undoStack' = [i \in 1..n |-> undoStack'[i]]
    BY <1>1, <2>1
  <2>3. IsSeq(undoStack') /\ Len(undoStack') = n
    BY <2>1, <2>2, FunctionSeq
  <2>4. ASSUME NEW i \in 1..n
        PROVE  /\ Shared(undoStack'[i]) /\ Identifies(undoStack'[i])
               /\ Sized(undoStack'[i], canvas')
               /\ Untouched(undoStack'[i], past[i])
    <3>1. undoStack'[i] = [undoStack[i] EXCEPT !.missed = TRUE]
      BY <1>1, <2>1
    <3>2. /\ Shared(undoStack[i]) /\ Identifies(undoStack[i])
          /\ Untouched(undoStack[i], past[i])
      BY <1>2, <2>1 DEF Stacked
    <3> DEFINE s == undoStack[i]
               e == [s EXCEPT !.missed = TRUE]
    <3>3. /\ Shared(e) /\ e.nodes = s.nodes /\ e.touched = s.touched
          /\ e.taken = s.taken /\ e.missed = TRUE
      BY <3>2, SharedExcept
    <3>4. undoStack'[i] = e
      BY <3>1
    <3> HIDE DEF s, e
    <3>5. Shared(s) /\ Identifies(s) /\ Untouched(s, past[i])
      BY <3>2 DEF s
    <3> QED
      BY <3>3, <3>4, <3>5 DEF Identifies, Sized, Untouched
  <2> QED
    BY <1>1, <1>2, <2>1, <2>2, <2>3, <2>4 DEF Stacked, n
<1> QED
  BY <1>1, <1>2, <1>5, <1>6, InvParts

LEMMA EditorNextInv == EditorInv /\ [EditorNext]_editorVars => EditorInv'
<1> SUFFICES ASSUME EditorInv, [EditorNext]_editorVars PROVE EditorInv'
  OBVIOUS
<1>1. ASSUME NEW p \in DOMAIN dom, AddExpression(p) PROVE EditorInv'
  BY <1>1, AddStep
<1>2. ASSUME NEW p \in DOMAIN dom, RemoveExpression(p) PROVE EditorInv'
  BY <1>2, RemoveStep
<1>3. ASSUME NEW p \in DOMAIN dom, MoveExpression(p) PROVE EditorInv'
  BY <1>3, MoveStep
<1>4. ASSUME NEW p \in DOMAIN dom, InsertExpression(p) PROVE EditorInv'
  BY <1>4, InsertStep
<1>5. ASSUME NEW p \in DOMAIN dom, NEW name, EditHead(p, name)
      PROVE  EditorInv'
  BY <1>5, EditStep
<1>6. CASE Undo
  BY <1>6, UndoStep
<1>7. ASSUME NEW f, Toggle(f) PROVE EditorInv'
  BY <1>7, ToggleStep
<1>8. CASE UNCHANGED editorVars
  BY <1>8 DEF editorVars, EditorInv
<1> QED
  BY <1>1, <1>2, <1>3, <1>4, <1>5, <1>6, <1>7, <1>8 DEF EditorNext

\* The editor and the canvas never lose a root, name two expressions alike or
\* mix up which tree is on the stack for which screen (ruote-fluo-editor.js
\* and identifyExpressions of ruote-fluo.js).
THEOREM EditorInductive == EditorSpec => []EditorInv
<1>1. EditorInit => EditorInv
  BY EditorInitInv
<1>2. EditorInv /\ [EditorNext]_editorVars => EditorInv'
  BY EditorNextInv
<1> QED
  BY <1>1, <1>2, PTL DEF EditorSpec

\* The canvas draws with sizes of the way it draws now: clearDimCache, called
\* by toggleMinor and toggleVertical, misses none of the tree that is drawn.
THEOREM SizesStayFresh == EditorSpec => []SizesFresh
<1>1. EditorInv => SizesFresh
  BY DEF EditorInv, Sized, SizesFresh
<1> QED
  BY <1>1, EditorInductive, PTL

LEMMA AtMostOne ==
  ASSUME NEW S, \A q, r \in S : q = r
  PROVE  Cardinality(S) <= 1
<1>1. CASE S = {}
  BY <1>1, FS_EmptySet
<1>2. CASE S # {}
  <2>1. PICK x \in S : TRUE
    BY <1>2
  <2>2. S = {x}
    BY <2>1
  <2>3. Cardinality({x}) = 1
    BY FS_Singleton
  <2> QED
    BY <2>2, <2>3
<1> QED
  BY <1>1, <1>2

\* What the pointer is over in the editor (computeExpId) is what the canvas
\* highlights, and nothing besides (highlight), unless undo has rendered a
\* tree whose branch the canvas had taken for a condition.
THEOREM HoverStaysRight == EditorSpec => []HoverRight
<1>1. EditorInv => HoverRight
  <2> SUFFICES ASSUME EditorInv, ~astray, NEW p \in DOMAIN dom
               PROVE  /\ Cardinality(Highlighted(p)) <= 1
                      /\ \A q \in Highlighted(p) :
                           current.nodes[q].name = dom[p].name
    BY DEF HoverRight
  <2>1. /\ Single(current.nodes) /\ Tells(current.nodes, Heads(dom))
        /\ p \in Path
    BY DEF EditorInv, Shared, Tree, Rooted, Paths
  <2>2. p # None
    BY <2>1, PathFacts DEF None
  <2>3. \A q \in Highlighted(p) :
          q \in DOMAIN current.nodes /\ current.nodes[q].expid = p
    BY DEF Highlighted, Shown
  <2>4. \A q, r \in Highlighted(p) : q = r
    BY <2>1, <2>2, <2>3 DEF Single
  <2>5. p \in DOMAIN Heads(dom) /\ Heads(dom)[p].name = dom[p].name
    BY HeadsFacts
  <2>6. \A q \in Highlighted(p) : current.nodes[q].name = dom[p].name
    BY <2>1, <2>3, <2>5 DEF Tells
  <2> QED
    BY <2>4, <2>6, AtMostOne
<1> QED
  BY <1>1, EditorInductive, PTL

\* Only undo takes a tree off the stack.
LEMMA OnlyUndoes ==
  ASSUME EditorInv, [EditorNext]_editorVars, Len(undoStack') < Len(undoStack)
  PROVE  Undo
<1> DEFINE n == Len(undoStack)
<1>1. n \in Nat /\ IsSeq(undoStack) /\ DOMAIN undoStack = 1..n
  BY SeqFacts DEF EditorInv
<1>2. ASSUME NEW d, Change(d) PROVE FALSE
  <2>1. undoStack' = Append(undoStack, current)
    BY <1>2 DEF Change, Pushed
  <2>2. Len(undoStack') = n + 1
    BY <1>1, <2>1, AppendSeq
  <2> QED
    BY <1>1, <2>2
<1>3. ASSUME NEW f, Toggle(f) PROVE FALSE
  <2>1. undoStack' = [i \in 1..n |-> [undoStack[i] EXCEPT !.missed = TRUE]]
    BY <1>1, <1>3 DEF Toggle
  <2>2. undoStack' = [i \in 1..n |-> undoStack'[i]]
    BY <2>1
  <2>3. Len(undoStack') = n
    <3> HIDE DEF n
    <3> QED
      BY <1>1, <2>2, FunctionSeq
  <2> QED
    BY <1>1, <2>3
<1>4. ASSUME UNCHANGED editorVars PROVE FALSE
  BY <1>1, <1>4 DEF editorVars
<1>5. ASSUME NEW p \in DOMAIN dom,
             AddExpression(p) \/ RemoveExpression(p) \/ MoveExpression(p)
               \/ InsertExpression(p) \/ \E name : EditHead(p, name)
      PROVE  \E d : Change(d)
  BY <1>5 DEF AddExpression, RemoveExpression, MoveExpression,
              InsertExpression, EditHead
<1> QED
  BY <1>2, <1>3, <1>4, <1>5 DEF EditorNext

\* Undo shows what was shown before the change it takes back, when the canvas
\* has neither completed an "if" of that tree nor given a subprocess of it a
\* "ref" (undo, triggerChange, IfHandler.adjust and SubprocessHandler.adjust,
\* which share the very tree).
THEOREM UndoesRight == EditorSpec => UndoRestores
<1> DEFINE Restores ==
      Len(undoStack') < Len(undoStack) /\ ~Last(undoStack).touched
        => Heads(dom') = Last(past)
<1>1. EditorInv /\ [EditorNext]_editorVars => Restores
  <2> SUFFICES ASSUME EditorInv, [EditorNext]_editorVars,
                      Len(undoStack') < Len(undoStack),
                      ~Last(undoStack).touched
               PROVE  Heads(dom') = Last(past)
    OBVIOUS
  <2> DEFINE o == Last(undoStack)
             n == Len(undoStack)
  <2>1. dom' = Rendered(o.nodes) /\ undoStack # <<>>
    BY OnlyUndoes DEF Undo
  <2>2. /\ n \in 1..n /\ DOMAIN undoStack = 1..n /\ Len(past) = n
        /\ o = undoStack[n] /\ Last(past) = past[n]
    BY <2>1, SeqFacts DEF EditorInv, Last
  <2>3. Untouched(undoStack[n], past[n])
    BY <2>2 DEF EditorInv
  <2>4. Heads(o.nodes) = past[n]
    BY <2>2, <2>3 DEF Untouched
  <2>5. Heads(Rendered(o.nodes)) = Heads(o.nodes)
    BY HeadsFacts
  <2> QED
    BY <2>1, <2>2, <2>4, <2>5
<1>2. EditorInv /\ [EditorNext]_editorVars => [Restores]_editorVars
  BY <1>1
<1> QED
  BY <1>2, EditorInductive, PTL DEF EditorSpec, UndoRestores

-----------------------------------------------------------------------------
(* The shape of the trees. *)

LEMMA PathEqual ==
  ASSUME NEW p \in Path, NEW q \in Path, Len(p) = Len(q),
         \A i \in 1..Len(p) : p[i] = q[i]
  PROVE  p = q
  BY SeqEqual DEF Path

\* p, a later sibling of it, or what is below one.
Onward(p, q) ==
  /\ Len(q) >= Len(p) /\ q[Len(p)] >= p[Len(p)]
  /\ \A i \in 1..(Len(p) - 1) : q[i] = p[i]

LEMMA PrefixFacts ==
  ASSUME NEW p \in Path, NEW q \in Path
  PROVE  IsPrefix(p, q) <=> Len(p) <= Len(q) /\ \A i \in 1..Len(p) : p[i] = q[i]
<1>1. /\ Len(p) \in Nat /\ Len(q) \in Nat /\ p \in Seq(Int) /\ q \in Seq(Int)
      /\ \A i \in 1..Len(p) : p[i] \in Int
      /\ \A i \in 1..Len(q) : q[i] \in Int
  BY PathFacts
<1> SUFFICES ASSUME Len(p) <= Len(q)
             PROVE  SubSeq(p, 1, Len(p)) = SubSeq(q, 1, Len(p))
                      <=> \A i \in 1..Len(p) : p[i] = q[i]
  BY DEF IsPrefix
<1> DEFINE a == SubSeq(p, 1, Len(p))
           b == SubSeq(q, 1, Len(p))
<1>2. /\ a \in Seq(Int) /\ b \in Seq(Int)
      /\ Len(a) = Len(p) /\ Len(b) = Len(p)
      /\ \A i \in 1..Len(p) : a[i] = p[i] /\ b[i] = q[i]
  BY <1>1, SubSeqProperties
<1> HIDE DEF a, b
<1>3. a = b <=> \A i \in 1..Len(p) : a[i] = b[i]
  BY <1>2, SeqEqual
<1> QED
  BY <1>2, <1>3 DEF a, b

LEMMA FrontPath ==
  ASSUME NEW p \in Path, p # <<>>
  PROVE  /\ Front(p) \in Path /\ Len(Front(p)) = Len(p) - 1
         /\ \A i \in 1..(Len(p) - 1) : Front(p)[i] = p[i]
         /\ Last(p) = p[Len(p)] /\ Len(p) \in 1..Len(p)
<1>1. /\ Len(p) \in Nat /\ Len(p) > 0 /\ Len(p) - 1 \in Nat
      /\ \A i \in 1..(Len(p) - 1) : p[i] \in Nat \ {0}
  BY PathFacts
<1> DEFINE n == Len(p) - 1
           f == Front(p)
<1>2. n \in Nat /\ 1 \in Int /\ n \in Int /\ \A i \in 1..n : p[i] \in Nat \ {0}
  BY <1>1
<1>3. f = SubSeq(p, 1, n)
  BY DEF Front
<1>4. n = Len(p) - 1 /\ Len(p) \in 1..Len(p)
  BY <1>1
<1> HIDE DEF n, f
<1>5. /\ f \in Seq(Nat \ {0}) /\ Len(f) = IF 1 <= n THEN n - 1 + 1 ELSE 0
      /\ \A i \in 1..(n - 1 + 1) : f[i] = p[1 + i - 1]
  BY <1>2, <1>3, SubSeqProperties
<1>6. n - 1 + 1 = n /\ \A i \in 1..n : 1 + i - 1 = i
  BY <1>2
<1>7. Len(f) = n /\ \A i \in 1..n : f[i] = p[i]
  BY <1>2, <1>5, <1>6
<1> QED
  BY <1>4, <1>5, <1>7 DEF Path, Last, f

LEMMA OnwardFacts ==
  ASSUME NEW p \in Path, p # <<>>, NEW q \in Path
  PROVE  Onward(p, q) <=>
           IsPrefix(Front(p), q) /\ Len(q) >= Len(p) /\ q[Len(p)] >= Last(p)
<1>1. /\ Front(p) \in Path /\ Len(Front(p)) = Len(p) - 1
      /\ \A i \in 1..(Len(p) - 1) : Front(p)[i] = p[i]
      /\ Last(p) = p[Len(p)] /\ Len(p) \in Nat /\ Len(q) \in Nat
  BY FrontPath, PathFacts
<1>2. IsPrefix(Front(p), q) <=>
        Len(p) - 1 <= Len(q) /\ \A i \in 1..(Len(p) - 1) : p[i] = q[i]
  <2>1. IsPrefix(Front(p), q) <=>
          Len(Front(p)) <= Len(q)
            /\ \A i \in 1..Len(Front(p)) : Front(p)[i] = q[i]
    BY <1>1, PrefixFacts
  <2> QED
    BY <1>1, <2>1
<1> QED
  BY <1>1, <1>2 DEF Onward

LEMMA ShiftValue ==
  ASSUME NEW p \in Path, p # <<>>, NEW q \in Path, NEW d \in {-1, 1}
  PROVE  /\ Len(Shift(q, p, d)) = Len(q)
         /\ ~Onward(p, q) => Shift(q, p, d) = q
         /\ Onward(p, q) =>
              /\ Shift(q, p, d)[Len(p)] = q[Len(p)] + d
              /\ \A i \in 1..Len(q) : i # Len(p) => Shift(q, p, d)[i] = q[i]
<1>1. Shift(q, p, d) = IF Onward(p, q) THEN [q EXCEPT ![Len(p)] = @ + d] ELSE q
  BY OnwardFacts DEF Shift
<1>2. Len(Shift(q, p, d)) = Len(q)
  BY ShiftPath
<1>3. /\ Len(p) \in Nat /\ Len(q) \in Nat /\ Len(p) > 0 /\ DOMAIN q = 1..Len(q)
  BY PathFacts
<1> QED
  BY <1>1, <1>2, <1>3 DEF Onward

LEMMA SiblingPath ==
  ASSUME NEW p \in Path, p # <<>>, NEW n \in Nat \ {0}
  PROVE  /\ Sibling(p, n) \in Path /\ Len(Sibling(p, n)) = Len(p)
         /\ Sibling(p, n)[Len(p)] = n
         /\ \A i \in 1..Len(p) : i # Len(p) => Sibling(p, n)[i] = p[i]
<1>1. /\ Len(p) \in 1..Len(p) /\ p \in Seq(Nat \ {0}) /\ DOMAIN p = 1..Len(p)
  BY FrontPath, PathFacts DEF Path
<1> DEFINE r == [p EXCEPT ![Len(p)] = n]
<1>2. r \in Seq(Nat \ {0}) /\ Len(r) = Len(p)
  BY <1>1, ExceptSeq
<1>3. r[Len(p)] = n /\ \A i \in 1..Len(p) : i # Len(p) => r[i] = p[i]
  BY <1>1
<1>4. Sibling(p, n) = r
  BY DEF Sibling
<1> HIDE DEF r
<1> QED
  BY <1>2, <1>3, <1>4 DEF Path

LEMMA ChildValue ==
  ASSUME NEW p \in Path, NEW n \in Nat \ {0}
  PROVE  /\ Child(p, n) \in Path /\ Child(p, n) # <<>>
         /\ Len(Child(p, n)) = Len(p) + 1
         /\ Child(p, n)[Len(p) + 1] = n
         /\ \A i \in 1..Len(p) : Child(p, n)[i] = p[i]
<1>1. p \in Seq(Nat \ {0}) /\ Len(p) \in Nat
  BY PathFacts DEF Path
<1>2. /\ Append(p, n) \in Seq(Nat \ {0}) /\ Append(p, n) # <<>>
      /\ Len(Append(p, n)) = Len(p) + 1 /\ Append(p, n)[Len(p) + 1] = n
      /\ \A i \in 1..Len(p) : Append(p, n)[i] = p[i]
  BY <1>1, AppendProperties
<1> QED
  BY <1>2 DEF Child, Path

\* What is left of q below p.
Drop(p, q) == SubSeq(q, Len(p) + 1, Len(q))

LEMMA DropPath ==
  ASSUME NEW p \in Path, NEW q \in Path, IsPrefix(p, q)
  PROVE  /\ Drop(p, q) \in Path /\ Len(Drop(p, q)) = Len(q) - Len(p)
         /\ \A i \in 1..(Len(q) - Len(p)) : Drop(p, q)[i] = q[Len(p) + i]
<1>1. /\ Len(p) \in Nat /\ Len(q) \in Nat /\ Len(p) <= Len(q)
      /\ \A i \in 1..Len(q) : q[i] \in Nat \ {0}
  BY PathFacts, PrefixFacts
<1> DEFINE a == Len(p) + 1
           b == Len(q)
           f == Drop(p, q)
<1>2. f = SubSeq(q, a, b)
  BY DEF Drop
<1>3. /\ a \in Int /\ b \in Int /\ a > 0 /\ a <= b + 1
      /\ \A i \in a..b : q[i] \in Nat \ {0}
      /\ b - a + 1 = Len(q) - Len(p)
      /\ \A i \in 1..(Len(q) - Len(p)) : a + i - 1 = Len(p) + i
  BY <1>1
<1> HIDE DEF a, b, f
<1>4. /\ f \in Seq(Nat \ {0}) /\ Len(f) = IF a <= b THEN b - a + 1 ELSE 0
      /\ \A i \in 1..(b - a + 1) : f[i] = q[a + i - 1]
  BY <1>2, <1>3, SubSeqProperties
<1>5. Len(f) = b - a + 1
  BY <1>3, <1>4
<1> QED
  BY <1>3, <1>4, <1>5 DEF Path, f

\* Moving the siblings on and back.
LEMMA ShiftBack ==
  ASSUME NEW p \in Path, p # <<>>, NEW r \in Path
  PROVE  /\ Shift(r, p, 1) \in Path /\ ~IsPrefix(p, Shift(r, p, 1))
         /\ Shift(Shift(r, p, 1), p, -1) = r
         /\ ~IsPrefix(p, r) => /\ Shift(r, p, -1) \in Path
                               /\ Shift(Shift(r, p, -1), p, 1) = r
<1>1. /\ Len(p) \in Nat /\ Len(r) \in Nat /\ Len(p) > 0
      /\ \A i \in 1..Len(p) : p[i] \in Nat /\ p[i] # 0
      /\ \A i \in 1..Len(r) : r[i] \in Nat /\ r[i] # 0
      /\ 1 \in {-1, 1} /\ -1 \in {-1, 1}
  BY PathFacts
<1>2. CASE ~Onward(p, r)
  <2>1. Shift(r, p, 1) = r /\ Shift(r, p, -1) = r
    BY <1>1, <1>2, ShiftValue
  <2>2. ~IsPrefix(p, r)
    BY <1>1, <1>2, PrefixFacts DEF Onward
  <2> QED
    BY <2>1, <2>2
<1>3. ASSUME Onward(p, r)
      PROVE  /\ Shift(r, p, 1) \in Path /\ ~IsPrefix(p, Shift(r, p, 1))
             /\ Shift(Shift(r, p, 1), p, -1) = r
  <2> DEFINE s == Shift(r, p, 1)
             b == Shift(s, p, -1)
  <2>1. /\ s \in Path /\ Len(s) = Len(r) /\ s[Len(p)] = r[Len(p)] + 1
        /\ \A i \in 1..Len(r) : i # Len(p) => s[i] = r[i]
    BY <1>1, <1>3, ShiftPath, ShiftValue
  <2> HIDE DEF s
  <2>2. Onward(p, s) /\ s[Len(p)] # p[Len(p)]
    BY <1>1, <1>3, <2>1 DEF Onward
  <2>3. ~IsPrefix(p, s)
    BY <1>1, <2>1, <2>2, PrefixFacts
  <2>4. b \in Path
    BY <2>1, <2>3, ShiftPath
  <2>5. /\ Len(b) = Len(s) /\ b[Len(p)] = s[Len(p)] - 1
        /\ \A i \in 1..Len(s) : i # Len(p) => b[i] = s[i]
    BY <1>1, <2>1, <2>2, ShiftValue
  <2> HIDE DEF b
  <2>6. \A i \in 1..Len(r) : b[i] = r[i]
    BY <1>1, <1>3, <2>1, <2>5
  <2>7. b = r
    BY <2>1, <2>4, <2>5, <2>6, PathEqual
  <2> QED
    BY <2>1, <2>3, <2>7 DEF s, b
<1>4. ASSUME Onward(p, r), ~IsPrefix(p, r)
      PROVE  Shift(r, p, -1) \in Path /\ Shift(Shift(r, p, -1), p, 1) = r
  <2> DEFINE s == Shift(r, p, -1)
             b == Shift(s, p, 1)
  <2>1. /\ s \in Path /\ Len(s) = Len(r) /\ s[Len(p)] = r[Len(p)] - 1
        /\ \A i \in 1..Len(r) : i # Len(p) => s[i] = r[i]
    BY <1>1, <1>4, ShiftPath, ShiftValue
  <2> HIDE DEF s
  <2>2. r[Len(p)] # p[Len(p)]
    BY <1>1, <1>4, PrefixFacts DEF Onward
  <2>3. Onward(p, s)
    BY <1>1, <1>4, <2>1, <2>2 DEF Onward
  <2>4. /\ b \in Path /\ Len(b) = Len(s) /\ b[Len(p)] = s[Len(p)] + 1
        /\ \A i \in 1..Len(s) : i # Len(p) => b[i] = s[i]
    BY <1>1, <2>1, <2>3, ShiftPath, ShiftValue
  <2> HIDE DEF b
  <2>5. \A i \in 1..Len(r) : b[i] = r[i]
    BY <1>1, <1>4, <2>1, <2>4
  <2>6. b = r
    BY <2>1, <2>4, <2>5, PathEqual
  <2> QED
    BY <2>1, <2>6 DEF s, b
<1> QED
  BY <1>2, <1>3, <1>4

\* The tree without what is at p, seen from it.
LEMMA WithoutView ==
  ASSUME NEW t, Paths(DOMAIN t), NEW p \in Path, p # <<>>
  PROVE  /\ \A r : r \in DOMAIN Without(t, p) <=>
                     r \in Path /\ Shift(r, p, 1) \in DOMAIN t
         /\ \A r \in DOMAIN Without(t, p) :
              Without(t, p)[r] = t[Shift(r, p, 1)]
<1> DEFINE S == {q \in DOMAIN t : ~IsPrefix(p, q)}
           u == Without(t, p)
<1>1. S \subseteq DOMAIN t /\ IsFiniteSet(S) /\ S \subseteq Path
  BY FS_Subset DEF Paths
<1>2. \A q \in S : /\ Shift(q, p, -1) \in Path
                   /\ Shift(Shift(q, p, -1), p, 1) = q
  BY <1>1, ShiftBack
<1>3. u = Shifted(t, S, p, -1)
  BY DEF Without
<1>4. DOMAIN u = {Shift(q, p, -1) : q \in S}
  BY <1>3 DEF Shifted
<1> HIDE DEF S
<1>5. \A r \in DOMAIN u : \E q \in S : Shift(q, p, -1) = r /\ u[r] = t[q]
  <2>1. -1 \in {-1, 1}
    OBVIOUS
  <2>2. \A r \in DOMAIN Shifted(t, S, p, -1) :
          \E q \in S : Shift(q, p, -1) = r /\ Shifted(t, S, p, -1)[r] = t[q]
    BY <1>1, <1>2, <2>1, ShiftedFacts
  <2> QED
    BY <1>3, <2>2
<1>6. ASSUME NEW r \in Path, Shift(r, p, 1) \in DOMAIN t PROVE r \in DOMAIN u
  BY <1>4, <1>6, ShiftBack DEF S
<1>7. ASSUME NEW r \in DOMAIN u
      PROVE  /\ r \in Path /\ Shift(r, p, 1) \in DOMAIN t
             /\ u[r] = t[Shift(r, p, 1)]
  BY <1>1, <1>2, <1>5
<1> QED
  BY <1>6, <1>7

LEMMA DropOver ==
  ASSUME NEW p \in Path, p # <<>>
  PROVE  /\ \A s \in Path : /\ p \o s \in Path /\ IsPrefix(p, p \o s)
                            /\ Drop(p, p \o s) = s
         /\ \A r \in Path : IsPrefix(p, r) => r = p \o Drop(p, r)
<1>1. p \in Seq(Nat \ {0}) /\ Len(p) \in Nat
  BY PathFacts DEF Path
<1>2. ASSUME NEW s \in Path
      PROVE  /\ p \o s \in Path /\ Len(p \o s) = Len(p) + Len(s) /\ Len(s) \in Nat
             /\ \A i \in 1..Len(p) : (p \o s)[i] = p[i]
             /\ \A i \in 1..Len(s) : (p \o s)[Len(p) + i] = s[i]
  <2>1. s \in Seq(Nat \ {0}) /\ Len(s) \in Nat
    BY PathFacts DEF Path
  <2>2. /\ p \o s \in Seq(Nat \ {0}) /\ Len(p \o s) = Len(p) + Len(s)
        /\ \A i \in 1..(Len(p) + Len(s)) :
             (p \o s)[i] = IF i <= Len(p) THEN p[i] ELSE s[i - Len(p)]
    BY <1>1, <2>1, ConcatProperties
  <2> DEFINE c == p \o s
  <2> HIDE DEF c
  <2>3. \A i \in 1..Len(p) : i \in 1..(Len(p) + Len(s)) /\ i <= Len(p)
    BY <1>1, <2>1
  <2>4. \A i \in 1..Len(s) : /\ Len(p) + i \in 1..(Len(p) + Len(s))
                             /\ ~(Len(p) + i <= Len(p))
                             /\ (Len(p) + i) - Len(p) = i
    BY <1>1, <2>1
  <2> QED
    BY <2>1, <2>2, <2>3, <2>4 DEF Path
<1>3. ASSUME NEW s \in Path
      PROVE  p \o s \in Path /\ IsPrefix(p, p \o s) /\ Drop(p, p \o s) = s
  <2> DEFINE c == p \o s
  <2>1. /\ c \in Path /\ Len(p) <= Len(c)
        /\ \A i \in 1..Len(p) : p[i] = c[i]
    BY <1>1, <1>2
  <2> HIDE DEF c
  <2>2. IsPrefix(p, c)
    BY <2>1, PrefixFacts
  <2> QED
    BY <1>2, <2>2, PathBelow DEF Drop, c
<1>4. ASSUME NEW r \in Path, IsPrefix(p, r) PROVE r = p \o Drop(p, r)
  <2> DEFINE s == Drop(p, r)
             c == p \o s
  <2>1. /\ s \in Path /\ Len(s) = Len(r) - Len(p)
        /\ \A i \in 1..(Len(r) - Len(p)) : s[i] = r[Len(p) + i]
    BY <1>4, DropPath
  <2> HIDE DEF s
  <2>2. /\ c \in Path /\ Len(c) = Len(p) + Len(s)
        /\ \A i \in 1..Len(p) : c[i] = p[i]
        /\ \A i \in 1..Len(s) : c[Len(p) + i] = s[i]
    BY <1>2, <2>1
  <2> HIDE DEF c
  <2>3. /\ Len(r) \in Nat /\ Len(p) <= Len(r)
        /\ \A i \in 1..Len(p) : p[i] = r[i]
    BY <1>4, PrefixFacts, PathFacts
  <2>4. ASSUME NEW i \in 1..Len(r) PROVE c[i] = r[i]
    <3>1. CASE i <= Len(p)
      BY <1>1, <2>2, <2>3, <3>1
    <3>2. CASE i > Len(p)
      <4>1. i - Len(p) \in 1..(Len(r) - Len(p)) /\ Len(p) + (i - Len(p)) = i
        BY <1>1, <2>3, <3>2
      <4> QED
        BY <2>1, <2>2, <4>1
    <3> QED
      BY <1>1, <3>1, <3>2
  <2>5. Len(c) = Len(r)
    BY <1>1, <2>1, <2>2, <2>3
  <2>6. c = r
    BY <2>2, <2>4, <2>5, PathEqual
  <2> QED
    BY <2>6 DEF c, s
<1> QED
  BY <1>3, <1>4

\* The tree with another put in at p, seen from both.
LEMMA WithView ==
  ASSUME NEW t, Paths(DOMAIN t), NEW p \in Path, p # <<>>,
         NEW sub, Paths(DOMAIN sub)
  PROVE  /\ \A r : r \in DOMAIN With(t, p, sub) <=>
                     /\ r \in Path
                     /\ IF IsPrefix(p, r) THEN Drop(p, r) \in DOMAIN sub
                        ELSE Shift(r, p, -1) \in DOMAIN t
         /\ \A r \in DOMAIN With(t, p, sub) :
              With(t, p, sub)[r] = IF IsPrefix(p, r) THEN sub[Drop(p, r)]
                                   ELSE t[Shift(r, p, -1)]
<1> DEFINE moved == Shifted(t, DOMAIN t, p, 1)
           added == {p \o s : s \in DOMAIN sub}
           w == With(t, p, sub)
<1>1. w = [q \in DOMAIN moved \union added |->
             IF q \in DOMAIN moved THEN moved[q] ELSE sub[Drop(p, q)]]
  BY DEF With, Drop
<1>2. /\ 1 \in {-1, 1} /\ IsFiniteSet(DOMAIN t) /\ DOMAIN t \subseteq Path
      /\ \A q \in DOMAIN t : Shift(q, p, 1) \in Path
  BY ShiftPath DEF Paths
<1>3. DOMAIN moved = {Shift(q, p, 1) : q \in DOMAIN t}
  BY DEF Shifted
<1>4. \A r \in DOMAIN moved :
        \E q \in DOMAIN t : Shift(q, p, 1) = r /\ moved[r] = t[q]
  BY <1>2, ShiftedFacts
<1> HIDE DEF moved
<1>5. ASSUME NEW r \in DOMAIN moved
      PROVE  /\ r \in Path /\ ~IsPrefix(p, r)
             /\ Shift(r, p, -1) \in DOMAIN t /\ moved[r] = t[Shift(r, p, -1)]
  BY <1>2, <1>4, ShiftBack
<1>6. ASSUME NEW r \in Path, ~IsPrefix(p, r), Shift(r, p, -1) \in DOMAIN t
      PROVE  r \in DOMAIN moved
  BY <1>3, <1>6, ShiftBack
<1>7. \A r \in added : r \in Path /\ IsPrefix(p, r) /\ Drop(p, r) \in DOMAIN sub
  BY DropOver DEF Paths
<1>8. \A r \in Path : IsPrefix(p, r) /\ Drop(p, r) \in DOMAIN sub => r \in added
  BY DropOver
<1> HIDE DEF added
<1>9. DOMAIN w = DOMAIN moved \union added
  BY <1>1
<1>10. \A r \in DOMAIN w : w[r] = IF r \in DOMAIN moved THEN moved[r]
                                  ELSE sub[Drop(p, r)]
  BY <1>1
<1> HIDE DEF w
<1>11. \A r : r \in DOMAIN w <=>
                /\ r \in Path
                /\ IF IsPrefix(p, r) THEN Drop(p, r) \in DOMAIN sub
                   ELSE Shift(r, p, -1) \in DOMAIN t
  BY <1>5, <1>6, <1>7, <1>8, <1>9
<1>12. \A r \in DOMAIN w : w[r] = IF IsPrefix(p, r) THEN sub[Drop(p, r)]
                                  ELSE t[Shift(r, p, -1)]
  BY <1>5, <1>7, <1>9, <1>10
<1> QED
  BY <1>11, <1>12 DEF w

\* A move keeps what is above, and the order of siblings.
Moves(p, r, d) == d = 1 \/ (d = -1 /\ ~IsPrefix(p, r))

LEMMA MovedPath ==
  ASSUME NEW p \in Path, p # <<>>, NEW r \in Path, NEW d, Moves(p, r, d)
  PROVE  /\ d \in {-1, 1} /\ Shift(r, p, d) \in Path
         /\ Len(Shift(r, p, d)) = Len(r)
         /\ r # <<>> <=> Shift(r, p, d) # <<>>
         /\ \A i \in 1..Len(r) :
              Shift(r, p, d)[i] = IF Onward(p, r) /\ i = Len(p) THEN r[i] + d
                                  ELSE r[i]
         /\ Onward(p, r) /\ d = -1 /\ Len(r) = Len(p) => r[Len(p)] > p[Len(p)]
<1>1. d \in {-1, 1}
  BY DEF Moves
<1>2. Shift(r, p, d) \in Path /\ Len(Shift(r, p, d)) = Len(r)
  BY ShiftPath DEF Moves
<1>3. Len(r) \in Nat /\ Len(p) \in Nat /\ Len(p) > 0
  BY PathFacts
<1>4. r # <<>> <=> Shift(r, p, d) # <<>>
  BY <1>2, PathFacts
<1>5. \A i \in 1..Len(r) :
        Shift(r, p, d)[i] = IF Onward(p, r) /\ i = Len(p) THEN r[i] + d
                            ELSE r[i]
  BY <1>1, <1>3, ShiftValue
<1>6. ASSUME Onward(p, r), d = -1, Len(r) = Len(p) PROVE r[Len(p)] > p[Len(p)]
  <2>1. ~IsPrefix(p, r)
    BY <1>6 DEF Moves
  <2>2. \E i \in 1..Len(p) : p[i] # r[i]
    BY <1>3, <1>6, <2>1, PrefixFacts
  <2>3. r[Len(p)] # p[Len(p)]
    BY <1>3, <2>2, <1>6 DEF Onward
  <2>4. r[Len(p)] \in Nat /\ p[Len(p)] \in Nat
    BY <1>3, <1>6, PathFacts
  <2> QED
    BY <1>6, <2>3, <2>4 DEF Onward
<1> QED
  BY <1>1, <1>2, <1>4, <1>5, <1>6

LEMMA MovedFront ==
  ASSUME NEW p \in Path, p # <<>>, NEW r \in Path, r # <<>>,
         NEW d, Moves(p, r, d)
  PROVE  /\ Moves(p, Front(r), d)
         /\ Shift(Front(r), p, d) = Front(Shift(r, p, d))
<1> DEFINE f == Front(r)
           s == Shift(r, p, d)
<1>1. /\ Len(r) \in Nat /\ Len(r) > 0 /\ Len(p) \in Nat /\ Len(p) > 0
      /\ \A i \in 1..Len(r) : r[i] \in Nat
      /\ \A i \in 1..Len(p) : p[i] \in Nat
  BY PathFacts
<1>2. /\ f \in Path /\ Len(f) = Len(r) - 1
      /\ \A i \in 1..(Len(r) - 1) : f[i] = r[i]
  BY FrontPath
<1> HIDE DEF f
<1>3. ~IsPrefix(p, r) => ~IsPrefix(p, f)
  BY <1>1, <1>2, PrefixFacts
<1>4. Moves(p, f, d)
  BY <1>3 DEF Moves
<1>5. /\ s \in Path /\ Len(s) = Len(r) /\ s # <<>> /\ d \in {-1, 1}
      /\ \A i \in 1..Len(r) :
           s[i] = IF Onward(p, r) /\ i = Len(p) THEN r[i] + d ELSE r[i]
  BY MovedPath
<1> HIDE DEF s
<1>6. /\ Front(s) \in Path /\ Len(Front(s)) = Len(r) - 1
      /\ \A i \in 1..(Len(r) - 1) : Front(s)[i] = s[i]
  BY <1>5, FrontPath
<1> DEFINE g == Shift(f, p, d)
<1>7. /\ g \in Path /\ Len(g) = Len(r) - 1
      /\ \A i \in 1..(Len(r) - 1) :
           g[i] = IF Onward(p, f) /\ i = Len(p) THEN f[i] + d ELSE f[i]
  BY <1>2, <1>4, MovedPath
<1> HIDE DEF g
<1>8. Len(p) <= Len(r) - 1 => (Onward(p, f) <=> Onward(p, r))
  BY <1>1, <1>2 DEF Onward
<1>9. ASSUME NEW i \in 1..(Len(r) - 1) PROVE g[i] = Front(s)[i]
  <2>1. i \in 1..Len(r) /\ f[i] = r[i] /\ Front(s)[i] = s[i]
    BY <1>1, <1>2, <1>6
  <2>2. i = Len(p) => (Onward(p, f) <=> Onward(p, r))
    BY <1>8
  <2> QED
    BY <1>5, <1>7, <2>1, <2>2
<1>10. g = Front(s)
  BY <1>6, <1>7, <1>9, PathEqual
<1> QED
  BY <1>4, <1>10 DEF f, g, s

LEMMA MovedSibling ==
  ASSUME NEW p \in Path, p # <<>>, NEW r \in Path, r # <<>>,
         NEW d, Moves(p, r, d), NEW n \in 1..(Last(r) - 1),
         Moves(p, Sibling(r, n), d)
  PROVE  \E m \in 1..(Last(Shift(r, p, d)) - 1) :
           Shift(Sibling(r, n), p, d) = Sibling(Shift(r, p, d), m)
<1> DEFINE e == Sibling(r, n)
           s == Shift(r, p, d)
           g == Shift(e, p, d)
           k == Len(r)
<1>1. /\ Len(r) \in Nat /\ Len(r) > 0 /\ Len(p) \in Nat /\ Len(p) > 0
      /\ \A i \in 1..Len(r) : r[i] \in Nat
      /\ \A i \in 1..Len(p) : p[i] \in Nat /\ p[i] # 0
      /\ Last(r) = r[k] /\ r[k] \in Nat
      /\ n \in Nat /\ n > 0 /\ n < r[k]
  <2>1. Last(r) = r[k] /\ r[k] \in Nat
    BY PathFacts, FrontPath
  <2> QED
    BY <2>1, PathFacts
<1>2. /\ e \in Path /\ e # <<>> /\ Len(e) = k /\ e[k] = n
      /\ \A i \in 1..k : i # k => e[i] = r[i]
  <2>1. /\ e \in Path /\ Len(e) = k /\ e[k] = n
        /\ \A i \in 1..k : i # k => e[i] = r[i]
    BY <1>1, SiblingPath
  <2> QED
    BY <1>1, <2>1, PathFacts
<1>3. Moves(p, e, d)
  OBVIOUS
<1> HIDE DEF e
<1>4. /\ s \in Path /\ Len(s) = k /\ s # <<>> /\ d \in {-1, 1}
      /\ \A i \in 1..k :
           s[i] = IF Onward(p, r) /\ i = Len(p) THEN r[i] + d ELSE r[i]
      /\ Onward(p, r) /\ d = -1 /\ k = Len(p) => r[Len(p)] > p[Len(p)]
  BY MovedPath
<1>5. Last(s) = s[k]
  BY <1>4 DEF Last
<1> HIDE DEF s
<1>6. /\ g \in Path /\ Len(g) = k
      /\ \A i \in 1..k :
           g[i] = IF Onward(p, e) /\ i = Len(p) THEN e[i] + d ELSE e[i]
      /\ Onward(p, e) /\ d = -1 /\ k = Len(p) => e[Len(p)] > p[Len(p)]
  BY <1>2, <1>3, MovedPath
<1> HIDE DEF g
<1> DEFINE m == g[k]
<1>7. k \in 1..k
  BY <1>1
<1>8. m \in 1..(s[k] - 1)
  <2>1. CASE k # Len(p)
    <3>1. s[k] = r[k] /\ g[k] = n
      BY <1>2, <1>4, <1>6, <1>7, <2>1
    <3> QED
      BY <1>1, <3>1
  <2>2. CASE k = Len(p)
    <3>1. Onward(p, e) => Onward(p, r) /\ n >= p[k]
      BY <1>1, <1>2, <2>2 DEF Onward
    <3>2. Onward(p, r) /\ ~Onward(p, e) => n < p[k]
      <4> SUFFICES ASSUME Onward(p, r), n >= p[k] PROVE Onward(p, e)
        BY <1>1, <2>2
      <4> QED
        BY <1>1, <1>2, <2>2 DEF Onward
    <3>3. /\ s[k] = IF Onward(p, r) THEN r[k] + d ELSE r[k]
          /\ g[k] = IF Onward(p, e) THEN n + d ELSE n
      BY <1>2, <1>4, <1>6, <1>7, <2>2
    <3>4. /\ Onward(p, r) /\ d = -1 => r[k] > p[k]
          /\ Onward(p, e) /\ d = -1 => n > p[k]
          /\ p[k] \in Nat /\ p[k] # 0
      BY <1>1, <1>2, <1>4, <1>6, <2>2
    <3>5. CASE Onward(p, e)
      BY <1>1, <1>4, <3>1, <3>3, <3>4, <3>5
    <3>6. CASE ~Onward(p, e)
      BY <1>1, <1>4, <3>2, <3>3, <3>4, <3>6
    <3> QED
      BY <3>5, <3>6
  <2> QED
    BY <2>1, <2>2
<1>9. g = Sibling(s, m)
  <2> DEFINE b == Sibling(s, m)
  <2>1. m \in Nat \ {0}
    BY <1>1, <1>4, <1>7, <1>8
  <2>2. /\ b \in Path /\ Len(b) = k /\ b[k] = m
        /\ \A i \in 1..k : i # k => b[i] = s[i]
    BY <1>4, <2>1, SiblingPath
  <2> HIDE DEF b
  <2>3. ASSUME NEW i \in 1..k, i # k PROVE g[i] = s[i]
    <3>1. e[i] = r[i]
      BY <1>2, <2>3
    <3>2. i = Len(p) => (Onward(p, e) <=> Onward(p, r))
      BY <1>1, <1>2, <2>3 DEF Onward
    <3> QED
      BY <1>4, <1>6, <3>1, <3>2
  <2>4. \A i \in 1..k : g[i] = b[i]
    BY <2>2, <2>3
  <2>5. g = b
    BY <1>6, <2>2, <2>4, PathEqual
  <2> QED
    BY <2>5 DEF b
<1>10. \E x \in 1..(Last(s) - 1) : g = Sibling(s, x)
  BY <1>5, <1>8, <1>9
<1> QED
  BY <1>10 DEF g, s, e

\* The first child moves with its parent, but for p itself.
LEMMA MovedChild ==
  ASSUME NEW p \in Path, p # <<>>, NEW r \in Path, NEW d,
         Moves(p, r, d), Moves(p, Child(r, 1), d),
         d = 1 => p # Child(r, 1)
  PROVE  Shift(Child(r, 1), p, d) = Child(Shift(r, p, d), 1)
<1> DEFINE c == Child(r, 1)
           s == Shift(r, p, d)
           g == Shift(c, p, d)
           b == Child(s, 1)
           k == Len(r)
<1>1. /\ k \in Nat /\ Len(p) \in Nat /\ Len(p) > 0
      /\ \A i \in 1..Len(r) : r[i] \in Nat
      /\ \A i \in 1..Len(p) : p[i] \in Nat /\ p[i] # 0
  BY PathFacts
<1>2. /\ c \in Path /\ Len(c) = k + 1 /\ c[k + 1] = 1
      /\ \A i \in 1..k : c[i] = r[i]
  BY ChildValue
<1>3. Moves(p, c, d) /\ (d = 1 => p # c)
  OBVIOUS
<1> HIDE DEF c
<1>4. /\ s \in Path /\ Len(s) = k /\ d \in {-1, 1}
      /\ \A i \in 1..k :
           s[i] = IF Onward(p, r) /\ i = Len(p) THEN r[i] + d ELSE r[i]
  BY MovedPath
<1> HIDE DEF s
<1>5. /\ g \in Path /\ Len(g) = k + 1
      /\ \A i \in 1..(k + 1) :
           g[i] = IF Onward(p, c) /\ i = Len(p) THEN c[i] + d ELSE c[i]
      /\ Onward(p, c) /\ d = -1 /\ k + 1 = Len(p) => c[Len(p)] > p[Len(p)]
  BY <1>2, <1>3, MovedPath
<1> HIDE DEF g
<1>6. /\ b \in Path /\ Len(b) = k + 1 /\ b[k + 1] = 1
      /\ \A i \in 1..k : b[i] = s[i]
  <2>1. /\ b \in Path /\ Len(b) = Len(s) + 1 /\ b[Len(s) + 1] = 1
        /\ \A i \in 1..Len(s) : b[i] = s[i]
    BY <1>4, 1 \in Nat \ {0}, ChildValue
  <2> QED
    BY <1>4, <2>1
<1> HIDE DEF b
<1>7. ~(Onward(p, c) /\ Len(p) = k + 1)
  <2> SUFFICES ASSUME Onward(p, c), Len(p) = k + 1 PROVE FALSE
    OBVIOUS
  <2>1. /\ p[Len(p)] = 1 /\ c[Len(p)] = 1
    <3>1. c[Len(p)] = 1 /\ c[Len(p)] >= p[Len(p)]
      BY <1>2 DEF Onward
    <3>2. p[Len(p)] \in Nat /\ p[Len(p)] # 0
      BY <1>1
    <3> QED
      BY <3>1, <3>2
  <2>2. \A i \in 1..Len(p) : c[i] = p[i]
    BY <1>1, <2>1 DEF Onward
  <2>3. c = p
    BY <1>2, <2>2, PathEqual
  <2>4. d = -1
    BY <1>3, <1>4, <2>3
  <2> QED
    BY <1>5, <2>1, <2>4
<1>8. Len(p) <= k => (Onward(p, c) <=> Onward(p, r))
  BY <1>1, <1>2 DEF Onward
<1>9. ASSUME NEW i \in 1..(k + 1) PROVE g[i] = b[i]
  <2>1. CASE i \in 1..k
    <3>1. c[i] = r[i] /\ b[i] = s[i]
      BY <1>2, <1>6, <2>1
    <3>2. i = Len(p) => (Onward(p, c) <=> Onward(p, r))
      BY <1>1, <1>8, <2>1
    <3> QED
      BY <1>4, <1>5, <2>1, <3>1, <3>2
  <2>2. CASE i = k + 1
    BY <1>1, <1>2, <1>5, <1>6, <1>7, <2>2
  <2> QED
    BY <1>1, <2>1, <2>2
<1>10. g = b
  BY <1>5, <1>6, <1>9, PathEqual
<1> QED
  BY <1>10 DEF b, c, g, s

\* A tree with all of its paths.
Grown(t) == Rooted(DOMAIN t) /\ WellFormed(t)

\* Something may be put in at p.
Room(t, p) ==
  /\ p \in Path /\ p # <<>> /\ Front(p) \in DOMAIN t
  /\ \A n \in 1..(Last(p) - 1) : Sibling(p, n) \in DOMAIN t

LEMMA LastNumber ==
  ASSUME NEW p \in Path, p # <<>>
  PROVE  /\ Last(p) = p[Len(p)] /\ Last(p) \in Nat \ {0}
         /\ \A n \in 1..(Last(p) - 1) : n \in Nat \ {0} /\ n < Last(p)
         /\ Len(p) \in Nat /\ Len(p) > 0
  BY PathFacts DEF Last

LEMMA WithoutGrown ==
  ASSUME NEW t, Grown(t), NEW p \in DOMAIN t, p # <<>>
  PROVE  Grown(Without(t, p))
<1> DEFINE u == Without(t, p)
<1>1. /\ Rooted(DOMAIN t) /\ Paths(DOMAIN t) /\ p \in Path
      /\ DOMAIN t \subseteq Path
  BY DEF Grown, Rooted, Paths
<1>2. Rooted(DOMAIN u)
  BY <1>1, WithoutFacts
<1>3. \A r : r \in DOMAIN u <=> r \in Path /\ Shift(r, p, 1) \in DOMAIN t
  BY <1>1, WithoutView
<1> HIDE DEF u
<1>4. ASSUME NEW r \in DOMAIN u, r # <<>>
      PROVE  /\ Front(r) \in DOMAIN u
             /\ \A n \in 1..(Last(r) - 1) : Sibling(r, n) \in DOMAIN u
  <2> DEFINE s == Shift(r, p, 1)
  <2>1. r \in Path /\ s \in DOMAIN t
    BY <1>3
  <2>2. \A q : Moves(p, q, 1)
    BY DEF Moves
  <2>3. s # <<>> /\ Shift(Front(r), p, 1) = Front(s)
    BY <1>1, <1>4, <2>1, <2>2, MovedPath, MovedFront
  <2>4. ASSUME NEW n \in 1..(Last(r) - 1)
        PROVE  \E m \in 1..(Last(s) - 1) :
                 Shift(Sibling(r, n), p, 1) = Sibling(s, m)
    BY <1>1, <1>4, <2>1, <2>2, MovedSibling
  <2> HIDE DEF s
  <2>5. /\ Front(s) \in DOMAIN t
        /\ \A m \in 1..(Last(s) - 1) : Sibling(s, m) \in DOMAIN t
    BY <2>1, <2>3 DEF Grown, WellFormed
  <2>6. Front(r) \in DOMAIN u
    BY <1>3, <1>4, <2>1, <2>3, <2>5, FrontPath
  <2>7. \A n \in 1..(Last(r) - 1) : Sibling(r, n) \in Path
    BY <1>4, <2>1, LastNumber, SiblingPath
  <2>8. \A n \in 1..(Last(r) - 1) : Sibling(r, n) \in DOMAIN u
    BY <1>3, <2>4, <2>5, <2>7
  <2> QED
    BY <2>6, <2>8
<1>5. WellFormed(u)
  BY <1>4 DEF WellFormed
<1> QED
  BY <1>2, <1>5 DEF Grown, u

LEMMA SiblingPrefix ==
  ASSUME NEW p \in Path, p # <<>>, NEW r \in Path, r # <<>>,
         NEW n \in Nat \ {0}
  PROVE  /\ ~IsPrefix(p, r) /\ IsPrefix(p, Sibling(r, n)) => Sibling(r, n) = p
         /\ IsPrefix(p, r) /\ r # p =>
              /\ IsPrefix(p, Front(r)) /\ Drop(p, r) # <<>>
              /\ Drop(p, Front(r)) = Front(Drop(p, r))
              /\ Last(Drop(p, r)) = Last(r)
              /\ IsPrefix(p, Sibling(r, n))
              /\ Drop(p, Sibling(r, n)) = Sibling(Drop(p, r), n)
<1> DEFINE e == Sibling(r, n)
           k == Len(r)
           l == Len(p)
<1>1. /\ k \in Nat /\ k > 0 /\ l \in Nat /\ l > 0
  BY PathFacts
<1>2. /\ e \in Path /\ Len(e) = k /\ e[k] = n
      /\ \A i \in 1..k : i # k => e[i] = r[i]
  BY SiblingPath
<1> HIDE DEF e
<1>3. ASSUME ~IsPrefix(p, r), IsPrefix(p, e) PROVE e = p
  <2>1. l <= k /\ \A i \in 1..l : p[i] = e[i]
    BY <1>2, <1>3, PrefixFacts
  <2>2. ~(l <= k /\ \A i \in 1..l : p[i] = r[i])
    BY <1>3, PrefixFacts
  <2>3. l = k
    BY <1>1, <1>2, <2>1, <2>2
  <2> QED
    BY <1>2, <2>1, <2>3, PathEqual
<1>4. ASSUME IsPrefix(p, r), r # p
      PROVE  /\ IsPrefix(p, Front(r)) /\ Drop(p, r) # <<>>
             /\ Drop(p, Front(r)) = Front(Drop(p, r))
             /\ Last(Drop(p, r)) = Last(r)
             /\ IsPrefix(p, e) /\ Drop(p, e) = Sibling(Drop(p, r), n)
  <2>1. l <= k /\ \A i \in 1..l : p[i] = r[i]
    BY <1>4, PrefixFacts
  <2>2. l < k
    <3>1. l # k
      BY <1>4, <2>1, PathEqual
    <3> QED
      BY <1>1, <2>1, <3>1
  <2> DEFINE f == Front(r)
             s == Drop(p, r)
  <2>3. f \in Path /\ Len(f) = k - 1 /\ \A i \in 1..(k - 1) : f[i] = r[i]
    BY FrontPath
  <2>4. /\ s \in Path /\ Len(s) = k - l
        /\ \A i \in 1..(k - l) : s[i] = r[l + i]
    BY <1>4, DropPath
  <2> HIDE DEF f, s
  <2>5. IsPrefix(p, f) /\ IsPrefix(p, e)
    BY <1>1, <1>2, <2>1, <2>2, <2>3, PrefixFacts
  <2>6. s # <<>>
    BY <1>1, <2>2, <2>4, PathFacts
  <2> DEFINE a == Drop(p, f)
             b == Front(s)
             c == Drop(p, e)
             g == Sibling(s, n)
  <2>7. /\ a \in Path /\ Len(a) = (k - 1) - l
        /\ \A i \in 1..((k - 1) - l) : a[i] = f[l + i]
    <3>1. /\ a \in Path /\ Len(a) = Len(f) - Len(p)
          /\ \A i \in 1..(Len(f) - Len(p)) : a[i] = f[Len(p) + i]
      BY <2>3, <2>5, DropPath
    <3> HIDE DEF a
    <3> QED
      BY <2>3, <3>1
  <2>8. /\ b \in Path /\ Len(b) = (k - l) - 1
        /\ \A i \in 1..((k - l) - 1) : b[i] = s[i]
    BY <2>4, <2>6, FrontPath
  <2>9. /\ c \in Path /\ Len(c) = k - l
        /\ \A i \in 1..(k - l) : c[i] = e[l + i]
    BY <1>2, <2>5, DropPath
  <2>10. /\ g \in Path /\ Len(g) = k - l /\ g[k - l] = n
         /\ \A i \in 1..(k - l) : i # k - l => g[i] = s[i]
    <3>1. /\ g \in Path /\ Len(g) = Len(s) /\ g[Len(s)] = n
          /\ \A i \in 1..Len(s) : i # Len(s) => g[i] = s[i]
      BY <2>4, <2>6, SiblingPath
    <3> HIDE DEF g
    <3> QED
      BY <2>4, <3>1
  <2> HIDE DEF a, b, c, g
  <2>11. a = b
    <3>1. Len(a) = Len(b) /\ Len(a) = (k - l) - 1
      BY <1>1, <2>7, <2>8
    <3>2. ASSUME NEW i \in 1..((k - l) - 1) PROVE a[i] = b[i]
      <4>1. /\ i \in 1..((k - 1) - l) /\ l + i \in 1..(k - 1)
            /\ i \in 1..(k - l)
        BY <1>1, <2>2
      <4> QED
        BY <2>3, <2>4, <2>7, <2>8, <4>1
    <3> QED
      BY <2>7, <2>8, <3>1, <3>2, PathEqual
  <2>12. c = g
    <3>1. Len(c) = Len(g) /\ \A i \in 1..Len(c) : c[i] = g[i]
      BY <1>1, <1>2, <2>2, <2>4, <2>9, <2>10
    <3> QED
      BY <2>9, <2>10, <3>1, PathEqual
  <2>13. Last(s) = Last(r)
    <3>1. Last(s) = s[k - l] /\ Last(r) = r[k]
      BY <2>4 DEF Last
    <3>2. k - l \in 1..(k - l) /\ l + (k - l) = k
      BY <1>1, <2>2
    <3> QED
      BY <2>4, <3>1, <3>2
  <2> QED
    BY <2>5, <2>6, <2>11, <2>12, <2>13 DEF a, b, c, g, f, s
<1> QED
  BY <1>3, <1>4 DEF e

\* Above and before p nothing moves.
LEMMA Stays ==
  ASSUME NEW p \in Path, p # <<>>
  PROVE  /\ ~IsPrefix(p, Front(p)) /\ Moves(p, Front(p), -1)
         /\ \A d \in {-1, 1} : Shift(Front(p), p, d) = Front(p)
         /\ \A n \in 1..(Last(p) - 1) :
              /\ ~IsPrefix(p, Sibling(p, n))
              /\ \A d \in {-1, 1} : Shift(Sibling(p, n), p, d) = Sibling(p, n)
         /\ IsPrefix(p, p) /\ Drop(p, p) = <<>>
<1>1. /\ Len(p) \in Nat /\ Len(p) > 0 /\ Last(p) = p[Len(p)]
      /\ Last(p) \in Nat
  BY LastNumber
<1>2. Front(p) \in Path /\ Len(Front(p)) = Len(p) - 1
  BY FrontPath
<1>3. ~Onward(p, Front(p)) /\ ~IsPrefix(p, Front(p))
  BY <1>1, <1>2, PrefixFacts DEF Onward
<1>4. ASSUME NEW n \in 1..(Last(p) - 1)
      PROVE  /\ Sibling(p, n) \in Path /\ ~Onward(p, Sibling(p, n))
             /\ ~IsPrefix(p, Sibling(p, n))
  <2> DEFINE e == Sibling(p, n)
  <2>1. n \in Nat \ {0} /\ n < Last(p)
    BY LastNumber
  <2>2. e \in Path /\ Len(e) = Len(p) /\ e[Len(p)] = n
    BY <2>1, SiblingPath
  <2> HIDE DEF e
  <2>3. ~Onward(p, e)
    BY <1>1, <2>1, <2>2 DEF Onward
  <2>4. ~IsPrefix(p, e)
    BY <1>1, <2>1, <2>2, PrefixFacts
  <2> QED
    BY <2>2, <2>3, <2>4 DEF e
<1>5. IsPrefix(p, p)
  BY <1>1, PrefixFacts
<1>6. Drop(p, p) = <<>>
  <2>1. Drop(p, p) \in Path /\ Len(Drop(p, p)) = 0
    BY <1>1, <1>5, DropPath
  <2> QED
    BY <2>1, PathFacts
<1>7. \A d \in {-1, 1} : Shift(Front(p), p, d) = Front(p)
  BY <1>2, <1>3, ShiftValue
<1>8. ASSUME NEW n \in 1..(Last(p) - 1), NEW d \in {-1, 1}
      PROVE  Shift(Sibling(p, n), p, d) = Sibling(p, n)
  BY <1>4, ShiftValue
<1> QED
  BY <1>3, <1>4, <1>5, <1>6, <1>7, <1>8 DEF Moves

LEMMA WithGrown ==
  ASSUME NEW t, Grown(t), NEW p, Room(t, p), NEW sub, Grown(sub)
  PROVE  Grown(With(t, p, sub))
<1> DEFINE u == With(t, p, sub)
           In(r) == /\ r \in Path
                    /\ IF IsPrefix(p, r) THEN Drop(p, r) \in DOMAIN sub
                       ELSE Shift(r, p, -1) \in DOMAIN t
<1>1. /\ Rooted(DOMAIN t) /\ Paths(DOMAIN t) /\ p \in Path /\ p # <<>>
      /\ DOMAIN t \subseteq Path /\ Paths(DOMAIN sub) /\ <<>> \in DOMAIN sub
      /\ DOMAIN sub \subseteq Path
  BY DEF Grown, Rooted, Paths, Room
<1>2. Rooted(DOMAIN u)
  BY <1>1, WithFacts
<1>3. \A r : r \in DOMAIN u <=> In(r)
  BY <1>1, WithView
<1> HIDE DEF u
<1>4. ASSUME NEW r \in Path, r # <<>>, In(r)
      PROVE  /\ In(Front(r))
             /\ \A n \in 1..(Last(r) - 1) : In(Sibling(r, n))
  <2>1. /\ Front(r) \in Path
        /\ \A n \in 1..(Last(r) - 1) :
             n \in Nat \ {0} /\ Sibling(r, n) \in Path
    BY <1>4, FrontPath, LastNumber, SiblingPath
  <2>2. CASE r = p
    <3>1. -1 \in {-1, 1}
      OBVIOUS
    <3>2. In(Front(p))
      BY <1>1, <2>1, <2>2, <3>1, Stays DEF Room
    <3>3. \A n \in 1..(Last(p) - 1) : In(Sibling(p, n))
      BY <1>1, <2>1, <2>2, <3>1, Stays DEF Room
    <3> QED
      BY <2>2, <3>2, <3>3
  <2>3. CASE r # p /\ IsPrefix(p, r)
    <3> DEFINE s == Drop(p, r)
    <3>1. s \in DOMAIN sub /\ 1 \in Nat \ {0}
      BY <1>4, <2>3
    <3>2. /\ IsPrefix(p, Front(r)) /\ s # <<>>
          /\ Drop(p, Front(r)) = Front(s) /\ Last(s) = Last(r)
      BY <1>1, <1>4, <2>3, <3>1, SiblingPrefix
    <3>3. ASSUME NEW n \in 1..(Last(r) - 1)
          PROVE  /\ IsPrefix(p, Sibling(r, n))
                 /\ Drop(p, Sibling(r, n)) = Sibling(s, n)
      BY <1>1, <1>4, <2>1, <2>3, SiblingPrefix
    <3> HIDE DEF s
    <3>4. /\ Front(s) \in DOMAIN sub
          /\ \A n \in 1..(Last(s) - 1) : Sibling(s, n) \in DOMAIN sub
      BY <3>1, <3>2 DEF Grown, WellFormed
    <3> QED
      BY <2>1, <3>2, <3>3, <3>4
  <2>4. CASE ~IsPrefix(p, r)
    <3> DEFINE s == Shift(r, p, -1)
    <3>1. s \in DOMAIN t /\ Moves(p, r, -1)
      BY <1>4, <2>4 DEF Moves
    <3>2. /\ s # <<>> /\ Moves(p, Front(r), -1)
          /\ Shift(Front(r), p, -1) = Front(s)
      BY <1>1, <1>4, <3>1, MovedPath, MovedFront
    <3>3. ASSUME NEW n \in 1..(Last(r) - 1), ~IsPrefix(p, Sibling(r, n))
          PROVE  \E m \in 1..(Last(s) - 1) :
                   Shift(Sibling(r, n), p, -1) = Sibling(s, m)
      <4>1. Moves(p, Sibling(r, n), -1)
        BY <3>3 DEF Moves
      <4> QED
        BY <1>1, <1>4, <3>1, <4>1, MovedSibling
    <3> HIDE DEF s
    <3>4. /\ Front(s) \in DOMAIN t
          /\ \A m \in 1..(Last(s) - 1) : Sibling(s, m) \in DOMAIN t
      BY <3>1, <3>2 DEF Grown, WellFormed
    <3>5. ~IsPrefix(p, Front(r))
      BY <3>2 DEF Moves
    <3>6. In(Front(r))
      BY <2>1, <3>2, <3>4, <3>5
    <3>7. ASSUME NEW n \in 1..(Last(r) - 1) PROVE In(Sibling(r, n))
      <4>1. CASE IsPrefix(p, Sibling(r, n))
        <5>1. Sibling(r, n) = p
          BY <1>1, <1>4, <2>1, <2>4, <4>1, SiblingPrefix
        <5>2. Drop(p, p) = <<>>
          BY <1>1, Stays
        <5> QED
          BY <1>1, <4>1, <5>1, <5>2
      <4>2. CASE ~IsPrefix(p, Sibling(r, n))
        BY <2>1, <3>3, <3>4, <4>2
      <4> QED
        BY <4>1, <4>2
    <3> QED
      BY <3>6, <3>7
  <2> QED
    BY <2>2, <2>3, <2>4
<1> HIDE DEF In
<1>5. \A r \in DOMAIN u : r \in Path
  BY <1>2 DEF Rooted, Paths
<1>6. WellFormed(u)
  BY <1>3, <1>4, <1>5 DEF WellFormed
<1> QED
  BY <1>2, <1>6 DEF Grown, u

LEMMA ChildFacts ==
  ASSUME NEW p \in Path, NEW n \in Nat \ {0}
  PROVE  /\ Front(Child(p, n)) = p /\ Last(Child(p, n)) = n
         /\ \A m \in Nat \ {0} : Sibling(Child(p, n), m) = Child(p, m)
<1> DEFINE c == Child(p, n)
<1>1. /\ c \in Path /\ c # <<>> /\ Len(c) = Len(p) + 1 /\ c[Len(p) + 1] = n
      /\ \A i \in 1..Len(p) : c[i] = p[i]
  BY ChildValue
<1> HIDE DEF c
<1>2. Len(p) \in Nat
  BY PathFacts
<1>3. Last(c) = n
  BY <1>1 DEF Last
<1>4. Front(c) = p
  <2>1. /\ Front(c) \in Path /\ Len(Front(c)) = Len(c) - 1
        /\ \A i \in 1..(Len(c) - 1) : Front(c)[i] = c[i]
    BY <1>1, FrontPath
  <2>2. Len(Front(c)) = Len(p) /\ \A i \in 1..Len(p) : Front(c)[i] = p[i]
    BY <1>1, <1>2, <2>1
  <2> QED
    BY <2>1, <2>2, PathEqual
<1>5. ASSUME NEW m \in Nat \ {0} PROVE Sibling(c, m) = Child(p, m)
  <2> DEFINE e == Sibling(c, m)
             b == Child(p, m)
  <2>1. /\ e \in Path /\ Len(e) = Len(c) /\ e[Len(c)] = m
        /\ \A i \in 1..Len(c) : i # Len(c) => e[i] = c[i]
    BY <1>1, SiblingPath
  <2>2. /\ b \in Path /\ Len(b) = Len(p) + 1 /\ b[Len(p) + 1] = m
        /\ \A i \in 1..Len(p) : b[i] = p[i]
    BY ChildValue
  <2> HIDE DEF e, b
  <2>3. Len(e) = Len(b) /\ \A i \in 1..Len(e) : e[i] = b[i]
    BY <1>1, <1>2, <2>1, <2>2
  <2> QED
    BY <2>1, <2>2, <2>3, PathEqual DEF e, b
<1> QED
  BY <1>3, <1>4, <1>5 DEF c

\* Arity counts the children of p from 1 on.
LEMMA CountsChildren ==
  ASSUME NEW t, Grown(t), NEW p \in Path
  PROVE  /\ Arity(t, p) \in Nat
         /\ \A n \in Nat \ {0} : Child(p, n) \in DOMAIN t <=> n <= Arity(t, p)
<1> DEFINE C == Children(t, p)
           K == {n \in Nat \ {0} : Child(p, n) \in DOMAIN t}
           g == [q \in C |-> q[Len(p) + 1]]
           a == Arity(t, p)
<1>1. /\ IsFiniteSet(DOMAIN t) /\ DOMAIN t \subseteq Path /\ WellFormed(t)
      /\ Len(p) \in Nat
  BY PathFacts DEF Grown, Rooted, Paths
<1>2. IsFiniteSet(C)
  BY <1>1, FS_Subset DEF Children
<1>3. ASSUME NEW q \in C
      PROVE  q[Len(p) + 1] \in K /\ q = Child(p, q[Len(p) + 1])
  <2>1. /\ q \in DOMAIN t /\ q \in Path /\ Len(q) = Len(p) + 1
        /\ IsPrefix(p, q)
    BY <1>1 DEF Children
  <2>2. \A i \in 1..Len(p) : q[i] = p[i]
    BY <2>1, PrefixFacts
  <2> DEFINE n == q[Len(p) + 1]
             b == Child(p, n)
  <2>3. n \in Nat \ {0}
    BY <1>1, <2>1, PathFacts
  <2>4. /\ b \in Path /\ Len(b) = Len(p) + 1 /\ b[Len(p) + 1] = n
        /\ \A i \in 1..Len(p) : b[i] = p[i]
    BY <2>3, ChildValue
  <2> HIDE DEF b
  <2>5. Len(q) = Len(b) /\ \A i \in 1..Len(q) : q[i] = b[i]
    BY <1>1, <2>1, <2>2, <2>4
  <2>6. q = b
    BY <2>1, <2>4, <2>5, PathEqual
  <2>7. Child(p, n) \in DOMAIN t
    BY <2>1, <2>6 DEF b
  <2> QED
    BY <2>3, <2>6, <2>7 DEF b
<1>4. ASSUME NEW n \in K
      PROVE  Child(p, n) \in C /\ Child(p, n)[Len(p) + 1] = n
  <2>1. /\ Child(p, n) \in Path /\ Len(Child(p, n)) = Len(p) + 1
        /\ Child(p, n)[Len(p) + 1] = n
        /\ \A i \in 1..Len(p) : Child(p, n)[i] = p[i]
    BY ChildValue
  <2>2. IsPrefix(p, Child(p, n))
    BY <1>1, <2>1, PrefixFacts
  <2> QED
    BY <2>1, <2>2 DEF Children
<1> HIDE DEF C, K
<1>5. g \in Surjection(C, K) /\ g \in Injection(C, K)
  <2>1. g \in [C -> K]
    BY <1>3
  <2>2. \A n \in K : \E q \in C : g[q] = n
    BY <1>4
  <2>3. \A q, r \in C : g[q] = g[r] => q = r
    BY <1>3
  <2> QED
    BY <2>1, <2>2, <2>3 DEF Surjection, Injection, IsInjective
<1> HIDE DEF g
<1>6. IsFiniteSet(K) /\ Cardinality(K) = Cardinality(C)
  BY <1>2, <1>5, FS_Surjection
<1>7. a = Cardinality(K) /\ a \in Nat
  BY <1>6, FS_CardinalityType DEF Arity, C
<1> HIDE DEF a
<1>8. ASSUME NEW n \in K, NEW m \in 1..(n - 1) PROVE m \in K
  <2> DEFINE c == Child(p, n)
  <2>1. n \in Nat \ {0} /\ m \in Nat \ {0} /\ c \in DOMAIN t
    BY DEF K
  <2>2. c # <<>> /\ Last(c) = n /\ Sibling(c, m) = Child(p, m)
    BY <2>1, ChildValue, ChildFacts
  <2> HIDE DEF c
  <2>3. Child(p, m) \in DOMAIN t
    BY <1>1, <2>1, <2>2 DEF WellFormed
  <2> QED
    BY <2>1, <2>3 DEF K
<1>9. ASSUME NEW n \in K PROVE n <= a
  <2>1. n \in Nat /\ n # 0
    BY DEF K
  <2>2. 1..n \subseteq K
    BY <1>8, <2>1
  <2>3. Cardinality(1..n) = n
    BY <2>1, FS_Interval
  <2>4. Cardinality(1..n) <= Cardinality(K)
    BY <1>6, <2>2, FS_Subset
  <2> QED
    BY <1>7, <2>3, <2>4
<1>10. ASSUME NEW n \in Nat \ {0}, n <= a PROVE n \in K
  <2> SUFFICES ASSUME n \notin K PROVE FALSE
    OBVIOUS
  <2>1. ASSUME NEW m \in K PROVE m \in 1..(n - 1)
    <3>1. m \in Nat /\ m # 0 /\ m # n
      BY DEF K
    <3>2. ~(n \in 1..(m - 1))
      BY <1>8
    <3> QED
      BY <3>1, <3>2
  <2>2. IsFiniteSet(1..(n - 1)) /\ Cardinality(1..(n - 1)) = n - 1
    <3>1. 1 \in Int /\ n - 1 \in Int /\ (1 > n - 1 <=> n = 1)
          /\ (n - 1) - 1 + 1 = n - 1
      OBVIOUS
    <3>2. /\ IsFiniteSet(1..(n - 1))
          /\ Cardinality(1..(n - 1)) =
               IF 1 > n - 1 THEN 0 ELSE (n - 1) - 1 + 1
      BY <3>1, FS_Interval
    <3> QED
      BY <3>1, <3>2
  <2>3. a <= n - 1
    BY <1>7, <2>1, <2>2, FS_Subset
  <2> QED
    BY <1>7, <1>10, <2>3
<1>11. \A n \in Nat \ {0} : Child(p, n) \in DOMAIN t <=> n <= a
  BY <1>9, <1>10 DEF K
<1> QED
  BY <1>7, <1>11 DEF a

LEMMA Rooms ==
  ASSUME NEW t, Grown(t), NEW p \in DOMAIN t
  PROVE  /\ p \in Path
         /\ Room(t, Child(p, Arity(t, p) + 1))
         /\ p # <<>> => Room(t, p)
         /\ p # <<>> /\ Last(p) > 1 =>
              /\ Room(Without(t, p), Sibling(p, Last(p) - 1))
              /\ Front(Sibling(p, Last(p) - 1)) = Front(p)
<1>1. /\ Paths(DOMAIN t) /\ p \in Path /\ WellFormed(t)
      /\ DOMAIN t \subseteq Path
  BY DEF Grown, Rooted, Paths
<1>2. Room(t, Child(p, Arity(t, p) + 1))
  <2> DEFINE a == Arity(t, p)
             c == Child(p, a + 1)
  <2>1. /\ a \in Nat
        /\ \A n \in Nat \ {0} : Child(p, n) \in DOMAIN t <=> n <= a
    BY <1>1, CountsChildren
  <2> HIDE DEF a
  <2>2. a + 1 \in Nat \ {0}
    BY <2>1
  <2>3. /\ c \in Path /\ c # <<>> /\ Front(c) = p /\ Last(c) = a + 1
        /\ \A m \in Nat \ {0} : Sibling(c, m) = Child(p, m)
    BY <1>1, <2>2, ChildValue, ChildFacts
  <2> HIDE DEF c
  <2>4. \A n \in 1..(Last(c) - 1) : n \in Nat \ {0} /\ n <= a
    BY <2>1, <2>3
  <2> QED
    BY <1>1, <2>1, <2>3, <2>4 DEF Room, a, c
<1>3. ASSUME p # <<>> PROVE Room(t, p)
  BY <1>1, <1>3 DEF Room, WellFormed
<1>4. ASSUME p # <<>>, Last(p) > 1
      PROVE  /\ Room(Without(t, p), Sibling(p, Last(p) - 1))
             /\ Front(Sibling(p, Last(p) - 1)) = Front(p)
  <2> DEFINE u == Without(t, p)
             l == Last(p) - 1
             b == Sibling(p, l)
  <2>1. /\ Last(p) \in Nat /\ l \in Nat \ {0} /\ Len(p) > 0 /\ Len(p) \in Nat
        /\ Last(p) = p[Len(p)]
    BY <1>1, <1>4, LastNumber
  <2> HIDE DEF l
  <2>2. /\ b \in Path /\ Len(b) = Len(p) /\ b[Len(p)] = l
        /\ \A i \in 1..Len(p) : i # Len(p) => b[i] = p[i]
    BY <1>1, <1>4, <2>1, SiblingPath
  <2> HIDE DEF b
  <2>3. b # <<>> /\ Last(b) = l
    BY <2>1, <2>2, PathFacts DEF Last
  <2>4. \A r : r \in DOMAIN u <=> r \in Path /\ Shift(r, p, 1) \in DOMAIN t
    BY <1>1, <1>4, WithoutView
  <2> HIDE DEF u
  <2>5. /\ Front(p) \in Path /\ Shift(Front(p), p, 1) = Front(p)
        /\ \A n \in 1..(Last(p) - 1) :
             /\ n \in Nat \ {0}
             /\ Sibling(p, n) \in Path
             /\ Shift(Sibling(p, n), p, 1) = Sibling(p, n)
    <3>1. 1 \in {-1, 1}
      OBVIOUS
    <3> QED
      BY <1>1, <1>4, <3>1, FrontPath, Stays, LastNumber, SiblingPath
  <2>6. /\ Front(p) \in DOMAIN t
        /\ \A n \in 1..(Last(p) - 1) : Sibling(p, n) \in DOMAIN t
    BY <1>1, <1>4 DEF WellFormed
  <2>7. Front(b) = Front(p)
    <3>1. /\ Front(p) \in Path /\ Len(Front(p)) = Len(p) - 1
          /\ \A i \in 1..(Len(p) - 1) : Front(p)[i] = p[i]
      BY <1>1, <1>4, FrontPath
    <3>2. /\ Front(b) \in Path /\ Len(Front(b)) = Len(b) - 1
          /\ \A i \in 1..(Len(b) - 1) : Front(b)[i] = b[i]
      BY <2>2, <2>3, FrontPath
    <3>3. \A i \in 1..(Len(p) - 1) : Front(b)[i] = Front(p)[i]
      BY <2>1, <2>2, <3>1, <3>2
    <3> QED
      BY <2>2, <3>1, <3>2, <3>3, PathEqual
  <2>8. ASSUME NEW n \in 1..(l - 1) PROVE Sibling(b, n) \in DOMAIN u
    <3>1. n \in 1..(Last(p) - 1) /\ n \in Nat \ {0}
      BY <2>1 DEF l
    <3>2. Sibling(b, n) = Sibling(p, n)
      <4> DEFINE x == Sibling(b, n)
                 y == Sibling(p, n)
      <4>1. /\ x \in Path /\ Len(x) = Len(b) /\ x[Len(b)] = n
            /\ \A i \in 1..Len(b) : i # Len(b) => x[i] = b[i]
        BY <2>2, <2>3, <3>1, SiblingPath
      <4>2. /\ y \in Path /\ Len(y) = Len(p) /\ y[Len(p)] = n
            /\ \A i \in 1..Len(p) : i # Len(p) => y[i] = p[i]
        BY <1>1, <1>4, <3>1, SiblingPath
      <4> HIDE DEF x, y
      <4>3. \A i \in 1..Len(p) : x[i] = y[i]
        BY <2>1, <2>2, <4>1, <4>2
      <4> QED
        BY <2>2, <4>1, <4>2, <4>3, PathEqual DEF x, y
    <3> QED
      BY <2>4, <2>5, <2>6, <3>1, <3>2
  <2>9. Front(b) \in DOMAIN u
    BY <2>4, <2>5, <2>6, <2>7
  <2> QED
    BY <2>2, <2>3, <2>7, <2>8, <2>9 DEF Room, b, l, u
<1> QED
  BY <1>1, <1>2, <1>3, <1>4

LEMMA SubtreeGrown ==
  ASSUME NEW t, Grown(t), NEW p \in DOMAIN t, p # <<>>
  PROVE  /\ Grown(Subtree(t, p))
         /\ \A s : s \in DOMAIN Subtree(t, p) <=>
                     s \in Path /\ p \o s \in DOMAIN t
         /\ \A s \in DOMAIN Subtree(t, p) : Subtree(t, p)[s] = t[p \o s]
<1> DEFINE u == Subtree(t, p)
<1>1. /\ Paths(DOMAIN t) /\ p \in Path /\ WellFormed(t)
      /\ DOMAIN t \subseteq Path
  BY DEF Grown, Rooted, Paths
<1>2. DOMAIN u = {Drop(p, q) : q \in {r \in DOMAIN t : IsPrefix(p, r)}}
  BY DEF Subtree, Drop
<1>3. \A s \in DOMAIN u : u[s] = t[p \o s]
  BY DEF Subtree
<1>4. Paths(DOMAIN u)
  BY <1>1, SubtreePaths
<1> HIDE DEF u
<1>5. ASSUME NEW s PROVE s \in DOMAIN u <=> s \in Path /\ p \o s \in DOMAIN t
  <2>1. ASSUME s \in DOMAIN u PROVE s \in Path /\ p \o s \in DOMAIN t
    <3>1. PICK q \in DOMAIN t : IsPrefix(p, q) /\ s = Drop(p, q)
      BY <1>2, <2>1
    <3>2. q = p \o s
      BY <1>1, <3>1, DropOver
    <3> QED
      BY <1>4, <2>1, <3>2 DEF Paths
  <2>2. ASSUME s \in Path, p \o s \in DOMAIN t PROVE s \in DOMAIN u
    BY <1>1, <1>2, <2>2, DropOver
  <2> QED
    BY <2>1, <2>2
<1>6. <<>> \in DOMAIN u
  <2>1. IsPrefix(p, p) /\ Drop(p, p) = <<>>
    BY <1>1, Stays
  <2> QED
    BY <1>2, <2>1
<1>7. ASSUME NEW s \in DOMAIN u, s # <<>>
      PROVE  /\ Front(s) \in DOMAIN u
             /\ \A n \in 1..(Last(s) - 1) : Sibling(s, n) \in DOMAIN u
  <2> DEFINE q == p \o s
  <2>1. s \in Path /\ q \in DOMAIN t
    BY <1>5
  <2>2. q \in Path /\ IsPrefix(p, q) /\ Drop(p, q) = s
    BY <1>1, <2>1, DropOver
  <2> HIDE DEF q
  <2>3. q # p
    BY <1>1, <1>7, <2>2, Stays
  <2>4. q # <<>>
    BY <1>1, <2>2, PrefixFacts, PathFacts
  <2>5. /\ Front(q) \in DOMAIN t
        /\ \A n \in 1..(Last(q) - 1) : Sibling(q, n) \in DOMAIN t
    BY <1>1, <2>1, <2>4 DEF WellFormed
  <2>6. /\ IsPrefix(p, Front(q)) /\ Drop(p, Front(q)) = Front(s)
        /\ Last(s) = Last(q)
    BY <1>1, <2>2, <2>3, <2>4, 1 \in Nat \ {0}, SiblingPrefix
  <2>7. ASSUME NEW n \in 1..(Last(q) - 1)
        PROVE  /\ IsPrefix(p, Sibling(q, n))
               /\ Drop(p, Sibling(q, n)) = Sibling(s, n)
    <3>1. n \in Nat \ {0}
      BY <2>2, <2>4, LastNumber
    <3> QED
      BY <1>1, <2>2, <2>3, <2>4, <3>1, SiblingPrefix
  <2>8. Front(s) \in DOMAIN u
    BY <1>2, <2>5, <2>6
  <2>9. \A n \in 1..(Last(s) - 1) : Sibling(s, n) \in DOMAIN u
    BY <1>2, <2>5, <2>6, <2>7
  <2> QED
    BY <2>8, <2>9
<1> QED
  BY <1>3, <1>4, <1>5, <1>6, <1>7 DEF Grown, Rooted, WellFormed, u

-----------------------------------------------------------------------------
(* What the editor shows. *)

Attribute == {"name", "condition", "ref"}

Headed(n) == n = [name |-> n.name, atts |-> n.atts, end |-> n.end]

Named(t) ==
  \A p \in DOMAIN t :
    t[p].name \in Heading /\ DOMAIN t[p].atts \subseteq Attribute

Outline(d) ==
  Named(d) /\ \A p \in DOMAIN d : Headed(d[p]) /\ d[p].end \in BOOLEAN

Ended(d, p) == d[p].end <=> Child(p, 1) \in DOMAIN d

Layout(d) == Grown(d) /\ Outline(d) /\ \A p \in DOMAIN d : Ended(d, p)

LEMMA ChildPrefix ==
  ASSUME NEW p \in Path, p # <<>>, NEW r \in Path
  PROVE  /\ ~IsPrefix(p, r) /\ IsPrefix(p, Child(r, 1)) => Child(r, 1) = p
         /\ IsPrefix(p, r) => /\ IsPrefix(p, Child(r, 1))
                              /\ Drop(p, Child(r, 1)) = Child(Drop(p, r), 1)
<1> DEFINE c == Child(r, 1)
           k == Len(r)
           l == Len(p)
<1>1. k \in Nat /\ l \in Nat /\ l > 0 /\ 1 \in Nat \ {0}
  BY PathFacts
<1>2. /\ c \in Path /\ Len(c) = k + 1 /\ c[k + 1] = 1
      /\ \A i \in 1..k : c[i] = r[i]
  BY <1>1, ChildValue
<1> HIDE DEF c
<1>3. ASSUME ~IsPrefix(p, r), IsPrefix(p, c) PROVE c = p
  <2>1. l <= k + 1 /\ \A i \in 1..l : p[i] = c[i]
    BY <1>2, <1>3, PrefixFacts
  <2>2. ~(l <= k /\ \A i \in 1..l : p[i] = r[i])
    BY <1>3, PrefixFacts
  <2>3. l = k + 1
    BY <1>1, <1>2, <2>1, <2>2
  <2> QED
    BY <1>2, <2>1, <2>3, PathEqual
<1>4. ASSUME IsPrefix(p, r)
      PROVE  IsPrefix(p, c) /\ Drop(p, c) = Child(Drop(p, r), 1)
  <2> DEFINE s == Drop(p, r)
  <2>1. l <= k /\ \A i \in 1..l : p[i] = r[i]
    BY <1>4, PrefixFacts
  <2>2. IsPrefix(p, c)
    BY <1>1, <1>2, <2>1, PrefixFacts
  <2>3. /\ s \in Path /\ Len(s) = k - l
        /\ \A i \in 1..(k - l) : s[i] = r[l + i]
    BY <1>4, DropPath
  <2> HIDE DEF s
  <2> DEFINE a == Drop(p, c)
             b == Child(s, 1)
  <2>4. /\ a \in Path /\ Len(a) = (k + 1) - l
        /\ \A i \in 1..((k + 1) - l) : a[i] = c[l + i]
    <3>1. /\ a \in Path /\ Len(a) = Len(c) - Len(p)
          /\ \A i \in 1..(Len(c) - Len(p)) : a[i] = c[Len(p) + i]
      BY <1>2, <2>2, DropPath
    <3> HIDE DEF a
    <3> QED
      BY <1>2, <3>1
  <2>5. /\ b \in Path /\ Len(b) = (k - l) + 1 /\ b[(k - l) + 1] = 1
        /\ \A i \in 1..(k - l) : b[i] = s[i]
    <3>1. /\ b \in Path /\ Len(b) = Len(s) + 1 /\ b[Len(s) + 1] = 1
          /\ \A i \in 1..Len(s) : b[i] = s[i]
      BY <1>1, <2>3, ChildValue
    <3> HIDE DEF b
    <3> QED
      BY <2>3, <3>1
  <2> HIDE DEF a, b
  <2>6. Len(a) = Len(b) /\ Len(a) = (k - l) + 1
    BY <1>1, <2>1, <2>4, <2>5
  <2>7. ASSUME NEW i \in 1..((k - l) + 1) PROVE a[i] = b[i]
    <3>1. CASE i = (k - l) + 1
      BY <1>1, <1>2, <2>1, <2>4, <2>5, <3>1
    <3>2. CASE i # (k - l) + 1
      <4>1. /\ i \in 1..(k - l) /\ i \in 1..((k + 1) - l)
            /\ l + i \in 1..k
        BY <1>1, <2>1, <3>2
      <4> QED
        BY <1>2, <2>3, <2>4, <2>5, <4>1
    <3> QED
      BY <3>1, <3>2
  <2> QED
    BY <2>2, <2>4, <2>5, <2>6, <2>7, PathEqual DEF a, b, s
<1> QED
  BY <1>3, <1>4 DEF c

LEMMA FirstSibling ==
  ASSUME NEW p \in Path, p # <<>>
  PROVE  /\ Child(Front(p), 1) \in Path
         /\ Last(p) = 1 => Child(Front(p), 1) = p
         /\ Last(p) # 1 => /\ 1 \in 1..(Last(p) - 1)
                           /\ Child(Front(p), 1) = Sibling(p, 1)
<1>1. /\ Front(p) \in Path /\ Len(Front(p)) = Len(p) - 1
      /\ \A i \in 1..(Len(p) - 1) : Front(p)[i] = p[i]
      /\ Last(p) = p[Len(p)] /\ Last(p) \in Nat \ {0}
      /\ Len(p) \in Nat /\ Len(p) > 0
  BY FrontPath, LastNumber
<1> DEFINE f == Front(p)
           c == Child(f, 1)
<1>2. /\ c \in Path /\ Len(c) = Len(p) /\ c[Len(p)] = 1
      /\ \A i \in 1..(Len(p) - 1) : c[i] = p[i]
  <2>1. /\ c \in Path /\ Len(c) = Len(f) + 1 /\ c[Len(f) + 1] = 1
        /\ \A i \in 1..Len(f) : c[i] = f[i]
    BY <1>1, 1 \in Nat \ {0}, ChildValue
  <2> HIDE DEF c
  <2>2. Len(f) + 1 = Len(p)
    BY <1>1
  <2> QED
    BY <1>1, <2>1, <2>2
<1> HIDE DEF c
<1>3. ASSUME Last(p) = 1 PROVE c = p
  <2>1. ASSUME NEW i \in 1..Len(p) PROVE c[i] = p[i]
    <3>1. CASE i = Len(p)
      BY <1>1, <1>2, <1>3, <3>1
    <3>2. CASE i # Len(p)
      <4>1. i \in 1..(Len(p) - 1)
        BY <1>1, <3>2
      <4> QED
        BY <1>2, <4>1
    <3> QED
      BY <3>1, <3>2
  <2> QED
    BY <1>2, <2>1, PathEqual
<1>4. ASSUME Last(p) # 1 PROVE 1 \in 1..(Last(p) - 1) /\ c = Sibling(p, 1)
  <2> DEFINE s == Sibling(p, 1)
  <2>1. /\ s \in Path /\ Len(s) = Len(p) /\ s[Len(p)] = 1
        /\ \A i \in 1..Len(p) : i # Len(p) => s[i] = p[i]
    BY 1 \in Nat \ {0}, SiblingPath
  <2> HIDE DEF s
  <2>2. \A i \in 1..Len(p) : c[i] = s[i]
    BY <1>1, <1>2, <2>1
  <2>3. c = s
    BY <1>2, <2>1, <2>2, PathEqual
  <2> QED
    BY <1>1, <1>4, <2>3 DEF s
<1> QED
  BY <1>2, <1>3, <1>4 DEF c

\* But for the parent of what is taken out or put in, "end" stays right.
LEMMA WithoutLayout ==
  ASSUME NEW t, Layout(t), NEW p \in DOMAIN t, p # <<>>
  PROVE  LET u == Without(t, p) IN
         /\ Grown(u) /\ Outline(u)
         /\ \A r \in DOMAIN u : r # Front(p) => Ended(u, r)
         /\ Front(p) \in DOMAIN u /\ u[Front(p)] = t[Front(p)]
         /\ u[Front(p)].end
         /\ Last(p) # 1 => Child(Front(p), 1) \in DOMAIN u
<1> DEFINE u == Without(t, p)
<1>1. /\ Paths(DOMAIN t) /\ p \in Path /\ DOMAIN t \subseteq Path
      /\ Grown(t) /\ WellFormed(t)
  BY DEF Layout, Grown, Rooted, Paths
<1>2. Grown(u)
  BY <1>1, WithoutGrown
<1>3. /\ \A r : r \in DOMAIN u <=> r \in Path /\ Shift(r, p, 1) \in DOMAIN t
      /\ \A r \in DOMAIN u : u[r] = t[Shift(r, p, 1)]
  BY <1>1, WithoutView
<1> HIDE DEF u
<1>4. Outline(u)
  BY <1>3 DEF Layout, Outline, Named
<1>5. ASSUME NEW r \in DOMAIN u, r # Front(p) PROVE Ended(u, r)
  <2> DEFINE c == Child(r, 1)
             s == Shift(r, p, 1)
  <2>1. r \in Path /\ s \in DOMAIN t /\ u[r] = t[s]
    BY <1>3
  <2>2. c \in Path /\ Front(c) = r
    BY <2>1, 1 \in Nat \ {0}, ChildValue, ChildFacts
  <2>3. Shift(c, p, 1) = Child(s, 1)
    BY <1>1, <1>5, <2>1, <2>2, MovedChild DEF Moves
  <2>4. t[s].end <=> Child(s, 1) \in DOMAIN t
    BY <2>1 DEF Layout, Ended
  <2> HIDE DEF s
  <2> QED
    BY <1>3, <2>1, <2>2, <2>3, <2>4 DEF Ended
<1>6. /\ Front(p) \in Path /\ Front(p) \in DOMAIN t
      /\ Shift(Front(p), p, 1) = Front(p)
  BY <1>1, 1 \in {-1, 1}, FrontPath, Stays DEF WellFormed
<1>7. Front(p) \in DOMAIN u /\ u[Front(p)] = t[Front(p)]
  BY <1>3, <1>6
<1>8. Child(Front(p), 1) \in DOMAIN t
  BY <1>1, FirstSibling DEF WellFormed
<1>9. t[Front(p)].end
  BY <1>6, <1>8 DEF Layout, Ended
<1>10. ASSUME Last(p) # 1 PROVE Child(Front(p), 1) \in DOMAIN u
  <2>1. /\ Child(Front(p), 1) \in Path
        /\ Shift(Child(Front(p), 1), p, 1) = Child(Front(p), 1)
    BY <1>1, <1>10, 1 \in {-1, 1}, FirstSibling, Stays
  <2> QED
    BY <1>3, <1>8, <2>1
<1> QED
  BY <1>2, <1>4, <1>5, <1>7, <1>9, <1>10 DEF u

LEMMA WithLayout ==
  ASSUME NEW t, Grown(t), Outline(t), NEW p, Room(t, p),
         \A r \in DOMAIN t : r # Front(p) => Ended(t, r),
         NEW sub, Layout(sub)
  PROVE  LET w == With(t, p, sub) IN
         /\ Grown(w) /\ Outline(w)
         /\ \A r \in DOMAIN w : r # Front(p) => Ended(w, r)
         /\ Front(p) \in DOMAIN w /\ w[Front(p)] = t[Front(p)]
         /\ Child(Front(p), 1) \in DOMAIN w
<1> DEFINE w == With(t, p, sub)
<1>1. /\ Paths(DOMAIN t) /\ p \in Path /\ p # <<>> /\ DOMAIN t \subseteq Path
      /\ Front(p) \in DOMAIN t
      /\ \A n \in 1..(Last(p) - 1) : Sibling(p, n) \in DOMAIN t
      /\ Paths(DOMAIN sub) /\ Grown(sub) /\ <<>> \in DOMAIN sub
      /\ DOMAIN sub \subseteq Path
  BY DEF Layout, Grown, Rooted, Paths, Room
<1>2. Grown(w)
  BY <1>1, WithGrown
<1>3. /\ \A r : r \in DOMAIN w <=>
                  /\ r \in Path
                  /\ IF IsPrefix(p, r) THEN Drop(p, r) \in DOMAIN sub
                     ELSE Shift(r, p, -1) \in DOMAIN t
      /\ \A r \in DOMAIN w : w[r] = IF IsPrefix(p, r) THEN sub[Drop(p, r)]
                                    ELSE t[Shift(r, p, -1)]
  BY <1>1, WithView
<1> HIDE DEF w
<1>4. Outline(w)
  <2>1. ASSUME NEW r \in DOMAIN w
        PROVE  \/ \E q \in DOMAIN t : w[r] = t[q]
               \/ \E s \in DOMAIN sub : w[r] = sub[s]
    BY <1>3
  <2>2. Outline(sub)
    BY DEF Layout
  <2> QED
    BY <2>1, <2>2 DEF Outline, Named
<1>5. ASSUME NEW r \in DOMAIN w, r # Front(p) PROVE Ended(w, r)
  <2> DEFINE c == Child(r, 1)
  <2>1. r \in Path /\ c \in Path /\ Front(c) = r
    BY <1>3, 1 \in Nat \ {0}, ChildValue, ChildFacts
  <2>2. CASE IsPrefix(p, r)
    <3>1. IsPrefix(p, c) /\ Drop(p, c) = Child(Drop(p, r), 1)
      BY <1>1, <2>1, <2>2, ChildPrefix
    <3>2. Drop(p, r) \in DOMAIN sub /\ w[r] = sub[Drop(p, r)]
      BY <1>3, <2>2
    <3>3. sub[Drop(p, r)].end <=> Child(Drop(p, r), 1) \in DOMAIN sub
      BY <3>2 DEF Layout, Ended
    <3>4. c \in DOMAIN w <=> Drop(p, c) \in DOMAIN sub
      BY <1>3, <2>1, <3>1
    <3> QED
      BY <3>1, <3>2, <3>3, <3>4 DEF Ended
  <2>3. CASE ~IsPrefix(p, r)
    <3> DEFINE s == Shift(r, p, -1)
    <3>1. ~IsPrefix(p, c)
      BY <1>1, <1>5, <2>1, <2>3, ChildPrefix
    <3>2. s \in DOMAIN t /\ w[r] = t[s]
      BY <1>3, <2>3
    <3>3. Shift(c, p, -1) = Child(s, 1)
      <4>1. Moves(p, r, -1) /\ Moves(p, c, -1) /\ ~(-1 = 1)
        BY <2>3, <3>1 DEF Moves
      <4> QED
        BY <1>1, <2>1, <4>1, MovedChild
    <3>4. s # Front(p)
      <4>1. Shift(s, p, 1) = r
        BY <1>1, <2>1, <2>3, ShiftBack
      <4>2. Shift(Front(p), p, 1) = Front(p)
        BY <1>1, 1 \in {-1, 1}, Stays
      <4> QED
        BY <1>5, <4>1, <4>2
    <3>5. t[s].end <=> Child(s, 1) \in DOMAIN t
      BY <3>2, <3>4 DEF Ended
    <3>6. c \in DOMAIN w <=> Shift(c, p, -1) \in DOMAIN t
      BY <1>3, <2>1, <3>1
    <3> HIDE DEF s
    <3> QED
      BY <3>2, <3>3, <3>5, <3>6 DEF Ended
  <2> QED
    BY <2>2, <2>3
<1>6. /\ Front(p) \in Path /\ ~IsPrefix(p, Front(p))
      /\ Shift(Front(p), p, -1) = Front(p)
  <2>1. -1 \in {-1, 1}
    OBVIOUS
  <2> QED
    BY <1>1, <2>1, FrontPath, Stays
<1>7. Front(p) \in DOMAIN w /\ w[Front(p)] = t[Front(p)]
  BY <1>1, <1>3, <1>6
<1>8. Child(Front(p), 1) \in DOMAIN w
  <2>1. CASE Last(p) = 1
    <3>1. Child(Front(p), 1) = p /\ IsPrefix(p, p) /\ Drop(p, p) = <<>>
      BY <1>1, <2>1, FirstSibling, Stays
    <3> QED
      BY <1>1, <1>3, <3>1
  <2>2. CASE Last(p) # 1
    <3>1. /\ 1 \in 1..(Last(p) - 1) /\ Child(Front(p), 1) = Sibling(p, 1)
          /\ Sibling(p, 1) \in Path
      BY <1>1, <2>2, FirstSibling
    <3>2. -1 \in {-1, 1}
      OBVIOUS
    <3>3. /\ ~IsPrefix(p, Sibling(p, 1))
          /\ Shift(Sibling(p, 1), p, -1) = Sibling(p, 1)
      BY <1>1, <3>1, <3>2, Stays
    <3> QED
      BY <1>1, <1>3, <3>1, <3>3
  <2> QED
    BY <2>1, <2>2
<1> QED
  BY <1>2, <1>4, <1>5, <1>7, <1>8 DEF w

LEMMA SubtreeLayout ==
  ASSUME NEW t, Layout(t), NEW p \in DOMAIN t, p # <<>>
  PROVE  Layout(Subtree(t, p))
<1> DEFINE u == Subtree(t, p)
<1>1. Grown(t) /\ p \in Path
  BY DEF Layout, Grown, Rooted, Paths
<1>2. /\ Grown(u)
      /\ \A s : s \in DOMAIN u <=> s \in Path /\ p \o s \in DOMAIN t
      /\ \A s \in DOMAIN u : u[s] = t[p \o s]
  BY <1>1, SubtreeGrown
<1> HIDE DEF u
<1>3. Outline(u)
  BY <1>2 DEF Layout, Outline, Named
<1>4. ASSUME NEW s \in DOMAIN u PROVE Ended(u, s)
  <2> DEFINE r == p \o s
             b == Child(s, 1)
  <2>1. /\ s \in Path /\ r \in DOMAIN t /\ u[s] = t[r] /\ b \in Path
    BY <1>2, 1 \in Nat \ {0}, ChildValue
  <2>2. r \in Path /\ IsPrefix(p, r) /\ Drop(p, r) = s
    BY <1>1, <2>1, DropOver
  <2> HIDE DEF r
  <2>3. IsPrefix(p, Child(r, 1)) /\ Drop(p, Child(r, 1)) = b
    BY <1>1, <2>2, ChildPrefix
  <2>4. Child(r, 1) \in Path
    BY <2>2, 1 \in Nat \ {0}, ChildValue
  <2> HIDE DEF b
  <2>5. Child(r, 1) = p \o b
    BY <1>1, <2>3, <2>4, DropOver
  <2>6. t[r].end <=> Child(r, 1) \in DOMAIN t
    BY <2>1 DEF Layout, Ended
  <2>7. b \in DOMAIN u <=> Child(r, 1) \in DOMAIN t
    BY <1>2, <2>1, <2>5
  <2> QED
    BY <2>1, <2>6, <2>7 DEF Ended, b
<1> QED
  BY <1>2, <1>3, <1>4 DEF Layout, u

\* A tree with all of its paths, names and numbers of attributes.
Whole(t) == Grown(t) /\ Named(t)

LEMMA ArityShown ==
  ASSUME NEW t, Grown(t), NEW p \in DOMAIN t
  PROVE  Arity(t, p) > 0 <=> Child(p, 1) \in DOMAIN t
<1>1. p \in Path /\ 1 \in Nat \ {0}
  BY DEF Grown, Rooted, Paths
<1>2. /\ Arity(t, p) \in Nat
      /\ Child(p, 1) \in DOMAIN t <=> 1 <= Arity(t, p)
  BY <1>1, CountsChildren
<1> QED
  BY <1>2

LEMMA RenderedLayout ==
  ASSUME NEW t, Whole(t)
  PROVE  Layout(Rendered(t))
<1> DEFINE d == Rendered(t)
<1>1. DOMAIN d = DOMAIN t
  BY DEF Rendered
<1>2. ASSUME NEW p \in DOMAIN t
      PROVE  /\ d[p] = [name |-> t[p].name, atts |-> t[p].atts,
                        end |-> Arity(t, p) > 0]
             /\ d[p].name = t[p].name /\ d[p].atts = t[p].atts
             /\ d[p].end = (Arity(t, p) > 0)
  BY DEF Rendered
<1> HIDE DEF d
<1>3. Grown(d)
  BY <1>1 DEF Whole, Grown, WellFormed
<1>4. ASSUME NEW p \in DOMAIN t
      PROVE  Headed(d[p]) /\ d[p].end \in BOOLEAN
  <2> DEFINE e == Arity(t, p) > 0
  <2>1. e \in BOOLEAN
    OBVIOUS
  <2> HIDE DEF e
  <2>2. d[p] = [name |-> t[p].name, atts |-> t[p].atts, end |-> e]
    BY <1>2 DEF e
  <2> QED
    BY <2>1, <2>2 DEF Headed
<1>5. Named(d)
  BY <1>1, <1>2 DEF Whole, Named
<1>6. Outline(d)
  BY <1>1, <1>4, <1>5 DEF Outline
<1>7. ASSUME NEW p \in DOMAIN d PROVE Ended(d, p)
  BY <1>1, <1>2, ArityShown DEF Ended, Whole
<1> QED
  BY <1>3, <1>6, <1>7 DEF Layout, d

LEMMA ToTreeWhole ==
  ASSUME NEW d, Layout(d)
  PROVE  Whole(ToTree(d))
<1>1. DOMAIN ToTree(d) = DOMAIN d
  BY DEF ToTree
<1>2. \A p \in DOMAIN d : /\ ToTree(d)[p].name = d[p].name
                          /\ ToTree(d)[p].atts = d[p].atts
  BY DEF ToTree
<1> QED
  BY <1>1, <1>2 DEF Layout, Outline, Named, Whole, Grown, WellFormed

\* A tree of one node has all of its paths.
LEMMA LeafGrown ==
  ASSUME NEW node
  PROVE  /\ Grown(Leaf(node)) /\ DOMAIN Leaf(node) = {<<>>}
         /\ Leaf(node)[<<>>] = node
<1>1. DOMAIN Leaf(node) = {<<>>} /\ Leaf(node)[<<>>] = node
  BY DEF Leaf
<1> QED
  BY <1>1, LeafPaths DEF Grown, Rooted, WellFormed

LEMMA NewHeadLayout == Layout(Leaf(NewHead("---")))
<1> DEFINE n == NewHead("---")
           t == Leaf(n)
<1>1. Grown(t) /\ DOMAIN t = {<<>>} /\ t[<<>>] = n
  BY LeafGrown
<1>2. n.name = "---" /\ n.atts = <<>> /\ n.end = FALSE /\ Headed(n)
  BY DEF NewHead, Headed
<1> HIDE DEF n, t
<1>3. Outline(t)
  <2>1. n.name \in Heading /\ DOMAIN n.atts \subseteq Attribute
    BY <1>2 DEF Heading
  <2>2. Headed(n) /\ n.end \in BOOLEAN
    BY <1>2
  <2> QED
    BY <1>1, <2>1, <2>2 DEF Outline, Named
<1>4. Child(<<>>, 1) # <<>>
  <2>1. <<>> \in Path /\ 1 \in Nat \ {0}
    BY EmptySeq DEF Path
  <2> QED
    BY <2>1, ChildValue
<1>5. Ended(t, <<>>)
  <2>1. Child(<<>>, 1) \notin DOMAIN t
    BY <1>1, <1>4
  <2>2. t[<<>>].end = FALSE
    BY <1>1, <1>2
  <2> QED
    BY <2>1, <2>2 DEF Ended
<1> QED
  BY <1>1, <1>3, <1>5 DEF Layout, t, n

-----------------------------------------------------------------------------
(* What the canvas draws has all of its paths. *)

LEMMA IdentifiedWhole ==
  ASSUME NEW t, Whole(t)
  PROVE  Whole(Identified(t))
<1>1. CASE t[<<>>].expid # None
  BY <1>1 DEF Identified
<1>2. CASE t[<<>>].expid = None
  <2> DEFINE u == Identified(t)
  <2>1. u = [p \in DOMAIN t |-> [name |-> t[p].name, atts |-> t[p].atts,
                                 expid |-> p]]
    BY <1>2 DEF Identified
  <2> HIDE DEF u
  <2>2. /\ DOMAIN u = DOMAIN t
        /\ \A p \in DOMAIN t : u[p].name = t[p].name /\ u[p].atts = t[p].atts
    BY <2>1
  <2> QED
    BY <2>2 DEF Named, Whole, Grown, WellFormed, u
<1> QED
  BY <1>1, <1>2

LEMMA PutFacts ==
  ASSUME NEW atts, NEW key, NEW value
  PROVE  DOMAIN Put(atts, key, value) = {key} \union DOMAIN atts
BY DEF Put

LEMMA ConditionWhole ==
  ASSUME NEW t, Tree(t), Whole(t), NEW p, NEW c \in DOMAIN t, c # <<>>,
         NEW a, DOMAIN a \subseteq Attribute
  PROVE  LET u == [Without(t, c) EXCEPT ![p].atts = a] IN
         Tree(u) /\ Whole(u)
<1> DEFINE v == Without(t, c)
           u == [v EXCEPT ![p].atts = a]
<1>1. Tree(u)
  BY ConditionTaken
<1>2. Grown(v)
  BY WithoutGrown DEF Whole
<1>3. \A q \in DOMAIN v : \E r \in DOMAIN t : v[q] = t[r]
  BY WithoutFacts DEF Tree, From
<1> HIDE DEF v
<1>4. DOMAIN u = DOMAIN v
  OBVIOUS
<1>5. ASSUME NEW q \in DOMAIN v
      PROVE  u[q].name \in Heading /\ DOMAIN u[q].atts \subseteq Attribute
  <2>1. PICK r \in DOMAIN t : v[q] = t[r]
    BY <1>3
  <2>2. /\ Node(v[q]) /\ v[q].name \in Heading
        /\ DOMAIN v[q].atts \subseteq Attribute
    BY <2>1 DEF Tree, Nodes, Whole, Named
  <2>3. CASE q # p
    BY <2>2, <2>3
  <2>4. CASE q = p
    <3>1. u[q] = [v[q] EXCEPT !.atts = a]
      BY <2>4
    <3> DEFINE n == v[q]
               m == [n EXCEPT !.atts = a]
    <3> HIDE DEF n
    <3>2. Node(n)
      BY <2>2 DEF n
    <3>3. m.name = n.name /\ m.atts = a
      BY <3>2 DEF Node
    <3>4. u[q] = m
      BY <3>1 DEF n
    <3> HIDE DEF m, u
    <3> QED
      BY <2>2, <3>3, <3>4 DEF n
  <2> QED
    BY <2>3, <2>4
<1> HIDE DEF u
<1>6. Grown(u) /\ Named(u)
  BY <1>2, <1>4, <1>5 DEF Grown, WellFormed, Named
<1> QED
  BY <1>1, <1>6 DEF Whole, u, v

LEMMA GhostWhole ==
  ASSUME NEW t, Whole(t), NEW p, Room(t, p)
  PROVE  Whole(With(t, p, Ghost))
<1> DEFINE u == With(t, p, Ghost)
<1>1. /\ Grown(Ghost) /\ DOMAIN Ghost = {<<>>}
      /\ Ghost[<<>>] = [name |-> "_", atts |-> <<>>, expid |-> None]
  BY LeafGrown DEF Ghost
<1>2. Grown(u)
  BY <1>1, WithGrown DEF Whole
<1>3. \A q \in DOMAIN u : \/ \E r \in DOMAIN t : u[q] = t[r]
                          \/ \E s \in DOMAIN Ghost : u[q] = Ghost[s]
  <2>1. /\ Rooted(DOMAIN t) /\ Rooted(DOMAIN Ghost) /\ p \in Path /\ p # <<>>
    BY <1>1 DEF Whole, Grown, Room
  <2>2. Paths(DOMAIN Ghost)
    BY <2>1 DEF Rooted
  <2> QED
    BY <2>1, <2>2, WithFacts
<1> HIDE DEF u
<1>4. Ghost[<<>>].name = "_" /\ Ghost[<<>>].atts = <<>>
  <2> DEFINE n == [name |-> "_", atts |-> <<>>, expid |-> None]
  <2>1. n.name = "_" /\ n.atts = <<>>
    OBVIOUS
  <2>2. Ghost[<<>>] = n
    BY <1>1
  <2> HIDE DEF n
  <2> QED
    BY <2>1, <2>2
<1>5. "_" \in Heading /\ DOMAIN <<>> \subseteq Attribute
  BY DEF Heading
<1>6. \A q \in DOMAIN u :
        u[q].name \in Heading /\ DOMAIN u[q].atts \subseteq Attribute
  BY <1>1, <1>3, <1>4, <1>5 DEF Whole, Named
<1> QED
  BY <1>2, <1>6 DEF Whole, Named, u

LEMMA AdjustWhole ==
  ASSUME NEW t, Tree(t), Whole(t), NEW p \in DOMAIN t
  PROVE  Whole(Adjust(t, p))
<1> DEFINE c == Child(p, 1)
           u == IF c \notin DOMAIN t THEN t
                ELSE [Without(t, c) EXCEPT ![p].atts =
                        Put(t[c].atts, "condition", t[c].name)]
           g == Child(p, Arity(u, p) + 1)
<1>1. Adjust(t, p) = IF Arity(u, p) < 2 THEN With(u, g, Ghost) ELSE u
  BY DEF Adjust
<1>2. p \in Path /\ 1 \in Nat \ {0}
  BY DEF Tree, Rooted, Paths
<1>3. c \in Path /\ c # <<>> /\ Front(c) = p
  BY <1>2, ChildValue, ChildFacts
<1>4. Whole(u) /\ p \in DOMAIN u
  <2>1. CASE c \notin DOMAIN t
    BY <2>1
  <2>2. CASE c \in DOMAIN t
    <3> DEFINE a == Put(t[c].atts, "condition", t[c].name)
               w == [Without(t, c) EXCEPT ![p].atts = a]
    <3>1. u = w
      BY <2>2
    <3>2. DOMAIN a \subseteq Attribute
      <4>1. DOMAIN t[c].atts \subseteq Attribute /\ "condition" \in Attribute
        BY <2>2 DEF Whole, Named, Attribute
      <4> QED
        BY <4>1, PutFacts
    <3>3. p \in DOMAIN Without(t, c)
      <4>1. /\ Paths(DOMAIN t) /\ c \in Path
            /\ Shift(Front(c), c, 1) = Front(c) /\ ~IsPrefix(c, Front(c))
        BY <1>3, 1 \in {-1, 1}, Stays DEF Tree, Rooted
      <4>2. \A r : r \in DOMAIN Without(t, c) <=>
                     r \in Path /\ Shift(r, c, 1) \in DOMAIN t
        BY <1>3, <2>2, <4>1, WithoutView
      <4> QED
        BY <1>2, <1>3, <4>1, <4>2
    <3>4. DOMAIN w = DOMAIN Without(t, c)
      OBVIOUS
    <3> HIDE DEF a, u, c
    <3>5. Whole(w)
      BY <1>3, <2>2, <3>2, ConditionWhole
    <3> QED
      BY <3>1, <3>3, <3>4, <3>5
  <2> QED
    BY <2>1, <2>2
<1> HIDE DEF u
<1>5. Room(u, g)
  BY <1>4, Rooms DEF Whole
<1> HIDE DEF g
<1>6. Whole(With(u, g, Ghost))
  BY <1>4, <1>5, GhostWhole
<1> QED
  BY <1>1, <1>4, <1>6

LEMMA ReferringWhole ==
  ASSUME NEW t, Tree(t), Whole(t), NEW shown
  PROVE  Whole(Referring(t, shown))
<1> DEFINE u == Referring(t, shown)
<1>1. DOMAIN u = DOMAIN t
  BY DEF Referring
<1>2. ASSUME NEW q \in DOMAIN t
      PROVE  u[q].name \in Heading /\ DOMAIN u[q].atts \subseteq Attribute
  <2> DEFINE n == t[q]
             a == Put(n.atts, "ref", Heads(Subtree(t, Child(q, 1))))
             m == [n EXCEPT !.atts = a]
  <2>1. /\ Node(n) /\ n.name \in Heading /\ DOMAIN n.atts \subseteq Attribute
        /\ "ref" \in Attribute
    BY DEF Tree, Nodes, Whole, Named, Attribute
  <2>2. u[q] = m \/ u[q] = n
    BY DEF Referring
  <2>3. DOMAIN a \subseteq Attribute
    BY <2>1, PutFacts
  <2> HIDE DEF n, a, u
  <2>4. m.name = n.name /\ m.atts = a
    BY <2>1 DEF Node
  <2> QED
    BY <2>1, <2>2, <2>3, <2>4
<1> HIDE DEF u
<1> QED
  BY <1>1, <1>2 DEF Whole, Grown, WellFormed, Named, u

LEMMA DrawnWhole ==
  ASSUME NEW o, Shared(o), Whole(o.nodes), NEW mode
  PROVE  Whole(Drawn(o, mode).nodes)
<1> DEFINE t == Identified(o.nodes)
           ifs == {p \in Shown(t, mode.hide) : t[p].name = "if"}
           p == CHOOSE p \in ifs : TRUE
           a == IF ifs = {} \/ o.adjusted THEN t ELSE Adjust(t, p)
<1>1. Drawn(o, mode).nodes = Referring(a, Shown(a, mode.hide))
  BY DEF Drawn
<1>2. Tree(t) /\ Whole(t)
  BY IdentifiedFacts, IdentifiedWhole DEF Shared
<1>3. ifs \subseteq DOMAIN t
  BY DEF Shown
<1> HIDE DEF t, ifs
<1>4. Tree(a) /\ Whole(a)
  <2>1. CASE ifs = {} \/ o.adjusted
    BY <1>2, <2>1
  <2>2. CASE ~(ifs = {} \/ o.adjusted)
    <3>1. p \in DOMAIN t /\ a = Adjust(t, p)
      BY <1>3, <2>2
    <3> HIDE DEF p, a
    <3> QED
      BY <1>2, <3>1, AdjustFacts, AdjustWhole
  <2> QED
    BY <2>1, <2>2
<1> HIDE DEF a
<1> QED
  BY <1>1, <1>4, ReferringWhole

-----------------------------------------------------------------------------
(* The editor's changes keep the layout of what is shown. *)

LEMMA EndSet ==
  ASSUME NEW w, Grown(w), Outline(w), NEW p \in DOMAIN w,
         \A r \in DOMAIN w : r # p => Ended(w, r),
         NEW e \in BOOLEAN, e <=> Child(p, 1) \in DOMAIN w
  PROVE  Layout([w EXCEPT ![p].end = e])
<1> DEFINE d == [w EXCEPT ![p].end = e]
<1>1. DOMAIN d = DOMAIN w
  OBVIOUS
<1>2. ASSUME NEW r \in DOMAIN w
      PROVE  /\ d[r].name = w[r].name /\ d[r].atts = w[r].atts
             /\ Headed(d[r]) /\ d[r].end \in BOOLEAN /\ Ended(d, r)
  <2>1. Headed(w[r]) /\ w[r].end \in BOOLEAN
    BY DEF Outline
  <2>2. CASE r # p
    <3>1. d[r] = w[r] /\ Ended(w, r)
      BY <2>2
    <3> HIDE DEF d
    <3> QED
      BY <1>1, <2>1, <3>1 DEF Ended
  <2>3. CASE r = p
    <3> DEFINE n == w[r]
               m == [n EXCEPT !.end = e]
    <3>1. d[r] = m
      BY <2>3
    <3> HIDE DEF d, n
    <3>2. n = [name |-> n.name, atts |-> n.atts, end |-> n.end]
      BY <2>1 DEF Headed, n
    <3>3. m = [name |-> n.name, atts |-> n.atts, end |-> e]
      BY <3>2
    <3> HIDE DEF m
    <3>4. m.name = n.name /\ m.atts = n.atts /\ m.end = e /\ Headed(m)
      BY <3>3 DEF Headed
    <3>5. Ended(d, r)
      BY <1>1, <2>3, <3>1, <3>4 DEF Ended
    <3> QED
      BY <3>1, <3>4, <3>5 DEF n
  <2> QED
    BY <2>2, <2>3
<1> HIDE DEF d
<1> QED
  BY <1>1, <1>2
  DEF Layout, Outline, Named, Grown, WellFormed, d

LEMMA AddLayout ==
  ASSUME NEW t, Layout(t), NEW p \in DOMAIN t
  PROVE  Layout([With(t, Child(p, Arity(t, p) + 1), Leaf(NewHead("---")))
                   EXCEPT ![p].end = TRUE])
<1> DEFINE c == Child(p, Arity(t, p) + 1)
           w == With(t, c, Leaf(NewHead("---")))
<1>1. p \in Path /\ Room(t, c) /\ Front(c) = p
  <2>1. Grown(t)
    BY DEF Layout
  <2>2. p \in Path /\ Room(t, c)
    BY <2>1, Rooms
  <2>3. Arity(t, p) + 1 \in Nat \ {0}
    <3>1. Arity(t, p) \in Nat
      BY <2>1, <2>2, CountsChildren
    <3> QED
      BY <3>1
  <2> QED
    BY <2>2, <2>3, ChildFacts
<1> HIDE DEF c
<1>2. /\ Grown(w) /\ Outline(w)
      /\ \A r \in DOMAIN w : r # p => Ended(w, r)
      /\ p \in DOMAIN w /\ Child(p, 1) \in DOMAIN w
  <2>1. /\ Grown(t) /\ Outline(t) /\ \A r \in DOMAIN t : Ended(t, r)
        /\ Layout(Leaf(NewHead("---")))
    BY NewHeadLayout DEF Layout
  <2> DEFINE sub == Leaf(NewHead("---"))
  <2> HIDE DEF sub
  <2>2. LET x == With(t, c, sub) IN
        /\ Grown(x) /\ Outline(x)
        /\ \A r \in DOMAIN x : r # Front(c) => Ended(x, r)
        /\ Front(c) \in DOMAIN x /\ x[Front(c)] = t[Front(c)]
        /\ Child(Front(c), 1) \in DOMAIN x
    BY <1>1, <2>1, WithLayout DEF sub
  <2> QED
    BY <1>1, <2>2 DEF sub
<1> HIDE DEF w
<1>3. Layout([w EXCEPT ![p].end = TRUE])
  <2> DEFINE e == TRUE
  <2>1. e \in BOOLEAN /\ (e <=> Child(p, 1) \in DOMAIN w)
    BY <1>2
  <2> HIDE DEF e
  <2>2. Layout([w EXCEPT ![p].end = e])
    BY <1>2, <2>1, EndSet
  <2> QED
    BY <2>2 DEF e
<1> QED
  BY <1>3 DEF c, w

LEMMA RemoveLayout ==
  ASSUME NEW t, Layout(t), NEW p \in DOMAIN t, p # <<>>
  PROVE  LET u == Without(t, p) IN
         Layout([u EXCEPT ![Front(p)].end = @ /\ Arity(u, Front(p)) > 0])
<1> DEFINE u == Without(t, p)
           f == Front(p)
           e == u[f].end /\ Arity(u, f) > 0
           d == [u EXCEPT ![f].end = @ /\ Arity(u, f) > 0]
<1>1. /\ Grown(u) /\ Outline(u)
      /\ \A r \in DOMAIN u : r # f => Ended(u, r)
      /\ f \in DOMAIN u /\ u[f].end
  BY WithoutLayout
<1> HIDE DEF u, f
<1>2. d = [u EXCEPT ![f].end = e]
  OBVIOUS
<1>3. e \in BOOLEAN /\ (e <=> Child(f, 1) \in DOMAIN u)
  BY <1>1, ArityShown
<1> HIDE DEF e
<1>4. Layout([u EXCEPT ![f].end = e])
  BY <1>1, <1>3, EndSet
<1> QED
  BY <1>2, <1>4 DEF u, f

LEMMA MoveLayout ==
  ASSUME NEW t, Layout(t), NEW p \in DOMAIN t, p # <<>>, Last(p) > 1
  PROVE  Layout(With(Without(t, p), Sibling(p, Last(p) - 1), Subtree(t, p)))
<1> DEFINE u == Without(t, p)
           f == Front(p)
           b == Sibling(p, Last(p) - 1)
           sub == Subtree(t, p)
           d == With(u, b, sub)
<1>1. /\ Grown(u) /\ Outline(u)
      /\ \A r \in DOMAIN u : r # f => Ended(u, r)
      /\ f \in DOMAIN u /\ u[f].end
  BY WithoutLayout
<1>2. Room(u, b) /\ Front(b) = f
  BY Rooms DEF Layout
<1>3. Layout(sub)
  BY SubtreeLayout
<1> HIDE DEF u, f, b, sub
<1>4. /\ Grown(d) /\ Outline(d)
      /\ \A r \in DOMAIN d : r # f => Ended(d, r)
      /\ f \in DOMAIN d /\ d[f] = u[f] /\ Child(f, 1) \in DOMAIN d
  <2>1. LET w == With(u, b, sub) IN
        /\ Grown(w) /\ Outline(w)
        /\ \A r \in DOMAIN w : r # Front(b) => Ended(w, r)
        /\ Front(b) \in DOMAIN w /\ w[Front(b)] = u[Front(b)]
        /\ Child(Front(b), 1) \in DOMAIN w
    BY <1>1, <1>2, <1>3, WithLayout
  <2> QED
    BY <1>2, <2>1
<1> HIDE DEF d
<1>5. Ended(d, f)
  BY <1>1, <1>4 DEF Ended
<1> QED
  BY <1>4, <1>5 DEF Layout, u, f, b, sub, d

LEMMA InsertLayout ==
  ASSUME NEW t, Layout(t), NEW p \in DOMAIN t, p # <<>>,
         NEW sub, Layout(sub)
  PROVE  Layout(With(t, p, sub))
<1> DEFINE f == Front(p)
           d == With(t, p, sub)
<1>1. t[f].end
  <2> DEFINE u == Without(t, p)
  <2>1. u[f] = t[f] /\ u[f].end
    BY WithoutLayout
  <2> QED
    BY <2>1
<1>2. /\ Grown(t) /\ Outline(t) /\ Room(t, p)
      /\ \A r \in DOMAIN t : Ended(t, r)
  BY Rooms DEF Layout
<1>3. /\ Grown(d) /\ Outline(d)
      /\ \A r \in DOMAIN d : r # f => Ended(d, r)
      /\ f \in DOMAIN d /\ d[f] = t[f] /\ Child(f, 1) \in DOMAIN d
  BY <1>2, WithLayout
<1> HIDE DEF f, d
<1>4. Ended(d, f)
  BY <1>1, <1>3 DEF Ended
<1> QED
  BY <1>3, <1>4 DEF Layout, d

LEMMA EditLayout ==
  ASSUME NEW t, Layout(t), NEW p \in DOMAIN t, NEW name \in Heading
  PROVE  Layout([t EXCEPT ![p].name = name])
<1> DEFINE d == [t EXCEPT ![p].name = name]
<1>1. DOMAIN d = DOMAIN t
  OBVIOUS
<1>2. ASSUME NEW r \in DOMAIN t
      PROVE  /\ d[r].name \in Heading /\ DOMAIN d[r].atts \subseteq Attribute
             /\ Headed(d[r]) /\ d[r].end = t[r].end
  <2>1. /\ Headed(t[r]) /\ t[r].name \in Heading
        /\ DOMAIN t[r].atts \subseteq Attribute
    BY DEF Layout, Outline, Named
  <2>2. CASE r # p
    BY <2>1, <2>2
  <2>3. CASE r = p
    <3> DEFINE n == t[r]
               m == [n EXCEPT !.name = name]
    <3>1. d[r] = m
      BY <2>3
    <3> HIDE DEF d, n
    <3>2. n = [name |-> n.name, atts |-> n.atts, end |-> n.end]
      BY <2>1 DEF Headed, n
    <3>3. m = [name |-> name, atts |-> n.atts, end |-> n.end]
      BY <3>2
    <3> HIDE DEF m
    <3>4. m.name = name /\ m.atts = n.atts /\ m.end = n.end /\ Headed(m)
      BY <3>3 DEF Headed
    <3> QED
      BY <2>1, <3>1, <3>4 DEF n
  <2> QED
    BY <2>2, <2>3
<1> HIDE DEF d
<1>3. Outline(d)
  BY <1>1, <1>2 DEF Layout, Outline, Named
<1>4. \A r \in DOMAIN d : Ended(d, r)
  BY <1>1, <1>2 DEF Layout, Ended
<1> QED
  BY <1>1, <1>3, <1>4 DEF Layout, Grown, WellFormed, d

-----------------------------------------------------------------------------
(* The type of the editor. *)

EditorTyped ==
  /\ Layout(dom) /\ (clipboard # <<>> => Whole(clipboard))
  /\ Whole(current.nodes)
  /\ \A i \in DOMAIN undoStack : Whole(undoStack[i].nodes)
  /\ canvas \in Mode /\ changes \in 0..MaxChanges

LEMMA FlowWhole ==
  ASSUME NEW t \in Flows
  PROVE  Whole(t) /\ Tree(t)
<1>1. Tree(t) /\ Rooted(DOMAIN t) /\ WellFormed(t)
  BY FlowTree, FlowsAssumption DEF Tree
<1>2. ASSUME NEW p \in DOMAIN t
      PROVE  t[p].name \in Heading /\ DOMAIN t[p].atts \subseteq Attribute
  <2>1. DOMAIN t[p].atts \subseteq {"name"}
    BY FlowsAssumption
  <2> DEFINE S(u) == {u[q].name : q \in DOMAIN u}
  <2>2. t[p].name \in S(t) /\ S(t) \in {S(u) : u \in Flows}
    OBVIOUS
  <2>3. t[p].name \in UNION {S(u) : u \in Flows}
    BY <2>2
  <2> QED
    BY <2>1, <2>3 DEF Attribute, Heading
<1> QED
  BY <1>1, <1>2 DEF Whole, Grown, Named

LEMMA TypedInit == EditorInit => EditorTyped
<1> SUFFICES ASSUME EditorInit PROVE EditorTyped
  OBVIOUS
<1>1. /\ canvas = [hide |-> FALSE, wide |-> FALSE]
      /\ undoStack = <<>> /\ clipboard = <<>> /\ changes = 0
  BY DEF EditorInit
<1>2. PICK t \in Flows : /\ dom = Rendered(t)
                        /\ current = Drawn(New(t), canvas)
  BY DEF EditorInit
<1>3. Layout(dom)
  BY <1>2, FlowWhole, RenderedLayout
<1>4. Whole(current.nodes)
  <2>1. Shared(New(t)) /\ New(t).nodes = t
    BY FlowWhole, NewShared
  <2> QED
    BY <1>2, <2>1, FlowWhole, DrawnWhole
<1>5. canvas \in Mode
  BY <1>1 DEF Mode
<1>6. changes \in 0..MaxChanges
  BY <1>1, BoundsAssumption
<1>7. DOMAIN undoStack = {}
  BY <1>1
<1> QED
  BY <1>1, <1>3, <1>4, <1>5, <1>6, <1>7 DEF EditorTyped

LEMMA TypedChange ==
  ASSUME EditorInv, EditorTyped, NEW d, Layout(d), Change(d),
         clipboard' # <<>> => Whole(clipboard')
  PROVE  EditorTyped'
<1>1. /\ changes < MaxChanges /\ changes' = changes + 1 /\ dom' = d
      /\ undoStack' = Append(undoStack, current)
      /\ current' = Drawn(New(ToTree(d)), canvas) /\ canvas' = canvas
  BY DEF Change, Pushed
<1>2. Whole(current'.nodes)
  <2> DEFINE t == ToTree(d)
             n == New(t)
  <2>1. Whole(t) /\ Tree(t)
    BY ToTreeWhole, ToTreeFacts DEF Layout, Grown
  <2> HIDE DEF t
  <2>2. Shared(n) /\ n.nodes = t
    BY <2>1, NewShared
  <2> HIDE DEF n
  <2>3. Whole(Drawn(n, canvas).nodes)
    BY <2>1, <2>2, DrawnWhole
  <2> QED
    BY <1>1, <2>3 DEF n, t
<1>3. \A i \in DOMAIN undoStack' : Whole(undoStack'[i].nodes)
  <2> DEFINE n == Len(undoStack)
  <2>1. n \in Nat /\ DOMAIN undoStack = 1..n
    BY SeqFacts DEF EditorInv
  <2>2. /\ DOMAIN undoStack' = 1..(n + 1)
        /\ \A i \in 1..n : undoStack'[i] = undoStack[i]
        /\ undoStack'[n + 1] = current
    BY <1>1, AppendSeq DEF EditorInv
  <2> HIDE DEF n
  <2>3. \A i \in 1..n : Whole(undoStack[i].nodes)
    BY <2>1 DEF EditorTyped
  <2>4. Whole(current.nodes)
    BY DEF EditorTyped
  <2>5. \A i \in 1..(n + 1) : i \in 1..n \/ i = n + 1
    BY <2>1
  <2> QED
    BY <2>2, <2>3, <2>4, <2>5
<1>4. changes' \in 0..MaxChanges
  BY <1>1, BoundsAssumption DEF EditorTyped
<1> QED
  BY <1>1, <1>2, <1>3, <1>4 DEF EditorTyped

LEMMA TypedUndo == EditorInv /\ EditorTyped /\ Undo => EditorTyped'
<1> SUFFICES ASSUME EditorInv, EditorTyped, Undo PROVE EditorTyped'
  OBVIOUS
<1> DEFINE o == Last(undoStack)
           n == Len(undoStack)
<1>1. /\ undoStack # <<>> /\ dom' = Rendered(o.nodes)
      /\ current' = Drawn(o, canvas) /\ undoStack' = Front(undoStack)
      /\ UNCHANGED <<clipboard, canvas, changes>>
  BY DEF Undo
<1>2. /\ n \in Nat /\ n > 0 /\ DOMAIN undoStack = 1..n /\ o = undoStack[n]
      /\ DOMAIN undoStack' = 1..(n - 1)
      /\ \A i \in 1..(n - 1) : undoStack'[i] = undoStack[i]
  BY <1>1, SeqFacts, FrontSeq DEF EditorInv
<1>3. Shared(o) /\ Whole(o.nodes)
  BY <1>2 DEF EditorInv, EditorTyped
<1> HIDE DEF o, n
<1>4. Layout(dom') /\ Whole(current'.nodes)
  BY <1>1, <1>3, RenderedLayout, DrawnWhole
<1>5. \A i \in DOMAIN undoStack' : Whole(undoStack'[i].nodes)
  BY <1>2 DEF EditorTyped
<1> QED
  BY <1>1, <1>4, <1>5 DEF EditorTyped

LEMMA TypedToggle ==
  ASSUME EditorInv, EditorTyped, NEW f \in {"hide", "wide"}, Toggle(f)
  PROVE  EditorTyped'
<1> DEFINE o == [Cleared(current) EXCEPT !.missed = FALSE]
<1>1. /\ canvas' = [canvas EXCEPT ![f] = ~@] /\ current' = Drawn(o, canvas')
      /\ undoStack' =
           [i \in DOMAIN undoStack |-> [undoStack[i] EXCEPT !.missed = TRUE]]
      /\ UNCHANGED <<dom, clipboard, changes>>
  BY DEF Toggle
<1>2. Shared(o) /\ o.nodes = current.nodes
  <2> DEFINE c == Cleared(current)
  <2>1. Shared(c) /\ c.nodes = current.nodes
    BY SharedExcept DEF EditorInv
  <2> HIDE DEF c
  <2>2. LET e == [c EXCEPT !.missed = FALSE] IN Shared(e) /\ e.nodes = c.nodes
    BY <2>1, SharedExcept
  <2> QED
    BY <2>1, <2>2 DEF c
<1> HIDE DEF o
<1>3. Whole(current'.nodes)
  BY <1>1, <1>2, DrawnWhole DEF EditorTyped
<1>4. ASSUME NEW i \in DOMAIN undoStack
      PROVE  Whole(undoStack'[i].nodes)
  <2> DEFINE s == undoStack[i]
             e == [s EXCEPT !.missed = TRUE]
  <2>1. undoStack'[i] = e
    BY <1>1
  <2>2. Shared(s) /\ Whole(s.nodes)
    BY DEF EditorInv, EditorTyped
  <2> HIDE DEF s
  <2>3. e.nodes = s.nodes
    BY <2>2, SharedExcept
  <2> HIDE DEF e
  <2> QED
    BY <2>1, <2>2, <2>3
<1>5. DOMAIN undoStack' = DOMAIN undoStack
  BY <1>1
<1>6. canvas' \in Mode
  BY <1>1 DEF EditorTyped, Mode
<1> QED
  BY <1>1, <1>3, <1>4, <1>5, <1>6 DEF EditorTyped

LEMMA TypedNext ==
  EditorInv /\ EditorTyped /\ [EditorNext]_editorVars => EditorTyped'
<1> SUFFICES ASSUME EditorInv, EditorTyped, [EditorNext]_editorVars
             PROVE  EditorTyped'
  OBVIOUS
<1>1. Layout(dom) /\ (clipboard # <<>> => Whole(clipboard))
  BY DEF EditorTyped
<1>2. ASSUME NEW p \in DOMAIN dom, AddExpression(p) PROVE EditorTyped'
  <2> DEFINE d == [With(dom, Child(p, Arity(dom, p) + 1), Leaf(NewHead("---")))
                     EXCEPT ![p].end = TRUE]
  <2>1. Change(d) /\ clipboard' = clipboard
    BY <1>2 DEF AddExpression
  <2>2. Layout(d)
    BY <1>1, AddLayout
  <2> HIDE DEF d
  <2> QED
    BY <1>1, <2>1, <2>2, TypedChange
<1>3. ASSUME NEW p \in DOMAIN dom, RemoveExpression(p) PROVE EditorTyped'
  <2> DEFINE u == Without(dom, p)
             d == [u EXCEPT ![Front(p)].end = @ /\ Arity(u, Front(p)) > 0]
  <2>1. p # <<>> /\ Change(d) /\ clipboard' = ToTree(Subtree(dom, p))
    BY <1>3 DEF RemoveExpression, HasButtons
  <2>2. Layout(d)
    BY <1>1, <2>1, RemoveLayout
  <2>3. Whole(clipboard')
    BY <1>1, <2>1, SubtreeLayout, ToTreeWhole
  <2> HIDE DEF d
  <2> QED
    BY <2>1, <2>2, <2>3, TypedChange
<1>4. ASSUME NEW p \in DOMAIN dom, MoveExpression(p) PROVE EditorTyped'
  <2> DEFINE d == With(Without(dom, p), Sibling(p, Last(p) - 1),
                       Subtree(dom, p))
  <2>1. p # <<>> /\ Last(p) > 1 /\ Change(d) /\ clipboard' = clipboard
    BY <1>4 DEF MoveExpression, HasButtons
  <2>2. Layout(d)
    BY <1>1, <2>1, MoveLayout
  <2> HIDE DEF d
  <2> QED
    BY <1>1, <2>1, <2>2, TypedChange
<1>5. ASSUME NEW p \in DOMAIN dom, InsertExpression(p) PROVE EditorTyped'
  <2> DEFINE d == With(dom, p, Rendered(clipboard))
  <2>1. /\ p # <<>> /\ clipboard # <<>> /\ Change(d)
        /\ clipboard' = clipboard
    BY <1>5 DEF InsertExpression, HasButtons
  <2>2. Layout(d)
    BY <1>1, <2>1, RenderedLayout, InsertLayout
  <2> HIDE DEF d
  <2> QED
    BY <1>1, <2>1, <2>2, TypedChange
<1>6. ASSUME NEW p \in DOMAIN dom, NEW name \in Name \union {dom[p].name},
             EditHead(p, name)
      PROVE  EditorTyped'
  <2> DEFINE d == [dom EXCEPT ![p].name = name]
  <2>1. Change(d) /\ clipboard' = clipboard
    BY <1>6 DEF EditHead
  <2>2. name \in Heading
    BY <1>1 DEF Layout, Outline, Named, Heading
  <2>3. Layout(d)
    BY <1>1, <2>2, EditLayout
  <2> HIDE DEF d
  <2> QED
    BY <1>1, <2>1, <2>3, TypedChange
<1>7. CASE Undo
  BY <1>7, TypedUndo
<1>8. ASSUME NEW f \in {"hide", "wide"}, Toggle(f) PROVE EditorTyped'
  BY <1>8, TypedToggle
<1>9. CASE UNCHANGED editorVars
  BY <1>9 DEF editorVars, EditorTyped
<1> QED
  BY <1>2, <1>3, <1>4, <1>5, <1>6, <1>7, <1>8, <1>9 DEF EditorNext

\* Whatever is added, cut, moved, pasted, renamed or undone, an expression's
\* ancestors and elder siblings are there, and the word "end" closes those with
\* children and no other (addExpression, removeExpression, moveExpression,
\* insertExpression and renderExpression of ruote-fluo-editor.js, and
\* IfHandler.adjust of ruote-fluo.js, which makes and moves nodes too).
THEOREM EditorTypeCorrect == EditorSpec => []EditorTypeOK
<1>1. EditorInit => EditorInv /\ EditorTyped
  BY EditorInitInv, TypedInit
<1>2. EditorInv /\ EditorTyped /\ [EditorNext]_editorVars
        => EditorInv' /\ EditorTyped'
  BY EditorNextInv, TypedNext
<1>3. EditorInv /\ EditorTyped => EditorTypeOK
  <2> SUFFICES ASSUME EditorInv, EditorTyped PROVE EditorTypeOK
    OBVIOUS
  <2>1. /\ Layout(dom) /\ Whole(current.nodes)
        /\ \A i \in DOMAIN undoStack : Whole(undoStack[i].nodes)
        /\ canvas \in Mode /\ changes \in 0..MaxChanges
    BY DEF EditorTyped
  <2>2. astray \in BOOLEAN /\ Len(past) = Len(undoStack)
    BY DEF EditorInv
  <2>3. /\ WellFormed(dom) /\ WellFormed(current.nodes)
        /\ \A i \in DOMAIN undoStack : WellFormed(undoStack[i].nodes)
    BY <2>1 DEF Layout, Whole, Grown
  <2>4. \A p \in DOMAIN dom :
          /\ dom[p].name \in Heading
          /\ DOMAIN dom[p].atts \subseteq Attribute
          /\ dom[p].end \in BOOLEAN
    BY <2>1 DEF Layout, Outline, Named
  <2>5. EndShown
    BY <2>1, ArityShown DEF EndShown, Layout, Ended
  <2> QED
    BY <2>1, <2>2, <2>3, <2>4, <2>5 DEF EditorTypeOK, Attribute
<1> QED
  BY <1>1, <1>2, <1>3, PTL DEF EditorSpec
===============================================================================
