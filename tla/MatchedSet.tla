------------------------------ MODULE MatchedSet ------------------------------
(***************************************************************************)
(* The jQuery object: a set of elements, the calls that lead from one set  *)
(* to the next (find, filter, closest, parents, ...) and those that change *)
(* what is in the set (classes, show, hide, toggle, append).  A page calls *)
(* them in any order, on a set it chained or on a new one.                 *)
(***************************************************************************)
EXTENDS Sizzle

CONSTANTS Pages,       \* what page and set may hold at first
          Selectors,   \* what the page looks for
          Qualifiers,  \* what it filters by
          Class,       \* class names it sets
          MaxCalls,    \* calls that lead to another set (bound)
          MaxChanges   \* calls that change the page (bound)

RECURSIVE IsSelector(_)
IsSelector(sel) ==
  \A g \in ToSet(sel) :
    /\ g # <<>>
    /\ \A part \in ToSet(g) :
         /\ part \in [rel : {"", ">", "+", "~"}, sel : {part.sel}]
         /\ \A s \in ToSet(part.sel) :
              /\ s \in [t : {"TAG", "ID", "CLASS", "ATTR", "CHILD", "POS", "PSEUDO"},
                        v : STRING, op : {"", "=", "!="}, x : STRING,
                        a : Int, b : Int, arg : {s.arg}]
              /\ IsSelector(s.arg)

ASSUME MaxAssumption == {MaxCalls, MaxChanges} \subseteq Nat

ASSUME SelectorAssumption ==
  \A sel \in Selectors \union Qualifiers : sel # <<>> /\ IsSelector(sel)

VARIABLES
  set,         \* the elements of the jQuery object, in order
  last,        \* the last call: its name, its selector and the set before
  memo,        \* what the selector engine has left behind
  olddisplay,  \* _data(elem, "olddisplay")
  first,       \* how each element was displayed at first
  calls,       \* calls made
  changes      \* changes made

vars == <<page, qsa, set, last, memo, olddisplay, first, calls, changes>>

Display == {"none", "block", "inline"}
Nothing == <<>>
Root == <<Document>>

TypeOK ==
  /\ \A p \in Node \union {Document} : ToSet(kids[p]) \subseteq Node
  /\ Len(Below(Document)) = Cardinality(ToSet(Below(Document)))
  /\ \A e \in Node : /\ kind[e] \in Kinds /\ classes[e] \subseteq Class
                     /\ style[e] \in Display \union {""}
                     /\ olddisplay[e] \in (Display \ {"none"}) \union {""}
  /\ ToSet(set) \subseteq Node \union {Document}
  /\ calls \in 0..MaxCalls /\ changes \in 0..MaxChanges

\* The script begins with the document or with elements it was handed; of
\* the bounds on its calls and changes some may be used up (bound).
Init ==
  /\ \E p \in Pages : /\ kids = p.kids /\ kind = p.kind
                      /\ classes = p.classes /\ style = p.style
                      /\ set = p.set
                      /\ calls = p.calls /\ changes = p.changes
  /\ qsa \in BOOLEAN
  /\ last = [op |-> "$", sel |-> Nothing, from |-> set]
  /\ memo = FreshMemo
  /\ olddisplay = [e \in Node |-> ""]
  /\ first = [e \in Node |-> Displayed(e)]
-------------------------------------------------------------------------------
(* From one set to the next.                                               *)

LeadFrom(from, op, sel, r) ==
  /\ calls < MaxCalls
  /\ set' = r.set /\ memo' = r.memo
  /\ last' = [op |-> op, sel |-> sel, from |-> from]
  /\ calls' = calls + 1
  /\ UNCHANGED <<page, qsa, olddisplay, first, changes>>

Lead(op, sel, r) == LeadFrom(set, op, sel, r)

Elements == set # <<>> /\ Document \notin ToSet(set)

\* jQuery.fn.find: what each element finds, without what an earlier found.
\* The engine sorts all that was found so far when there are more groups.
FindInAll(sel, elems, m) ==
  LET sorts(e) == Len(sel) > 1 /\ ~(qsa /\ Known(sel, e))
      fresh(acc, r) ==
        Answer(SelectSeq(r.set, LAMBDA f : f \notin ToSet(acc.set)), r.memo)
      whole(e, r) == IF sorts(e) THEN Answer(UniqueSort(r.set), r.memo) ELSE r
      step(acc, e) ==
        whole(e, Joined(acc, fresh(acc, Find(sel, e, NoSeed, acc.memo))))
  IN FoldLeft(step, Answer(<<>>, m), elems)

FindBelow(sel) ==
  set # <<>> /\ Lead("find", sel, FindInAll(sel, set, memo))

\* $(sel): a new set, found in the document.
FindNew(sel) ==
  set # Root /\ LeadFrom(Root, "find", sel, FindInAll(sel, Root, memo))

Not(sel) ==
  <<<<[rel |-> "", sel |-> <<[Simple("PSEUDO", "not") EXCEPT !.arg = sel]>>]>>>>

\* jQuery.filter: one element is asked, several are sieved.
JFilter(sel, elems, m) ==
  IF Len(elems) = 1
  THEN LET asked(r) == Answer(IF r.ok THEN elems ELSE <<>>, r.memo)
       IN asked(MatchesSelector(elems[1], sel, m))
  ELSE Find(sel, Document, elems, m)

\* Tags only: no ":", "#", "[" or "." in it.
Unmarked(group) ==
  \A part \in ToSet(group) : \A s \in ToSet(part.sel) : s.t = "TAG"

\* isSimple: one group, with a mark at most where it begins.
IsSimple(sel) ==
  LET begin == sel[1][1]
      arg == begin.sel[1].arg
  IN /\ Len(sel) = 1 /\ Unmarked(Tail(sel[1]))
     /\ \/ Unmarked(sel[1])
        \/ /\ begin.rel = "" /\ Len(begin.sel) = 1
           /\ arg # <<>> => Len(arg) = 1 /\ Unmarked(arg[1])

\* winnow, for filter (keep) and not.
Winnow(sel, elems, keep, m) ==
  LET simple == IsSimple(sel)
      kept(r) == IF simple THEN r
                 ELSE Answer(SelectSeq(elems, LAMBDA e :
                                         (e \in ToSet(r.set)) = keep), r.memo)
  IN kept(JFilter(IF simple /\ ~keep THEN Not(sel) ELSE sel, elems, m))

FilterBy(sel) == Elements /\ Lead("filter", sel, Winnow(sel, set, TRUE, memo))

Without(sel) == Elements /\ Lead("not", sel, Winnow(sel, set, FALSE, memo))

\* jQuery.fn.has
Has(sel) ==
  /\ Elements
  /\ LET around(r) == Answer(SelectSeq(set, LAMBDA e :
                                \E f \in ToSet(r.set) : Contained(e, f)), r.memo)
     IN Lead("has", sel, around(FindInAll(sel, Root, memo)))

\* The elements closest() asks for one element, the first first.
StartsHere(e) == <<e>> \o SelectSeq(Up(e), LAMBDA f : f # Document)

RECURSIVE Nearest(_, _, _)
Nearest(path, sel, m) ==
  LET asked(r) == IF r.ok THEN Answer(<<Head(path)>>, r.memo)
                  ELSE Nearest(Tail(path), sel, r.memo)
  IN IF path = <<>> THEN Answer(<<>>, m)
     ELSE asked(MatchesSelector(Head(path), sel, m))

Unique(elems) == IF Len(elems) > 1 THEN UniqueSort(elems) ELSE elems

\* closest(sel); a positional selector is looked up in the document.
NearestOf(elems, pos) ==
  LET among(e) == SelectSeq(StartsHere(e), LAMBDA f : f \in ToSet(pos.set))
      step(acc, e) == acc \o SubSeq(among(e), 1, IF among(e) = <<>> THEN 0 ELSE 1)
  IN Answer(FoldLeft(step, <<>>, elems), pos.memo)

NearestAsked(elems, sel, m) ==
  LET step(acc, e) == Joined(acc, Nearest(StartsHere(e), sel, acc.memo))
  IN FoldLeft(step, Answer(<<>>, m), elems)

Closest(sel) ==
  /\ Elements
  /\ LET sorted(r) == Answer(Unique(r.set), r.memo)
     IN Lead("closest", sel,
             sorted(IF Positional(sel)
                    THEN NearestOf(set, FindInAll(sel, Root, memo))
                    ELSE NearestAsked(set, sel, memo)))

\* The elements jQuery.dir, nth and sibling visit from e.
Walks == {"parent", "parents", "next", "prev", "nextAll", "prevAll",
          "siblings", "children"}

\* jQuery.dir: every element on the way.
Dir(path) == SelectSeq(path, LAMBDA f : f # Document)

\* jQuery.nth: the next one on the way.
Nth(path) == SubSeq(path, 1, IF path = <<>> THEN 0 ELSE 1)

\* jQuery.sibling: all children of a parent but one.
Sibling(all, e) == SelectSeq(all, LAMBDA f : f # e)

Visited(walk, e) ==
  CASE walk = "parent" -> Nth(Up(e))
    [] walk = "parents" -> Dir(Up(e))
    [] walk = "next" -> Nth(After(e))
    [] walk = "prev" -> Nth(Before(e))
    [] walk = "nextAll" -> Dir(After(e))
    [] walk = "prevAll" -> Dir(Before(e))
    [] walk = "siblings" -> Sibling(Siblings(e), e)
    [] walk = "children" -> Sibling(kids[e], No)

\* Mutant: the sorted set is not turned round.
InDocumentOrder(walk, sel, elems) == elems

\* parents() and prevAll() of several elements: the nearest first.
NearestFirst(walk, sel, elems) ==
  IF (Len(set) > 1 \/ Len(sel) > 1) /\ walk \in {"parents", "prevAll"}
  THEN Reverse(elems) ELSE elems

Traverse(walk, sel) ==
  /\ Elements
  /\ LET all == FlattenSeq([i \in DOMAIN set |-> Visited(walk, set[i])])
         elems == SelectSeq(all, LAMBDA e : e # Document)
         sorted(elms) == IF Len(set) > 1 /\ walk \notin {"children", "next", "prev"}
                         THEN UniqueSort(elms) ELSE elms
         led(r) == Answer(NearestFirst(walk, sel, sorted(r.set)), r.memo)
     IN Lead(walk, sel, led(IF sel = Nothing THEN Answer(all, memo)
                            ELSE JFilter(sel, elems, memo)))

\* add(sel): with what the document has, sorted.
Add(sel) ==
  /\ Elements
  /\ LET sorted(r) == Answer(IF r.set = <<>> THEN set
                             ELSE UniqueSort(set \o r.set), r.memo)
     IN Lead("add", sel, sorted(FindInAll(sel, Root, memo)))

\* first() and last()
Slice(end) ==
  Elements /\ Lead(end, Nothing, Answer(<<IF end = "first" THEN Head(set)
                                         ELSE Last(set)>>, memo))
-------------------------------------------------------------------------------
(* What a set does to its elements.                                        *)

\* Bound: a change is made while there is a call left to notice it.
Change(op) ==
  /\ Elements /\ changes < MaxChanges /\ calls < MaxCalls
  /\ changes' = changes + 1
  /\ last' = [op |-> op, sel |-> Nothing, from |-> set]
  /\ UNCHANGED <<qsa, set, memo, first, calls>>

Reclass(op, new(_)) ==
  /\ Change(op)
  /\ classes' = [e \in Node |-> IF e \in ToSet(set) THEN new(classes[e])
                                ELSE classes[e]]
  /\ UNCHANGED <<kids, kind, style, olddisplay>>

AddClass(name) == Reclass("addClass", LAMBDA has : has \union {name})

RemoveClass(name) == Reclass("removeClass", LAMBDA has : has \ {name})

ToggleClass(name) ==
  Reclass("toggleClass", LAMBDA has : IF name \in has THEN has \ {name}
                                      ELSE has \union {name})

Looks == [style |-> style, old |-> olddisplay]

\* The display the browser gives elements of this tag.
DefaultDisplay(e) ==
  IF kind[e].tag \in {"span", "a", "input"} THEN "inline" ELSE "block"

\* Mutant: the inline display is not reset before it is looked at.
UnhideAtOnce(e, old, inline) == inline

\* An element hidden by its own style shows what its cascade says.
Unhide(e, old, inline) == IF old = "" /\ inline = "none" THEN "" ELSE inline

DisplayIn(l, e) == IF l.style[e] # "" THEN l.style[e] ELSE kind[e].display

\* show() of some elements.
Shown(l, elems) ==
  LET inline(e) == Unhide(e, l.old[e], l.style[e])
      old(e) == IF inline(e) = "" /\ kind[e].display = "none"
                THEN DefaultDisplay(e) ELSE l.old[e]
      shown(e) == IF inline(e) \in {"", "none"} THEN old(e) ELSE inline(e)
  IN [style |-> [e \in Node |-> IF e \in elems THEN shown(e) ELSE l.style[e]],
      old |-> [e \in Node |-> IF e \in elems THEN old(e) ELSE l.old[e]]]

\* Mutant: what is hidden already is remembered as such.
HiddenBlindly(l, elems) ==
  [style |-> [e \in Node |-> IF e \in elems THEN "none" ELSE l.style[e]],
   old |-> [e \in Node |-> IF e \in elems /\ l.old[e] = "" THEN DisplayIn(l, e)
                           ELSE l.old[e]]]

\* hide() of some elements.
Hidden(l, elems) ==
  LET fresh(e) == e \in elems /\ DisplayIn(l, e) # "none" /\ l.old[e] = ""
  IN [style |-> [e \in Node |-> IF e \in elems THEN "none" ELSE l.style[e]],
      old |-> [e \in Node |-> IF fresh(e) THEN DisplayIn(l, e) ELSE l.old[e]]]

Restyle(op, l) ==
  /\ Change(op)
  /\ style' = l.style /\ olddisplay' = l.old
  /\ UNCHANGED <<kids, kind, classes>>

Show == Restyle("show", Shown(Looks, ToSet(set)))

Hide == Restyle("hide", Hidden(Looks, ToSet(set)))

\* toggle(): one element after the other; one in a hidden parent is hidden.
Toggle ==
  LET unseen(l, e) == \E f \in {e} \union (ToSet(Up(e)) \ {Document}) :
                        DisplayIn(l, f) = "none"
      step(l, e) == IF unseen(l, e) THEN Shown(l, {e}) ELSE Hidden(l, {e})
  IN Elements /\ Restyle("toggle", FoldLeft(step, Looks, set))

\* append, prepend, before and after of an element already in the page, to
\* the one element of the set.
Wheres == {"append", "prepend", "before", "after"}

MoveTo(e, target, where) ==
  LET gone == [p \in Node \union {Document} |-> Sibling(kids[p], e)]
      p == Parent(target)
      at == CHOOSE i \in DOMAIN gone[p] : gone[p][i] = target
  IN CASE where = "append" -> [gone EXCEPT ![target] = Append(@, e)]
       [] where = "prepend" -> [gone EXCEPT ![target] = <<e>> \o @]
       [] where = "before" -> [gone EXCEPT ![p] = InsertAt(@, at, e)]
       [] where = "after" -> [gone EXCEPT ![p] = InsertAt(@, at + 1, e)]

Put(e, where) ==
  /\ Change(where)
  /\ Len(set) = 1 /\ set[1] # e /\ ~Contained(e, set[1])
  /\ IF where \in {"before", "after"} THEN Parent(set[1]) # Document
     ELSE kind[set[1]].tag # "input"
  /\ kids' = MoveTo(e, set[1], where)
  /\ UNCHANGED <<kind, classes, style, olddisplay>>

Next ==
  \/ \E sel \in Selectors : FindBelow(sel) \/ FindNew(sel)
  \/ \E sel \in Qualifiers : FilterBy(sel) \/ Without(sel) \/ Has(sel)
                               \/ Closest(sel) \/ Add(sel)
  \/ \E walk \in Walks, sel \in Qualifiers \union {Nothing} :
       Traverse(walk, sel)
  \/ \E end \in {"first", "last"} : Slice(end)
  \/ \E name \in Class :
       AddClass(name) \/ RemoveClass(name) \/ ToggleClass(name)
  \/ Show \/ Hide \/ Toggle
  \/ \E e \in ToSet(Below(Document)), where \in Wheres : Put(e, where)

Spec == Init /\ [][Next]_vars
-------------------------------------------------------------------------------
(* Where the engine differs from the browser, found with these models.     *)

\* It does not go back: left of "any ancestor" only the nearest is tried.
Loose(group) ==
  \E i, j \in DOMAIN group :
    /\ i < j
    /\ \/ group[i].rel \in {">", "+", "~"} /\ group[j].rel = ""
       \/ group[i].rel = "+" /\ group[j].rel = "~"

\* With more groups to come, :not(.a.b) takes away what is .a or .b.
Hasty(sel) ==
  /\ Len(sel) > 1
  /\ \E g \in ToSet(sel), j \in 1..MaxNodes : j \in DOMAIN g /\
       \E s \in ToSet(g[j].sel) : s.v = "not" /\ Len(s.arg[1][1].sel) > 1

Complete(sel, c) ==
  (qsa /\ Known(sel, c)) \/ ~(Hasty(sel) \/ \E g \in ToSet(sel) : Loose(g))

Fits(e, sel) == \E g \in ToSet(sel) : Matches(e, g, Document)

\* What find() returns matches the selector: its first group read from one
\* of the elements searched, another group read from the document.
OnlyMatches ==
  last.op = "find" =>
    \A e \in ToSet(set) : \E c \in ToSet(last.from), k \in DOMAIN last.sel :
      Matches(e, last.sel[k], IF k = 1 THEN c ELSE Document)

\* find() leaves out nothing that matches, whatever was searched and
\* changed before, where the engine is known to be complete.
AllMatches ==
  last.op = "find" /\ ~Positional(last.sel) =>
    \A c \in ToSet(last.from) : Complete(last.sel, c) =>
      \A e \in Node, g \in ToSet(last.sel) :
        Matches(e, g, c) => e \in ToSet(set)

Once(elems) == Len(elems) = Cardinality(ToSet(elems))

\* No call returns an element twice (a positional selector with several
\* parts may).
NoTwice == Once(last.from) /\ ~Positional(last.sel) => Once(set)

Ordered(elems) == elems = SelectSeq(Root \o Below(Document),
                                    LAMBDA e : e \in ToSet(elems))

\* Whatever leads from elements in document order to others keeps the
\* order, and parents() and prevAll() reverse it.
InOrder ==
  /\ ~Positional(last.sel)
  /\ Ordered(last.from)
  /\ last.op \in {"children", "next", "prev"} => Len(last.from) = 1
  /\ last.sel # Nothing => last.sel[1][1].rel = ""
  => IF last.op \in {"parents", "prevAll"} THEN Ordered(Reverse(set))
     ELSE Ordered(set)

\* filter() and not() split the set: what fits stays, or goes.
Sieved ==
  last.op \in {"filter", "not"} /\ ~Positional(last.sel) =>
    set = SelectSeq(last.from,
                    LAMBDA e : Fits(e, last.sel) = (last.op = "filter"))

\* closest() is the first that fits on the way up from each element.
ClosestIsNearest ==
  last.op = "closest" /\ ~Positional(last.sel) =>
    ToSet(set) =
      {f \in Node : /\ Fits(f, last.sel)
                    /\ \E e \in ToSet(last.from) :
                         /\ f = e \/ Contained(f, e)
                         /\ \A g \in Node : /\ g = e \/ Contained(g, e)
                                            /\ Contained(f, g)
                                            => ~Fits(g, last.sel)}

\* Every answer of a selector is right, whatever call asked it.
AnswersRight == OnlyMatches /\ AllMatches /\ Sieved /\ ClosestIsNearest

\* Every answer is in its order, each element once.
OnceInOrder == NoTwice /\ InOrder

\* After show() each element is displayed, whatever hid it (its own style,
\* the style sheet or both) and however often it was hidden: as it was at
\* first, else as the style sheet has it, else as the browser has its tag.
ShownShows ==
  LET ways(e) == <<first[e], kind[e].display, DefaultDisplay(e)>>
      visible(e) == SelectSeq(ways(e), LAMBDA d : d # "none")
  IN last.op = "show" => \A e \in ToSet(set) : Displayed(e) = Head(visible(e))
===============================================================================
