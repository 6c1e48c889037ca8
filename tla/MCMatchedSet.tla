----------------------------- MODULE MCMatchedSet -----------------------------
(***************************************************************************)
(* MatchedSet on small pages, with and without querySelectorAll: every     *)
(* tree of a list and three elements in it, one of them a box, the others  *)
(* items; and lists with elements hidden in every way.                     *)
(***************************************************************************)
EXTENDS MatchedSet

Element(tag, id, on) ==
  [tag |-> tag, type |-> "", name |-> "", id |-> id, display |-> "block",
   style |-> "", on |-> on, disabled |-> FALSE, checked |-> FALSE]

\* A list with its items, and a disabled box that both the style sheet and
\* its own style hide.
List == Element("ul", "main", FALSE)
Item == Element("li", "", FALSE)
OnItem == Element("li", "", TRUE)
Box == [Element("input", "", TRUE) EXCEPT
          !.type = "checkbox", !.name = "box", !.disabled = TRUE,
          !.display = "none", !.style = "none"]
ListKinds == {List, Item, OnItem, Box}

\* The trees in which n was put in last, before its siblings: every shape,
\* its elements not numbered in document order.
RECURSIVE Trees(_)
Trees(n) ==
  IF n = 1
  THEN {[p \in Node \union {Document} |-> IF p = Document THEN <<1>> ELSE <<>>]}
  ELSE {[x[1] EXCEPT ![x[2]] = <<n>> \o @] :
          x \in Trees(n - 1) \X (1..(n - 1))}

Filled == {k \in [Node -> ListKinds] :
             /\ \A e \in Node : (e = 1) = (k[e] = List)
             /\ \E e \in Node : {f \in Node : k[f] = Box} = {e}}

\* There is one box, and nothing in it.  A script may search, change one
\* thing and search again.
ListPages ==
  {[kids |-> x[1], kind |-> x[2],
    classes |-> [e \in Node |-> IF x[2][e].on THEN {"on"} ELSE {}],
    style |-> [e \in Node |-> x[2][e].style],
    set |-> Root, calls |-> 0, changes |-> MaxChanges - 1] :
     x \in {y \in Trees(MaxNodes) \X Filled :
             \A e \in Node : y[2][e] = Box => y[1][e] = <<>>}}
-------------------------------------------------------------------------------
(* Selectors.                                                              *)

Tag(v) == Simple("TAG", v)
Cls(v) == Simple("CLASS", v)
Id(v) == Simple("ID", v)
Pseudo(v) == Simple("PSEUDO", v)
Pos(v, n) == [Simple("POS", v) EXCEPT !.a = n]
NthOf(a, b) == [Simple("CHILD", "nth") EXCEPT !.a = a, !.b = b]
Kid(v) == Simple("CHILD", v)
With(v, arg) == [Simple("PSEUDO", v) EXCEPT !.arg = arg]
Attr(v, op, x) == [Simple("ATTR", v) EXCEPT !.op = op, !.x = x]

P(rel, sel) == [rel |-> rel, sel |-> sel]
One(sel) == <<<<P("", sel)>>>>
Two(a, rel, b) == <<<<P("", a), P(rel, b)>>>>

MCSelectors ==
  {One(<<Tag("li")>>),
   One(<<Tag("li"), Cls("on"), NthOf(2, 1)>>),
   Two(<<Cls("on")>>, "~", <<Pseudo("visible")>>),
   Two(<<Tag("li"), NthOf(0, 2)>>, "+", <<Tag("*")>>),
   Two(<<Id("main")>>, "", <<Tag("li"), With("not", One(<<Cls("on")>>))>>),
   <<<<P("", <<Tag("ul")>>), P(">", <<Cls("on")>>),
       P("", <<Pseudo("hidden")>>)>>>>,
   <<<<P(">", <<Tag("li"), With("has", One(<<Cls("on")>>))>>)>>>>,
   <<<<P("", <<Tag("li"), With("not", One(<<Cls("on"), Pseudo("empty")>>))>>)>>,
     <<P("", <<Pseudo("input")>>)>>>>,
   Two(<<Tag("li")>>, "", <<Cls("on"), Pos("eq", 1)>>),
   <<<<P("", <<Attr("name", "=", "box"), Pseudo("disabled")>>)>>,
     <<P("", <<Tag("li")>>), P(">", <<Tag("li"), Kid("last")>>)>>>>}

MCQualifiers ==
  {One(<<Cls("on")>>),
   One(<<Tag("li"), With("not", One(<<Cls("on")>>))>>),
   One(<<Pos("first", 0)>>),
   <<<<P("", <<Attr("type", "!=", "checkbox")>>)>>,
     <<P("", <<Pseudo("checkbox")>>)>>>>}
-------------------------------------------------------------------------------
(* Pages with elements that are hidden in every way: by the style sheet    *)
(* (kind), by their own style, by both or not at all.  A script holds one  *)
(* or two of them, changes them more than once and searches at last.       *)

Hideable(tag, sheet) == [Element(tag, "", FALSE) EXCEPT !.display = sheet]
HiddenItem == Hideable("li", "none")
HiddenKinds == {Hideable("li", "block"), HiddenItem, Hideable("span", "none")}

\* The third element, next to a fourth or around it, which the style sheet
\* hides.
HiddenPages ==
  {[kids |-> x[1], classes |-> [e \in Node |-> {}],
    kind |-> [e \in Node |-> CASE e = 1 -> List [] e = 2 -> Item
                               [] e = 3 -> x[2] [] OTHER -> HiddenItem],
    style |-> [e \in Node |-> IF e = 3 THEN x[3] ELSE ""],
    set |-> x[4], calls |-> MaxCalls - 1, changes |-> 0] :
     x \in {t \in Trees(MaxNodes) : /\ t[1] \in {<<3, 2>>, <<4, 3, 2>>}
                                   /\ t[2] = <<>>}
          \X HiddenKinds \X {"", "none", "inline"} \X {<<3>>, <<3, 4>>}}

MCKinds == ListKinds \union HiddenKinds
MCPages == ListPages \union HiddenPages
===============================================================================
