-------------------------------- MODULE Sizzle --------------------------------
(***************************************************************************)
(* The selector engine of the vendored jQuery 1.6.1 (Sizzle): what a       *)
(* selector finds below an element of the page.  The browser's own         *)
(* querySelectorAll is asked first where there is one and it knows the     *)
(* selector; what it does not know the engine finds from right to left,    *)
(* with marks it leaves on the elements (memo) and a regular expression    *)
(* that remembers where its last match ended (memo.midway).                *)
(*                                                                         *)
(* A selector is a sequence of groups (the parts between commas), a group  *)
(* a sequence of [rel, sel]: a combinator ("" is descendant) and the       *)
(* simple selectors that follow it.                                        *)
(***************************************************************************)
EXTENDS Integers, Sequences, SequencesExt, FiniteSets, TLC

CONSTANTS MaxNodes,    \* elements of the page (bound)
          Kinds        \* what an element may be: tag, type, name, id, ...

Node == 1..MaxNodes
Document == 0
No == -1               \* false, where an element is expected
Yes == -2              \* true, where an element is expected
NoSeed == <<No>>

ASSUME NodesAssumption == MaxNodes \in Nat \ {0}

VARIABLES
  kids,       \* childNodes of the document and of each element
  kind,       \* tag and attributes of each element
  classes,    \* className
  style,      \* style.display
  qsa         \* the browser has querySelectorAll and matchesSelector

page == <<kids, kind, classes, style>>
-------------------------------------------------------------------------------
(* The tree.                                                               *)

Simple(t, v) ==
  [x |-> "", v |-> v, a |-> 0, b |-> 0, arg |-> <<>>, op |-> "", t |-> t]

Parent(e) ==
  LET over == {p \in Node \union {Document} : e \in ToSet(kids[p])}
  IN IF over = {} THEN No ELSE CHOOSE p \in over : TRUE

RECURSIVE Up(_)
Up(e) == LET p == Parent(e) IN IF p = No THEN <<>> ELSE <<p>> \o Up(p)

Siblings(e) == kids[Parent(e)]
Place(e) == CHOOSE i \in DOMAIN Siblings(e) : Siblings(e)[i] = e
Before(e) == Reverse(SubSeq(Siblings(e), 1, Place(e) - 1))
After(e) == SubSeq(Siblings(e), Place(e) + 1, Len(Siblings(e)))
Previous(e) == IF Before(e) = <<>> THEN No ELSE Head(Before(e))

\* What is below e, in document order.
RECURSIVE Below(_)
Below(e) ==
  FlattenSeq([i \in DOMAIN kids[e] |-> <<kids[e][i]>> \o Below(kids[e][i])])

Contained(a, b) == b \in ToSet(Below(a))
-------------------------------------------------------------------------------
(* What a simple selector says of an element.                              *)

TagIs(e, tag) == tag \in {"*", kind[e].tag}

IdIs(e, id) == kind[e].id = id

ClassIn(e, name) == name \in classes[e]

\* "" stands for an attribute that is not there.
AttrHolds(e, s) ==
  LET value == CASE s.v = "name" -> kind[e].name
                 [] s.v = "type" -> kind[e].type
  IN CASE s.op = "" -> value # ""
       [] s.op = "=" -> value # "" /\ value = s.x
       [] s.op = "!=" -> value # s.x

Displayed(e) == IF style[e] # "" THEN style[e] ELSE kind[e].display

IsHidden(e) ==
  \E f \in {e} \union (ToSet(Up(e)) \ {Document}) : Displayed(f) = "none"

PseudoHolds(e, name) ==
  LET tag == kind[e].tag
      type == kind[e].type
      control == tag \in {"input", "select", "textarea", "button"}
  IN CASE name = "enabled" -> control /\ ~kind[e].disabled /\ type # "hidden"
       [] name = "disabled" -> control /\ kind[e].disabled
       [] name = "checked" -> kind[e].checked
       [] name = "parent" -> kids[e] # <<>>
       [] name = "empty" -> kids[e] = <<>>
       [] name = "header" -> tag \in {"h1", "h2", "h3"}
       [] name \in {"text", "radio", "checkbox", "file", "password", "image"} ->
            tag = "input" /\ type = name
       [] name \in {"submit", "reset"} ->
            tag \in {"input", "button"} /\ type = name
       [] name = "button" -> tag = "button" \/ (tag = "input" /\ type = name)
       [] name = "input" -> control
       [] name = "hidden" -> IsHidden(e)
       [] name = "visible" -> ~IsHidden(e)

\* Which of n elements a positional filter takes, counting i from 0.
Position(s, i, n) ==
  CASE s.v = "first" -> i = 0
    [] s.v = "last" -> i = n - 1
    [] s.v = "even" -> i % 2 = 0
    [] s.v = "odd" -> i % 2 = 1
    [] s.v = "lt" -> i < s.a
    [] s.v = "gt" -> i > s.a
    [] s.v \in {"nth", "eq"} -> i = s.a

Holds(e, s) ==
  CASE s.t = "TAG" -> TagIs(e, s.v)
    [] s.t = "ID" -> IdIs(e, s.v)
    [] s.t = "CLASS" -> ClassIn(e, s.v)
    [] s.t = "ATTR" -> AttrHolds(e, s)
    [] s.t = "PSEUDO" -> PseudoHolds(e, s.v)
-------------------------------------------------------------------------------
(* What a selector means: the definition the browser implements, and the   *)
(* one the engine is held to.                                              *)

Related(rel, e) ==
  CASE rel = "" -> ToSet(Up(e))
    [] rel = ">" -> {Parent(e)}
    [] rel = "+" -> {Previous(e)} \ {No}
    [] rel = "~" -> ToSet(Before(e))

InSteps(d, a) == \E k \in 0..MaxNodes : d = a * k

RECURSIVE Means(_, _), Matched(_, _, _, _)

Means(e, s) ==
  CASE s.t = "CHILD" ->
         LET n == Place(e)
         IN /\ s.v \in {"first", "only"} => n = 1
            /\ s.v \in {"last", "only"} => n = Len(Siblings(e))
            /\ s.v = "nth" => InSteps(n - s.b, s.a)
    [] s.t = "POS" -> TRUE
    [] s.t = "PSEUDO" /\ s.v = "not" ->
         \A g \in ToSet(s.arg) : ~Matched(e, g, Len(g), Document)
    [] s.t = "PSEUDO" /\ s.v = "has" ->
         \E g \in ToSet(s.arg), f \in ToSet(Below(e)) : Matched(f, g, Len(g), e)
    [] OTHER -> Holds(e, s)

\* e matches the first k parts of the group, read from root.
Matched(e, group, k, root) ==
  /\ e \in Node
  /\ \A s \in ToSet(group[k].sel) : Means(e, s)
  /\ IF k = 1 THEN root \in Related(group[1].rel, e)
     ELSE \E f \in Related(group[k].rel, e) : Matched(f, group, k - 1, root)

Matches(e, group, root) == Matched(e, group, Len(group), root)
-------------------------------------------------------------------------------
(* Filtering.  An entry of a set that is filtered in place may be No.      *)

Answer(set, m) == [set |-> set, memo |-> m]
Joined(acc, r) == Answer(acc.set \o r.set, r.memo)

FreshMemo ==
  [cache |-> [e \in Node \union {Document} |-> 0],     \* sizcache
   at |-> [e \in Node \union {Document} |-> 0],        \* sizset
   index |-> [e \in Node \union {Document} |-> 0],     \* nodeIndex
   done |-> 1, midway |-> FALSE]

\* Mutant: the position of an element is looked up once and kept.
NumberedOnce(e, name, m) ==
  IF m.index[e] # 0 THEN m
  ELSE [m EXCEPT !.index = [f \in DOMAIN m.index |->
                              IF f \in ToSet(Siblings(e)) THEN Place(f)
                              ELSE m.index[f]],
                 !.cache[Parent(e)] = name]

\* The children of e's parent get their positions, once per filter.
Numbered(e, name, m) ==
  IF m.cache[Parent(e)] = name /\ m.index[e] # 0 THEN m
  ELSE [m EXCEPT !.index = [f \in DOMAIN m.index |->
                              IF f \in ToSet(Siblings(e)) THEN Place(f)
                              ELSE m.index[f]],
                 !.cache[Parent(e)] = name]

\* nth-child(an+b) of the entries of a set.
NthChild(s, set, not, m) ==
  LET name == m.done
      step(acc, i) ==
        LET n == IF set[i] = No THEN acc.memo
                 ELSE Numbered(set[i], name, acc.memo)
        IN IF set[i] # No /\ (InSteps(n.index[set[i]] - s.b, s.a) # not)
           THEN [at |-> acc.at \union {i}, memo |-> n]
           ELSE [acc EXCEPT !.memo = n]
  IN FoldLeft(step, [at |-> {}, memo |-> [m EXCEPT !.done = name + 1]],
              [i \in DOMAIN set |-> i])

SoleChild(e, type) ==
  /\ type \in {"only", "first"} => Before(e) = <<>>
  /\ type \in {"only", "last"} => After(e) = <<>>

\* The filter the loop of Sizzle.filter takes first.  PSEUDO comes first,
\* unless the leftmost one is positional or about children.
Turn(expr) ==
  LET order == <<"CHILD", "ID", "TAG", "CLASS", "ATTR", "POS">>
      colon == {i \in DOMAIN expr : expr[i].t \in {"PSEUDO", "CHILD", "POS"}}
      first(S) == CHOOSE i \in S : \A j \in S : i <= j
      of(t) == {i \in DOMAIN expr : expr[i].t = t}
  IN IF colon # {} /\ expr[first(colon)].t = "PSEUDO" THEN first(colon)
     ELSE first(of(order[first({j \in DOMAIN order : of(order[j]) # {}})]))

RECURSIVE Find(_, _, _, _), Filter(_, _, _, _, _)

\* :not(arg).  Unless the chunker stands in the middle of a selector, what
\* arg finds in the set is taken away; else arg is filtered by, negated.
NotThese(s, set, inplace, not, m) ==
  LET n == [m EXCEPT !.midway = FALSE]
      those(r, in) == [at |-> {i \in DOMAIN set :
                                 set[i] # No /\ (set[i] \in ToSet(r.set)) = in},
                       memo |-> r.memo]
  IN IF m.midway /\ s.arg[1][1].sel[1].t # "TAG"
     THEN those(Filter(s.arg[1][1].sel, set, inplace, ~not, n), TRUE)
     ELSE those(Find(s.arg, Document, SelectSeq(set, LAMBDA e : e # No), n),
                not)

Having(s, set, not, m) ==
  LET noted(acc, i, r) == [at |-> IF (r.set # <<>>) # not
                                  THEN acc.at \union {i} ELSE acc.at,
                           memo |-> r.memo]
      step(acc, i) ==
        IF set[i] = No THEN acc
        ELSE noted(acc, i, Find(s.arg, set[i], NoSeed, acc.memo))
  IN FoldLeft(step, [at |-> {}, memo |-> m], [i \in DOMAIN set |-> i])

\* The positions of the set that pass one simple selector.
Passing(s, set, inplace, not, m) ==
  LET those(Test(_)) == {i \in DOMAIN set : set[i] # No /\ (Test(i) # not)}
  IN CASE s.t = "CHILD" /\ s.v = "nth" -> NthChild(s, set, not, m)
       [] s.t = "CHILD" /\ s.v # "nth" ->
            [at |-> those(LAMBDA i : SoleChild(set[i], s.v)),
             memo |-> [m EXCEPT !.done = @ + 1]]
       [] s.t = "POS" ->
            [at |-> those(LAMBDA i : Position(s, i - 1, Len(set))), memo |-> m]
       [] s.t = "PSEUDO" /\ s.v = "not" -> NotThese(s, set, inplace, not, m)
       [] s.t = "PSEUDO" /\ s.v = "has" -> Having(s, set, not, m)
       [] OTHER -> [at |-> those(LAMBDA i : Holds(set[i], s)), memo |-> m]

Left(set, at, inplace) ==
  LET left == [i \in DOMAIN set |-> IF i \in at THEN set[i] ELSE No]
  IN IF inplace THEN left ELSE SelectSeq(left, LAMBDA e : e # No)

\* The other simple selectors, unless nothing is left.
FilterOn(expr, set, inplace, not, p) ==
  IF p.at = {} THEN Answer(Left(set, p.at, inplace), p.memo)
  ELSE Filter(expr, Left(set, p.at, inplace), inplace, not, p.memo)

Filter(expr, set, inplace, not, m) ==
  IF expr = <<>> \/ set = <<>> THEN Answer(set, m)
  ELSE LET k == Turn(expr)
       IN FilterOn(RemoveAt(expr, k), set, inplace, not,
                   Passing(expr[k], set, inplace, not, m))
-------------------------------------------------------------------------------
(* The combinators, read from right to left.  Each entry of check becomes  *)
(* the element it was related to, or No; a part is what a combinator has   *)
(* on its left, or the context.                                            *)

Selecting(sel) == [ctx |-> No, sel |-> sel]
Being(e) == [ctx |-> e, sel |-> <<>>]

IsTag(part) ==
  /\ part.ctx = No
  /\ Len(part.sel) = 1 /\ part.sel[1].t = "TAG" /\ part.sel[1].v # "*"

TagOr(part, e) ==
  IF e \in Node /\ TagIs(e, part.sel[1].v) THEN e ELSE No

Same(part, e) == IF e = part.ctx THEN Yes ELSE No

\* "+" and ">": one step to the left or up, then the part is tested.
OneStep(rel, check, part, m) ==
  LET step(e) == IF rel = "+" THEN Previous(e) ELSE Parent(e)
      to(i) == IF check[i] = No THEN No ELSE step(check[i])
  IN IF IsTag(part)
     THEN Answer([i \in DOMAIN check |-> TagOr(part, to(i))], m)
     ELSE IF part.ctx # No
     THEN Answer([i \in DOMAIN check |-> Same(part, to(i))], m)
     ELSE Filter(part.sel, [i \in DOMAIN check |->
                              IF to(i) = Document THEN No ELSE to(i)],
                 TRUE, FALSE, m)

\* dirNodeCheck, dirCheck: along a path, up to the first that is the part.
RECURSIVE Walk(_, _, _, _, _, _)

Tested(e, part, m) ==
  IF e = Document THEN Answer(<<No>>, m)
  ELSE IF IsTag(part) THEN Answer(<<TagOr(part, e)>>, m)
  ELSE IF part.ctx # No THEN Answer(<<Same(part, e)>>, m)
  ELSE Filter(part.sel, <<e>>, FALSE, FALSE, m)

WalkOn(path, i, check, part, name, r) ==
  IF r.set # <<>> /\ r.set[1] # No THEN [to |-> r.set[1], memo |-> r.memo]
  ELSE Walk(path, i, check, part, name, r.memo)

Walk(path, i, check, part, name, m) ==
  IF path = <<>> THEN [to |-> No, memo |-> m]
  ELSE LET e == Head(path)
           n == IF e = Document THEN m
                ELSE [m EXCEPT !.cache[e] = name, !.at[e] = i]
       IN IF m.cache[e] = name
          THEN [to |-> IF m.at[e] \in DOMAIN check THEN check[m.at[e]] ELSE No,
                memo |-> m]
          ELSE WalkOn(Tail(path), i, check, part, name, Tested(e, part, n))

\* done++
NextName(m) == [m EXCEPT !.done = @ + 1]

\* "" and "~": any number of steps.
ManySteps(rel, check, part, m) ==
  LET path(e) == IF rel = "" THEN Up(e) ELSE Before(e)
      there(acc, i, w) == Answer([acc.set EXCEPT ![i] = w.to], w.memo)
      step(acc, i) ==
        IF acc.set[i] = No THEN acc
        ELSE there(acc, i, Walk(path(acc.set[i]), i, acc.set, part, m.done,
                                acc.memo))
  IN FoldLeft(step, Answer(check, NextName(m)), [i \in DOMAIN check |-> i])

Relate(rel, check, part, m) ==
  IF rel \in {"+", ">"} THEN OneStep(rel, check, part, m)
                        ELSE ManySteps(rel, check, part, m)
-------------------------------------------------------------------------------
(* Sizzle itself.                                                          *)

HasType(sel, t) == \E i \in DOMAIN sel : sel[i].t = t

\* Expr.find: what the browser returns at once for a simple selector, or
\* nothing at all; only the document looks up an id, and has one for it.
Lookup(s, ctx) ==
  LET all == SelectSeq(Below(ctx), LAMBDA e : Holds(e, s))
  IN IF s.t = "ID" /\ all # <<>> THEN <<Head(all)>> ELSE all

\* What a simple selector is looked up by, NAME being an attribute selector
\* for a name that somebody has.
LookedUp(s, type) ==
  IF type # "NAME" THEN s.t = type
  ELSE /\ s.t = "ATTR" /\ s.v = "name" /\ s.op = "="
       /\ \E e \in ToSet(Below(Document)) : kind[e].name = s.x

\* The candidates of a group: what the first kind of its last simple
\* selectors looks up below the context, and the others to filter by.
\* Only the document looks up ids and names.
Candidates(sel, ctx) ==
  LET order == IF ctx = Document THEN <<"ID", "CLASS", "NAME", "TAG">>
               ELSE <<"CLASS", "TAG">>
      found == {x \in (DOMAIN order) \X (DOMAIN sel) :
                  LookedUp(sel[x[2]], order[x[1]])}
      k == (CHOOSE x \in found : \A y \in found :
              x[1] < y[1] \/ (x[1] = y[1] /\ x[2] <= y[2]))[2]
  IN IF found = {} THEN [set |-> Below(ctx), expr |-> sel]
     ELSE [set |-> Lookup(sel[k], ctx), expr |-> RemoveAt(sel, k)]

\* siblingCheck: a stands before b under their parent.
Sooner(a, b) == Place(a) < Place(b)

\* sortOrder: where the paths from the document part, the sooner sibling;
\* where one ends on the other, what is above.
SortOrder(a, b) ==
  LET ap == Reverse(Up(a)) \o <<a>>
      bp == Reverse(Up(b)) \o <<b>>
      apart == {i \in DOMAIN ap \intersect DOMAIN bp : ap[i] # bp[i]}
      i == CHOOSE j \in apart : \A k \in apart : j <= k
  IN IF apart = {} THEN Len(ap) < Len(bp) ELSE Sooner(ap[i], bp[i])

\* Sizzle.uniqueSort: document order, each element once.
UniqueSort(results) == SetToSortSeq(ToSet(results), SortOrder)

\* The parts left of the last one, from right to left.
RECURSIVE Leftwards(_, _, _, _, _)
Leftwards(group, k, ctx, check, m) ==
  LET part == IF k = 1 THEN Being(ctx) ELSE Selecting(group[k - 1].sel)
      onward(r) == IF k = 1 THEN r
                   ELSE Leftwards(group, k - 1, ctx, r.set, r.memo)
  IN IF k = 1 /\ group[1].rel = "" THEN Answer(check, m)
     ELSE onward(Relate(group[k].rel, check, part, m))

\* What is left of a set when its entries were related to check.
Pruned(set, check, ctx) ==
  LET ok(i) == IF ctx # Document
               THEN \/ check[i] = Yes
                    \/ check[i] \in Node /\ Contained(ctx, check[i])
               ELSE check[i] \in Node
      marked == [i \in DOMAIN set |-> IF ok(i) THEN set[i] ELSE No]
  IN SelectSeq(marked, LAMBDA e : e # No)

Remaining(set, r, ctx) == Answer(Pruned(set, r.set, ctx), r.memo)

\* The candidates c of the last part, filtered, then what is left of it.
Strained(c, m) == Filter(c.expr, c.set, FALSE, FALSE, m)

Chosen(group, ctx, f) ==
  IF Len(group) = 1 /\ group[1].rel = "" THEN f
  ELSE Remaining(f.set, Leftwards(group, Len(group), ctx, f.set, f.memo), ctx)

FromRight(group, ctx, seed, m) ==
  LET beside == Len(group) = 1 /\ group[1].rel \in {"+", "~"} /\ ctx # Document
      sel == Last(group).sel
      c == IF seed # NoSeed THEN [set |-> seed, expr |-> sel]
           ELSE Candidates(sel, IF beside THEN Parent(ctx) ELSE ctx)
  IN IF ctx = No THEN Answer(<<>>, m) ELSE Chosen(group, ctx, Strained(c, m))

\* Below what the first part, an id, has found, or below the context.
RightToLeft(all, context, seed, m) ==
  LET byId == /\ seed = NoSeed /\ context = Document /\ Len(all) > 1
              /\ all[1].rel = "" /\ HasType(all[1].sel, "ID")
              /\ ~HasType(Last(all).sel, "ID")
      root == IF byId THEN Strained(Candidates(all[1].sel, context), m)
              ELSE Answer(<<context>>, m)
      below(r) == FromRight(IF byId THEN Tail(all) ELSE all,
                            IF r.set = <<>> THEN No ELSE r.set[1], seed, r.memo)
  IN below(root)

Colons(sel) == SelectSeq(sel, LAMBDA s : s.t \in {"PSEUDO", "CHILD", "POS"})
Plain(sel) == SelectSeq(sel, LAMBDA s : s.t \notin {"PSEUDO", "CHILD", "POS"})

\* posProcess: one part below each of the elements found so far, then what
\* follows a colon on all of them together.
PosProcess(part, roots, m) ==
  LET plain == IF Plain(part.sel) = <<>> THEN <<Simple("TAG", "*")>>
               ELSE Plain(part.sel)
      step(acc, e) ==
        Joined(acc, Find(<<<<[part EXCEPT !.sel = plain]>>>>, e, NoSeed,
                         acc.memo))
      sieved(r) == Filter(Colons(part.sel), r.set, FALSE, FALSE, r.memo)
  IN sieved(FoldLeft(step, Answer(<<>>, m), roots))

ByPosition(group, ctx, m) ==
  LET anchored == group[1].rel # ""
      start == IF anchored THEN Answer(<<ctx>>, m)
               ELSE Find(<<<<group[1]>>>>, ctx, NoSeed, m)
      step(acc, part) == PosProcess(part, acc.set, acc.memo)
      tied(r) == Remaining(r.set, r, ctx)
  IN tied(FoldLeft(step, start, IF anchored THEN group ELSE Tail(group)))

RECURSIVE Positional(_)
Positional(sel) ==
  \E i \in DOMAIN sel : \E j \in DOMAIN sel[i] : \E s \in ToSet(sel[i][j].sel) :
    s.t = "POS" \/ Positional(s.arg)

\* The engine that does not ask the browser: one group at a time.
OldSizzle(sel, ctx, seed, m) ==
  LET group == Head(sel)
      m0 == [m EXCEPT !.midway = Len(sel) > 1]
      many == Len(group) > 1 \/ group[1].rel # ""
      sorted(r) == Answer(UniqueSort(r.set), r.memo)
      others(r) == IF Len(sel) = 1 THEN r
                   ELSE sorted(Joined(r, Find(Tail(sel), ctx, seed, r.memo)))
  IN others(IF many /\ Positional(sel) THEN ByPosition(group, ctx, m0)
            ELSE RightToLeft(group, ctx, seed, m0))

Standard(s) ==
  \/ s.t \in {"TAG", "CLASS", "ID", "CHILD"}
  \/ s.t = "ATTR" /\ s.op # "!="
  \/ s.t = "PSEUDO" /\ s.v \in {"enabled", "disabled", "checked", "empty"}
  \/ /\ s.t = "PSEUDO" /\ s.v = "not"
     /\ Len(s.arg) = 1 /\ Len(s.arg[1]) = 1 /\ Len(s.arg[1][1].sel) = 1
     /\ s.arg[1][1].sel[1].t \in {"TAG", "CLASS", "ID", "CHILD"}

\* The browser knows the selector (else querySelectorAll throws).
Known(sel, ctx) ==
  \A i \in DOMAIN sel :
    /\ sel[i][1].rel # "" => i = 1 /\ ctx # Document
    /\ \A j \in DOMAIN sel[i] : \A s \in ToSet(sel[i][j].sel) : Standard(s)

\* Below an element only the first group is tied to it, by an id.
QuerySelectorAll(sel, ctx) ==
  LET beside == sel[1][1].rel \in {"+", "~"}
      from(i) == IF i = 1 THEN ctx ELSE Document
  IN SelectSeq(Below(IF beside THEN Parent(ctx) ELSE ctx),
               LAMBDA e : \E i \in DOMAIN sel : Matches(e, sel[i], from(i)))

Find(sel, ctx, seed, m) ==
  IF qsa /\ seed = NoSeed /\ Known(sel, ctx)
  THEN Answer(QuerySelectorAll(sel, ctx), m)
  ELSE OldSizzle(sel, ctx, seed, m)

MatchesSelector(e, sel, m) ==
  IF qsa /\ Known(sel, Document)
  THEN [ok |-> \E g \in ToSet(sel) : Matches(e, g, Document), memo |-> m]
  ELSE LET any(r) == [ok |-> r.set # <<>>, memo |-> r.memo]
       IN any(Find(sel, Document, <<e>>, m))
===============================================================================
