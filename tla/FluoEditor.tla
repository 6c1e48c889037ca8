------------------------------ MODULE FluoEditor ------------------------------
(***************************************************************************)
(* The editor of process definitions (ruote-fluo-editor.js) and the canvas *)
(* that draws them (ruote-fluo.js), on a page that draws every tree the    *)
(* editor's onChange hands out.  The editor keeps the definition as nodes  *)
(* of the document and, for undo, as trees; the canvas completes the very  *)
(* trees it is given, and caches sizes in them.                            *)
(*                                                                         *)
(* A tree is a function from paths to nodes: <<>> is the root, Append(p,   *)
(* i) the i-th child of p.  A path is what the code calls an expid.        *)
(***************************************************************************)
EXTENDS Integers, Sequences, SequencesExt, FiniteSets, FiniteSetsExt, TLC

CONSTANTS Flows,         \* the definitions the page may open
          Name,          \* what a head may be edited to
          TextWidth,     \* the width of a head's text
          MaxNodes,      \* nodes after a change (bound)
          MaxChanges     \* changes ever made (bound)

ASSUME BoundsAssumption == {TextWidth, MaxNodes, MaxChanges} \subseteq Nat

VARIABLES
  dom,         \* what the editor shows: heads, and the word "end" below
  current,     \* currentTree, which is also the flow the canvas draws
  undoStack,   \* the trees to go back to
  clipboard,   \* what was cut last, an empty tree at first
  canvas,      \* whether minor expressions are hidden, and it lies on a side
  changes,     \* how many were made
  past,        \* what was shown before each change on the stack
  astray       \* what is shown was rendered from a tree the canvas had changed

editorVars ==
  <<dom, current, undoStack, clipboard, canvas, changes, past, astray>>

None == <<0>>          \* the expid of what was not yet identified
Mode == [hide : BOOLEAN, wide : BOOLEAN]

-----------------------------------------------------------------------------
(* Trees. *)

Child(p, i) == Append(p, i)
Sibling(p, i) == [p EXCEPT ![Len(p)] = i]
Children(t, p) == {q \in DOMAIN t : Len(q) = Len(p) + 1 /\ IsPrefix(p, q)}
Arity(t, p) == Cardinality(Children(t, p))

Names(t) == [p \in DOMAIN t |-> t[p].name]

Heads(t) == [p \in DOMAIN t |-> [name |-> t[p].name, atts |-> t[p].atts]]

\* q when the siblings at and after p, with all below them, move by d.
Shift(q, p, d) ==
  IF IsPrefix(Front(p), q) /\ Len(q) >= Len(p) /\ q[Len(p)] >= Last(p)
  THEN [q EXCEPT ![Len(p)] = @ + d] ELSE q

Subtree(t, p) ==
  [s \in {SubSeq(q, Len(p) + 1, Len(q)) : q \in
            {r \in DOMAIN t : IsPrefix(p, r)}} |-> t[p \o s]]

\* The nodes of t at S, those siblings moved.
Shifted(t, S, p, d) ==
  [q \in {Shift(r, p, d) : r \in S} |->
     t[CHOOSE r \in S : Shift(r, p, d) = q]]

Without(t, p) == Shifted(t, {q \in DOMAIN t : ~IsPrefix(p, q)}, p, -1)

With(t, p, sub) ==
  LET moved == Shifted(t, DOMAIN t, p, 1) IN
  [q \in DOMAIN moved \union {p \o s : s \in DOMAIN sub} |->
     IF q \in DOMAIN moved THEN moved[q]
     ELSE sub[SubSeq(q, Len(p) + 1, Len(q))]]

\* The heads shown are the names there are; a path's ancestors and elder
\* siblings are there, and so with every tree that can come back.
WellFormed(t) ==
  \A p \in DOMAIN t : p # <<>> =>
    /\ Front(p) \in DOMAIN t
    /\ \A i \in 1..(Last(p) - 1) : Sibling(p, i) \in DOMAIN t

\* What the page opens are trees not yet drawn, with no attribute but the name
\* of what an expression defines.
ASSUME FlowsAssumption ==
  \A t \in Flows :
    /\ IsFiniteSet(DOMAIN t) /\ DOMAIN t \subseteq Seq(Nat \ {0})
    /\ <<>> \in DOMAIN t /\ WellFormed(t)
    /\ \A p \in DOMAIN t :
         /\ t[p] = [name |-> t[p].name, atts |-> t[p].atts, expid |-> None]
         /\ DOMAIN t[p].atts \subseteq {"name"}

\* A tree of one node.
Leaf(node) == [p \in {<<>>} |-> node]

\* toTree and renderExpression, between what is shown and trees.
ToTree(d) ==
  [p \in DOMAIN d |-> [name |-> d[p].name, atts |-> d[p].atts, expid |-> None]]

Rendered(t) ==
  [p \in DOMAIN t |-> [name |-> t[p].name, atts |-> t[p].atts,
                       end |-> Arity(t, p) > 0]]

-----------------------------------------------------------------------------
(* The canvas completes a tree. *)

Minor == {"description", "set", "unset", "set-fields"}

\* HANDLERS: which expressions are drawn how.
Looping == {"loop", "repeat", "cursor", "concurrent-iterator"}
Symbols == {"sleep", "wait", "error"}
Commands == {"set", "unset", "rewind", "continue", "back", "break", "stop",
             "cancel", "skip", "jump"}

\* A symbol, a command, a subprocess or a ghost is drawn without what is in it.
Bare == Symbols \union Commands \union {"subprocess", "_"}

\* getChildren, from the root down: what is drawn at all.
Shown(t, hide) ==
  {p \in DOMAIN t :
     \A n \in 1..Len(p) : /\ hide => t[SubSeq(p, 1, n)].name \notin Minor
                          /\ t[SubSeq(p, 1, n - 1)].name \notin Bare}

\* Mutant: every drawing numbers the expressions afresh.
IdentifiedAgain(t) ==
  [p \in DOMAIN t |-> [name |-> t[p].name, atts |-> t[p].atts, expid |-> p]]

\* identifyExpressions: once for each tree.
Identified(t) ==
  IF t[<<>>].expid # None THEN t
  ELSE [p \in DOMAIN t |-> [name |-> t[p].name, atts |-> t[p].atts,
                           expid |-> p]]

Ghost == Leaf([name |-> "_", atts |-> <<>>, expid |-> None])

\* An attribute given a value.
Put(atts, key, value) ==
  [k \in DOMAIN atts \union {key} |-> IF k = key THEN value ELSE atts[k]]

\* IfHandler.adjust: an "if" without a condition takes its first child for it,
\* whatever it is, with its attributes, and gets one ghost when it then has
\* less than two.
Adjust(t, p) ==
  LET c == Child(p, 1)
      u == IF c \notin DOMAIN t THEN t
           ELSE [Without(t, c) EXCEPT ![p].atts =
                   Put(t[c].atts, "condition", t[c].name)] IN
  IF Arity(u, p) < 2 THEN With(u, Child(p, Arity(u, p) + 1), Ghost) ELSE u

\* SubprocessHandler.adjust: the only child becomes an attribute besides.
Referring(t, shown) ==
  [p \in DOMAIN t |->
     IF p \in shown /\ t[p].name = "subprocess" /\ Arity(t, p) = 1
     THEN [t[p] EXCEPT !.atts =
             Put(@, "ref", Heads(Subtree(t, Child(p, 1))))]
     ELSE t[p]]

\* renderExp of all that is shown; a size found before is used again.
Drawn(o, mode) ==
  LET t == Identified(o.nodes)
      ifs == {p \in Shown(t, mode.hide) : t[p].name = "if"}
      a == IF ifs = {} \/ o.adjusted THEN t
           ELSE Adjust(t, CHOOSE p \in ifs : TRUE)
      u == Referring(a, Shown(a, mode.hide)) IN
  [nodes |-> u, adjusted |-> o.adjusted \/ ifs # {},
   taken |-> o.taken \/ Names(u) # Names(t),
   touched |-> o.touched \/ Heads(u) # Heads(t),
   sized |-> IF o.sized = {} THEN {mode} ELSE o.sized, missed |-> o.missed]

New(t) == [nodes |-> t, adjusted |-> FALSE, taken |-> FALSE,
           touched |-> FALSE, sized |-> {}, missed |-> FALSE]

-----------------------------------------------------------------------------
(* Where the canvas puts things, upright. *)

\* getChildren, in order.
Major(t, p, shown) ==
  SelectSeq([i \in 1..Arity(t, p) |-> Child(p, i)], LAMBDA q : q \in shown)

Sum(s) == FoldLeft(LAMBDA a, b : a + b, 0, s)
Largest(s) == FoldLeft(LAMBDA a, b : IF a > b THEN a ELSE b, 0, s)
Larger(a, b) == IF a > b THEN a ELSE b

LineHeight == 20

Definer == {"process-definition", "workflow-definition", "define"}

IsSubprocessName(t, name) ==
  \E q \in DOMAIN t : /\ t[q].name \in Definer
                      /\ "name" \in DOMAIN t[q].atts
                      /\ t[q].atts["name"] = name

\* getHandler.
Handler(t, p) ==
  LET name == t[p].name IN
  CASE name = "sequence" -> "Vertical"
    [] name \in {"if", "concurrence"} -> "Horizontal"
    [] name \in Looping -> "Loop"
    [] name \in Symbols -> "Symbol"
    [] name \in Commands -> "Text"
    [] name = "_" -> "Ghost"
    [] name = "subprocess" -> "Subprocess"
    [] OTHER -> IF Arity(t, p) > 0 THEN "WithChildren"
                ELSE IF IsSubprocessName(t, name) THEN "Subprocess"
                ELSE "Generic"

GenericHeight(atts) == 7 + (1 + atts) * LineHeight

\* Room for the crossed box.
SubprocessHeight(atts) == 12 + GenericHeight(atts)

GenericWidth == Larger(10 + TextWidth, 110)

\* Mutant: no room for the arrows.
VerticalHeightBare(hs) == Sum(hs)

VerticalHeight(hs) == (Len(hs) - 1) * 14 + Sum(hs)

Header(atts) == 23 + atts * LineHeight

HorizontalHeight(atts, hs) == Header(atts) + Largest(hs) + 10

HorizontalWidth(ws) == (Len(ws) - 1) * 3 + Sum(ws)

ChildrenHeight(atts, hs) ==
  Larger((Len(hs) + 1) * 9 + Sum(hs), GenericHeight(atts))

ChildrenWidth(ws) == TextWidth + 28 + Largest(ws)

\* Room for the symbol of a loop.
LoopHeight(atts, hs) == 12 + ChildrenHeight(atts, hs)

SymbolHeight(atts) == 22 + atts * LineHeight

\* getHeight and getWidth of p, from those of the children drawn in it.
Size(t, p, kids, size) ==
  LET hs == [i \in DOMAIN kids |-> size[kids[i]].h]
      ws == [i \in DOMAIN kids |-> size[kids[i]].w]
      atts == Cardinality(DOMAIN t[p].atts) IN
  CASE Handler(t, p) = "Vertical" ->
         [h |-> VerticalHeight(hs), w |-> Largest(ws)]
    [] Handler(t, p) = "Horizontal" ->
         [h |-> HorizontalHeight(atts, hs), w |-> HorizontalWidth(ws)]
    [] Handler(t, p) = "WithChildren" ->
         [h |-> ChildrenHeight(atts, hs), w |-> ChildrenWidth(ws)]
    [] Handler(t, p) = "Loop" ->
         [h |-> LoopHeight(atts, hs), w |-> ChildrenWidth(ws)]
    [] Handler(t, p) = "Generic" ->
         [h |-> GenericHeight(atts), w |-> GenericWidth]
    [] Handler(t, p) = "Subprocess" ->
         [h |-> SubprocessHeight(atts), w |-> GenericWidth]
    [] Handler(t, p) = "Symbol" ->
         [h |-> SymbolHeight(atts), w |-> TextWidth]
    [] Handler(t, p) = "Text" -> [h |-> LineHeight, w |-> TextWidth]
    [] Handler(t, p) = "Ghost" -> [h |-> 0, w |-> 35]

\* The sizes of all that is shown, the deepest first, nothing cached.
Sizes(t, shown) ==
  LET Deeper(size, n) ==
        [p \in {q \in shown : Len(q) = n} |->
           Size(t, p, Major(t, p, shown), size)] @@ size IN
  FoldLeft(Deeper, <<>>, [i \in 1..MaxNodes + 1 |-> MaxNodes + 1 - i])

\* render of each handler: the children's tops below, and their middles
\* (doubled) beside, the middle of the top of p.
VerticalPlaces(hs) ==
  [i \in DOMAIN hs |->
     [y |-> Sum([j \in 1..(i - 1) |-> hs[j] + 14]), x2 |-> 0]]

\* computeDistribution
HorizontalPlaces(atts, ws, width) ==
  [i \in DOMAIN ws |->
     [y |-> Header(atts),
      x2 |-> 2 * Sum([j \in 1..(i - 1) |-> ws[j] + 3]) + ws[i] - width]]

ChildrenPlaces(hs, ws, width) ==
  [i \in DOMAIN hs |->
     [y |-> 8 + Sum([j \in 1..(i - 1) |-> hs[j] + 10]),
      x2 |-> width - 14 - Largest(ws)]]

Places(t, p, kids, size) ==
  LET hs == [i \in DOMAIN kids |-> size[kids[i]].h]
      ws == [i \in DOMAIN kids |-> size[kids[i]].w] IN
  CASE Handler(t, p) = "Vertical" -> VerticalPlaces(hs)
    [] Handler(t, p) = "Horizontal" ->
         HorizontalPlaces(Cardinality(DOMAIN t[p].atts), ws, size[p].w)
    [] Handler(t, p) \in {"WithChildren", "Loop"} ->
         ChildrenPlaces(hs, ws, size[p].w)
    [] OTHER -> <<>>

-----------------------------------------------------------------------------
(* The editor. *)

Ifs(d) == {p \in DOMAIN d : d[p].name = "if"}

\* The page opens a definition; with two expressions "if" none (bound).
EditorInit ==
  \E t \in Flows :
    /\ Cardinality(Ifs(t)) <= 1
    /\ dom = Rendered(t)
    /\ canvas = [hide |-> FALSE, wide |-> FALSE]
    /\ current = Drawn(New(t), canvas)
    /\ undoStack = <<>> /\ past = <<>>
    /\ clipboard = <<>>
    /\ changes = 0
    /\ astray = FALSE

\* Mutant: the tree just made is pushed.
PushedNew(t) == Append(undoStack, New(t))

\* stack: the tree just left is pushed.
Pushed(t) == Append(undoStack, current)

\* triggerChange, the editor now showing d, and the page's onChange.
Change(d) ==
  /\ changes < MaxChanges /\ Cardinality(DOMAIN d) <= MaxNodes
  /\ Cardinality(Ifs(d)) <= 1
  /\ changes' = changes + 1
  /\ dom' = d
  /\ undoStack' = Pushed(ToTree(d))
  /\ past' = Append(past, Heads(dom))
  /\ current' = Drawn(New(ToTree(d)), canvas)
  /\ astray' = FALSE
  /\ UNCHANGED canvas

\* addHeadButtons: the root has no buttons but the one that adds.
HasButtons(p) == p # <<>>

NewHead(name) == [name |-> name, atts |-> <<>>, end |-> FALSE]

\* addExpression: the button's new child goes last.
AddExpression(p) ==
  LET c == Child(p, Arity(dom, p) + 1) IN
  /\ Change([With(dom, c, Leaf(NewHead("---"))) EXCEPT ![p].end = TRUE])
  /\ UNCHANGED clipboard

\* Mutant: the parent's "end" stays.
RemoveExpressionEnd(p) ==
  /\ HasButtons(p)
  /\ clipboard' = ToTree(Subtree(dom, p))
  /\ Change(Without(dom, p))

\* removeExpression: "end" goes with the last child.
RemoveExpression(p) ==
  LET d == Without(dom, p) IN
  /\ HasButtons(p)
  /\ clipboard' = ToTree(Subtree(dom, p))
  /\ Change([d EXCEPT ![Front(p)].end = @ /\ Arity(d, Front(p)) > 0])

\* moveExpression: up and down are the same exchange of two siblings.
MoveExpression(p) ==
  /\ HasButtons(p) /\ Last(p) > 1
  /\ Change(With(Without(dom, p), Sibling(p, Last(p) - 1), Subtree(dom, p)))
  /\ UNCHANGED clipboard

\* insertExpression: what was cut is pasted before p.
InsertExpression(p) ==
  /\ HasButtons(p) /\ clipboard # <<>>
  /\ Change(With(dom, p, Rendered(clipboard)))
  /\ UNCHANGED clipboard

\* The head's onblur, with the name typed over, or nothing changed.
EditHead(p, name) ==
  /\ Change([dom EXCEPT ![p].name = name])
  /\ UNCHANGED clipboard

\* undo; the page's onChange draws the tree.
Undo ==
  /\ undoStack # <<>>
  /\ dom' = Rendered(Last(undoStack).nodes)
  /\ current' = Drawn(Last(undoStack), canvas)
  /\ astray' = Last(undoStack).taken
  /\ undoStack' = Front(undoStack) /\ past' = Front(past)
  /\ UNCHANGED <<clipboard, canvas, changes>>

\* Mutant: the cached sizes stay.
ClearedNot(o) == o

\* clearDimCache.
Cleared(o) == [o EXCEPT !.sized = {}]

\* highlight: the page's onOver marks what has the expid.
Highlighted(p) ==
  {q \in Shown(current.nodes, canvas.hide) : current.nodes[q].expid = p}

\* toggleMinor and toggleVertical: only the tree drawn is sized afresh.
Toggle(f) ==
  /\ canvas' = [canvas EXCEPT ![f] = ~@]
  /\ current' = Drawn([Cleared(current) EXCEPT !.missed = FALSE], canvas')
  /\ undoStack' =
       [i \in DOMAIN undoStack |-> [undoStack[i] EXCEPT !.missed = TRUE]]
  /\ UNCHANGED <<dom, clipboard, changes, past, astray>>

EditorNext ==
  \/ \E p \in DOMAIN dom :
       \/ AddExpression(p) \/ RemoveExpression(p)
       \/ MoveExpression(p) \/ InsertExpression(p)
       \/ \E name \in Name \union {dom[p].name} : EditHead(p, name)
  \/ Undo
  \/ \E f \in {"hide", "wide"} : Toggle(f)

EditorSpec == EditorInit /\ [][EditorNext]_editorVars

-----------------------------------------------------------------------------

\* The word "end" closes the expressions with children and no other: add and
\* remove look at it and at the number of nodes to decide what to do next.
EndShown == \A p \in DOMAIN dom : dom[p].end <=> Arity(dom, p) > 0

\* What a head may be named.
Heading ==
  Name \union {"---", "_"} \union
    UNION {{t[p].name : p \in DOMAIN t} : t \in Flows}

EditorTypeOK ==
  /\ \A p \in DOMAIN dom :
       /\ dom[p].name \in Heading /\ dom[p].end \in BOOLEAN
       /\ DOMAIN dom[p].atts \subseteq {"name", "condition", "ref"}
  /\ WellFormed(dom) /\ WellFormed(current.nodes)
  /\ \A i \in DOMAIN undoStack : WellFormed(undoStack[i].nodes)
  /\ canvas \in Mode /\ changes \in 0..MaxChanges /\ astray \in BOOLEAN
  /\ Len(past) = Len(undoStack)
  /\ EndShown

\* The pointer over an expression of the editor (computeExpId) highlights
\* that expression on the canvas, or nothing when it became a condition;
\* except when undo has rendered a tree with a branch taken before.
HoverRight ==
  ~astray =>
    \A p \in DOMAIN dom :
      /\ Cardinality(Highlighted(p)) <= 1
      /\ \A q \in Highlighted(p) : current.nodes[q].name = dom[p].name

\* Undo shows what was shown before the change, unless the canvas has in the
\* meantime completed an "if" of that very tree or written an only child into
\* the attributes of a subprocess of it.
UndoRestores ==
  [][Len(undoStack') < Len(undoStack) /\ ~Last(undoStack).touched
       => Heads(dom') = Last(past)]_editorVars

\* The sizes the canvas uses are those of the way it now draws; those of a
\* tree on the undo stack are of the way it was then drawn.
SizesFresh == ~current.missed => current.sized = {canvas}

\* The gaps between children that render leaves are one wider than those that
\* getHeight counts: with twelve children or more, twenty-four in a loop, the
\* last ones lie below the box.
Crowded(t, p, kids) ==
  \/ Handler(t, p) = "WithChildren" /\ Len(kids) >= 12
  \/ Handler(t, p) = "Loop" /\ Len(kids) >= 24

\* An empty sequence has a negative height, and so has what is made of such.
Sunken(p, size) == size[p].h < 0

\* What is drawn for a child lies inside its parent's box, below the child
\* before it or beside it, the offsets of render agreeing with getHeight and
\* getWidth; but in a crowded box and beside a sunken child.
BoxesFit ==
  LET t == current.nodes
      shown == Shown(t, canvas.hide)
      size == Sizes(t, shown) IN
  \A p \in shown :
    LET kids == Major(t, p, shown)
        at == Places(t, p, kids, size) IN
    \/ Crowded(t, p, kids)
    \/ \E i \in DOMAIN kids : Sunken(kids[i], size)
    \/ \A i \in DOMAIN kids :
         /\ at[i].y >= 0 /\ at[i].y + size[kids[i]].h <= size[p].h
         /\ at[i].x2 + size[kids[i]].w <= size[p].w
         /\ size[kids[i]].w - at[i].x2 <= size[p].w
         /\ \A j \in DOMAIN kids : j < i =>
              \/ at[j].y + size[kids[j]].h <= at[i].y
              \/ at[j].x2 + size[kids[j]].w <= at[i].x2 - size[kids[i]].w
===============================================================================
