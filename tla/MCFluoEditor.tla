----------------------------- MODULE MCFluoEditor -----------------------------
(* Definitions for the editor to open. *)
EXTENDS FluoEditor

Node(name) == [name |-> name, atts |-> <<>>, expid |-> None]

Defining(sub) == [Node("define") EXCEPT !.atts = [name |-> sub]]

\* A condition that is still a child, and a subprocess of one child.
Small ==
  {<<>> :> Node("cursor") @@ <<1>> :> Node("if") @@ <<1, 1>> :> Node("set"),
   <<>> :> Node("subprocess") @@ <<1>> :> Node("set")}

\* A definition, and a loop, with as many children as their boxes hold, and
\* one more; one of the children is named like the definition.
Broad(root, n) ==
  [p \in {<<>>} \union {<<i>> : i \in 1..n} |->
     IF p = <<>> THEN root ELSE Node(IF p[1] = 2 THEN "sub" ELSE "set")]

Large ==
  {Broad(Defining("sub"), n) : n \in 11..12} \union
    {Broad(Node("loop"), n) : n \in 23..24}

Opened == Small \union Large
===============================================================================
