------------------------------- MODULE AjaxCall -------------------------------
(***************************************************************************)
(* What $.ajax promises of one call: it ends at most once, in one way, and *)
(* then for good; a callback hears of it once, after the end, and only of  *)
(* the end it was registered for.  Module JQueryAjax implements it.        *)
(***************************************************************************)
EXTENDS Naturals, Sequences

CONSTANTS Call

VARIABLES outcome,   \* how each call ended
          heard      \* callbacks run, in order: <<list, callback>>

vars == <<outcome, heard>>

MayHear(o) == CASE o = "success" -> {"done", "complete"}
                [] o = "error" -> {"fail", "complete"}
                [] OTHER -> {}

Init == outcome = [c \in Call |-> "pending"] /\ heard = [c \in Call |-> <<>>]

End(c) == \/ outcome'[c] = outcome[c]
          \/ outcome[c] = "pending" /\ outcome'[c] \in {"success", "error"}

\* Callbacks are called: of the list that the end of the call concerns, none
\* of them called before.
Hear(c) ==
  /\ Len(heard[c]) <= Len(heard'[c])
  /\ \A i \in 1..Len(heard[c]) : heard'[c][i] = heard[c][i]
  /\ \A i \in (Len(heard[c]) + 1)..Len(heard'[c]) :
       /\ heard'[c][i][1] \in MayHear(outcome'[c])
       /\ \A j \in 1..(i - 1) : heard'[c][j] # heard'[c][i]

Next == \A c \in Call : End(c) /\ Hear(c)

Spec == Init /\ [][Next]_vars
===============================================================================
