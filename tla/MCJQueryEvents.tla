---------------------------- MODULE MCJQueryEvents ----------------------------
(* JQueryEvents with a symmetry set: the functions of the page are alike,   *)
(* and nothing orders them.                                                 *)
EXTENDS JQueryEvents, TLC

FnSymmetry == Permutations(Fn)
===============================================================================
