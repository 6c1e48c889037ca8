-------------------------- MODULE MCServiceInstances --------------------------
(* ServiceInstances for TLC: instances are interchangeable. *)
EXTENDS ServiceInstances, TLC

InstanceSymmetry == Permutations(Instance)
===============================================================================
