---------------------------- MODULE MCPeriodicTasks ----------------------------
(* PeriodicTasks with start hours before, in and after a day of two hours. *)
EXTENDS PeriodicTasks

Hours == -1..2
================================================================================
