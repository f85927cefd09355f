---------------------------- MODULE MCScheduler ----------------------------
(* An instance of Scheduler for TLC: the at id is a model value, so that it  *)
(* differs from the unit identifiers it stands beside in the registry row.   *)
EXTENDS Scheduler

CONSTANT a1
=============================================================================
