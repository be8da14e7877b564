---------------------------- MODULE MCScheduler ----------------------------
(* Instances of the scheduler for TLC: how the items share projects. *)
EXTENDS Scheduler

OwnProject == [i \in Items |-> i]
OneProject == [i \in Items |-> CHOOSE p \in Projects : TRUE]
=============================================================================
