-------------------------- MODULE MCSyncScheduler --------------------------
(***************************************************************************)
(* Model-checking instances of SyncScheduler: the properties, and the      *)
(* environments the runs use.                                              *)
(***************************************************************************)
EXTENDS SchedulerProperties, TLC

Symmetry == Permutations(Workers) \cup Permutations(Jobs) \cup Permutations(Runs)
=============================================================================
