---------------------------- MODULE MCWorkItems ----------------------------
(***************************************************************************)
(* WorkItems for TLC: tasks, and requests, are interchangeable.            *)
(***************************************************************************)
EXTENDS WorkItems, TLC

Symmetry == Permutations(Tasks) \cup Permutations(Requests)
=============================================================================
