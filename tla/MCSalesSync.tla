---------------------------- MODULE MCSalesSync ----------------------------
(***************************************************************************)
(* SalesSync for TLC: orders, and runs, are interchangeable.               *)
(***************************************************************************)
EXTENDS SalesSync, TLC

Symmetry == Permutations(Orders) \cup Permutations(Runs)
=============================================================================
