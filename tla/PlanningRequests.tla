-------------------------- MODULE PlanningRequests --------------------------
(***************************************************************************)
(* What the modules of the planning area share: the requests that may be   *)
(* in progress and the database they run on.                               *)
(***************************************************************************)
EXTENDS Naturals, FiniteSets, FiniteSetsExt

CONSTANTS Planners,  \* requests that may be in progress at a time
          Groups,    \* customer groups
          None,
          Overlap,   \* may requests overlap where the code reads, then writes?
          Database,  \* "sqlite": ids of deleted rows are given again; "postgres"
          MaxRows    \* bound on the ids given to rows

ASSUME PlanningAssumption == /\ Overlap \in BOOLEAN /\ MaxRows \in Nat
                             /\ Database \in {"sqlite", "postgres"}
                             /\ None \notin Groups
=============================================================================
