---------------------------- MODULE PlanningDesk ----------------------------
(***************************************************************************)
(* The planning area as a whole: weekly targets, customer groups, planning *)
(* sessions and the labour plan keep tables of their own and share no row, *)
(* so every behaviour studies one of them and leaves the others alone.     *)
(***************************************************************************)
EXTENDS WeekTargets, CustomerGroups, PlanSessions, LabourPlan

VARIABLE area

planningVars == <<area, targetVars, groupVars, sessionVars, labourVars>>

PlanningInit == /\ area \in {"targets", "groups", "sessions", "labour"}
        /\ TargetsInit /\ GroupsInit /\ SessionsInit /\ LabourInit

PlanningNext ==
  /\ UNCHANGED area
  /\ \/ /\ area = "targets" /\ TargetsNext
        /\ UNCHANGED <<groupVars, sessionVars, labourVars>>
     \/ /\ area = "groups" /\ GroupsNext
        /\ UNCHANGED <<targetVars, sessionVars, labourVars>>
     \/ /\ area = "sessions" /\ SessionsNext
        /\ UNCHANGED <<targetVars, groupVars, labourVars>>
     \/ /\ area = "labour" /\ LabourNext
        /\ UNCHANGED <<targetVars, groupVars, sessionVars>>

PlanningSpec == PlanningInit /\ [][PlanningNext]_planningVars
=============================================================================
