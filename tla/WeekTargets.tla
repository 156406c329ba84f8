----------------------------- MODULE WeekTargets ----------------------------
(***************************************************************************)
(* The weekly capacity targets of the planning board                       *)
(* (planning/workorder_plan): a rolling default, rows of their own for     *)
(* single weeks, and the same twice more for the customer groups.  The     *)
(* year grid shows every week and posts all of them back, in two           *)
(* transactions, and drops the rows that only repeat a default.            *)
(***************************************************************************)
EXTENDS PlanningRequests, Sequences, SequencesExt

CONSTANTS Weeks, PerDay, DayCounts,  \* a target is so many units on so many days
          ShownGroups, Caps          \* groups shown in the grid, their capacities

ASSUME TargetsAssumption ==
  /\ PerDay \subseteq Nat /\ DayCounts \subseteq Nat /\ Caps \subseteq Nat
  /\ 0 \in PerDay /\ 4 \in DayCounts   \* what a cell left out is read as
  /\ None \notin Caps /\ None \notin [perDay : PerDay, days : DayCounts]

VARIABLES defaults,    \* the rows with week NULL, oldest first
          weekTarget,  \* the row of a week
          groupCap,    \* CustomerGroup.weekly_capacity
          weekCap,     \* CustomerGroupCapacityTarget
          saving       \* the save in progress of each planner

targetVars == <<defaults, weekTarget, groupCap, weekCap, saving>>

Targets  == [perDay : PerDay, days : DayCounts]
Zero     == [perDay |-> 0, days |-> 4]
Blank    == None
NotSaving == [pc |-> "idle"]

TargetsInit == /\ defaults = <<>>
               /\ weekTarget = [w \in Weeks |-> None]
               /\ groupCap = [g \in ShownGroups |-> None]
               /\ weekCap = [g \in ShownGroups |-> [w \in Weeks |-> None]]
               /\ saving = [p \in Planners |-> NotSaving]

----------------------------------------------------------------------------
(* Reading: a row of its own, then the default, then nothing.              *)
DefaultsRead   == IF defaults = <<>> THEN {None} ELSE Range(defaults)
TargetOf(w, d) == IF weekTarget[w] # None THEN weekTarget[w]
                  ELSE IF d # None THEN d ELSE Zero

Units(cap)  == IF cap = None THEN 0 ELSE cap
CapOf(g, w) == IF weekCap[g][w] # None THEN weekCap[g][w] ELSE Units(groupCap[g])

(* The cells of the year grid: a zero target is shown as the default, a    *)
(* zero capacity as a blank.                                               *)
ShownTarget(w, d) == IF TargetOf(w, d).perDay > 0 THEN TargetOf(w, d)
                     ELSE IF d = None THEN Zero ELSE d
ShownCap(g, w)    == IF CapOf(g, w) = 0 THEN Blank ELSE CapOf(g, w)

----------------------------------------------------------------------------
MaySave(p) == /\ saving[p] = NotSaving
              /\ Overlap \/ \A q \in Planners : saving[q] = NotSaving

(* Save the default: find the row, then change or add it.                  *)
FindDefault(p, t) ==
  /\ MaySave(p)
  /\ saving' = [saving EXCEPT ![p] =
       [pc |-> "default", found |-> defaults # <<>>, value |-> t]]
  /\ UNCHANGED <<defaults, weekTarget, groupCap, weekCap>>

WriteDefault(p) ==
  /\ saving[p].pc = "default"
  /\ defaults' = IF saving[p].found THEN [defaults EXCEPT ![1] = saving[p].value]
                 ELSE Append(defaults, saving[p].value)
  /\ saving' = [saving EXCEPT ![p] = NotSaving]
  /\ UNCHANGED <<weekTarget, groupCap, weekCap>>

(* working_days: int(row.get("working_days", 4) or 4)                      *)
Parsed(t) == IF t.days = 0 THEN [t EXCEPT !.days = 4] ELSE t

(* Submit the grid as shown but for the cells of one week, of which either *)
(* may be cleared.  The fields "edited" to "follows" keep what the planner *)
(* entered and what the other weeks had.                                   *)
SubmitGrid(p, w, t, cap) ==
  /\ MaySave(p)
  /\ \E d \in DefaultsRead :
       saving' = [saving EXCEPT ![p] =
         [pc      |-> "weeks",
          entry   |-> [x \in Weeks |-> IF x = w THEN t ELSE ShownTarget(x, d)],
          caps    |-> [g \in ShownGroups |-> [x \in Weeks |->
                         IF x = w THEN cap ELSE ShownCap(g, x)]],
          edited  |-> w,
          target  |-> [x \in Weeks |->
                         IF x = w /\ t # Blank THEN Parsed(t) ELSE TargetOf(x, d)],
          cap     |-> [g \in ShownGroups |-> [x \in Weeks |->
                         IF x = w /\ cap # Blank THEN cap ELSE CapOf(g, x)]],
          follows |-> {x \in Weeks : IF x = w /\ t # Blank THEN Parsed(t) = d
                                     ELSE weekTarget[x] = None}]]
  /\ UNCHANGED <<defaults, weekTarget, groupCap, weekCap>>

\* Mutant: a row of zero units is dropped, as the docstring says.
NewTargetNoZero(w, entry, d) ==
  IF entry = Blank THEN weekTarget[w]
  ELSE IF Parsed(entry) = d \/ entry.perDay = 0 THEN None ELSE Parsed(entry)

NewTarget(w, entry, d) == IF entry = Blank THEN weekTarget[w]
                          ELSE IF Parsed(entry) = d THEN None ELSE Parsed(entry)

CommitWeeks(p) ==
  /\ saving[p].pc = "weeks"
  /\ \E d \in DefaultsRead :
       weekTarget' = [w \in Weeks |-> NewTarget(w, saving[p].entry[w], d)]
  /\ saving' = [saving EXCEPT ![p].pc = "groups"]
  /\ UNCHANGED <<defaults, groupCap, weekCap>>

NewCap(g, w, cap) == IF cap = Blank THEN weekCap[g][w]
                     ELSE IF cap = Units(groupCap[g]) THEN None ELSE cap

CommitGroups(p) ==
  /\ saving[p].pc = "groups"
  /\ weekCap' = [g \in ShownGroups |-> [w \in Weeks |-> NewCap(g, w, saving[p].caps[g][w])]]
  /\ saving' = [saving EXCEPT ![p] = NotSaving]
  /\ UNCHANGED <<defaults, weekTarget, groupCap>>

(* A constraint or the database refuses a transaction: what the request    *)
(* committed before stays.                                                 *)
SaveFails(p) ==
  /\ saving[p] # NotSaving
  /\ saving' = [saving EXCEPT ![p] = NotSaving]
  /\ UNCHANGED <<defaults, weekTarget, groupCap, weekCap>>

SaveGroupCapacity(g, cap) ==
  /\ \E p \in Planners : MaySave(p)
  /\ groupCap' = [groupCap EXCEPT ![g] = cap]
  /\ UNCHANGED <<defaults, weekTarget, weekCap, saving>>

(* groups_save() leaves weekly_capacity to its default, None.              *)
SaveGroupPage(g) ==
  /\ \E p \in Planners : MaySave(p)
  /\ groupCap' = [groupCap EXCEPT ![g] = None]
  /\ UNCHANGED <<defaults, weekTarget, weekCap, saving>>

DeleteWeekTarget(w) ==
  /\ \E p \in Planners : MaySave(p)
  /\ weekTarget[w] # None
  /\ weekTarget' = [weekTarget EXCEPT ![w] = None]
  /\ UNCHANGED <<defaults, groupCap, weekCap, saving>>

TargetsNext ==
  \/ \E p \in Planners :
       \/ \E t \in Targets : FindDefault(p, t)
       \/ WriteDefault(p) \/ CommitWeeks(p) \/ CommitGroups(p) \/ SaveFails(p)
       \/ \E w \in Weeks, t \in Targets \cup {Blank}, cap \in Caps \cup {Blank} :
            SubmitGrid(p, w, t, cap)
  \/ \E g \in ShownGroups : SaveGroupPage(g) \/ \E cap \in Caps \cup {None} : SaveGroupCapacity(g, cap)
  \/ \E w \in Weeks : DeleteWeekTarget(w)

----------------------------------------------------------------------------
(* "Only remove an override if values exactly match the rolling default    *)
(* (... 0 is valid)": when a save of the year grid has gone through, the   *)
(* edited week has the target entered for it, zero units included (zero    *)
(* days are read as four), or its old one if the cell was cleared.  Every  *)
(* other week with units and days has the target it had.  Of these weeks,  *)
(* those that follow the rolling default still do, so that a later default *)
(* reaches them.  All capacities are as they were or were entered, zero    *)
(* included.  Of other weeks of zero units or days nothing is said: the    *)
(* grid shows the default, or four days, in place of what they have.       *)
Whole(t) == t.perDay > 0 /\ t.days > 0

GridAsSaved ==
  [][\A p \in Planners : CommitGroups(p) =>
       \A w \in Weeks, d \in DefaultsRead :
         /\ w = saving[p].edited \/ Whole(saving[p].target[w]) =>
              /\ TargetOf(w, d) = saving[p].target[w]
              /\ w \in saving[p].follows => weekTarget[w] = None
         /\ \A g \in ShownGroups : CapOf(g, w)' = saving[p].cap[g][w]]_targetVars

(* Every other week keeps its target, a zero too.  This does not hold: a   *)
(* week of zero units is shown with the default, posted back with it, and  *)
(* the row that said zero is removed.                                      *)
ZeroStands ==
  [][\A p \in Planners : CommitGroups(p) =>
       \A w \in Weeks, d \in DefaultsRead : TargetOf(w, d) = saving[p].target[w]]_targetVars

(* There is one rolling default (only while requests do not overlap: the   *)
(* unique constraint does not hold for NULL).                              *)
OneDefault == Len(defaults) <= 1
=============================================================================
