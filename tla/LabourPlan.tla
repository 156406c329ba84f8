----------------------------- MODULE LabourPlan -----------------------------
(***************************************************************************)
(* The labour plan (planning/capacity): available hours of a department    *)
(* on a day.  An import of the spreadsheet replaces every row that no      *)
(* planner has touched; planners change single days, by the id the page    *)
(* was drawn with or by the date, and generate whole ranges.               *)
(***************************************************************************)
EXTENDS PlanningRequests

CONSTANTS Slots,  \* a slot is a department on a day
          Hours

ASSUME LabourAssumption == IsFiniteSet(Slots) /\ None \notin Hours

VARIABLES buckets,   \* rows [id, slot, hours, manual]
          lastBucket,\* PostgreSQL's sequence
          upload,    \* the result of the last import
          editing    \* the request in progress of each planner

labourVars == <<buckets, lastBucket, upload, editing>>

NotEditing == [pc |-> "idle"]
At(s)      == {b \in buckets : b.slot = s}
WithId(i)  == {b \in buckets : b.id = i}
HoursOf(s) == IF At(s) = {} THEN None ELSE (CHOOSE b \in At(s) : TRUE).hours
ByHand     == {s \in Slots : \E b \in At(s) : b.manual}

LabourInit == /\ buckets = {} /\ lastBucket = 0 /\ upload = "none"
              /\ editing = [p \in Planners |-> NotEditing]

FirstId(rows) == IF Database = "postgres" THEN lastBucket + 1
                 ELSE IF rows = {} THEN 1 ELSE Max({b.id : b \in rows}) + 1

(* New rows for some slots, with ids in any order of the slots.            *)
Added(rows, slots, hours, manual) ==
  LET n == Cardinality(slots)  ids == FirstId(rows) .. FirstId(rows) + n - 1 IN
  {rows \cup {[id |-> f[s], slot |-> s, hours |-> hours[s], manual |-> manual] : s \in slots} :
     f \in {g \in [slots -> ids] : \A s, t \in slots : g[s] = g[t] => s = t}}

Store(rows, slots, hours, manual) ==
  /\ FirstId(rows) + Cardinality(slots) - 1 <= MaxRows
  /\ buckets' \in Added(rows, slots, hours, manual)
  /\ lastBucket' = IF Database = "postgres" THEN lastBucket + Cardinality(slots) ELSE lastBucket

----------------------------------------------------------------------------
\* Mutant: an import replaces every row of the plan.
ImportPlanOverAll(hours) ==
  /\ Store({}, DOMAIN hours, hours, FALSE)
  /\ upload' = "success" /\ UNCHANGED editing

(* LabourPlanImporter: the untouched rows go, a row per slot of the sheet  *)
(* comes; one that a planner holds makes the unique key refuse them all.   *)
ImportPlan(hours) ==
  LET sheet == DOMAIN hours IN
  /\ sheet \cap ByHand = {}
  /\ Store({b \in buckets : b.manual}, sheet, hours, FALSE)
  /\ upload' = "success" /\ UNCHANGED editing

ImportPlanFails(sheet) ==
  /\ sheet \cap ByHand # {}
  /\ upload' = "failed" /\ UNCHANGED <<buckets, lastBucket, editing>>

----------------------------------------------------------------------------
StartEdit(p, request) ==
  /\ editing[p] = NotEditing
  /\ Overlap \/ \A q \in Planners : editing[q] = NotEditing
  /\ editing' = [editing EXCEPT ![p] = request]
  /\ UNCHANGED <<buckets, lastBucket, upload>>

(* override_bucket(), labour_plan_save() with the id the page was drawn    *)
(* with: the slot is the one the planner looked at.                        *)
OpenBucket(p, b, h) ==
  StartEdit(p, [pc |-> "page", slots |-> {b.slot}, hours |-> h, id |-> b.id])

FindBucket(p) ==
  /\ editing[p].pc = "page" /\ WithId(editing[p].id) # {}
  /\ editing' = [editing EXCEPT ![p] =
       [pc |-> "write", slots |-> @.slots, hours |-> @.hours, skip |-> FALSE,
        seen |-> WithId(@.id), new |-> {}]]
  /\ UNCHANGED <<buckets, lastBucket, upload>>

(* labour_plan_save() with a date, labour_plan_bulk_generate(): the rows   *)
(* of the slots are loaded first.                                          *)
FindSlots(p, slots, h, skip) ==
  LET found == {b \in buckets : b.slot \in slots} IN
  StartEdit(p, [pc |-> "write", slots |-> slots, hours |-> h, skip |-> skip,
            seen |-> {b \in found : ~(skip /\ b.manual)},
            new |-> slots \ {b.slot : b \in found}])

Lost(p)    == \E b \in editing[p].seen : WithId(b.id) = {}
Clashes(p) == \E s \in editing[p].new : At(s) # {}

WriteHours(p) ==
  LET r == editing[p]  ids == {b.id : b \in r.seen} IN
  /\ r.pc = "write" /\ ~Lost(p) /\ ~Clashes(p)
  /\ Store({IF b.id \in ids THEN [b EXCEPT !.hours = r.hours, !.manual = TRUE] ELSE b :
              b \in buckets}, r.new, [s \in r.new |-> r.hours], TRUE)
  /\ editing' = [editing EXCEPT ![p] = NotEditing]
  /\ UNCHANGED upload

(* Not found, no row matched, a unique key or any other error.             *)
EditFails(p) ==
  /\ \/ editing[p].pc = "page" /\ WithId(editing[p].id) = {}
     \/ editing[p].pc = "write" /\ (Lost(p) \/ Clashes(p))
  /\ editing' = [editing EXCEPT ![p] = NotEditing]
  /\ UNCHANGED <<buckets, lastBucket, upload>>

LabourNext ==
  \/ \E sheet \in (SUBSET Slots) \ {{}} :
       \/ \E hours \in [sheet -> Hours] : ImportPlan(hours)
       \/ ImportPlanFails(sheet)
  \/ \E p \in Planners :
       \/ \E b \in buckets, h \in Hours : OpenBucket(p, b, h)
       \/ \E slots \in (SUBSET Slots) \ {{}}, h \in Hours, skip \in BOOLEAN :
            FindSlots(p, slots, h, skip)
       \/ FindBucket(p) \/ WriteHours(p) \/ EditFails(p)

----------------------------------------------------------------------------
(* "Manually overridden buckets are preserved": hours entered by hand      *)
(* change only when a planner changes that very day, a generation that     *)
(* skips manual entries leaves them, and only a day a planner chose        *)
(* becomes manual, although imports replace the rows under open pages.     *)
ManualHoursStand ==
  [][\A s \in Slots :
       /\ s \in ByHand => s \in ByHand'
       /\ (s \in ByHand /\ HoursOf(s)' # HoursOf(s)) \/ s \in ByHand' \ ByHand =>
            \E p \in Planners : /\ editing[p].pc = "write" /\ WriteHours(p)
                                /\ s \in editing[p].slots
                                /\ editing[p].skip => s \notin ByHand]_labourVars

(* An import of the plan is never refused because of manual entries.       *)
ImportAccepted == [](upload # "failed")
=============================================================================
