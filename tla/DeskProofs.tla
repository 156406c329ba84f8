----------------------------- MODULE DeskProofs -----------------------------
(***************************************************************************)
(* Theorems about the desks.  First the planning desk, for any planners,   *)
(* groups, customers, departments and days: each behaviour works in one    *)
(* area, so every area has an invariant of its own, kept by the steps of   *)
(* that area and by those that leave its tables alone.  Then the desks of  *)
(* module OfficeDesks: the history of shipped loads, the order of a job's  *)
(* items and the lockout of failed logins.                                 *)
(***************************************************************************)
EXTENDS PlanningDesk, OfficeDesks, FiniteSetTheorems, SequenceTheorems, TLAPS

(***************************************************************************)
(* WEEKLY TARGETS.  While saves do not overlap, the year grid shows and    *)
(* posts back the week it read: between its two transactions nothing else  *)
(* is written, so what a save has still to write is what its planner saw.  *)
(***************************************************************************)
GridSaves == [pc : {"weeks", "groups"}, entry : [Weeks -> Targets \cup {None}],
              caps : [ShownGroups -> [Weeks -> Caps \cup {None}]], edited : Weeks,
              target : [Weeks -> Targets], cap : [ShownGroups -> [Weeks -> Caps \cup {0}]],
              follows : SUBSET Weeks]
Saves     == {NotSaving} \cup GridSaves
             \cup [pc : {"default"}, found : BOOLEAN, value : Targets]

TargetsType == /\ weekTarget \in [Weeks -> Targets \cup {None}]
               /\ groupCap \in [ShownGroups -> Caps \cup {None}]
               /\ weekCap \in [ShownGroups -> [Weeks -> Caps \cup {None}]]
               /\ saving \in [Planners -> Saves]

OneSave == \A p, q \in Planners : saving[p] # NotSaving /\ saving[q] # NotSaving => p = q

(* The rolling default is not set, or is one row.                          *)
DefaultIs(d) == /\ d \in Targets \cup {None}
                /\ defaults = IF d = None THEN <<>> ELSE <<d>>

(* What a save still has to write is what its planner saw and entered, and *)
(* what it has written reads as that.                                      *)
CapsDue(r) == \A g \in ShownGroups, w \in Weeks :
                r.cap[g][w] = IF r.caps[g][w] = Blank THEN CapOf(g, w) ELSE r.caps[g][w]

Judged(r, w)   == w = r.edited \/ Whole(r.target[w])
Stands(r, w, d) == /\ TargetOf(w, d) = r.target[w]
                   /\ w \in r.follows => weekTarget[w] = None
Written(r, w, d) == /\ Parsed(r.entry[w]) = r.target[w]
                    /\ w \in r.follows => r.target[w] = d
WeeksDue(r, d)  == \A w \in Weeks : Judged(r, w) =>
                     IF r.entry[w] = Blank THEN Stands(r, w, d) ELSE Written(r, w, d)
WeeksDone(r, d) == \A w \in Weeks : Judged(r, w) => Stands(r, w, d)
SaveDue(r, d) == /\ r.pc = "default" => r.found = (d # None)
                 /\ r.pc \in {"weeks", "groups"} => CapsDue(r)
                 /\ r.pc = "weeks" => WeeksDue(r, d)
                 /\ r.pc = "groups" => WeeksDone(r, d)

TargetsInv == /\ TargetsType /\ OneSave
              /\ \E d : DefaultIs(d) /\ \A p \in Planners : SaveDue(saving[p], d)

----------------------------------------------------------------------------
(* The only row with week NULL, or its absence, is what is read.           *)
LEMMA OnlyDefault ==
  ASSUME NEW d, DefaultIs(d)
  PROVE  DefaultsRead = {d} /\ (defaults # <<>> <=> d # None)
<1>1. CASE d = None
  BY <1>1 DEF DefaultIs, DefaultsRead
<1>2. CASE d # None
  <2>1. defaults = <<d>>
    BY <1>2 DEF DefaultIs
  <2>2. defaults # <<>> /\ Range(defaults) = {d}
    BY <2>1 DEF Range
  <2> QED BY <1>2, <2>2 DEF DefaultsRead
<1> QED BY <1>1, <1>2

(* A blank is no target, and a number of days left out is four.            *)
LEMMA TargetFacts ==
  /\ Zero \in Targets /\ None \notin Targets /\ ~Whole(Zero)
  /\ \A t \in Targets : /\ Parsed(t) \in Targets /\ t.perDay \in Nat /\ t.days \in Nat
                        /\ Whole(t) => Parsed(t) = t
<1>1. Zero \in Targets /\ None \notin Targets /\ ~Whole(Zero)
  BY TargetsAssumption DEF Zero, Targets, Whole
<1>2. ASSUME NEW t \in Targets
      PROVE  /\ Parsed(t) \in Targets /\ t.perDay \in Nat /\ t.days \in Nat
             /\ Whole(t) => Parsed(t) = t
  <2>1. t.perDay \in PerDay /\ t.days \in DayCounts /\ t.perDay \in Nat /\ t.days \in Nat
    BY TargetsAssumption DEF Targets
  <2>2. [t EXCEPT !.days = 4] \in Targets
    BY TargetsAssumption DEF Targets
  <2>3. Whole(t) => t.days # 0
    BY <2>1 DEF Whole
  <2> QED BY <2>1, <2>2, <2>3 DEF Parsed
<1> QED BY <1>1, <1>2

(* What a week's target, and its capacity, may be.                         *)
LEMMA TargetTypes ==
  ASSUME TargetsType, NEW d \in Targets \cup {None}, NEW w \in Weeks
  PROVE  /\ TargetOf(w, d) \in Targets /\ ShownTarget(w, d) \in Targets
         /\ Whole(TargetOf(w, d)) =>
              /\ ShownTarget(w, d) = TargetOf(w, d)
              /\ weekTarget[w] = None => TargetOf(w, d) = d
<1>1. weekTarget[w] \in Targets \cup {None}
  BY DEF TargetsType
<1>2. TargetOf(w, d) \in Targets
  BY <1>1, TargetFacts DEF TargetOf
<1>3. ShownTarget(w, d) \in Targets
  BY <1>2, TargetFacts DEF ShownTarget
<1>4. Whole(TargetOf(w, d)) => ShownTarget(w, d) = TargetOf(w, d)
  BY DEF Whole, ShownTarget
<1>5. Whole(TargetOf(w, d)) /\ weekTarget[w] = None => TargetOf(w, d) = d
  BY TargetFacts DEF TargetOf
<1> QED BY <1>2, <1>3, <1>4, <1>5

LEMMA CapTypes ==
  ASSUME TargetsType, NEW g \in ShownGroups, NEW w \in Weeks
  PROVE  /\ CapOf(g, w) \in Caps \cup {0}
         /\ ShownCap(g, w) \in Caps \cup {None}
         /\ ShownCap(g, w) # Blank => ShownCap(g, w) = CapOf(g, w)
<1>1. weekCap[g][w] \in Caps \cup {None} /\ groupCap[g] \in Caps \cup {None}
  BY DEF TargetsType
<1>2. Units(groupCap[g]) \in Caps \cup {0}
  BY <1>1 DEF Units
<1>3. CapOf(g, w) \in Caps \cup {0}
  BY <1>1, <1>2 DEF CapOf
<1> QED BY <1>3 DEF ShownCap, Blank

(* What a save in progress is.                                             *)
LEMMA SaveTypes ==
  ASSUME NEW r \in Saves
  PROVE  /\ r # NotSaving => r.pc # "idle"
         /\ r.pc \in {"weeks", "groups"} => r \in GridSaves /\ r # NotSaving
         /\ r.pc = "default" => r.value \in Targets /\ r # NotSaving
<1> DEFINE S == [pc : {"default"}, found : BOOLEAN, value : Targets]
<1>1. CASE r = NotSaving
  BY <1>1 DEF NotSaving
<1>2. CASE r \in GridSaves
  <2>1. r.pc \in {"weeks", "groups"}
    BY <1>2 DEF GridSaves
  <2> QED BY <1>2, <2>1 DEF NotSaving
<1>3. CASE r \in S
  <2>1. r.pc = "default" /\ r.value \in Targets
    BY <1>3
  <2>2. r # NotSaving
    BY <2>1 DEF NotSaving
  <2> QED BY <2>1, <2>2
<1> QED BY <1>1, <1>2, <1>3 DEF Saves

LEMMA TargetsInitHolds == TargetsInit => TargetsInv
<1> SUFFICES ASSUME TargetsInit PROVE TargetsInv
  OBVIOUS
<1>1. DefaultIs(None)
  BY DEF TargetsInit, DefaultIs
<1>2. \A p \in Planners : saving[p] = NotSaving
  BY DEF TargetsInit
<1>3. NotSaving.pc = "idle"
  BY DEF NotSaving
<1>4. \A p \in Planners : SaveDue(saving[p], None)
  BY <1>2, <1>3 DEF SaveDue
<1>5. TargetsType
  BY DEF TargetsType, TargetsInit, Saves
<1>6. OneSave
  BY <1>2 DEF OneSave
<1> QED BY <1>1, <1>4, <1>5, <1>6 DEF TargetsInv

(* When a request ends, nothing is due of it.                              *)
LEMMA SaveEnds ==
  ASSUME NEW p \in Planners, saving \in [Planners -> Saves], OneSave,
         saving[p] # NotSaving, saving' = [saving EXCEPT ![p] = NotSaving]
  PROVE  /\ saving' \in [Planners -> Saves]
         /\ OneSave'
         /\ \A q \in Planners : saving'[q] = NotSaving
<1>1. NotSaving \in Saves
  BY DEF Saves
<1>2. \A q \in Planners : saving'[q] = IF q = p THEN NotSaving ELSE saving[q]
  OBVIOUS
<1>3. \A q \in Planners : q # p => saving[q] = NotSaving
  BY DEF OneSave
<1>4. \A q \in Planners : saving'[q] = NotSaving
  BY <1>2, <1>3
<1> QED BY <1>1, <1>4 DEF OneSave

LEMMA NothingDue ==
  ASSUME NEW d, \A q \in Planners : saving'[q] = NotSaving
  PROVE  \A q \in Planners : SaveDue(saving[q], d)'
<1>1. NotSaving.pc = "idle"
  BY DEF NotSaving
<1> QED BY <1>1 DEF SaveDue

(* A request that begins while none is in progress is the only one.        *)
LEMMA SaveBegins ==
  ASSUME NEW p \in Planners, NEW r \in Saves, saving \in [Planners -> Saves],
         Overlap = FALSE, MaySave(p), saving' = [saving EXCEPT ![p] = r]
  PROVE  /\ saving' \in [Planners -> Saves] /\ OneSave'
         /\ \A q \in Planners : saving'[q] = IF q = p THEN r ELSE NotSaving
<1>1. \A q \in Planners : saving[q] = NotSaving
  BY DEF MaySave
<1>2. \A q \in Planners : saving'[q] = IF q = p THEN r ELSE NotSaving
  BY <1>1
<1> QED BY <1>2 DEF OneSave

(* A save of the default finds its row and replaces it, or adds it.        *)
LEMMA FindDefaultKeeps ==
  ASSUME TargetsInv, Overlap = FALSE, NEW p \in Planners, NEW t \in Targets,
         FindDefault(p, t)
  PROVE  TargetsInv'
<1>1. PICK d : DefaultIs(d)
  BY DEF TargetsInv
<1> DEFINE r == [pc |-> "default", found |-> defaults # <<>>, value |-> t]
<1>2. r.pc = "default" /\ r.found = (defaults # <<>>) /\ r \in Saves
  BY DEF Saves
<1>3. saving \in [Planners -> Saves] /\ saving' = [saving EXCEPT ![p] = r] /\ MaySave(p)
  BY DEF FindDefault, TargetsInv, TargetsType
<1> HIDE DEF r
<1>4. /\ saving' \in [Planners -> Saves] /\ OneSave'
      /\ \A q \in Planners : saving'[q] = IF q = p THEN r ELSE NotSaving
  BY <1>2, <1>3, SaveBegins
<1>5. UNCHANGED <<defaults, weekTarget, groupCap, weekCap>>
  BY DEF FindDefault
<1>6. r.found = (d # None) /\ NotSaving.pc = "idle"
  BY <1>1, <1>2, OnlyDefault, Zenon DEF NotSaving
<1>7. \A q \in Planners : SaveDue(saving[q], d)'
  BY <1>2, <1>4, <1>6 DEF SaveDue
<1>8. DefaultIs(d)' /\ TargetsType'
  BY <1>1, <1>4, <1>5 DEF DefaultIs, TargetsInv, TargetsType
<1> QED BY <1>4, <1>7, <1>8 DEF TargetsInv

LEMMA WriteDefaultKeeps ==
  ASSUME TargetsInv, NEW p \in Planners, WriteDefault(p)
  PROVE  TargetsInv'
<1>1. PICK d : DefaultIs(d) /\ \A q \in Planners : SaveDue(saving[q], d)
  BY DEF TargetsInv
<1>2. /\ saving \in [Planners -> Saves] /\ OneSave /\ saving[p].pc = "default"
      /\ saving' = [saving EXCEPT ![p] = NotSaving]
      /\ UNCHANGED <<weekTarget, groupCap, weekCap>>
  BY DEF WriteDefault, TargetsInv, TargetsType
<1>3. saving[p] # NotSaving /\ saving[p].value \in Targets
  BY <1>2, SaveTypes
<1>4. PICK v \in Targets : v = saving[p].value
  BY <1>3
<1>5. saving[p].found = (d # None)
  BY <1>1, <1>2 DEF SaveDue
<1>6. defaults' = IF d # None THEN [defaults EXCEPT ![1] = v] ELSE Append(defaults, v)
  BY <1>4, <1>5 DEF WriteDefault
<1>7. defaults' = <<v>>
  <2>1. CASE d = None
    BY <1>1, <1>6, <2>1 DEF DefaultIs
  <2>2. CASE d # None
    <3>1. defaults = <<d>>
      BY <1>1, <2>2 DEF DefaultIs
    <3>2. [<<d>> EXCEPT ![1] = v] = <<v>>
      OBVIOUS
    <3> QED BY <1>6, <2>2, <3>1, <3>2
  <2> QED BY <2>1, <2>2
<1>8. DefaultIs(v)'
  BY <1>7, TargetFacts DEF DefaultIs
<1>9. /\ saving' \in [Planners -> Saves] /\ OneSave'
      /\ \A q \in Planners : saving'[q] = NotSaving
  BY <1>2, <1>3, SaveEnds
<1>10. \A q \in Planners : SaveDue(saving[q], v)'
  BY <1>9, NothingDue
<1>11. TargetsType'
  BY <1>2, <1>9 DEF TargetsInv, TargetsType
<1> QED BY <1>8, <1>9, <1>10, <1>11 DEF TargetsInv

LEMMA SaveFailsKeeps ==
  ASSUME TargetsInv, NEW p \in Planners, SaveFails(p)
  PROVE  TargetsInv'
<1>1. PICK d : DefaultIs(d)
  BY DEF TargetsInv
<1>2. /\ saving \in [Planners -> Saves] /\ OneSave /\ saving[p] # NotSaving
      /\ saving' = [saving EXCEPT ![p] = NotSaving]
  BY DEF SaveFails, TargetsInv, TargetsType
<1>3. saving' \in [Planners -> Saves] /\ OneSave' /\ \A q \in Planners : saving'[q] = NotSaving
  BY <1>2, SaveEnds
<1>4. \A q \in Planners : SaveDue(saving[q], d)'
  BY <1>3, NothingDue
<1>5. TargetsType' /\ DefaultIs(d)'
  BY <1>1, <1>3 DEF TargetsInv, TargetsType, SaveFails, DefaultIs
<1> QED BY <1>3, <1>4, <1>5 DEF TargetsInv

(* While no request is in progress nothing is due, whatever is changed.    *)
LEMMA NoSave ==
  ASSUME TargetsInv, Overlap = FALSE, \E p \in Planners : MaySave(p),
         UNCHANGED <<defaults, saving>>,
         weekTarget' \in [Weeks -> Targets \cup {None}],
         groupCap' \in [ShownGroups -> Caps \cup {None}],
         weekCap' \in [ShownGroups -> [Weeks -> Caps \cup {None}]]
  PROVE  TargetsInv'
<1>1. PICK d : DefaultIs(d)
  BY DEF TargetsInv
<1>2. \A q \in Planners : saving'[q] = NotSaving
  BY DEF MaySave
<1>3. TargetsType' /\ OneSave' /\ DefaultIs(d)'
  BY <1>1, <1>2 DEF TargetsType, TargetsInv, OneSave, DefaultIs
<1>4. \A q \in Planners : SaveDue(saving[q], d)'
  BY <1>2, NothingDue
<1> QED BY <1>3, <1>4 DEF TargetsInv

(* The grid a planner submits shows every other week with units and days   *)
(* as it reads.                                                            *)
LEMMA SubmitGridKeeps ==
  ASSUME TargetsInv, Overlap = FALSE, NEW p \in Planners, NEW w \in Weeks,
         NEW t \in Targets \cup {Blank}, NEW cap \in Caps \cup {Blank},
         SubmitGrid(p, w, t, cap)
  PROVE  TargetsInv'
<1>1. PICK d : DefaultIs(d)
  BY DEF TargetsInv
<1>2. DefaultsRead = {d} /\ TargetsType /\ d \in Targets \cup {None}
  BY <1>1, OnlyDefault DEF TargetsInv, DefaultIs
<1> DEFINE entry == [x \in Weeks |-> IF x = w THEN t ELSE ShownTarget(x, d)]
           caps == [g \in ShownGroups |-> [x \in Weeks |->
                      IF x = w THEN cap ELSE ShownCap(g, x)]]
           target == [x \in Weeks |->
                        IF x = w /\ t # Blank THEN Parsed(t) ELSE TargetOf(x, d)]
           due == [g \in ShownGroups |-> [x \in Weeks |->
                      IF x = w /\ cap # Blank THEN cap ELSE CapOf(g, x)]]
           follows == {x \in Weeks : IF x = w /\ t # Blank THEN Parsed(t) = d
                                     ELSE weekTarget[x] = None}
           r == [pc |-> "weeks", entry |-> entry, caps |-> caps, edited |-> w,
                 target |-> target, cap |-> due, follows |-> follows]
<1>3. \A x \in Weeks : /\ TargetOf(x, d) \in Targets /\ ShownTarget(x, d) \in Targets
                       /\ Whole(TargetOf(x, d)) =>
                            /\ ShownTarget(x, d) = TargetOf(x, d)
                            /\ weekTarget[x] = None => TargetOf(x, d) = d
  BY <1>2, TargetTypes
<1>4. \A g \in ShownGroups, x \in Weeks :
        /\ CapOf(g, x) \in Caps \cup {0} /\ ShownCap(g, x) \in Caps \cup {None}
        /\ ShownCap(g, x) # Blank => ShownCap(g, x) = CapOf(g, x)
  BY <1>2, CapTypes
<1>5. entry \in [Weeks -> Targets \cup {None}] /\ target \in [Weeks -> Targets]
  BY <1>3, TargetFacts DEF Blank
<1>6. /\ caps \in [ShownGroups -> [Weeks -> Caps \cup {None}]]
      /\ due \in [ShownGroups -> [Weeks -> Caps \cup {0}]]
  <2>1. \A g \in ShownGroups, x \in Weeks :
          /\ (IF x = w THEN cap ELSE ShownCap(g, x)) \in Caps \cup {None}
          /\ (IF x = w /\ cap # Blank THEN cap ELSE CapOf(g, x)) \in Caps \cup {0}
    BY <1>4 DEF Blank
  <2> QED BY <2>1
<1>7. \A g \in ShownGroups, x \in Weeks :
        due[g][x] = IF caps[g][x] = Blank THEN CapOf(g, x) ELSE caps[g][x]
  BY <1>4
<1>8. \A x \in Weeks : x = w \/ Whole(target[x]) =>
        IF entry[x] = Blank
        THEN TargetOf(x, d) = target[x] /\ (x \in follows => weekTarget[x] = None)
        ELSE Parsed(entry[x]) = target[x] /\ (x \in follows => target[x] = d)
  <2> SUFFICES ASSUME NEW x \in Weeks, x = w \/ Whole(target[x])
               PROVE  IF entry[x] = Blank
                      THEN TargetOf(x, d) = target[x] /\ (x \in follows => weekTarget[x] = None)
                      ELSE Parsed(entry[x]) = target[x] /\ (x \in follows => target[x] = d)
    OBVIOUS
  <2>1. CASE x = w
    BY <2>1
  <2>2. CASE x # w
    <3>1. target[x] = TargetOf(x, d) /\ entry[x] = ShownTarget(x, d) /\ Whole(target[x])
      BY <2>2
    <3>2. entry[x] = target[x] /\ entry[x] \in Targets /\ entry[x] # Blank
      BY <1>3, <3>1, TargetFacts DEF Blank
    <3>3. Parsed(entry[x]) = target[x]
      BY <3>1, <3>2, TargetFacts
    <3>4. x \in follows => target[x] = d
      BY <1>3, <2>2, <3>1
    <3> QED BY <3>2, <3>3, <3>4
  <2> QED BY <2>1, <2>2
<1>9. saving' = [saving EXCEPT ![p] = r] /\ MaySave(p)
  BY <1>2 DEF SubmitGrid
<1> HIDE DEF entry, caps, target, due, follows
<1>10. r \in GridSaves
  <2>1. follows \in SUBSET Weeks
    BY DEF follows
  <2> QED BY <1>5, <1>6, <2>1 DEF GridSaves
<1>11. PICK s \in GridSaves : s = r
  BY <1>10
<1>12. s.pc = "weeks" /\ CapsDue(s) /\ WeeksDue(s, d)
  <2>1. s.pc = "weeks" /\ CapsDue(s)
    BY <1>7, <1>11 DEF CapsDue
  <2>2. /\ s.entry = entry /\ s.target = target /\ s.follows = follows
        /\ s.edited = w
    BY <1>11
  <2>3. WeeksDue(s, d)
    BY <1>8, <2>2 DEF WeeksDue, Judged, Stands, Written
  <2> QED BY <2>1, <2>3
<1>13. s \in Saves /\ saving' = [saving EXCEPT ![p] = s] /\ saving \in [Planners -> Saves]
  BY <1>2, <1>9, <1>11 DEF Saves, TargetsType
<1>14. /\ saving' \in [Planners -> Saves] /\ OneSave'
       /\ \A q \in Planners : saving'[q] = IF q = p THEN s ELSE NotSaving
  BY <1>9, <1>13, SaveBegins
<1>15. UNCHANGED <<defaults, weekTarget, groupCap, weekCap>>
  BY DEF SubmitGrid
<1>16. CapsDue(s)' /\ WeeksDue(s, d)'
  <2>1. \A g \in ShownGroups, x \in Weeks : CapOf(g, x)' = CapOf(g, x)
    BY <1>15 DEF CapOf, Units
  <2>2. \A x \in Weeks : TargetOf(x, d)' = TargetOf(x, d)
    BY <1>15 DEF TargetOf
  <2>3. CapsDue(s)'
    BY <1>12, <2>1 DEF CapsDue
  <2>4. \A x \in Weeks : Stands(s, x, d)' <=> Stands(s, x, d)
    BY <1>15, <2>2 DEF Stands
  <2>5. WeeksDue(s, d)'
    BY <1>12, <2>4 DEF WeeksDue, Judged, Written
  <2> QED BY <2>3, <2>5
<1>17. \A q \in Planners : SaveDue(saving[q], d)'
  <2>1. NotSaving.pc = "idle"
    BY DEF NotSaving
  <2>2. SaveDue(s, d)'
    BY <1>12, <1>16 DEF SaveDue
  <2> QED BY <1>14, <2>1, <2>2 DEF SaveDue
<1>18. TargetsType' /\ DefaultIs(d)'
  BY <1>1, <1>2, <1>14, <1>15 DEF TargetsType, DefaultIs
<1> QED BY <1>14, <1>17, <1>18 DEF TargetsInv

(* A week's row is left, dropped if it repeats the default, or written.    *)
LEMMA WeekWritten ==
  ASSUME TargetsInv, NEW d, DefaultIs(d), NEW r \in GridSaves, NEW w \in Weeks,
         WeeksDue(r, d), Judged(r, w),
         weekTarget'[w] = NewTarget(w, r.entry[w], d)
  PROVE  Stands(r, w, d)'
<1>1. /\ r.entry[w] \in Targets \cup {None} /\ d \in Targets \cup {None}
      /\ None \notin Targets
  BY TargetFacts DEF GridSaves, DefaultIs
<1>2. CASE r.entry[w] = Blank
  <2>1. Stands(r, w, d)
    BY <1>2 DEF WeeksDue
  <2>2. weekTarget'[w] = weekTarget[w]
    BY <1>2 DEF NewTarget
  <2> QED BY <2>1, <2>2 DEF Stands, TargetOf
<1>3. CASE r.entry[w] # Blank
  <2>1. r.entry[w] \in Targets
    BY <1>1, <1>3 DEF Blank
  <2>2. PICK e \in Targets : e = Parsed(r.entry[w])
    BY <2>1, TargetFacts
  <2>3. e = r.target[w] /\ (w \in r.follows => e = d)
    BY <1>3, <2>2 DEF WeeksDue, Written
  <2>4. weekTarget'[w] = IF e = d THEN None ELSE e
    BY <1>3, <2>2 DEF NewTarget
  <2>5. TargetOf(w, d)' = e
    BY <1>1, <2>2, <2>4 DEF TargetOf
  <2> QED BY <2>3, <2>4, <2>5 DEF Stands
<1> QED BY <1>2, <1>3

LEMMA CommitWeeksKeeps ==
  ASSUME TargetsInv, NEW p \in Planners, CommitWeeks(p)
  PROVE  TargetsInv'
<1>1. PICK d : DefaultIs(d) /\ \A q \in Planners : SaveDue(saving[q], d)
  BY DEF TargetsInv
<1>2. /\ TargetsType /\ OneSave /\ saving \in [Planners -> Saves] /\ saving[p] # NotSaving
      /\ saving[p].pc = "weeks" /\ saving[p] \in GridSaves
  BY SaveTypes DEF CommitWeeks, TargetsInv, TargetsType
<1>3. PICK r \in GridSaves : r = saving[p]
  BY <1>2
<1>4. PICK s : s = [r EXCEPT !.pc = "groups"]
  OBVIOUS
<1>5. /\ s \in GridSaves /\ s.pc = "groups" /\ s.entry = r.entry /\ s.caps = r.caps
      /\ s.target = r.target /\ s.cap = r.cap /\ s.follows = r.follows
      /\ s.edited = r.edited
  BY <1>4 DEF GridSaves
<1>6. saving' = [saving EXCEPT ![p] = s]
  BY <1>3, <1>4 DEF CommitWeeks
<1>7. weekTarget' = [w \in Weeks |-> NewTarget(w, r.entry[w], d)]
  BY <1>1, <1>3, OnlyDefault DEF CommitWeeks
<1>8. \A w \in Weeks : NewTarget(w, r.entry[w], d) \in Targets \cup {None}
  <2> SUFFICES ASSUME NEW w \in Weeks
               PROVE  NewTarget(w, r.entry[w], d) \in Targets \cup {None}
    OBVIOUS
  <2>1. r.entry[w] \in Targets \cup {None} /\ weekTarget[w] \in Targets \cup {None}
    BY <1>2 DEF GridSaves, TargetsType
  <2>2. r.entry[w] # Blank => Parsed(r.entry[w]) \in Targets
    BY <2>1, TargetFacts DEF Blank
  <2> QED BY <2>1, <2>2 DEF NewTarget
<1>9. CapsDue(r) /\ WeeksDue(r, d)
  BY <1>1, <1>2, <1>3 DEF SaveDue
<1>10. UNCHANGED <<defaults, groupCap, weekCap>>
  BY DEF CommitWeeks
<1>11. CapsDue(s)'
  <2>1. \A g \in ShownGroups, x \in Weeks : CapOf(g, x)' = CapOf(g, x)
    BY <1>10 DEF CapOf, Units
  <2> QED BY <1>5, <1>9, <2>1 DEF CapsDue
<1>12. WeeksDone(s, d)'
  <2>1. \A w \in Weeks : Judged(r, w) => Stands(r, w, d)'
    BY <1>1, <1>7, <1>9, WeekWritten
  <2> QED BY <1>5, <2>1 DEF WeeksDone, Judged, Stands
<1>13. \A q \in Planners : saving'[q] = IF q = p THEN s ELSE NotSaving
  BY <1>2, <1>6 DEF OneSave
<1>14. \A q \in Planners : SaveDue(saving[q], d)'
  <2>1. NotSaving.pc = "idle"
    BY DEF NotSaving
  <2>2. SaveDue(s, d)'
    BY <1>5, <1>11, <1>12 DEF SaveDue
  <2> QED BY <1>13, <2>1, <2>2 DEF SaveDue
<1>15. saving' \in [Planners -> Saves] /\ OneSave'
  BY <1>2, <1>5, <1>6, <1>13 DEF Saves, OneSave
<1>16. TargetsType' /\ DefaultIs(d)'
  BY <1>1, <1>2, <1>7, <1>8, <1>10, <1>15 DEF TargetsType, DefaultIs
<1> QED BY <1>14, <1>15, <1>16 DEF TargetsInv

(* A group's capacity is dropped, kept or written.                         *)
LEMMA NewCapReads ==
  ASSUME NEW g, NEW w, NEW cap
  PROVE  LET new == NewCap(g, w, cap) IN
         (IF new # None THEN new ELSE Units(groupCap[g]))
           = IF cap = Blank THEN CapOf(g, w) ELSE cap
<1> QED BY DEF NewCap, CapOf, Blank

LEMMA CommitGroupsKeeps ==
  ASSUME TargetsInv, NEW p \in Planners, CommitGroups(p)
  PROVE  /\ TargetsInv'
         /\ \A w \in Weeks, d \in DefaultsRead :
              /\ w = saving[p].edited \/ Whole(saving[p].target[w]) =>
                   /\ TargetOf(w, d) = saving[p].target[w]
                   /\ w \in saving[p].follows => weekTarget[w] = None
              /\ \A g \in ShownGroups : CapOf(g, w)' = saving[p].cap[g][w]
<1>1. PICK d : DefaultIs(d) /\ \A q \in Planners : SaveDue(saving[q], d)
  BY DEF TargetsInv
<1>2. /\ TargetsType /\ OneSave /\ saving \in [Planners -> Saves] /\ saving[p] # NotSaving
      /\ saving[p].pc = "groups" /\ saving[p] \in GridSaves
  BY SaveTypes DEF CommitGroups, TargetsInv, TargetsType
<1>3. DefaultsRead = {d}
  BY <1>1, OnlyDefault
<1>4. CapsDue(saving[p]) /\ WeeksDone(saving[p], d)
  BY <1>1, <1>2 DEF SaveDue
<1>5. /\ saving' = [saving EXCEPT ![p] = NotSaving]
      /\ UNCHANGED <<defaults, weekTarget, groupCap>>
      /\ weekCap' = [g \in ShownGroups |-> [w \in Weeks |->
                       NewCap(g, w, saving[p].caps[g][w])]]
  BY DEF CommitGroups
<1>6. \A g \in ShownGroups, w \in Weeks : CapOf(g, w)' = saving[p].cap[g][w]
  <2> SUFFICES ASSUME NEW g \in ShownGroups, NEW w \in Weeks
               PROVE  CapOf(g, w)' = saving[p].cap[g][w]
    OBVIOUS
  <2>1. weekCap'[g][w] = NewCap(g, w, saving[p].caps[g][w])
    BY <1>5
  <2>2. CapOf(g, w)' = IF weekCap'[g][w] # None THEN weekCap'[g][w] ELSE Units(groupCap[g])
    BY <1>5 DEF CapOf, Units
  <2> QED BY <1>4, <2>1, <2>2, NewCapReads DEF CapsDue
<1>7. saving' \in [Planners -> Saves] /\ OneSave' /\ \A q \in Planners : saving'[q] = NotSaving
  BY <1>2, <1>5, SaveEnds
<1>8. \A q \in Planners : SaveDue(saving[q], d)'
  BY <1>7, NothingDue
<1>9. \A g \in ShownGroups, w \in Weeks :
        NewCap(g, w, saving[p].caps[g][w]) \in Caps \cup {None}
  BY <1>2 DEF NewCap, TargetsType, GridSaves
<1>10. TargetsType' /\ DefaultIs(d)'
  BY <1>1, <1>2, <1>5, <1>7, <1>9 DEF TargetsType, DefaultIs
<1>11. TargetsInv'
  BY <1>7, <1>8, <1>10 DEF TargetsInv
<1> QED BY <1>3, <1>4, <1>6, <1>11 DEF WeeksDone, Judged, Stands

LEMMA TargetsStepKeeps ==
  ASSUME Overlap = FALSE
  PROVE  TargetsInv /\ [TargetsNext]_targetVars => TargetsInv'
<1> SUFFICES ASSUME TargetsInv, [TargetsNext]_targetVars PROVE TargetsInv'
  OBVIOUS
<1>0. TargetsType
  BY DEF TargetsInv
<1>1. ASSUME NEW p \in Planners, NEW t \in Targets, FindDefault(p, t) PROVE TargetsInv'
  BY <1>1, FindDefaultKeeps
<1>2. ASSUME NEW p \in Planners, WriteDefault(p) PROVE TargetsInv'
  BY <1>2, WriteDefaultKeeps
<1>3. ASSUME NEW p \in Planners, CommitWeeks(p) PROVE TargetsInv'
  BY <1>3, CommitWeeksKeeps
<1>4. ASSUME NEW p \in Planners, CommitGroups(p) PROVE TargetsInv'
  BY <1>4, CommitGroupsKeeps
<1>5. ASSUME NEW p \in Planners, SaveFails(p) PROVE TargetsInv'
  BY <1>5, SaveFailsKeeps
<1>6. ASSUME NEW p \in Planners, NEW w \in Weeks, NEW t \in Targets \cup {Blank},
             NEW cap \in Caps \cup {Blank}, SubmitGrid(p, w, t, cap)
      PROVE  TargetsInv'
  BY <1>6, SubmitGridKeeps
<1>7. ASSUME NEW g \in ShownGroups, SaveGroupPage(g) PROVE TargetsInv'
  BY <1>0, <1>7, NoSave DEF SaveGroupPage, TargetsType
<1>8. ASSUME NEW g \in ShownGroups, NEW cap \in Caps \cup {None}, SaveGroupCapacity(g, cap)
      PROVE  TargetsInv'
  BY <1>0, <1>8, NoSave DEF SaveGroupCapacity, TargetsType
<1>9. ASSUME NEW w \in Weeks, DeleteWeekTarget(w) PROVE TargetsInv'
  BY <1>0, <1>9, NoSave DEF DeleteWeekTarget, TargetsType
<1>10. CASE UNCHANGED targetVars
  <2>1. PICK d : DefaultIs(d) /\ \A p \in Planners : SaveDue(saving[p], d)
    BY DEF TargetsInv
  <2>2. /\ TargetsType' /\ OneSave' /\ DefaultIs(d)'
        /\ \A p \in Planners : saving'[p] = saving[p]
    BY <1>10, <2>1 DEF TargetsInv, TargetsType, OneSave, DefaultIs, targetVars
  <2>3. ASSUME NEW r PROVE SaveDue(r, d)' = SaveDue(r, d)
    <3>1. \A g \in ShownGroups, x \in Weeks : CapOf(g, x)' = CapOf(g, x)
      BY <1>10 DEF CapOf, Units, targetVars
    <3>2. \A x \in Weeks : TargetOf(x, d)' = TargetOf(x, d) /\ weekTarget'[x] = weekTarget[x]
      BY <1>10 DEF TargetOf, targetVars
    <3>3. CapsDue(r)' <=> CapsDue(r)
      BY <3>1 DEF CapsDue
    <3>4. \A x \in Weeks : Stands(r, x, d)' <=> Stands(r, x, d)
      BY <3>2 DEF Stands
    <3>5. (WeeksDue(r, d)' <=> WeeksDue(r, d)) /\ (WeeksDone(r, d)' <=> WeeksDone(r, d))
      BY <3>4 DEF WeeksDue, WeeksDone, Judged, Written
    <3> QED BY <3>3, <3>5 DEF SaveDue
  <2>4. \A p \in Planners : SaveDue(saving[p], d)'
    BY <2>1, <2>2, <2>3 DEF SaveDue
  <2> QED BY <2>2, <2>4 DEF TargetsInv
<1>11. CASE TargetsNext
  BY <1>1, <1>2, <1>3, <1>4, <1>5, <1>6, <1>7, <1>8, <1>9, <1>11 DEF TargetsNext
<1> QED BY <1>10, <1>11

(* Of the whole planning area, the targets see their own steps only.       *)
LEMMA TargetAreaSteps ==
  /\ PlanningInit => TargetsInit
  /\ [PlanningNext]_planningVars => [TargetsNext]_targetVars
<1> QED BY DEF PlanningInit, PlanningNext, planningVars

(* While saves do not overlap, a save of the year grid that goes through   *)
(* leaves the edited week as entered, zero units included, every other     *)
(* week of some units and days as it read, and those of them that follow   *)
(* the default following it, whatever the weeks, groups and targets.       *)
THEOREM GridStands ==
  ASSUME Overlap = FALSE
  PROVE  PlanningSpec => GridAsSaved
<1> DEFINE AsRead == \A p \in Planners : CommitGroups(p) =>
       \A w \in Weeks, d \in DefaultsRead :
         /\ w = saving[p].edited \/ Whole(saving[p].target[w]) =>
              /\ TargetOf(w, d) = saving[p].target[w]
              /\ w \in saving[p].follows => weekTarget[w] = None
         /\ \A g \in ShownGroups : CapOf(g, w)' = saving[p].cap[g][w]
<1>1. PlanningInit => TargetsInv
  BY TargetsInitHolds, TargetAreaSteps
<1>2. TargetsInv /\ [PlanningNext]_planningVars => TargetsInv'
  <2>1. TargetsInv /\ [TargetsNext]_targetVars => TargetsInv'
    BY TargetsStepKeeps
  <2> QED BY <2>1, TargetAreaSteps
<1>3. TargetsInv /\ [PlanningNext]_planningVars => [AsRead]_targetVars
  BY CommitGroupsKeeps
<1> QED BY <1>1, <1>2, <1>3, PTL DEF PlanningSpec, GridAsSaved

----------------------------------------------------------------------------
(***************************************************************************)
(* CUSTOMER GROUPS.  On PostgreSQL, where a row's id is never given again, *)
(* no crossing of requests loses a customer or puts it in two groups: what *)
(* a request has seen stays a row of its own customer, or of its own       *)
(* group, or is gone.                                                      *)
(***************************************************************************)
Rows     == [id : Nat, group : Groups, customer : Customers]
Requests == {NotAsking}
            \cup [pc : {"add"}, group : Groups, customer : Customers, seen : SUBSET Nat]
            \cup [pc : {"delete"}, group : Groups, seen : SUBSET Nat]

GroupsType == /\ groups \subseteq Groups /\ members \subseteq Rows /\ lastId \in Nat
              /\ asking \in [Planners -> Requests]

IdsUnique  == \A m, n \in members : m.id = n.id => m = n
IdsUsed    == /\ \A m \in members : m.id <= lastId
              /\ \A p \in Planners : asking[p] # NotAsking =>
                   \A i \in asking[p].seen : i <= lastId
OneRow     == \A m, n \in members : m.customer = n.customer => m = n
SeenTheirs == \A p \in Planners, m \in members :
                /\ asking[p].pc = "add" /\ m.id \in asking[p].seen
                     => m.customer = asking[p].customer
                /\ asking[p].pc = "delete" /\ m.id \in asking[p].seen
                     => m.group = asking[p].group

GroupsInv == GroupsType /\ IdsUnique /\ IdsUsed /\ OneRow /\ SeenTheirs

----------------------------------------------------------------------------
(* A customer's only row is its group.                                     *)
LEMMA OnlyRow ==
  ASSUME NEW S, NEW c, NEW m \in S, m.customer = c,
         \A n \in S : n.customer = c => n = m
  PROVE  /\ {n \in S : n.customer = c} = {m}
         /\ (CHOOSE x \in {n \in S : n.customer = c} : TRUE) = m
<1>1. {n \in S : n.customer = c} = {m}
  OBVIOUS
<1>2. (CHOOSE x \in {m} : TRUE) = m
  OBVIOUS
<1> QED BY <1>1, <1>2

(* At most one row a customer, counted.                                    *)
LEMMA AtMostOne ==
  ASSUME NEW S, NEW c, \A m, n \in S : m.customer = n.customer => m = n
  PROVE  Cardinality({n \in S : n.customer = c}) <= 1
<1> DEFINE R == {n \in S : n.customer = c}
<1>1. CASE R = {}
  BY <1>1, FS_EmptySet
<1>2. CASE R # {}
  <2>1. PICK m \in R : TRUE
    BY <1>2
  <2>2. R = {m}
    BY <2>1
  <2> QED BY <2>2, FS_Singleton
<1> QED BY <1>1, <1>2

(* What a request in progress is.                                          *)
LEMMA InProgress ==
  ASSUME GroupsType, NEW p \in Planners
  PROVE  /\ asking[p].pc = "add" =>
              /\ asking[p] # NotAsking /\ asking[p].group \in Groups
              /\ asking[p].customer \in Customers /\ asking[p].seen \in SUBSET Nat
         /\ asking[p].pc = "delete" =>
              asking[p] # NotAsking /\ asking[p].group \in Groups /\ asking[p].seen \in SUBSET Nat
<1>1. asking[p] \in Requests
  BY DEF GroupsType
<1> QED BY <1>1 DEF Requests, NotAsking

(* A request that ends touches no other one.                               *)
LEMMA AnswerKeeps ==
  ASSUME GroupsType, NEW p \in Planners, Answer(p)
  PROVE  /\ asking' \in [Planners -> Requests]
         /\ asking'[p] = NotAsking
         /\ \A q \in Planners \ {p} : asking'[q] = asking[q]
<1> QED BY DEF GroupsType, Answer, Requests

(* Whatever removes rows and gives no id keeps what the requests have seen. *)
LEMMA FewerRows ==
  ASSUME GroupsInv, members' \subseteq members, lastId' = lastId, groups' \subseteq Groups,
         asking' \in [Planners -> Requests],
         \A p \in Planners : asking'[p] = asking[p] \/ asking'[p] = NotAsking
  PROVE  GroupsInv'
<1>1. GroupsType'
  BY DEF GroupsInv, GroupsType
<1>2. IdsUnique' /\ OneRow'
  BY DEF GroupsInv, IdsUnique, OneRow
<1>3. IdsUsed'
  BY DEF GroupsInv, IdsUsed
<1>4. SeenTheirs'
  <2> SUFFICES ASSUME NEW p \in Planners, NEW m \in members', asking'[p] # NotAsking
               PROVE  /\ asking'[p].pc = "add" /\ m.id \in asking'[p].seen
                           => m.customer = asking'[p].customer
                      /\ asking'[p].pc = "delete" /\ m.id \in asking'[p].seen
                           => m.group = asking'[p].group
    BY DEF SeenTheirs, NotAsking
  <2> QED BY DEF GroupsInv, SeenTheirs
<1> QED BY <1>1, <1>2, <1>3, <1>4 DEF GroupsInv

(* A new request has seen rows of its customer, or of its group.           *)
LEMMA AskKeeps ==
  ASSUME GroupsInv, NEW p \in Planners, NEW request \in Requests, Ask(p, request),
         \A i \in request.seen : i <= lastId,
         \A m \in members : m.id \in request.seen =>
            /\ request.pc = "add" => m.customer = request.customer
            /\ request.pc = "delete" => m.group = request.group
  PROVE  GroupsInv'
<1>1. /\ asking' \in [Planners -> Requests] /\ asking'[p] = request
      /\ \A q \in Planners \ {p} : asking'[q] = asking[q]
      /\ members' = members /\ groups' = groups /\ lastId' = lastId
  BY DEF Ask, GroupsInv, GroupsType
<1>2. GroupsType' /\ IdsUnique' /\ OneRow'
  BY <1>1 DEF GroupsInv, GroupsType, IdsUnique, OneRow
<1>3. IdsUsed'
  BY <1>1 DEF GroupsInv, IdsUsed
<1>4. SeenTheirs'
  <2> SUFFICES ASSUME NEW q \in Planners, NEW m \in members
               PROVE  /\ asking'[q].pc = "add" /\ m.id \in asking'[q].seen
                           => m.customer = asking'[q].customer
                      /\ asking'[q].pc = "delete" /\ m.id \in asking'[q].seen
                           => m.group = asking'[q].group
    BY <1>1 DEF SeenTheirs
  <2>1. CASE q = p
    BY <2>1, <1>1
  <2>2. CASE q # p
    BY <2>2, <1>1 DEF GroupsInv, SeenTheirs
  <2> QED BY <2>1, <2>2
<1> QED BY <1>2, <1>3, <1>4 DEF GroupsInv

LEMMA FindMemberKeeps ==
  ASSUME GroupsInv, NEW p \in Planners, NEW g \in Groups, NEW c \in Customers,
         FindMember(p, g, c)
  PROVE  GroupsInv'
<1> DEFINE seen == {m.id : m \in RowsOf(c)}
           request == [pc |-> "add", group |-> g, customer |-> c, seen |-> seen]
<1>1. /\ seen \in SUBSET Nat
      /\ \A i \in seen : i <= lastId
      /\ \A m \in members : m.id \in seen => m.customer = c
  BY DEF GroupsInv, GroupsType, IdsUnique, IdsUsed, Rows, RowsOf
<1>2. request \in Requests
  BY <1>1 DEF Requests
<1>3. Ask(p, request)
  BY DEF FindMember
<1> HIDE DEF seen
<1> QED BY <1>1, <1>2, <1>3, AskKeeps

LEMMA FindGroupKeeps ==
  ASSUME GroupsInv, NEW p \in Planners, NEW g \in groups, FindGroup(p, g)
  PROVE  GroupsInv'
<1> DEFINE seen == {m.id : m \in {x \in members : x.group = g}}
           request == [pc |-> "delete", group |-> g, seen |-> seen]
<1>1. /\ seen \in SUBSET Nat
      /\ \A i \in seen : i <= lastId
      /\ \A m \in members : m.id \in seen => m.group = g
  BY DEF GroupsInv, GroupsType, IdsUnique, IdsUsed, Rows
<1>2. request \in Requests
  BY <1>1 DEF Requests, GroupsInv, GroupsType
<1>3. Ask(p, request)
  BY DEF FindGroup
<1> HIDE DEF seen
<1> QED BY <1>1, <1>2, <1>3, AskKeeps

(* The row added has an id above all others, and its customer has no other. *)
LEMMA AddMemberKeeps ==
  ASSUME Database = "postgres", GroupsInv, NEW p \in Planners, AddMember(p)
  PROVE  GroupsInv'
<1> DEFINE id  == lastId + 1
           row == [id |-> id, group |-> asking[p].group, customer |-> asking[p].customer]
<1>1. /\ id \in Nat /\ members' = Kept(p) \cup {row} /\ lastId' = id /\ groups' = groups
      /\ \A m \in Kept(p) : m.customer # asking[p].customer
  BY DEF AddMember, NextId, Refuses, GroupsInv, GroupsType
<1>2. /\ asking' \in [Planners -> Requests] /\ asking'[p] = NotAsking
      /\ \A q \in Planners \ {p} : asking'[q] = asking[q]
  BY AnswerKeeps DEF AddMember, GroupsInv
<1>3. row \in Rows
  BY <1>1, InProgress DEF AddMember, Rows, GroupsInv
<1>4. Kept(p) \subseteq members /\ \A m \in Kept(p) : m.id \in Nat /\ m.id < row.id
  BY <1>1 DEF Kept, GroupsInv, GroupsType, IdsUsed, Rows
<1>5. GroupsType'
  BY <1>1, <1>2, <1>3, <1>4 DEF GroupsInv, GroupsType
<1>6. IdsUnique'
  BY <1>1, <1>4 DEF GroupsInv, IdsUnique
<1>7. OneRow'
  BY <1>1, <1>4 DEF GroupsInv, OneRow
<1>8. IdsUsed'
  <2>1. \A m \in members' : m.id <= lastId'
    BY <1>1, <1>4
  <2>2. ASSUME NEW q \in Planners, asking'[q] # NotAsking, NEW i \in asking'[q].seen
        PROVE  i <= lastId'
    <3>1. q # p /\ asking'[q] = asking[q]
      BY <2>2, <1>2
    <3>2. i <= lastId
      BY <2>2, <3>1 DEF GroupsInv, IdsUsed
    <3>3. i \in Nat
      BY <2>2, <3>1 DEF GroupsInv, GroupsType, Requests, NotAsking
    <3> QED BY <3>2, <3>3, <1>1 DEF GroupsInv, GroupsType
  <2> QED BY <2>1, <2>2 DEF IdsUsed
<1>9. SeenTheirs'
  <2> SUFFICES ASSUME NEW q \in Planners, NEW m \in members', asking'[q] # NotAsking,
                      m.id \in asking'[q].seen
               PROVE  /\ asking'[q].pc = "add" => m.customer = asking'[q].customer
                      /\ asking'[q].pc = "delete" => m.group = asking'[q].group
    BY DEF SeenTheirs, NotAsking
  <2>1. q # p /\ asking'[q] = asking[q]
    BY <1>2
  <2>2. m # row
    BY <2>1, <1>1 DEF GroupsInv, GroupsType, IdsUsed
  <2> QED BY <2>1, <2>2, <1>1, <1>4 DEF GroupsInv, SeenTheirs
<1> QED BY <1>5, <1>6, <1>7, <1>8, <1>9 DEF GroupsInv

----------------------------------------------------------------------------
(* Every step keeps the invariant.                                         *)
LEMMA GroupStepKeeps ==
  ASSUME Database = "postgres", GroupsInv, [GroupsNext]_groupVars
  PROVE  GroupsInv'
<1>1. ASSUME NEW p \in Planners, NEW g \in groups, FindGroup(p, g) PROVE GroupsInv'
  BY <1>1, FindGroupKeeps
<1>2. ASSUME NEW p \in Planners, NEW g \in Groups, NEW c \in Customers, FindMember(p, g, c)
      PROVE  GroupsInv'
  BY <1>2, FindMemberKeeps
<1>3. ASSUME NEW p \in Planners, AddMember(p) PROVE GroupsInv'
  BY <1>3, AddMemberKeeps
<1>4. ASSUME NEW p \in Planners, AddRefused(p) PROVE GroupsInv'
  <2>1. GroupsType /\ Answer(p) /\ members' = members /\ lastId' = lastId /\ groups' = groups
    BY <1>4 DEF AddRefused, GroupsInv
  <2> QED BY <2>1, AnswerKeeps, FewerRows DEF GroupsType
<1>5. ASSUME NEW p \in Planners, DeleteGroup(p) PROVE GroupsInv'
  <2>1. /\ GroupsType /\ Answer(p) /\ members' \subseteq members /\ lastId' = lastId
        /\ groups' \subseteq groups
    BY <1>5 DEF DeleteGroup, Kept, GroupsInv
  <2> QED BY <2>1, AnswerKeeps, FewerRows DEF GroupsType
<1>6. ASSUME NEW g \in Groups, CreateGroup(g) PROVE GroupsInv'
  <2>1. /\ asking' = asking /\ members' = members /\ lastId' = lastId
        /\ groups' \subseteq Groups /\ asking' \in [Planners -> Requests]
    BY <1>6 DEF CreateGroup, GroupsInv, GroupsType
  <2> QED BY <2>1, FewerRows
<1>7. ASSUME NEW g \in Groups, NEW c \in Customers, RemoveMember(g, c) PROVE GroupsInv'
  <2>1. /\ asking' = asking /\ members' \subseteq members /\ lastId' = lastId
        /\ groups' \subseteq Groups /\ asking' \in [Planners -> Requests]
    BY <1>7 DEF RemoveMember, GroupsInv, GroupsType
  <2> QED BY <2>1, FewerRows
<1>8. CASE UNCHANGED groupVars
  <2>1. /\ asking' = asking /\ members' = members /\ lastId' = lastId
        /\ groups' \subseteq Groups /\ asking' \in [Planners -> Requests]
    BY <1>8 DEF groupVars, GroupsInv, GroupsType
  <2> QED BY <2>1, FewerRows
<1> QED BY <1>1, <1>2, <1>3, <1>4, <1>5, <1>6, <1>7, <1>8 DEF GroupsNext

LEMMA GroupInitHolds == GroupsInit => GroupsInv
<1> SUFFICES ASSUME GroupsInit PROVE GroupsInv
  OBVIOUS
<1> QED BY DEF GroupsInit, GroupsInv, GroupsType, IdsUnique, IdsUsed, OneRow, SeenTheirs,
               Requests, NotAsking

----------------------------------------------------------------------------
(* The group of a customer is that of its only row.                        *)
LEMMA GroupOfRow ==
  ASSUME OneRow, NEW m \in members
  PROVE  GroupOf(m.customer) = m.group
<1>1. /\ RowsOf(m.customer) = {m}
      /\ (CHOOSE x \in RowsOf(m.customer) : TRUE) = m
  BY OnlyRow DEF OneRow, RowsOf
<1> QED BY <1>1 DEF GroupOf

(* A customer whose rows a step leaves as they are stays in its group.     *)
LEMMA SameRows ==
  ASSUME NEW c, {m \in members' : m.customer = c} = {m \in members : m.customer = c}
  PROVE  GroupOf(c)' = GroupOf(c)
<1>1. RowsOf(c)' = RowsOf(c)
  BY DEF RowsOf
<1>2. (CHOOSE m \in RowsOf(c) : TRUE)' = (CHOOSE m \in RowsOf(c) : TRUE)
  BY <1>1
<1> QED BY <1>1, <1>2 DEF GroupOf

(* A customer whose group changed and who had a row lost it in the step;   *)
(* none can lose it but the three kinds of step the property names.        *)
LEMMA MovesAreAsked ==
  ASSUME GroupsInv, GroupsInv', [GroupsNext]_groupVars, NEW c \in Customers,
         GroupOf(c)' # GroupOf(c)
  PROVE  \/ RemoveMember(GroupOf(c), c)
         \/ GroupOf(c) \notin groups'
         \/ \E p \in Planners : /\ asking[p].pc = "add" /\ asking[p].customer = c
                                /\ GroupOf(c)' = asking[p].group
<1>1. members' # members
  BY SameRows
<1>2. ASSUME NEW p \in Planners, AddMember(p)
      PROVE  asking[p].pc = "add" /\ asking[p].customer = c /\ GroupOf(c)' = asking[p].group
  <2> DEFINE id  == NextId(Kept(p))
             row == [id |-> id, group |-> asking[p].group, customer |-> asking[p].customer]
  <2>1. asking[p].pc = "add" /\ members' = Kept(p) \cup {row}
    BY <1>2 DEF AddMember
  <2>2. \A m \in members \ Kept(p) : m.customer = asking[p].customer
    BY <2>1 DEF Kept, GroupsInv, SeenTheirs
  <2>3. Kept(p) \subseteq members
    BY DEF Kept
  <2>4. row.customer = asking[p].customer /\ row.group = asking[p].group
    OBVIOUS
  <2> HIDE DEF row
  <2>5. asking[p].customer = c
    <3> SUFFICES ASSUME asking[p].customer # c PROVE FALSE
      OBVIOUS
    <3>1. {m \in members' : m.customer = c} = {m \in members : m.customer = c}
      BY <2>1, <2>2, <2>3, <2>4
    <3> QED BY <3>1, SameRows
  <2>6. \A n \in members' : n.customer = c => n = row
    BY <2>1, <2>4, <2>5 DEF GroupsInv, OneRow
  <2>7. /\ {n \in members' : n.customer = c} = {row}
        /\ (CHOOSE x \in {n \in members' : n.customer = c} : TRUE) = row
    BY <2>1, <2>4, <2>5, <2>6, OnlyRow
  <2>8. GroupOf(c)' = row.group
    BY <2>7 DEF GroupOf, RowsOf
  <2> QED BY <2>1, <2>4, <2>5, <2>8
<1>3. ASSUME NEW p \in Planners, DeleteGroup(p) PROVE GroupOf(c) \notin groups'
  <2>1. /\ asking[p].pc = "delete" /\ groups' = groups \ {asking[p].group}
        /\ members' \subseteq members
        /\ \A m \in members \ members' : m.group = asking[p].group
    BY <1>3 DEF DeleteGroup, Kept, GroupsInv, SeenTheirs
  <2>2. PICK m \in members \ members' : m.customer = c
    BY <2>1, SameRows
  <2>3. GroupOf(c) = asking[p].group
    BY <2>1, <2>2, GroupOfRow DEF GroupsInv
  <2> QED BY <2>1, <2>3
<1>4. ASSUME NEW g \in Groups, NEW d \in Customers, RemoveMember(g, d)
      PROVE  RemoveMember(GroupOf(c), c)
  <2>1. /\ members' \subseteq members
        /\ \A m \in members \ members' : m.group = g /\ m.customer = d
    BY <1>4 DEF RemoveMember
  <2>2. PICK m \in members \ members' : m.customer = c
    BY <2>1, SameRows
  <2>3. GroupOf(c) = g /\ d = c
    BY <2>1, <2>2, GroupOfRow DEF GroupsInv
  <2> QED BY <1>4, <2>3
<1> QED BY <1>1, <1>2, <1>3, <1>4
        DEF GroupsNext, groupVars, FindGroup, FindMember, Ask, AddRefused, CreateGroup

(* The property of a step, for every customer.                             *)
Moves == \A c \in Customers :
           /\ Cardinality(RowsOf(c)') <= 1
           /\ GroupOf(c)' # GroupOf(c) =>
                \/ RemoveMember(GroupOf(c), c)
                \/ GroupOf(c) \notin groups'
                \/ \E p \in Planners : /\ asking[p].pc = "add" /\ asking[p].customer = c
                                       /\ GroupOf(c)' = asking[p].group

LEMMA StepMoves ==
  ASSUME GroupsInv, GroupsInv', [GroupsNext]_groupVars
  PROVE  [Moves]_groupVars
<1> SUFFICES ASSUME NEW c \in Customers
             PROVE  /\ Cardinality(RowsOf(c)') <= 1
                    /\ GroupOf(c)' # GroupOf(c) =>
                         \/ RemoveMember(GroupOf(c), c)
                         \/ GroupOf(c) \notin groups'
                         \/ \E p \in Planners : /\ asking[p].pc = "add" /\ asking[p].customer = c
                                                /\ GroupOf(c)' = asking[p].group
  BY DEF Moves
<1>1. Cardinality({n \in members' : n.customer = c}) <= 1
  BY AtMostOne DEF GroupsInv, OneRow
<1>2. Cardinality(RowsOf(c)') <= 1
  BY <1>1 DEF RowsOf
<1> QED BY <1>2, MovesAreAsked

(* Of the whole planning area, customer groups see their own steps only.   *)
LEMMA GroupAreaSteps ==
  /\ PlanningInit => GroupsInit
  /\ [PlanningNext]_planningVars => [GroupsNext]_groupVars
<1> QED BY DEF PlanningInit, PlanningNext, planningVars

(* A customer is never in two groups, and leaves one only by being added   *)
(* to another, by being removed from it, or with the group, however the    *)
(* requests of any number of planners cross.                               *)
THEOREM NobodyLost ==
  ASSUME Database = "postgres"
  PROVE  PlanningSpec => MovedNotLost
<1>1. PlanningInit => GroupsInv
  BY GroupInitHolds, GroupAreaSteps
<1>2. GroupsInv /\ [PlanningNext]_planningVars => GroupsInv'
  BY GroupStepKeeps, GroupAreaSteps
<1>3. GroupsInv /\ GroupsInv' /\ [PlanningNext]_planningVars => [Moves]_groupVars
  BY StepMoves, GroupAreaSteps
<1> QED BY <1>1, <1>2, <1>3, PTL DEF PlanningSpec, MovedNotLost, Moves

----------------------------------------------------------------------------
(***************************************************************************)
(* PLANNING SESSIONS.  On PostgreSQL a request that moves an order works   *)
(* on the table it selected its jobs from, or, once an import has replaced *)
(* it, on the job it holds: a row that it would read again is gone.        *)
(***************************************************************************)
OrderMoves == [pc : {"next", "write"}, session : Sessions, week : PlanWeeks,
          jobs : SUBSET Jobs, ids : Seq(Nat), loaded : Nat, moved : SUBSET Jobs,
          job : Jobs \cup {None}, found : BOOLEAN, lost : BOOLEAN]

SessionsType == /\ sessions \subseteq Sessions /\ works \in Tables /\ imports \in Nat
                /\ DOMAIN overrides = Sessions
                /\ \A s \in Sessions : DOMAIN overrides[s] = Jobs
                /\ moving \in [Planners -> OrderMoves \cup {NotMoving}]

Holds(r)   == IF r.pc = "write" THEN {r.job} ELSE {}
Unmoved(r, t) == {t[r.ids[n]] : n \in DOMAIN r.ids}

(* The table a request selected its jobs from accounts for every job it    *)
(* has yet to write; once another import has replaced it, only the jobs    *)
(* the request holds already are still to come.                            *)
Accounts(r, t) ==
  /\ r.loaded <= imports /\ (r.loaded = imports => works = t)
  /\ \A n \in DOMAIN r.ids : r.ids[n] \in DOMAIN t
  /\ r.jobs = r.moved \cup Holds(r) \cup Unmoved(r, t)
  /\ r.pc = "write" => r.job \in Jobs
  /\ r.pc = "next" /\ r.moved = {} /\ r.ids # <<>> => r.job = t[Head(r.ids)]

SessionsInv ==
  /\ SessionsType
  /\ \A p \in Planners : moving[p] # NotMoving => \E t \in Tables : Accounts(moving[p], t)

----------------------------------------------------------------------------
(* The rows of a query, in whatever order, are all of them.                *)
LEMMA EveryRow ==
  ASSUME NEW S, IsFiniteSet(S), NEW ids \in SetToSeqs(S)
  PROVE  /\ ids \in Seq(S)
         /\ {ids[n] : n \in DOMAIN ids} = S
<1> DEFINE D == 1 .. Cardinality(S)
<1>1. Cardinality(S) \in Nat
  BY FS_CardinalityType
<1>2. ids \in [D -> S] /\ \A i, j \in D : ids[i] = ids[j] => i = j
  BY DEF SetToSeqs
<1>3. ids \in Injection(D, S)
  BY <1>2 DEF Injection, IsInjective
<1>4. Cardinality(D) = Cardinality(S)
  BY <1>1, FS_Interval
<1>5. ids \in Surjection(D, S)
  BY <1>3, <1>4, FS_Injection
<1>6. \A x \in S : \E n \in D : ids[n] = x
  BY <1>5 DEF Surjection
<1>7. ids \in Seq(S)
  BY <1>1, <1>2
<1> QED BY <1>2, <1>6, <1>7

(* What a request in progress is.                                          *)
LEMMA MoveTypes ==
  ASSUME NEW r \in OrderMoves \cup {NotMoving}
  PROVE  /\ r # NotMoving => r \in OrderMoves
         /\ r.pc \in {"next", "write"} => r \in OrderMoves /\ r # NotMoving
<1>1. CASE r = NotMoving
  BY <1>1 DEF NotMoving
<1>2. CASE r \in OrderMoves
  <2>1. r.pc \in {"next", "write"}
    BY <1>2 DEF OrderMoves
  <2> QED BY <1>2, <2>1 DEF NotMoving
<1> QED BY <1>1, <1>2

(* A request goes on, or ends, while the works orders stay.                *)
LEMMA MoveStep ==
  ASSUME SessionsInv, NEW p \in Planners, NEW r \in OrderMoves \cup {NotMoving},
         moving' = [moving EXCEPT ![p] = r], UNCHANGED <<sessions, works, imports>>,
         DOMAIN overrides' = Sessions, \A s \in Sessions : DOMAIN overrides'[s] = Jobs,
         r # NotMoving => \E t \in Tables : Accounts(r, t)
  PROVE  SessionsInv'
<1>1. SessionsType'
  <2>1. moving' \in [Planners -> OrderMoves \cup {NotMoving}]
    BY DEF SessionsInv, SessionsType
  <2> QED BY <2>1 DEF SessionsInv, SessionsType
<1>2. ASSUME NEW q \in Planners, moving'[q] # NotMoving
      PROVE  \E t \in Tables : Accounts(moving[q], t)'
  <2>1. moving'[q] = IF q = p THEN r ELSE moving[q]
    BY DEF SessionsInv, SessionsType
  <2>2. PICK t \in Tables : Accounts(moving'[q], t)
    BY <1>2, <2>1 DEF SessionsInv
  <2>3. Accounts(moving[q], t)'
    BY <2>2 DEF Accounts, Holds, Unmoved
  <2> QED BY <2>3
<1> QED BY <1>1, <1>2 DEF SessionsInv

LEMMA FindOverrideKeeps ==
  ASSUME SessionsInv, NEW p \in Planners, NEW s \in sessions,
         NEW v \in PlanWeeks, NEW j \in Jobs, FindOverride(p, s, j, v)
  PROVE  SessionsInv'
<1> DEFINE r == [pc |-> "write", session |-> s, week |-> v, jobs |-> {j},
                 ids |-> <<>>, loaded |-> imports, moved |-> {}, job |-> j,
                 found |-> overrides[s][j] # None, lost |-> FALSE]
<1>1. SessionsType
  BY DEF SessionsInv
<1>2. r \in OrderMoves
  BY <1>1 DEF OrderMoves, SessionsType
<1>3. Accounts(r, works)
  BY <1>1 DEF Accounts, SessionsType, Holds, Unmoved
<1>4. moving' = [moving EXCEPT ![p] = r] /\ UNCHANGED <<sessions, works, imports, overrides>>
  BY DEF FindOverride, StartMove
<1> HIDE DEF r
<1> QED BY <1>1, <1>2, <1>3, <1>4, MoveStep DEF SessionsType

LEMMA SelectJobsKeeps ==
  ASSUME SessionsInv, NEW p \in Planners, NEW s \in sessions,
         NEW v \in PlanWeeks, NEW o \in Orders, SelectJobs(p, s, o, v)
  PROVE  SessionsInv'
<1>1. SessionsType
  BY DEF SessionsInv
<1>2. PICK n \in Nat : works \in [1 .. n -> Jobs]
  BY <1>1, SessionsAssumption, FS_CardinalityType DEF SessionsType, Tables
<1>3. OpenJobs(o) \subseteq 1 .. n /\ IsFiniteSet(OpenJobs(o))
  BY <1>2, FS_Interval, FS_Subset DEF OpenJobs
<1>4. PICK ids \in SetToSeqs(OpenJobs(o)) :
        moving' = [moving EXCEPT ![p] =
           [pc |-> "next", session |-> s, week |-> v,
            jobs |-> {works[i] : i \in OpenJobs(o)},
            ids |-> ids, loaded |-> imports, moved |-> {},
            job |-> IF ids = <<>> THEN None ELSE works[Head(ids)],
            found |-> FALSE, lost |-> FALSE]]
  BY DEF SelectJobs, StartMove
<1>5. ids \in Seq(OpenJobs(o)) /\ {ids[k] : k \in DOMAIN ids} = OpenJobs(o)
  BY <1>3, EveryRow
<1> DEFINE jobs == {works[i] : i \in OpenJobs(o)}
           job == IF ids = <<>> THEN None ELSE works[Head(ids)]
           r == [pc |-> "next", session |-> s, week |-> v, jobs |-> jobs,
                 ids |-> ids, loaded |-> imports, moved |-> {}, job |-> job,
                 found |-> FALSE, lost |-> FALSE]
<1>6. jobs \in SUBSET Jobs /\ job \in Jobs \cup {None}
  <2>1. \A i \in OpenJobs(o) : works[i] \in Jobs
    BY <1>2, <1>3
  <2>2. ids # <<>> => Head(ids) \in OpenJobs(o)
    BY <1>5
  <2> QED BY <2>1, <2>2
<1>7. ids \in Seq(Nat)
  BY <1>3, <1>5
<1>8. jobs = {works[ids[k]] : k \in DOMAIN ids}
  BY <1>5
<1>9. \A k \in DOMAIN ids : ids[k] \in DOMAIN works
  BY <1>5 DEF OpenJobs
<1> HIDE DEF jobs
<1>10. r \in OrderMoves
  BY <1>1, <1>6, <1>7 DEF OrderMoves, SessionsType
<1>11. Accounts(r, works)
  BY <1>1, <1>8, <1>9 DEF Accounts, SessionsType, Holds, Unmoved
<1>12. moving' = [moving EXCEPT ![p] = r] /\ UNCHANGED <<sessions, works, imports, overrides>>
  BY <1>4 DEF SelectJobs, StartMove, jobs
<1> HIDE DEF r
<1> QED BY <1>1, <1>10, <1>11, <1>12, MoveStep DEF SessionsType

(* The next job: as loaded before the first commit, and after it from the  *)
(* table it was selected from, or the request fails.                       *)
LEMMA NextJobKeeps ==
  ASSUME SessionsInv, Database = "postgres", NEW p \in Planners, NextJob(p)
  PROVE  SessionsInv'
<1>1. /\ SessionsType /\ moving[p] # NotMoving /\ moving[p] \in OrderMoves
      /\ moving[p].pc = "next" /\ moving[p].ids # <<>>
  BY MoveTypes DEF NextJob, SessionsInv, SessionsType
<1>2. PICK r \in OrderMoves : r = moving[p]
  BY <1>1
<1>3. PICK t \in Tables : Accounts(r, t)
  BY <1>1, <1>2 DEF SessionsInv
<1>4. JobOf(p) = t[Head(r.ids)]
  <2>1. CASE r.moved = {}
    BY <1>1, <1>2, <1>3, <2>1 DEF JobOf, Fresh, Accounts
  <2>2. CASE r.moved # {}
    <3>1. r.loaded = imports
      BY <1>2, <2>2 DEF NextJob, Gone, Fresh
    <3> QED BY <1>2, <1>3, <2>2, <3>1 DEF JobOf, Fresh, Accounts
  <2> QED BY <2>1, <2>2
<1>5. r.ids \in Seq(Nat) /\ r.ids # <<>>
  BY <1>1, <1>2 DEF OrderMoves
<1>6. /\ Tail(r.ids) \in Seq(Nat)
      /\ 1 \in DOMAIN r.ids /\ Head(r.ids) = r.ids[1]
      /\ \A n \in DOMAIN Tail(r.ids) : n + 1 \in DOMAIN r.ids /\ Tail(r.ids)[n] = r.ids[n + 1]
      /\ \A n \in DOMAIN r.ids : n # 1 => n - 1 \in DOMAIN Tail(r.ids)
                                          /\ Tail(r.ids)[n - 1] = r.ids[n]
  BY <1>5
<1>7. Unmoved(r, t) = {t[Head(r.ids)]} \cup {t[Tail(r.ids)[n]] : n \in DOMAIN Tail(r.ids)}
  <2> DEFINE all == {t[r.ids[n]] : n \in DOMAIN r.ids}
             rest == {t[Tail(r.ids)[n]] : n \in DOMAIN Tail(r.ids)}
  <2>1. ASSUME NEW n \in DOMAIN r.ids PROVE t[r.ids[n]] \in {t[Head(r.ids)]} \cup rest
    <3>1. CASE n = 1
      BY <1>6, <3>1
    <3>2. CASE n # 1
      <4>1. n - 1 \in DOMAIN Tail(r.ids) /\ Tail(r.ids)[n - 1] = r.ids[n]
        BY <1>6, <3>2
      <4> QED BY <4>1
    <3> QED BY <3>1, <3>2
  <2>2. ASSUME NEW n \in DOMAIN Tail(r.ids) PROVE t[Tail(r.ids)[n]] \in all
    <3>1. n + 1 \in DOMAIN r.ids /\ Tail(r.ids)[n] = r.ids[n + 1]
      BY <1>6
    <3> QED BY <3>1
  <2>3. t[Head(r.ids)] \in all
    BY <1>6
  <2> QED BY <2>1, <2>2, <2>3 DEF Unmoved
<1>8. t[Head(r.ids)] \in Jobs
  <2>1. Head(r.ids) \in DOMAIN t
    BY <1>3, <1>6 DEF Accounts
  <2> QED BY <2>1 DEF Tables
<1>9. PICK job \in Jobs : job = JobOf(p)
  BY <1>4, <1>8
<1>10. PICK found \in BOOLEAN : found = (overrides[r.session][job] # None)
  OBVIOUS
<1> DEFINE a == [r EXCEPT !.pc = "write"]
           b == [a EXCEPT !.lost = FALSE]
           c == [b EXCEPT !.ids = Tail(r.ids)]
           d == [c EXCEPT !.job = job]
           s == [d EXCEPT !.found = found]
<1>11. moving' = [moving EXCEPT ![p] = s] /\ UNCHANGED <<sessions, works, imports, overrides>>
  BY <1>2, <1>9, <1>10 DEF NextJob
<1>12. /\ s \in OrderMoves /\ s.pc = "write" /\ s.ids = Tail(r.ids) /\ s.job = job
       /\ s.jobs = r.jobs /\ s.moved = r.moved /\ s.loaded = r.loaded
  <2>1. /\ a \in OrderMoves /\ a.pc = "write"
        /\ a.jobs = r.jobs /\ a.moved = r.moved /\ a.loaded = r.loaded
    BY DEF OrderMoves
  <2> HIDE DEF a
  <2>2. /\ b \in OrderMoves /\ b.pc = "write"
        /\ b.jobs = r.jobs /\ b.moved = r.moved /\ b.loaded = r.loaded
    BY <2>1 DEF OrderMoves
  <2> HIDE DEF b
  <2>3. /\ c \in OrderMoves /\ c.pc = "write" /\ c.ids = Tail(r.ids)
        /\ c.jobs = r.jobs /\ c.moved = r.moved /\ c.loaded = r.loaded
    BY <1>6, <2>2 DEF OrderMoves
  <2> HIDE DEF c
  <2>4. /\ d \in OrderMoves /\ d.pc = "write" /\ d.ids = Tail(r.ids) /\ d.job = job
        /\ d.jobs = r.jobs /\ d.moved = r.moved /\ d.loaded = r.loaded
    BY <2>3 DEF OrderMoves
  <2> HIDE DEF d
  <2> QED BY <2>4 DEF OrderMoves
<1> HIDE DEF s
<1>13. Accounts(s, t)
  <2>1. Holds(r) = {} /\ Holds(s) = {t[Head(r.ids)]}
    BY <1>1, <1>2, <1>4, <1>9, <1>12 DEF Holds
  <2>2. Unmoved(r, t) = Holds(s) \cup Unmoved(s, t)
    BY <1>7, <1>12, <2>1 DEF Unmoved
  <2>3. s.jobs = s.moved \cup Holds(s) \cup Unmoved(s, t)
    BY <1>3, <1>12, <2>1, <2>2 DEF Accounts
  <2>4. \A n \in DOMAIN s.ids : s.ids[n] \in DOMAIN t
    BY <1>3, <1>6, <1>12 DEF Accounts
  <2> QED BY <1>3, <1>12, <2>3, <2>4 DEF Accounts
<1> QED BY <1>1, <1>11, <1>12, <1>13, MoveStep DEF SessionsType

(* A commit writes a job of the request, in the session of the request.    *)
LEMMA WriteOverrideKeeps ==
  ASSUME SessionsInv, NEW p \in Planners, WriteOverride(p)
  PROVE  /\ SessionsInv'
         /\ \A s \in Sessions, j \in Jobs : overrides'[s][j] # overrides[s][j] =>
               s = moving[p].session /\ j \in moving[p].jobs
<1>1. /\ SessionsType /\ moving[p] # NotMoving /\ moving[p] \in OrderMoves
      /\ moving[p].pc = "write"
  BY MoveTypes DEF WriteOverride, SessionsInv, SessionsType
<1>2. PICK r \in OrderMoves : r = moving[p]
  BY <1>1
<1>3. PICK t \in Tables : Accounts(r, t)
  BY <1>1, <1>2 DEF SessionsInv
<1>4. r.session \in Sessions /\ r.job \in Jobs /\ r.job \in r.jobs
  BY <1>1, <1>2, <1>3 DEF OrderMoves, Accounts, Holds
<1>5. overrides' = [overrides EXCEPT ![r.session][r.job] = r.week]
  BY <1>2 DEF WriteOverride
<1>6. \A s \in Sessions, j \in Jobs : overrides'[s][j] # overrides[s][j] =>
        s = r.session /\ j = r.job
  BY <1>1, <1>4, <1>5 DEF SessionsType
<1>7. DOMAIN overrides' = Sessions /\ \A s \in Sessions : DOMAIN overrides'[s] = Jobs
  BY <1>1, <1>4, <1>5 DEF SessionsType
<1> DEFINE a == [r EXCEPT !.pc = "next"]
           s == [a EXCEPT !.moved = r.moved \cup {r.job}]
<1>8. moving' = [moving EXCEPT ![p] = s] /\ UNCHANGED <<sessions, works, imports>>
  BY <1>2 DEF WriteOverride
<1>9. /\ a \in OrderMoves /\ a.pc = "next" /\ a.ids = r.ids
      /\ a.jobs = r.jobs /\ a.loaded = r.loaded
  BY DEF OrderMoves
<1> HIDE DEF a
<1>10. /\ s \in OrderMoves /\ s.pc = "next" /\ s.moved = r.moved \cup {r.job}
       /\ s.ids = r.ids /\ s.jobs = r.jobs /\ s.loaded = r.loaded
  <2>1. r.moved \cup {r.job} \in SUBSET Jobs
    BY <1>4 DEF OrderMoves
  <2> QED BY <1>9, <2>1 DEF OrderMoves
<1> HIDE DEF s
<1>11. Accounts(s, t)
  <2>1. Holds(r) = {r.job} /\ Holds(s) = {} /\ Unmoved(s, t) = Unmoved(r, t)
    BY <1>1, <1>2, <1>10 DEF Holds, Unmoved
  <2>2. s.jobs = s.moved \cup Holds(s) \cup Unmoved(s, t) /\ s.moved # {}
    BY <1>3, <1>10, <2>1 DEF Accounts
  <2> QED BY <1>3, <1>10, <2>2 DEF Accounts
<1>12. SessionsInv'
  BY <1>1, <1>7, <1>8, <1>10, <1>11, MoveStep
<1> QED BY <1>2, <1>4, <1>6, <1>12

(* A request that is done has moved what it selected.                      *)
LEMMA MovedAll ==
  ASSUME SessionsInv, NEW p \in Planners, Moved(p)
  PROVE  moving[p].moved = moving[p].jobs
<1>1. moving[p] # NotMoving /\ moving[p].pc = "next" /\ moving[p].ids = <<>>
  BY DEF Moved, NotMoving
<1>2. PICK t \in Tables : Accounts(moving[p], t)
  BY <1>1 DEF SessionsInv
<1>3. DOMAIN moving[p].ids = {}
  BY <1>1
<1> QED BY <1>1, <1>2, <1>3 DEF Accounts, Holds, Unmoved

LEMMA MoveEnds ==
  ASSUME SessionsInv, NEW p \in Planners, Moved(p) \/ MoveFails(p)
  PROVE  SessionsInv'
<1>1. /\ moving' = [moving EXCEPT ![p] = NotMoving]
      /\ UNCHANGED <<sessions, overrides, works, imports>>
  BY DEF Moved, MoveFails
<1>2. DOMAIN overrides' = Sessions /\ \A s \in Sessions : DOMAIN overrides'[s] = Jobs
  BY <1>1 DEF SessionsInv, SessionsType
<1> QED BY <1>1, <1>2, MoveStep

(* The works orders a request has loaded are no longer read.               *)
LEMMA ImportWorksKeeps ==
  ASSUME SessionsInv, ImportWorks
  PROVE  SessionsInv'
<1>1. SessionsType /\ imports' = imports + 1 /\ works' \in Tables
      /\ UNCHANGED <<sessions, overrides, moving>>
  BY DEF SessionsInv, ImportWorks
<1>2. SessionsType'
  BY <1>1 DEF SessionsType
<1>3. ASSUME NEW q \in Planners, moving[q] # NotMoving
      PROVE  \E t \in Tables : Accounts(moving[q], t)'
  <2>1. PICK t \in Tables : Accounts(moving[q], t)
    BY <1>3 DEF SessionsInv
  <2>2. moving[q].loaded \in Nat /\ imports \in Nat
    BY <1>1, <1>3, MoveTypes DEF SessionsType, OrderMoves
  <2>3. moving'[q].loaded <= imports' /\ moving'[q].loaded # imports'
    BY <1>1, <2>1, <2>2 DEF Accounts
  <2>4. Accounts(moving[q], t)'
    BY <1>1, <2>1, <2>3 DEF Accounts, Holds, Unmoved
  <2> QED BY <2>4
<1> QED BY <1>1, <1>2, <1>3 DEF SessionsInv

(* A row that is deleted under a request changes nothing it holds.         *)
LEMMA LosingKeeps ==
  ASSUME SessionsInv, NEW s, NEW jobs, Losing(s, jobs), UNCHANGED <<works, imports>>,
         sessions' \subseteq Sessions, DOMAIN overrides' = Sessions,
         \A x \in Sessions : DOMAIN overrides'[x] = Jobs
  PROVE  SessionsInv'
<1>1. SessionsType
  BY DEF SessionsInv
<1>2. ASSUME NEW q \in Planners
      PROVE  \/ moving'[q] = moving[q]
             \/ /\ moving[q] \in OrderMoves /\ moving[q] # NotMoving
                /\ moving'[q] = [moving[q] EXCEPT !.lost = TRUE]
  <2>1. moving[q] \in OrderMoves \cup {NotMoving}
    BY <1>1 DEF SessionsType
  <2> QED BY <2>1, MoveTypes DEF Losing
<1>3. ASSUME NEW q \in Planners, moving[q] \in OrderMoves, moving[q] # NotMoving,
             moving'[q] = [moving[q] EXCEPT !.lost = TRUE]
      PROVE  /\ moving'[q] \in OrderMoves
             /\ \E t \in Tables : Accounts(moving[q], t)'
  <2>1. /\ moving'[q] \in OrderMoves /\ moving'[q].pc = moving[q].pc
        /\ moving'[q].ids = moving[q].ids /\ moving'[q].job = moving[q].job
        /\ moving'[q].jobs = moving[q].jobs /\ moving'[q].moved = moving[q].moved
        /\ moving'[q].loaded = moving[q].loaded
    BY <1>3 DEF OrderMoves
  <2>2. PICK t \in Tables : Accounts(moving[q], t)
    BY <1>3 DEF SessionsInv
  <2>3. Accounts(moving[q], t)'
    BY <2>1, <2>2 DEF Accounts, Holds, Unmoved
  <2> QED BY <2>1, <2>3
<1>4. ASSUME NEW q \in Planners, moving'[q] = moving[q], moving[q] # NotMoving
      PROVE  \E t \in Tables : Accounts(moving[q], t)'
  <2>1. PICK t \in Tables : Accounts(moving[q], t)
    BY <1>4 DEF SessionsInv
  <2>2. Accounts(moving[q], t)'
    BY <1>4, <2>1 DEF Accounts, Holds, Unmoved
  <2> QED BY <2>2
<1>5. SessionsType'
  <2>1. \A q \in Planners : moving'[q] \in OrderMoves \cup {NotMoving}
    BY <1>1, <1>2, <1>3 DEF SessionsType
  <2>2. DOMAIN moving' = Planners /\ moving' = [q \in Planners |-> moving'[q]]
    BY DEF Losing
  <2> QED BY <1>1, <2>1, <2>2 DEF SessionsType
<1>6. ASSUME NEW q \in Planners, moving'[q] # NotMoving
      PROVE  \E t \in Tables : Accounts(moving[q], t)'
  BY <1>2, <1>3, <1>4, <1>6
<1> QED BY <1>5, <1>6 DEF SessionsInv

(* A session comes into being: no request holds anything of it.            *)
LEMMA AddSessionKeeps ==
  ASSUME SessionsInv, NEW s \in Sessions, NEW plan, DOMAIN plan = Jobs, AddSession(s, plan)
  PROVE  SessionsInv'
<1>1. /\ SessionsType /\ overrides' = [overrides EXCEPT ![s] = plan]
      /\ sessions' = sessions \cup {s} /\ UNCHANGED <<works, imports, moving>>
  BY DEF AddSession, SessionsInv
<1>2. SessionsType'
  BY <1>1 DEF SessionsType
<1>3. \A q \in Planners, t \in Tables : Accounts(moving[q], t) => Accounts(moving[q], t)'
  BY <1>1 DEF Accounts, Holds, Unmoved
<1> QED BY <1>1, <1>2, <1>3 DEF SessionsInv

LEMMA RemoveKeeps ==
  ASSUME SessionsInv, NEW s \in Sessions,
         DeleteSession(s) \/ \E j \in Jobs : RemoveOverride(s, j)
  PROVE  SessionsInv'
<1>1. SessionsType /\ DOMAIN NoPlan = Jobs
  BY DEF SessionsInv, NoPlan
<1>2. CASE DeleteSession(s)
  <2>1. sessions' \subseteq Sessions /\ UNCHANGED <<works, imports>> /\ Losing(s, Jobs)
    BY <1>1, <1>2 DEF DeleteSession, SessionsType
  <2>2. DOMAIN overrides' = Sessions /\ \A x \in Sessions : DOMAIN overrides'[x] = Jobs
    BY <1>1, <1>2 DEF DeleteSession, SessionsType
  <2> QED BY <2>1, <2>2, LosingKeeps
<1>3. CASE \E j \in Jobs : RemoveOverride(s, j)
  <2>1. PICK j \in Jobs : RemoveOverride(s, j)
    BY <1>3
  <2>2. sessions' \subseteq Sessions /\ UNCHANGED <<works, imports>> /\ Losing(s, {j})
    BY <1>1, <2>1 DEF RemoveOverride, SessionsType
  <2>3. DOMAIN overrides' = Sessions /\ \A x \in Sessions : DOMAIN overrides'[x] = Jobs
    BY <1>1, <2>1 DEF RemoveOverride, SessionsType
  <2> QED BY <2>2, <2>3, LosingKeeps
<1> QED BY <1>2, <1>3

LEMMA SessionsInitHolds == SessionsInit => SessionsInv
<1> SUFFICES ASSUME SessionsInit PROVE SessionsInv
  OBVIOUS
<1>1. works \in Tables
  <2> DEFINE n == Cardinality(Jobs)
  <2>1. n \in Nat /\ n \in 0 .. n
    BY SessionsAssumption, FS_CardinalityType
  <2>2. works \in [1 .. n -> Jobs] /\ IsInjective(works)
    BY DEF SessionsInit, SetToSeqs, IsInjective
  <2> HIDE DEF n
  <2>3. [1 .. n -> Jobs] \in {[1 .. k -> Jobs] : k \in 0 .. n}
    BY <2>1
  <2> QED BY <2>2, <2>3 DEF Tables, n
<1>2. SessionsType
  BY <1>1 DEF SessionsInit, SessionsType, NoPlan
<1> QED BY <1>2 DEF SessionsInv, SessionsInit

LEMMA SessionsStepKeeps ==
  ASSUME Database = "postgres"
  PROVE  SessionsInv /\ [SessionsNext]_sessionVars => SessionsInv'
<1> SUFFICES ASSUME SessionsInv, [SessionsNext]_sessionVars PROVE SessionsInv'
  OBVIOUS
<1>0. SessionsType
  BY DEF SessionsInv
<1>1. CASE ImportWorks
  BY <1>1, ImportWorksKeeps
<1>2. ASSUME NEW p \in Planners, NEW s \in sessions, NEW v \in PlanWeeks, NEW j \in Jobs,
             FindOverride(p, s, j, v)
      PROVE  SessionsInv'
  BY <1>2, FindOverrideKeeps
<1>3. ASSUME NEW p \in Planners, NEW s \in sessions, NEW v \in PlanWeeks, NEW o \in Orders,
             SelectJobs(p, s, o, v)
      PROVE  SessionsInv'
  BY <1>3, SelectJobsKeeps
<1>4. ASSUME NEW p \in Planners, NextJob(p) PROVE SessionsInv'
  BY <1>4, NextJobKeeps
<1>5. ASSUME NEW p \in Planners, WriteOverride(p) PROVE SessionsInv'
  BY <1>5, WriteOverrideKeeps
<1>6. ASSUME NEW p \in Planners, Moved(p) \/ MoveFails(p) PROVE SessionsInv'
  BY <1>6, MoveEnds
<1>7. ASSUME NEW s \in Sessions, DeleteSession(s) \/ \E j \in Jobs : RemoveOverride(s, j)
      PROVE  SessionsInv'
  BY <1>7, RemoveKeeps
<1>8. ASSUME NEW s \in Sessions,
             AddSession(s, NoPlan) \/ \E x \in Sessions \ {s} : CloneSession(s, x)
      PROVE  SessionsInv'
  <2>1. \E plan : DOMAIN plan = Jobs /\ AddSession(s, plan)
    BY <1>0, <1>8 DEF CloneSession, NoPlan, SessionsType
  <2> QED BY <2>1, AddSessionKeeps
<1>9. CASE UNCHANGED sessionVars
  <2>1. \A q \in Planners, t \in Tables : Accounts(moving[q], t) => Accounts(moving[q], t)'
    BY <1>9 DEF sessionVars, Accounts, Holds, Unmoved
  <2> QED BY <1>9, <2>1 DEF SessionsInv, SessionsType, sessionVars
<1>10. CASE SessionsNext
  BY <1>1, <1>2, <1>3, <1>4, <1>5, <1>6, <1>7, <1>8, <1>10 DEF SessionsNext
<1> QED BY <1>9, <1>10

(* Of the whole planning area, sessions see their own steps only.          *)
LEMMA SessionAreaSteps ==
  /\ PlanningInit => SessionsInit
  /\ [PlanningNext]_planningVars => [SessionsNext]_sessionVars
<1> QED BY DEF PlanningInit, PlanningNext, planningVars

(* A request that answers that it moved a sales order has moved all the    *)
(* jobs that were open when it began and touched no other, although works  *)
(* orders are imported between its commits, on PostgreSQL, where a row of  *)
(* a later import never has the id of an earlier one.                      *)
THEOREM OrderMovesWhole ==
  ASSUME Database = "postgres"
  PROVE  PlanningSpec => WholeOrderMoved
<1> DEFINE AllMoved == \A p \in Planners :
       /\ Moved(p) => moving[p].moved = moving[p].jobs
       /\ WriteOverride(p) =>
            \A s \in Sessions, j \in Jobs : overrides'[s][j] # overrides[s][j] =>
               s = moving[p].session /\ j \in moving[p].jobs
<1>1. PlanningInit => SessionsInv
  BY SessionsInitHolds, SessionAreaSteps
<1>2. SessionsInv /\ [PlanningNext]_planningVars => SessionsInv'
  BY SessionsStepKeeps, SessionAreaSteps
<1>3. SessionsInv /\ [PlanningNext]_planningVars => [AllMoved]_sessionVars
  BY MovedAll, WriteOverrideKeeps
<1> QED BY <1>1, <1>2, <1>3, PTL DEF PlanningSpec, WholeOrderMoved

----------------------------------------------------------------------------
(***************************************************************************)
(* THE LABOUR PLAN.  Hours entered by hand stand, on PostgreSQL and while  *)
(* requests come one at a time: what a planner has loaded is still the row *)
(* of a day that planner chose, or is gone.                                *)
(***************************************************************************)
Buckets == [id : Nat, slot : Slots, hours : Hours, manual : BOOLEAN]
Edits   == {NotEditing}
           \cup [pc : {"page"}, slots : SUBSET Slots, hours : Hours, id : Nat]
           \cup [pc : {"write"}, slots : SUBSET Slots, hours : Hours, skip : BOOLEAN,
                 seen : SUBSET Buckets, new : SUBSET Slots]

(* A table with unique ids, none above the last, and unique slots.         *)
TableOk(rows, last) ==
  /\ rows \subseteq Buckets /\ last \in Nat
  /\ \A a, b \in rows : a.id = b.id => a = b
  /\ \A a, b \in rows : a.slot = b.slot => a = b
  /\ \A a \in rows : a.id <= last

(* A page shows a row of its slot, a write has loaded rows of its slots.   *)
PageOk(e, rows, last) ==
  e.pc = "page" => e.id <= last /\ \A b \in rows : b.id = e.id => b.slot \in e.slots
WriteOk(e, rows, last) ==
  e.pc = "write" =>
    /\ e.new \subseteq e.slots
    /\ \A x \in e.seen : /\ x.id <= last
                         /\ \A b \in rows : b.id = x.id => /\ b.slot \in e.slots
                                                           /\ e.skip => ~b.manual

LabourInv ==
  /\ TableOk(buckets, lastBucket)
  /\ editing \in [Planners -> Edits]
  /\ \A p \in Planners : /\ PageOk(editing[p], buckets, lastBucket)
                         /\ WriteOk(editing[p], buckets, lastBucket)
  /\ \A p, q \in Planners : editing[p] # NotEditing /\ editing[q] # NotEditing => p = q

----------------------------------------------------------------------------
(* What a request in progress is.                                          *)
LEMMA EditTypes ==
  ASSUME NEW e \in Edits
  PROVE  /\ e.pc = "page" => /\ e # NotEditing /\ e.slots \in SUBSET Slots
                             /\ e.hours \in Hours /\ e.id \in Nat
         /\ e.pc = "write" => /\ e # NotEditing /\ e.slots \in SUBSET Slots
                              /\ e.hours \in Hours /\ e.skip \in BOOLEAN
                              /\ e.seen \in SUBSET Buckets /\ e.new \in SUBSET Slots
<1> QED BY DEF Edits, NotEditing

(* New rows get ids that were never used, one row for each slot.           *)
LEMMA Stored ==
  ASSUME Database = "postgres", lastBucket \in Nat, NEW rows, TableOk(rows, lastBucket),
         NEW slots \in SUBSET Slots, NEW hours \in [slots -> Hours], NEW manual \in BOOLEAN,
         \A r \in rows : r.slot \notin slots,
         Store(rows, slots, hours, manual)
  PROVE  /\ TableOk(buckets', lastBucket')
         /\ lastBucket' \in Nat /\ lastBucket <= lastBucket'
         /\ rows \subseteq buckets'
         /\ \A b \in buckets' \ rows : /\ b.id > lastBucket /\ b.slot \in slots
                                       /\ b.manual = manual
<1> DEFINE n   == Cardinality(slots)
           ids == lastBucket + 1 .. lastBucket + 1 + n - 1
           row(f, s) == [id |-> f[s], slot |-> s, hours |-> hours[s], manual |-> manual]
<1>1. n \in Nat
  BY LabourAssumption, FS_Subset, FS_CardinalityType
<1>2. lastBucket' = lastBucket + n
  BY DEF Store
<1>3. PICK f \in [slots -> ids] :
        /\ \A s, t \in slots : f[s] = f[t] => s = t
        /\ buckets' = rows \cup {row(f, s) : s \in slots}
  BY DEF Store, Added, FirstId
<1>4. \A s \in slots : /\ f[s] \in Nat /\ f[s] > lastBucket /\ f[s] <= lastBucket'
                       /\ row(f, s) \in Buckets /\ row(f, s).id = f[s] /\ row(f, s).slot = s
                       /\ row(f, s).manual = manual
  BY <1>1, <1>2, <1>3 DEF Buckets
<1> HIDE DEF n, ids, row
<1>5. /\ lastBucket' \in Nat /\ lastBucket <= lastBucket'
      /\ rows \subseteq buckets'
      /\ \A b \in buckets' \ rows : /\ b.id > lastBucket /\ b.slot \in slots
                                    /\ b.manual = manual
  BY <1>1, <1>2, <1>3, <1>4
<1>6. /\ buckets' \subseteq Buckets
      /\ \A a \in buckets' : a.id <= lastBucket'
  BY <1>1, <1>2, <1>3, <1>4 DEF TableOk, Buckets
<1>7. \A a, b \in buckets' : a.slot = b.slot => a = b
  BY <1>3, <1>4 DEF TableOk
<1>8. \A a, b \in buckets' : a.id = b.id => a = b
  <2>1. \A a \in rows : a.id \in Nat /\ a.id <= lastBucket
    BY DEF TableOk, Buckets
  <2> QED BY <2>1, <1>3, <1>4 DEF TableOk
<1> QED BY <1>5, <1>6, <1>7, <1>8 DEF TableOk

(* What was loaded stays good while rows keep their ids and slots, lose    *)
(* some of their number, gain none but new ids, and none of those that     *)
(* were loaded becomes manual.                                             *)
LEMMA EditsStayGood ==
  ASSUME NEW e \in Edits, NEW rows, NEW last \in Nat, NEW rows2, NEW last2 \in Nat,
         PageOk(e, rows, last), WriteOk(e, rows, last), last <= last2,
         TableOk(rows2, last2),
         \A b \in rows2 : b.id > last \/ \E a \in rows : /\ a.id = b.id /\ a.slot = b.slot
                                                         /\ a.manual = b.manual
  PROVE  PageOk(e, rows2, last2) /\ WriteOk(e, rows2, last2)
<1>1. \A b \in rows2 : b.id \in Nat
  BY DEF TableOk, Buckets
<1>2. PageOk(e, rows2, last2)
  <2> SUFFICES ASSUME e.pc = "page"
               PROVE  e.id <= last2 /\ \A b \in rows2 : b.id = e.id => b.slot \in e.slots
    BY DEF PageOk
  <2>1. e.id \in Nat
    BY EditTypes
  <2> QED BY <1>1, <2>1 DEF PageOk
<1>3. WriteOk(e, rows2, last2)
  <2> SUFFICES ASSUME e.pc = "write"
               PROVE  /\ e.new \subseteq e.slots
                      /\ \A x \in e.seen :
                           /\ x.id <= last2
                           /\ \A b \in rows2 : b.id = x.id => /\ b.slot \in e.slots
                                                              /\ e.skip => ~b.manual
    BY DEF WriteOk
  <2>1. \A x \in e.seen : x.id \in Nat
    BY EditTypes DEF Buckets
  <2> QED BY <1>1, <2>1 DEF WriteOk
<1> QED BY <1>2, <1>3

(* The same for the whole invariant, when no request moves on or one ends. *)
LEMMA TableStep ==
  ASSUME LabourInv, TableOk(buckets', lastBucket'), lastBucket <= lastBucket',
         editing' \in [Planners -> Edits],
         \A p \in Planners : editing'[p] = editing[p] \/ editing'[p] = NotEditing,
         \A p \in Planners : editing'[p] # NotEditing =>
           \A b \in buckets' : b.id > lastBucket
                               \/ \E a \in buckets : /\ a.id = b.id /\ a.slot = b.slot
                                                     /\ a.manual = b.manual
  PROVE  LabourInv'
<1>1. lastBucket \in Nat /\ lastBucket' \in Nat
  BY DEF LabourInv, TableOk
<1>2. ASSUME NEW p \in Planners
      PROVE  /\ PageOk(editing'[p], buckets', lastBucket')
             /\ WriteOk(editing'[p], buckets', lastBucket')
  <2>1. CASE editing'[p] = NotEditing
    BY <2>1 DEF NotEditing, PageOk, WriteOk
  <2>2. CASE editing'[p] # NotEditing
    <3>1. /\ editing'[p] = editing[p] /\ editing[p] \in Edits
          /\ PageOk(editing[p], buckets, lastBucket) /\ WriteOk(editing[p], buckets, lastBucket)
      BY <2>2 DEF LabourInv
    <3> QED BY <1>1, <2>2, <3>1, EditsStayGood
  <2> QED BY <2>1, <2>2
<1>3. \A p, q \in Planners : editing'[p] # NotEditing /\ editing'[q] # NotEditing => p = q
  BY DEF LabourInv
<1> QED BY <1>2, <1>3 DEF LabourInv

(* A request that begins or moves on leaves the table as it is.            *)
LEMMA EditStep ==
  ASSUME LabourInv, NEW p \in Planners, NEW e \in Edits, editing' = [editing EXCEPT ![p] = e],
         \A q \in Planners : q # p => editing[q] = NotEditing,
         buckets' = buckets, lastBucket' = lastBucket,
         PageOk(e, buckets, lastBucket), WriteOk(e, buckets, lastBucket)
  PROVE  LabourInv'
<1>1. /\ editing' \in [Planners -> Edits] /\ editing'[p] = e
      /\ \A q \in Planners : q # p => editing'[q] = NotEditing
  BY DEF LabourInv
<1>2. TableOk(buckets', lastBucket')
  BY DEF LabourInv
<1>3. ASSUME NEW q \in Planners
      PROVE  /\ PageOk(editing'[q], buckets', lastBucket')
             /\ WriteOk(editing'[q], buckets', lastBucket')
  <2>1. CASE q = p
    BY <2>1, <1>1
  <2>2. CASE q # p
    BY <2>2, <1>1 DEF NotEditing, PageOk, WriteOk
  <2> QED BY <2>1, <2>2
<1> QED BY <1>1, <1>2, <1>3 DEF LabourInv

----------------------------------------------------------------------------
LEMMA LabourInitHolds == LabourInit => LabourInv
<1> SUFFICES ASSUME LabourInit PROVE LabourInv
  OBVIOUS
<1> QED BY DEF LabourInit, LabourInv, TableOk, PageOk, WriteOk, Edits, NotEditing

(* An import stores the manual rows again and adds a row for each slot of  *)
(* the sheet, of which none is held by hand.                               *)
LEMMA ImportStores ==
  ASSUME Database = "postgres", LabourInv, NEW sheet \in SUBSET Slots,
         NEW hours \in [sheet -> Hours], ImportPlan(hours)
  PROVE  /\ TableOk(buckets', lastBucket') /\ lastBucket <= lastBucket'
         /\ {b \in buckets : b.manual} \subseteq buckets'
         /\ \A b \in buckets' : b \in buckets \/ (b.id > lastBucket /\ ~b.manual)
<1> DEFINE rows == {b \in buckets : b.manual}
<1>1. TableOk(rows, lastBucket) /\ lastBucket \in Nat
  BY DEF LabourInv, TableOk
<1>2. DOMAIN hours = sheet /\ \A r \in rows : r.slot \notin sheet
  BY DEF ImportPlan, ByHand, At
<1>3. Store(rows, sheet, hours, FALSE)
  BY <1>2 DEF ImportPlan
<1>4. /\ TableOk(buckets', lastBucket') /\ lastBucket <= lastBucket' /\ rows \subseteq buckets'
      /\ \A b \in buckets' \ rows : b.id > lastBucket /\ b.manual = FALSE
  BY <1>1, <1>2, <1>3, Stored
<1> QED BY <1>4

LEMMA ImportKeeps ==
  ASSUME Database = "postgres", LabourInv, NEW sheet \in SUBSET Slots,
         NEW hours \in [sheet -> Hours], ImportPlan(hours)
  PROVE  LabourInv'
<1>1. editing' = editing /\ editing' \in [Planners -> Edits]
  BY DEF ImportPlan, LabourInv
<1> QED BY <1>1, ImportStores, TableStep

(* A write changes the rows it has loaded, which are rows of its slots,    *)
(* adds rows for slots that have none, and leaves every other row alone.   *)
LEMMA WriteStores ==
  ASSUME Database = "postgres", LabourInv, NEW p \in Planners, WriteHours(p)
  PROVE  /\ TableOk(buckets', lastBucket') /\ lastBucket <= lastBucket'
         /\ \A b \in buckets : \E c \in buckets' :
               /\ c.slot = b.slot
               /\ b.manual => c.manual
               /\ c = b \/ (b.slot \in editing[p].slots /\ (editing[p].skip => ~b.manual))
         /\ \A c \in buckets' : \/ c.slot \in editing[p].slots /\ c \notin buckets
                                     /\ (editing[p].skip => \A b \in buckets : b.slot = c.slot => ~b.manual)
                               \/ c \in buckets
<1> DEFINE r   == editing[p]
           ids == {b.id : b \in r.seen}
           new(b) == IF b.id \in ids THEN [b EXCEPT !.hours = r.hours, !.manual = TRUE] ELSE b
           rows == {new(b) : b \in buckets}
           hours == [s \in r.new |-> r.hours]
<1>1. /\ r \in Edits /\ r.pc = "write"
      /\ r.slots \in SUBSET Slots /\ r.hours \in Hours /\ r.new \in SUBSET Slots
      /\ r.new \subseteq r.slots
  BY EditTypes DEF WriteHours, LabourInv, WriteOk
<1>2. \A b \in buckets : /\ b \in Buckets
                         /\ new(b) \in Buckets /\ new(b).id = b.id /\ new(b).slot = b.slot
                         /\ b.manual => new(b).manual
                         /\ b.id \notin ids => new(b) = b
  BY <1>1 DEF LabourInv, TableOk, Buckets
<1>3. \A b \in buckets : b.id \in ids => b.slot \in r.slots /\ (r.skip => ~b.manual)
  BY <1>1 DEF LabourInv, WriteOk
<1>4. \A b \in buckets : b.slot \notin r.new
  BY DEF WriteHours, Clashes, At
<1>5. Store(rows, r.new, hours, TRUE)
  BY DEF WriteHours
<1> HIDE DEF new, ids
<1>6. TableOk(rows, lastBucket) /\ lastBucket \in Nat
  BY <1>2 DEF LabourInv, TableOk
<1>7. hours \in [r.new -> Hours] /\ TRUE \in BOOLEAN /\ lastBucket \in Nat
  BY <1>1, <1>6
<1>8. \A x \in rows : x.slot \notin r.new
  BY <1>2, <1>4
<1> HIDE DEF rows, hours, r
<1>9. /\ TableOk(buckets', lastBucket') /\ lastBucket <= lastBucket' /\ rows \subseteq buckets'
      /\ \A b \in buckets' \ rows : b.id > lastBucket /\ b.slot \in r.new
  BY <1>1, <1>5, <1>6, <1>7, <1>8, Stored
<1> USE DEF rows
<1>10. ASSUME NEW b \in buckets
       PROVE  \E c \in buckets' : /\ c.slot = b.slot
                                  /\ b.manual => c.manual
                                  /\ c = b \/ (b.slot \in r.slots /\ (r.skip => ~b.manual))
  <2>1. new(b) \in buckets'
    BY <1>9
  <2> QED BY <2>1, <1>2, <1>3
<1>11. ASSUME NEW c \in buckets', c \notin buckets
       PROVE  /\ c.slot \in r.slots
              /\ r.skip => \A b \in buckets : b.slot = c.slot => ~b.manual
  <2>1. CASE c \in rows
    <3>1. PICK b \in buckets : c = new(b)
      BY <2>1
    <3>2. b.id \in ids /\ c.slot = b.slot
      BY <1>11, <3>1, <1>2
    <3>3. \A a \in buckets : a.slot = c.slot => a = b
      BY <3>2 DEF LabourInv, TableOk
    <3> QED BY <3>2, <3>3, <1>3
  <2>2. CASE c \notin rows
    BY <2>2, <1>1, <1>4, <1>9
  <2> QED BY <2>1, <2>2
<1> QED BY <1>9, <1>10, <1>11 DEF r

LEMMA WriteKeeps ==
  ASSUME Database = "postgres", LabourInv, NEW p \in Planners, WriteHours(p)
  PROVE  LabourInv'
<1>1. editing[p] # NotEditing /\ editing' = [editing EXCEPT ![p] = NotEditing]
  <2>1. editing[p].pc = "write" /\ editing' = [editing EXCEPT ![p] = NotEditing]
    BY Zenon DEF WriteHours
  <2> QED BY <2>1, EditTypes DEF LabourInv
<1>2. \A q \in Planners : editing'[q] = NotEditing
  BY <1>1 DEF LabourInv
<1>3. editing' \in [Planners -> Edits]
  BY <1>1 DEF LabourInv, Edits
<1> QED BY <1>2, <1>3, WriteStores, TableStep

LEMMA OpenKeeps ==
  ASSUME Overlap = FALSE, LabourInv, NEW p \in Planners, NEW b \in buckets, NEW h \in Hours,
         OpenBucket(p, b, h)
  PROVE  LabourInv'
<1> DEFINE e == [pc |-> "page", slots |-> {b.slot}, hours |-> h, id |-> b.id]
<1>1. /\ \A q \in Planners : q # p => editing[q] = NotEditing
      /\ editing' = [editing EXCEPT ![p] = e] /\ buckets' = buckets /\ lastBucket' = lastBucket
  BY DEF OpenBucket, StartEdit
<1>2. e \in Edits
  BY DEF LabourInv, TableOk, Buckets, Edits
<1>3. PageOk(e, buckets, lastBucket) /\ WriteOk(e, buckets, lastBucket)
  BY DEF LabourInv, TableOk, PageOk, WriteOk
<1> HIDE DEF e
<1> QED BY <1>1, <1>2, <1>3, EditStep

LEMMA FindBucketKeeps ==
  ASSUME LabourInv, NEW p \in Planners, FindBucket(p)
  PROVE  LabourInv'
<1> DEFINE old == editing[p]
           e == [pc |-> "write", slots |-> old.slots, hours |-> old.hours, skip |-> FALSE,
                 seen |-> WithId(old.id), new |-> {}]
<1>1. /\ old.pc = "page" /\ editing' = [editing EXCEPT ![p] = e]
      /\ buckets' = buckets /\ lastBucket' = lastBucket
  BY DEF FindBucket
<1>2. /\ old # NotEditing /\ old.slots \in SUBSET Slots /\ old.hours \in Hours
      /\ WithId(old.id) \in SUBSET Buckets
  BY <1>1, EditTypes DEF LabourInv, TableOk, WithId
<1>3. \A q \in Planners : q # p => editing[q] = NotEditing
  BY <1>2 DEF LabourInv
<1>4. e \in Edits
  BY <1>2 DEF Edits
<1>5. PageOk(old, buckets, lastBucket)
  BY DEF LabourInv
<1>6. WriteOk(e, buckets, lastBucket)
  <2>1. \A x \in WithId(old.id) : x.id <= lastBucket /\ x.id = old.id
    BY DEF WithId, LabourInv, TableOk
  <2>2. \A b \in buckets : b.id = old.id => b.slot \in old.slots
    BY <1>1, <1>5 DEF PageOk
  <2>3. /\ e.new = {} /\ e.seen = WithId(old.id) /\ e.slots = old.slots /\ e.skip = FALSE
    OBVIOUS
  <2> QED BY <2>1, <2>2, <2>3 DEF WriteOk
<1>7. PageOk(e, buckets, lastBucket)
  BY DEF PageOk
<1> HIDE DEF e, old
<1> QED BY <1>1, <1>3, <1>4, <1>6, <1>7, EditStep

LEMMA FindSlotsKeeps ==
  ASSUME Overlap = FALSE, LabourInv, NEW p \in Planners, NEW slots \in SUBSET Slots,
         NEW h \in Hours, NEW skip \in BOOLEAN, FindSlots(p, slots, h, skip)
  PROVE  LabourInv'
<1> DEFINE found == {b \in buckets : b.slot \in slots}
           seen  == {b \in found : ~(skip /\ b.manual)}
           new   == slots \ {b.slot : b \in found}
           e     == [pc |-> "write", slots |-> slots, hours |-> h, skip |-> skip,
                     seen |-> seen, new |-> new]
<1>1. /\ \A q \in Planners : q # p => editing[q] = NotEditing
      /\ editing' = [editing EXCEPT ![p] = e] /\ buckets' = buckets /\ lastBucket' = lastBucket
  BY DEF FindSlots, StartEdit
<1>2. /\ seen \in SUBSET Buckets /\ new \in SUBSET Slots /\ new \subseteq slots
      /\ \A x \in seen : x \in buckets /\ x.slot \in slots /\ (skip => ~x.manual)
  BY DEF LabourInv, TableOk
<1> HIDE DEF seen, new
<1>3. e \in Edits
  BY <1>2 DEF Edits
<1>4. e.pc = "write" /\ e.slots = slots /\ e.seen = seen /\ e.new = new /\ e.skip = skip
  OBVIOUS
<1> HIDE DEF e
<1>5. PageOk(e, buckets, lastBucket) /\ WriteOk(e, buckets, lastBucket)
  BY <1>2, <1>4 DEF LabourInv, TableOk, PageOk, WriteOk
<1> QED BY <1>1, <1>3, <1>5, EditStep

LEMMA FailsKeeps ==
  ASSUME LabourInv, NEW p \in Planners, EditFails(p)
  PROVE  LabourInv'
<1>1. /\ editing' = [editing EXCEPT ![p] = NotEditing]
      /\ buckets' = buckets /\ lastBucket' = lastBucket
  BY DEF EditFails
<1>2. /\ editing' \in [Planners -> Edits]
      /\ \A q \in Planners : editing'[q] = editing[q] \/ editing'[q] = NotEditing
  BY <1>1 DEF LabourInv, Edits
<1>3. lastBucket <= lastBucket' /\ TableOk(buckets', lastBucket')
  BY <1>1 DEF LabourInv, TableOk
<1> QED BY <1>1, <1>2, <1>3, TableStep

LEMMA UnchangedKeeps ==
  ASSUME LabourInv, buckets' = buckets, lastBucket' = lastBucket, editing' = editing
  PROVE  LabourInv'
<1>1. TableOk(buckets', lastBucket') /\ editing' \in [Planners -> Edits]
  BY DEF LabourInv
<1>2. \A p \in Planners : /\ PageOk(editing'[p], buckets', lastBucket')
                          /\ WriteOk(editing'[p], buckets', lastBucket')
  BY DEF LabourInv
<1>3. \A p, q \in Planners : editing'[p] # NotEditing /\ editing'[q] # NotEditing => p = q
  BY DEF LabourInv
<1> QED BY <1>1, <1>2, <1>3 DEF LabourInv

(* Every step keeps the invariant.                                         *)
LEMMA LabourStepKeeps ==
  ASSUME Database = "postgres", Overlap = FALSE, LabourInv, [LabourNext]_labourVars
  PROVE  LabourInv'
<1>1. ASSUME NEW sheet \in (SUBSET Slots) \ {{}}, NEW hours \in [sheet -> Hours],
             ImportPlan(hours)
      PROVE  LabourInv'
  BY <1>1, ImportKeeps
<1>2. ASSUME NEW sheet \in (SUBSET Slots) \ {{}}, ImportPlanFails(sheet) PROVE LabourInv'
  BY <1>2, UnchangedKeeps DEF ImportPlanFails
<1>3. ASSUME NEW p \in Planners, NEW b \in buckets, NEW h \in Hours, OpenBucket(p, b, h)
      PROVE  LabourInv'
  BY <1>3, OpenKeeps
<1>4. ASSUME NEW p \in Planners, NEW slots \in (SUBSET Slots) \ {{}}, NEW h \in Hours,
             NEW skip \in BOOLEAN, FindSlots(p, slots, h, skip)
      PROVE  LabourInv'
  BY <1>4, FindSlotsKeeps
<1>5. ASSUME NEW p \in Planners, FindBucket(p) PROVE LabourInv'
  BY <1>5, FindBucketKeeps
<1>6. ASSUME NEW p \in Planners, WriteHours(p) PROVE LabourInv'
  BY <1>6, WriteKeeps
<1>7. ASSUME NEW p \in Planners, EditFails(p) PROVE LabourInv'
  BY <1>7, FailsKeeps
<1>8. CASE UNCHANGED labourVars
  BY <1>8, UnchangedKeeps DEF labourVars
<1>9. \/ \E sheet \in (SUBSET Slots) \ {{}} : \/ \E hours \in [sheet -> Hours] : ImportPlan(hours)
                                            \/ ImportPlanFails(sheet)
      \/ \E p \in Planners :
           \/ \E b \in buckets, h \in Hours : OpenBucket(p, b, h)
           \/ \E slots \in (SUBSET Slots) \ {{}}, h \in Hours, skip \in BOOLEAN :
                FindSlots(p, slots, h, skip)
           \/ FindBucket(p) \/ WriteHours(p) \/ EditFails(p)
      \/ UNCHANGED labourVars
  BY DEF LabourNext
<1>10. CASE \E sheet \in (SUBSET Slots) \ {{}} :
               (\E hours \in [sheet -> Hours] : ImportPlan(hours)) \/ ImportPlanFails(sheet)
  BY <1>10, <1>1, <1>2
<1>11. CASE \E p \in Planners :
              \/ \E b \in buckets, h \in Hours : OpenBucket(p, b, h)
              \/ \E slots \in (SUBSET Slots) \ {{}}, h \in Hours, skip \in BOOLEAN :
                   FindSlots(p, slots, h, skip)
              \/ FindBucket(p) \/ WriteHours(p) \/ EditFails(p)
  BY <1>11, <1>3, <1>4, <1>5, <1>6, <1>7
<1> QED BY <1>8, <1>9, <1>10, <1>11

----------------------------------------------------------------------------
(* The hours of a slot are those of its only row.                          *)
LEMMA HoursOfRow ==
  ASSUME NEW S, NEW b \in S, \A a \in S : a.slot = b.slot => a = b
  PROVE  /\ {a \in S : a.slot = b.slot} = {b}
         /\ (CHOOSE x \in {a \in S : a.slot = b.slot} : TRUE) = b
<1>1. {a \in S : a.slot = b.slot} = {b}
  OBVIOUS
<1>2. (CHOOSE x \in {b} : TRUE) = b
  OBVIOUS
<1> QED BY <1>1, <1>2

(* A row that stays keeps its hours shown.                                 *)
LEMMA RowStays ==
  ASSUME LabourInv, TableOk(buckets', lastBucket'), NEW b \in buckets, b \in buckets'
  PROVE  HoursOf(b.slot)' = HoursOf(b.slot)
<1>1. \A a \in buckets : a.slot = b.slot => a = b
  BY DEF LabourInv, TableOk
<1>2. \A a \in buckets' : a.slot = b.slot => a = b
  BY DEF TableOk
<1>3. HoursOf(b.slot) = b.hours
  BY <1>1, HoursOfRow DEF HoursOf, At
<1>4. /\ {a \in buckets' : a.slot = b.slot} = {b}
      /\ (CHOOSE x \in {a \in buckets' : a.slot = b.slot} : TRUE) = b
  BY <1>2, HoursOfRow
<1>5. HoursOf(b.slot)' = b.hours
  BY <1>4 DEF HoursOf, At
<1> QED BY <1>3, <1>5

(* An import changes no hours entered by hand and makes no row manual.     *)
LEMMA ImportSpares ==
  ASSUME Database = "postgres", LabourInv, NEW sheet \in SUBSET Slots,
         NEW hours \in [sheet -> Hours], ImportPlan(hours), NEW s \in Slots
  PROVE  /\ s \in ByHand => s \in ByHand' /\ HoursOf(s)' = HoursOf(s)
         /\ s \notin ByHand' \ ByHand
<1>1. ASSUME s \in ByHand PROVE s \in ByHand' /\ HoursOf(s)' = HoursOf(s)
  <2>1. PICK b \in buckets : b.slot = s /\ b.manual
    BY <1>1 DEF ByHand, At
  <2>2. b \in buckets' /\ TableOk(buckets', lastBucket')
    BY <2>1, ImportStores
  <2>3. s \in ByHand'
    BY <2>1, <2>2 DEF ByHand, At
  <2>4. HoursOf(b.slot)' = HoursOf(b.slot)
    BY <2>2, RowStays
  <2> QED BY <2>1, <2>3, <2>4
<1>2. ASSUME s \in ByHand' PROVE s \in ByHand
  <2>1. PICK b \in buckets' : b.slot = s /\ b.manual
    BY <1>2 DEF ByHand, At
  <2>2. b \in buckets
    BY <2>1, ImportStores
  <2> QED BY <2>1, <2>2 DEF ByHand, At
<1> QED BY <1>1, <1>2

(* A write that is not meant for a slot changes nothing there.             *)
LEMMA WriteSpares ==
  ASSUME Database = "postgres", LabourInv, NEW p \in Planners, WriteHours(p), NEW s \in Slots
  PROVE  /\ s \in ByHand => s \in ByHand'
         /\ \/ s \in editing[p].slots /\ (editing[p].skip => s \notin ByHand)
            \/ /\ s \in ByHand => HoursOf(s)' = HoursOf(s)
               /\ s \in ByHand' => s \in ByHand
<1>1. ASSUME s \in ByHand PROVE s \in ByHand'
  <2>1. PICK b \in buckets : b.slot = s /\ b.manual
    BY <1>1 DEF ByHand, At
  <2>2. PICK c \in buckets' : c.slot = b.slot /\ (b.manual => c.manual)
    BY WriteStores
  <2> QED BY <2>1, <2>2 DEF ByHand, At
<1>2. ASSUME ~(s \in editing[p].slots /\ (editing[p].skip => s \notin ByHand)), s \in ByHand
      PROVE  HoursOf(s)' = HoursOf(s)
  <2>1. PICK b \in buckets : b.slot = s /\ b.manual
    BY <1>2 DEF ByHand, At
  <2>2. b \in buckets'
    BY <1>2, <2>1, WriteStores
  <2>3. TableOk(buckets', lastBucket')
    BY WriteStores
  <2> QED BY <2>1, <2>2, <2>3, RowStays
<1>3. ASSUME ~(s \in editing[p].slots /\ (editing[p].skip => s \notin ByHand)), s \in ByHand'
      PROVE  s \in ByHand
  <2>1. PICK b \in buckets' : b.slot = s /\ b.manual
    BY <1>3 DEF ByHand, At
  <2>2. CASE b \in buckets
    BY <2>1, <2>2 DEF ByHand, At
  <2>3. CASE b \notin buckets
    <3>1. s \in editing[p].slots
      BY <2>1, <2>3, WriteStores
    <3> QED BY <3>1, <1>3
  <2> QED BY <2>2, <2>3
<1> QED BY <1>1, <1>2, <1>3

Stand == \A s \in Slots :
           /\ s \in ByHand => s \in ByHand'
           /\ (s \in ByHand /\ HoursOf(s)' # HoursOf(s)) \/ s \in ByHand' \ ByHand =>
                \E p \in Planners : /\ editing[p].pc = "write" /\ WriteHours(p)
                                    /\ s \in editing[p].slots
                                    /\ editing[p].skip => s \notin ByHand

LEMMA SameTable ==
  ASSUME buckets' = buckets, NEW s \in Slots
  PROVE  (s \in ByHand <=> s \in ByHand') /\ HoursOf(s)' = HoursOf(s)
<1>1. At(s)' = At(s)
  BY DEF At
<1>2. (CHOOSE b \in At(s) : TRUE)' = (CHOOSE b \in At(s) : TRUE)
  BY <1>1
<1> QED BY <1>1, <1>2 DEF ByHand, HoursOf

LEMMA StepStands ==
  ASSUME Database = "postgres", LabourInv, [LabourNext]_labourVars
  PROVE  [Stand]_labourVars
<1>1. ASSUME NEW sheet \in (SUBSET Slots) \ {{}}, NEW hours \in [sheet -> Hours],
             ImportPlan(hours)
      PROVE  Stand
  BY <1>1, ImportSpares DEF Stand
<1>2. ASSUME NEW p \in Planners, WriteHours(p) PROVE Stand
  <2>1. editing[p].pc = "write"
    BY <1>2, Zenon DEF WriteHours
  <2> SUFFICES ASSUME NEW s \in Slots
               PROVE  /\ s \in ByHand => s \in ByHand'
                      /\ \/ s \in editing[p].slots /\ (editing[p].skip => s \notin ByHand)
                         \/ /\ s \in ByHand => HoursOf(s)' = HoursOf(s)
                            /\ s \in ByHand' => s \in ByHand
    BY <1>2, <2>1 DEF Stand
  <2> QED BY <1>2, WriteSpares
<1>3. CASE buckets' = buckets
  BY <1>3, SameTable DEF Stand
<1>4. \/ \E sheet \in (SUBSET Slots) \ {{}} : \E hours \in [sheet -> Hours] : ImportPlan(hours)
      \/ \E p \in Planners : WriteHours(p)
      \/ buckets' = buckets
  BY DEF LabourNext, labourVars, ImportPlanFails, OpenBucket, FindSlots, StartEdit,
         FindBucket, EditFails
<1> QED BY <1>1, <1>2, <1>3, <1>4

(* Of the whole planning area, the labour plan sees its own steps only.    *)
LEMMA LabourAreaSteps ==
  /\ PlanningInit => LabourInit
  /\ [PlanningNext]_planningVars => [LabourNext]_labourVars
<1> QED BY DEF PlanningInit, PlanningNext, planningVars

(* Hours entered by hand change only when a planner changes that very day, *)
(* a generation that skips manual entries leaves them, and only a day a    *)
(* planner chose becomes manual, although imports replace the rows under   *)
(* open pages.                                                             *)
THEOREM ByHandStands ==
  ASSUME Database = "postgres", Overlap = FALSE
  PROVE  PlanningSpec => ManualHoursStand
<1>1. PlanningInit => LabourInv
  BY LabourInitHolds, LabourAreaSteps
<1>2. LabourInv /\ [PlanningNext]_planningVars => LabourInv'
  BY LabourStepKeeps, LabourAreaSteps
<1>3. LabourInv /\ [PlanningNext]_planningVars => [Stand]_labourVars
  BY StepStands, LabourAreaSteps
<1> QED BY <1>1, <1>2, <1>3, PTL DEF PlanningSpec, ManualHoursStand, Stand

-----------------------------------------------------------------------------
(***************************************************************************)
(* The history of shipped loads on SQLite.                                 *)
(***************************************************************************)
ImportRun == [pc      : {"idle", "fetch", "write"},
              slice   : Nat,
              records : SUBSET Records,
              seen    : [Loads -> Saved \cup {NoRow}]]

HistoryTyped == /\ source \in [Loads -> InEpicor]
                /\ manifest \in [Loads -> Saved \cup {NoRow}]
                /\ run \in [Importers -> ImportRun]
                /\ \A p \in Importers : run[p].pc = "fetch" => run[p].slice > 0

\* A run has at most one record of a load in a slice, and none of a slice it
\* has still to ask for.
OneRecordPerSlice ==
  \A p \in Importers :
    /\ \A r \in run[p].records : r.slot < run[p].slice
    /\ \A r, s \in run[p].records : r.load = s.load /\ r.slot = s.slot => r = s

\* The write lock: one run writes, and what it has read is what is saved.
LockedRead ==
  /\ \A p, q \in Importers : run[p].pc = "write" /\ run[q].pc = "write" => p = q
  /\ \A p \in Importers : run[p].pc = "write" =>
        /\ ~Conflicting(p)
        /\ \A l \in Fetched(p) : run[p].seen[l] = manifest[l]

HistoryInv == HistoryTyped /\ OneRecordPerSlice /\ LockedRead

LEMMA IdleIsRun == Idle \in ImportRun /\ Idle.pc = "idle" /\ Idle.records = {}
BY DEF Idle, ImportRun

\* A run that ends takes nothing with it.
LEMMA EndedRun ==
  ASSUME HistoryInv, NEW p \in Importers, run' = [run EXCEPT ![p] = Idle],
         UNCHANGED <<source, manifest>>
  PROVE  HistoryInv'
<1>1. run' \in [Importers -> ImportRun] /\ run'[p] = Idle
      /\ \A q \in Importers : q # p => run'[q] = run[q]
  BY IdleIsRun DEF HistoryInv, HistoryTyped
<1>2. HistoryTyped'
  BY <1>1, IdleIsRun DEF HistoryInv, HistoryTyped
<1>3. OneRecordPerSlice'
  BY <1>1, IdleIsRun DEF HistoryInv, OneRecordPerSlice
<1>4. LockedRead'
  BY <1>1, IdleIsRun DEF HistoryInv, LockedRead, Conflicting, Of, Fetched
<1> QED BY <1>2, <1>3, <1>4 DEF HistoryInv

LEMMA HistoryStep ==
  Engine = "sqlite" /\ HistoryInv /\ [Next]_vars => HistoryInv'
<1> SUFFICES ASSUME Engine = "sqlite", HistoryInv, [Next]_vars PROVE HistoryInv'
  OBVIOUS
<1> USE DEF HistoryInv
<1>1. ASSUME NEW l \in Loads, Move(l) PROVE HistoryInv'
  <2>1. source' \in [Loads -> InEpicor]
    BY <1>1 DEF Move, HistoryTyped
  <2> QED BY <1>1, <2>1 DEF Move, HistoryTyped, OneRecordPerSlice, LockedRead, Conflicting,
             Of, Fetched
<1>2. ASSUME NEW p \in Importers, Begin(p) PROVE HistoryInv'
  <2> DEFINE b == [Idle EXCEPT !.pc = "fetch", !.slice = 1]
  <2>1. b \in ImportRun /\ b.pc = "fetch" /\ b.slice = 1 /\ b.records = {}
    BY DEF Idle, ImportRun
  <2>2. run' = [run EXCEPT ![p] = b]
    BY <1>2 DEF Begin
  <2> HIDE DEF b
  <2>3. run' \in [Importers -> ImportRun] /\ run'[p] = b
        /\ \A q \in Importers : q # p => run'[q] = run[q]
    BY <2>1, <2>2 DEF HistoryTyped
  <2>4. HistoryTyped'
    BY <1>2, <2>1, <2>3 DEF HistoryTyped, Begin
  <2>5. OneRecordPerSlice'
    BY <2>1, <2>3 DEF OneRecordPerSlice
  <2>6. LockedRead'
    BY <1>2, <2>1, <2>3 DEF LockedRead, Conflicting, Of, Fetched, Begin
  <2> QED BY <2>4, <2>5, <2>6
<1>3. ASSUME NEW p \in Importers, FetchSlice(p) PROVE HistoryInv'
  <2> DEFINE k == run[p].slice
             rec(l) == [load |-> l, status |-> source[l].status, slot |-> k,
                        contents |-> source[l].contents]
             new == {rec(l) : l \in {x \in Loads : source[x].slot = k}}
             b == [run[p] EXCEPT !.slice = k + 1, !.records = @ \cup new]
             c == [run[p] EXCEPT !.slice = k + 1]
  <2>1. k \in 1 .. Slices /\ k \in Nat /\ run[p] \in ImportRun
    BY <1>3, TransportAssumption DEF FetchSlice, HistoryTyped, ImportRun
  <2>2. new \subseteq Records
    BY <2>1 DEF HistoryTyped, Records, InEpicor
  <2>3. \A r \in new : r.slot = k /\ \A s \in new : r.load = s.load => r = s
    OBVIOUS
  <2>4. run[p].pc = "fetch" /\ UNCHANGED <<source, manifest>>
    BY <1>3 DEF FetchSlice
  <2>5. run' = [run EXCEPT ![p] = b]
    BY <1>3 DEF FetchSlice
  <2>6. \A r \in run[p].records : r.slot \in Nat /\ r.slot < k
    BY <2>1 DEF OneRecordPerSlice, ImportRun, Records
  <2> HIDE DEF new
  <2>7. b \in ImportRun /\ b.pc = "fetch" /\ b.slice = k + 1
        /\ b.records = run[p].records \cup new
    <3>1. k + 1 \in Nat /\ run[p].records \cup new \in SUBSET Records
      BY <2>1, <2>2 DEF ImportRun
    <3>2. c \in ImportRun /\ c.pc = "fetch" /\ c.slice = k + 1
          /\ c.records = run[p].records
      BY <2>1, <2>4, <3>1 DEF ImportRun
    <3>3. b = [c EXCEPT !.records = run[p].records \cup new]
      BY <3>2
    <3> HIDE DEF c
    <3> QED BY <3>1, <3>2, <3>3 DEF ImportRun
  <2> HIDE DEF b
  <2>8. run' \in [Importers -> ImportRun] /\ run'[p] = b
        /\ \A q \in Importers : q # p => run'[q] = run[q]
    BY <2>5, <2>7 DEF HistoryTyped
  <2>9. HistoryTyped'
    <3>1. k + 1 > 0
      BY <2>1
    <3> QED BY <2>4, <2>7, <2>8, <3>1 DEF HistoryTyped
  <2>10. OneRecordPerSlice'
    <3>1. \A r \in b.records : r.slot < k + 1
      BY <2>1, <2>3, <2>6, <2>7
    <3>2. \A r, s \in b.records : r.load = s.load /\ r.slot = s.slot => r = s
      BY <2>1, <2>3, <2>6, <2>7 DEF OneRecordPerSlice
    <3> QED BY <2>7, <2>8, <3>1, <3>2 DEF OneRecordPerSlice
  <2>11. LockedRead'
    BY <2>4, <2>7, <2>8 DEF LockedRead, Conflicting, Of, Fetched
  <2> QED BY <2>9, <2>10, <2>11
<1>4. ASSUME NEW p \in Importers, ReadSaved(p) PROVE HistoryInv'
  <2> DEFINE got == [l \in Loads |-> IF l \in Fetched(p) THEN manifest[l] ELSE NoRow]
             b == [run[p] EXCEPT !.pc = "write", !.seen = got]
  <2>1. got \in [Loads -> Saved \cup {NoRow}]
    BY DEF HistoryTyped
  <2>2. b \in ImportRun /\ b.pc = "write" /\ b.slice = run[p].slice
        /\ b.records = run[p].records /\ b.seen = got
    BY <2>1 DEF HistoryTyped, ImportRun
  <2>3. run' = [run EXCEPT ![p] = b]
    BY <1>4 DEF ReadSaved
  <2>4. \A l \in Fetched(p) : l \in Loads /\ got[l] = manifest[l]
    BY DEF HistoryTyped, ImportRun, Fetched, Records
  <2> HIDE DEF b, got
  <2>5. run' \in [Importers -> ImportRun] /\ run'[p] = b
        /\ \A q \in Importers : q # p => run'[q] = run[q]
    BY <2>2, <2>3 DEF HistoryTyped
  <2>6. HistoryTyped'
    BY <1>4, <2>2, <2>5 DEF HistoryTyped, ReadSaved
  <2>7. OneRecordPerSlice'
    BY <2>2, <2>5 DEF OneRecordPerSlice
  <2>8. LockedRead'
    BY <1>4, <2>2, <2>4, <2>5 DEF LockedRead, Conflicting, Of, Fetched, ReadSaved, MayRead
  <2> QED BY <2>6, <2>7, <2>8
<1>5. ASSUME NEW p \in Importers, Commit(p) PROVE HistoryInv'
  <2>1. run' \in [Importers -> ImportRun] /\ run'[p] = Idle
        /\ \A q \in Importers : q # p => run'[q] = run[q] /\ run[q].pc # "write"
    BY <1>5, IdleIsRun DEF HistoryTyped, LockedRead, Commit
  <2>2. manifest' \in [Loads -> Saved \cup {NoRow}]
    <3>1. ASSUME NEW l \in Loads PROVE NewManifest(p, l) \in Saved \cup {NoRow}
      <4>1. CASE l \in Fetched(p) /\ Shipped(p, l)
        <5>1. PICK r \in Of(p, l) : r.status = "SHIPPED"
          BY <4>1 DEF Shipped
        <5>2. r.contents \in Contents /\ \A s \in Of(p, l) : s.contents \in Contents
          BY <5>1 DEF Of, HistoryTyped, ImportRun, Records
        <5>3. Left(p, l) \subseteq Releases
          BY DEF Left, HistoryTyped, Saved, Contents, NoRow
        <5>a. \A s \in Of(p, l) : s.contents \subseteq Releases /\ s.contents # {}
          BY <5>2 DEF Contents
        <5>4. Left(p, l) \cup ContentsOf(p, l) \subseteq Releases
          BY <5>3, <5>a DEF ContentsOf
        <5>5. ContentsOf(p, l) # {}
          BY <5>1, <5>a DEF ContentsOf
        <5>6. Left(p, l) \cup ContentsOf(p, l) \in Contents
          BY <5>4, <5>5 DEF Contents
        <5> QED BY <4>1, <5>6 DEF NewManifest, Saved, Status
      <4>2. CASE l \in Fetched(p) /\ ~Shipped(p, l) /\ run[p].seen[l] # NoRow
        <5>1. manifest[l] # NoRow /\ manifest[l] \in Saved
          BY <1>5, <4>2 DEF LockedRead, Commit, HistoryTyped
        <5> QED BY <4>2, <5>1 DEF NewManifest, Saved, Status
      <4>3. CASE ~(l \in Fetched(p) /\ Shipped(p, l))
                 /\ ~(l \in Fetched(p) /\ ~Shipped(p, l) /\ run[p].seen[l] # NoRow)
        BY <4>3 DEF NewManifest, HistoryTyped
      <4> QED BY <4>1, <4>2, <4>3
    <3> QED BY <1>5, <3>1 DEF Commit
  <2>3. HistoryTyped'
    BY <1>5, <2>1, <2>2, IdleIsRun DEF HistoryTyped, Commit
  <2>4. OneRecordPerSlice'
    BY <2>1, IdleIsRun DEF OneRecordPerSlice
  <2>5. LockedRead'
    BY <2>1, IdleIsRun DEF LockedRead
  <2> QED BY <2>3, <2>4, <2>5
<1>6. ASSUME NEW p \in Importers, Refused(p) \/ Raise(p) PROVE HistoryInv'
  BY <1>6, EndedRun DEF Refused, Raise
<1>7. CASE UNCHANGED vars
  BY <1>7 DEF vars, HistoryTyped, OneRecordPerSlice, LockedRead, Conflicting, Of, Fetched
<1> HIDE DEF HistoryInv
<1> QED BY <1>1, <1>2, <1>3, <1>4, <1>5, <1>6, <1>7 DEF Next, Work

LEMMA HistoryInit == Init => HistoryInv
<1> SUFFICES ASSUME Init PROVE HistoryInv
  OBVIOUS
<1>1. \A p \in Importers : run[p] = Idle
  BY DEF Init
<1>2. HistoryTyped
  BY <1>1, IdleIsRun DEF Init, HistoryTyped
<1> QED BY <1>1, <1>2, IdleIsRun DEF HistoryInv, OneRecordPerSlice, LockedRead

\* The shipped records of a load that a run without conflict has are one.
LEMMA OneShippedRecord ==
  ASSUME HistoryInv, NEW p \in Importers, ~Conflicting(p), NEW l \in Loads,
         NEW r \in Of(p, l), r.status = "SHIPPED"
  PROVE  Of(p, l) = {r}
BY DEF HistoryInv, OneRecordPerSlice, Conflicting, Of

\* On SQLite, whose write lock serialises the imports, the saved contents of a
\* load only ever become those one run was given for it as shipped, and no
\* saved manifest disappears.
THEOREM ShippedContents ==
  ASSUME Engine = "sqlite"
  PROVE  DeskSpec => ContentsObserved
<1> DEFINE Observed == \A l \in Loads :
       /\ manifest[l] # NoRow => manifest'[l] # NoRow
       /\ manifest'[l].contents # manifest[l].contents =>
            \E p \in Importers : \E r \in Of(p, l) :
               r.status = "SHIPPED" /\ r.contents = manifest'[l].contents
<1>1. HistoryInv /\ [Next]_vars => [Observed]_vars
  <2> SUFFICES ASSUME HistoryInv, Next, NEW l \in Loads, manifest' # manifest
               PROVE  /\ manifest[l] # NoRow => manifest'[l] # NoRow
                      /\ manifest'[l].contents # manifest[l].contents =>
                           \E p \in Importers : \E r \in Of(p, l) :
                              r.status = "SHIPPED" /\ r.contents = manifest'[l].contents
    BY DEF vars
  <2>1. PICK p \in Importers : Commit(p)
    BY DEF Next, Work, Move, Begin, FetchSlice, ReadSaved, Refused, Raise
  <2>2. manifest'[l] = NewManifest(p, l)
    BY <2>1 DEF Commit
  <2>3. ~Conflicting(p) /\ \A x \in Fetched(p) : run[p].seen[x] = manifest[x]
    BY <2>1 DEF HistoryInv, LockedRead, Commit
  <2>4. CASE l \in Fetched(p) /\ Shipped(p, l)
    <3>1. PICK r \in Of(p, l) : r.status = "SHIPPED"
      BY <2>4 DEF Shipped
    <3>2. ContentsOf(p, l) = r.contents
      BY <2>3, <3>1, OneShippedRecord DEF ContentsOf
    <3>3. Left(p, l) = {}
      BY <2>3, <2>4 DEF Left
    <3>4. manifest'[l] = [status |-> "SHIPPED", contents |-> r.contents]
      BY <2>2, <2>4, <3>2, <3>3 DEF NewManifest
    <3> QED BY <3>1, <3>4 DEF NoRow
  <2>5. CASE l \in Fetched(p) /\ ~Shipped(p, l) /\ run[p].seen[l] # NoRow
    <3>1. manifest[l] \in Saved
      BY <2>3, <2>5 DEF HistoryInv, HistoryTyped
    <3>2. manifest'[l] = [manifest[l] EXCEPT !.status = "PACKED"]
      BY <2>2, <2>5 DEF NewManifest
    <3> QED BY <3>1, <3>2 DEF Saved, NoRow
  <2>6. CASE ~(l \in Fetched(p) /\ Shipped(p, l))
             /\ ~(l \in Fetched(p) /\ ~Shipped(p, l) /\ run[p].seen[l] # NoRow)
    BY <2>2, <2>6 DEF NewManifest
  <2> QED BY <2>4, <2>5, <2>6
<1>2. [DeskNext]_deskVars => [Next]_vars
  BY DEF DeskNext, deskVars
<1>3. DeskInit => HistoryInv
  BY HistoryInit DEF DeskInit
<1>4. HistoryInv /\ [Next]_vars => HistoryInv'
  BY HistoryStep
<1> QED
  BY <1>1, <1>2, <1>3, <1>4, PTL DEF DeskSpec, ContentsObserved

-----------------------------------------------------------------------------
(***************************************************************************)
(* The order of a job's items, when requests come one at a time.           *)
(***************************************************************************)
OneAtATime == \A q, s \in ItemRequests : q = s

ItemsTyped ==
  /\ sortOrder \in [PresentItems -> Nat]
  /\ PresentItems \subseteq bornItems /\ bornItems \subseteq JobItems
  /\ DOMAIN itemReq = ItemRequests
  /\ itemReq = [q \in ItemRequests |-> itemReq[q]]
  /\ \A q \in ItemRequests : itemReq[q].pc \in {"free", "add", "move", "reorder"}

\* The new item comes after every present one, or all have place 0.
AddPending(r) ==
  r.pc = "add" => \E i \in bornItems \ PresentItems, n \in Nat :
     /\ r.add = {i} /\ r.writes = [k \in {i} |-> n]
     /\ \A k \in PresentItems : sortOrder[k] < n \/ (sortOrder[k] = 0 /\ n = 0)

Between(a, b, c) == a < b /\ b < c

\* Two items that are both still there are neighbours and swap their places.
MovePending(r) ==
  r.pc = "move" =>
     /\ r.add = {}
     /\ \/ DOMAIN r.writes = {}
        \/ \E i, s \in bornItems :
             /\ i # s /\ DOMAIN r.writes = {i, s}
             /\ i \in PresentItems /\ s \in PresentItems =>
                  /\ r.writes[i] = sortOrder[s] /\ r.writes[s] = sortOrder[i]
                  /\ sortOrder[i] # sortOrder[s]
                  /\ \A k \in PresentItems :
                       /\ ~Between(sortOrder[i], sortOrder[k], sortOrder[s])
                       /\ ~Between(sortOrder[s], sortOrder[k], sortOrder[i])

\* Every present item gets, or has already, the position it was sent at.
ReorderPending(r) ==
  r.pc = "reorder" =>
     /\ r.add = {}
     /\ DOMAIN r.want \in SUBSET Int /\ IsInjective(r.want)
     /\ \A k \in PresentItems \cup DOMAIN r.writes : \E n \in DOMAIN r.want : k = r.want[n]
     /\ \A n \in DOMAIN r.want : n > 0 /\ (r.want[n] \in PresentItems =>
          IF r.want[n] \in DOMAIN r.writes THEN r.writes[r.want[n]] = n - 1
                                           ELSE sortOrder[r.want[n]] = n - 1)

Pending == \A q \in ItemRequests : /\ AddPending(itemReq[q])
                                   /\ MovePending(itemReq[q])
                                   /\ ReorderPending(itemReq[q])

OrderInv == ItemsTyped /\ Pending

\* The least element of a set of naturals, by the well-founded order on them.
LEMMA SmallestOf ==
  ASSUME NEW T \in SUBSET Nat, T # {}
  PROVE  \E n \in T : \A k \in T : n <= k
<1> DEFINE Below == {pair \in Nat \X Nat : pair[1] < pair[2]}
<1>1. IsWellFoundedOn(Below, Nat)
  BY NatLessThanWellFounded, Zenon DEF OpToRel, Below
<1>2. PICK n \in T : \A k \in T : ~(<<k, n>> \in Below)
  BY <1>1, WFMin, Zenon
<1>3. \A k \in T : ~(k < n)
  BY <1>2 DEF Below
<1> QED BY <1>3

\* A finite set of naturals that is not empty has a greatest one.
LEMMA GreatestExists ==
  ASSUME NEW S \in SUBSET Nat, IsFiniteSet(S), S # {}
  PROVE  Max(S) \in S /\ \A x \in S : x <= Max(S)
<1> DEFINE bad == {T \in SUBSET S : T # {} /\ ~\E m \in T : \A x \in T : x <= m}
           sizes == {Cardinality(T) : T \in bad}
<1>1. bad = {}
  <2> SUFFICES ASSUME bad # {} PROVE FALSE
    OBVIOUS
  <2>1. \A T \in bad : IsFiniteSet(T) /\ Cardinality(T) \in Nat
    BY FS_Subset, FS_CardinalityType
  <2>2. sizes \in SUBSET Nat /\ sizes # {}
    BY <2>1
  <2>3. PICK T \in bad : \A U \in bad : Cardinality(T) <= Cardinality(U)
    <3>1. PICK n \in sizes : \A k \in sizes : n <= k
      <4> HIDE DEF sizes
      <4> QED BY <2>2, SmallestOf
    <3> QED BY <3>1
  <2>4. PICK x \in T : TRUE
    OBVIOUS
  <2> DEFINE U == T \ {x}
  <2>5. U \notin bad
    <3>1. Cardinality(U) = Cardinality(T) - 1 /\ Cardinality(T) \in Nat
      BY <2>1, <2>4, FS_RemoveElement
    <3> HIDE DEF bad, U
    <3> QED BY <2>3, <3>1
  <2>6. CASE U = {}
    BY <2>4, <2>6
  <2>7. CASE U # {}
    <3>1. PICK m \in U : \A y \in U : y <= m
      BY <2>5, <2>7
    <3>2. CASE x <= m
      BY <2>4, <3>1, <3>2
    <3>3. CASE ~(x <= m)
      <4>1. \A y \in T : y <= x
        BY <2>4, <3>1, <3>3
      <4> QED BY <2>4, <4>1
    <3> QED BY <3>2, <3>3
  <2> QED BY <2>6, <2>7
<1>2. \E m \in S : \A x \in S : m >= x
  BY <1>1
<1> QED BY <1>2 DEF Max

\* The place a new item gets is beyond every place there is, unless all are 0.
LEMMA NextIsFree ==
  ASSUME ItemsTyped
  PROVE  NextOrder \in Nat /\ \A k \in PresentItems :
           sortOrder[k] < NextOrder \/ (sortOrder[k] = 0 /\ NextOrder = 0)
<1>1. IsFiniteSet(PresentItems)
  BY ItemsAssumption, FS_Subset DEF ItemsTyped
<1>2. sortOrder \in Surjection(PresentItems, Places) /\ Places \in SUBSET Nat
  BY DEF ItemsTyped, Places, Surjection
<1>3. IsFiniteSet(Places)
  BY <1>1, <1>2, FS_Surjection
<1>4. CASE Places = {}
  BY <1>4 DEF NextOrder, Places
<1>5. CASE Places # {}
  <2>1. Max(Places) \in Places /\ \A x \in Places : x <= Max(Places)
    BY <1>2, <1>3, <1>5, GreatestExists
  <2> DEFINE m == Max(Places)
  <2>2. m \in Nat /\ \A k \in PresentItems : sortOrder[k] \in Nat /\ sortOrder[k] <= m
    BY <1>2, <2>1 DEF Places
  <2>3. NextOrder = IF m = 0 THEN 0 ELSE m + 1
    BY <1>5 DEF NextOrder
  <2> HIDE DEF m
  <2> QED BY <2>2, <2>3
<1> QED BY <1>4, <1>5

\* The lists a reorder may send are permutations of the present items.
LEMMA Permutation ==
  ASSUME ItemsTyped, NEW ids \in SetToSeqs(PresentItems), ToSet(ids) = PresentItems,
         IsInjective(ids)
  PROVE  /\ DOMAIN ids \in SUBSET Int /\ \A n \in DOMAIN ids : n > 0 /\ ids[n] \in PresentItems
         /\ \A k \in PresentItems : \E n \in DOMAIN ids : k = ids[n]
         /\ DOMAIN NewPlaces(ids) \subseteq PresentItems
         /\ \A n \in DOMAIN ids :
              IF ids[n] \in DOMAIN NewPlaces(ids) THEN NewPlaces(ids)[ids[n]] = n - 1
                                                  ELSE sortOrder[ids[n]] = n - 1
<1>1. DOMAIN ids = 1 .. Cardinality(PresentItems)
  BY DEF SetToSeqs
<1>2. Cardinality(PresentItems) \in Nat
  BY ItemsAssumption, FS_Subset, FS_CardinalityType DEF ItemsTyped
<1>3. \A n \in DOMAIN ids : n \in Int /\ n > 0 /\ ids[n] \in PresentItems
  BY <1>1, <1>2 DEF ToSet
<1>4. \A k \in PresentItems : \E n \in DOMAIN ids : k = ids[n]
  BY DEF ToSet
<1>5. ASSUME NEW n \in DOMAIN ids
      PROVE  (CHOOSE m \in DOMAIN ids : ids[m] = ids[n]) = n
  BY DEF IsInjective
<1>6. ASSUME NEW n \in DOMAIN ids
      PROVE  IF ids[n] \in DOMAIN NewPlaces(ids) THEN NewPlaces(ids)[ids[n]] = n - 1
                                                 ELSE sortOrder[ids[n]] = n - 1
  BY <1>3, <1>5 DEF NewPlaces
<1>7. DOMAIN NewPlaces(ids) \subseteq PresentItems
  BY DEF NewPlaces
<1> QED BY <1>1, <1>2, <1>3, <1>4, <1>6, <1>7

\* What a request holds when it has read: the three routes.
LEMMA AddReads ==
  ASSUME ItemsTyped, NEW q \in ItemRequests, NEW i \in JobItems, AddItem(q, i)
  PROVE  AddPending(itemReq[q])'
<1>1. itemReq'[q] = [pc |-> "add", add |-> {i}, want |-> <<>>,
                     writes |-> [k \in {i} |-> NextOrder]]
  BY DEF AddItem, ItemsTyped
<1>2. i \in (bornItems \ PresentItems)' /\ PresentItems' = PresentItems
      /\ sortOrder' = sortOrder
  BY DEF AddItem, ItemsTyped, PresentItems
<1>3. NextOrder \in Nat /\ \A k \in PresentItems :
           sortOrder[k] < NextOrder \/ (sortOrder[k] = 0 /\ NextOrder = 0)
  BY NextIsFree
<1> DEFINE n == NextOrder
<1>4. itemReq'[q].add = {i} /\ itemReq'[q].writes = [k \in {i} |-> n]
  BY <1>1
<1> HIDE DEF n
<1> QED BY <1>2, <1>3, <1>4 DEF AddPending, n

LEMMA MoveReads ==
  ASSUME ItemsTyped, NEW q \in ItemRequests, NEW i \in JobItems, NEW up \in BOOLEAN,
         MoveItem(q, i, up)
  PROVE  MovePending(itemReq[q])'
<1> DEFINE swap(s) == [k \in {i, s} |-> IF k = i THEN sortOrder[s] ELSE sortOrder[i]]
<1>1. PICK w \in IF Siblings(i, up) = {} THEN {<<>>} ELSE {swap(s) : s \in Siblings(i, up)} :
        itemReq' = [itemReq EXCEPT ![q] = [pc |-> "move", add |-> {}, want |-> <<>>,
                                           writes |-> w]]
  BY DEF MoveItem
<1>2. i \in PresentItems /\ UNCHANGED <<sortOrder, bornItems>> /\ PresentItems' = PresentItems
  BY DEF MoveItem, PresentItems
<1>3. itemReq'[q].add = {} /\ itemReq'[q].writes = w
  BY <1>1 DEF ItemsTyped
<1>4. CASE Siblings(i, up) = {}
  <2>1. DOMAIN w = {}
    BY <1>1, <1>4
  <2> QED BY <1>3, <2>1 DEF MovePending
<1>5. CASE Siblings(i, up) # {}
  <2>1. PICK s \in Siblings(i, up) : w = swap(s)
    BY <1>1, <1>5
  <2>2. s \in PresentItems /\ sortOrder[s] # sortOrder[i] /\ s # i
    BY <1>2, <2>1 DEF Siblings, SiblingsAny, ItemsTyped
  <2>3. DOMAIN w = {i, s} /\ w[i] = sortOrder[s] /\ w[s] = sortOrder[i]
    BY <2>1, <2>2
  <2>4. ASSUME NEW k \in PresentItems
        PROVE  /\ ~Between(sortOrder[i], sortOrder[k], sortOrder[s])
               /\ ~Between(sortOrder[s], sortOrder[k], sortOrder[i])
    <3>1. sortOrder[i] \in Nat /\ sortOrder[k] \in Nat /\ sortOrder[s] \in Nat
      BY <1>2, <2>2 DEF ItemsTyped
    <3>2. CASE up
      BY <2>1, <3>1, <3>2 DEF Siblings, SiblingsAny, Between
    <3>3. CASE ~up
      BY <2>1, <3>1, <3>3 DEF Siblings, SiblingsAny, Between
    <3> QED BY <3>2, <3>3
  <2>5. i \in bornItems' /\ s \in bornItems'
    BY <1>2, <2>2 DEF ItemsTyped
  <2> QED BY <1>2, <1>3, <2>2, <2>3, <2>4, <2>5 DEF MovePending
<1> QED BY <1>4, <1>5

LEMMA ReorderReads ==
  ASSUME ItemsTyped, NEW q \in ItemRequests, NEW ids \in SetToSeqs(PresentItems),
         ReorderItems(q, ids)
  PROVE  ReorderPending(itemReq[q])'
<1>1. itemReq'[q].add = {} /\ itemReq'[q].want = ids /\ itemReq'[q].writes = NewPlaces(ids)
  BY DEF ReorderItems, ItemsTyped
<1>2. UNCHANGED sortOrder /\ PresentItems' = PresentItems
      /\ ToSet(ids) = PresentItems /\ IsInjective(ids)
  BY DEF ReorderItems, PresentItems
<1> DEFINE w == NewPlaces(ids)
<1>3. /\ DOMAIN ids \in SUBSET Int /\ \A n \in DOMAIN ids : n > 0 /\ ids[n] \in PresentItems
      /\ \A k \in PresentItems : \E n \in DOMAIN ids : k = ids[n]
      /\ DOMAIN w \subseteq PresentItems
      /\ \A n \in DOMAIN ids : IF ids[n] \in DOMAIN w THEN w[ids[n]] = n - 1
                                                      ELSE sortOrder[ids[n]] = n - 1
  BY <1>2, Permutation
<1>4. itemReq'[q].writes = w
  BY <1>1
<1> HIDE DEF w
<1> QED BY <1>1, <1>2, <1>3, <1>4 DEF ReorderPending

\* What a commit leaves, and whether it lets two items share a place.
Tidy == /\ sortOrder' \in [PresentItems' -> Nat]
        /\ PresentItems' \subseteq bornItems

LEMMA AddCommits ==
  ASSUME ItemsTyped, NEW q \in ItemRequests, itemReq[q].pc = "add",
         AddPending(itemReq[q]), CommitOrder(q)
  PROVE  Tidy /\ (DistinctOrders /\ ~DistinctOrders' => Places = {0})
<1>1. PICK i \in bornItems \ PresentItems, n \in Nat :
        /\ itemReq[q].add = {i} /\ itemReq[q].writes = [k \in {i} |-> n]
        /\ \A k \in PresentItems : sortOrder[k] < n \/ (sortOrder[k] = 0 /\ n = 0)
  BY DEF AddPending
<1>2. sortOrder' = [k \in PresentItems \cup {i} |-> IF k = i THEN n ELSE sortOrder[k]]
  BY <1>1 DEF CommitOrder
<1>3. Tidy
  BY <1>1, <1>2 DEF Tidy, ItemsTyped, PresentItems
<1>4. \A k \in PresentItems : sortOrder[k] \in Nat
  BY DEF ItemsTyped
<1>5. CASE n = 0
  <2>1. \A k \in PresentItems : sortOrder[k] = 0
    BY <1>1, <1>4, <1>5
  <2>2. Places = {} \/ Places = {0}
    BY <2>1 DEF Places
  <2>3. CASE Places = {}
    <3>1. PresentItems = {}
      BY <2>3 DEF Places
    <3>2. \A a, b \in DOMAIN sortOrder' : a = b
      BY <1>2, <3>1
    <3> QED BY <1>3, <3>2 DEF DistinctOrders, IsInjective
  <2> QED BY <1>3, <2>2, <2>3
<1>6. CASE n # 0
  <2>1. \A k \in PresentItems : sortOrder[k] # n
    BY <1>1, <1>4, <1>6
  <2> QED BY <1>2, <1>3, <2>1 DEF DistinctOrders, IsInjective, PresentItems
<1> QED BY <1>5, <1>6

\* Two neighbours swap, and nobody else moves.
LEMMA MoveCommits ==
  ASSUME ItemsTyped, NEW q \in ItemRequests, itemReq[q].pc = "move",
         MovePending(itemReq[q]), CommitOrder(q)
  PROVE  /\ Tidy /\ (DistinctOrders => DistinctOrders')
         /\ DistinctOrders => \A j, k \in PresentItems :
              sortOrder[j] < sortOrder[k] =>
                IF {j, k} = DOMAIN itemReq[q].writes THEN sortOrder'[k] < sortOrder'[j]
                                                     ELSE sortOrder'[j] < sortOrder'[k]
<1> DEFINE w == itemReq[q].writes
<1>1. /\ \A k \in PresentItems : sortOrder[k] \in Nat
      /\ sortOrder = [k \in PresentItems |-> sortOrder[k]]
      /\ PresentItems \subseteq bornItems
  BY DEF ItemsTyped
<1>2. itemReq[q].add = {}
  BY DEF MovePending
<1>3. CASE ~(DOMAIN w \subseteq PresentItems)
  <2>1. sortOrder' = sortOrder
    BY <1>2, <1>3 DEF CommitOrder
  <2>2. \A j, k \in PresentItems : {j, k} # DOMAIN w
    BY <1>3
  <2> QED BY <1>1, <2>1, <2>2 DEF Tidy, PresentItems, DistinctOrders
<1>4. CASE DOMAIN w = {}
  <2>1. sortOrder' = sortOrder
    BY <1>1, <1>2, <1>4 DEF CommitOrder
  <2>2. \A j, k \in PresentItems : {j, k} # DOMAIN w
    BY <1>4
  <2> QED BY <1>1, <2>1, <2>2 DEF Tidy, PresentItems, DistinctOrders
<1>5. CASE DOMAIN w \subseteq PresentItems /\ DOMAIN w # {}
  <2>1. PICK i, s \in PresentItems :
          /\ i # s /\ DOMAIN w = {i, s}
          /\ w[i] = sortOrder[s] /\ w[s] = sortOrder[i] /\ sortOrder[i] # sortOrder[s]
          /\ \A k \in PresentItems : /\ ~Between(sortOrder[i], sortOrder[k], sortOrder[s])
                                     /\ ~Between(sortOrder[s], sortOrder[k], sortOrder[i])
    BY <1>5 DEF MovePending
  <2>2. sortOrder' = [k \in PresentItems |-> IF k = i THEN sortOrder[s]
                                             ELSE IF k = s THEN sortOrder[i] ELSE sortOrder[k]]
    <3>1. sortOrder' = [k \in PresentItems |-> IF k \in DOMAIN w THEN w[k] ELSE sortOrder[k]]
      BY <1>2, <1>5 DEF CommitOrder
    <3> QED BY <2>1, <3>1
  <2>3. Tidy
    BY <1>1, <2>1, <2>2 DEF Tidy, PresentItems
  <2>4. PresentItems' = PresentItems
    BY <2>2 DEF PresentItems
  <2>5. ASSUME DistinctOrders PROVE DistinctOrders'
    <3>1. \A a, b \in PresentItems : sortOrder[a] = sortOrder[b] => a = b
      BY <2>5 DEF DistinctOrders, IsInjective, PresentItems
    <3>2. \A a, b \in PresentItems : sortOrder'[a] = sortOrder'[b] => a = b
      BY <2>1, <2>2, <3>1
    <3> QED BY <2>4, <3>2 DEF DistinctOrders, IsInjective, PresentItems
  <2>6. ASSUME DistinctOrders, NEW j \in PresentItems, NEW k \in PresentItems,
               sortOrder[j] < sortOrder[k]
        PROVE  IF {j, k} = DOMAIN w THEN sortOrder'[k] < sortOrder'[j]
                                    ELSE sortOrder'[j] < sortOrder'[k]
    <3>1. \A a, b \in PresentItems : sortOrder[a] = sortOrder[b] => a = b
      BY <2>6 DEF DistinctOrders, IsInjective, PresentItems
    <3>2. CASE {j, k} = {i, s}
      <4>1. (j = i /\ k = s) \/ (j = s /\ k = i)
        BY <2>1, <2>6, <3>2
      <4> QED BY <2>1, <2>2, <2>6, <3>2, <4>1
    <3>3. CASE {j, k} # {i, s}
      <4>1. ~(j = i /\ k = s) /\ ~(j = s /\ k = i)
        BY <3>3
      <4>2. \A k1 \in PresentItems : k1 # i /\ k1 # s =>
              sortOrder[k1] # sortOrder[i] /\ sortOrder[k1] # sortOrder[s]
        BY <3>1
      <4>3. sortOrder'[j] < sortOrder'[k]
        BY <1>1, <2>1, <2>2, <2>6, <4>1, <4>2 DEF Between
      <4> QED BY <2>1, <3>3, <4>3
    <3> QED BY <3>2, <3>3
  <2> QED BY <2>3, <2>5, <2>6
<1> QED BY <1>3, <1>4, <1>5

\* Every item that is there gets the position it was sent at.
LEMMA ReorderCommits ==
  ASSUME ItemsTyped, NEW q \in ItemRequests, itemReq[q].pc = "reorder",
         ReorderPending(itemReq[q]), CommitOrder(q)
  PROVE  /\ Tidy /\ (DistinctOrders => DistinctOrders')
         /\ ToSet(itemReq[q].want) = PresentItems =>
              \A m, n \in DOMAIN itemReq[q].want :
                m < n => sortOrder'[itemReq[q].want[m]] < sortOrder'[itemReq[q].want[n]]
<1> DEFINE w == itemReq[q].writes
           ids == itemReq[q].want
<1>1. /\ \A k \in PresentItems : sortOrder[k] \in Nat
      /\ sortOrder = [k \in PresentItems |-> sortOrder[k]]
      /\ PresentItems \subseteq bornItems
  BY DEF ItemsTyped
<1>2. /\ itemReq[q].add = {}
      /\ DOMAIN ids \in SUBSET Int /\ IsInjective(ids)
      /\ \A k \in PresentItems \cup DOMAIN w : \E n \in DOMAIN ids : k = ids[n]
      /\ \A n \in DOMAIN ids : n > 0 /\ (ids[n] \in PresentItems =>
           IF ids[n] \in DOMAIN w THEN w[ids[n]] = n - 1 ELSE sortOrder[ids[n]] = n - 1)
  BY DEF ReorderPending
<1>3. ASSUME ToSet(ids) = PresentItems, NEW m \in DOMAIN ids
      PROVE  ids[m] \in PresentItems
  BY <1>3 DEF ToSet
<1>4. CASE DOMAIN w \subseteq PresentItems
  <2>1. sortOrder' = [k \in PresentItems |-> IF k \in DOMAIN w THEN w[k] ELSE sortOrder[k]]
    BY <1>2, <1>4 DEF CommitOrder
  <2> HIDE DEF w, ids
  <2>2. \A n \in DOMAIN ids : ids[n] \in PresentItems => sortOrder'[ids[n]] = n - 1
    BY <1>2, <2>1
  <2>3. PresentItems' = PresentItems
    BY <2>1 DEF PresentItems
  <2>4. \A k \in PresentItems : sortOrder'[k] \in Nat
    BY <1>2, <2>2
  <2>5. Tidy
    BY <1>1, <2>1, <2>3, <2>4 DEF Tidy
  <2>6. \A a, b \in PresentItems : sortOrder'[a] = sortOrder'[b] => a = b
    <3> SUFFICES ASSUME NEW a \in PresentItems, NEW b \in PresentItems,
                        sortOrder'[a] = sortOrder'[b]
                 PROVE  a = b
      OBVIOUS
    <3>1. PICK m \in DOMAIN ids : a = ids[m]
      BY <1>2
    <3>2. PICK n \in DOMAIN ids : b = ids[n]
      BY <1>2
    <3>3. m \in Int /\ n \in Int /\ m - 1 = n - 1
      BY <1>2, <2>2, <3>1, <3>2
    <3> QED BY <3>1, <3>2, <3>3
  <2>7. DistinctOrders'
    BY <2>3, <2>6 DEF DistinctOrders, IsInjective, PresentItems
  <2>8. ASSUME ToSet(ids) = PresentItems, NEW m \in DOMAIN ids, NEW n \in DOMAIN ids, m < n
        PROVE  sortOrder'[ids[m]] < sortOrder'[ids[n]]
    <3>1. sortOrder'[ids[m]] = m - 1 /\ sortOrder'[ids[n]] = n - 1
      BY <1>3, <2>2, <2>8
    <3>2. m \in Int /\ n \in Int
      BY <1>2
    <3> QED BY <2>8, <3>1, <3>2
  <2> QED BY <2>5, <2>7, <2>8 DEF w, ids
<1>5. CASE ~(DOMAIN w \subseteq PresentItems)
  <2>1. sortOrder' = sortOrder
    BY <1>2, <1>5 DEF CommitOrder
  <2>2. Tidy /\ (DistinctOrders => DistinctOrders')
    BY <1>1, <2>1 DEF Tidy, PresentItems, DistinctOrders
  <2>3. ToSet(ids) # PresentItems
    BY <1>2, <1>5 DEF ToSet
  <2> QED BY <2>2, <2>3
<1> QED BY <1>4, <1>5

LEMMA OrderInit == ItemsInit => OrderInv
<1> SUFFICES ASSUME ItemsInit PROVE OrderInv
  OBVIOUS
<1>1. PresentItems = {} /\ \A q \in ItemRequests : itemReq[q].pc = "free"
  BY DEF ItemsInit, PresentItems, NoRequest
<1>2. ItemsTyped
  BY <1>1 DEF ItemsInit, ItemsTyped, PresentItems
<1> QED BY <1>1, <1>2 DEF OrderInv, Pending, AddPending, MovePending, ReorderPending

LEMMA OrderStep == OneAtATime /\ OrderInv /\ [ItemsNext]_itemVars => OrderInv'
<1> SUFFICES ASSUME OneAtATime, ItemsTyped, Pending, [ItemsNext]_itemVars
             PROVE  ItemsTyped' /\ Pending'
  BY DEF OrderInv
<1>1. ASSUME NEW q \in ItemRequests, NEW i \in JobItems, AddItem(q, i)
      PROVE  ItemsTyped' /\ Pending'
  <2>1. ItemsTyped'
    BY <1>1 DEF AddItem, ItemsTyped, PresentItems
  <2>2. AddPending(itemReq[q])' /\ itemReq'[q].pc = "add"
    BY <1>1, AddReads DEF AddItem, ItemsTyped
  <2>3. Pending'
    BY <2>2 DEF OneAtATime, Pending, MovePending, ReorderPending
  <2> QED BY <2>1, <2>3
<1>2. ASSUME NEW q \in ItemRequests, NEW i \in JobItems, NEW up \in BOOLEAN,
             MoveItem(q, i, up)
      PROVE  ItemsTyped' /\ Pending'
  <2>1. PICK w : itemReq' = [itemReq EXCEPT ![q] =
                   [pc |-> "move", add |-> {}, want |-> <<>>, writes |-> w]]
    BY <1>2 DEF MoveItem
  <2>2. ItemsTyped' /\ itemReq'[q].pc = "move"
    BY <1>2, <2>1 DEF MoveItem, ItemsTyped, PresentItems
  <2>3. MovePending(itemReq[q])'
    BY <1>2, MoveReads
  <2>4. Pending'
    BY <2>2, <2>3 DEF OneAtATime, Pending, AddPending, ReorderPending
  <2> QED BY <2>2, <2>4
<1>3. ASSUME NEW q \in ItemRequests, NEW ids \in SetToSeqs(PresentItems),
             ReorderItems(q, ids)
      PROVE  ItemsTyped' /\ Pending'
  <2>1. ItemsTyped' /\ itemReq'[q].pc = "reorder"
    BY <1>3 DEF ReorderItems, ItemsTyped, PresentItems
  <2>2. ReorderPending(itemReq[q])'
    BY <1>3, ReorderReads
  <2>3. Pending'
    BY <2>1, <2>2 DEF OneAtATime, Pending, AddPending, MovePending
  <2> QED BY <2>1, <2>3
<1>4. ASSUME NEW q \in ItemRequests, CommitOrder(q) PROVE ItemsTyped' /\ Pending'
  <2>1. Tidy
    BY <1>4, AddCommits, MoveCommits, ReorderCommits DEF CommitOrder, ItemsTyped, Pending
  <2>2. \A s \in ItemRequests : itemReq'[s].pc = "free"
    BY <1>4 DEF CommitOrder, ItemsTyped, OneAtATime, NoRequest
  <2>3. ItemsTyped'
    BY <1>4, <2>1, <2>2 DEF CommitOrder, ItemsTyped, Tidy
  <2>4. Pending'
    BY <2>2 DEF Pending, AddPending, MovePending, ReorderPending
  <2> QED BY <2>3, <2>4
<1>5. ASSUME NEW i \in JobItems, DeleteItem(i) PROVE ItemsTyped' /\ Pending'
  <2>1. sortOrder' = [k \in PresentItems \ {i} |-> sortOrder[k]]
        /\ UNCHANGED <<bornItems, itemReq>>
    BY <1>5 DEF DeleteItem, Restrict
  <2>2. PresentItems' = PresentItems \ {i}
    BY <2>1 DEF PresentItems
  <2>3. ItemsTyped'
    BY <2>1, <2>2 DEF ItemsTyped
  <2>4. ASSUME NEW q \in ItemRequests, NEW r, r = itemReq[q]
        PROVE  AddPending(r)' /\ MovePending(r)' /\ ReorderPending(r)'
    <3>1. AddPending(r) /\ MovePending(r) /\ ReorderPending(r)
      BY <2>4 DEF Pending
    <3>2. AddPending(r)'
      BY <2>1, <2>2, <3>1 DEF AddPending
    <3>3. MovePending(r)'
      BY <2>1, <2>2, <3>1 DEF MovePending
    <3>4. ReorderPending(r)'
      BY <2>1, <2>2, <3>1 DEF ReorderPending
    <3> QED BY <3>2, <3>3, <3>4
  <2>5. Pending'
    BY <2>1, <2>4 DEF Pending
  <2> QED BY <2>3, <2>5
<1>6. CASE UNCHANGED itemVars
  <2>1. sortOrder' = sortOrder /\ bornItems' = bornItems /\ itemReq' = itemReq
        /\ PresentItems' = PresentItems
    BY <1>6 DEF itemVars, PresentItems
  <2>2. ItemsTyped'
    BY <2>1 DEF ItemsTyped
  <2>3. ASSUME NEW r, AddPending(r), MovePending(r), ReorderPending(r)
        PROVE  AddPending(r)' /\ MovePending(r)' /\ ReorderPending(r)'
    <3>1. AddPending(r)'
      BY <2>1, <2>3 DEF AddPending
    <3>2. MovePending(r)'
      BY <2>1, <2>3 DEF MovePending
    <3>3. ReorderPending(r)'
      BY <2>1, <2>3 DEF ReorderPending
    <3> QED BY <3>1, <3>2, <3>3
  <2>4. Pending'
    BY <2>1, <2>3 DEF Pending
  <2> QED BY <2>2, <2>4
<1> QED BY <1>1, <1>2, <1>3, <1>4, <1>5, <1>6 DEF ItemsNext

\* One request at a time: moves, reorders and additions do to the order what
\* their buttons say, whatever items are deleted between a read and its commit.
THEOREM OrderFollowsRequests ==
  ASSUME OneAtATime
  PROVE  DeskSpec => OrderAsAsked
<1>1. OrderInv /\ [ItemsNext]_itemVars =>
        [CollisionExplained /\ MoveSwapsNeighbours /\ ReorderAsSent]_itemVars
  <2> SUFFICES ASSUME ItemsTyped, Pending, ItemsNext
               PROVE  CollisionExplained /\ MoveSwapsNeighbours /\ ReorderAsSent
    BY DEF OrderInv
  <2>1. ASSUME NEW q \in ItemRequests, CommitOrder(q), DistinctOrders, ~DistinctOrders'
        PROVE  Places = {0} /\ itemReq[q].pc = "add"
    BY <2>1, AddCommits, MoveCommits, ReorderCommits DEF CommitOrder, ItemsTyped, Pending
  <2>2. ASSUME NEW i \in JobItems, DeleteItem(i), DistinctOrders PROVE DistinctOrders'
    BY <2>2 DEF DeleteItem, Restrict, DistinctOrders, IsInjective, PresentItems
  <2>3. CollisionExplained
    <3>1. ASSUME NEW q \in ItemRequests, NEW i \in JobItems, NEW up \in BOOLEAN,
                 AddItem(q, i) \/ MoveItem(q, i, up)
          PROVE  sortOrder' = sortOrder
      BY <3>1 DEF AddItem, MoveItem
    <3>2. ASSUME NEW q \in ItemRequests, NEW ids, ReorderItems(q, ids)
          PROVE  sortOrder' = sortOrder
      BY <3>2 DEF ReorderItems
    <3>3. ASSUME sortOrder' = sortOrder PROVE CollisionExplained
      BY <3>3 DEF CollisionExplained, DistinctOrders
    <3> QED BY <2>1, <2>2, <3>1, <3>2, <3>3 DEF CollisionExplained, ItemsNext
  <2>4. MoveSwapsNeighbours
    BY MoveCommits DEF MoveSwapsNeighbours, Pending
  <2>5. ReorderAsSent
    BY ReorderCommits DEF ReorderAsSent, Pending
  <2> QED BY <2>3, <2>4, <2>5
<1>2. [DeskNext]_deskVars => [ItemsNext]_itemVars
  BY DEF DeskNext, deskVars
<1>3. DeskInit => OrderInv
  BY OrderInit DEF DeskInit
<1>4. OrderInv /\ [ItemsNext]_itemVars => OrderInv'
  BY OrderStep
<1> QED
  BY <1>1, <1>2, <1>3, <1>4, PTL DEF DeskSpec, OrderAsAsked

-----------------------------------------------------------------------------
(***************************************************************************)
(* The lockout of failed logins.  The invariant relates the dictionary of  *)
(* a worker to its full history: what is remembered are the newest         *)
(* failures, nothing that still counts is missing, and the order of the    *)
(* dictionary is the order in which identifiers failed last, so that       *)
(* whoever is put out has seen all the others fail.                        *)
(***************************************************************************)
Failures == [at : Nat, others : SUBSET Identifiers]
Entries  == [times : Seq(Nat), later : SUBSET Identifiers]
Logins   == {NotLoggingIn} \cup [pc : {"password"}, worker : LoginWorkers, who : Identifiers]

LoginsTyped == /\ minute \in Nat
               /\ attempts \in [LoginWorkers -> [Identifiers -> Entries]]
               /\ login \in [LoginThreads -> Logins]
               /\ failures \in [LoginWorkers -> [Identifiers -> Seq(Failures)]]

\* The entries of a dictionary stand in a line.
InLine(table) ==
  \A i, k \in Tracked(table) :
    /\ i # k => i \in table[k].later \/ k \in table[i].later
    /\ i \in table[k].later => table[i].later \subseteq table[k].later
    /\ i \notin table[i].later

\* Failures are kept as they came: an earlier one has seen more of the others.
InSequence(past, now) ==
  \A n \in DOMAIN past :
    /\ past[n].at <= now
    /\ \A m \in DOMAIN past : n <= m => /\ past[n].at <= past[m].at
                                        /\ past[m].others \subseteq past[n].others

\* What is remembered are the newest failures, within the time of the newest,
\* and whoever came into the dictionary later has failed since.
Remembered(entry, past) ==
  LET times == entry.times  gone == Len(past) - Len(times) IN
  /\ gone >= 0 /\ Len(times) <= MaxAttempts
  /\ \A n \in DOMAIN times : times[n] = past[gone + n].at
  /\ times # <<>> => /\ times[1] + LockoutMinutes > Newest(times)
                     /\ entry.later \subseteq past[Len(past)].others

\* A failure that counts is one of the last, within the time of the newest, that
\* within the time of now, and too few others have failed since.
Counts(past, n, now) ==
  /\ n + MaxAttempts > Len(past)
  /\ past[Len(past)].at + LockoutMinutes > now
  /\ past[n].at + LockoutMinutes > past[Len(past)].at
  /\ Cardinality(past[n].others) < MaxTracked

NoneMissing(entry, past, now) ==
  \A n \in DOMAIN past : Counts(past, n, now) => n > Len(past) - Len(entry.times)

Agree(entry, past, now) ==
  InSequence(past, now) /\ Remembered(entry, past) /\ NoneMissing(entry, past, now)

LockoutInv == /\ LoginsTyped
              /\ \A w \in LoginWorkers :
                   /\ InLine(attempts[w])
                   /\ \A i \in Identifiers : Agree(attempts[w][i], failures[w][i], minute)


\* A sequence without its first ones.
LEMMA Suffix ==
  ASSUME NEW S, NEW s \in Seq(S), NEW d \in 0 .. Len(s), NEW t,
         t = SubSeq(s, d + 1, Len(s))
  PROVE  /\ t \in Seq(S) /\ Len(t) = Len(s) - d
         /\ \A k \in 1 .. Len(s) - d : t[k] = s[d + k]
<1>1. Len(s) \in Nat /\ d \in Nat /\ d + 1 \in Int /\ d + 1 >= 1 /\ d <= Len(s)
  OBVIOUS
<1>2. \A i \in d + 1 .. Len(s) : s[i] \in S
  BY <1>1
<1>3. /\ t \in Seq(S)
      /\ Len(t) = IF d + 1 <= Len(s) THEN Len(s) - (d + 1) + 1 ELSE 0
      /\ \A i \in 1 .. Len(s) - (d + 1) + 1 : t[i] = s[d + 1 + i - 1]
  BY <1>1, <1>2, SubSeqProperties
<1>4. Len(t) = Len(s) - d
  BY <1>1, <1>3
<1>5. ASSUME NEW k \in 1 .. Len(s) - d PROVE t[k] = s[d + k]
  <2>1. k \in 1 .. Len(s) - (d + 1) + 1 /\ d + 1 + k - 1 = d + k
    BY <1>1
  <2> QED BY <1>3, <2>1
<1> QED BY <1>3, <1>4, <1>5

\* The last n of a sequence.
LEMMA LastOnes ==
  ASSUME NEW S, NEW s \in Seq(S), NEW n \in Nat \ {0}
  PROVE  /\ LastOf(s, n) \in Seq(S)
         /\ Len(LastOf(s, n)) = IF Len(s) > n THEN n ELSE Len(s)
         /\ \A k \in 1 .. Len(LastOf(s, n)) :
              LastOf(s, n)[k] = s[Len(s) - Len(LastOf(s, n)) + k]
<1>1. Len(s) \in Nat
  OBVIOUS
<1>2. PICK d \in 0 .. Len(s) : d = IF Len(s) > n THEN Len(s) - n ELSE 0
  BY <1>1
<1>3. PICK t : t = LastOf(s, n)
  OBVIOUS
<1>4. t = SubSeq(s, d + 1, Len(s))
  BY <1>1, <1>2, <1>3 DEF LastOf
<1>5. /\ t \in Seq(S) /\ Len(t) = Len(s) - d
      /\ \A k \in 1 .. Len(s) - d : t[k] = s[d + k]
  BY <1>4, Suffix
<1>6. Len(s) - Len(t) = d
  BY <1>1, <1>5
<1> QED BY <1>1, <1>2, <1>3, <1>5, <1>6

\* Of ascending times the recent ones are the last.
LEMMA RecentOnes ==
  ASSUME minute \in Nat, NEW times \in Seq(Nat),
         \A n, m \in DOMAIN times : n <= m => times[n] <= times[m]
  PROVE  \E m \in 0 .. Len(times) :
           /\ \A n \in DOMAIN times : Within(times[n]) <=> n > m
           /\ Recent(times) \in Seq(Nat) /\ Len(Recent(times)) = Len(times) - m
           /\ \A k \in 1 .. Len(times) - m : Recent(times)[k] = times[m + k]
<1> DEFINE P(m) == \A n \in DOMAIN times : Within(times[n]) <=> n > m
           old  == {n \in DOMAIN times : ~Within(times[n])}
<1>1. LockoutMinutes \in Nat /\ DOMAIN times = 1 .. Len(times) /\ Len(times) \in Nat
  BY LockoutAssumption
<1>2. \E m \in 0 .. Len(times) : P(m)
  <2>1. CASE old = {}
    <3>1. P(0)
      BY <1>1, <2>1
    <3> QED BY <1>1, <3>1
  <2>2. CASE old # {}
    <3>1. old \in SUBSET (1 .. Len(times)) /\ IsFiniteSet(1 .. Len(times))
      BY <1>1, FS_Interval
    <3>0. old \in SUBSET Nat /\ IsFiniteSet(old)
      <4> HIDE DEF old
      <4>1. IsFiniteSet(old)
        BY <3>1, FS_Subset, Zenon
      <4>2. 1 .. Len(times) \in SUBSET Nat
        BY <1>1
      <4> QED BY <3>1, <4>1, <4>2, Zenon
    <3>2. Max(old) \in old /\ \A x \in old : x <= Max(old)
      <4> HIDE DEF old
      <4> QED BY <2>2, <3>0, GreatestExists
    <3>3. PICK g \in old : \A x \in old : x <= g
      BY <3>2
    <3>4. P(g)
      <4> SUFFICES ASSUME NEW n \in DOMAIN times PROVE Within(times[n]) <=> n > g
        OBVIOUS
      <4>1. ASSUME n > g PROVE Within(times[n])
        BY <1>1, <3>3, <4>1
      <4>2. ASSUME ~(n > g) PROVE ~Within(times[n])
        <5>1. times[n] <= times[g] /\ times[n] \in Nat /\ times[g] \in Nat
          BY <1>1, <4>2
        <5> QED BY <1>1, <5>1 DEF Within
      <4> QED BY <4>1, <4>2
    <3> QED BY <1>1, <3>4, SMTT(30)
  <2> QED BY <2>1, <2>2
<1> DEFINE c == CHOOSE m \in 0 .. Len(times) : P(m)
<1>3. c \in 0 .. Len(times) /\ P(c)
  <2> HIDE DEF P
  <2> QED BY <1>2
<1>4. PICK d \in 0 .. Len(times) : d = c
  BY <1>3
<1>5. Recent(times) = SubSeq(times, d + 1, Len(times))
  <2>1. Recent(times) = SubSeq(times, 1 + c, Len(times))
    BY Zenon DEF Recent
  <2>2. 1 + d = d + 1
    BY <1>1
  <2> HIDE DEF c
  <2> QED BY <1>4, <2>1, <2>2, Zenon
<1>6. PICK t : t = Recent(times)
  OBVIOUS
<1>7. /\ t \in Seq(Nat) /\ Len(t) = Len(times) - d
      /\ \A k \in 1 .. Len(times) - d : t[k] = times[d + k]
  BY <1>5, <1>6, Suffix
<1>8. P(d)
  <2> HIDE DEF P
  <2> QED BY <1>3, <1>4
<1> HIDE DEF c
<1> QED BY <1>6, <1>7, <1>8

\* To forget some keeps the others, and their places.
LEMMA ForgetReads ==
  ASSUME NEW table \in [Identifiers -> Entries], NEW gone, InLine(table),
         NEW left, left = Forget(table, gone)
  PROVE  /\ left \in [Identifiers -> Entries] /\ InLine(left)
         /\ Tracked(left) = Tracked(table) \ gone
         /\ \A k \in Identifiers :
              /\ k \in gone => left[k] = NoEntry
              /\ k \notin gone => left[k].times = table[k].times
                                  /\ left[k].later = table[k].later \ gone
<1>1. NoEntry \in Entries /\ NoEntry.times = <<>> /\ NoEntry.later = {}
  BY DEF NoEntry, Entries
<1>2. \A k \in Identifiers : /\ k \in gone => left[k] = NoEntry
                             /\ k \notin gone => left[k] = [times |-> table[k].times,
                                                            later |-> table[k].later \ gone]
  BY DEF Forget
<1>3. \A k \in Identifiers : /\ table[k].times \in Seq(Nat)
                             /\ table[k].later \in SUBSET Identifiers
  BY DEF Entries
<1>4. \A k \in Identifiers : k \notin gone => left[k].times = table[k].times
                                              /\ left[k].later = table[k].later \ gone
  <2> TAKE k \in Identifiers
  <2> HAVE k \notin gone
  <2>1. left[k] = [times |-> table[k].times, later |-> table[k].later \ gone]
    BY <1>2
  <2> QED BY <2>1
<1>5. left \in [Identifiers -> Entries]
  <2>1. left = [k \in Identifiers |-> left[k]]
    BY DEF Forget
  <2>2. ASSUME NEW k \in Identifiers PROVE left[k] \in Entries
    <3>1. CASE k \in gone
      BY <1>1, <1>2, <3>1
    <3>2. CASE k \notin gone
      <4>1. left[k] = [times |-> table[k].times, later |-> table[k].later \ gone]
        BY <1>2, <3>2
      <4> QED BY <1>3, <4>1 DEF Entries
    <3> QED BY <3>1, <3>2
  <2> QED BY <2>1, <2>2
<1>6. Tracked(left) = Tracked(table) \ gone
  BY <1>1, <1>2, <1>4 DEF Tracked
<1>7. InLine(left)
  <2>1. \A k \in Tracked(left) : k \in Tracked(table) /\ k \notin gone
                                 /\ left[k].later = table[k].later \ gone
    BY <1>4, <1>6 DEF Tracked
  <2> QED BY <1>6, <2>1 DEF InLine
<1> QED BY <1>2, <1>4, <1>5, <1>6, <1>7

\* To insert one who is not there puts it last.
LEMMA InsertReads ==
  ASSUME NEW table \in [Identifiers -> Entries], InLine(table),
         NEW i \in Identifiers, i \notin Tracked(table),
         NEW times \in Seq(Nat), times # <<>>,
         NEW more, more = Insert(table, i, times)
  PROVE  /\ more \in [Identifiers -> Entries] /\ InLine(more)
         /\ more[i].times = times /\ more[i].later = {}
         /\ \A k \in Identifiers \ {i} :
              /\ more[k].times = table[k].times
              /\ more[k].later \subseteq table[k].later \cup {i}
<1>1. NoEntry \in Entries /\ NoEntry.times = <<>> /\ NoEntry.later = {}
  BY DEF NoEntry, Entries
<1>2. more[i] = [times |-> times, later |-> {}]
  BY DEF Insert
<1>3. \A k \in Identifiers \ {i} :
        /\ k \in Tracked(table) =>
             more[k] = [times |-> table[k].times, later |-> table[k].later \cup {i}]
        /\ k \notin Tracked(table) => more[k] = NoEntry
  BY DEF Insert
<1>4. \A k \in Identifiers : /\ table[k].times \in Seq(Nat)
                             /\ table[k].later \in SUBSET Identifiers
  BY DEF Entries
<1>5. \A k \in Identifiers : k \notin Tracked(table) => table[k].times = <<>>
  BY DEF Tracked
<1>6. \A k \in Tracked(table) : more[k].times = table[k].times
                                /\ more[k].later = table[k].later \cup {i}
  <2> TAKE k \in Tracked(table)
  <2>1. more[k] = [times |-> table[k].times, later |-> table[k].later \cup {i}]
    BY <1>3 DEF Tracked
  <2> QED BY <2>1
<1>7. more \in [Identifiers -> Entries]
  <2>1. more = [k \in Identifiers |-> more[k]]
    BY DEF Insert
  <2>2. ASSUME NEW k \in Identifiers PROVE more[k] \in Entries
    <3>1. CASE k = i
      BY <1>2, <3>1 DEF Entries
    <3>2. CASE k \in Tracked(table)
      <4>1. more[k] = [times |-> table[k].times, later |-> table[k].later \cup {i}]
        BY <1>3, <3>2
      <4> QED BY <1>4, <4>1 DEF Entries
    <3>3. CASE k # i /\ k \notin Tracked(table)
      BY <1>1, <1>3, <3>3
    <3> QED BY <3>1, <3>2, <3>3
  <2> QED BY <2>1, <2>2
<1>8. Tracked(more) = Tracked(table) \cup {i}
  <2>1. ASSUME NEW k \in Identifiers
        PROVE  more[k].times # <<>> <=> k \in Tracked(table) \cup {i}
    <3>1. CASE k = i
      BY <1>2, <3>1
    <3>2. CASE k \in Tracked(table)
      BY <1>6, <3>2 DEF Tracked
    <3>3. CASE k # i /\ k \notin Tracked(table)
      BY <1>1, <1>3, <3>3
    <3> QED BY <3>1, <3>2, <3>3
  <2> QED BY <2>1 DEF Tracked
<1>9. InLine(more)
  <2>1. more[i].later = {}
    BY <1>2
  <2> QED BY <1>6, <1>8, <2>1 DEF InLine
<1> QED BY <1>1, <1>2, <1>3, <1>5, <1>6, <1>7, <1>9

\* The first of a dictionary is the one before all others.
LEMMA FirstReads ==
  ASSUME NEW table \in [Identifiers -> Entries], InLine(table), Tracked(table) # {}
  PROVE  /\ First(table) \in Tracked(table)
         /\ \A k \in Tracked(table) : k # First(table) => k \in table[First(table)].later
<1> DEFINE After(i) == table[i].later \cap Tracked(table)
           sizes == {Cardinality(After(i)) : i \in Tracked(table)}
<1>1. IsFiniteSet(Tracked(table))
  BY LockoutAssumption, FS_Subset DEF Tracked
<1>2. \A i \in Tracked(table) : IsFiniteSet(After(i)) /\ Cardinality(After(i)) \in Nat
  BY <1>1, FS_Subset, FS_CardinalityType
<1>3. IsFiniteSet(sizes)
  <2>1. PICK c \in Nat : c = Cardinality(Tracked(table))
    BY <1>1, FS_CardinalityType
  <2>2. \A i \in Tracked(table) : Cardinality(After(i)) \in 0 .. c
    <3> TAKE i \in Tracked(table)
    <3>1. After(i) \subseteq Tracked(table)
      OBVIOUS
    <3> HIDE DEF After
    <3> QED BY <1>1, <1>2, <2>1, <3>1, FS_Subset
  <2>3. IsFiniteSet(0 .. c)
    BY <2>1, FS_Interval
  <2>4. sizes \subseteq 0 .. c
    BY <2>2
  <2> HIDE DEF sizes
  <2> QED BY <2>3, <2>4, FS_Subset, Zenon
<1>4. PICK i \in Tracked(table) : \A k \in Tracked(table) :
        Cardinality(After(k)) <= Cardinality(After(i))
  <2>1. sizes # {} /\ sizes \in SUBSET Nat
    <3> HIDE DEF After
    <3> QED BY <1>2
  <2>2. PICK g \in sizes : \A x \in sizes : x <= g
    <3> HIDE DEF sizes
    <3> QED BY <1>3, <2>1, GreatestExists
  <2> HIDE DEF After
  <2> QED BY <2>2
<1>5. \A k \in Tracked(table) : i \notin table[k].later
  <2> SUFFICES ASSUME NEW k \in Tracked(table), i \in table[k].later PROVE FALSE
    OBVIOUS
  <2>1. After(i) \subseteq After(k) /\ i \in After(k) /\ i \notin After(i)
    BY DEF InLine
  <2>2. Cardinality(After(i)) <= Cardinality(After(k)) /\ After(i) # After(k)
    <3> HIDE DEF After
    <3> QED BY <1>2, <2>1, FS_Subset
  <2>3. Cardinality(After(i)) = Cardinality(After(k))
    <3> HIDE DEF After
    <3> QED BY <1>2, <1>4, <2>2
  <2> HIDE DEF After
  <2> QED BY <1>2, <2>1, <2>2, <2>3, FS_Subset
<1>6. /\ First(table) \in Tracked(table)
      /\ \A k \in Tracked(table) : First(table) \notin table[k].later
  BY <1>5 DEF First
<1> QED BY <1>6 DEF InLine

LEMMA PastReads ==
  ASSUME NEW past \in Seq(Failures)
  PROVE  /\ Len(past) \in Nat /\ DOMAIN past = 1 .. Len(past)
         /\ \A n \in 1 .. Len(past) : /\ past[n].at \in Nat
                                      /\ past[n].others \in SUBSET Identifiers
<1>1. Len(past) \in Nat /\ DOMAIN past = 1 .. Len(past)
  OBVIOUS
<1>2. \A n \in 1 .. Len(past) : past[n] \in Failures
  OBVIOUS
<1>3. \A x \in Failures : x.at \in Nat /\ x.others \in SUBSET Identifiers
  BY DEF Failures
<1> QED BY <1>1, <1>2, <1>3

LEMMA EntryReads ==
  ASSUME NEW e \in Entries
  PROVE  /\ e.times \in Seq(Nat) /\ DOMAIN e.times = 1 .. Len(e.times) /\ Len(e.times) \in Nat
         /\ e.later \in SUBSET Identifiers /\ \A n \in 1 .. Len(e.times) : e.times[n] \in Nat
<1>1. e.times \in Seq(Nat) /\ e.later \in SUBSET Identifiers
  BY DEF Entries
<1> QED BY <1>1

\* What a dictionary may forget without a consequence: one whose newest failure
\* is too old, or after whose newest failure too many others failed.
LEMMA AgreesStill ==
  ASSUME NEW past \in Seq(Failures), NEW now \in Nat, NEW e \in Entries, NEW f \in Entries,
         Agree(e, past, now),
         \/ f.times = e.times /\ f.later \subseteq e.later
         \/ /\ f.times = <<>>
            /\ \/ e.times = <<>>
               \/ Newest(e.times) + LockoutMinutes <= now
               \/ ~(Cardinality(past[Len(past)].others) < MaxTracked)
  PROVE  Agree(f, past, now)
<1>1. /\ Len(past) \in Nat /\ Len(e.times) \in Nat /\ Len(f.times) \in Nat
      /\ DOMAIN past = 1 .. Len(past) /\ DOMAIN e.times = 1 .. Len(e.times)
      /\ LockoutMinutes \in Nat /\ MaxAttempts \in Nat /\ MaxTracked \in Nat
      /\ e.times \in Seq(Nat) /\ f.times \in Seq(Nat)
      /\ \A n \in 1 .. Len(past) : past[n].at \in Nat /\ past[n].others \in SUBSET Identifiers
  BY LockoutAssumption, PastReads, EntryReads
<1>2. CASE f.times = e.times /\ f.later \subseteq e.later
  BY <1>2 DEF Agree, Remembered, NoneMissing
<1>3. ASSUME f.times = <<>>,
             \/ e.times = <<>>
             \/ Newest(e.times) + LockoutMinutes <= now
             \/ ~(Cardinality(past[Len(past)].others) < MaxTracked)
      PROVE  Agree(f, past, now)
  <2>1. f.times = <<>> /\ Len(f.times) = 0 /\ DOMAIN f.times = {}
    BY <1>3
  <2>2. Remembered(f, past)
    BY <1>1, <2>1 DEF Remembered
  <2>3. NoneMissing(f, past, now)
    <3> SUFFICES ASSUME NEW n \in DOMAIN past, Counts(past, n, now) PROVE n > Len(past) - 0
      BY <2>1 DEF NoneMissing
    <3>1. n > Len(past) - Len(e.times)
      BY DEF Agree, NoneMissing
    <3>2. CASE e.times = <<>>
      BY <1>1, <3>1, <3>2
    <3>3. CASE e.times # <<>> /\ Newest(e.times) + LockoutMinutes <= now
      <4>1. Newest(e.times) = past[Len(past)].at
        <5>1. Len(e.times) \in DOMAIN e.times
          BY <1>1, <3>3
        <5>2. e.times[Len(e.times)] = past[Len(past) - Len(e.times) + Len(e.times)].at
          BY <5>1 DEF Agree, Remembered
        <5>3. Len(past) - Len(e.times) + Len(e.times) = Len(past)
          BY <1>1
        <5> QED BY <5>2, <5>3 DEF Newest
      <4>2. past[Len(past)].at + LockoutMinutes <= now /\ past[Len(past)].at \in Nat
        BY <1>1, <3>3, <4>1
      <4>3. past[Len(past)].at + LockoutMinutes > now
        BY DEF Counts
      <4> QED BY <1>1, <4>2, <4>3
    <3>4. CASE ~(Cardinality(past[Len(past)].others) < MaxTracked)
      <4>1. past[Len(past)].others \subseteq past[n].others
        BY <1>1, SMTT(30) DEF Agree, InSequence
      <4>2. /\ IsFiniteSet(past[n].others) /\ IsFiniteSet(past[Len(past)].others)
            /\ Cardinality(past[n].others) \in Nat /\ Cardinality(past[Len(past)].others) \in Nat
        BY <1>1, LockoutAssumption, FS_Subset, FS_CardinalityType
      <4>3. Cardinality(past[Len(past)].others) <= Cardinality(past[n].others)
        BY <4>1, <4>2, FS_Subset
      <4> QED BY <1>1, <3>4, <4>2, <4>3 DEF Counts
    <3> QED BY <1>3, <3>2, <3>3, <3>4
  <2> QED BY <2>2, <2>3 DEF Agree
<1> QED BY <1>2, <1>3

\* One of the others fails: its failure is seen by every failure before it.
LEMMA OthersFail ==
  ASSUME NEW past \in Seq(Failures), NEW now \in Nat, NEW i \in Identifiers,
         NEW e \in Entries, NEW f \in Entries, Agree(e, past, now),
         NEW more, more = [n \in DOMAIN past |->
                             [at |-> past[n].at, others |-> past[n].others \cup {i}]],
         f.times = e.times /\ f.later \subseteq e.later \cup {i}
  PROVE  more \in Seq(Failures) /\ Agree(f, more, now)
<1>1. /\ Len(past) \in Nat /\ DOMAIN past = 1 .. Len(past)
      /\ MaxAttempts \in Nat /\ MaxTracked \in Nat
      /\ e.times \in Seq(Nat) /\ DOMAIN e.times = 1 .. Len(e.times) /\ Len(e.times) \in Nat
      /\ \A n \in 1 .. Len(past) : past[n].at \in Nat /\ past[n].others \in SUBSET Identifiers
  BY LockoutAssumption, PastReads, EntryReads
<1>2. /\ more \in Seq(Failures) /\ DOMAIN more = 1 .. Len(past) /\ Len(more) = Len(past)
  <2>1. \A n \in 1 .. Len(past) :
          [at |-> past[n].at, others |-> past[n].others \cup {i}] \in Failures
    BY <1>1 DEF Failures
  <2> QED BY <1>1, <2>1
<1>3. \A n \in 1 .. Len(past) : more[n].at = past[n].at
                                /\ more[n].others = past[n].others \cup {i}
  BY <1>1
<1>4. InSequence(more, now)
  BY <1>1, <1>2, <1>3 DEF Agree, InSequence
<1>5. Remembered(f, more)
  <2>1. Len(past) - Len(e.times) >= 0 /\ Len(e.times) <= MaxAttempts
    BY DEF Agree, Remembered
  <2>2. ASSUME NEW n \in DOMAIN e.times
        PROVE  e.times[n] = more[Len(past) - Len(e.times) + n].at
    <3>1. Len(past) - Len(e.times) + n \in 1 .. Len(past)
      BY <1>1, <2>1
    <3> QED BY <1>3, <3>1 DEF Agree, Remembered
  <2>3. ASSUME e.times # <<>>
        PROVE  /\ e.times[1] + LockoutMinutes > Newest(e.times)
               /\ f.later \subseteq more[Len(past)].others
    <3>1. Len(past) \in 1 .. Len(past)
      BY <1>1, <2>1, <2>3
    <3> QED BY <1>3, <2>3, <3>1 DEF Agree, Remembered
  <2> QED BY <1>2, <2>1, <2>2, <2>3 DEF Remembered
<1>6. NoneMissing(f, more, now)
  <2> SUFFICES ASSUME NEW n \in 1 .. Len(past), Counts(more, n, now)
               PROVE  n > Len(past) - Len(e.times)
    BY <1>2 DEF NoneMissing
  <2>1. /\ IsFiniteSet(past[n].others \cup {i}) /\ past[n].others \subseteq past[n].others \cup {i}
    BY <1>1, LockoutAssumption, FS_Subset
  <2>2. /\ Cardinality(past[n].others) <= Cardinality(past[n].others \cup {i})
        /\ Cardinality(past[n].others) \in Nat /\ Cardinality(past[n].others \cup {i}) \in Nat
    BY <2>1, FS_Subset, FS_CardinalityType
  <2>3. Len(past) \in 1 .. Len(past)
    BY <1>1
  <2>4. /\ more[n].at = past[n].at /\ more[Len(past)].at = past[Len(past)].at
        /\ Cardinality(more[n].others) = Cardinality(past[n].others \cup {i})
    BY <1>3, <2>3
  <2>5. Counts(past, n, now)
    BY <1>1, <1>2, <2>2, <2>4 DEF Counts
  <2> QED BY <1>1, <2>5 DEF Agree, NoneMissing
<1> QED BY <1>2, <1>4, <1>5, <1>6 DEF Agree

\* The times q of the last failures of the past; the times t that follow q when
\* all but its first m are recent, and one more comes; the past that follows.
EndOf(q, past) == /\ Len(q) <= Len(past)
                 /\ \A n \in 1 .. Len(q) : q[n] = past[Len(past) - Len(q) + n].at

Follows(t, q, m) ==
  /\ m \in 0 .. Len(q) /\ \A n \in 1 .. Len(q) : Within(q[n]) <=> n > m
  /\ Len(t) = IF Len(q) - m + 1 > MaxAttempts THEN MaxAttempts ELSE Len(q) - m + 1
  /\ t[Len(t)] = minute
  /\ \A k \in 1 .. Len(t) - 1 : t[k] = q[Len(q) + 1 - Len(t) + k]

GoesOn(more, past) == /\ Len(more) = Len(past) + 1
                      /\ more[Len(past) + 1] = [at |-> minute, others |-> {}]
                      /\ \A n \in 1 .. Len(past) : more[n] = past[n]

\* The recent ones of ascending times, and one more: the last MaxAttempts.
LEMMA OneMore ==
  ASSUME minute \in Nat, NEW q \in Seq(Nat), \A n, m \in DOMAIN q : n <= m => q[n] <= q[m]
  PROVE  \E m \in Nat, t \in Seq(Nat) :
           t = LastOf(Append(Recent(q), minute), MaxAttempts) /\ Follows(t, q, m)
<1>1. Len(q) \in Nat /\ DOMAIN q = 1 .. Len(q) /\ MaxAttempts \in Nat \ {0}
  BY LockoutAssumption
<1>2. PICK r : r = Recent(q)
  OBVIOUS
<1>3. PICK m \in 0 .. Len(q) :
        /\ \A n \in DOMAIN q : Within(q[n]) <=> n > m
        /\ r \in Seq(Nat) /\ Len(r) = Len(q) - m
        /\ \A k \in 1 .. Len(q) - m : r[k] = q[m + k]
  BY <1>2, RecentOnes
<1>4. PICK a : a = Append(r, minute)
  OBVIOUS
<1>5. /\ a \in Seq(Nat) /\ Len(r) \in Nat /\ Len(a) = Len(r) + 1 /\ a[Len(r) + 1] = minute
      /\ \A k \in 1 .. Len(r) : a[k] = r[k]
  BY <1>3, <1>4
<1>6. PICK t : t = LastOf(a, MaxAttempts)
  OBVIOUS
<1>7. /\ t \in Seq(Nat) /\ Len(t) = (IF Len(a) > MaxAttempts THEN MaxAttempts ELSE Len(a))
      /\ \A k \in 1 .. Len(t) : t[k] = a[Len(a) - Len(t) + k]
  BY <1>1, <1>5, <1>6, LastOnes
<1>8. PICK Q \in Nat : Q = Len(q)
  BY <1>1
<1>9. PICK T \in Nat : T = Len(t)
  BY <1>7
<1>10. T >= 1 /\ T <= Q - m + 1 /\ m \in Nat /\ m <= Q
       /\ T = (IF Q - m + 1 > MaxAttempts THEN MaxAttempts ELSE Q - m + 1)
  BY <1>1, <1>3, <1>5, <1>7, <1>8, <1>9
<1>11. t[T] = minute
  <2>1. T \in 1 .. T /\ Len(a) - T + T = Len(r) + 1
    BY <1>5, <1>10
  <2> QED BY <1>5, <1>7, <1>9, <2>1
<1>12. ASSUME NEW k \in 1 .. T - 1 PROVE t[k] = q[Q + 1 - T + k]
  <2>1. PICK x \in Nat : x = Q - m + 1 - T + k
    <3>1. Q - m + 1 - T + k \in Nat
      BY <1>10
    <3> QED BY <3>1
  <2>2. x \in 1 .. Q - m /\ k \in 1 .. T /\ m + x = Q + 1 - T + k
    BY <1>10, <2>1
  <2>3. t[k] = a[x]
    <3>1. Len(a) - Len(t) + k = x
      BY <1>3, <1>5, <1>8, <1>9, <1>10, <2>1
    <3> QED BY <1>7, <1>9, <2>2, <3>1
  <2>4. a[x] = q[m + x]
    BY <1>3, <1>5, <1>8, <2>2
  <2> QED BY <2>2, <2>3, <2>4
<1>13. \A n \in 1 .. Len(q) : Within(q[n]) <=> n > m
  BY <1>1, <1>3
<1>14. t = LastOf(Append(Recent(q), minute), MaxAttempts)
  BY <1>2, <1>4, <1>6
<1>15. Follows(t, q, m)
  <2> HIDE DEF Within
  <2> QED BY <1>8, <1>9, <1>10, <1>11, <1>12, <1>13 DEF Follows
<1> QED BY <1>7, <1>10, <1>14, <1>15

\* The past goes on as it came.
LEMMA StillInSequence ==
  ASSUME NEW past \in Seq(Failures), minute \in Nat, InSequence(past, minute),
         NEW more \in Seq(Failures), GoesOn(more, past)
  PROVE  InSequence(more, minute)
<1>1. PICK P \in Nat : P = Len(past)
  OBVIOUS
<1>2. /\ DOMAIN past = 1 .. P /\ DOMAIN more = 1 .. P + 1
      /\ \A n \in 1 .. P : past[n].at \in Nat /\ more[n] = past[n]
      /\ more[P + 1].at = minute /\ more[P + 1].others = {}
  BY <1>1, PastReads DEF GoesOn
<1>3. \A n \in 1 .. P + 1 : n = P + 1 \/ n \in 1 .. P
  OBVIOUS
<1>4. \A n, k \in 1 .. P : /\ past[n].at <= minute
                           /\ n <= k => past[n].at <= past[k].at
                                        /\ past[k].others \subseteq past[n].others
  BY <1>1, <1>2 DEF InSequence
<1>5. \A n \in 1 .. P + 1 : more[n].at <= minute
  BY <1>2, <1>3, <1>4
<1>6. ASSUME NEW n \in 1 .. P + 1, NEW k \in 1 .. P + 1, n <= k
      PROVE  more[n].at <= more[k].at /\ more[k].others \subseteq more[n].others
  <2>1. CASE k = P + 1
    BY <1>2, <1>5, <2>1
  <2>2. CASE k # P + 1
    <3>1. k \in 1 .. P /\ n \in 1 .. P
      BY <1>6, <2>2
    <3> QED BY <1>2, <1>4, <1>6, <3>1
  <2> QED BY <2>1, <2>2
<1> QED BY <1>2, <1>5, <1>6 DEF InSequence

\* One fails: what is remembered of it are its recent failures, and this one.
LEMMA OwnRemembered ==
  ASSUME minute \in Nat, NEW past \in Seq(Failures), NEW q \in Seq(Nat), EndOf(q, past),
         NEW m, NEW t \in Seq(Nat), Follows(t, q, m),
         NEW more \in Seq(Failures), GoesOn(more, past),
         NEW f, f.times = t, f.later = {}
  PROVE  t # <<>> /\ Remembered(f, more)
<1>1. PICK P \in Nat, Q \in Nat, T \in Nat : P = Len(past) /\ Q = Len(q) /\ T = Len(t)
  OBVIOUS
<1>2. MaxAttempts \in Nat \ {0} /\ LockoutMinutes \in Nat \ {0}
  BY LockoutAssumption
<1>3. /\ m \in Nat /\ m <= Q /\ Q <= P
      /\ T = IF Q - m + 1 > MaxAttempts THEN MaxAttempts ELSE Q - m + 1
  BY <1>1 DEF EndOf, Follows
<1>4. T >= 1 /\ T <= Q - m + 1 /\ T <= MaxAttempts
  BY <1>2, <1>3
<1>5. /\ t[T] = minute /\ \A k \in 1 .. T - 1 : t[k] = q[Q + 1 - T + k]
      /\ \A n \in 1 .. Q : Within(q[n]) <=> n > m
  BY <1>1 DEF Follows
<1>6. \A n \in 1 .. Q : q[n] = past[P - Q + n].at
  BY <1>1 DEF EndOf
<1>7. Len(more) = P + 1 /\ more[P + 1].at = minute /\ \A n \in 1 .. P : more[n] = past[n]
  BY <1>1 DEF GoesOn
<1>8. ASSUME NEW n \in 1 .. T PROVE t[n] = more[P + 1 - T + n].at
  <2>1. CASE n = T
    <3>1. P + 1 - T + n = P + 1
      BY <2>1
    <3> QED BY <1>5, <1>7, <2>1, <3>1
  <2>2. CASE n # T
    <3>1. n \in 1 .. T - 1
      BY <2>2
    <3>2. PICK x \in 1 .. Q : x = Q + 1 - T + n
      <4>1. Q + 1 - T + n \in 1 .. Q
        BY <1>3, <1>4, <3>1
      <4> QED BY <4>1
    <3>3. P - Q + x = P + 1 - T + n /\ P + 1 - T + n \in 1 .. P
      BY <1>3, <1>4, <3>1, <3>2
    <3> QED BY <1>5, <1>6, <1>7, <3>1, <3>2, <3>3, ZenonT(60)
  <2> QED BY <2>1, <2>2
<1>9. Newest(t) = minute
  BY <1>1, <1>5 DEF Newest
<1>10. t[1] + LockoutMinutes > minute
  <2>1. CASE T = 1
    BY <1>2, <1>5, <2>1
  <2>2. CASE T # 1
    <3>1. 1 \in 1 .. T - 1
      BY <1>4, <2>2
    <3>2. PICK x \in 1 .. Q : x = Q + 1 - T + 1 /\ x > m
      <4>1. Q + 1 - T + 1 \in 1 .. Q /\ Q + 1 - T + 1 > m
        BY <1>3, <1>4, <2>2
      <4> QED BY <4>1
    <3> QED BY <1>5, <3>1, <3>2 DEF Within
  <2> QED BY <2>1, <2>2
<1>11. DOMAIN t = 1 .. T /\ t # <<>> /\ P + 1 - T >= 0
  <2>1. DOMAIN t = 1 .. T
    BY <1>1
  <2>2. t # <<>>
    BY <1>1, <1>4
  <2>3. P + 1 - T >= 0
    BY <1>3, <1>4
  <2> QED BY <2>1, <2>2, <2>3
<1> QED BY <1>1, <1>4, <1>7, <1>8, <1>9, <1>10, <1>11 DEF Remembered

LEMMA OwnNoneMissing ==
  ASSUME minute \in Nat, NEW past \in Seq(Failures), NEW e \in Entries, Agree(e, past, minute),
         NEW q \in Seq(Nat), EndOf(q, past),
         e.times # <<>> /\ Within(Newest(e.times)) => q = e.times,
         NEW m, NEW t \in Seq(Nat), Follows(t, q, m),
         NEW more \in Seq(Failures), GoesOn(more, past), NEW f, f.times = t
  PROVE  NoneMissing(f, more, minute)
<1>1. PICK P \in Nat, Q \in Nat, T \in Nat, E \in Nat :
        P = Len(past) /\ Q = Len(q) /\ T = Len(t) /\ E = Len(e.times)
  BY EntryReads
<1>2. MaxAttempts \in Nat \ {0} /\ LockoutMinutes \in Nat \ {0}
  BY LockoutAssumption
<1>3. /\ m \in Nat /\ m <= Q /\ Q <= P
      /\ T = IF Q - m + 1 > MaxAttempts THEN MaxAttempts ELSE Q - m + 1
      /\ \A n \in 1 .. Q : Within(q[n]) <=> n > m
  BY <1>1 DEF EndOf, Follows
<1>4. T >= 1 /\ T <= Q - m + 1 /\ (T = MaxAttempts \/ T = Q - m + 1)
  BY <1>2, <1>3
<1>5. \A n \in 1 .. Q : q[n] = past[P - Q + n].at
  BY <1>1 DEF EndOf
<1>6. /\ Len(more) = P + 1 /\ more[P + 1].at = minute /\ DOMAIN more = 1 .. P + 1
      /\ \A n \in 1 .. P : more[n] = past[n]
  BY <1>1 DEF GoesOn
<1>7. DOMAIN past = 1 .. P /\ \A n \in 1 .. P : past[n].at \in Nat
  BY <1>1, PastReads
<1>8. ASSUME NEW n \in 1 .. P, Counts(more, n, minute) PROVE n > P + 1 - T
  <2>1. P \in 1 .. P /\ n <= P
    OBVIOUS
  <2>2. /\ n + MaxAttempts > P + 1 /\ past[n].at + LockoutMinutes > minute
        /\ Cardinality(past[n].others) < MaxTracked
    BY <1>6, <1>8 DEF Counts
  <2>3. past[n].at <= past[P].at /\ past[P].at <= minute
    BY <1>7, <2>1 DEF Agree, InSequence
  <2>4. past[n].at \in Nat /\ past[P].at \in Nat
    BY <1>7, <2>1
  <2>5. n + MaxAttempts > P
    BY <1>2, <2>2
  <2>6. past[P].at + LockoutMinutes > minute /\ past[n].at + LockoutMinutes > past[P].at
    BY <1>2, <2>2, <2>3, <2>4, SMTT(30)
  <2>7. Counts(past, n, minute)
    BY <1>1, <2>2, <2>5, <2>6 DEF Counts
  <2>8. n > P - E
    BY <1>1, <1>7, <2>7 DEF Agree, NoneMissing
  <2>9. q = e.times /\ Q = E
    <3>1. E \in 1 .. E
      BY <2>1, <2>8
    <3>2. e.times # <<>> /\ DOMAIN e.times = 1 .. E
      BY <1>1, <3>1, EntryReads
    <3>3. e.times[E] = past[P - E + E].at
      BY <1>1, <3>1, <3>2 DEF Agree, Remembered
    <3>4. P - E + E = P
      OBVIOUS
    <3>5. Within(Newest(e.times))
      BY <1>1, <2>6, <3>3, <3>4 DEF Within, Newest
    <3> QED BY <1>1, <3>2, <3>5
  <2>10. PICK x \in 1 .. Q : P - Q + x = n
    <3>1. n - (P - Q) \in 1 .. Q /\ P - Q + (n - (P - Q)) = n
      BY <1>3, <2>1, <2>8, <2>9
    <3> QED BY <3>1
  <2>11. x > m
    BY <1>3, <1>5, <2>2, <2>10 DEF Within
  <2> QED BY <1>2, <1>3, <1>4, <2>2, <2>10, <2>11
<1>9. \A n \in 1 .. P + 1 : n = P + 1 \/ n \in 1 .. P
  OBVIOUS
<1>10. P + 1 > P + 1 - T
  BY <1>4
<1> QED BY <1>1, <1>6, <1>8, <1>9, <1>10 DEF NoneMissing

\* Time passes: what counts is only less.
LEMMA TimePasses ==
  ASSUME NEW past \in Seq(Failures), NEW now \in Nat, NEW e \in Entries, Agree(e, past, now)
  PROVE  Agree(e, past, now + 1)
<1>1. /\ Len(past) \in Nat /\ DOMAIN past = 1 .. Len(past) /\ LockoutMinutes \in Nat
      /\ \A n \in 1 .. Len(past) : past[n].at \in Nat
  BY LockoutAssumption, PastReads
<1>2. InSequence(past, now + 1)
  BY <1>1 DEF Agree, InSequence
<1>3. NoneMissing(e, past, now + 1)
  <2> SUFFICES ASSUME NEW n \in 1 .. Len(past), Counts(past, n, now + 1)
               PROVE  n > Len(past) - Len(e.times)
    BY <1>1 DEF NoneMissing
  <2>1. Len(past) \in 1 .. Len(past)
    BY <1>1
  <2>2. Counts(past, n, now)
    BY <1>1, <2>1 DEF Counts
  <2> QED BY <1>1, <2>2 DEF Agree, NoneMissing
<1> QED BY <1>2, <1>3 DEF Agree

\* Nothing failed, nothing remembered.
LEMMA NothingYet ==
  ASSUME NEW now \in Nat PROVE Agree(NoEntry, <<>>, now) /\ NoEntry \in Entries
BY LockoutAssumption DEF NoEntry, Entries, Agree, InSequence, Remembered, NoneMissing

\* Whoever is pruned failed too long ago to count.
LEMMA PrunedReads ==
  ASSUME LockoutInv, NEW w \in LoginWorkers
  PROVE  /\ Pruned(w) \in [Identifiers -> Entries] /\ InLine(Pruned(w))
         /\ \A i \in Identifiers :
              /\ Agree(Pruned(w)[i], failures[w][i], minute)
              /\ Pruned(w)[i].times = attempts[w][i].times \/ Pruned(w)[i].times = <<>>
              /\ attempts[w][i].times # <<>> /\ Within(Newest(attempts[w][i].times)) =>
                   Pruned(w)[i].times = attempts[w][i].times
              /\ Pruned(w)[i].times # <<>> => Within(Newest(Pruned(w)[i].times))
<1>1. PICK table \in [Identifiers -> Entries] : table = attempts[w]
  BY DEF LockoutInv, LoginsTyped
<1>2. InLine(table) /\ minute \in Nat /\ LockoutMinutes \in Nat
      /\ \A i \in Identifiers : failures[w][i] \in Seq(Failures)
                                /\ Agree(table[i], failures[w][i], minute)
  BY <1>1, LockoutAssumption DEF LockoutInv, LoginsTyped
<1>3. PICK gone : gone = Expired(table)
  OBVIOUS
<1>4. PICK left : left = Forget(table, gone)
  OBVIOUS
<1>5. Pruned(w) = left
  BY <1>1, <1>3, <1>4 DEF Pruned
<1>6. /\ left \in [Identifiers -> Entries] /\ InLine(left)
      /\ \A k \in Identifiers :
           /\ k \in gone => left[k] = NoEntry
           /\ k \notin gone => left[k].times = table[k].times
                               /\ left[k].later = table[k].later \ gone
  BY <1>2, <1>4, ForgetReads
<1>7. ASSUME NEW i \in Identifiers
      PROVE  /\ Agree(left[i], failures[w][i], minute)
             /\ left[i].times = table[i].times \/ left[i].times = <<>>
             /\ table[i].times # <<>> /\ Within(Newest(table[i].times)) =>
                  left[i].times = table[i].times
             /\ left[i].times # <<>> => Within(Newest(left[i].times))
  <2>1. PICK e \in Entries, f \in Entries, past \in Seq(Failures) :
          e = table[i] /\ f = left[i] /\ past = failures[w][i]
    BY <1>2, <1>6
  <2>2. i \in gone <=> e.times # <<>> /\ ~Within(Newest(e.times))
    BY <1>3, <2>1 DEF Expired, Tracked
  <2>3. CASE i \in gone
    <3>1. f.times = <<>>
      BY <1>6, <2>1, <2>3 DEF NoEntry
    <3>2. Newest(e.times) + LockoutMinutes <= minute
      <4>1. e.times[Len(e.times)] \in Nat
        <5>1. Len(e.times) \in 1 .. Len(e.times)
          BY <2>2, <2>3, EntryReads
        <5> QED BY <5>1, EntryReads
      <4> QED BY <1>2, <2>2, <2>3, <4>1 DEF Newest, Within
    <3>3. Agree(e, past, minute)
      BY <1>2, <2>1
    <3>4. Agree(f, past, minute)
      BY <1>2, <3>1, <3>2, <3>3, AgreesStill
    <3> QED BY <2>1, <2>2, <2>3, <3>1, <3>4
  <2>4. CASE i \notin gone
    <3>1. f.times = e.times /\ f.later \subseteq e.later
      BY <1>6, <2>1, <2>4
    <3>2. Agree(e, past, minute)
      BY <1>2, <2>1
    <3>3. Agree(f, past, minute)
      BY <1>2, <3>1, <3>2, AgreesStill
    <3> QED BY <2>1, <2>2, <2>4, <3>1, <3>3
  <2> QED BY <2>3, <2>4
<1> QED BY <1>1, <1>5, <1>6, <1>7

\* To make room for one: at most the first goes, before which all others failed.
LEMMA RoomReads ==
  ASSUME NEW g \in [Identifiers -> Entries], InLine(g), NEW rm, rm = Room(g)
  PROVE  /\ rm \in [Identifiers -> Entries] /\ InLine(rm)
         /\ Tracked(rm) \subseteq Tracked(g)
         /\ \A k \in Identifiers :
              \/ rm[k].times = g[k].times /\ rm[k].later \subseteq g[k].later
              \/ /\ rm[k].times = <<>> /\ k \in Tracked(g)
                 /\ Tracked(g) \ {k} \subseteq g[k].later
                 /\ Cardinality(Tracked(g)) >= MaxTracked
<1>1. CASE Cardinality(Tracked(g)) >= MaxTracked
  <2>1. Tracked(g) # {}
    BY <1>1, LockoutAssumption, FS_EmptySet
  <2>2. PICK x \in Tracked(g) : x = First(g) /\ \A k \in Tracked(g) : k # x => k \in g[x].later
    BY <2>1, FirstReads
  <2>3. rm = Forget(g, {x})
    BY <1>1, <2>2 DEF Room
  <2>4. /\ rm \in [Identifiers -> Entries] /\ InLine(rm)
        /\ Tracked(rm) = Tracked(g) \ {x}
        /\ \A k \in Identifiers :
             /\ k \in {x} => rm[k] = NoEntry
             /\ k \notin {x} => rm[k].times = g[k].times
                                /\ rm[k].later = g[k].later \ {x}
    BY <2>3, ForgetReads
  <2> QED BY <1>1, <2>2, <2>4 DEF NoEntry
<1>2. CASE ~(Cardinality(Tracked(g)) >= MaxTracked)
  BY <1>2 DEF Room
<1> QED BY <1>1, <1>2

\* What the failures of a worker become when one identifier fails.
FailuresNext(w, i) ==
  [k \in Identifiers |->
     IF k = i THEN Append(failures[w][i], [at |-> minute, others |-> {}])
     ELSE [n \in DOMAIN failures[w][k] |->
             [at |-> failures[w][k][n].at, others |-> failures[w][k][n].others \cup {i}]]]

\* The one put out came before all the others, who have failed after it.
LEMMA PutOut ==
  ASSUME minute \in Nat, NEW past \in Seq(Failures), NEW i \in Identifiers,
         NEW e \in Entries, e.times # <<>>, Agree(e, past, minute),
         NEW tracked \in SUBSET Identifiers, NEW k \in tracked, i \notin tracked,
         Cardinality(tracked) >= MaxTracked, tracked \ {k} \subseteq e.later,
         NEW more, more = [n \in DOMAIN past |->
                             [at |-> past[n].at, others |-> past[n].others \cup {i}]]
  PROVE  ~(Cardinality(more[Len(past)].others) < MaxTracked)
<1>1. Len(past) \in 1 .. Len(past)
  <2>1. Len(e.times) >= 1 /\ Len(past) - Len(e.times) >= 0
    BY EntryReads DEF Agree, Remembered
  <2>2. Len(past) \in Nat /\ Len(e.times) \in Nat
    BY EntryReads
  <2> QED BY <2>1, <2>2
<1>2. PICK o \in SUBSET Identifiers : o = past[Len(past)].others
  BY <1>1, PastReads
<1>3. tracked \ {k} \subseteq o
  BY <1>2 DEF Agree, Remembered
<1>4. more[Len(past)].others = o \cup {i}
  <2>1. Len(past) \in DOMAIN past
    BY <1>1
  <2> QED BY <1>2, <2>1
<1>5. /\ IsFiniteSet(tracked) /\ IsFiniteSet(tracked \ {k}) /\ IsFiniteSet((tracked \ {k}) \cup {i})
      /\ IsFiniteSet(o \cup {i})
  BY LockoutAssumption, FS_Subset
<1>6. Cardinality(tracked \ {k}) = Cardinality(tracked) - 1
  BY <1>5, FS_RemoveElement
<1>7. Cardinality((tracked \ {k}) \cup {i}) = Cardinality(tracked \ {k}) + 1
  BY <1>5, FS_AddElement
<1>8. Cardinality((tracked \ {k}) \cup {i}) <= Cardinality(o \cup {i})
  <2>1. (tracked \ {k}) \cup {i} \subseteq o \cup {i}
    BY <1>3
  <2> QED BY <1>5, <2>1, FS_Subset
<1>9. /\ Cardinality(tracked) \in Nat /\ Cardinality(o \cup {i}) \in Nat /\ MaxTracked \in Nat
      /\ Cardinality(tracked \ {k}) \in Nat /\ Cardinality((tracked \ {k}) \cup {i}) \in Nat
  BY <1>5, LockoutAssumption, FS_CardinalityType
<1>10. Cardinality(o \cup {i}) >= MaxTracked
  BY <1>6, <1>7, <1>8, <1>9
<1>11. Cardinality(more[Len(past)].others) = Cardinality(o \cup {i})
  BY <1>4, Zenon
<1> QED BY <1>9, <1>10, <1>11

\* A recorded failure keeps what every identifier must keep.
LEMMA RecordReads ==
  ASSUME LockoutInv, NEW w \in LoginWorkers, NEW i \in Identifiers
  PROVE  /\ Record(w, i) \in [Identifiers -> Entries] /\ InLine(Record(w, i))
         /\ FailuresNext(w, i) \in [Identifiers -> Seq(Failures)]
         /\ \A k \in Identifiers : Agree(Record(w, i)[k], FailuresNext(w, i)[k], minute)
<1>1. PICK p \in [Identifiers -> Entries] : p = Pruned(w)
  BY PrunedReads
<1>2. PICK g : g = Forget(p, {i})
  OBVIOUS
<1>3. PICK rm : rm = Room(g)
  OBVIOUS
<1>4. PICK t : t = NewTimes(w, i)
  OBVIOUS
<1>5. PICK r : r = Insert(rm, i, t)
  OBVIOUS
<1>6. Record(w, i) = r
  BY <1>1, <1>2, <1>3, <1>4, <1>5 DEF Record
<1>7. /\ InLine(p) /\ minute \in Nat
      /\ \A k \in Identifiers : Agree(p[k], failures[w][k], minute)
                                /\ failures[w][k] \in Seq(Failures)
  BY <1>1, PrunedReads DEF LockoutInv, LoginsTyped
<1>8. /\ g \in [Identifiers -> Entries] /\ InLine(g) /\ Tracked(g) = Tracked(p) \ {i}
      /\ \A k \in Identifiers \ {i} : g[k].times = p[k].times /\ g[k].later \subseteq p[k].later
  BY <1>2, <1>7, ForgetReads
<1>9. /\ rm \in [Identifiers -> Entries] /\ InLine(rm) /\ Tracked(rm) \subseteq Tracked(g)
      /\ \A k \in Identifiers :
           \/ rm[k].times = g[k].times /\ rm[k].later \subseteq g[k].later
           \/ /\ rm[k].times = <<>> /\ k \in Tracked(g)
              /\ Tracked(g) \ {k} \subseteq g[k].later
              /\ Cardinality(Tracked(g)) >= MaxTracked
  <2>1. g \in [Identifiers -> Entries] /\ InLine(g)
    BY <1>8
  <2> QED BY <1>3, <2>1, RoomReads, Zenon
\* The identifier's own entry.
<1>10. PICK past \in Seq(Failures) : past = failures[w][i]
  BY <1>7
<1>11. PICK own : own = Append(past, [at |-> minute, others |-> {}])
  OBVIOUS
<1>12. own \in Seq(Failures) /\ GoesOn(own, past)
  <2>1. [at |-> minute, others |-> {}] \in Failures
    BY <1>7 DEF Failures
  <2> QED BY <1>11, <2>1 DEF GoesOn
<1>13. PICK q \in Seq(Nat) : q = p[i].times
  BY EntryReads
<1>14. PICK e \in Entries : e = attempts[w][i]
  BY DEF LockoutInv, LoginsTyped
<1>15. /\ Agree(e, past, minute)
       /\ q = e.times \/ q = <<>>
       /\ e.times # <<>> /\ Within(Newest(e.times)) => q = e.times
  BY <1>1, <1>10, <1>13, <1>14, PrunedReads DEF LockoutInv
<1>16. Agree(p[i], past, minute)
  BY <1>7, <1>10
<1>17. EndOf(q, past)
  <2>1. q = e.times => EndOf(q, past)
    <3> SUFFICES ASSUME q = e.times PROVE EndOf(q, past)
      OBVIOUS
    <3>1. /\ Len(past) - Len(e.times) >= 0 /\ Len(past) \in Nat /\ Len(e.times) \in Nat
          /\ DOMAIN e.times = 1 .. Len(e.times)
          /\ \A n \in DOMAIN e.times : e.times[n] = past[Len(past) - Len(e.times) + n].at
      BY <1>15, EntryReads DEF Agree, Remembered
    <3>2. Len(e.times) <= Len(past)
      BY <3>1
    <3>3. EndOf(e.times, past)
      BY <3>1, <3>2 DEF EndOf
    <3> QED BY <3>3
  <2>2. q = <<>> => EndOf(q, past)
    BY PastReads DEF EndOf
  <2> QED BY <1>15, <2>1, <2>2
<1>18. \A n, m \in DOMAIN q : n <= m => q[n] <= q[m]
  <2>1. PICK P \in Nat, Q \in Nat : P = Len(past) /\ Q = Len(q)
    OBVIOUS
  <2>2. Q <= P /\ DOMAIN q = 1 .. Q /\ DOMAIN past = 1 .. P
        /\ \A n \in 1 .. Q : q[n] = past[P - Q + n].at
    BY <1>17, <2>1 DEF EndOf
  <2>3. ASSUME NEW n \in 1 .. Q, NEW m \in 1 .. Q, n <= m PROVE q[n] <= q[m]
    <3>1. P - Q + n \in 1 .. P /\ P - Q + m \in 1 .. P /\ P - Q + n <= P - Q + m
      BY <2>2, <2>3
    <3>2. past[P - Q + n].at <= past[P - Q + m].at
      BY <1>15, <2>2, <3>1 DEF Agree, InSequence
    <3> QED BY <2>2, <3>2
  <2> QED BY <2>2, <2>3
<1>19. PICK m \in Nat : t \in Seq(Nat) /\ Follows(t, q, m)
  <2>1. t = LastOf(Append(Recent(q), minute), MaxAttempts)
    BY <1>1, <1>4, <1>13 DEF NewTimes
  <2>2. PICK m \in Nat, u \in Seq(Nat) :
          u = LastOf(Append(Recent(q), minute), MaxAttempts) /\ Follows(u, q, m)
    BY <1>7, <1>18, OneMore
  <2> QED BY <2>1, <2>2
<1>20. t # <<>>
  <2>1. PICK f : f = [times |-> t, later |-> {}]
    OBVIOUS
  <2>2. f.times = t /\ f.later = {}
    BY <2>1
  <2> QED BY <1>7, <1>12, <1>17, <1>19, <2>2, OwnRemembered
<1>21. /\ r \in [Identifiers -> Entries] /\ InLine(r)
       /\ r[i].times = t /\ r[i].later = {}
       /\ \A k \in Identifiers \ {i} : /\ r[k].times = rm[k].times
                                       /\ r[k].later \subseteq rm[k].later \cup {i}
  <2>1. i \notin Tracked(rm)
    BY <1>8, <1>9
  <2> QED BY <1>5, <1>9, <1>19, <1>20, <2>1, InsertReads
<1>22. Agree(r[i], own, minute)
  <2>1. PICK f \in Entries : f = r[i] /\ f.times = t /\ f.later = {}
    BY <1>21
  <2>2. InSequence(own, minute)
    BY <1>7, <1>12, <1>15, StillInSequence DEF Agree
  <2>3. Remembered(f, own)
    BY <1>7, <1>12, <1>17, <1>19, <2>1, OwnRemembered
  <2>4. NoneMissing(f, own, minute)
    BY <1>7, <1>12, <1>15, <1>17, <1>19, <2>1, OwnNoneMissing
  <2> QED BY <2>1, <2>2, <2>3, <2>4 DEF Agree
\* The entries of the others.
<1>23. ASSUME NEW k \in Identifiers \ {i},
              NEW before \in Seq(Failures), before = failures[w][k],
              NEW more, more = [n \in DOMAIN before |->
                                  [at |-> before[n].at, others |-> before[n].others \cup {i}]]
       PROVE  more \in Seq(Failures) /\ Agree(r[k], more, minute)
  <2>1. PICK a \in Entries, f \in Entries : a = p[k] /\ f = r[k]
    BY <1>21
  <2>2. Agree(a, before, minute)
    BY <1>7, <1>23, <2>1
  <2>3. more \in Seq(Failures) /\ Agree(a, more, minute)
    BY <1>7, <1>23, <2>2, OthersFail
  <2>4. CASE rm[k].times = g[k].times /\ rm[k].later \subseteq g[k].later
    <3>1. f.times = a.times /\ f.later \subseteq a.later \cup {i}
      BY <1>8, <1>21, <2>1, <2>4
    <3> QED BY <1>7, <1>23, <2>1, <2>2, <3>1, OthersFail, ZenonT(60)
  <2>5. CASE /\ rm[k].times = <<>> /\ k \in Tracked(g)
             /\ Tracked(g) \ {k} \subseteq g[k].later
             /\ Cardinality(Tracked(g)) >= MaxTracked
    <3>1. PICK tracked \in SUBSET Identifiers : tracked = Tracked(g)
      BY DEF Tracked
    <3>2. i \notin tracked /\ k \in tracked /\ Cardinality(tracked) >= MaxTracked
          /\ tracked \ {k} \subseteq a.later
      BY <1>8, <2>1, <2>5, <3>1
    <3>3. a.times # <<>>
      BY <1>8, <2>1, <2>5 DEF Tracked
    <3>4. ~(Cardinality(more[Len(before)].others) < MaxTracked)
      BY <1>7, <1>23, <2>2, <3>2, <3>3, PutOut
    <3>5. f.times = <<>> /\ Len(more) = Len(before)
      BY <1>21, <1>23, <2>1, <2>3, <2>5
    <3>6. Agree(f, more, minute)
      BY <1>7, <2>3, <3>4, <3>5, AgreesStill
    <3> QED BY <2>1, <2>3, <3>6
  <2> QED BY <1>9, <2>4, <2>5
<1>24. PICK next : next = FailuresNext(w, i)
  OBVIOUS
<1>25. next[i] = own /\ next = [k \in Identifiers |-> next[k]]
  BY <1>10, <1>11, <1>24 DEF FailuresNext
<1>26. ASSUME NEW k \in Identifiers \ {i}
       PROVE  next[k] \in Seq(Failures) /\ Agree(r[k], next[k], minute)
  <2>1. PICK before \in Seq(Failures) : before = failures[w][k]
    BY <1>7
  <2>2. next[k] = [n \in DOMAIN before |->
                     [at |-> before[n].at, others |-> before[n].others \cup {i}]]
    BY <1>24, <2>1 DEF FailuresNext
  <2> QED BY <1>23, <2>1, <2>2
<1> QED BY <1>6, <1>12, <1>21, <1>22, <1>24, <1>25, <1>26

-----------------------------------------------------------------------------
\* A worker's dictionary and failures change together, and well.
LEMMA OneWorkerMoves ==
  ASSUME LockoutInv, NEW w \in LoginWorkers,
         NEW table \in [Identifiers -> Entries], InLine(table),
         NEW pasts \in [Identifiers -> Seq(Failures)],
         \A i \in Identifiers : Agree(table[i], pasts[i], minute),
         attempts' = [attempts EXCEPT ![w] = table],
         failures' = [failures EXCEPT ![w] = pasts],
         login' \in [LoginThreads -> Logins], minute' = minute
  PROVE  LockoutInv'
<1>1. LoginsTyped'
  BY DEF LockoutInv, LoginsTyped
<1>2. ASSUME NEW v \in LoginWorkers
      PROVE  InLine(attempts'[v]) /\ \A i \in Identifiers : Agree(attempts'[v][i], failures'[v][i], minute)
  <2>1. CASE v = w
    BY <2>1 DEF LockoutInv, LoginsTyped
  <2>2. CASE v # w
    BY <2>2 DEF LockoutInv, LoginsTyped
  <2> QED BY <2>1, <2>2
<1> QED BY <1>1, <1>2 DEF LockoutInv

LEMMA NoEntriesReads ==
  ASSUME NEW now \in Nat
  PROVE  /\ NoEntries \in [Identifiers -> Entries] /\ InLine(NoEntries)
         /\ [i \in Identifiers |-> <<>>] \in [Identifiers -> Seq(Failures)]
         /\ \A i \in Identifiers : Agree(NoEntries[i], <<>>, now)
<1>1. NoEntry \in Entries /\ Agree(NoEntry, <<>>, now) /\ NoEntry.times = <<>>
  BY NothingYet DEF NoEntry
<1>2. Tracked(NoEntries) = {}
  BY <1>1 DEF Tracked, NoEntries
<1>3. InLine(NoEntries)
  BY <1>2 DEF InLine
<1>4. <<>> \in Seq(Failures)
  OBVIOUS
<1> QED BY <1>1, <1>3, <1>4 DEF NoEntries

LEMMA LockoutInit == LoginsInit => LockoutInv
<1> SUFFICES ASSUME LoginsInit PROVE LockoutInv
  OBVIOUS
<1>1. minute \in Nat /\ login \in [LoginThreads -> Logins]
  BY DEF LoginsInit, Logins
<1>2. /\ NoEntries \in [Identifiers -> Entries] /\ InLine(NoEntries)
      /\ [i \in Identifiers |-> <<>>] \in [Identifiers -> Seq(Failures)]
      /\ \A i \in Identifiers : Agree(NoEntries[i], <<>>, minute)
  BY <1>1, NoEntriesReads
<1> QED BY <1>1, <1>2 DEF LoginsInit, LockoutInv, LoginsTyped

LEMMA LockoutStep == LockoutInv /\ [LoginsNext]_loginVars => LockoutInv'
<1> SUFFICES ASSUME LockoutInv, [LoginsNext]_loginVars PROVE LockoutInv'
  OBVIOUS
<1>1. /\ minute \in Nat /\ login \in [LoginThreads -> Logins]
      /\ attempts \in [LoginWorkers -> [Identifiers -> Entries]]
      /\ failures \in [LoginWorkers -> [Identifiers -> Seq(Failures)]]
      /\ NotLoggingIn \in Logins
  BY DEF LockoutInv, LoginsTyped, Logins
<1>2. ASSUME NEW t \in LoginThreads, login[t].pc = "password"
      PROVE  login[t].worker \in LoginWorkers /\ login[t].who \in Identifiers
  BY <1>1, <1>2 DEF Logins, NotLoggingIn
<1>3. ASSUME MinutePasses PROVE LockoutInv'
  <2>1. LoginsTyped'
    BY <1>1, <1>3 DEF MinutePasses, LoginsTyped
  <2>2. ASSUME NEW w \in LoginWorkers, NEW i \in Identifiers
        PROVE  Agree(attempts[w][i], failures[w][i], minute + 1)
    <3>1. attempts[w][i] \in Entries /\ failures[w][i] \in Seq(Failures)
          /\ Agree(attempts[w][i], failures[w][i], minute)
      BY <1>1 DEF LockoutInv
    <3> QED BY <1>1, <3>1, TimePasses
  <2>3. attempts' = attempts /\ failures' = failures /\ minute' = minute + 1
    BY <1>3 DEF MinutePasses
  <2> QED BY <2>1, <2>2, <2>3 DEF LockoutInv
<1>4. ASSUME NEW t \in LoginThreads, NEW w \in LoginWorkers, NEW i \in Identifiers,
             CheckLockout(t, w, i)
      PROVE  LockoutInv'
  <2>1. PICK table \in [Identifiers -> Entries] : table = Pruned(w)
    BY PrunedReads
  <2>2. PICK pasts \in [Identifiers -> Seq(Failures)] : pasts = failures[w]
    BY <1>1
  <2>3. InLine(table) /\ \A k \in Identifiers : Agree(table[k], pasts[k], minute)
    BY <2>1, <2>2, PrunedReads
  <2>4. attempts' = [attempts EXCEPT ![w] = table] /\ minute' = minute
    BY <1>4, <2>1 DEF CheckLockout
  <2>5. failures' = [failures EXCEPT ![w] = pasts]
    BY <1>1, <1>4, <2>2 DEF CheckLockout
  <2>6. login' \in [LoginThreads -> Logins]
    <3>1. [pc |-> "password", worker |-> w, who |-> i] \in Logins
      BY DEF Logins
    <3> QED BY <1>1, <1>4, <3>1 DEF CheckLockout
  <2> QED BY <2>3, <2>4, <2>5, <2>6, OneWorkerMoves
<1>5. ASSUME NEW t \in LoginThreads, WrongPassword(t) PROVE LockoutInv'
  <2>1. PICK w \in LoginWorkers, i \in Identifiers : w = login[t].worker /\ i = login[t].who
    BY <1>2, <1>5 DEF WrongPassword
  <2>2. PICK table \in [Identifiers -> Entries] : table = Record(w, i)
    BY RecordReads
  <2>3. PICK pasts \in [Identifiers -> Seq(Failures)] : pasts = FailuresNext(w, i)
    BY RecordReads
  <2>4. InLine(table) /\ \A k \in Identifiers : Agree(table[k], pasts[k], minute)
    BY <2>2, <2>3, RecordReads
  <2>5. attempts' = [attempts EXCEPT ![w] = table] /\ minute' = minute
    BY <1>5, <2>1, <2>2 DEF WrongPassword
  <2>6. failures' = [failures EXCEPT ![w] = pasts]
    BY <1>5, <2>1, <2>3, Zenon DEF WrongPassword, Failed, FailuresNext
  <2>7. login' \in [LoginThreads -> Logins]
    BY <1>1, <1>5 DEF WrongPassword
  <2> QED BY <2>4, <2>5, <2>6, <2>7, OneWorkerMoves
<1>6. ASSUME NEW t \in LoginThreads, Deactivated(t) PROVE LockoutInv'
  <2>1. login' \in [LoginThreads -> Logins]
    BY <1>1, <1>6 DEF Deactivated
  <2>2. UNCHANGED <<minute, attempts, failures>>
    BY <1>6 DEF Deactivated
  <2> QED BY <2>1, <2>2 DEF LockoutInv, LoginsTyped
<1>7. ASSUME NEW t \in LoginThreads, LoggedIn(t) PROVE LockoutInv'
  <2>1. PICK w \in LoginWorkers, i \in Identifiers : w = login[t].worker /\ i = login[t].who
    BY <1>2, <1>7 DEF LoggedIn
  <2>2. PICK before \in [Identifiers -> Entries] : before = attempts[w]
    BY <1>1
  <2>3. PICK table : table = Forget(before, {i})
    OBVIOUS
  <2>4. PICK past \in [Identifiers -> Seq(Failures)] : past = failures[w]
    BY <1>1
  <2>5. PICK pasts : pasts = [past EXCEPT ![i] = <<>>]
    OBVIOUS
  <2>6. InLine(before) /\ \A k \in Identifiers : Agree(before[k], past[k], minute)
    BY <2>2, <2>4 DEF LockoutInv
  <2>7. /\ table \in [Identifiers -> Entries] /\ InLine(table) /\ table[i] = NoEntry
        /\ \A k \in Identifiers \ {i} : table[k].times = before[k].times
                                        /\ table[k].later \subseteq before[k].later
    <3>1. PICK gone : gone = {i}
      OBVIOUS
    <3>2. InLine(before) /\ table = Forget(before, gone)
      BY <2>3, <2>6, <3>1
    <3>3. /\ table \in [Identifiers -> Entries] /\ InLine(table)
          /\ \A k \in Identifiers :
               /\ k \in gone => table[k] = NoEntry
               /\ k \notin gone => table[k].times = before[k].times
                                   /\ table[k].later = before[k].later \ gone
      BY <3>2, ForgetReads
    <3> QED BY <3>1, <3>3
  <2>8. pasts \in [Identifiers -> Seq(Failures)] /\ pasts[i] = <<>>
        /\ \A k \in Identifiers \ {i} : pasts[k] = past[k]
    BY <2>5
  <2>9. ASSUME NEW k \in Identifiers PROVE Agree(table[k], pasts[k], minute)
    <3>1. CASE k = i
      BY <1>1, <2>7, <2>8, <3>1, NothingYet
    <3>2. CASE k # i
      <4>1. PICK e \in Entries, f \in Entries, p \in Seq(Failures) :
              e = before[k] /\ f = table[k] /\ p = past[k]
        BY <2>7
      <4>2. Agree(e, p, minute) /\ f.times = e.times /\ f.later \subseteq e.later
        BY <2>6, <2>7, <3>2, <4>1
      <4>3. Agree(f, p, minute)
        BY <1>1, <4>2, AgreesStill
      <4> QED BY <2>8, <3>2, <4>1, <4>3
    <3> QED BY <3>1, <3>2
  <2>10. attempts' = [attempts EXCEPT ![w] = table] /\ minute' = minute
    BY <1>7, <2>1, <2>2, <2>3 DEF LoggedIn
  <2>11. failures' = [failures EXCEPT ![w] = pasts]
    BY <1>7, <2>1, <2>4, <2>5 DEF LoggedIn
  <2>12. login' \in [LoginThreads -> Logins]
    BY <1>1, <1>7 DEF LoggedIn
  <2> QED BY <2>7, <2>8, <2>9, <2>10, <2>11, <2>12, OneWorkerMoves
<1>8. ASSUME NEW w \in LoginWorkers, RestartWorker(w) PROVE LockoutInv'
  <2>1. PICK table \in [Identifiers -> Entries] : table = NoEntries
    BY <1>1, NoEntriesReads
  <2>2. PICK pasts \in [Identifiers -> Seq(Failures)] : pasts = [i \in Identifiers |-> <<>>]
    BY <1>1, NoEntriesReads
  <2>3. InLine(table) /\ \A k \in Identifiers : Agree(table[k], pasts[k], minute)
    BY <1>1, <2>1, <2>2, NoEntriesReads
  <2>4. attempts' = [attempts EXCEPT ![w] = table] /\ minute' = minute
        /\ failures' = [failures EXCEPT ![w] = pasts]
    BY <1>8, <2>1, <2>2 DEF RestartWorker
  <2>5. login' \in [LoginThreads -> Logins]
    BY <1>1, <1>8 DEF RestartWorker
  <2> QED BY <2>3, <2>4, <2>5, OneWorkerMoves
<1>9. ASSUME UNCHANGED loginVars PROVE LockoutInv'
  BY <1>9 DEF loginVars, LockoutInv, LoginsTyped
<1>10. \/ MinutePasses
       \/ \E t \in LoginThreads : WrongPassword(t) \/ Deactivated(t) \/ LoggedIn(t)
       \/ \E t \in LoginThreads, w \in LoginWorkers, i \in Identifiers : CheckLockout(t, w, i)
       \/ \E w \in LoginWorkers : RestartWorker(w)
       \/ UNCHANGED loginVars
  BY DEF LoginsNext
<1> QED BY <1>3, <1>4, <1>5, <1>6, <1>7, <1>8, <1>9, <1>10

\* The answer of the dictionary is the answer of the full history.
LEMMA LockoutAnswers == LockoutInv => LockoutIsExact
<1> SUFFICES ASSUME LockoutInv, NEW w \in LoginWorkers, NEW i \in Identifiers
             PROVE  LET last   == LastOf(failures[w][i], MaxAttempts)
                        newest == Newest(last).at
                        earned == /\ Len(last) = MaxAttempts
                                  /\ Within(newest)
                                  /\ last[1].at + LockoutMinutes > newest
                    IN  /\ LockedOut(w, i) => earned
                        /\ earned /\ Cardinality(last[1].others) < MaxTracked => LockedOut(w, i)
  BY DEF LockoutIsExact
<1>1. PICK past \in Seq(Failures), f \in Entries : past = failures[w][i] /\ f = Pruned(w)[i]
  BY PrunedReads DEF LockoutInv, LoginsTyped
<1>2. Agree(f, past, minute) /\ (f.times # <<>> => Within(Newest(f.times)))
  BY <1>1, PrunedReads
<1>3. PICK A \in Nat \ {0} : A = MaxAttempts
  BY LockoutAssumption
<1>4. PICK P \in Nat, F \in Nat : P = Len(past) /\ F = Len(f.times)
  BY EntryReads
<1>5. PICK last : last = LastOf(past, A)
  OBVIOUS
<1>6. /\ last \in Seq(Failures) /\ Len(last) = IF P > A THEN A ELSE P
      /\ \A k \in 1 .. Len(last) : last[k] = past[P - Len(last) + k]
  BY <1>3, <1>4, <1>5, LastOnes, ZenonT(60)
<1>7. /\ DOMAIN past = 1 .. P /\ DOMAIN f.times = 1 .. F
      /\ P - F >= 0 /\ F <= A
      /\ \A n \in 1 .. F : f.times[n] = past[P - F + n].at
  BY <1>2, <1>3, <1>4, EntryReads, PastReads DEF Agree, Remembered
\* When there are enough failures, the first of the last ones.
<1>8. ASSUME P >= A
      PROVE  Len(last) = A /\ last[1] = past[P - A + 1] /\ Newest(last) = past[P]
  <2>1. Len(last) = A
    BY <1>6, <1>8
  <2>2. 1 \in 1 .. A /\ A \in 1 .. A /\ P - A + A = P
    OBVIOUS
  <2> QED BY <1>6, <2>1, <2>2 DEF Newest
<1>9. LockedOut(w, i) <=> F = A
  <2>1. LockedOut(w, i) <=> F >= A
    BY <1>1, <1>3, <1>4 DEF LockedOut
  <2> QED BY <1>7, <2>1
<1>10. ASSUME F = A
       PROVE  Len(last) = A /\ Within(Newest(last).at)
              /\ last[1].at + LockoutMinutes > Newest(last).at
  <2>1. P >= A /\ P - F + 1 = P - A + 1 /\ P - F + F = P /\ 1 \in 1 .. F /\ F \in 1 .. F
    BY <1>7, <1>10
  <2>2. f.times # <<>>
    BY <1>4, <2>1
  <2>3. Newest(f.times) = past[P].at /\ f.times[1] = past[P - A + 1].at
    BY <1>4, <1>7, <2>1 DEF Newest
  <2>4. f.times[1] + LockoutMinutes > Newest(f.times) /\ Within(Newest(f.times))
    BY <1>2, <2>2 DEF Agree, Remembered
  <2> QED BY <1>8, <2>1, <2>3, <2>4
<1>11. ASSUME Len(last) = A, Within(Newest(last).at),
              last[1].at + LockoutMinutes > Newest(last).at,
              Cardinality(last[1].others) < MaxTracked
       PROVE  F = A
  <2>1. P >= A
    BY <1>6, <1>11
  <2>2. PICK n \in 1 .. P : n = P - A + 1
    <3>1. P - A + 1 \in 1 .. P
      BY <2>1
    <3> QED BY <3>1
  <2>3. past[P].at + LockoutMinutes > minute /\ past[n].at + LockoutMinutes > past[P].at
        /\ Cardinality(past[n].others) < MaxTracked
    BY <1>8, <1>11, <2>1, <2>2 DEF Within
  <2>4. Counts(past, n, minute)
    <3>1. n + A > P
      BY <2>2
    <3> QED BY <1>3, <1>4, <2>3, <3>1 DEF Counts
  <2>5. n > P - F
    BY <1>2, <1>4, <1>7, <2>4 DEF Agree, NoneMissing
  <2> QED BY <1>7, <2>2, <2>5
<1> QED BY <1>1, <1>3, <1>5, <1>9, <1>10, <1>11

\* A worker locks out exactly the identifiers whose last MaxAttempts failures
\* lie close enough together and to now (is_locked_out, record_failed_login).
THEOREM LockoutStands == DeskSpec => []LockoutIsExact
<1>1. DeskInit => LockoutInv
  BY LockoutInit DEF DeskInit
<1>2. [DeskNext]_deskVars => [LoginsNext]_loginVars
  BY DEF DeskNext, deskVars
<1>3. LockoutInv /\ [LoginsNext]_loginVars => LockoutInv'
  BY LockoutStep
<1>4. LockoutInv => LockoutIsExact
  BY LockoutAnswers
<1> QED BY <1>1, <1>2, <1>3, <1>4, PTL DEF DeskSpec
=============================================================================
