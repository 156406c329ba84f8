---------------------------- MODULE CustomerGroups --------------------------
(***************************************************************************)
(* Which customer belongs to which group of the planning board             *)
(* (planning/workorder_plan).  A request reads a row, and then deletes it  *)
(* by its id and inserts another in one transaction; other requests may    *)
(* commit in between.  On SQLite the id of a deleted row is given again.   *)
(***************************************************************************)
EXTENDS PlanningRequests

CONSTANT Customers

VARIABLES groups,    \* the groups that exist
          members,   \* rows [id, group, customer]
          lastId,    \* PostgreSQL's sequence
          asking     \* the request in progress of each planner

groupVars == <<groups, members, lastId, asking>>

NotAsking == [pc |-> "idle"]
RowsOf(c)  == {m \in members : m.customer = c}
GroupOf(c) == IF RowsOf(c) = {} THEN None ELSE (CHOOSE m \in RowsOf(c) : TRUE).group

GroupsInit == /\ groups = Groups /\ members = {}
              /\ lastId = 0
              /\ asking = [p \in Planners |-> NotAsking]

NextId(rows) == IF Database = "postgres" THEN lastId + 1
                ELSE IF rows = {} THEN 1 ELSE Max({m.id : m \in rows}) + 1

Ask(p, request) == /\ asking[p] = NotAsking
                   /\ asking' = [asking EXCEPT ![p] = request]
                   /\ UNCHANGED <<groups, members, lastId>>

Answer(p) == asking' = [asking EXCEPT ![p] = NotAsking]

----------------------------------------------------------------------------
(* groups_create(): PostgreSQL gives a group a number never used before.    *)
CreateGroup(g) == /\ g \notin groups
                  /\ Database = "postgres" =>
                       \A p \in Planners : asking[p] # NotAsking => asking[p].group # g
                  /\ groups' = groups \cup {g}
                  /\ UNCHANGED <<members, lastId, asking>>

(* add_group_member(): the row seen is deleted, a new one inserted.        *)
FindMember(p, g, c) == Ask(p, [pc |-> "add", group |-> g, customer |-> c,
                               seen |-> {m.id : m \in RowsOf(c)}])

Kept(p)    == {m \in members : m.id \notin asking[p].seen}
Refuses(p) == \/ \E m \in Kept(p) : m.customer = asking[p].customer
              \/ Database = "postgres" /\ asking[p].group \notin groups

AddMember(p) ==
  LET id == NextId(Kept(p)) IN
  /\ asking[p].pc = "add" /\ ~Refuses(p) /\ id <= MaxRows
  /\ members' = Kept(p) \cup {[id |-> id, group |-> asking[p].group,
                               customer |-> asking[p].customer]}
  /\ lastId' = IF Database = "postgres" THEN id ELSE lastId
  /\ Answer(p) /\ UNCHANGED groups

\* Mutant: the eviction is committed before the insert.
AddRefusedEvicting(p) == /\ asking[p].pc = "add" /\ Refuses(p)
                         /\ members' = Kept(p)
                         /\ Answer(p) /\ UNCHANGED <<groups, lastId>>

(* The unique customer or the foreign key refuses the insert: rolled back. *)
AddRefused(p) == /\ asking[p].pc = "add" /\ Refuses(p)
                 /\ Answer(p) /\ UNCHANGED <<groups, members, lastId>>

RemoveMember(g, c) ==
  /\ members' = {m \in members : ~(m.group = g /\ m.customer = c)}
  /\ UNCHANGED <<groups, lastId, asking>>

(* delete_group(): the members loaded are deleted by id, then the group;   *)
(* PostgreSQL's cascade takes the rows added since.                        *)
FindGroup(p, g) == /\ g \in groups
                   /\ Ask(p, [pc |-> "delete", group |-> g,
                              seen |-> {m.id : m \in {x \in members : x.group = g}}])

DeleteGroup(p) ==
  LET g == asking[p].group IN
  /\ asking[p].pc = "delete"
  /\ groups' = groups \ {g}
  /\ members' = {m \in Kept(p) : ~(Database = "postgres" /\ m.group = g)}
  /\ Answer(p) /\ UNCHANGED lastId

GroupsNext ==
  \/ \E p \in Planners :
       \/ \E g \in groups : FindGroup(p, g)
       \/ \E g \in Groups, c \in Customers : FindMember(p, g, c)
       \/ AddMember(p) \/ AddRefused(p) \/ DeleteGroup(p)
  \/ \E g \in Groups : CreateGroup(g) \/ \E c \in Customers : RemoveMember(g, c)

----------------------------------------------------------------------------
(* "Each customer can only belong to one group.  Adding a customer here    *)
(* removes them from any previous group": a customer is never in two       *)
(* groups, and leaves one only by being added to another, by being removed *)
(* from it or with the group itself; two moves that cross, or a move and   *)
(* the deletion of the old group, do not lose it on the way.               *)
MovedNotLost ==
  [][\A c \in Customers :
       /\ Cardinality(RowsOf(c)') <= 1
       /\ GroupOf(c)' # GroupOf(c) =>
            \/ RemoveMember(GroupOf(c), c)
            \/ GroupOf(c) \notin groups'
            \/ \E p \in Planners : /\ asking[p].pc = "add" /\ asking[p].customer = c
                                   /\ GroupOf(c)' = asking[p].group]_groupVars
=============================================================================
