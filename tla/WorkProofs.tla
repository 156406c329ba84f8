----------------------------- MODULE WorkProofs -----------------------------
(***************************************************************************)
(* Proofs about WorkItems, for any items and any number of requests: types, *)
(* that row versions keep every item's history whatever requests overlap,  *)
(* and that the checks of save_item and delete_item keep the tree and the  *)
(* closing rule while requests come one at a time.                         *)
(***************************************************************************)
EXTENDS WorkItems, TLAPS

\* The places of each kind.
LEMMA PlacesOf ==
  ASSUME NEW i \in Items
  PROVE  /\ Places(i) \subseteq Items \cup {NoParent}
         /\ i \in Projects => Places(i) = {NoParent}
         /\ i \in Activities => Places(i) = {NoParent} \cup Projects
         /\ i \in Tasks => Places(i) = {NoParent} \cup Items
<1>1. CASE i \in Projects
  BY <1>1, WorkAssumption DEF Places
<1>2. CASE i \in Activities
  BY <1>2, WorkAssumption DEF Places, Items
<1>3. CASE i \in Tasks
  BY <1>3, WorkAssumption DEF Places, Items
<1> QED BY <1>1, <1>2, <1>3 DEF Items

\* What the version that was loaded vouches for.
Fits(r) ==
  /\ r.kind = "create" => row[r.item].state = "unborn"
  /\ r.kind # "create" =>
       Live(r.item) /\ r.status \in {row[r.item].status} \cup TRANSITIONS[row[r.item].status]

\* What was asked of the other rows when the request began.
Checked(r) ==
  /\ r.kind = "create" => MayPlace(r.item, r.place) /\ OpenAbove(r.status, r.place)
  /\ r.kind = "update" =>
       /\ r.place # row[r.item].parent => MayPlace(r.item, r.place)
       /\ OpenAbove(r.status, r.place)
  /\ r.kind = "delete" => Descendants(r.item) = {}

\* A request as it begins.
Beginning(q, r) ==
  /\ ~Busy(q)
  /\ r \in Request /\ r.pc = "loaded" /\ r.item \in Items
  /\ r.place \in Places(r.item) /\ ~r.stale
  /\ Fits(r) /\ Checked(r)
  /\ Begin(q, r)

\* Every step is the beginning of a request, or one of the other four.
LEMMA StepsOf ==
  ASSUME TypeOK, [Next]_vars
  PROVE  \/ \E q \in Requests : \/ \E r : Beginning(q, r)
                                \/ Flush(q) \/ Commit(q) \/ Abort(q)
         \/ UNCHANGED vars
<1>1. ASSUME NEW q \in Requests, NEW i \in Items, NEW place \in Places(i),
             Create(q, i, place)
      PROVE  \E r : Beginning(q, r)
  <2> DEFINE r == [pc |-> "loaded", kind |-> "create", item |-> i,
                   status |-> "planned", place |-> place, stale |-> FALSE]
  <2>1. r \in Request
    BY PlacesOf DEF Request, Status
  <2>2. Beginning(q, r)
    BY <1>1, <2>1 DEF Beginning, Create, Fits, Checked
  <2> QED BY <2>2
<1>2. ASSUME NEW q \in Requests, NEW i \in Items, NEW status \in Status,
             NEW place \in Places(i), Update(q, i, status, place)
      PROVE  \E r : Beginning(q, r)
  <2> DEFINE r == [pc |-> "loaded", kind |-> "update", item |-> i,
                   status |-> status, place |-> place, stale |-> FALSE]
  <2>1. r \in Request
    BY PlacesOf DEF Request
  <2>2. Beginning(q, r)
    BY <1>2, <2>1 DEF Beginning, Update, Fits, Checked, Accessible
  <2> QED BY <2>2
<1>3. ASSUME NEW q \in Requests, NEW i \in Items, Delete(q, i)
      PROVE  \E r : Beginning(q, r)
  <2> DEFINE r == [pc |-> "loaded", kind |-> "delete", item |-> i,
                   status |-> row[i].status, place |-> row[i].parent, stale |-> FALSE]
  <2>1. r \in Request /\ r.place \in Places(i)
    BY PlacesOf DEF Request, TypeOK, WorkRow
  <2>2. Beginning(q, r)
    BY <1>3, <2>1 DEF Beginning, Delete, Fits, Checked, Accessible
  <2> QED BY <2>2
<1> QED BY <1>1, <1>2, <1>3 DEF Next

-----------------------------------------------------------------------------
(***************************************************************************)
(* Types, with what ties a request to the version it loaded: a request     *)
(* whose row has not changed since fits the row, a flushed one is such a   *)
(* request, and no two flushed ones hold the same row.                     *)
(***************************************************************************)
Versioned ==
  /\ TypeOK
  /\ \A q \in Requests :
       /\ Busy(q) => req[q].place \in Places(req[q].item)
       /\ Busy(q) /\ ~req[q].stale => Fits(req[q])
       /\ req[q].pc = "flushed" => ~req[q].stale
  /\ \A q, o \in Requests :
       req[q].pc = "flushed" /\ req[o].pc = "flushed" /\ req[q].item = req[o].item
         => q = o

LEMMA VersionedInit == Init => Versioned
<1> SUFFICES ASSUME Init PROVE Versioned
  OBVIOUS
<1>1. row \in [Items -> WorkRow] /\ \A i \in Items : row[i].parent \in Places(i)
  BY DEF Init, WorkRow, Status, Places
<1>2. req \in [Requests -> Request] /\ \A q \in Requests : ~Busy(q) /\ req[q].pc = "idle"
  BY DEF Init, Request, Idle, Status, Busy
<1>3. overlapped \in BOOLEAN
  BY DEF Init
<1> QED BY <1>1, <1>2, <1>3 DEF Versioned, TypeOK

\* A step that leaves the rows alone and changes one request.
LEMMA VersionedMove ==
  ASSUME Versioned, NEW q \in Requests, NEW r \in Request,
         req' = [req EXCEPT ![q] = r], UNCHANGED row, overlapped' \in BOOLEAN,
         r.pc # "idle" => /\ r.item \in Items /\ r.place \in Places(r.item)
                          /\ ~r.stale => Fits(r),
         r.pc = "flushed" => ~r.stale /\ ~Locked(r.item)
  PROVE  Versioned'
<1>1. TypeOK'
  BY DEF Versioned, TypeOK, Busy
<1>2. ASSUME NEW o \in Requests
      PROVE  /\ Busy(o)' => req'[o].place \in Places(req'[o].item)
             /\ Busy(o)' /\ ~req'[o].stale => Fits(req[o])'
             /\ req'[o].pc = "flushed" => ~req'[o].stale
  BY DEF Versioned, TypeOK, Busy, Fits, Live
<1>3. ASSUME NEW o \in Requests, NEW p \in Requests,
             req'[o].pc = "flushed", req'[p].pc = "flushed", req'[o].item = req'[p].item
      PROVE  o = p
  BY <1>3 DEF Versioned, TypeOK, Locked
<1> QED BY <1>1, <1>2, <1>3 DEF Versioned

\* A commit changes one row, and outdates the other requests on it.
LEMMA VersionedCommit ==
  ASSUME Versioned, NEW q \in Requests, Commit(q)
  PROVE  Versioned'
<1> DEFINE i == req[q].item
<1>1. /\ req[q] \in Request /\ i \in Items /\ req[q].place \in Places(i)
      /\ Written(req[q]) \in WorkRow
  BY PlacesOf DEF Versioned, TypeOK, Commit, Busy, Request, Written, Gone, WorkRow, Status
<1>w. Written(req[q]).parent \in Places(i)
  BY <1>1 DEF Written, Gone, Places
<1>2. /\ row' = [row EXCEPT ![i] = Written(req[q])]
      /\ row' \in [Items -> WorkRow]
      /\ \A j \in Items : row'[j].parent \in Places(j)
  BY <1>1, <1>w DEF Commit, Versioned, TypeOK
<1>3. ASSUME NEW o \in Requests
      PROVE  /\ req'[o] \in Request
             /\ Busy(o)' => /\ Busy(o) /\ o # q /\ req'[o].item = req[o].item
                            /\ req'[o].place = req[o].place
                            /\ req'[o].pc = req[o].pc
                            /\ ~req'[o].stale => req'[o] = req[o] /\ req[o].item # i
  <2>1. CASE o = q
    BY <2>1 DEF Commit, Busy, Idle, Request, Status
  <2>2. CASE o # q /\ Busy(o) /\ req[o].item = i
    BY <2>2 DEF Commit, Versioned, TypeOK, Busy, Request
  <2>3. CASE o # q /\ ~(Busy(o) /\ req[o].item = i)
    BY <2>3 DEF Commit, Versioned, TypeOK, Busy
  <2> QED BY <2>1, <2>2, <2>3
<1>4. TypeOK'
  <2>1. req' \in [Requests -> Request]
    BY <1>3 DEF Commit
  <2>2. \A o \in Requests : Busy(o)' => req'[o].item \in Items
    BY <1>3 DEF Versioned, TypeOK
  <2> QED BY <1>2, <2>1, <2>2 DEF TypeOK, Versioned, Commit
<1>5. ASSUME NEW o \in Requests
      PROVE  /\ Busy(o)' => req'[o].place \in Places(req'[o].item)
             /\ Busy(o)' /\ ~req'[o].stale => Fits(req[o])'
             /\ req'[o].pc = "flushed" => ~req'[o].stale
  <2>1. Busy(o)' => req'[o].place \in Places(req'[o].item)
    BY <1>3 DEF Versioned
  <2>2. Busy(o)' /\ ~req'[o].stale => Fits(req[o])'
    BY <1>1, <1>2, <1>3 DEF Versioned, TypeOK, Fits, Live
  <2>3. req'[o].pc = "flushed" => ~req'[o].stale
    <3> SUFFICES ASSUME req'[o].pc = "flushed" PROVE ~req'[o].stale
      OBVIOUS
    <3>1. Busy(o)' BY DEF Busy
    <3>2. o # q /\ req[o].pc = "flushed" BY <1>3, <3>1
    <3>3. req[o].item # i BY <3>2 DEF Versioned, Commit
    <3>4. req'[o] = req[o] BY <3>2, <3>3 DEF Commit
    <3> QED BY <3>2, <3>4 DEF Versioned
  <2> QED BY <2>1, <2>2, <2>3
<1>6. ASSUME NEW o \in Requests, NEW p \in Requests,
             req'[o].pc = "flushed", req'[p].pc = "flushed", req'[o].item = req'[p].item
      PROVE  o = p
  BY <1>3, <1>6 DEF Versioned, Busy
<1> QED BY <1>4, <1>5, <1>6 DEF Versioned

LEMMA VersionedStep ==
  ASSUME Versioned, [Next]_vars
  PROVE  Versioned'
<1>1. ASSUME NEW q \in Requests, NEW r, Beginning(q, r)
      PROVE  Versioned'
  BY <1>1, VersionedMove DEF Beginning, Begin, Versioned, TypeOK
<1>2. ASSUME NEW q \in Requests, Flush(q)
      PROVE  Versioned'
  <2>1. req[q] \in Request /\ Idle \in Request /\ Idle.pc = "idle"
    BY DEF Versioned, TypeOK, Idle, Request, Status
  <2>2. CASE ~req[q].stale /\ ChildrenAllow(req[q])
    <3> DEFINE r == [req[q] EXCEPT !.pc = "flushed"]
    <3>1. /\ r \in Request /\ r.item = req[q].item /\ r.place = req[q].place
          /\ r.kind = req[q].kind /\ r.status = req[q].status
          /\ r.stale = req[q].stale /\ r.pc = "flushed"
      BY <2>1 DEF Request
    <3>2. req' = [req EXCEPT ![q] = r]
      BY <1>2, <2>2 DEF Flush
    <3>3. Busy(q) /\ ~Locked(r.item) /\ overlapped' \in BOOLEAN /\ row' = row
      BY <1>2, <3>1 DEF Flush, Busy, Versioned, TypeOK
    <3> HIDE DEF r
    <3>4. /\ r.item \in Items /\ r.place \in Places(r.item)
          /\ Fits(r)
      BY <2>2, <3>1, <3>3 DEF Versioned, TypeOK, Fits
    <3> QED BY <2>2, <3>1, <3>2, <3>3, <3>4, VersionedMove
  <2>3. CASE ~(~req[q].stale /\ ChildrenAllow(req[q]))
    <3>1. req' = [req EXCEPT ![q] = Idle] /\ row' = row /\ overlapped' \in BOOLEAN
      BY <1>2, <2>3 DEF Flush, Versioned, TypeOK
    <3> QED BY <2>1, <3>1, VersionedMove
  <2> QED BY <2>2, <2>3
<1>3. ASSUME NEW q \in Requests, Abort(q)
      PROVE  Versioned'
  <2>1. Idle \in Request /\ Idle.pc = "idle"
    BY DEF Idle, Request, Status
  <2>2. req' = [req EXCEPT ![q] = Idle] /\ row' = row /\ overlapped' \in BOOLEAN
    BY <1>3 DEF Abort, Versioned, TypeOK
  <2> QED BY <2>1, <2>2, VersionedMove
<1>4. CASE UNCHANGED vars
  BY <1>4 DEF vars, Versioned, TypeOK, Busy, Fits, Live
<1> QED BY <1>1, <1>2, <1>3, <1>4, StepsOf, VersionedCommit DEF Versioned

(***************************************************************************)
(* Every state is well typed (models.py, WorkFields and the foreign keys). *)
(***************************************************************************)
THEOREM TypeCorrect == Spec => []TypeOK
<1>1. Versioned => TypeOK
  BY DEF Versioned
<1> QED BY <1>1, VersionedInit, VersionedStep, PTL DEF Spec

(***************************************************************************)
(* However requests overlap, no item leaves its life cycle: the version in *)
(* the UPDATE's WHERE clause (models.py, version_id_col) is enough for     *)
(* that, though not for the rules over several rows.                       *)
(***************************************************************************)
THEOREM HistoryKept == Spec => HistoryRespected
<1> DEFINE Kept(i) == row'[i] # row[i] =>
              CASE row[i].state = "unborn"  -> row'[i].state = "live"
                [] row[i].state = "deleted" -> FALSE
                [] row[i].state = "live"    ->
                     \/ row'[i] = Gone
                     \/ /\ row'[i].state = "live"
                        /\ row'[i].status \in {row[i].status} \cup TRANSITIONS[row[i].status]
<1>1. ASSUME Versioned, [Next]_vars, NEW i \in Items
      PROVE  Kept(i)
  <2>1. CASE row' = row
    BY <2>1
  <2>2. ASSUME NEW q \in Requests, Commit(q), req[q].item = i
        PROVE  Kept(i)
    <3>1. /\ req[q] \in Request /\ Fits(req[q])
          /\ row'[i] = Written(req[q])
      BY <1>1, <2>2 DEF Commit, Versioned, TypeOK, Busy
    <3>2. IF req[q].kind = "delete" THEN row'[i] = Gone
          ELSE row'[i].state = "live" /\ row'[i].status = req[q].status
      BY <3>1 DEF Written
    <3>3. /\ req[q].kind = "create" => row[i].state = "unborn"
          /\ req[q].kind # "create" =>
               /\ row[i].state = "live"
               /\ req[q].status \in {row[i].status} \cup TRANSITIONS[row[i].status]
      BY <2>2, <3>1 DEF Fits, Live
    <3>4. CASE req[q].kind = "create"
      <4>1. row[i].state = "unborn" /\ row'[i].state = "live"
        BY <3>2, <3>3, <3>4
      <4> QED BY <4>1
    <3>5. CASE req[q].kind # "create"
      <4>1. /\ row[i].state = "live"
            /\ \/ row'[i] = Gone
               \/ /\ row'[i].state = "live"
                  /\ row'[i].status \in {row[i].status} \cup TRANSITIONS[row[i].status]
        BY <3>2, <3>3, <3>5
      <4> QED BY <4>1
    <3> QED BY <3>4, <3>5
  <2>3. ASSUME NEW q \in Requests, Commit(q), req[q].item # i
        PROVE  Kept(i)
    BY <1>1, <2>3 DEF Commit, Versioned, TypeOK, Busy
  <2>4. TypeOK
    BY <1>1 DEF Versioned
  <2>5. CASE \E q \in Requests : \/ \E r : Beginning(q, r)
                                 \/ Flush(q) \/ Abort(q)
    BY <2>1, <2>5 DEF Beginning, Begin, Flush, Abort
  <2>6. CASE UNCHANGED vars
    BY <2>1, <2>6 DEF vars
  <2> QED BY <1>1, <2>2, <2>3, <2>4, <2>5, <2>6, StepsOf
<1>2. Versioned /\ [Next]_vars => [\A i \in Items : Kept(i)]_vars
  BY <1>1
<1> QED BY <1>2, VersionedInit, VersionedStep, PTL DEF Spec, HistoryRespected

-----------------------------------------------------------------------------
(***************************************************************************)
(* One request at a time.  What holds between an item and its parent, and  *)
(* what the request in flight has made sure of, is kept by every step; the *)
(* rules about whole branches follow.                                      *)
(***************************************************************************)
\* An item and its parent.
LocalTree ==
  \A i \in Items : Live(i) =>
    LET p == row[i].parent
    IN  /\ p # NoParent => Live(p) /\ (Closed(p) => Closed(i))
        /\ i \in Tasks /\ p \in Tasks => row[p].parent \notin Tasks

\* The request in flight, and that there is no other.
Pending ==
  \A q \in Requests : Busy(q) =>
    /\ \A o \in Requests : Busy(o) => o = q
    /\ ~req[q].stale /\ Checked(req[q])
    /\ req[q].pc = "flushed" => ChildrenAllow(req[q])

Calm == Versioned /\ (overlapped \/ (LocalTree /\ Pending))

\* descendants() finds every child.
LEMMA ChildIsDescendant ==
  ASSUME TypeOK, NEW i \in Items, NEW c \in Items, Live(c), row[c].parent = i
  PROVE  c \in Descendants(i)
<1>1. i # NoParent /\ row[c].parent \in Places(c)
  BY WorkAssumption DEF TypeOK, Items
<1>2. c \in Children({i})
  BY DEF Children
<1>3. CASE i \in Tasks
  BY <1>2, <1>3 DEF Descendants
<1>4. CASE i \notin Tasks
  <2>1. c \in Activities \/ c \in Tasks
    BY <1>1, PlacesOf DEF Items
  <2>2. Children({i}) \subseteq Children({i} \cup (Children({i}) \cap Activities))
    BY DEF Children
  <2> QED BY <1>2, <1>4, <2>1, <2>2 DEF Descendants
<1> QED BY <1>3, <1>4

\* A place is on its own way up.
LEMMA PlaceOnWayUp ==
  ASSUME NEW place \in Items
  PROVE  place \in WayUp(place)
BY WorkAssumption DEF WayUp, Items

\* Whatever set has a place and is closed under parent() has the way up.
LEMMA WayUpWithin ==
  ASSUME NEW place, NEW S, S \subseteq Items,
         place # NoParent => place \in S,
         \A i \in S : row[i].parent # NoParent => row[i].parent \in S
  PROVE  WayUp(place) \subseteq S
<1>1. S \in SUBSET Items /\ {place} \ {NoParent} \subseteq S
  OBVIOUS
<1>2. Up(S) \subseteq S
  BY DEF Up
<1> QED BY <1>1, <1>2 DEF WayUp

\* The commit of a request that was alone keeps what holds between an item
\* and its parent.
LEMMA LocalTreeCommit ==
  ASSUME Versioned, LocalTree, Pending, NEW q \in Requests, Commit(q)
  PROVE  LocalTree'
<1> DEFINE r == req[q]
           i == req[q].item
<1>1. /\ r \in Request /\ i \in Items /\ TypeOK /\ r.place \in Items \cup {NoParent}
      /\ Fits(r) /\ Checked(r) /\ ChildrenAllow(r)
      /\ r.kind \in {"create", "update", "delete"}
  BY DEF Commit, Versioned, Pending, TypeOK, Busy, Request
<1>2. /\ row' = [row EXCEPT ![i] = Written(r)]
      /\ IF r.kind = "delete" THEN row'[i].state = "deleted"
         ELSE row'[i].state = "live" /\ row'[i].status = r.status /\ row'[i].parent = r.place
      /\ \A j \in Items \ {i} : row'[j] = row[j]
  BY <1>1 DEF Commit, Written, Gone, TypeOK
<1>3. \A j \in Items : row[j].parent \in Items \cup {NoParent}
  BY <1>1 DEF TypeOK, WorkRow
<1>4. NoParent \notin Items
  BY WorkAssumption DEF Items
<1> HIDE DEF r, i
<1>5. ASSUME NEW c \in Items, Live(c), row[c].parent = i
      PROVE  /\ r.kind = "update" /\ Live(i) /\ r.place = row[i].parent
             /\ r.status \in TERMINAL => Closed(c)
  <2>1. Live(i) /\ (Closed(i) => Closed(c))
    BY <1>1, <1>4, <1>5 DEF LocalTree
  <2>2. c \in Descendants(i)
    BY <1>1, <1>5, ChildIsDescendant
  <2>3. r.kind # "create"
    BY <1>1, <2>1 DEF Fits, Live, i, r
  <2>4. r.kind # "delete"
    BY <1>1, <2>2 DEF Checked, i, r
  <2> QED BY <1>1, <2>1, <2>2, <2>3, <2>4 DEF ChildrenAllow, Closed, i, r
<1>6. ASSUME r.kind # "delete", r.place # NoParent
      PROVE  /\ r.place # i /\ Live(r.place)
             /\ Closed(r.place) => r.status \in TERMINAL
             /\ i \in Tasks /\ r.place \in Tasks => row[r.place].parent \notin Tasks
  <2>0. r.place \in Items
    BY <1>1, <1>6
  <2>1. OpenAbove(r.status, r.place)
    BY <1>1, <1>6 DEF Checked
  <2>2. Closed(r.place) => r.status \in TERMINAL
    BY <2>0, <2>1, PlaceOnWayUp DEF OpenAbove
  <2>3. CASE MayPlace(i, r.place)
    BY <1>6, <2>2, <2>3 DEF MayPlace, Accessible
  <2>4. CASE ~MayPlace(i, r.place)
    <3>1. r.kind = "update" /\ r.place = row[i].parent /\ Live(i)
      BY <1>1, <1>6, <2>4 DEF Checked, Fits, i, r
    <3>2. /\ Live(r.place)
          /\ i \in Tasks /\ r.place \in Tasks => row[r.place].parent \notin Tasks
      BY <1>1, <1>6, <3>1 DEF LocalTree
    <3>3. r.place # i
      <4> SUFFICES ASSUME r.place = i PROVE FALSE
        OBVIOUS
      <4>1. row[i].parent = i /\ i \in Places(i)
        BY <1>1, <3>1 DEF TypeOK
      <4>2. i \in Tasks
        BY <1>1, <1>4, <4>1, PlacesOf, WorkAssumption DEF Items
      <4> QED BY <3>2, <4>1, <4>2
    <3> QED BY <2>2, <3>2, <3>3
  <2> QED BY <2>3, <2>4
<1>7. ASSUME NEW j \in Items, row'[j].state = "live"
      PROVE  /\ row'[j].parent # NoParent =>
                  /\ row'[row'[j].parent].state = "live"
                  /\ row'[row'[j].parent].status \in TERMINAL => row'[j].status \in TERMINAL
             /\ j \in Tasks /\ row'[j].parent \in Tasks =>
                  row'[row'[j].parent].parent \notin Tasks
  <2>1. CASE j = i
    <3>1. r.kind # "delete"
      BY <1>2, <1>7, <2>1 DEF Live
    <3>2. row'[j].parent = r.place /\ row'[j].status = r.status
      BY <1>2, <2>1, <3>1
    <3>3. CASE r.place = NoParent
      BY <1>4, <3>2, <3>3 DEF Items
    <3>4. CASE r.place # NoParent
      <4>1. row'[r.place] = row[r.place]
        BY <1>1, <1>2, <1>6, <3>1, <3>4
      <4> QED BY <1>6, <2>1, <3>1, <3>2, <3>4, <4>1 DEF Live, Closed
    <3> QED BY <3>3, <3>4
  <2>2. CASE j # i /\ row[j].parent = i
    <3>1. Live(j) /\ row'[j] = row[j]
      BY <1>2, <1>7, <2>2 DEF Live
    <3>2. /\ r.kind = "update" /\ r.place = row[i].parent
          /\ r.status \in TERMINAL => Closed(j)
      BY <1>5, <2>2, <3>1
    <3>3. /\ row'[i].state = "live" /\ row'[i].parent = row[i].parent
          /\ row'[i].status \in TERMINAL => Closed(j)
      BY <1>2, <3>1, <3>2 DEF Live, Closed
    <3>4. j \in Tasks /\ i \in Tasks => row[i].parent \notin Tasks
      BY <2>2, <3>1 DEF LocalTree
    <3> QED BY <2>2, <3>1, <3>3, <3>4 DEF Closed
  <2>3. CASE j # i /\ row[j].parent # i
    <3> DEFINE p == row[j].parent
    <3>1. Live(j) /\ row'[j] = row[j]
      BY <1>2, <1>7, <2>3 DEF Live
    <3>2. /\ p # NoParent => Live(p) /\ (Closed(p) => Closed(j))
          /\ j \in Tasks /\ p \in Tasks => row[p].parent \notin Tasks
      BY <3>1 DEF LocalTree
    <3>3. CASE p = NoParent
      BY <1>4, <3>1, <3>3 DEF Items
    <3>4. CASE p # NoParent
      <4>1. row'[p] = row[p]
        BY <1>2, <1>3, <2>3, <3>4
      <4> QED BY <3>1, <3>2, <3>4, <4>1 DEF Live, Closed
    <3> QED BY <3>3, <3>4
  <2> QED BY <2>1, <2>2, <2>3
<1> QED BY <1>7 DEF LocalTree, Live, Closed

\* What was asked of the rows holds as long as no row changes.
LEMMA SameRows ==
  ASSUME UNCHANGED row, NEW r
  PROVE  /\ Checked(r) => Checked(r)'
         /\ ChildrenAllow(r) => ChildrenAllow(r)'
<1>1. ASSUME NEW i PROVE Live(i)' = Live(i) /\ Closed(i)' = Closed(i)
  BY DEF Live, Closed
<1>2. ASSUME NEW S PROVE Up(S)' = Up(S) /\ Children(S)' = Children(S)
  BY DEF Up, Children, Live
<1>3. ASSUME NEW place PROVE WayUp(place)' = WayUp(place)
  BY <1>2 DEF WayUp
<1>4. ASSUME NEW i PROVE Descendants(i)' = Descendants(i)
  BY <1>2 DEF Descendants, Children, Live
<1>5. ASSUME NEW i PROVE Accessible(i)' = Accessible(i)
  BY <1>1, <1>3 DEF Accessible, Endless, WayUp, Up, Live
<1>6. ASSUME NEW i, NEW place
      PROVE  /\ MayPlace(i, place)' = MayPlace(i, place)
             /\ OpenAbove(i, place)' = OpenAbove(i, place)
  BY <1>1, <1>3, <1>5 DEF MayPlace, OpenAbove, Closed
<1> QED BY <1>1, <1>4, <1>6 DEF Checked, ChildrenAllow, Closed

\* A step that leaves the rows alone and changes one request.
LEMMA CalmMove ==
  ASSUME Calm, Versioned', ~overlapped', ~overlapped, UNCHANGED row,
         NEW q \in Requests, NEW r,
         req' = [req EXCEPT ![q] = r],
         r.pc # "idle" =>
           /\ \A o \in Requests \ {q} : ~Busy(o)
           /\ ~r.stale /\ Checked(r)
           /\ r.pc = "flushed" => ChildrenAllow(r)
  PROVE  Calm'
<1>1. LocalTree /\ Pending /\ req \in [Requests -> Request]
  BY DEF Calm, Versioned, TypeOK
<1>2. LocalTree'
  BY <1>1 DEF LocalTree, Live, Closed
<1>3. req'[q] = r /\ \A o \in Requests \ {q} : req'[o] = req[o]
  BY <1>1
<1>4. ASSUME NEW o \in Requests, req'[o].pc # "idle"
      PROVE  /\ \A p \in Requests : req'[p].pc # "idle" => p = o
             /\ ~req'[o].stale
             /\ Checked(req[o])'
             /\ (req[o].pc = "flushed" => ChildrenAllow(req[o]))'
  <2>1. /\ \A p \in Requests : req'[p].pc # "idle" => p = o
        /\ ~req'[o].stale /\ Checked(req'[o])
        /\ req'[o].pc = "flushed" => ChildrenAllow(req'[o])
    <3>1. CASE o = q
      BY <1>3, <1>4, <3>1 DEF Busy
    <3>2. CASE o # q
      BY <1>1, <1>3, <1>4, <3>2 DEF Pending, Busy
    <3> QED BY <3>1, <3>2
  <2> PICK s : s = req'[o]
    OBVIOUS
  <2>2. Checked(s)' /\ (s.pc = "flushed" => ChildrenAllow(s)')
    BY <2>1, SameRows
  <2> QED BY <2>1, <2>2 DEF Checked, ChildrenAllow
<1>5. Pending'
  BY <1>4 DEF Pending, Busy
<1> QED BY <1>2, <1>5 DEF Calm

LEMMA CalmInit == Init => Calm
<1> SUFFICES ASSUME Init PROVE Calm
  OBVIOUS
<1>1. LocalTree /\ Pending
  BY DEF Init, LocalTree, Pending, Live, Busy, Idle
<1> QED BY <1>1, VersionedInit DEF Calm

LEMMA CalmStep ==
  ASSUME Calm, [Next]_vars
  PROVE  Calm'
<1>1. Versioned /\ Versioned' /\ TypeOK
  BY VersionedStep DEF Calm, Versioned
<1>2. Idle.pc = "idle"
  BY DEF Idle
<1>3. overlapped => overlapped'
  <2>1. CASE \E q \in Requests : \/ \E r : Beginning(q, r)
                                 \/ Flush(q) \/ Commit(q) \/ Abort(q)
    BY <2>1 DEF Beginning, Begin, Flush, Commit, Abort
  <2>2. CASE UNCHANGED vars
    BY <2>2 DEF vars
  <2> QED BY <1>1, <2>1, <2>2, StepsOf
<1> SUFFICES ASSUME ~overlapped', ~overlapped
             PROVE  Calm'
  BY <1>1, <1>3 DEF Calm
<1>4. LocalTree /\ Pending
  BY DEF Calm
<1>5. ASSUME NEW q \in Requests, NEW r, Beginning(q, r)
      PROVE  Calm'
  <2>1. /\ req' = [req EXCEPT ![q] = r] /\ UNCHANGED row
        /\ \A o \in Requests \ {q} : ~Busy(o)
        /\ r.pc = "loaded" /\ ~r.stale /\ Checked(r)
    BY <1>5 DEF Beginning, Begin
  <2> QED BY <1>1, <2>1, CalmMove
<1>6. ASSUME NEW q \in Requests, Flush(q)
      PROVE  Calm'
  <2>1. req[q] \in Request /\ Busy(q) /\ row' = row
    BY <1>1, <1>6 DEF TypeOK, Flush, Busy
  <2>2. CASE ~req[q].stale /\ ChildrenAllow(req[q])
    <3> DEFINE r == [req[q] EXCEPT !.pc = "flushed"]
    <3>1. /\ r.item = req[q].item /\ r.place = req[q].place /\ r.kind = req[q].kind
          /\ r.status = req[q].status /\ r.stale = req[q].stale /\ r.pc = "flushed"
      BY <2>1 DEF Request
    <3>2. req' = [req EXCEPT ![q] = r]
      BY <1>6, <2>2 DEF Flush
    <3> HIDE DEF r
    <3>3. /\ \A o \in Requests \ {q} : ~Busy(o)
          /\ Checked(req[q])
      BY <1>4, <2>1 DEF Pending
    <3>4. ~r.stale /\ Checked(r) /\ ChildrenAllow(r)
      BY <2>2, <3>1, <3>3 DEF Checked, ChildrenAllow
    <3> QED BY <1>1, <2>1, <3>2, <3>3, <3>4, CalmMove
  <2>3. CASE ~(~req[q].stale /\ ChildrenAllow(req[q]))
    <3>1. req' = [req EXCEPT ![q] = Idle]
      BY <1>6, <2>3 DEF Flush
    <3> QED BY <1>1, <1>2, <2>1, <3>1, CalmMove
  <2> QED BY <2>2, <2>3
<1>7. ASSUME NEW q \in Requests, Commit(q)
      PROVE  Calm'
  <2>1. LocalTree'
    BY <1>1, <1>4, <1>7, LocalTreeCommit
  <2>2. ASSUME NEW o \in Requests
        PROVE  req'[o].pc = "idle"
    <3>1. CASE o = q
      BY <1>2, <1>7, <3>1 DEF Commit
    <3>2. CASE o # q
      <4>1. Busy(q)
        BY <1>7 DEF Commit, Busy
      <4>2. ~Busy(o)
        BY <1>4, <3>2, <4>1 DEF Pending
      <4> QED BY <1>7, <3>2, <4>2 DEF Commit, Busy
    <3> QED BY <3>1, <3>2
  <2>3. Pending'
    BY <2>2 DEF Pending, Busy
  <2> QED BY <1>1, <2>1, <2>3 DEF Calm
<1>8. ASSUME NEW q \in Requests, Abort(q)
      PROVE  Calm'
  BY <1>1, <1>2, <1>8, CalmMove DEF Abort
<1>9. CASE UNCHANGED vars
  <2>1. LocalTree'
    BY <1>4, <1>9 DEF vars, LocalTree, Live, Closed
  <2>2. Pending'
    <3>1. ASSUME NEW q \in Requests, Busy(q)
          PROVE  Checked(req[q])' /\ (req[q].pc = "flushed" => ChildrenAllow(req[q]))'
      <4>1. UNCHANGED row /\ req'[q] = req[q]
        BY <1>9 DEF vars
      <4> PICK s : s = req[q]
        OBVIOUS
      <4>2. Checked(s)' /\ (s.pc = "flushed" => ChildrenAllow(s)')
        BY <1>4, <3>1, <4>1, SameRows DEF Pending
      <4> QED BY <4>1, <4>2 DEF Checked, ChildrenAllow
    <3> QED BY <1>4, <1>9, <3>1 DEF vars, Pending, Busy
  <2> QED BY <1>1, <2>1, <2>2 DEF Calm
<1> QED BY <1>1, <1>5, <1>6, <1>7, <1>8, <1>9, StepsOf

(***************************************************************************)
(* The checks of save_item (services.py) are enough for requests that come *)
(* one at a time: work under closed work is closed, at whatever depth.     *)
(***************************************************************************)
THEOREM ClosedStaysClosed == Spec => []ClosingKept
<1>1. ASSUME TypeOK, LocalTree
      PROVE  ClosedAllTheWay
  <2> SUFFICES ASSUME NEW i \in Items, NEW d \in Items, Live(d), ~Closed(d),
                      i \in WayUp(row[d].parent)
               PROVE  ~Closed(i)
    BY DEF ClosedAllTheWay
  <2> DEFINE Open == {a \in Items : Live(a) /\ ~Closed(a)}
  <2>1. \A a \in Open : row[a].parent # NoParent => row[a].parent \in Open
    BY <1>1 DEF LocalTree, TypeOK, WorkRow
  <2>2. row[d].parent # NoParent => row[d].parent \in Open
    BY <2>1
  <2>3. Open \subseteq Items
    OBVIOUS
  <2> HIDE DEF Open
  <2>4. WayUp(row[d].parent) \subseteq Open
    BY <2>1, <2>2, <2>3, WayUpWithin
  <2>5. i \in Open
    BY <2>4
  <2> QED BY <2>5 DEF Open
<1>2. Calm => ClosingKept
  BY <1>1 DEF Calm, Versioned, ClosingKept
<1> QED BY <1>2, CalmInit, CalmStep, PTL DEF Spec

(***************************************************************************)
(* ... and, with the check of delete_item, live work hangs on live work,   *)
(* subtasks stay one level deep and no way up runs in a circle.            *)
(***************************************************************************)
THEOREM TreeStaysSound == Spec => []TreeKept
<1>1. ASSUME TypeOK, LocalTree, NEW i \in Items, Live(i)
      PROVE  i \notin WayUp(row[i].parent)
  <2>1. /\ \A a \in Items : row[a].parent \in Places(a)
        /\ Projects \subseteq Items /\ Activities \subseteq Items
        /\ NoParent \notin Items
        /\ Projects \cap Activities = {}
        /\ Tasks \cap (Projects \cup Activities) = {}
    BY <1>1, WorkAssumption DEF TypeOK, Items
  <2>2. /\ \A a \in Projects : row[a].parent = NoParent
        /\ \A a \in Activities : row[a].parent # NoParent => row[a].parent \in Projects
    BY <2>1, PlacesOf
  <2> DEFINE Above == Projects \cup Activities
  <2>3. /\ Above \subseteq Items
        /\ \A a \in Above : row[a].parent # NoParent => row[a].parent \in Above
    BY <2>1, <2>2
  <2>4. CASE i \in Projects
    <3> DEFINE none == {}
    <3>1. none \subseteq Items /\ row[i].parent = NoParent
      BY <2>2, <2>4
    <3>2. \A a \in none : row[a].parent # NoParent => row[a].parent \in none
      OBVIOUS
    <3> HIDE DEF none
    <3>3. WayUp(row[i].parent) \subseteq none
      BY <3>1, <3>2, WayUpWithin
    <3> QED BY <3>3 DEF none
  <2>5. CASE i \in Activities
    <3>1. WayUp(row[i].parent) \subseteq Projects
      BY <2>1, <2>2, <2>5, WayUpWithin
    <3> QED BY <2>1, <2>5, <3>1
  <2>6. CASE i \in Tasks /\ row[i].parent \notin Tasks
    <3>1. row[i].parent # NoParent => row[i].parent \in Above
      BY <1>1, <2>1, <2>6, PlacesOf DEF Items
    <3> HIDE DEF Above
    <3>2. WayUp(row[i].parent) \subseteq Above
      BY <2>3, <3>1, WayUpWithin
    <3> QED BY <2>1, <2>6, <3>2 DEF Above
  <2>7. CASE i \in Tasks /\ row[i].parent \in Tasks
    <3> DEFINE t == row[i].parent
    <3>1. t \in Items /\ row[t].parent \notin Tasks
      BY <1>1, <2>7 DEF LocalTree, Items
    <3>2. row[t].parent # NoParent => row[t].parent \in Above
      BY <2>1, <3>1, PlacesOf DEF Items
    <3>3. /\ {t} \cup Above \subseteq Items
          /\ \A a \in {t} \cup Above :
               row[a].parent # NoParent => row[a].parent \in {t} \cup Above
      BY <2>3, <3>1, <3>2
    <3>4. t # i
      BY <2>7, <3>1
    <3> HIDE DEF t, Above
    <3>5. WayUp(t) \subseteq {t} \cup Above
      BY <3>3, WayUpWithin
    <3> QED BY <2>1, <2>7, <3>4, <3>5 DEF t, Above
  <2> QED BY <2>4, <2>5, <2>6, <2>7 DEF Items
<1>2. Calm => TreeKept
  BY <1>1 DEF Calm, Versioned, TreeKept, SoundTree, LocalTree
<1> QED BY <1>2, CalmInit, CalmStep, PTL DEF Spec
=============================================================================
