-------------------------- MODULE TransportHistory --------------------------
(***************************************************************************)
(* The manifests of shipped loads that transport/manifest_importer.py      *)
(* retains.  A run asks Epicor for one slice of its date window after the  *)
(* other, while loads are shipped, re-dated and corrected there, and then  *)
(* compares what it got with the saved manifests in one transaction.       *)
(***************************************************************************)
EXTENDS Naturals, FiniteSets

CONSTANTS Loads,      \* load numbers
          Releases,   \* order releases a load may carry
          Importers,  \* processes that may run the importer
          Slices,     \* seven-day slices in the window of a run
          Engine,   \* "sqlite": one writer; "postgres": READ COMMITTED
          MaxMoves,   \* bound: changes made in Epicor
          MaxFaults   \* bound: runs that fail for another reason

ASSUME TransportAssumption ==
  /\ Slices \in Nat \ {0} /\ MaxMoves \in Nat /\ MaxFaults \in Nat
  /\ Engine \in {"sqlite", "postgres"}

VARIABLES source,    \* Epicor: status, slice (0: outside the window), contents
          manifest,  \* transport_manifests with their releases
          run,       \* the run of each process
          moves, faults

vars == <<source, manifest, run, moves, faults>>

Status   == {"SHIPPED", "PACKED"}
Contents == (SUBSET Releases) \ {{}}
SlotOrder == 0 .. Slices
InEpicor == [status : Status, slot : SlotOrder, contents : Contents]
NoRow    == [status |-> "NONE", contents |-> {}]
Saved    == [status : Status, contents : Contents]
Records  == [load : Loads, status : Status, slot : 1 .. Slices, contents : Contents]
Idle     == [pc |-> "idle", slice |-> 0, records |-> {}, seen |-> [l \in Loads |-> NoRow]]

Init == /\ source \in [Loads -> {s \in InEpicor : s.slot = 0}]
        /\ manifest = [l \in Loads |-> NoRow]
        /\ run = [p \in Importers |-> Idle]
        /\ moves = 0 /\ faults = 0

----------------------------------------------------------------------------
(* Epicor: a load is shipped, unshipped, re-dated or corrected.            *)
Move(l) ==
  /\ moves < MaxMoves
  /\ \E s \in InEpicor \ {source[l]} : source' = [source EXCEPT ![l] = s]
  /\ moves' = moves + 1
  /\ UNCHANGED <<manifest, run, faults>>

Begin(p) ==
  /\ run[p].pc = "idle"
  /\ run' = [run EXCEPT ![p] = [Idle EXCEPT !.pc = "fetch", !.slice = 1]]
  /\ UNCHANGED <<source, manifest, moves, faults>>

(* One BAQ call: the rows whose header date lies in this slice.            *)
FetchSlice(p) ==
  LET k == run[p].slice IN
  /\ run[p].pc = "fetch" /\ k <= Slices
  /\ run' = [run EXCEPT
       ![p].slice   = k + 1,
       ![p].records = @ \cup {[load |-> l, status |-> source[l].status, slot |-> k,
                               contents |-> source[l].contents] :
                              l \in {x \in Loads : source[x].slot = k}}]
  /\ UNCHANGED <<source, manifest, moves, faults>>

Of(p, l)    == {r \in run[p].records : r.load = l}
Fetched(p)  == {r.load : r \in run[p].records}

(* A load whose rows disagree on the status, or on the header date of a    *)
(* shipped load, makes the whole run fail.                                 *)
Conflicting(p) == \E l \in Loads : \E r, s \in Of(p, l) :
                     \/ r.status # s.status
                     \/ r.status = "SHIPPED" /\ r.slot # s.slot

(* The UPDATE of the batch precedes the SELECT of the saved manifests: on  *)
(* SQLite that takes the write lock for the rest of the transaction.       *)
MayRead(p) == Engine = "sqlite" => \A q \in Importers \ {p} : run[q].pc # "write"

ReadSaved(p) ==
  /\ run[p].pc = "fetch" /\ run[p].slice > Slices
  /\ ~Conflicting(p) /\ MayRead(p)
  /\ run' = [run EXCEPT ![p].pc = "write",
       ![p].seen = [l \in Loads |-> IF l \in Fetched(p) THEN manifest[l] ELSE NoRow]]
  /\ UNCHANGED <<source, manifest, moves, faults>>

Shipped(p, l)     == \E r \in Of(p, l) : r.status = "SHIPPED"
ContentsOf(p, l)  == UNION {r.contents : r \in Of(p, l)}

(* What is left of a load's saved releases once those seen are deleted.    *)
Left(p, l) == manifest[l].contents \ run[p].seen[l].contents

(* The unique keys: a manifest inserted meanwhile, or a release of it.     *)
Violates(p) == \E l \in Fetched(p) : /\ Shipped(p, l)
                                     /\ \/ run[p].seen[l] = NoRow /\ manifest[l] # NoRow
                                        \/ Left(p, l) \cap ContentsOf(p, l) # {}

\* Mutant: an observation that is not shipped replaces the contents too.
NewManifestOfAny(p, l) ==
  CASE l \in Fetched(p) /\ (Shipped(p, l) \/ run[p].seen[l] # NoRow) ->
         [status   |-> IF Shipped(p, l) THEN "SHIPPED" ELSE "PACKED",
          contents |-> Left(p, l) \cup ContentsOf(p, l)]
    [] OTHER -> manifest[l]

\* Mutant: a load that is saved already keeps the contents it has.
NewManifestOnce(p, l) ==
  CASE l \in Fetched(p) /\ Shipped(p, l) /\ run[p].seen[l] = NoRow ->
         [status |-> "SHIPPED", contents |-> ContentsOf(p, l)]
    [] l \in Fetched(p) /\ ~Shipped(p, l) /\ run[p].seen[l] # NoRow ->
         [manifest[l] EXCEPT !.status = "PACKED"]
    [] OTHER -> manifest[l]

NewManifest(p, l) ==
  CASE l \in Fetched(p) /\ Shipped(p, l) ->
         [status |-> "SHIPPED", contents |-> Left(p, l) \cup ContentsOf(p, l)]
    [] l \in Fetched(p) /\ ~Shipped(p, l) /\ run[p].seen[l] # NoRow ->
         [manifest[l] EXCEPT !.status = "PACKED"]
    [] OTHER -> manifest[l]

Commit(p) ==
  /\ run[p].pc = "write" /\ ~Violates(p)
  /\ manifest' = [l \in Loads |-> NewManifest(p, l)]
  /\ run' = [run EXCEPT ![p] = Idle]
  /\ UNCHANGED <<source, moves, faults>>

(* A conflict or a unique key: the run ends without a trace.               *)
Refused(p) ==
  /\ \/ run[p].pc = "fetch" /\ run[p].slice > Slices /\ Conflicting(p)
     \/ run[p].pc = "write" /\ Violates(p)
  /\ run' = [run EXCEPT ![p] = Idle]
  /\ UNCHANGED <<source, manifest, moves, faults>>

Raise(p) ==
  /\ run[p].pc # "idle" /\ faults < MaxFaults
  /\ run' = [run EXCEPT ![p] = Idle]
  /\ faults' = faults + 1
  /\ UNCHANGED <<source, manifest, moves>>

Work(p) == Begin(p) \/ FetchSlice(p) \/ ReadSaved(p) \/ Commit(p) \/ Refused(p)
Next == \/ \E l \in Loads : Move(l)
        \/ \E p \in Importers : Work(p) \/ Raise(p)

(* The sync job keeps starting the importer; every call has a timeout.     *)
Spec == Init /\ [][Next]_vars /\ \A p \in Importers : WF_vars(Work(p))

----------------------------------------------------------------------------
TypeOK == /\ source \in [Loads -> InEpicor]
          /\ manifest \in [Loads -> Saved \cup {NoRow}]
          /\ \A p \in Importers : /\ run[p].pc \in {"idle", "fetch", "write"}
                                  /\ run[p].records \subseteq Records
          /\ moves \in 0 .. MaxMoves /\ faults \in 0 .. MaxFaults

(* "Absent loads remain saved; returned shipped loads replace their saved  *)
(* contents; non-shipped observations preserve previous shipped contents": *)
(* a saved manifest never disappears, and its contents only ever become    *)
(* those that one run was given for the load as shipped, whatever moves    *)
(* in Epicor between two slices.                                           *)
ContentsObserved ==
  [][\A l \in Loads :
       /\ manifest[l] # NoRow => manifest'[l] # NoRow
       /\ manifest'[l].contents # manifest[l].contents =>
            \E p \in Importers : \E r \in Of(p, l) :
               r.status = "SHIPPED" /\ r.contents = manifest'[l].contents]_vars

(* Once nothing moves in Epicor any more, every shipped load in the window *)
(* is saved as it is there, also when a slower run had brought back older  *)
(* contents or a load had escaped between two slices.                      *)
HistoryCatchesUp ==
  <>[](\A l \in Loads : source[l].slot > 0 /\ source[l].status = "SHIPPED" =>
         manifest[l] = [status |-> "SHIPPED", contents |-> source[l].contents])
=============================================================================
