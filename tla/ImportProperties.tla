-------------------------- MODULE ImportProperties --------------------------
(***************************************************************************)
(* What the importer must do, for runs that come one at a time and for     *)
(* runs that overlap.                                                      *)
(***************************************************************************)
EXTENDS BaqImport

(***************************************************************************)
(* Types; a run in progress has a batch id.                                *)
(***************************************************************************)
TypeOK == /\ table \subseteq Rows
          /\ batch \in [Ids -> Batch]
          /\ imp \in [Importers -> Run]
          /\ faults \in Nat
          /\ \A p \in Importers : imp[p].pc # "idle" => imp[p].id \in Issued

(***************************************************************************)
(* The rows of the table all come from one import: "atomically sync target *)
(* data" (EpicorBaqImporter.run).                                          *)
(***************************************************************************)
OneSnapshot == \A r, s \in table : r[2] = s[2]

(***************************************************************************)
(* The table is what the newest SUCCESS batch fetched, the batch the admin *)
(* page shows as the last sync; a crash, a failure or the pruning of the   *)
(* audit trail in between does not change that.  Of two runs that overlap  *)
(* the one that started first may end last; even so no row is left by a    *)
(* batch that is recorded as FAILED, or is not over.                       *)
(***************************************************************************)
LastSuccess == IF Success = {} THEN 0
               ELSE CHOOSE b \in Success : \A c \in Success : c <= b

TableIsLastSuccess ==
  /\ alone => table = IF Success = {} THEN {}
                      ELSE batch[LastSuccess].rows \X {LastSuccess}
  /\ \A r \in table : batch[r[2]].state \notin {"failed", "pending"}

(***************************************************************************)
(* Data that is there is never replaced by nothing: "Guard against a       *)
(* silent empty response wiping the table" (EpicorBaqImporter.run).  The    *)
(* guard counts before the transaction, so for runs one at a time only.    *)
(***************************************************************************)
NotWiped == [][alone /\ table # {} => table' # {}]_vars

(***************************************************************************)
(* Runs that come one at a time implement the snapshot.                    *)
(***************************************************************************)
Shown == INSTANCE TableSnapshot
           WITH by   <- IF alone THEN LastSuccess ELSE 0,
                rows <- IF alone THEN {r[1] : r \in table} ELSE {}
ShownSpec == Shown!Spec

(***************************************************************************)
(* Every run ends: overlapping runs never wait for each other for ever.    *)
(***************************************************************************)
EveryRunEnds == \A p \in Importers : imp[p].pc # "idle" ~> imp[p].pc = "idle"
=============================================================================
