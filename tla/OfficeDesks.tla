---------------------------- MODULE OfficeDesks ----------------------------
(***************************************************************************)
(* Three small parts that share no state: the history of shipped loads,    *)
(* the items of a sync job, and failed logins.  Every behaviour studies    *)
(* one of them and leaves the others as they are.                          *)
(***************************************************************************)
EXTENDS TransportHistory, SyncJobItems, LoginLockout

VARIABLE desk

deskVars == <<desk, vars, itemVars, loginVars>>

DeskInit == /\ desk \in {"transport", "items", "logins"}
            /\ Init /\ ItemsInit /\ LoginsInit
            /\ desk # "transport" => \A l \in Loads : source[l].status = "PACKED"

DeskNext ==
  /\ UNCHANGED desk
  /\ \/ desk = "transport" /\ Next /\ UNCHANGED <<itemVars, loginVars>>
     \/ desk = "items" /\ ItemsNext /\ UNCHANGED <<vars, loginVars>>
     \/ desk = "logins" /\ LoginsNext /\ UNCHANGED <<vars, itemVars>>

Importing(p) == desk = "transport" /\ Work(p) /\ UNCHANGED <<desk, itemVars, loginVars>>

\* The fairness of TransportHistory; nobody is obliged to log in or to edit.
DeskSpec == DeskInit /\ [][DeskNext]_deskVars
            /\ \A p \in Importers : WF_deskVars(Importing(p))
=============================================================================
