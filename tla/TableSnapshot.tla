--------------------------- MODULE TableSnapshot ---------------------------
(***************************************************************************)
(* What an importer promises the readers of its table: at any time they    *)
(* see the records of one import, all of them; the table moves from one    *)
(* import to a later one in a single step; and data that is there is never *)
(* replaced by nothing.                                                    *)
(***************************************************************************)
EXTENDS Naturals

CONSTANT Keys

VARIABLES by,    \* the import the table shows, 0 before the first
          rows   \* the keys of its records

Init == by = 0 /\ rows = {}

Replace == /\ by' \in Nat /\ by' > by
           /\ rows' \in SUBSET Keys
           /\ rows' = {} => rows = {}

Spec == Init /\ [][Replace]_<<by, rows>>
=============================================================================
