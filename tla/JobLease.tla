------------------------------ MODULE JobLease ------------------------------
(***************************************************************************)
(* What the scheduler promises about one job at a time: a job's lease is   *)
(* granted only when it is free, ends when its holder finishes, is         *)
(* orphaned when its holder disappears without finishing, and only an      *)
(* orphaned lease is taken back.  A held lease is never granted again and  *)
(* never taken back.                                                       *)
(***************************************************************************)
CONSTANT Jobs

VARIABLE lease

States == {"gone", "free", "held", "orphan"}

TypeOK == lease \in [Jobs -> States]

Init == lease = [j \in Jobs |-> "gone"]

Create(j) == /\ lease[j] = "gone"
             /\ lease' = [lease EXCEPT ![j] = "free"]

Grant(j) == /\ lease[j] = "free"
            /\ lease' = [lease EXCEPT ![j] = "held"]

Release(j) == /\ lease[j] = "held"
              /\ lease' = [lease EXCEPT ![j] = "free"]

\* A worker's death may orphan several leases at once.
Abandon(S) == /\ \A j \in S : lease[j] = "held"
              /\ lease' = [j \in Jobs |-> IF j \in S THEN "orphan" ELSE lease[j]]

\* A watchdog's sweep may free several orphans at once.
Reclaim(S) == /\ \A j \in S : lease[j] = "orphan"
              /\ lease' = [j \in Jobs |-> IF j \in S THEN "free" ELSE lease[j]]

Delete(j) == /\ lease[j] # "gone"
             /\ lease' = [lease EXCEPT ![j] = "gone"]

Next == \/ \E j \in Jobs : Create(j) \/ Grant(j) \/ Release(j) \/ Delete(j)
        \/ \E S \in SUBSET Jobs : Abandon(S) \/ Reclaim(S)

Spec == Init /\ [][Next]_lease
=============================================================================
