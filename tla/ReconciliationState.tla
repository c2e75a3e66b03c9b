--------------------------- MODULE ReconciliationState ---------------------------
(***************************************************************************)
(* The file with the availability last verified on each profile. It is     *)
(* replaced whole under an exclusive lock, so a read or a write is a step; *)
(* a file that cannot be parsed reads as an empty one.                     *)
(***************************************************************************)
EXTENDS FleetNames

VARIABLE record     \* profile -> [value, at] or None

RecordInit == record = [k \in Kvms |-> None]

\* The profiles whose record does not prove the desired state: missing, of the
\* other value, or verified no later than the boundary.
RequiringReconciliation(profiles, desired, after) ==
    {k \in profiles : record[k] = None \/ record[k].value # desired \/ record[k].at <= after}

\* The successes of a batch are stamped with the time of the write; what is of no
\* known profile goes.
RecordSuccesses(successes, desired, known, at) ==
    record' = [k \in Kvms |->
        IF k \in successes THEN [value |-> desired, at |-> at]
        ELSE IF k \in known THEN record[k] ELSE None]
================================================================================
