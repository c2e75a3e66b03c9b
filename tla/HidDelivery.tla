----------------------------- MODULE HidDelivery -----------------------------
(***************************************************************************)
(* What a caller of the action executor may rely on: the requests of an    *)
(* action reach the remote computer in order and at most once; "sent" means *)
(* all of them did, and only an uncertain action may still be under way.   *)
(***************************************************************************)
EXTENDS Naturals, Sequences

CONSTANT Shapes     \* how many requests an action takes

VARIABLES
    parts,          \* the requests of each action, the one in progress last
    reports,        \* what was reported of each finished action
    applied         \* the requests the remote computer has acted on, in order

deliveryVars == <<parts, reports, applied>>

Delivered(a, k) == \E i \in DOMAIN applied : applied[i] = [action |-> a, part |-> k]

Init == parts = <<>> /\ reports = <<>> /\ applied = <<>>

Begin(n) ==
    /\ Len(parts) = Len(reports)
    /\ parts' = Append(parts, n)
    /\ UNCHANGED <<reports, applied>>

Deliver(a, k) ==
    /\ a \in DOMAIN reports => reports[a] = "uncertain"
    /\ ~Delivered(a, k)
    /\ \A j \in 1..k - 1 : Delivered(a, j)
    /\ applied' = Append(applied, [action |-> a, part |-> k])
    /\ UNCHANGED <<parts, reports>>

Report(status) ==
    /\ Len(parts) = Len(reports) + 1
    /\ status = "sent" => \A k \in 1..parts[Len(parts)] : Delivered(Len(parts), k)
    /\ reports' = Append(reports, status)
    /\ UNCHANGED <<parts, applied>>

\* Arguments that cannot be sent are refused before anything is.
Refuse(n) ==
    /\ Len(parts) = Len(reports)
    /\ parts' = Append(parts, n)
    /\ reports' = Append(reports, "failed")
    /\ UNCHANGED applied

Next ==
    \/ \E n \in Shapes : Begin(n) \/ Refuse(n)
    \/ \E a \in DOMAIN parts : \E k \in 1..parts[a] : Deliver(a, k)
    \/ \E status \in {"sent", "uncertain", "failed"} : Report(status)

Spec == Init /\ [][Next]_deliveryVars
=============================================================================
