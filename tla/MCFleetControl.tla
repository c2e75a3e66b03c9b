---------------------------- MODULE MCFleetControl ----------------------------
(* Small instances of FleetControl: one environment and one managed profile *)
(* of the same PiKVM host, a clock read before and past the Monday boundary *)
(* of the third week.                                                       *)
EXTENDS FleetControl, TLC

CONSTANTS p1, p2, e1, e2, host

MCHostOf == [k \in Kvms |-> host]
MCMonday == 2 * Week
\* Monday 17:30 and 20:30.
MCEvening == {MCMonday + 35, MCMonday + 41}
MCBudget(commands, edits, faults) == [commands |-> commands, edits |-> edits, faults |-> faults]
MCRunBudget == {MCBudget(2, 0, 1)}
MCBudgets == MCRunBudget \cup {MCBudget(1, 1, 1), MCBudget(0, 3, 1)}
MCSymmetry == Permutations(Procs) \cup Permutations(Editors)
================================================================================
