--------------------------- MODULE ActVerifyLoop ---------------------------
(***************************************************************************)
(* What an agent session promises, without saying how: it acts on the      *)
(* remote computer a bounded number of times, never again before the       *)
(* outcome of the last action has been judged, and never after its end.    *)
(***************************************************************************)
EXTENDS Naturals

CONSTANT MaxSteps

VARIABLES
    stage,      \* "free" to act, "acted" and not judged yet, or "over"
    acts        \* HID actions so far

loopVars == <<stage, acts>>

Init == stage = "free" /\ acts = 0

\* A local wait is an action too, but none that reaches the computer.
Act ==
    /\ stage = "free"
    /\ stage' = "acted"
    /\ acts' \in {acts, acts + 1}
    /\ acts' <= MaxSteps

Judge == stage = "acted" /\ stage' = "free" /\ acts' = acts

Stop == stage # "over" /\ stage' = "over" /\ acts' = acts

Next == Act \/ Judge \/ Stop

Spec == Init /\ [][Next]_loopVars
=============================================================================
