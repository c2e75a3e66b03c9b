----------------------------- MODULE MCWorkstation -----------------------------
(* Small instances of Workstation. *)
EXTENDS Workstation, TLC

CONSTANTS w1, w2

MCSymmetry == Permutations(Flows)

\* Every decision of the policies is worked out before the run.
ASSUME PermittedType == Permitted \in [Policies -> [Scenes -> SUBSET Actions]]
================================================================================
