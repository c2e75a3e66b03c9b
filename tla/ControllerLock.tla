----------------------------- MODULE ControllerLock -----------------------------
(***************************************************************************)
(* The lease of one PiKVM: an exclusive flock on the endpoint's lock file, *)
(* taken by polling up to a deadline, re-entrant within the instance that  *)
(* holds it, and dropped by the operating system when its process dies.    *)
(* The dashboard's probe takes the same flock for an instant.              *)
(***************************************************************************)
EXTENDS Naturals

CONSTANTS
    Flows,      \* workflow processes
    Prober,     \* the dashboard's probe of the lock
    None

ASSUME LockAssumption == None \notin Flows /\ Prober \notin Flows /\ Prober # None

VARIABLES
    lease,      \* who holds the flock: None, a workflow or the probe
    depth       \* how often each workflow's instance is entered

lockVars == <<lease, depth>>

LockInit ==
    /\ lease = None
    /\ depth = [w \in Flows |-> 0]

Held(w) == depth[w] > 0

\* The flock is free, or the instance holds it already and goes one deeper.
Enter(w) ==
    /\ Held(w) \/ lease = None
    /\ lease' = w
    /\ depth' = [depth EXCEPT ![w] = @ + 1]

\* A poll that fails at or after the deadline gives up; a free lock is taken
\* however late the poll comes.
GiveUp(w) ==
    /\ ~Held(w) /\ lease # None
    /\ UNCHANGED lockVars

\* Slip: every exit unlocks, whatever the depth.
ExitUnlocks(w) ==
    /\ Held(w)
    /\ depth' = [depth EXCEPT ![w] = @ - 1]
    /\ lease' = None

\* Only the outermost exit unlocks.
Exit(w) ==
    /\ Held(w)
    /\ depth' = [depth EXCEPT ![w] = @ - 1]
    /\ lease' = IF depth[w] > 1 THEN lease ELSE None

\* The process dies and the kernel closes its descriptor.
Drop(w) ==
    /\ depth' = [depth EXCEPT ![w] = 0]
    /\ lease' = IF lease = w THEN None ELSE lease

ProbeTakes == lease = None /\ lease' = Prober /\ UNCHANGED depth
ProbeLeaves == lease = Prober /\ lease' = None /\ UNCHANGED depth
================================================================================
