------------------------------ MODULE DashboardJobs ------------------------------
(***************************************************************************)
(* The dashboard's job manager: each job runs one workflow on a thread and *)
(* reserves the KVMs it drives. The thread publishes the job's status in   *)
(* one section of the lock and frees its keys in a second one. A job is    *)
(* forgotten here when its thread has returned; the manager keeps the last *)
(* fifty for display.                                                      *)
(***************************************************************************)
EXTENDS FleetNames

VARIABLES
    job,        \* slot -> where its thread is, its status, its keys, its cancel event
    busy        \* key -> the job that reserved it, or None

jobVars == <<job, busy>>

Stages == {"none", "starting", "working", "settled"}
Outcomes == {"succeeded", "partial", "failed", "cancelled"}

NoJob == [stage |-> "none", status |-> None, keys |-> {}, cancellable |-> FALSE, cancel |-> FALSE]

JobsInit ==
    /\ job = [p \in Procs |-> NoJob]
    /\ busy = [k \in Keys |-> None]

Running(p) == job[p].status = "running"

\* Only the keys that are still this job's.
Released(p) == [k \in Keys |-> IF k \in job[p].keys /\ busy[k] = p THEN None ELSE busy[k]]

\* One reserved key in use refuses the whole job.
StartJob(p, keys, cancellable) ==
    /\ job[p].stage = "none"
    /\ \A k \in keys : busy[k] = None
    /\ job' = [job EXCEPT ![p] = [stage |-> "starting", status |-> "running", keys |-> keys,
                                  cancellable |-> cancellable, cancel |-> FALSE]]
    /\ busy' = [k \in Keys |-> IF k \in keys THEN p ELSE busy[k]]

\* The thread runs.
Launch(p) ==
    /\ job[p].stage = "starting"
    /\ job' = [job EXCEPT ![p].stage = "working"]
    /\ UNCHANGED busy

\* No thread could be started: the reservation is taken back.
ThreadRefused(p) ==
    /\ job[p].stage = "starting"
    /\ job' = [job EXCEPT ![p] = NoJob]
    /\ busy' = Released(p)

\* Slip: a cancel frees the keys of the job it stops.
CancelReleases(p) ==
    /\ Running(p) /\ job[p].cancellable
    /\ job' = [job EXCEPT ![p].cancel = TRUE]
    /\ busy' = Released(p)

\* A cancel is a request; only a job with an event takes it.
Cancel(p) ==
    /\ Running(p) /\ job[p].cancellable
    /\ job' = [job EXCEPT ![p].cancel = TRUE]
    /\ UNCHANGED busy

\* The workflow returned or raised: its status is published.
Settle(p, status) ==
    /\ job[p].stage = "working"
    /\ job' = [job EXCEPT ![p].stage = "settled", ![p].status = status]
    /\ UNCHANGED busy

\* The thread's last section.
Release(p) ==
    /\ job[p].stage = "settled"
    /\ job' = [job EXCEPT ![p] = NoJob]
    /\ busy' = Released(p)

\* The dashboard's process ends, and its jobs with it.
DashboardStops ==
    /\ job' = [p \in Procs |-> NoJob]
    /\ busy' = [k \in Keys |-> None]

JobNext ==
    \/ DashboardStops
    \/ \E p \in Procs :
        \/ \E keys \in SUBSET Keys, cancellable \in BOOLEAN : StartJob(p, keys, cancellable)
        \/ Launch(p) \/ ThreadRefused(p) \/ Cancel(p) \/ Release(p)
        \/ \E status \in Outcomes : Settle(p, status)

JobSpec == JobsInit /\ [][JobNext]_jobVars

--------------------------------------------------------------------------------
\* Every job and every reservation has its form.
JobsTypeOK ==
    /\ job \in [Procs -> [stage : Stages, status : Outcomes \cup {"running", None},
                          keys : SUBSET Keys, cancellable : BOOLEAN, cancel : BOOLEAN]]
    /\ busy \in [Keys -> Procs \cup {None}]

\* A key is reserved by the one job that asked for it and whose thread has not
\* returned, through cancels, failures and a thread that could not start
\* (dashboard/jobs.py:115-131, the finally of _run, the except of start).
KeysFollowThreads ==
    \A k \in Keys, p \in Procs : busy[k] = p <=> k \in job[p].keys
================================================================================
