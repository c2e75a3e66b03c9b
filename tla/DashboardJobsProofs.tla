--------------------------- MODULE DashboardJobsProofs ---------------------------
(***************************************************************************)
(* The reservations of the dashboard's job manager, for any number of jobs *)
(* and keys.                                                               *)
(***************************************************************************)
EXTENDS DashboardJobs, TLAPS

\* A slot without a job holds no keys: what the next job there reserves is all it has.
VacantHoldsNothing == \A p \in Procs : job[p].stage = "none" => job[p].keys = {}

IInv == JobsTypeOK /\ KeysFollowThreads /\ VacantHoldsNothing

LEMMA InitEstablishes == JobsInit => IInv
  BY NamesAssumption DEF JobsInit, IInv, JobsTypeOK, KeysFollowThreads, VacantHoldsNothing,
     NoJob, Stages

\* A job of one key is no job of another's: the keys of two jobs are disjoint.
LEMMA OneHolder ==
    ASSUME KeysFollowThreads, NEW k \in Keys, NEW p \in Procs, NEW q \in Procs,
           k \in job[p].keys, k \in job[q].keys
    PROVE  p = q
  BY DEF KeysFollowThreads

\* Freeing what a job holds leaves the other jobs theirs.
LEMMA ReleasePreserves ==
    ASSUME IInv, NEW p \in Procs,
           job' = [job EXCEPT ![p] = NoJob], busy' = Released(p)
    PROVE  IInv'
  <1>1. JobsTypeOK'
    BY DEF IInv, JobsTypeOK, NoJob, Released, Stages
  <1>2. KeysFollowThreads'
    <2> SUFFICES ASSUME NEW k \in Keys, NEW q \in Procs
                 PROVE  busy'[k] = q <=> k \in job'[q].keys
      BY DEF KeysFollowThreads
    <2>1. busy[k] = q <=> k \in job[q].keys
      BY DEF IInv, KeysFollowThreads
    <2>2. busy[k] = p <=> k \in job[p].keys
      BY DEF IInv, KeysFollowThreads
    <2>3. busy'[k] = IF busy[k] = p THEN None ELSE busy[k]
      BY <2>2 DEF Released
    <2>4. CASE q = p
      <3>1. job'[q].keys = {}
        BY <2>4 DEF IInv, JobsTypeOK, NoJob
      <3>2. busy'[k] # q
        BY <2>3, <2>4, NamesAssumption
      <3> QED BY <3>1, <3>2
    <2>5. CASE q # p
      <3>1. job'[q] = job[q]
        BY <2>5 DEF IInv, JobsTypeOK
      <3>2. busy'[k] = q <=> busy[k] = q
        BY <2>3, <2>5, NamesAssumption
      <3> QED BY <2>1, <3>1, <3>2
    <2> QED BY <2>4, <2>5
  <1>3. VacantHoldsNothing'
    BY DEF IInv, JobsTypeOK, VacantHoldsNothing, NoJob
  <1> QED BY <1>1, <1>2, <1>3 DEF IInv

\* A job that moves on keeps its keys.
LEMMA MovingOnPreserves ==
    ASSUME IInv, JobsTypeOK', UNCHANGED busy,
           \A p \in Procs : job'[p].keys = job[p].keys /\ (job'[p].stage = "none" => job[p].stage = "none")
    PROVE  IInv'
  BY DEF IInv, KeysFollowThreads, VacantHoldsNothing

LEMMA StartPreserves ==
    ASSUME IInv, NEW p \in Procs, NEW keys \in SUBSET Keys, NEW cancellable \in BOOLEAN,
           StartJob(p, keys, cancellable)
    PROVE  IInv'
  <1> DEFINE new == [stage |-> "starting", status |-> "running", keys |-> keys,
                     cancellable |-> cancellable, cancel |-> FALSE]
  <1>0. job' = [job EXCEPT ![p] = new] /\ busy' = [k \in Keys |-> IF k \in keys THEN p ELSE busy[k]]
    BY DEF StartJob
  <1>a. new \in [stage : Stages, status : Outcomes \cup {"running", None},
                 keys : SUBSET Keys, cancellable : BOOLEAN, cancel : BOOLEAN]
    BY DEF Stages
  <1>b. job'[p] = new /\ \A q \in Procs \ {p} : job'[q] = job[q]
    BY <1>0 DEF IInv, JobsTypeOK
  <1>1. JobsTypeOK'
    BY <1>0, <1>a DEF IInv, JobsTypeOK
  <1>2. KeysFollowThreads'
    <2> SUFFICES ASSUME NEW k \in Keys, NEW q \in Procs
                 PROVE  busy'[k] = q <=> k \in job'[q].keys
      BY DEF KeysFollowThreads
    <2>1. busy[k] = q <=> k \in job[q].keys
      BY DEF IInv, KeysFollowThreads
    <2>2. job[p].keys = {}
      BY DEF IInv, VacantHoldsNothing, StartJob
    <2>3. k \in keys => busy[k] = None
      BY DEF StartJob
    <2>4. busy'[k] = IF k \in keys THEN p ELSE busy[k]
      BY <1>0
    <2>5. CASE q = p
      BY <2>1, <2>2, <2>4, <2>5, <1>b
    <2>6. CASE q # p
      BY <2>1, <2>3, <2>4, <2>6, <1>b, NamesAssumption
    <2> QED BY <2>5, <2>6
  <1>3. VacantHoldsNothing'
    BY <1>b DEF IInv, VacantHoldsNothing
  <1> QED BY <1>1, <1>2, <1>3 DEF IInv

LEMMA StepPreserves == IInv /\ [JobNext]_jobVars => IInv'
  <1> SUFFICES ASSUME IInv, [JobNext]_jobVars PROVE IInv'
    OBVIOUS
  <1>1. CASE DashboardStops
    BY <1>1, NamesAssumption DEF DashboardStops, IInv, JobsTypeOK, KeysFollowThreads,
       VacantHoldsNothing, NoJob, Stages
  <1>2. ASSUME NEW p \in Procs, NEW keys \in SUBSET Keys, NEW cancellable \in BOOLEAN,
               StartJob(p, keys, cancellable)
        PROVE  IInv'
    BY <1>2, StartPreserves
  <1>3. ASSUME NEW p \in Procs, Launch(p) PROVE IInv'
    <2>1. JobsTypeOK'
      BY <1>3 DEF IInv, JobsTypeOK, Launch, Stages
    <2>2. \A q \in Procs : job'[q].keys = job[q].keys /\ (job'[q].stage = "none" => job[q].stage = "none")
      BY <1>3 DEF IInv, JobsTypeOK, Launch
    <2> QED BY <1>3, <2>1, <2>2, MovingOnPreserves DEF Launch
  <1>4. ASSUME NEW p \in Procs, ThreadRefused(p) \/ Release(p) PROVE IInv'
    BY <1>4, ReleasePreserves DEF ThreadRefused, Release
  <1>5. ASSUME NEW p \in Procs, Cancel(p) PROVE IInv'
    <2>1. JobsTypeOK'
      BY <1>5 DEF IInv, JobsTypeOK, Cancel
    <2>2. \A q \in Procs : job'[q].keys = job[q].keys /\ (job'[q].stage = "none" => job[q].stage = "none")
      BY <1>5 DEF IInv, JobsTypeOK, Cancel
    <2> QED BY <1>5, <2>1, <2>2, MovingOnPreserves DEF Cancel
  <1>6. ASSUME NEW p \in Procs, NEW status \in Outcomes, Settle(p, status) PROVE IInv'
    <2>1. JobsTypeOK'
      BY <1>6 DEF IInv, JobsTypeOK, Settle, Stages
    <2>2. \A q \in Procs : job'[q].keys = job[q].keys /\ (job'[q].stage = "none" => job[q].stage = "none")
      BY <1>6 DEF IInv, JobsTypeOK, Settle
    <2> QED BY <1>6, <2>1, <2>2, MovingOnPreserves DEF Settle
  <1>7. CASE UNCHANGED jobVars
    BY <1>7 DEF IInv, JobsTypeOK, KeysFollowThreads, VacantHoldsNothing, jobVars
  <1> QED BY <1>1, <1>2, <1>3, <1>4, <1>5, <1>6, <1>7 DEF JobNext

\* The inductive invariant of the job manager holds in every reachable state.
THEOREM JobsInvariant == JobSpec => []IInv
  BY InitEstablishes, StepPreserves, PTL DEF JobSpec

\* In every reachable state of the job manager, and whatever the jobs and the cancels, a
\* key is reserved by exactly the job whose thread holds it (dashboard/jobs.py).
THEOREM KeysFollowThreadsHolds == JobSpec => []KeysFollowThreads
  <1>1. IInv => KeysFollowThreads
    BY DEF IInv
  <1> QED BY JobsInvariant, <1>1, PTL
================================================================================
