------------------------------ MODULE FleetControl ------------------------------
(***************************************************************************)
(* The controlling Mac: launchd agents that fire by the clock, commands in *)
(* a terminal and dashboard jobs that work on the same KVMs, the record    *)
(* they share, and the profiles that are edited meanwhile.                 *)
(***************************************************************************)
EXTENDS ScheduleRuns

CONSTANTS
    CommandModes,   \* what is run from a terminal
    JobModes,       \* what is asked of the dashboard
    Alone,          \* bound: the profiles that are asked for on their own
    Budgets         \* bound: how many commands, edits of profiles and failures go together

ASSUME ModesAssumption == CommandModes \cup JobModes \subseteq Modes

VARIABLE left       \* what is left of the budget

vars == <<now, slack, run, hands, settled, record, file, passwords, seeds, edit, overlapped,
          job, busy, agent, left>>

Init ==
    /\ now = Min(Moments)
    /\ RunsInit /\ RecordInit /\ ProfilesInit /\ JobsInit /\ AgentsInit
    /\ left \in Budgets

Spend(what) == left[what] > 0 /\ left' = [left EXCEPT ![what] = @ - 1]

keepHistory == UNCHANGED <<now, slack, hands, settled>>
keepJobs == UNCHANGED jobVars
keepFiles == UNCHANGED <<record, file, passwords, seeds, edit, overlapped, agent>>

Vacant(p) == RunAt(p, "idle") /\ job[p].stage = "none"

\* The state a command is given.
Wants(mode) == IF mode \in {"set", "forced"} THEN Availabilities ELSE {None}

\* A command in a terminal: a schedule run takes every enabled profile, a direct one
\* those or a single one.
Command(p) ==
    /\ Vacant(p) /\ Spend("commands")
    /\ \E mode \in CommandModes : \E want \in Wants(mode) :
          \E all \in {Enabled} \cup IF mode \in Scheduled THEN {} ELSE {{k} : k \in Known \cap Alone} :
             /\ all # {}
             /\ run' = [run EXCEPT ![p] = Beginning(mode, None, want, all, {})]
    /\ keepHistory /\ keepJobs /\ keepFiles

\* launchd starts an agent it has loaded, at its time or late, never twice at once. The
\* agents of an earlier version forced a state.
Fires(p, a) ==
    /\ Vacant(p) /\ Spend("commands")
    /\ agent[a].loaded # None /\ Enabled # {}
    /\ \A q \in Procs : run[q].label # a
    /\ LET mode == IF agent[a].loaded = "new" THEN "due" ELSE "forced" IN
          \E want \in Wants(mode) :
             run' = [run EXCEPT ![p] = Beginning(mode, a, want, Enabled, {})]
    /\ keepHistory /\ keepJobs /\ keepFiles

\* The process ends.
Exit(p) ==
    /\ RunAt(p, "over") /\ job[p].stage = "none"
    /\ run' = [run EXCEPT ![p] = Idle]
    /\ ForgetHands({p})
    /\ UNCHANGED <<now, slack, settled, left>> /\ keepJobs /\ keepFiles

\* A request of the dashboard: the profiles that cannot be used now are refused with a
\* result, a single one with an error; the others are the job's targets and its keys.
Request(p) ==
    /\ Vacant(p) /\ Spend("commands")
    /\ \E mode \in JobModes : \E want \in Wants(mode) :
       \E asked \in {Enabled} \cup IF mode \in {"set", "read"} THEN {{k} : k \in Enabled \cap Alone} ELSE {} :
          LET all == {k \in asked : Usable(k)}
              keys == IF mode = "meeting" THEN {Recorder}
                      ELSE IF mode \in {"install", "uninstall"} THEN {Schedule} ELSE all
          IN /\ asked # {} /\ (all # {} \/ asked = Enabled)
             /\ StartJob(p, keys, mode \in {"now", "forced"})
             /\ run' = [run EXCEPT ![p] = [Idle EXCEPT !.pc = "queued", !.mode = mode, !.desired = want,
                           !.all = IF keys = all THEN all ELSE {},
                           !.rejected = IF keys = all THEN asked \ all ELSE {}]]
    /\ keepHistory /\ keepFiles

Queued(p) == RunAt(p, "queued")

JobBegins(p) ==
    /\ Queued(p) /\ Launch(p)
    /\ LET r == run[p] IN
          run' = [run EXCEPT ![p] = Beginning(r.mode, None, r.desired, r.all, r.rejected)]
    /\ keepHistory /\ keepFiles /\ UNCHANGED left

JobCannotBegin(p) ==
    /\ Queued(p) /\ ThreadRefused(p) /\ Spend("faults")
    /\ run' = [run EXCEPT ![p] = Idle]
    /\ keepHistory /\ keepFiles

CancelRequest(p) ==
    /\ Cancel(p) /\ ~job[p].cancel
    /\ UNCHANGED <<run, left>> /\ keepHistory /\ keepFiles

JobSettles(p) ==
    /\ RunAt(p, "over") /\ Settle(p, Status(run[p], job[p].cancel))
    /\ UNCHANGED <<run, left>> /\ keepHistory /\ keepFiles

JobReturns(p) ==
    /\ Release(p)
    /\ run' = [run EXCEPT ![p] = Idle]
    /\ ForgetHands({p})
    /\ UNCHANGED <<now, slack, settled, left>> /\ keepFiles

\* A command's process is killed, or the dashboard with all its jobs.
Ends(dead) ==
    /\ dead # {}
    /\ run' = [p \in Procs |-> IF p \in dead THEN Idle ELSE run[p]]
    /\ ForgetHands(dead)

Dies ==
    /\ Spend("faults")
    /\ \/ Ends({q \in Procs : job[q].stage # "none"}) /\ DashboardStops
       \/ \E p \in Procs : ~RunAt(p, "idle") /\ job[p].stage = "none" /\ Ends({p}) /\ keepJobs
    /\ UNCHANGED <<now, slack, settled>> /\ keepFiles

\* A step of the command itself.
Step(p) ==
    \/ /\ FilterDue(p) \/ ExecuteSucceeds(p) \/ ExecuteRefused(p) \/ Wake(p) \/ MeetingWork(p, TRUE) \/ MeetingWork(p, FALSE)
       /\ keepFiles
    \/ RecordRound(p) /\ UNCHANGED <<profileVars, agent>>
    \/ InstallStep(p) /\ UNCHANGED <<record, profileVars>>
    \/ UninstallStep(p) /\ UNCHANGED <<record, profileVars>>

StepFails(p) ==
    \/ (ExecuteFails(p) \/ RecordFails(p)) /\ keepFiles
    \/ (InstallFails(p) \/ UninstallFails(p)) /\ UNCHANGED <<record, profileVars>>

Edits ==
    /\ Spend("edits")
    /\ \E e \in Editors, k \in Kvms :
          \/ AddLoad(e, k) \/ RemoveHosts(e, k) \/ Enroll(e, k)
          \/ \E enabled \in BOOLEAN : SetEnabledLoad(e, k, enabled)

Editing ==
    \E e \in Editors :
        \/ EditStep(e) /\ UNCHANGED left
        \/ EditFault(e) /\ Spend("faults")

Tick ==
    /\ \E m \in Moments : m > now
    /\ now' = Min({m \in Moments : m > now})
    /\ UNCHANGED <<slack, hands, settled, run, left>> /\ keepJobs /\ keepFiles

Next ==
    \/ \E p \in Procs :
          \/ Command(p) \/ Exit(p)
          \/ \E a \in Agents : Fires(p, a)
          \/ Request(p) \/ JobBegins(p) \/ JobCannotBegin(p) \/ CancelRequest(p)
          \/ JobSettles(p) \/ JobReturns(p)
          \/ Step(p) /\ keepJobs /\ UNCHANGED left
          \/ StepFails(p) /\ Spend("faults") /\ keepJobs
    \/ Dies
    \/ (Edits \/ Editing) /\ UNCHANGED <<run, record, agent>> /\ keepHistory /\ keepJobs
    \/ Tick

Spec == Init /\ [][Next]_vars

--------------------------------------------------------------------------------
\* What the reconciler would do with a profile at this moment.
Due(k) == k \in RequiringReconciliation({k}, DesiredAvailability(now), LastBoundary)

--------------------------------------------------------------------------------
\* The half hours at which the three searches agree.
Consistent ==
    {t \in Min(Moments)..Max(Moments) + Week :
        LET from == LastTransition(t)
            to == NextTransition(t) IN
        /\ from.at <= t /\ t < to.at
        /\ DesiredAvailability(t) = from.state
        /\ to.state = DesiredAvailability(to.at) /\ to.state # from.state
        /\ DesiredAvailability(to.at - 1) = from.state}

\* Through the week ahead, the desired state is that of the last boundary and stays
\* until the next one, which changes it (schedule/reconcile.py, three searches).
ScheduleIsItsBoundaries == now..now + Week \subseteq Consistent

\* A scheduled run goes back only to the profiles it failed on: one that it brought to
\* its state is not operated again while that state is the wanted one, through failures,
\* waits and the record of others (README.md:664-666, schedule/cli.py:289-318).
RetriesLeaveSuccessesAlone ==
    \A p \in Procs : RunAt(p, "working") /\ run[p].mode \in Scheduled =>
        run[p].todo \cap run[p].won = {}

\* A profile the record calls reconciled shows the scheduled state wherever the last session
\* that may change its availability is the one the record is of: failures, retries,
\* refused writes and a boundary that passes before the record is written never make a
\* state that expired count as reconciled (schedule/cli.py:313-315, schedule/state.py).
ReconciledIsApplied ==
    \A k \in settled : ~Due(k) => slack[k] = DesiredAvailability(now)

\* A job that reports success has done what was asked on every environment: none was
\* refused beforehand, and each shows the run's state or has seen another session
\* since (dashboard/jobs.py:151-161, operations.py:470-483).
SucceededIsApplied ==
    \A p \in Procs : job[p].status = "succeeded" /\ run[p].mode \in {"set", "now", "forced"} =>
        /\ run[p].won = run[p].all /\ run[p].rejected = {}
        /\ \A k \in Kvms : hands[k] = p => slack[k] = run[p].desired
================================================================================
