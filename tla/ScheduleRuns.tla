------------------------------ MODULE ScheduleRuns ------------------------------
(***************************************************************************)
(* The commands that drive several KVMs: scheduled and forced runs with    *)
(* their retries, direct availability commands and reads, installation of  *)
(* the schedule, meeting requests. A command runs in a process of its own  *)
(* or as the work of a dashboard job.                                      *)
(***************************************************************************)
EXTENDS ScheduleClock, ReconciliationState, KvmProfiles, DashboardJobs, LaunchAgents, FiniteSetsExt

CONSTANTS
    Retries,    \* retry rounds of a run: two from the command line, one from the dashboard
    Moments     \* bound: the readings of the clock, in half hours

VARIABLES
    now,        \* the clock
    slack,      \* the availability Slack shows on each KVM
    run,        \* the commands
    hands,      \* history: whose session was last on each KVM
    settled     \* history: the KVMs whose record is of the last session on them

Scheduled == {"due", "now", "forced"}
Modes == Scheduled \cup {"set", "read", "install", "uninstall", "meeting"}

ASSUME RunsAssumption == Retries \in Nat /\ None \notin Modes \cup Outcomes

\* The clock readings have a first and a last one.
ASSUME MomentsAssumption ==
    Moments \subseteq Nat /\ \E last \in Moments : \A m \in Moments : m <= last

Idle == [pc |-> "idle", mode |-> None, label |-> None, desired |-> None,
         all |-> {}, rejected |-> {}, known |-> {}, round |-> {}, todo |-> {},
         won |-> {}, lost |-> {}, fresh |-> {}, attempt |-> 0, raised |-> FALSE]

RunsInit ==
    /\ slack = [k \in Kvms |-> "away"]
    /\ run = [p \in Procs |-> Idle]
    /\ hands = [k \in Kvms |-> None]
    /\ settled = {}

RunAt(p, pc) == run[p].pc = pc
BoundaryAt == [m \in Moments |-> LastTransition(m).at]
LastBoundary == BoundaryAt[now]
First(S) == Min(S)

\* What a command that begins now does: a scheduled one reads the clock for the state,
\* and one that runs only if due will ask next which profiles are.
Beginning(mode, label, want, all, rejected) ==
    LET desired == IF mode \in {"due", "now"} THEN DesiredAvailability(now) ELSE want
        targets ==
            IF mode \in {"install", "uninstall"} THEN Agents
            ELSE IF mode = "meeting" THEN {} ELSE all
    IN [Idle EXCEPT !.pc = IF mode = "due" THEN "filter" ELSE IF targets # {} THEN "working"
                           ELSE IF mode = "meeting" THEN "meeting" ELSE "over",
                    !.mode = mode, !.label = label, !.desired = desired, !.all = all,
                    !.rejected = rejected, !.round = targets,
                    !.todo = IF mode = "due" THEN {} ELSE targets,
                    !.known = IF mode \in Scheduled THEN Enabled \cup all ELSE {}]

\* A round only of the profiles that are due by the boundary, for which the clock is read
\* once more; if none is, the command is over.
FilterDue(p) ==
    /\ RunAt(p, "filter")
    /\ LET due == RequiringReconciliation(run[p].round, run[p].desired, LastBoundary) IN
          run' = [run EXCEPT ![p].round = due, ![p].todo = due,
                             ![p].pc = IF due = {} THEN "over" ELSE "working"]
    /\ UNCHANGED <<now, slack, hands, settled>>

\* The result of the first target left.
Ticked(r, good) ==
    LET k == First(r.todo) IN
    [r EXCEPT !.todo = @ \ {k},
              !.won = IF good THEN @ \cup {k} ELSE @ \ {k},
              !.lost = IF good THEN @ \ {k} ELSE @ \cup {k},
              !.fresh = IF good THEN @ \cup {k} ELSE @]

\* A batch that is through is recorded by a scheduled run; another command is over.
Onward(r) ==
    IF r.todo # {} THEN r
    ELSE [r EXCEPT !.pc = IF r.mode \in Scheduled THEN "record" ELSE "over"]

Workflows == Scheduled \cup {"set", "read"}
OnKvms(p) == RunAt(p, "working") /\ run[p].mode \in Workflows

\* One KVM's workflow succeeds: Slack shows the wanted state.
ExecuteSucceeds(p) ==
    /\ OnKvms(p)
    /\ LET k == First(run[p].todo) IN
          /\ Usable(k)
          /\ run' = [run EXCEPT ![p] = Onward(Ticked(@, TRUE))]
          /\ IF run[p].mode = "read" THEN UNCHANGED <<slack, hands, settled>>
             ELSE /\ slack' = [slack EXCEPT ![k] = run[p].desired]
                  /\ hands' = [hands EXCEPT ![k] = p]
                  /\ settled' = settled \ {k}
    /\ UNCHANGED now

\* The profile cannot be used, or another workflow has the KVM's lease.
ExecuteRefused(p) ==
    /\ OnKvms(p)
    /\ LET k == First(run[p].todo) IN ~Usable(k) \/ \E q \in Procs \ {p} : OnKvms(q) /\ k = First(run[q].todo)
    /\ run' = [run EXCEPT ![p] = Onward(Ticked(@, FALSE))]
    /\ UNCHANGED <<now, slack, hands, settled>>

\* The workflow fails, before or after the toggle took effect.
ExecuteFails(p) ==
    /\ OnKvms(p)
    /\ LET k == First(run[p].todo) IN
          /\ Usable(k)
          /\ run' = [run EXCEPT ![p] = Onward(Ticked(@, FALSE))]
          /\ IF run[p].mode = "read" THEN UNCHANGED <<slack, hands, settled>>
             ELSE /\ slack' \in {slack, [slack EXCEPT ![k] = run[p].desired]}
                  /\ hands' = [hands EXCEPT ![k] = p]
                  /\ settled' = settled \ {k}
    /\ UNCHANGED now

\* Slip: a retry takes the whole round.
WholeRoundAgain(r) ==
    LET ends == r.round \cap r.lost = {} \/ r.attempt = Retries IN
    [r EXCEPT !.fresh = {}, !.pc = IF ends THEN "over" ELSE "wait",
              !.attempt = IF ends THEN @ ELSE @ + 1]

\* What is left after a recorded round: nothing, a retry, or no retry left.
AfterRound(r) ==
    LET left == r.round \cap r.lost
        ends == left = {} \/ r.attempt = Retries IN
    [r EXCEPT !.round = left, !.fresh = {}, !.pc = IF ends THEN "over" ELSE "wait",
              !.attempt = IF ends THEN @ ELSE @ + 1]

\* Slip: every profile of the round is recorded.
RoundAsSuccess(p) == run[p].round

Successes(p) == run[p].fresh

RecordRound(p) ==
    /\ RunAt(p, "record")
    /\ RecordSuccesses(Successes(p), run[p].desired, run[p].known, now)
    /\ settled' = (settled \ Successes(p)) \cup {k \in Successes(p) : hands[k] = p}
    /\ run' = [run EXCEPT ![p] = AfterRound(@)]
    /\ UNCHANGED <<now, slack, hands>>

\* The state file cannot be locked or written: the command ends with an error.
RecordFails(p) ==
    /\ RunAt(p, "record")
    /\ run' = [run EXCEPT ![p].pc = "over", ![p].raised = TRUE]
    /\ UNCHANGED <<now, slack, hands, settled, record>>

\* Slip: a run that the clock overtook goes on with the profiles it had left.
LeftOver(r, changed) == r.round

\* A changed state is for every profile; else only the failed ones are tried again.
Pool(r, changed) == IF changed THEN r.all ELSE r.round

\* A forced value stays; a scheduled one is read from the clock after each wait.
DesiredNow(r) == IF r.mode = "forced" THEN r.desired ELSE DesiredAvailability(now)

Retrying(r) ==
    LET desired == DesiredNow(r)
        changed == desired # r.desired
        pool == Pool(r, changed)
    IN [r EXCEPT !.desired = desired,
                 !.won = IF changed THEN {} ELSE @, !.lost = IF changed THEN {} ELSE @,
                 !.round = pool, !.todo = IF r.mode = "due" THEN {} ELSE pool,
                 !.pc = IF r.mode = "due" THEN "filter" ELSE "working"]

\* The wait before a retry ends; a cancelled job skips what is left.
Wake(p) ==
    /\ RunAt(p, "wait")
    /\ run' = [run EXCEPT ![p] = IF job[p].cancel THEN [@ EXCEPT !.pc = "over"] ELSE Retrying(@)]
    /\ UNCHANGED <<now, slack, hands, settled>>

\* The agents are installed or removed one by one. An agent that is booted out takes
\* the run launchd had started for it along.
OnAgents(p, mode) == RunAt(p, "working") /\ run[p].mode = mode

Evicted(a) ==
    {q \in Procs : /\ run[q].label = a
                   /\ \/ agent'[a].loaded # agent[a].loaded
                      \/ agent'[a].loaded = "new" /\ agent'[a] # agent[a] /\ ~UpToDate(a)}

ForgetHands(dead) == hands' = [k \in Kvms |-> IF hands[k] \in dead THEN None ELSE hands[k]]

Survivors(a) == [q \in Procs |-> IF q \in Evicted(a) THEN Idle ELSE run[q]]

InstallStep(p) ==
    /\ OnAgents(p, "install")
    /\ LET a == First(run[p].todo) IN
          /\ (UpToDate(a) /\ UNCHANGED agent) \/ Reload(a)
          /\ run' = [Survivors(a) EXCEPT ![p] = Onward(Ticked(@, TRUE))]
          /\ ForgetHands(Evicted(a))
    /\ UNCHANGED <<now, slack, settled>>

InstallFails(p) ==
    /\ OnAgents(p, "install")
    /\ LET a == First(run[p].todo) IN
          /\ \/ /\ ReloadFails(a)
                /\ run' = [Survivors(a) EXCEPT ![p] = Onward(Ticked(@, FALSE))]
             \/ /\ ReloadStops(a)
                /\ run' = [Survivors(a) EXCEPT ![p].pc = "over", ![p].raised = TRUE]
          /\ ForgetHands(Evicted(a))
    /\ UNCHANGED <<now, slack, settled>>

UninstallStep(p) ==
    /\ OnAgents(p, "uninstall")
    /\ LET a == First(run[p].todo) IN
          /\ Unload(a)
          /\ run' = [Survivors(a) EXCEPT ![p] = Onward(Ticked(@, TRUE))]
          /\ ForgetHands(Evicted(a))
    /\ UNCHANGED <<now, slack, settled>>

UninstallFails(p) ==
    /\ OnAgents(p, "uninstall")
    /\ LET a == First(run[p].todo) IN
          /\ \/ /\ UnloadRefused(a)
                /\ run' = [Survivors(a) EXCEPT ![p] = Onward(Ticked(@, agent[a].loaded = None))]
             \/ /\ UnloadStops(a)
                /\ run' = [Survivors(a) EXCEPT ![p].pc = "over", ![p].raised = TRUE]
          /\ ForgetHands(Evicted(a))
    /\ UNCHANGED <<now, slack, settled>>

\* Starting or stopping the recorder succeeds or is refused.
MeetingWork(p, good) ==
    /\ RunAt(p, "meeting")
    /\ run' = [run EXCEPT ![p].pc = "over", ![p].lost = IF good THEN {} ELSE {Recorder}]
    /\ UNCHANGED <<now, slack, hands, settled>>

--------------------------------------------------------------------------------
\* What a job reports: the last result of each of its targets, and the targets that
\* were refused before it started.

Bad(r) == r.lost \cup r.rejected

\* Results of both kinds are partial; a job without results has failed or not.
Status(r, cancelled) ==
    IF r.raised THEN "failed"
    ELSE IF cancelled THEN "cancelled"
    ELSE IF Bad(r) = {} THEN "succeeded"
    ELSE IF r.won # {} /\ r.mode \in Workflows THEN "partial" ELSE "failed"
================================================================================
