--------------------------- MODULE AgentController ---------------------------
(***************************************************************************)
(* One session of the agent: observe the screen, verify the last action,   *)
(* plan, decide, ask, look again, act, wait for the screen.  The vision    *)
(* model, the planner, the policy, the user and the remote computer answer *)
(* as they like; what the session makes of the answers is the code's.      *)
(***************************************************************************)
EXTENDS Naturals, Sequences, FiniteSets

CONSTANTS
    Screens,            \* fingerprints of what the remote computer shows
    HidActions,         \* actions that send keyboard or mouse input
    None,
    MaxSteps,           \* options.max_steps
    MaxRepeated,        \* settings.max_repeated_actions
    MaxRecoveries,      \* settings.max_verification_recoveries
    MaxNoChange         \* settings.max_no_change_steps

LocalActions == {"wait", "finish", "request_user"}
Actions == HidActions \cup LocalActions

Decisions == {"allow", "approval", "deny"}
Verdicts == {"success", "unsure", "failure"}
Transports == {"sent", "uncertain", "failed"}

Statuses == {"success", "dry_run", "paused", "failed", "interrupted"}

ASSUME ControllerAssumption ==
    /\ MaxSteps \in Nat \ {0}
    /\ MaxRepeated \in Nat \ {0}
    /\ MaxRecoveries \in Nat
    /\ MaxNoChange \in Nat
    /\ HidActions \cap LocalActions = {}
    /\ None \notin Actions \cup Verdicts \cup Transports

VARIABLES
    pc,             \* where the run is in its loop
    options,        \* dry_run, step_mode and approval_mode = every
    current,        \* the screenshot the run works from
    proposal,       \* what the planner proposed last
    history,        \* the AgentSteps
    previous,       \* whether the last step's execution awaits verification
    reobserved,     \* reobserved_after_uncertainty
    recoveries,     \* verification_recoveries
    unverified,     \* unverified_fingerprint
    noChange,       \* no_change_steps
    hid,            \* counters.hid_actions
    reached,        \* steps whose input may have reached the remote computer
    result          \* the AgentSessionResult, or None

ladder == <<previous, reobserved, recoveries, unverified>>
vars == <<pc, options, current, proposal, history, ladder, noChange, hid, reached, result>>

Step(screen, action, decision) ==
    [screen |-> screen, action |-> action, decision |-> decision, approved |-> FALSE,
     run |-> None, verdict |-> None]

Last == history[Len(history)]

Stamp(field, value) == history' = [history EXCEPT ![Len(history)][field] = value]

Init ==
    /\ pc = "start"
    /\ options \in [dryRun : BOOLEAN, stepMode : BOOLEAN, every : BOOLEAN]
    /\ current = None
    /\ proposal = None
    /\ history = <<>>
    /\ previous = FALSE
    /\ reobserved = FALSE
    /\ recoveries = 0
    /\ unverified = None
    /\ noChange = 0
    /\ hid = 0
    /\ reached = {}
    /\ result = None

Finish(status, code) ==
    /\ result' = [status |-> status, code |-> code]
    /\ pc' = "done"

Goto(label) == pc' = label /\ UNCHANGED result

\* The run's variables that only the loop's head and its end write.
keepLadder == UNCHANGED <<options, ladder, noChange, hid, reached>>

FirstCapture ==
    /\ pc = "start"
    /\ current' \in Screens
    /\ Goto("loop")
    /\ UNCHANGED <<proposal, history>> /\ keepLadder

\* Checked before the screen is read and again before anything is sent.
RuntimeLimit ==
    /\ pc \in {"loop", "planned"}
    /\ Finish("paused", "runtime_limit")
    /\ UNCHANGED <<current, proposal, history>> /\ keepLadder

-----------------------------------------------------------------------------
\* _observe and the verification of the previous action.

ObserveFirst ==
    /\ pc = "loop" /\ ~previous
    /\ Goto("observed")
    /\ UNCHANGED <<current, proposal, history>> /\ keepLadder

VerificationMissing ==
    /\ pc = "loop" /\ previous
    /\ Finish("failed", "verification_missing")
    /\ UNCHANGED <<current, proposal, history>> /\ keepLadder

\* Slip: the one re-observation is not remembered.
ForgetReobserved == UNCHANGED reobserved

MarkReobserved == reobserved' = TRUE

\* Rung 1: an uncertain verdict is looked at once more, a little later.
Reobserve ==
    /\ pc = "loop" /\ previous /\ ~reobserved
    /\ Stamp("verdict", "unsure")
    /\ MarkReobserved
    /\ Goto("reobserve")
    /\ UNCHANGED <<options, current, proposal, previous, recoveries, unverified>>
    /\ UNCHANGED <<noChange, hid, reached>>

Recapture ==
    /\ pc = "reobserve"
    /\ current' \in Screens
    /\ Goto("loop")
    /\ UNCHANGED <<proposal, history>> /\ keepLadder

\* Rung 2: the planner may take another route, within a budget.
NotVerified(verdict) == verdict = "failure" \/ (verdict = "unsure" /\ reobserved)

BudgetLeft == recoveries < MaxRecoveries

RecoveriesExhausted ==
    /\ pc = "loop" /\ previous
    /\ \E verdict \in Verdicts :
          /\ NotVerified(verdict)
          /\ Stamp("verdict", verdict)
    /\ ~BudgetLeft
    /\ Finish("failed", "verification_failed")
    /\ UNCHANGED <<current, proposal>> /\ keepLadder

CountRecovery == recoveries' = recoveries + 1

Recover ==
    /\ pc = "loop" /\ previous
    /\ \E verdict \in Verdicts :
          /\ NotVerified(verdict)
          /\ Stamp("verdict", verdict)
    /\ BudgetLeft
    /\ CountRecovery
    /\ unverified' = Last.action
    /\ reobserved' = FALSE
    /\ previous' = FALSE
    /\ Goto("observed")
    /\ UNCHANGED <<options, current, proposal, noChange, hid, reached>>

Verified ==
    /\ pc = "loop" /\ previous
    /\ Stamp("verdict", "success")
    /\ unverified' = None
    /\ reobserved' = FALSE
    /\ previous' = FALSE
    /\ Goto("observed")
    /\ UNCHANGED <<options, current, proposal, recoveries, noChange, hid, reached>>

-----------------------------------------------------------------------------
\* Planning.

\* Slip: the limit is checked before the last action is verified.
StepLimitFirst ==
    /\ pc \in {"loop", "observed"}
    /\ Len(history) >= MaxSteps
    /\ Finish("paused", "step_limit")
    /\ UNCHANGED <<current, proposal, history>> /\ keepLadder

StepLimit ==
    /\ pc = "observed"
    /\ Len(history) >= MaxSteps
    /\ Finish("paused", "step_limit")
    /\ UNCHANGED <<current, proposal, history>> /\ keepLadder

UnsafeScreen ==
    /\ pc = "observed"
    /\ Len(history) < MaxSteps
    /\ Finish("paused", "screen_unsafe")
    /\ UNCHANGED <<current, proposal, history>> /\ keepLadder

Plan ==
    /\ pc = "observed"
    /\ Len(history) < MaxSteps
    /\ proposal' \in Actions
    /\ Goto("planned")
    /\ UNCHANGED <<current, history>> /\ keepLadder

\* Slip: only the plan just before this one is compared, executed or not.
RepeatsLast ==
    /\ proposal \in HidActions
    /\ history # <<>>
    /\ Last.action = proposal /\ Last.verdict \in {"unsure", "failure"}

RepeatsUnverified == proposal \in HidActions /\ proposal = unverified

RepeatRefused ==
    /\ pc = "planned"
    /\ RepeatsUnverified
    /\ Finish("failed", "verification_failed")
    /\ UNCHANGED <<current, proposal, history>> /\ keepLadder

LowConfidence ==
    /\ pc = "planned"
    /\ ~RepeatsUnverified
    /\ Finish("paused", "planner_low_confidence")
    /\ UNCHANGED <<current, proposal, history>> /\ keepLadder

\* Slip: approval mode is ignored.
PolicyDecision(decision) == decision

\* The policy allows every local action; --approval-mode every asks for the rest.
Decision(decision) ==
    IF decision = "allow" /\ options.every /\ proposal \in HidActions THEN "approval" ELSE decision

Decide ==
    /\ pc = "planned"
    /\ ~RepeatsUnverified
    /\ \E decision \in IF proposal \in HidActions THEN Decisions ELSE {"allow"} :
          history' = Append(history, Step(current, proposal, Decision(decision)))
    /\ Goto("decided")
    /\ UNCHANGED <<current, proposal>> /\ keepLadder

-----------------------------------------------------------------------------
\* The refusals that follow the decision, in their order.

SameStep(i) == history[i].screen = Last.screen /\ history[i].action = Last.action

\* Slip: only the steps before this one are counted.
RepeatedBefore ==
    Cardinality({i \in DOMAIN history : i # Len(history) /\ SameStep(i)}) > MaxRepeated

Repeated == Cardinality({i \in DOMAIN history : SameStep(i)}) > MaxRepeated

Alternates ==
    LET n == Len(history)
    IN  /\ n >= 4
        /\ history[n].action = history[n - 2].action
        /\ history[n - 1].action = history[n - 3].action
        /\ history[n].action # history[n - 1].action

AppearsStuck == Repeated \/ Alternates

Terminal == {"finish", "request_user"}

\* The completion validator, where there is one, may find no proof.
Completed ==
    /\ pc = "decided" /\ proposal = "finish"
    /\ \/ Finish("success", "completed")
       \/ Finish("failed", "completion_unverified")
    /\ UNCHANGED <<current, proposal, history>> /\ keepLadder

AssistanceRequested ==
    /\ pc = "decided" /\ proposal = "request_user"
    /\ Finish("paused", "user_assistance_requested")
    /\ UNCHANGED <<current, proposal, history>> /\ keepLadder

Denied ==
    /\ pc = "decided" /\ proposal \notin Terminal
    /\ Last.decision = "deny"
    /\ Finish("failed", "policy_denied")
    /\ UNCHANGED <<current, proposal, history>> /\ keepLadder

Stuck ==
    /\ pc = "decided" /\ proposal \notin Terminal
    /\ Last.decision # "deny"
    /\ AppearsStuck
    /\ Finish("failed", "stuck_repeated_action")
    /\ UNCHANGED <<current, proposal, history>> /\ keepLadder

DryRun ==
    /\ pc = "decided" /\ proposal \notin Terminal
    /\ Last.decision # "deny" /\ ~AppearsStuck
    /\ options.dryRun
    /\ Finish("dry_run", "dry_run")
    /\ UNCHANGED <<current, proposal, history>> /\ keepLadder

Proceed ==
    /\ pc = "decided" /\ proposal \notin Terminal
    /\ Last.decision # "deny" /\ ~AppearsStuck
    /\ ~options.dryRun
    /\ Goto(IF Last.decision = "approval" THEN "approval" ELSE "confirm")
    /\ UNCHANGED <<current, proposal, history>> /\ keepLadder

Approved ==
    /\ pc = "approval"
    /\ Stamp("approved", TRUE)
    /\ Goto("confirm")
    /\ UNCHANGED <<current, proposal>> /\ keepLadder

ApprovalDenied ==
    /\ pc = "approval"
    /\ Finish("paused", "approval_denied")
    /\ UNCHANGED <<current, proposal, history>> /\ keepLadder

\* Step mode asks before every step; without it there is nothing to confirm.
Confirmed ==
    /\ pc = "confirm"
    /\ Goto(IF proposal \in HidActions THEN "guard" ELSE "execute")
    /\ UNCHANGED <<current, proposal, history>> /\ keepLadder

StepCancelled ==
    /\ pc = "confirm" /\ options.stepMode
    /\ Finish("paused", "step_cancelled")
    /\ UNCHANGED <<current, proposal, history>> /\ keepLadder

-----------------------------------------------------------------------------
\* Acting.

\* The pre-action guard: a fresh screenshot is close to the planned one.
GuardAllows ==
    /\ pc = "guard"
    /\ Goto("execute")
    /\ UNCHANGED <<current, proposal, history>> /\ keepLadder

\* The screen changed, or lost the target: the plan is dropped, its step stays.
GuardCancels ==
    /\ pc = "guard"
    /\ current' \in Screens
    /\ Goto("loop")
    /\ UNCHANGED <<proposal, history>> /\ keepLadder

\* The executor, up to the moment its last request is answered or given up.
Send ==
    /\ pc = "execute"
    /\ \/ proposal \in HidActions /\ reached' = reached \cup {Len(history)}
       \/ reached' = reached
    /\ Goto("sent")
    /\ UNCHANGED <<options, current, proposal, history, ladder, noChange, hid>>

\* What the executor may report of an action.
Report(transport) ==
    IF proposal \in HidActions
        THEN transport = "sent" => Len(history) \in reached
        ELSE transport = "sent"

Count == hid' = IF proposal \in HidActions THEN hid + 1 ELSE hid

Executed ==
    /\ pc = "sent"
    /\ \E transport \in Transports \ {"failed"} :
          Report(transport) /\ Stamp("run", transport)
    /\ Count
    /\ Goto("settle")
    /\ UNCHANGED <<options, current, proposal, ladder, noChange, reached>>

TransportFailed ==
    /\ pc = "sent"
    /\ Report("failed")
    /\ Stamp("run", "failed")
    /\ Count
    /\ Finish("failed", "transport_failed")
    /\ UNCHANGED <<options, current, proposal, ladder, noChange, reached>>

\* Slip: an action without visible effect is not verified.
AwaitIfChanged == previous' = (noChange' = 0)

AwaitVerification == previous' = TRUE

Settled ==
    /\ pc = "settle"
    /\ noChange' \in {0, noChange + 1}
    /\ noChange' <= MaxNoChange
    /\ current' \in Screens
    /\ AwaitVerification
    /\ Goto("loop")
    /\ UNCHANGED <<options, proposal, history, reobserved, recoveries, unverified, hid, reached>>

NoScreenChange ==
    /\ pc = "settle"
    /\ noChange' = noChange + 1
    /\ noChange' > MaxNoChange
    /\ Finish("failed", "stuck_no_screen_change")
    /\ UNCHANGED <<options, current, proposal, history, ladder, hid, reached>>

-----------------------------------------------------------------------------
\* Where a call may raise: captures, the two models, the validator, the guard.
\* The executor turns what its client raises into a report.  classify_exception
\* tells the environment's failures apart; here they are one.
\* Slip: an error of the transport escapes the executor.
RaisingAnywhere == 
    {"start", "loop", "reobserve", "observed", "planned", "decided", "guard", "sent", "settle"}

Raising == {"start", "loop", "reobserve", "observed", "planned", "decided", "guard", "settle"}

Raises ==
    /\ pc \in Raising
    /\ Finish("failed", "environment")
    /\ UNCHANGED <<current, proposal, history>> /\ keepLadder

Interrupted ==
    /\ pc # "done"
    /\ Finish("interrupted", "interrupted")
    /\ UNCHANGED <<current, proposal, history>> /\ keepLadder

Observe ==
    \/ ObserveFirst \/ VerificationMissing \/ Reobserve \/ Recapture
    \/ RecoveriesExhausted \/ Recover \/ Verified

PlanNext == StepLimit \/ UnsafeScreen \/ Plan

Consider == RepeatRefused \/ LowConfidence \/ Decide

Authorise ==
    \/ Completed \/ AssistanceRequested \/ Denied \/ Stuck \/ DryRun \/ Proceed
    \/ Approved \/ ApprovalDenied \/ Confirmed \/ StepCancelled

Act ==
    \/ GuardAllows \/ GuardCancels \/ Send \/ Executed \/ TransportFailed
    \/ Settled \/ NoScreenChange

Run == FirstCapture \/ RuntimeLimit \/ Observe \/ PlanNext \/ Consider \/ Authorise \/ Act

Next == Run \/ Raises \/ Interrupted

Spec == Init /\ [][Next]_vars

\* The process that runs the session keeps running.
FairSpec == Spec /\ WF_vars(Run)

-----------------------------------------------------------------------------
\* Properties.

Ran(i) == history[i].run # None

\* An action was sent, or is being sent, whose outcome nobody has judged yet.
Pending == pc = "sent" \/ \E i \in DOMAIN history : Ran(i) /\ history[i].verdict = None

\* How the session looks to the abstract loop.
Stage == IF pc = "done" THEN "over" ELSE IF Pending THEN "acted" ELSE "free"

Loop == INSTANCE ActVerifyLoop WITH stage <- Stage, acts <- Cardinality(reached)

Labels == {"start", "loop", "reobserve", "observed", "planned", "decided", "approval",
           "confirm", "guard", "execute", "sent", "settle", "done"}

Steps == [screen : Screens, action : Actions, decision : Decisions, approved : BOOLEAN,
          run : Transports \cup {None}, verdict : Verdicts \cup {None}]

TypeOK ==
    /\ pc \in Labels
    /\ options \in [dryRun : BOOLEAN, stepMode : BOOLEAN, every : BOOLEAN]
    /\ pc \in {"start", "done"} \/ current \in Screens
    /\ pc \in {"start", "loop", "reobserve", "observed", "done"} \/ proposal \in Actions
    /\ history \in Seq(Steps)
    /\ previous \in BOOLEAN
    /\ reobserved \in BOOLEAN
    /\ recoveries \in 0..MaxRecoveries
    /\ unverified \in Actions \cup {None}
    /\ noChange \in Nat
    /\ hid \in Nat
    /\ reached \subseteq DOMAIN history
    /\ pc = "done" => result.status \in Statuses

\* OBSERVE -> REASON -> ACT -> VERIFY: the session implements the bounded
\* act-and-judge loop, through re-observations, stale plans and recoveries.
ImplementsLoop == Loop!Spec

\* The repeat limit counts every proposal, so that cancelled plans, waits and
\* recoveries never let an action run on one screen more often than allowed.
RepeatsAreBounded ==
    \A s \in Screens, a \in Actions :
        Cardinality({i \in DOMAIN history :
                        Ran(i) /\ history[i].screen = s /\ history[i].action = a}) <= MaxRepeated

\* Whatever ran was allowed or approved by the user, and never in a dry run;
\* in approval mode "every" the user approved each HID action.
RunsAreAuthorised ==
    \A i \in DOMAIN history :
        (Ran(i) \/ i \in reached) =>
            /\ ~options.dryRun
            /\ history[i].decision = "allow" \/ history[i].approved
            /\ (options.every /\ history[i].action \in HidActions) => history[i].approved

\* The history a caller decides on tells what was sent: input that may have
\* reached the computer is reported, unless the user broke in while it was sent.
HistoryTellsWhatWasSent ==
    \A i \in reached :
        Ran(i) \/ (i = Len(history) /\ (pc = "sent" \/ (pc = "done" /\ result.status = "interrupted")))

\* A session that ends by its own decision leaves no action unjudged.
Deliberate == {"completed", "completion_unverified", "step_limit", "user_assistance_requested",
               "policy_denied", "stuck_repeated_action", "approval_denied", "step_cancelled",
               "dry_run", "verification_failed", "screen_unsafe", "planner_low_confidence"}

DeliberateEndsAreJudged ==
    (pc = "done" /\ result.code \in Deliberate) =>
        \A i \in DOMAIN history : Ran(i) => history[i].verdict # None

NotConfirmed(i) ==
    history[i].action \in HidActions /\ history[i].verdict \in {"unsure", "failure"}

\* After step i and before step j another action ran and was judged.
AnotherTried(i, j) ==
    \E k \in DOMAIN history :
        /\ i < k /\ k < j
        /\ Ran(k) /\ history[k].verdict # None
        /\ history[k].action # history[i].action

\* An action that could not be verified is not taken up again blindly, on any
\* screen: before it, another action has run and been judged.  A plan in between
\* that was dropped unexecuted does not count, whatever the repeat limit.
UnverifiedNotRepeatedBlindly ==
    \A i, j \in DOMAIN history :
        (i < j /\ NotConfirmed(i) /\ history[j].action = history[i].action) => AnotherTried(i, j)

\* Every session ends, without the help of its clock.
SessionEnds == <>(pc = "done")
=============================================================================
