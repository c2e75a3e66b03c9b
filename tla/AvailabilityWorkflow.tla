-------------------------- MODULE AvailabilityWorkflow --------------------------
(***************************************************************************)
(* Reading or setting Slack's manual availability: one session, at most    *)
(* one recovery after an uncertain navigation, at most one read-only       *)
(* verification after an unverified toggle, Escape at the end, one lease.  *)
(***************************************************************************)
EXTENDS WorkflowSession

Availability(w, pc) == At(w, "availability", pc)

Goal(w) == IF flow[w].desired = "none" THEN "read" ELSE flow[w].desired

MainSession(w) ==
    /\ Availability(w, "main")
    /\ Run(w, Goal(w), 1)

\* The session ended on an unverified input; its last plan is looked at, sent or not.
Unverified(w, last) ==
    /\ flow[w].desired # "none"
    /\ flow[w].stop = "verification_failed" /\ flow[w].last = last

NeedsNavigationRecovery(w) == flow[w].stage = 1 /\ Unverified(w, "profile")

NeedsVerification(w) == flow[w].stage \in {1, 2} /\ Unverified(w, "toggle")

\* Slip: what was seen first is what the last session saw first.
FirstOfLast(w) == flow[w].first

FirstObserved(w) == IF flow[w].earliest = "none" THEN flow[w].first ELSE flow[w].earliest

\* The first observation of the whole workflow survives the next session's tracker.
Again(w, goal, stage) ==
    /\ Enter(w)
    /\ Goto(w, [pc |-> "session", goal |-> goal, stage |-> stage, acted |-> FALSE, last |-> "none",
                stop |-> "none", first |-> "none", final |-> "none", menuSeen |-> FALSE,
                earliest |-> FirstObserved(w)])
    /\ UNCHANGED deskVars

Recover(w) ==
    /\ Availability(w, "decide") /\ NeedsNavigationRecovery(w)
    /\ Again(w, Goal(w), 2)

Verify(w) ==
    /\ Availability(w, "decide") /\ ~NeedsNavigationRecovery(w) /\ NeedsVerification(w)
    /\ Again(w, "read", 3)

\* Whether the state was changed is told only of a success, from the first and the
\* wanted observation.
Changed(w) == IF FirstObserved(w) = "none" THEN "unknown"
              ELSE IF FirstObserved(w) # flow[w].desired THEN "yes" ELSE "no"

\* The result of the verification: success is the wanted state read back.
ReadBack(w) ==
    LET f == flow[w]
        success == f.stop = "completed" /\ f.final = f.desired
    IN  [success |-> success, observed |-> f.final,
         changed |-> IF success THEN Changed(w)
                     ELSE IF f.stop = "completed" /\ f.final # "none" THEN "no" ELSE "unknown"]

Conclusion(w) ==
    LET f == flow[w]
        success == f.stop = "completed" /\ f.final # "none"
    IN  [success |-> success, observed |-> f.final,
         changed |-> IF f.desired = "none" THEN "no"
                     ELSE IF success THEN Changed(w) ELSE "unknown"]

\* An exception of a session leaves the workflow; the menu is still closed.
Outcome(w) ==
    IF flow[w].stop = "raised" THEN NoResult
    ELSE IF flow[w].stage = 3 THEN ReadBack(w) ELSE Conclusion(w)

Conclude(w) ==
    /\ Availability(w, "decide")
    /\ ~NeedsNavigationRecovery(w) /\ ~NeedsVerification(w)
    /\ Concludes(w, "close", Outcome(w))
    /\ UNCHANGED <<lockVars, deskVars>>

\* One Escape if the last tracker saw the menu open: no policy is asked, nothing is
\* looked at, and it may answer a dialog or get lost.
CloseMenu(w) ==
    /\ Availability(w, "close") /\ flow[w].menuSeen
    /\ Send(Key("Escape"), FALSE)
    /\ Goto(w, [pc |-> "report"])
    /\ UNCHANGED <<lockVars, inputs>>

NoMenu(w) ==
    /\ Availability(w, "close") /\ ~flow[w].menuSeen
    /\ Goto(w, [pc |-> "report"])
    /\ UNCHANGED <<lockVars, deskVars>>

AvailabilityStep(w) ==
    \/ MainSession(w) \/ Recover(w) \/ Verify(w) \/ Conclude(w) \/ CloseMenu(w) \/ NoMenu(w)
================================================================================
