----------------------------- MODULE TriageWorkflow -----------------------------
(***************************************************************************)
(* Reading Slack's unread sidebar: bring Slack forward, read a screenshot, *)
(* clear what covers the sidebar once, read again, report.                 *)
(***************************************************************************)
EXTENDS WorkflowSession

Triage(w, pc) == At(w, "triage", pc)

\* What the sidebar shows; the rest is below the fold.
Unread == desk.unread \ {"below"}

Foreground(w) ==
    /\ Triage(w, "main")
    /\ Run(w, "slack", 1)

\* Without Slack in front nothing is read.
NotInFront(w) ==
    /\ Triage(w, "decide") /\ flow[w].stage = 1 /\ flow[w].stop # "completed"
    /\ Fails(w)
    /\ UNCHANGED <<lockVars, deskVars>>

ReadSidebar(w) ==
    /\ Triage(w, "decide") /\ flow[w].stop = "completed"
    /\ \E p \in Perceptions("slack", Unread) : Goto(w, [pc |-> "seen", read |-> p])
    /\ UNCHANGED <<lockVars, deskVars>>

\* One attempt to clear the sidebar.
Dismiss(w) ==
    /\ Triage(w, "seen") /\ flow[w].stage = 1 /\ flow[w].read.obstructed
    /\ Run(w, "dismiss", 2)

\* The dismissal failed: the covered read is kept; an exception ends the workflow.
KeepRead(w) ==
    /\ Triage(w, "decide") /\ flow[w].stage = 2 /\ flow[w].stop # "completed"
    /\ IF flow[w].stop = "raised" THEN Fails(w) ELSE Goto(w, [pc |-> "seen"])
    /\ UNCHANGED <<lockVars, deskVars>>

\* Slip: an empty sidebar is believed even if something covers it.
AnyRead(w) == flow[w].read.front

\* A read that can be reported: Slack's sidebar is there, and it is not empty
\* because it is covered.
Trustworthy(w) ==
    /\ flow[w].read.front
    /\ flow[w].read.obstructed => flow[w].read.items # {}

\* The reader may also call the screen unsafe or the sidebar unreadable.
ReportTriage(w) ==
    /\ Triage(w, "seen")
    /\ flow[w].stage = 2 \/ ~flow[w].read.obstructed
    /\ \/ Fails(w)
       \/ /\ Trustworthy(w)
          /\ Reports(w, [success |-> TRUE, items |-> flow[w].read.items,
                         flagged |-> flow[w].read.obstructed \/ flow[w].read.later])
    /\ UNCHANGED <<lockVars, deskVars>>

TriageStep(w) ==
    \/ Foreground(w) \/ NotInFront(w) \/ ReadSidebar(w)
    \/ Dismiss(w) \/ KeepRead(w) \/ ReportTriage(w)
================================================================================
