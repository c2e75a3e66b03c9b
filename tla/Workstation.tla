------------------------------- MODULE Workstation -------------------------------
(***************************************************************************)
(* The workflows of several processes on one KVM, their lease, the         *)
(* dashboard's probe of it, and a desktop that does things by itself.      *)
(***************************************************************************)
EXTENDS AvailabilityWorkflow, TriageWorkflow, AgendaWorkflow

CONSTANT MaxStarts      \* bound: workflows started

VARIABLE starts

vars == <<lease, depth, desk, late, inputs, surprises, flow, starts>>

Init ==
    /\ LockInit
    /\ DeskInit
    /\ FlowInit
    /\ starts = 0

Starts ==
    /\ starts < MaxStarts
    /\ starts' = starts + 1
    /\ \E w \in Flows : Start(w)

Step(w) ==
    \/ Acquire(w) \/ LockBusy(w) \/ Session(w) \/ Finish(w)
    \/ AvailabilityStep(w) \/ TriageStep(w) \/ AgendaStep(w)

Kill == \E w \in Flows : Dies(w)

Probe == (ProbeTakes \/ ProbeLeaves) /\ UNCHANGED <<deskVars, flow>>

Next ==
    \/ Starts
    \/ (Kill \/ Probe \/ \E w \in Flows : Step(w)) /\ UNCHANGED starts
    \/ Desktop /\ UNCHANGED <<lease, depth, flow, starts>>

Spec == Init /\ [][Next]_vars

--------------------------------------------------------------------------------
\* From its first session to the Escape after its last, a workflow holds the lease
\* without a gap, so no other workflow ever sends input or changes the screen
\* between its phases (slack/agent_operator.py:60-61 and the nested release).
LeaseIsKept ==
    \A w \in Flows : flow[w].pc \notin {"idle", "acquire"} => lease = w /\ Held(w)

\* A success of an availability run is so, through recoveries and read-backs, lost and
\* late clicks, and a planner that presses the toggle when it likes: the state it tells
\* is the wanted one if one was, it is what Slack showed at the last look and still is
\* unless a click was to react late then, and "changed" compares it with what Slack
\* showed first in any of its sessions (slack/agent_operator.py:117-196, slack/state.py).
ReportIsTrue ==
    \A w \in Flows :
        LET f == flow[w]
            result == f.result IN
        f.kind = "availability" /\ f.pc = "report" /\ result.success =>
            /\ f.desired \in {"none", result.observed}
            /\ f.sure => result.observed = desk.avail
            /\ f.desired # "none" =>
                  result.changed = (IF f.shown = result.observed THEN "no" ELSE "yes")

\* Nothing unread is reported only of a quiet sidebar, whatever menu, popover or dialog
\* came up at any moment and whether or not it could be dismissed, and if there is
\* more below the fold the report says so (slack/triage_operator.py:98-151).
QuietMeansQuiet ==
    \A w \in Flows :
        LET result == flow[w].result IN
        flow[w].kind = "triage" /\ flow[w].pc = "report" /\ result.success /\ result.items = {}
        => desk.unread \subseteq (IF result.flagged THEN {"below"} ELSE {})

\* Whatever the planner proposes, and whatever risk it declares, on a screen that is
\* still as it was analysed no session answers a system dialog; with Slack in front no
\* triage opens a conversation; behind another application it clicks no channel; and
\* no agenda session clicks its way into a call (agent/policy.py:211-231,
\* slack/triage_policy.py, agenda/policy.py).
Current(w) == lease = w /\ flow[w].pc = "planned" /\ flow[w].frame = desk

SessionsDoNoHarm ==
    [][\A w \in Flows : Current(w) /\ inputs' > inputs =>
          LET clicks == flow'[w].sent = "click" IN
          /\ desk.over = "dialog" => desk'.over = "dialog"
          /\ flow[w].kind = "triage" /\ desk.app = "slack" => desk'.unread = desk.unread
          /\ flow[w].kind = "triage" /\ clicks /\ "channel" \in desk.unread =>
                "channel" \in desk'.unread
          /\ flow[w].kind = "agenda" /\ clicks /\ desk'.app = "call" => desk.app = "call"]_vars

\* A day reported as neither clipped nor covered is the whole day as far as its reads
\* were uncovered and no scroll left out more than a screenful: neither the limit on
\* rounds, a stretch without meetings, a scroll that failed or went up, nor the order
\* of the reads loses a meeting (agenda/operator.py:200-262).
DayIsComplete ==
    \A w \in Flows :
        (/\ flow[w].kind = "agenda" /\ flow[w].pc = "report"
         /\ flow[w].result.success /\ ~flow[w].result.flagged
         /\ ~flow[w].covered /\ ~flow[w].gap)
        => flow[w].result.items = desk.day

\* Every day reported as neither clipped nor covered is the whole day, whatever
\* happened between its reads.
UnflaggedDayIsComplete ==
    \A w \in Flows :
        (/\ flow[w].kind = "agenda" /\ flow[w].pc = "report"
         /\ flow[w].result.success /\ ~flow[w].result.flagged)
        => flow[w].result.items = desk.day
================================================================================
