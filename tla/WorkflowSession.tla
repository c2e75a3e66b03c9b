---------------------------- MODULE WorkflowSession ----------------------------
(***************************************************************************)
(* One controller session inside a workflow that holds the lease, as the   *)
(* workflow meets it: look at the screen, then send one input planned on   *)
(* it, complete or stop.  AgentController has the session in full; the     *)
(* screen may change between the look and the input, as its guard sees     *)
(* neither small changes nor later ones.                                   *)
(***************************************************************************)
EXTENDS ControllerLock, RemoteDesktop

VARIABLE flow

NoRead == [obstructed |-> FALSE, front |-> FALSE, items |-> {}, earlier |-> FALSE, later |-> FALSE]

NoResult == [success |-> FALSE, observed |-> "none", changed |-> "unknown", items |-> {},
             flagged |-> TRUE]

NoFrame == [app |-> "none"]

\* frame is the screen a session plans on.  Only the properties look at sent, shown, sure,
\* covered, at and gap: the type of the input just sent, what Slack showed first, whether
\* nothing was to react late at the last look, what was covered, read last, jumped over.
Idle == [kind |-> "none", pc |-> "idle", desired |-> "none", goal |-> "none", acted |-> FALSE,
         last |-> "none", stop |-> "none", stage |-> 0, first |-> "none", final |-> "none",
         menuSeen |-> FALSE, frame |-> NoFrame, earliest |-> "none", read |-> NoRead, merged |-> {},
         earlier |-> FALSE, result |-> NoResult,
         sent |-> "none", shown |-> "none", sure |-> FALSE, covered |-> FALSE, at |-> 1, gap |-> FALSE]

Kinds == {"availability", "triage", "agenda"}

FlowInit == flow = [w \in Flows |-> Idle]

At(w, kind, pc) == flow[w].kind = kind /\ flow[w].pc = pc

\* A record with some of its fields changed.
Over(changes, old) ==
    [field \in DOMAIN old |-> IF field \in DOMAIN changes THEN changes[field] ELSE old[field]]

Goto(w, changes) == flow' = [flow EXCEPT ![w] = Over(changes, @)]

\* A workflow asks for its KVM's lease; which one it is matters once it has it.
Start(w) ==
    /\ flow[w].pc = "idle"
    /\ Goto(w, [pc |-> "acquire"])
    /\ UNCHANGED <<lockVars, deskVars>>

Acquire(w) ==
    /\ flow[w].pc = "acquire"
    /\ Enter(w)
    /\ \E kind \in Kinds, desired \in Availabilities \cup {"none"} :
          /\ kind # "availability" => desired = "none"
          /\ Goto(w, [kind |-> kind, desired |-> desired, pc |-> "main"])
    /\ UNCHANGED deskVars

\* The wait is over: a result of its own, and nothing was sent.
LockBusy(w) ==
    /\ flow[w].pc = "acquire"
    /\ GiveUp(w)
    /\ Goto(w, Idle)
    /\ UNCHANGED deskVars

\* A controller session begins: the lease goes one deeper and the tracker is new.
Run(w, goal, stage) ==
    /\ Enter(w)
    /\ Goto(w, [pc |-> "session", goal |-> goal, stage |-> stage, acted |-> FALSE, last |-> "none",
                stop |-> "none", first |-> "none", final |-> "none", menuSeen |-> FALSE])
    /\ UNCHANGED deskVars

Policies == Kinds \cup {"scroll"}

Policy(p, a, risk, screen) ==
    CASE p = "availability" -> SlackAvailability(a, risk, screen)
      [] p = "triage" -> SlackTriage(a, risk, screen)
      [] p = "agenda" -> Agenda(a, risk, screen)
      [] p = "scroll" -> AgendaScroll(a, risk, screen)

\* The calendar's analyzer walks around a dialog that is the only problem.
AroundDialog(screen) ==
    IF screen.dialog /\ ~screen.locked THEN [screen EXCEPT !.safe = TRUE] ELSE screen

\* Slack's asks a second model about a screen called unsafe, unless it is locked, and
\* looks for the profile control where no availability shows: without it the screen
\* is unsafe.
Confirmed(screen, s) ==
    LET told == IF screen.safe \/ screen.locked THEN {screen} ELSE Analyses(s)
        blind == {t \in told : t.safe /\ t.app = "slack" /\ ~s.menu}
    IN  told \cup {[t EXCEPT !.safe = FALSE, !.shown = {}] : t \in blind}

\* The screens a session of each workflow may be told of.
Screens(p, s) ==
    CASE p = "availability" -> UNION {Confirmed(screen, s) : screen \in Analyses(s)}
      [] p = "triage" -> Analyses(s)
      [] OTHER -> {AroundDialog(screen) : screen \in Analyses(s)}

\* What may be sent: whatever the planner proposes and calls its risk, as long as
\* some analysis of the scene is safe and the policy allows it there.
Permitted ==
    [p \in Policies |-> [s \in Scenes |->
        {a \in Actions : \E screen \in Screens(p, s), risk \in Risks :
            screen.safe /\ Policy(p, a, risk, screen) = Allow}]]

PolicyOf(w) == IF flow[w].goal = "scroll" THEN "scroll" ELSE flow[w].kind

\* The availability tracker's view after an observation; only that workflow has one.
Tracked(w) ==
    LET f == flow[w]
        seen == Evidence(desk)
    IN  IF f.kind # "availability" THEN <<>>
        ELSE [menuSeen |-> desk.menu,
              first |-> IF f.first = "none" THEN seen ELSE f.first,
              final |-> IF seen = "none" THEN f.final ELSE seen,
              shown |-> IF f.shown = "none" THEN seen ELSE f.shown,
              sure |-> late = "none"]

\* What the availability workflow asks of a session's last action.
Kind(w, a) == IF flow[w].kind = "availability" /\ a \in {Click("toggle"), Click("profile")}
              THEN a.on ELSE "other"

\* The session ends; its lease is given back one level.
Ends(w, stop, last) ==
    /\ Exit(w)
    /\ Goto(w, [pc |-> "decide", stop |-> stop, last |-> last, sent |-> "none",
                acted |-> FALSE, frame |-> NoFrame])
    /\ UNCHANGED deskVars

\* A screenshot is taken and analysed, once more if the last input looks unverified.
SessionLooks(w) ==
    /\ flow[w].pc = "session" \/ (flow[w].pc = "planned" /\ flow[w].acted)
    /\ flow' = [flow EXCEPT ![w] = Over([pc |-> "planned", frame |-> desk, sent |-> "none"], Over(Tracked(w), @))]
    /\ UNCHANGED <<lockVars, deskVars>>

Proposals(w) == Permitted[PolicyOf(w)][Scene(flow[w].frame)]

\* An allowed action is sent to the screen there is by now; approval is always
\* refused and ends the session.
SessionActs(w) ==
    /\ flow[w].pc = "planned" /\ inputs < MaxInputs
    /\ \E a \in Proposals(w) :
          /\ Send(a, flow[w].frame # desk)
          /\ Goto(w, [pc |-> "session", frame |-> NoFrame, acted |-> TRUE,
                      last |-> Kind(w, a), sent |-> a.type])
    /\ inputs' = inputs + 1
    /\ UNCHANGED lockVars

\* The guard drops a plan: it stays in the history, unsent.  Only of a navigation the
\* workflow asks whether it was sent.
SessionDrops(w) ==
    /\ flow[w].pc = "planned"
    /\ \E a \in Proposals(w) :
          Goto(w, [pc |-> "session", frame |-> NoFrame,
                   last |-> IF Kind(w, a) = "profile" THEN "other" ELSE Kind(w, a)])
    /\ UNCHANGED <<lockVars, deskVars>>

\* A session for an availability completes on the toggle that proves it.
Validated(w) ==
    LET seen == Evidence(flow[w].frame) IN
    flow[w].goal \in Availabilities \cup {"read"} =>
        seen \in (IF flow[w].goal = "read" THEN Availabilities ELSE {flow[w].goal})

SessionCompletes(w) ==
    /\ flow[w].pc = "planned"
    /\ TRUE \in {screen.safe : screen \in Screens(PolicyOf(w), Scene(flow[w].frame))}
    /\ Validated(w)
    /\ Ends(w, "completed", "none")

\* The screen is unsafe, unreadable or out of reach, before or after it was analysed.
SessionBlocked(w) ==
    /\ flow[w].pc \in {"session", "planned"}
    /\ Ends(w, "blocked", "none")

\* Limits, low confidence, refusals, provider errors: the screen is no obstacle.
SessionStops(w) ==
    /\ flow[w].pc \in {"session", "planned"}
    /\ Ends(w, "other", "none")

\* The last input could not be verified.
SessionUnverified(w) ==
    /\ flow[w].pc = "planned" /\ flow[w].acted
    /\ Ends(w, "verification_failed", flow[w].last)

\* The session could not even be set up: an exception the workflow answers itself.
SessionRaises(w) ==
    /\ flow[w].pc = "session" /\ ~flow[w].acted
    /\ Ends(w, "raised", "none")

Session(w) ==
    \/ SessionLooks(w) \/ SessionActs(w) \/ SessionDrops(w) \/ SessionCompletes(w)
    \/ SessionBlocked(w) \/ SessionStops(w) \/ SessionUnverified(w) \/ SessionRaises(w)

\* A plain screenshot with no executor: what it shows of a covered part is up to the
\* reader, and it says that it was covered, and what goes on above and below.
Perceptions(app, all) ==
    {[obstructed |-> Obstructed, front |-> desk.app = app, items |-> items,
      earlier |-> app = "calendar" /\ desk.top > 1,
      later |-> IF app = "slack" THEN "below" \in desk.unread ELSE desk.top + View <= Slots] :
        items \in {read \in SUBSET all : ~Obstructed => read = all}}

\* The workflow is over but for what comes after it; of all it knew the result is left,
\* and what the properties compare that with.
Concludes(w, pc, result) ==
    LET f == flow[w] IN
    flow' = [flow EXCEPT ![w] =
                [Idle EXCEPT !.kind = f.kind, !.pc = pc, !.desired = f.desired,
                             !.menuSeen = f.menuSeen, !.result = Over(result, NoResult),
                             !.shown = f.shown, !.sure = f.sure, !.covered = f.covered,
                             !.gap = f.gap]]

Reports(w, result) == Concludes(w, "report", result)

Fails(w) == Reports(w, NoResult)

\* The outermost exit gives the lease back, whatever happened.
Finish(w) ==
    /\ flow[w].pc = "report"
    /\ Exit(w)
    /\ Goto(w, Idle)
    /\ UNCHANGED deskVars

\* A workflow's process is killed.
Dies(w) ==
    /\ flow[w].pc # "idle"
    /\ Drop(w)
    /\ Goto(w, Idle)
    /\ Surprise
    /\ UNCHANGED <<desk, late, inputs>>
================================================================================
