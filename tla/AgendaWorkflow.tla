----------------------------- MODULE AgendaWorkflow -----------------------------
(***************************************************************************)
(* Reading today's calendar: bring it forward, read, clear what covers it  *)
(* once, scroll while the day continues below, merge what was read.        *)
(***************************************************************************)
EXTENDS WorkflowSession

CONSTANT MaxRounds      \* _MAX_SCROLL_ROUNDS

Reading(w, pc) == At(w, "agenda", pc)

ForegroundCalendar(w) ==
    /\ Reading(w, "main")
    /\ Run(w, "calendar", 1)

\* A failed walk is reported at once when a fresh screenshot would meet the same wall.
Unreadable(w) ==
    /\ Reading(w, "decide") /\ flow[w].stage = 1 /\ flow[w].stop \in {"blocked", "raised"}
    /\ Fails(w)
    /\ UNCHANGED <<lockVars, deskVars>>

\* Every read: the first, the one after a dismissal, one per scroll.
ReadCalendar(w) ==
    /\ Reading(w, "decide")
    /\ IF flow[w].stage = 1 THEN flow[w].stop \in {"completed", "other", "verification_failed"}
                            ELSE flow[w].stop = "completed"
    /\ \E p \in Perceptions("calendar", Visible) :
          Goto(w, [pc |-> "seen", read |-> p, covered |-> flow[w].covered \/ p.obstructed,
                   at |-> desk.top,
                   gap |-> flow[w].gap \/ (flow[w].stage > 2 /\ desk.top > flow[w].at + View)])
    /\ UNCHANGED <<lockVars, deskVars>>

DismissOverlay(w) ==
    /\ Reading(w, "seen") /\ flow[w].stage = 1 /\ flow[w].read.obstructed
    /\ flow[w].stop = "completed" \/ flow[w].read.front
    /\ Run(w, "dismiss", 2)

\* The overlay stays; the covered read is kept.
KeepCovered(w) ==
    /\ Reading(w, "decide") /\ flow[w].stage = 2 /\ flow[w].stop # "completed"
    /\ IF flow[w].stop = "raised" THEN Fails(w) ELSE Goto(w, [pc |-> "seen"])
    /\ UNCHANGED <<lockVars, deskVars>>

\* Not safe to read, no calendar, not today: no read of such a screen is reported.
Refused(w) ==
    /\ Reading(w, "seen")
    /\ Fails(w)
    /\ UNCHANGED <<lockVars, deskVars>>

Merged(w) == flow[w].merged \cup flow[w].read.items

EarlierTruncated(w) == IF flow[w].stage < 3 THEN flow[w].read.earlier ELSE flow[w].earlier

FirstReadDone(w) ==
    /\ Reading(w, "seen") /\ flow[w].read.front
    /\ flow[w].stage # 1 \/ ~flow[w].read.obstructed

\* The day goes on below and this read showed something new: scroll again.
Scrolls(w) ==
    /\ FirstReadDone(w)
    /\ flow[w].read.later /\ flow[w].stage < 2 + MaxRounds
    /\ flow[w].stage >= 3 => flow[w].read.items \ flow[w].merged # {}
    /\ Enter(w)
    /\ Goto(w, [pc |-> "session", goal |-> "scroll",
                stage |-> IF flow[w].stage < 3 THEN 3 ELSE flow[w].stage + 1,
                acted |-> FALSE, last |-> "none", stop |-> "none",
                merged |-> Merged(w), earlier |-> EarlierTruncated(w)])
    /\ UNCHANGED deskVars

\* A scroll that did not succeed ends the scrolling with the read before it.
ScrollStopped(w) ==
    /\ Reading(w, "decide") /\ flow[w].stage > 2 /\ flow[w].stop # "completed"
    /\ IF flow[w].stop = "raised" THEN Fails(w) ELSE Goto(w, [pc |-> "merged"])
    /\ UNCHANGED <<lockVars, deskVars>>

\* Slip: a stretch without meetings is taken for the end of the day.
DayEndsEmpty(w) ==
    Reports(w, [success |-> TRUE, items |-> Merged(w),
                flagged |-> \/ flow[w].read.obstructed \/ EarlierTruncated(w)
                            \/ flow[w].read.later /\ flow[w].read.items \ flow[w].merged # {}])

Day(w) ==
    Reports(w, [success |-> TRUE, items |-> Merged(w),
                flagged |-> flow[w].read.obstructed \/ flow[w].read.later \/ EarlierTruncated(w)])

\* An empty day that is covered is no free afternoon.
TrustedDay(w) == flow[w].read.obstructed => Merged(w) # {}

ReportDay(w) ==
    /\ \/ Reading(w, "merged")
       \/ /\ FirstReadDone(w)
          /\ \/ ~flow[w].read.later
             \/ flow[w].stage = 2 + MaxRounds
             \/ flow[w].stage >= 3 /\ flow[w].read.items \subseteq flow[w].merged
    /\ IF TrustedDay(w) THEN Day(w) ELSE Fails(w)
    /\ UNCHANGED <<lockVars, deskVars>>

AgendaStep(w) ==
    \/ ForegroundCalendar(w) \/ Unreadable(w) \/ ReadCalendar(w) \/ DismissOverlay(w)
    \/ KeepCovered(w) \/ Refused(w) \/ Scrolls(w) \/ ScrollStopped(w) \/ ReportDay(w)
================================================================================
