----------------------------- MODULE RemoteDesktop -----------------------------
(***************************************************************************)
(* The computer behind a KVM as the workflows meet it: which application   *)
(* is in front, what covers it, Slack's profile menu and availability, its *)
(* unread marks, and the calendar day that shows View of its Slots.  It    *)
(* may lose an input, react late, and change by itself at any moment.      *)
(***************************************************************************)
EXTENDS AgentPolicy

CONSTANTS
    Slots,          \* the hours of the day are 1..Slots
    View,           \* how many of them fit on the screen
    MaxJump,        \* how many of them one scroll action may move by
    Days,           \* the days there may be: the hours with a meeting
    Inboxes,        \* what may be unread: a direct message, a channel, entries below the fold
    Slow,           \* the controls that may react late
    MaxInputs,      \* bound: inputs of all sessions
    MaxSurprises    \* bound: things that pop up, late reactions, processes killed

ASSUME DesktopAssumption ==
    /\ {Slots, View} \subseteq Nat \ {0} /\ View <= Slots
    /\ {MaxJump, MaxInputs, MaxSurprises} \subseteq Nat
    /\ Days \subseteq SUBSET (1..Slots)
    /\ Inboxes \subseteq SUBSET {"dm", "channel", "below"}
    /\ Slow \subseteq {"launcher", "calendar", "profile", "toggle", "event"}

VARIABLES
    desk,
    late,       \* the control that was hit and has not reacted yet
    inputs,
    surprises

deskVars == <<desk, late, inputs, surprises>>

\* In front: Slack, the calendar, a call, or something else, with or without Slack in
\* sight beside it.
Apps == {"slack", "calendar", "other", "beside", "call"}
Covers == {"none", "popover", "dialog", "lock"}
Availabilities == {"active", "away"}

DeskInit ==
    /\ \E app \in Apps \ {"call"}, avail \in Availabilities, unread \in Inboxes, day \in Days :
          desk = [app |-> app, over |-> "none", menu |-> FALSE, avail |-> avail,
                  unread |-> unread, day |-> day, top |-> 1]
    /\ late = "none"
    /\ inputs = 0
    /\ surprises = 0

Visible == desk.day \cap (desk.top .. desk.top + View - 1)
Obstructed == desk.menu \/ desk.over # "none"

\* What decides on the controls shown.
Scene(d) == [app |-> d.app, over |-> d.over, menu |-> d.menu]
Scenes == [app : Apps, over : Covers, menu : BOOLEAN]

\* The dock is always there; the rest belongs to the windows one can see.
Shown(s) ==
    {"launcher", "calendar"}
    \cup (IF s.app = "slack" THEN {"profile", "send", "blur"} ELSE {})
    \cup (IF s.app \in {"slack", "beside"} THEN {"conversation", "channel"} ELSE {})
    \cup (IF s.app = "calendar" THEN {"event", "join"} ELSE {})
    \cup (IF s.menu THEN {"toggle"} ELSE {})
    \cup (IF s.over = "dialog" THEN {"answer", "shutdown"} ELSE {})

\* Everything an engine finds in the words of what is shown.
Context(s) == UNION {Words[e] : e \in Shown(s)}

\* The analyses a vision model may give of a scene: of what is there it tells the
\* truth, but it may call any screen unsafe, and see or miss a search field.
Analyses(s) ==
    {[app |-> s.app, locked |-> s.over = "lock", safe |-> safe, dialog |-> s.over = "dialog",
      search |-> search, context |-> Context(s), shown |-> Shown(s)] :
        safe \in {b \in BOOLEAN : b => s.over # "lock"}, search \in BOOLEAN}

\* Manual availability is told by the toggle of the open menu and by nothing else.
Evidence(d) == IF d.menu THEN d.avail ELSE "none"

Front(app) == [desk EXCEPT !.app = app, !.menu = @ /\ app = "slack"]

\* A system dialog stays until it is answered.
Answered == [desk EXCEPT !.over = "none"]

Opened(entry) == [desk EXCEPT !.app = "slack", !.menu = FALSE, !.unread = @ \ {entry}]

Clicked(e) ==
    CASE e = "launcher" -> Front("slack")
      [] e = "calendar" -> Front("calendar")
      [] e = "profile" -> [desk EXCEPT !.menu = TRUE]
      [] e = "toggle" -> [desk EXCEPT !.menu = FALSE, !.avail = CHOOSE a \in Availabilities : a # @]
      [] e = "conversation" -> Opened("dm")
      [] e = "channel" -> Opened("channel")
      [] e = "join" -> Front("call")
      [] e = "event" -> [desk EXCEPT !.over = IF @ = "none" THEN "popover" ELSE @]
      [] e \in {"answer", "shutdown"} -> Answered
      [] OTHER -> desk

Escaped ==
    IF desk.over = "dialog" THEN Answered
    ELSE IF desk.menu THEN [desk EXCEPT !.menu = FALSE]
    ELSE [desk EXCEPT !.over = IF @ = "popover" THEN "none" ELSE @]

\* Enter opens what was searched for, or activates what has the focus, which Tab
\* may have moved to any control of the window in front.
Entered ==
    IF desk.over = "dialog" THEN {Answered}
    ELSE {Front("slack")} \cup {Clicked(e) : e \in Shown(Scene(desk))}

Scrolled(t) == [desk EXCEPT !.top = t]

\* The tops of the day within reach of one scroll, up or down.
Reach == {t \in 1 .. Slots - View + 1 : t <= desk.top + MaxJump /\ desk.top <= t + MaxJump}

\* A click goes to the point where its control was analysed: if the screen has
\* changed since, it hits whatever is there now.
Hits(e, changed) == IF changed THEN Shown(desk) ELSE {e}

\* The desktops an input may lead to; a locked screen takes none.
Effects(a, changed) ==
    IF desk.over = "lock" THEN {desk}
    ELSE CASE a.type = "click" -> {Clicked(e) : e \in Hits(a.on, changed)}
           [] a = Key("Escape") -> {Escaped}
           [] a = Key("Enter") -> Entered
           [] a = Hotkey("switch") -> {Front(app) : app \in Apps \ {"call"}}
           [] a.type = "scroll" /\ desk.app = "calendar" -> {Scrolled(t) : t \in Reach}
           [] OTHER -> {desk}

Surprise == surprises < MaxSurprises /\ surprises' = surprises + 1

\* An input is sent: it is lost, or takes effect, or its control will react late.
Send(a, changed) ==
    \/ /\ desk' \in {desk} \cup Effects(a, changed)
       /\ UNCHANGED <<late, surprises>>
    \/ /\ a.type = "click" /\ desk.over # "lock" /\ late = "none"
       /\ late' \in Hits(a.on, changed) \cap Slow
       /\ Surprise
       /\ UNCHANGED desk

React ==
    /\ late # "none"
    /\ desk' = Clicked(late)
    /\ late' = "none"
    /\ UNCHANGED <<inputs, surprises>>

\* A notification, a system dialog or the screen lock comes up by itself.
PopUp ==
    /\ desk.over = "none"
    /\ Surprise
    /\ \E c \in Covers \ {"none"} : desk' = [desk EXCEPT !.over = c]
    /\ UNCHANGED <<late, inputs>>

\* A notification goes away by itself.
Vanish ==
    /\ desk.over = "popover"
    /\ desk' = [desk EXCEPT !.over = "none"]
    /\ UNCHANGED <<late, inputs, surprises>>

Desktop == React \/ PopUp \/ Vanish
================================================================================
