------------------------------ MODULE AgentPolicy ------------------------------
(***************************************************************************)
(* What the local policy says of an action on an analysed screen: the      *)
(* generic engine and the ones the Slack and calendar workflows put in     *)
(* front of it.  Decisions are "allow", "approval" and "deny".             *)
(***************************************************************************)
EXTENDS Naturals, FiniteSets

\* A label is the set of word classes the engines look for in it.
Words == [launcher |-> {"slack"}, calendar |-> {}, profile |-> {"profile"},
          toggle |-> {"toggle"}, conversation |-> {}, channel |-> {"#"},
          event |-> {}, join |-> {"join"}, answer |-> {"answer", "dialog"},
          send |-> {"consequential"}, shutdown |-> {"destructive"}, blur |-> {"unknown role"}]

Elements == DOMAIN Words
Risks == {"read_only", "navigation", "local_edit", "external", "unknown",
          "authentication", "destructive", "system_change"}
Purposes == {"search", "content", "external", "local", "authentication"}

Click(e) == [type |-> "click", on |-> e]
Key(k) == [type |-> "key", on |-> k]
Hotkey(k) == [type |-> "hotkey", on |-> k]
Text(p) == [type |-> "text", on |-> p]
Scroll == [type |-> "scroll", on |-> "grid"]

Keys == {"Escape", "Enter", "Tab", "F5", "Power"}
Hotkeys == {"switch", "launch", "close", "lock"}
Actions ==
    {Click(e) : e \in Elements} \cup {Key(k) : k \in Keys} \cup {Scroll}
        \cup {Hotkey(k) : k \in Hotkeys} \cup {Text(p) : p \in Purposes}

\* A screen as the analysis describes it:
\*   app       the foreground application
\*   locked    an authentication or lock screen
\*   safe      safe to continue and no hard-stop warning
\*   dialog    the unexpected_dialog warning
\*   search    a visible search field
\*   context   word classes of everything visible, as Enter looks at them
\*   shown     the elements

Allow == "allow"
Approval == "approval"
Deny == "deny"

\* Slip: only clicks are looked at.
AnswersByClick(a, screen) ==
    screen.dialog /\ a.type = "click" /\ a.on \in screen.shown /\ "answer" \in Words[a.on]

\* With an unexpected dialog on screen it may be walked around, not answered.
Answers(a, screen) ==
    /\ screen.dialog
    /\ \/ a \in {Key("Enter"), Key("Escape")}
       \/ a.type = "click" /\ a.on \in screen.shown /\ "answer" \in Words[a.on]

TypeText(a, screen) ==
    IF screen.app = "terminal" \/ a.on = "authentication" THEN Deny
    ELSE IF a.on = "search" THEN (IF screen.search THEN Allow ELSE Deny)
    ELSE Approval

PressKey(a, screen) ==
    CASE a.on = "Power" -> Deny
      [] a.on = "Enter" -> IF "destructive" \in screen.context THEN Deny
                           ELSE IF "consequential" \in screen.context THEN Approval
                           ELSE IF screen.search THEN Allow ELSE Approval
      [] a.on \in {"Escape", "Tab"} -> Allow
      [] OTHER -> Approval

PressHotkey(a) ==
    CASE a.on = "lock" -> Deny
      [] a.on \in {"switch", "launch"} -> Allow
      [] OTHER -> Approval

ElementAction(a, screen) ==
    IF a.on \notin screen.shown \/ "destructive" \in Words[a.on] THEN Deny
    ELSE IF {"consequential", "unknown role"} \cap Words[a.on] # {} THEN Approval
    ELSE Allow

SlackToggle(a, screen) ==
    a.type = "click" /\ screen.app = "slack" /\ a.on \in screen.shown /\ "toggle" \in Words[a.on]

\* PolicyEngine.evaluate, for an action that sends HID input.
Generic(a, risk, screen) ==
    IF \/ screen.locked \/ ~screen.safe
       \/ risk \in {"destructive", "system_change", "authentication"}
       \/ Answers(a, screen)
    THEN Deny
    ELSE IF SlackToggle(a, screen) THEN Allow
    ELSE IF risk \in {"external", "local_edit", "unknown"} THEN Approval
    ELSE CASE a.type = "text" -> TypeText(a, screen)
           [] a.type = "key" -> PressKey(a, screen)
           [] a.type = "hotkey" -> PressHotkey(a)
           [] a.type = "scroll" -> Allow
           [] a.type = "click" -> ElementAction(a, screen)

\* A launcher entry for Slack while another application is in front, or the
\* profile control of Slack itself.
NavigationElement(e, screen) ==
    /\ e \in screen.shown
    /\ \/ screen.app # "slack" /\ "slack" \in Words[e]
       \/ screen.app = "slack" /\ "profile" \in Words[e] /\ "consequential" \notin Words[e]

ScopedNavigation(a, screen) ==
    \/ a.type = "click" /\ NavigationElement(a.on, screen)
    \/ a \in {Hotkey("launch"), Text("search"), Key("Enter")}

\* Risk overclassified by the planner does not stop bounded Slack navigation.
SlackAvailability(a, risk, screen) ==
    LET said == Generic(a, risk, screen)
    IN  IF said # Approval \/ ~ScopedNavigation(a, screen) THEN said
        ELSE IF Generic(a, "navigation", screen) = Deny THEN Deny ELSE Allow

\* Bringing an application forward is navigation, whatever the planner says.
Relaxed(a, risk, screen) ==
    IF Generic(a, risk, screen) = Approval /\ Generic(a, "navigation", screen) = Allow
    THEN Allow ELSE Generic(a, risk, screen)

\* Once Slack is in front there is nothing left to click: only Escape passes.
SlackTriage(a, risk, screen) ==
    IF Generic(a, risk, screen) = Deny THEN Deny
    ELSE IF screen.app = "slack" THEN (IF a = Key("Escape") THEN Allow ELSE Deny)
    ELSE IF a.type = "click" /\ "#" \in Words[a.on] /\ a.on \in screen.shown THEN Deny
    ELSE Relaxed(a, risk, screen)

\* Never a join or an answer to an invitation, never a part of a system dialog.
Agenda(a, risk, screen) ==
    LET words == IF a.type = "click" /\ a.on \in screen.shown THEN Words[a.on] ELSE {}
    IN  IF \/ Generic(a, risk, screen) = Deny
           \/ a = Key("Escape") /\ screen.dialog
           \/ {"join", "dialog"} \cap words # {}
           \/ a \in {Text("content"), Text("external")}
        THEN Deny
        ELSE Relaxed(a, risk, screen)

\* The scroll phase only scrolls the calendar in front.
AgendaScroll(a, risk, screen) == IF a.type = "scroll" THEN Agenda(a, risk, screen) ELSE Deny
================================================================================
