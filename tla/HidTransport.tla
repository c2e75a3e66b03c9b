----------------------------- MODULE HidTransport -----------------------------
(***************************************************************************)
(* The PiKVM client of one session: logging in, the requests an HID action *)
(* is made of, screenshots, and what the executor reports.  The network    *)
(* may lose or delay a request and the session may expire at any moment;   *)
(* a request the client gave up on may still be acted on later.            *)
(***************************************************************************)
EXTENDS Naturals, Sequences

CONSTANTS
    Shapes,         \* how many requests an action takes
    MaxRetries,     \* settings.max_retries
    MaxActions,     \* bound on the actions of a session
    None

Answers == {"ok", "bad", "unauthorized", "error"}

ASSUME TransportAssumption ==
    /\ Shapes \subseteq Nat \ {0}
    /\ MaxRetries \in Nat
    /\ MaxActions \in Nat
    /\ None \notin Answers

VARIABLES
    pc,             \* "idle", or where the client's thread is in a call
    call,           \* the locals of the call in progress, or None
    authenticated,  \* _authenticated
    answer,         \* PiKVM's answer to the request the client waits for, or None
    wire,           \* HID requests PiKVM has not dealt with yet
    parts,          \* the requests of each action, the one in progress last
    reports,        \* transport_status of each finished action
    applied         \* the requests PiKVM has acted on, in order

vars == <<pc, call, authenticated, answer, wire, parts, reports, applied>>

Init ==
    /\ pc = "idle"
    /\ call = None
    /\ authenticated = FALSE
    /\ answer = None
    /\ wire = {}
    /\ parts = <<>>
    /\ reports = <<>>
    /\ applied = <<>>

NewCall(kind, part, refreshed) ==
    [kind |-> kind, part |-> part, attempt |-> 1, repeated |-> FALSE, refreshed |-> refreshed]

Request == [action |-> Len(parts), part |-> call.part, attempt |-> call.attempt]

-----------------------------------------------------------------------------
\* Beginning a call.

Execute(n) ==
    /\ pc = "idle"
    /\ Len(parts) < MaxActions
    /\ parts' = Append(parts, n)
    /\ call' = NewCall("hid", 1, FALSE)
    /\ pc' = "login"
    /\ UNCHANGED <<authenticated, answer, wire, reports, applied>>

\* A target that is gone or an argument out of range: nothing is sent.
Unsendable(n) ==
    /\ pc = "idle"
    /\ Len(parts) < MaxActions
    /\ parts' = Append(parts, n)
    /\ reports' = Append(reports, "failed")
    /\ UNCHANGED <<pc, call, authenticated, answer, wire, applied>>

GetScreenshot ==
    /\ pc = "idle"
    /\ call' = NewCall("shot", 1, FALSE)
    /\ pc' = "login"
    /\ UNCHANGED <<authenticated, answer, wire, parts, reports, applied>>

-----------------------------------------------------------------------------
\* How a call ends.

\* "timeout" stands for every transport error, "refused" for an error status of
\* an HID request, "rejected" for one of a login or a screenshot, "other" for
\* a second factor that could not be computed.
Status(error) == IF error \in {"timeout", "protocol", "refused"} THEN "uncertain" ELSE "failed"

Return ==
    /\ pc' = "idle"
    /\ call' = None
    /\ answer' = None

Conclude(status) ==
    /\ call.kind = "hid"
    /\ reports' = Append(reports, status)
    /\ Return
    /\ UNCHANGED authenticated

\* PiKVMSession replaces the client once when a screenshot is rejected.
Refreshes(error) == error = "auth" /\ ~call.refreshed

Refresh ==
    /\ call' = NewCall("shot", 1, TRUE)
    /\ pc' = "login"
    /\ authenticated' = FALSE
    /\ answer' = None

Fail(error) ==
    \/ Conclude(Status(error))
    \/ /\ call.kind = "shot"
       /\ IF Refreshes(error) THEN Refresh ELSE Return /\ UNCHANGED authenticated
       /\ UNCHANGED reports

-----------------------------------------------------------------------------
\* login: only a client that is not authenticated sends anything.

LoggedInAlready ==
    /\ pc = "login"
    /\ authenticated
    /\ pc' = "send"
    /\ UNCHANGED <<call, authenticated, answer, wire, parts, reports, applied>>

PostLogin ==
    /\ pc = "login"
    /\ ~authenticated
    /\ pc' = "loginwait"
    /\ UNCHANGED <<call, authenticated, answer, wire, parts, reports, applied>>

NoSecondFactor ==
    /\ pc = "login"
    /\ ~authenticated
    /\ Fail("other")
    /\ UNCHANGED <<wire, parts, applied>>

LoginAccepted ==
    /\ pc = "loginwait"
    /\ authenticated' = TRUE
    /\ call' = [call EXCEPT !.attempt = 1]
    /\ pc' = "send"
    /\ UNCHANGED <<answer, wire, parts, reports, applied>>

Attempts == MaxRetries + 1

\* No answer in time, or a status worth another attempt.
LoginAgain ==
    /\ pc = "loginwait"
    /\ call.attempt < Attempts
    /\ call' = [call EXCEPT !.attempt = @ + 1]
    /\ UNCHANGED <<pc, authenticated, answer, wire, parts, reports, applied>>

LoginRefused ==
    /\ pc = "loginwait"
    /\ \/ Fail("auth")
       \/ Fail("rejected")
       \/ call.attempt >= Attempts /\ Fail("timeout")
    /\ UNCHANGED <<wire, parts, applied>>

-----------------------------------------------------------------------------
\* _request and _send.

Post ==
    /\ pc = "send"
    /\ wire' = IF call.kind = "hid" THEN wire \cup {Request} ELSE wire
    /\ pc' = "wait"
    /\ UNCHANGED <<call, authenticated, answer, parts, reports, applied>>

\* Slip: HID requests are sent again like all others.
AllRetryable == TRUE

Retryable == call.kind = "shot"

\* A screenshot has no effect on PiKVM: its answer is whatever arrives.
Arrives(a) ==
    /\ pc = "wait"
    /\ IF call.kind = "shot" THEN a \in Answers ELSE a = answer

\* The whole screenshot, or the acknowledgement of the action's last request.
Done ==
    /\ Arrives("ok")
    /\ IF call.kind = "hid"
       THEN call.part = parts[Len(parts)] /\ Conclude("sent")
       ELSE Return /\ UNCHANGED <<authenticated, reports>>
    /\ UNCHANGED <<wire, parts, applied>>

NextRequest ==
    /\ Arrives("ok") /\ call.kind = "hid"
    /\ call.part < parts[Len(parts)]
    /\ call' = NewCall("hid", call.part + 1, FALSE)
    /\ answer' = None
    /\ pc' = "login"
    /\ UNCHANGED <<authenticated, wire, parts, reports, applied>>

RejectBody == Arrives("bad") /\ Fail("protocol")

BadAnswer ==
    /\ RejectBody
    /\ UNCHANGED <<wire, parts, applied>>

\* Slip: a session may be renewed any number of times.
AlwaysRenew == FALSE

Renewed == TRUE

\* PiKVM turned the request away before looking at it: log in and repeat it, once.
Relogin ==
    /\ Arrives("unauthorized")
    /\ ~call.repeated
    /\ authenticated' = FALSE
    /\ call' = [call EXCEPT !.repeated = Renewed, !.attempt = 1]
    /\ answer' = None
    /\ pc' = "login"
    /\ UNCHANGED <<wire, parts, reports, applied>>

RejectedAgain ==
    /\ Arrives("unauthorized")
    /\ call.repeated
    /\ Fail("auth")
    /\ UNCHANGED <<wire, parts, applied>>

ErrorStatus ==
    /\ Arrives("error")
    /\ Fail(IF call.kind = "hid" THEN "refused" ELSE "rejected")
    /\ UNCHANGED <<wire, parts, applied>>

\* No answer in time, a broken connection, or a status worth another attempt.
SendAgain ==
    /\ pc = "wait"
    /\ Retryable /\ call.attempt < Attempts
    /\ call' = [call EXCEPT !.attempt = @ + 1]
    /\ answer' = None
    /\ pc' = "send"
    /\ UNCHANGED <<authenticated, wire, parts, reports, applied>>

GiveUp ==
    /\ pc = "wait"
    /\ ~(Retryable /\ call.attempt < Attempts)
    /\ Fail("timeout")
    /\ UNCHANGED <<wire, parts, applied>>

\* The session's end, or an exception that unwinds it from wherever it is.
Close ==
    /\ pc # "closed"
    /\ pc' = "closed"
    /\ call' = None
    /\ answer' = None
    /\ authenticated' = FALSE
    /\ UNCHANGED <<wire, parts, reports, applied>>

-----------------------------------------------------------------------------
\* PiKVM: it checks the session before it dispatches a request.

Answer(r, answers) ==
    IF pc = "wait" /\ call.kind = "hid" /\ r = Request THEN answer' \in answers
                                                       ELSE UNCHANGED answer

Apply(r) ==
    /\ applied' = Append(applied, [action |-> r.action, part |-> r.part])
    /\ wire' = wire \ {r}
    /\ Answer(r, {"ok", "bad", "error"})
    /\ UNCHANGED <<pc, call, authenticated, parts, reports>>

TurnAway(r) ==
    /\ wire' = wire \ {r}
    /\ Answer(r, {"unauthorized", "bad", "error"})
    /\ UNCHANGED <<pc, call, authenticated, parts, reports, applied>>

PiKVM == \E r \in wire : Apply(r) \/ TurnAway(r)

Login == LoggedInAlready \/ PostLogin \/ NoSecondFactor \/ LoginAccepted \/ LoginAgain \/ LoginRefused

Exchange ==
    \/ Post \/ Done \/ NextRequest \/ BadAnswer \/ Relogin \/ RejectedAgain \/ ErrorStatus
    \/ SendAgain \/ GiveUp

Client == Login \/ Exchange

Begin == (\E n \in Shapes : Execute(n) \/ Unsendable(n)) \/ GetScreenshot

Next == Begin \/ Client \/ Close \/ PiKVM

Spec == Init /\ [][Next]_vars

\* The client's thread runs on, and each of its waits has a timeout.
FairSpec == Spec /\ WF_vars(Client)

-----------------------------------------------------------------------------
\* Properties.

Calls == [kind : {"hid", "shot"}, part : Nat \ {0}, attempt : 1..MaxRetries + 1,
          repeated : BOOLEAN, refreshed : BOOLEAN]

\* Every variable keeps its type; no request is attempted more often than configured.
TypeOK ==
    /\ pc \in {"idle", "login", "loginwait", "send", "wait", "closed"}
    /\ IF pc \in {"idle", "closed"} THEN call = None ELSE call \in Calls
    /\ authenticated \in BOOLEAN
    /\ answer \in Answers \cup {None}
    /\ wire \subseteq [action : Nat, part : Nat, attempt : Nat]
    /\ parts \in Seq(Shapes)
    /\ reports \in Seq({"sent", "uncertain", "failed"})
    /\ applied \in Seq([action : Nat, part : Nat])

Delivery == INSTANCE HidDelivery

\* "Mutating HID calls are never retried": through expiring sessions, repeated
\* requests and late effects the executor keeps the promise of HidDelivery.
ImplementsDelivery == Delivery!Spec

\* Whatever PiKVM answers, every call returns: sessions are renewed once.
CallsReturn == (pc \notin {"idle", "closed"}) ~> (pc \in {"idle", "closed"})
=============================================================================
