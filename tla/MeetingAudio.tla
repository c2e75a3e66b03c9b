----------------------------- MODULE MeetingAudio -----------------------------
(****************************************************************************)
(* What the recorder worker may rely on while it records a meeting: it is   *)
(* told at most once that audio arrived, it is handed the finished parts in *)
(* the order they were recorded, and a capture that returns, returns exactly*)
(* the parts it handed over.                                                *)
(****************************************************************************)
EXTENDS Naturals, Sequences

CONSTANTS Parts, None

VARIABLES
    ready,          \* how often readiness was announced
    handed,         \* the parts handed over, in order
    outcome,        \* None while the capture runs
    result          \* the parts of a capture that returned

audioVars == <<ready, handed, outcome, result>>

Init == ready = 0 /\ handed = <<>> /\ outcome = None /\ result = <<>>

BecomeReady ==
    /\ outcome = None /\ ready = 0
    /\ ready' = 1
    /\ UNCHANGED <<handed, outcome, result>>

HandOver(p) ==
    /\ outcome = None
    /\ \A i \in DOMAIN handed : handed[i] < p
    /\ handed' = Append(handed, p)
    /\ UNCHANGED <<ready, outcome, result>>

Return ==
    /\ outcome = None /\ handed # <<>>
    /\ outcome' = "returned" /\ result' = handed
    /\ UNCHANGED <<ready, handed>>

\* A capture that could not connect has nothing to hand over.
Raise(error) ==
    /\ outcome = None
    /\ error \in {"connection", "auth"} => handed = <<>>
    /\ outcome' = error
    /\ UNCHANGED <<ready, handed, result>>

Next ==
    \/ BecomeReady
    \/ \E p \in Parts : HandOver(p)
    \/ Return
    \/ \E error \in {"connection", "auth", "noaudio", "local", "other"} : Raise(error)

Spec == Init /\ [][Next]_audioVars
================================================================================
