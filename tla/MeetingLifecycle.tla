-------------------------- MODULE MeetingLifecycle --------------------------
(***************************************************************************)
(* What the state file promises, without saying how: one meeting at a time *)
(* on this Mac, recorded by at most one process, which once it has stopped *)
(* being recorded is only ever processed, and once over stays over.        *)
(***************************************************************************)
CONSTANTS Sessions, Pids, None

VARIABLES
    meeting,    \* the session known to the Mac, or None
    stage,      \* how far it has come
    holder,     \* the process recording it, or None
    past        \* every session so far

lifeVars == <<meeting, stage, holder, past>>

\* absent: no meeting is known; lost: what is known of it cannot be read.
Stages == {"absent", "lost", "open", "held", "captured", "over"}

Init == meeting = None /\ stage = "absent" /\ holder = None /\ past = {}

Open(s) ==
    /\ stage \in {"absent", "over"}
    /\ s \notin past
    /\ meeting' = s /\ stage' = "open" /\ holder' = None /\ past' = past \cup {s}

Hold(p) ==
    /\ stage = "open"
    /\ stage' = "held" /\ holder' = p
    /\ UNCHANGED <<meeting, past>>

\* The capture is over, with audio to process or with none.
EndCapture ==
    /\ stage \in {"open", "held"}
    /\ stage' \in {"captured", "over"}
    /\ holder' = None
    /\ UNCHANGED <<meeting, past>>

Finish ==
    /\ stage = "captured"
    /\ stage' = "over"
    /\ UNCHANGED <<meeting, holder, past>>

\* Only a meeting that is over is forgotten; one that cannot be read is lost.
Forget ==
    /\ stage \in {"over", "lost"}
    /\ meeting' = None /\ stage' = "absent" /\ holder' = None
    /\ UNCHANGED past

Lose ==
    /\ stage \notin {"absent", "lost"}
    /\ meeting' = None /\ stage' = "lost" /\ holder' = None
    /\ UNCHANGED past

Next ==
    \/ \E s \in Sessions : Open(s)
    \/ \E p \in Pids : Hold(p)
    \/ EndCapture
    \/ Finish
    \/ Forget
    \/ Lose

Spec == Init /\ [][Next]_lifeVars
=============================================================================
