---------------------------- MODULE MeetingPhases ----------------------------
(***************************************************************************)
(* The phases of a recorded meeting and the transitions a stored session   *)
(* may make: RecorderPhase, CAPTURE_PHASES and _ALLOWED_TRANSITIONS of     *)
(* meeting/state.py.  A phase is written as the value of the StrEnum.      *)
(***************************************************************************)

\* A process may be recording: the phase belongs to the recorder.
CapturePhases == {"starting", "recording", "stop_requested", "finalizing"}

\* RecorderPhase.terminal: the session is over and another may be reserved.
TerminalPhases == {"completed", "audio_unavailable", "failed"}

\* The audio is on disk and only processing is left to do.
ProcessingPhases == {"transcribing", "analyzing"}

AwaitingPhases ==
    {"ready_for_processing", "disconnected", "interrupted", "processing_failed"}

Phases ==
    CapturePhases \cup ProcessingPhases \cup AwaitingPhases \cup TerminalPhases

\* How a capture can end other than by a normal stop.
CaptureFailures == {"interrupted", "disconnected", "audio_unavailable", "failed"}

\* _ALLOWED_TRANSITIONS, as pairs; no pair leaves a terminal phase.
Allowed ==
    {"starting"} \X ({"recording", "stop_requested"} \cup CaptureFailures)
    \cup {"recording"} \X
            ({"stop_requested", "finalizing", "ready_for_processing"} \cup CaptureFailures)
    \cup {"stop_requested"} \X ({"finalizing", "ready_for_processing"} \cup CaptureFailures)
    \cup {"finalizing"} \X ({"ready_for_processing"} \cup CaptureFailures)
    \cup {"ready_for_processing", "disconnected", "interrupted"} \X
            {"transcribing", "processing_failed", "failed"}
    \cup {"transcribing"} \X {"analyzing", "processing_failed", "failed"}
    \cup {"analyzing"} \X {"transcribing", "completed", "processing_failed", "failed"}
    \cup {"processing_failed"} \X {"transcribing", "failed"}

\* Slip: a failed session may be retried.
RetriesFailed(current, requested) ==
    requested = current \/ <<current, requested>> \in Allowed \cup {<<"failed", "transcribing">>}

\* Staying in a phase is always allowed, even in a terminal one.
TransitionAllowed(current, requested) ==
    requested = current \/ <<current, requested>> \in Allowed
=============================================================================
