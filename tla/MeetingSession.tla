---------------------------- MODULE MeetingSession ----------------------------
(***************************************************************************)
(* What the processes of the meeting recorder share: the state file, the   *)
(* artifacts in each session's directory, the two advisory locks there,    *)
(* and the read-and-compare_and_set loop by which all of them write the    *)
(* state (MeetingService._update_state, worker._WorkerState.update).       *)
(*                                                                         *)
(* An actor is a caller (a process running a meeting command) or the       *)
(* recorder worker of a session, which is named by its session: start      *)
(* spawns one worker per session.  The kernel drops both locks of a        *)
(* process that dies.                                                      *)
(*                                                                         *)
(* Error codes are kept apart as far as a property does: setup_failed      *)
(* stands for artifact_setup_failed and worker_start_failed,               *)
(* capture_failed for every code of a worker that failed, and              *)
(* processing_failed for every code of a failed processing.                *)
(***************************************************************************)
EXTENDS MeetingStateStore

CONSTANTS
    Callers,    \* processes that run meeting commands
    Probe,      \* holds a capture lock for the instant of a status probe
    Keep,       \* a field that an update leaves as it is
    Attempts    \* reads and compare_and_sets before an update gives up

\* The codes that the recorder, its commands and its processing write.
WrittenCodes == {"setup_failed", "capture_failed", "processing_failed",
                 "no_audio_before_stop", "recorder_process_stopped",
                 "capture_recovery_failed", "webrtc_disconnected", "local_interruption"}

\* What a capture manifest tells: how the capture ended and when it started.
Manifests == [code : ErrorCodes \cup {None}, started : Times \cup {None}]

ASSUME SessionAssumption ==
    /\ Pids = Sessions
    /\ 0..MaxRevision \subseteq Times
    /\ Callers \cap Sessions = {}
    /\ {None, Probe} \cap (Callers \cup Sessions) = {}
    /\ Keep \notin Phases \cup ErrorCodes \cup {None}
    /\ WrittenCodes \subseteq ErrorCodes
    /\ None \notin Manifests
    /\ Attempts \in Nat \ {0}

VARIABLES
    files,          \* the artifacts of each session directory
    captureLock,    \* who holds capture.lock of each session
    processLock,    \* who holds processing.lock of each session
    pc,             \* where each actor is
    frame           \* the update each actor is making, while pc is "update"

sessionVars == <<state, used, files, captureLock, processLock, pc, frame>>

Actors == Callers \cup Sessions

\* checkpoint and manifest are None or record when recording started; a
\* manifest also tells how the capture was interrupted.  A transcript and an
\* intelligence artifact carry the fingerprint of the manifest they are made
\* from, which is the manifest itself here.
NoFiles == [dir |-> FALSE, stop |-> FALSE, checkpoint |-> None, manifest |-> None,
            transcript |-> None, intelligence |-> None, report |-> FALSE]

NoFrame == [session |-> None, phase |-> Keep, err |-> Keep, only |-> Phases,
            seen |-> None, left |-> 0, ok |-> None, fail |-> None]

\* Clock readings are told apart by the revision they are recorded at.
Now == state.rev

Goto(a, label) == pc' = [pc EXCEPT ![a] = label]

\* Slip: the lock is taken from its holder.
Seize(lock, s, a) == lock' = [lock EXCEPT ![s] = a]

Acquire(lock, s, a) == lock[s] = None /\ lock' = [lock EXCEPT ![s] = a]

Release(lock, s) == lock' = [lock EXCEPT ![s] = None]

\* A crash or an exit gives back every lock that a holds.
Drop(lock, a) == lock' = [s \in Sessions |-> IF lock[s] = a THEN None ELSE lock[s]]

HasFile(s, f) == files[s][f] # None

SetFile(s, f, v) == files' = [files EXCEPT ![s][f] = v]

-----------------------------------------------------------------------------
\* a calls update(session, **changes): only the phases in "only" are changed.
CallUpdateIn(a, s, only, phase, err, ok, fail) ==
    /\ frame' = [frame EXCEPT ![a] =
          [session |-> s, phase |-> phase, err |-> err, only |-> only,
           seen |-> None, left |-> Attempts, ok |-> ok, fail |-> fail]]
    /\ Goto(a, "update")

CallUpdate(a, s, phase, err, ok, fail) ==
    CallUpdateIn(a, s, Phases, phase, err, ok, fail)

Return(a, label) == Goto(a, label) /\ frame' = [frame EXCEPT ![a] = NoFrame]

\* The session is still the current one, and a worker still owns it.
MayUpdate(a) ==
    /\ Current(frame[a].session)
    /\ a \in Sessions => state.pid = a

\* replace(current, **changes): whoever leaves capture gives up the worker.
Changed(r, f) ==
    LET phase == IF f.phase = Keep THEN r.phase ELSE f.phase
    IN  [r EXCEPT !.phase = phase,
                  !.pid = IF phase \in CapturePhases THEN @ ELSE None,
                  !.err = IF f.err = Keep THEN @ ELSE f.err]

UpdateRead(a) ==
    /\ pc[a] = "update"
    /\ frame[a].seen = None
    /\ CASE ~MayUpdate(a) -> Return(a, frame[a].fail)
         [] MayUpdate(a) /\ state.phase \notin frame[a].only -> Return(a, frame[a].ok)
         [] OTHER -> /\ frame' = [frame EXCEPT ![a].seen = state.rev]
                     /\ UNCHANGED pc
    /\ UNCHANGED <<state, used, files, captureLock, processLock>>

\* The revision is the one read, so the record is the one read.
UpdateCommit(a) ==
    /\ pc[a] = "update"
    /\ frame[a].seen # None
    /\ CompareAndSet(frame[a].session, frame[a].seen, Changed(state, frame[a]))
    /\ Return(a, frame[a].ok)
    /\ UNCHANGED <<files, captureLock, processLock>>

UpdateConflict(a) ==
    /\ pc[a] = "update"
    /\ frame[a].seen # None
    /\ ~ (/\ Current(frame[a].session)
          /\ Accepts(frame[a].session, frame[a].seen, Changed(state, frame[a])))
    /\ IF Current(frame[a].session) /\ frame[a].left > 1
       THEN /\ frame' = [frame EXCEPT ![a].seen = None, ![a].left = @ - 1]
            /\ UNCHANGED pc
       ELSE Return(a, frame[a].fail)
    /\ UNCHANGED <<state, used, files, captureLock, processLock>>

Update(a) == UpdateRead(a) \/ UpdateCommit(a) \/ UpdateConflict(a)
=============================================================================
