---------------------------- MODULE MeetingWorker ----------------------------
(***************************************************************************)
(* The detached recorder process of a session (meeting/worker.py).  It     *)
(* takes the session's capture lock, claims the state, records until it is *)
(* stopped or the link or the disk fails, writes the manifest and moves    *)
(* the state on.  Its callbacks run on one event loop, so between two      *)
(* actions of a worker only other processes act.                           *)
(*                                                                         *)
(* What happens inside the capture (meeting/capture.py) is abstracted to   *)
(* its callbacks (first audio, heartbeat, finished part) and its outcomes. *)
(***************************************************************************)
EXTENDS MeetingSession

CONSTANT MaxBeats       \* bound: heartbeats of one recording

ASSUME WorkerAssumption == MaxBeats \in Nat

VARIABLE
    worker      \* what each worker keeps in memory

workerVars == <<sessionVars, worker>>

\* stop: the stop_requested event; signal: SIGINT or SIGTERM arrived.  Nothing
\* of it outlives the recording.
NewWorker == [stop |-> FALSE, signal |-> FALSE, beats |-> 0]

\* Where a worker's process is alive, and where it holds the capture lock.
WorkerAlive(w) == pc[w] \notin {"unborn", "gone"}

WorkerOwnsCapture(w) ==
    \/ pc[w] \in {"setup", "capture", "watched", "local_failed", "failing", "exit"}
    \/ pc[w] = "update" /\ frame[w].ok # "gone"

keepShared == UNCHANGED <<state, used, files, captureLock, processLock>>

\* _mark_unclaimed_worker_failed: a worker that cannot reach its session
\* directory fails a session nobody owns, and only that.
BootFails(w) ==
    /\ pc[w] \in {"boot", "lock"}
    /\ IF Current(w) /\ state.phase = "starting" /\ state.pid = None
       THEN CompareAndSet(w, state.rev, [state EXCEPT !.phase = "failed",
                                                      !.err = "setup_failed"])
       ELSE UNCHANGED storeVars
    /\ Goto(w, "gone")
    /\ UNCHANGED <<files, captureLock, processLock, frame, worker>>

Boot(w) ==
    /\ pc[w] = "boot"
    /\ Goto(w, IF Current(w) THEN "lock" ELSE "gone")
    /\ keepShared /\ UNCHANGED <<frame, worker>>

\* An exception outside the worker's own handlers, such as a state file that
\* cannot be opened, goes to the top level before the capture lock is held.
BootCrashes(w) ==
    /\ pc[w] = "boot"
    /\ Goto(w, "toplevel")
    /\ keepShared /\ UNCHANGED <<frame, worker>>

\* The lock may be held for an instant by a status probe, or by a recovery.
TakeCaptureLock(w) ==
    /\ pc[w] = "lock"
    /\ Acquire(captureLock, w, w)
    /\ Goto(w, "claim")
    /\ UNCHANGED <<state, used, files, processLock, frame, worker>>

\* It retries only while the session is still starting and unclaimed.
CaptureLockBusy(w) ==
    /\ pc[w] = "lock"
    /\ captureLock[w] # None
    /\ ~ (Current(w) /\ state.phase = "starting" /\ state.pid \in {None, w})
    /\ Goto(w, "gone")
    /\ keepShared /\ UNCHANGED <<frame, worker>>

LockDeadline(w) ==
    /\ pc[w] = "lock"
    /\ captureLock[w] # None
    /\ Goto(w, "gone")
    /\ keepShared /\ UNCHANGED <<frame, worker>>

Claim(w) ==
    /\ pc[w] = "claim"
    /\ IF CanClaim(w, w)
       THEN /\ ClaimWorker(w, w)
            /\ Goto(w, "setup")
            /\ UNCHANGED captureLock
       ELSE /\ Goto(w, "gone")
            /\ Release(captureLock, w)
            /\ UNCHANGED storeVars
    /\ UNCHANGED <<files, processLock, frame, worker>>

\* Ends the recording with an update that gives up ownership.
EndWith(w, phase, err, refused) ==
    CallUpdate(w, w, phase, err, "exit", refused)

Setup(w) ==
    /\ pc[w] = "setup"
    /\ \/ Goto(w, "capture") /\ UNCHANGED frame
       \/ EndWith(w, "failed", "capture_failed", "failing")
       \/ Goto(w, "failing") /\ UNCHANGED frame
    /\ keepShared /\ UNCHANGED worker

-----------------------------------------------------------------------------
\* The first incoming frame: ready() records when the recording started.
Ready(w) ==
    /\ pc[w] = "capture"
    /\ CASE ~Current(w) -> /\ worker' = [worker EXCEPT ![w].stop = TRUE]
                           /\ UNCHANGED <<storeVars, pc>>
         [] CanMarkStarted(w, w) -> /\ MarkRecordingStarted(w, w, Now)
                                    /\ UNCHANGED <<pc, worker>>
         [] OTHER -> Goto(w, "local_failed") /\ UNCHANGED <<storeVars, worker>>
    /\ UNCHANGED <<files, captureLock, processLock, frame>>

\* A heartbeat that cannot be written is a local failure of the capture.
Heartbeat(w) ==
    /\ pc[w] = "capture"
    /\ ~worker[w].stop
    /\ worker[w].beats < MaxBeats
    /\ worker' = [worker EXCEPT ![w].beats = @ + 1]
    /\ CallUpdate(w, w, Keep, Keep, "capture", "local_failed")
    /\ keepShared

\* The start a checkpoint names is the one that the record r has.
CheckpointStart(r) == r.recAt

\* A part is finished: its checkpoint names the durable start of the recording.
\* The last part is finished while the recorder is stopped.
Checkpoint(w) ==
    /\ pc[w] \in {"capture", "local_failed"}
    /\ ~HasFile(w, "checkpoint")
    /\ IF Current(w) /\ (state.recAt # None \/ CanMarkStarted(w, w))
       THEN /\ IF state.recAt = None THEN MarkRecordingStarted(w, w, Now)
                                    ELSE UNCHANGED storeVars
            /\ SetFile(w, "checkpoint", CheckpointStart(state'))
            /\ UNCHANGED pc
       ELSE Goto(w, "local_failed") /\ UNCHANGED <<storeVars, files>>
    /\ UNCHANGED <<captureLock, processLock, frame, worker>>

\* Slip: only the file asks for a stop.
StopFileSeen(w) == files[w].stop

\* The state asks for a stop, after the watcher has recorded one of the file.
StopSeen(w) == state'.phase \in {"stop_requested", "finalizing"}

\* _watch_stop_file: a stop file or a stop in the state both mean stop; the
\* phase is moved on before the capture is told.
WatchStop(w) ==
    /\ pc[w] = "capture"
    /\ ~worker[w].stop
    /\ IF ~Current(w)
       THEN worker' = [worker EXCEPT ![w].stop = TRUE] /\ UNCHANGED <<storeVars, pc, frame>>
       ELSE /\ \/ files[w].stop /\ RequestStop(w, Now)
               \/ UNCHANGED storeVars
            /\ StopSeen(w)
            /\ CallUpdateIn(w, w, {"stop_requested"}, "finalizing", Keep, "watched", "local_failed")
            /\ UNCHANGED worker
    /\ UNCHANGED <<files, captureLock, processLock>>

Watched(w) ==
    /\ pc[w] = "watched"
    /\ worker' = [worker EXCEPT ![w].stop = TRUE]
    /\ Goto(w, "capture")
    /\ keepShared /\ UNCHANGED frame

Signalled(w) ==
    /\ pc[w] = "capture"
    /\ ~worker[w].signal
    /\ worker' = [worker EXCEPT ![w].signal = TRUE, ![w].stop = TRUE]
    /\ keepShared /\ UNCHANGED <<pc, frame>>

-----------------------------------------------------------------------------
\* Audio was recorded: the manifest is written before the state moves on.
\* link says that the connection was lost and not restored.
Finish(w, link) ==
    LET code == IF link THEN "webrtc_disconnected"
                ELSE IF worker[w].signal THEN "local_interruption" ELSE None
    IN  /\ pc[w] = "capture"
        /\ link \/ worker[w].stop
        /\ HasFile(w, "checkpoint")
        /\ IF Current(w)
           THEN /\ SetFile(w, "manifest", [code |-> code, started |-> state.recAt])
                /\ EndWith(w, CASE worker[w].signal -> "interrupted"
                                [] ~worker[w].signal /\ code = "webrtc_disconnected" -> "disconnected"
                                [] OTHER -> "ready_for_processing",
                           code, "failing")
           ELSE UNCHANGED files /\ Return(w, "exit")
        /\ UNCHANGED <<state, used, captureLock, processLock, worker>>

\* The wait for audio timed out, or no connection was ever made.  The timeout does not ask
\* again whether a first frame has arrived meanwhile: audio may then be on disk already.
NoAudio(w) ==
    /\ pc[w] = "capture"
    /\ \/ EndWith(w, "audio_unavailable", "capture_failed", "toplevel")
       \/ /\ Current(w) /\ state.recAt = None /\ ~HasFile(w, "checkpoint")
          /\ EndWith(w, "failed", "capture_failed", "toplevel")
    /\ keepShared /\ UNCHANGED worker

\* _checkpoint_is_recoverable
Recoverable(w) ==
    /\ Current(w)
    /\ state.recAt # None
    /\ files[w].checkpoint = state.recAt

\* A local failure ends the capture and keeps what was checkpointed.
LocalFailure(w) ==
    /\ pc[w] \in {"capture", "local_failed"}
    /\ EndWith(w, IF Recoverable(w) THEN "interrupted" ELSE "failed",
               "capture_failed", "toplevel")
    /\ keepShared /\ UNCHANGED worker

\* So does any other exception; if that update is refused too, nothing is left.
HandleFailure(w) ==
    /\ pc[w] = "failing"
    /\ EndWith(w, IF Recoverable(w) THEN "interrupted" ELSE "failed",
               "capture_failed", "exit")
    /\ keepShared /\ UNCHANGED worker

\* The lock is given back by the finally clause, before the top level runs.
Exit(w) ==
    /\ pc[w] \in {"exit", "toplevel"}
    /\ captureLock[w] = w
    /\ Release(captureLock, w)
    /\ Goto(w, IF pc[w] = "exit" THEN "gone" ELSE "toplevel")
    /\ worker' = [worker EXCEPT ![w] = NewWorker]
    /\ UNCHANGED <<state, used, files, processLock, frame>>

\* _mark_top_level_worker_failed: without the lock, it claims the session if
\* nobody has, and fails it if it is the owner.
TopLevel(w) ==
    /\ pc[w] = "toplevel"
    /\ captureLock[w] # w
    /\ CASE Current(w) /\ state.phase = "starting" /\ state.pid = None ->
               ClaimWorker(w, w) /\ UNCHANGED <<pc, frame>>
         [] Current(w) /\ state.pid = w ->
               /\ CallUpdate(w, w, "failed", "capture_failed", "gone", "gone")
               /\ UNCHANGED storeVars
         [] OTHER -> Goto(w, "gone") /\ UNCHANGED <<storeVars, frame>>
    /\ UNCHANGED <<files, captureLock, processLock, worker>>

\* SIGKILL, power loss or a crash of the interpreter, at any point.
WorkerDies(w) ==
    /\ WorkerAlive(w)
    /\ Drop(captureLock, w)
    /\ Return(w, "gone")
    /\ worker' = [worker EXCEPT ![w] = NewWorker]
    /\ UNCHANGED <<state, used, files, processLock>>

-----------------------------------------------------------------------------
WorkerUpdate(w) == Update(w) /\ UNCHANGED worker

\* Steps a worker takes on its own; the rest is done to it.
WorkerProgress(w) ==
    \/ Boot(w)
    \/ TakeCaptureLock(w)
    \/ CaptureLockBusy(w)
    \/ Claim(w)
    \/ Setup(w)
    \/ WatchStop(w)
    \/ Watched(w)
    \/ LocalFailure(w) /\ pc[w] = "local_failed"
    \/ HandleFailure(w)
    \/ worker[w].stop /\ (Finish(w, FALSE) \/ NoAudio(w))
    \/ Exit(w)
    \/ TopLevel(w)
    \/ WorkerUpdate(w)

WorkerEnvironment(w) ==
    \/ BootFails(w)
    \/ BootCrashes(w)
    \/ LockDeadline(w)
    \/ Ready(w)
    \/ Heartbeat(w)
    \/ Checkpoint(w)
    \/ Signalled(w)
    \/ \E link \in BOOLEAN : Finish(w, link)
    \/ NoAudio(w)
    \/ LocalFailure(w)
=============================================================================
