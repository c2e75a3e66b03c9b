---------------------------- MODULE MeetingService ----------------------------
(***************************************************************************)
(* The commands start, stop and abandon of meeting/service.py, each run by *)
(* a caller: a process of the command line or a thread of the dashboard.   *)
(* Every access to the state file, a lock or an artifact is a step of its  *)
(* own, because any other process may act between two of them.             *)
(***************************************************************************)
EXTENDS MeetingSession

\* Whether the disk may refuse to read or write an artifact during a recovery.
CONSTANT StorageFails

ASSUME StorageAssumption == StorageFails \in BOOLEAN

VARIABLE
    call        \* what each caller keeps between its steps

serviceVars == <<sessionVars, call>>

\* view: of the record last read, the fields that a later step uses.
\* rev: the revision to abandon.  then: who called the recovery of a dead
\* capture.  manifest: the manifest whose fingerprint is being processed.
NoCall == [view |-> None, rev |-> None, then |-> None, manifest |-> None]

View(c) == call[c].view

Session(c) == View(c).session

Seen(r) == [session |-> r.session, phase |-> r.phase, pid |-> r.pid, recAt |-> r.recAt]

Look(c, label) ==
    /\ call' = [call EXCEPT ![c].view = Seen(state)]
    /\ Goto(c, label)

LookToAbandon(c) ==
    /\ call' = [call EXCEPT ![c].view = Seen(state), ![c].rev = state.rev]
    /\ Goto(c, "abandon_write")

Done(c) == Goto(c, "idle") /\ call' = [call EXCEPT ![c] = NoCall]

\* _capture_worker_active: a session directory that does not exist has no lock.
CaptureActive(s) == captureLock[s] # None

\* _RECOVERABLE_PHASES
RecoverablePhases == CapturePhases \cup {"disconnected", "interrupted"}

keepState == UNCHANGED <<state, used>>
keepLocks == UNCHANGED <<captureLock, processLock>>
-----------------------------------------------------------------------------
\* _recover_dead_capture, called from the start of a start ("startup"), from
\* its handshake, from a stop ("stop") and from a stop's wait ("wait").
CallRecovery(c, then) ==
    /\ call' = [call EXCEPT ![c].then = then]
    /\ Goto(c, "recover_lock")

\* A conflict is retried by the wait, suppressed by the startup check and an
\* error of every other command.
RecoveryConflict(c) ==
    CASE call[c].then = "wait"    -> Goto(c, "wait") /\ UNCHANGED call
      [] call[c].then = "startup" -> Goto(c, "reserve") /\ UNCHANGED call
      [] OTHER                    -> Done(c)

RecoveryReturns(c, r) ==
    CASE call[c].then = "startup" -> Goto(c, "reserve") /\ UNCHANGED call
      [] call[c].then = "handshake" -> Done(c)
      [] OTHER -> Goto(c, "settled") /\ call' = [call EXCEPT ![c].view = r]

\* Without the directory the lock cannot be opened: a storage error, which
\* no caller of the recovery handles.
RecoverLock(c) ==
    LET s == Session(c) IN
    /\ pc[c] = "recover_lock"
    /\ CASE ~files[s].dir -> Done(c) /\ UNCHANGED captureLock
         [] files[s].dir /\ captureLock[s] = None ->
               Acquire(captureLock, s, c) /\ Goto(c, "recover_read") /\ UNCHANGED call
         [] OTHER -> RecoveryConflict(c) /\ UNCHANGED captureLock
    /\ keepState /\ UNCHANGED <<files, processLock, frame>>

\* The state is read again under the lock.
RecoverRead(c) ==
    LET s == Session(c) IN
    /\ pc[c] = "recover_read"
    /\ CASE ~Current(s) -> RecoveryConflict(c) /\ Release(captureLock, s)
         [] Current(s) /\ state.phase \notin RecoverablePhases ->
               RecoveryReturns(c, Seen(state)) /\ Release(captureLock, s)
         [] OTHER -> Look(c, "recover_files") /\ UNCHANGED captureLock
    /\ keepState /\ UNCHANGED <<files, processLock, frame>>

\* The caller's view already shows what the update makes of the record.
Recover(c, phase, err, refused) ==
    /\ CallUpdate(c, Session(c), phase, err, "recovered", refused)
    /\ call' = [call EXCEPT ![c].view = [@ EXCEPT !.phase = phase, !.pid = None]]

\* Slip: audio without a manifest is not looked for.
ManifestStart(s) == IF HasFile(s, "manifest") THEN files[s].manifest.started ELSE None

\* When the recording started, as its manifest or else its checkpoint says.
RecordedStart(s) ==
    IF HasFile(s, "manifest") THEN files[s].manifest.started ELSE files[s].checkpoint

\* _recover_dead_capture_with_lock: the manifest, or else the checkpoint, says
\* what was recorded and becomes the manifest of an interrupted capture.  An
\* artifact that does not match or cannot be read or written ends the attempt.
RecoverFiles(c) ==
    LET s == Session(c)
        started == RecordedStart(s)
    IN  /\ pc[c] = "recover_files"
        /\ \/ /\ started = None
              /\ Recover(c, "failed", "no_audio_before_stop", "recover_failed")
              /\ UNCHANGED files
           \/ /\ started # None /\ View(c).recAt = started
              /\ SetFile(s, "manifest",
                         [code |-> "recorder_process_stopped", started |-> started])
              /\ Recover(c, IF View(c).phase \in CapturePhases THEN "interrupted"
                                                               ELSE View(c).phase,
                         "recorder_process_stopped", "recover_failed")
           \/ /\ StorageFails \/ (started # None /\ View(c).recAt # started)
              /\ Goto(c, "recover_failed")
              /\ UNCHANGED <<files, frame, call>>
        /\ keepState /\ keepLocks

\* Whatever goes wrong, a refused update included, fails the session.
RecoverFailed(c) ==
    /\ pc[c] = "recover_failed"
    /\ Recover(c, "failed", "capture_recovery_failed", "recover_conflict")
    /\ keepState /\ keepLocks /\ UNCHANGED files

Recovered(c) ==
    /\ pc[c] \in {"recovered", "recover_conflict"}
    /\ IF pc[c] = "recovered" THEN RecoveryReturns(c, View(c)) ELSE RecoveryConflict(c)
    /\ Release(captureLock, Session(c))
    /\ keepState /\ UNCHANGED <<files, processLock, frame>>

RecoverDeadCapture(c) ==
    RecoverLock(c) \/ RecoverRead(c) \/ RecoverFiles(c) \/ RecoverFailed(c) \/ Recovered(c)

-----------------------------------------------------------------------------
\* start: first close out a capture whose recorder is proven dead.
StartBegin(c) ==
    /\ pc[c] = "idle"
    /\ state # Corrupt
    /\ IF Capturing THEN Look(c, "start_probe")
                    ELSE Goto(c, "reserve") /\ UNCHANGED call
    /\ keepState /\ keepLocks /\ UNCHANGED <<files, frame>>

\* alive says whether the claimed process still runs.  A session that nobody
\* claimed is left alone within its handshake window, which may have passed.
StartProbe(c, alive) ==
    /\ pc[c] = "start_probe"
    /\ \/ /\ \/ CaptureActive(Session(c))
             \/ View(c).pid # None /\ alive
             \/ View(c).pid = None
          /\ Goto(c, "reserve") /\ UNCHANGED call
       \/ /\ ~CaptureActive(Session(c))
          /\ View(c).pid = None \/ ~alive
          /\ CallRecovery(c, "startup")
    /\ keepState /\ keepLocks /\ UNCHANGED <<files, frame>>

\* A session ID is drawn; a meeting that is not over refuses the start.
StartReserve(c, s) ==
    /\ pc[c] = "reserve"
    /\ IF CanReserve
       THEN /\ Reserve(s)
            /\ call' = [call EXCEPT ![c].view = Seen(Fresh(s)), ![c].then = None]
            /\ Goto(c, "create")
       ELSE Done(c) /\ keepState
    /\ keepLocks /\ UNCHANGED <<files, frame>>

StartCreate(c) ==
    /\ pc[c] = "create"
    /\ \/ /\ SetFile(Session(c), "dir", TRUE)
          /\ Goto(c, "spawn")
          /\ UNCHANGED frame
       \/ /\ CallUpdate(c, Session(c), "failed", "setup_failed", "leave", "leave")
          /\ UNCHANGED files
    /\ keepState /\ keepLocks /\ UNCHANGED call

\* The worker is a process of its own from here on.
StartSpawn(c) ==
    /\ pc[c] = "spawn"
    /\ \/ /\ pc' = [pc EXCEPT ![c] = "handshake", ![Session(c)] = "boot"]
          /\ UNCHANGED frame
       \/ CallUpdate(c, Session(c), "failed", "setup_failed", "leave", "leave")
    /\ keepState /\ keepLocks /\ UNCHANGED <<files, call>>

HandshakeRead(c) ==
    /\ pc[c] = "handshake"
    /\ IF Current(Session(c)) /\ state.phase \notin CaptureFailures
       THEN Look(c, "handshake_probe")
       ELSE Done(c)
    /\ keepState /\ keepLocks /\ UNCHANGED <<files, frame>>

\* Success, a recorder that died after it started, or one more round.
HandshakeProbe(c) ==
    LET active == CaptureActive(Session(c)) IN
    /\ pc[c] = "handshake_probe"
    /\ CASE View(c).phase = "recording" /\ active -> Done(c)
         [] View(c).phase # "starting" /\ ~active -> CallRecovery(c, "handshake")
         [] OTHER -> Goto(c, "handshake") /\ UNCHANGED call
    /\ keepState /\ keepLocks /\ UNCHANGED <<files, frame>>

\* Slip: the wait goes on with another round.
HandshakeRearmed(c) ==
    /\ pc[c] = "handshake"
    /\ Current(Session(c)) /\ Look(c, "handshake_probe")
    /\ keepState /\ keepLocks /\ UNCHANGED <<files, frame>>

HandshakeDeadline(c) ==
    /\ pc[c] = "handshake"
    /\ IF Current(Session(c)) THEN Look(c, "deadline_probe") ELSE Done(c)
    /\ keepState /\ keepLocks /\ UNCHANGED <<files, frame>>

DeadlineProbe(c, alive) ==
    /\ pc[c] = "deadline_probe"
    /\ IF CaptureActive(Session(c)) \/ (View(c).pid # None /\ alive)
       THEN call' = [call EXCEPT ![c].then = "handshake"] /\ Goto(c, "request")
       ELSE CallRecovery(c, "handshake")
    /\ keepState /\ keepLocks /\ UNCHANGED <<files, frame>>

\* Control-C during the handshake asks the worker to stop.
StartInterrupted(c) ==
    /\ pc[c] \in {"handshake", "handshake_probe"}
    /\ call' = [call EXCEPT ![c].then = "handshake"]
    /\ Goto(c, "request")
    /\ keepState /\ keepLocks /\ UNCHANGED <<files, frame>>

-----------------------------------------------------------------------------
\* _request_stop: the state first, then the file that the worker watches.
RequestStopState(c) ==
    LET s == Session(c)
        next == IF call[c].then = "handshake" THEN "leave" ELSE "wait"
    IN  /\ pc[c] = "request"
        /\ IF Current(s)
           THEN /\ IF AfterStopRequest(state, Now) = state THEN keepState
                                                           ELSE RequestStop(s, Now)
                /\ Goto(c, IF state'.phase \in {"stop_requested", "finalizing"}
                           THEN "stop_file" ELSE next)
           ELSE Goto(c, "leave") /\ keepState
        /\ keepLocks /\ UNCHANGED <<files, frame, call>>

\* The file cannot be created in a directory that does not exist.
RequestStopFile(c) ==
    /\ pc[c] = "stop_file"
    /\ IF files[Session(c)].dir
       THEN /\ SetFile(Session(c), "stop", TRUE)
            /\ Goto(c, IF call[c].then = "handshake" THEN "leave" ELSE "wait")
       ELSE Goto(c, "leave") /\ UNCHANGED files
    /\ keepState /\ keepLocks /\ UNCHANGED <<frame, call>>

\* stop: a completed session is only shown again.
StopBegin(c) ==
    /\ pc[c] = "idle"
    /\ Readable /\ state.phase # "completed"
    /\ Look(c, IF Capturing THEN "request" ELSE "settled")
    /\ keepState /\ keepLocks /\ UNCHANGED <<files, frame>>

\* _wait_for_capture: until the recorder has finished or is gone.
WaitRead(c) ==
    /\ pc[c] = "wait"
    /\ CASE ~Current(Session(c)) -> Done(c)
         [] Current(Session(c)) /\ ~Capturing -> Look(c, "settled")
         [] OTHER -> Look(c, "wait_probe")
    /\ keepState /\ keepLocks /\ UNCHANGED <<files, frame>>

WaitProbe(c) ==
    /\ pc[c] = "wait_probe"
    /\ IF CaptureActive(Session(c)) THEN Goto(c, "wait") /\ UNCHANGED call
                                    ELSE CallRecovery(c, "wait")
    /\ keepState /\ keepLocks /\ UNCHANGED <<files, frame>>

WaitDeadline(c) ==
    /\ pc[c] = "wait"
    /\ Done(c)
    /\ keepState /\ keepLocks /\ UNCHANGED <<files, frame>>

\* An interrupted capture may have a checkpoint and no manifest yet.
StopSettled(c) ==
    LET s == Session(c) IN
    /\ pc[c] = "settled"
    /\ CASE View(c).phase \in {"disconnected", "interrupted"} /\ ~HasFile(s, "manifest") ->
               CallRecovery(c, "stop")
         [] View(c).phase \in {"audio_unavailable", "failed"} -> Done(c)
         [] OTHER -> Goto(c, "process_lock") /\ UNCHANGED call
    /\ keepState /\ keepLocks /\ UNCHANGED <<files, frame>>

-----------------------------------------------------------------------------
\* _process, under the processing lock, of the state read again there.
ProcessLock(c) ==
    /\ pc[c] = "process_lock"
    /\ IF processLock[Session(c)] = None
       THEN Acquire(processLock, Session(c), c) /\ Goto(c, "process_read") /\ UNCHANGED call
       ELSE Done(c) /\ UNCHANGED processLock
    /\ keepState /\ UNCHANGED <<files, captureLock, frame>>

ProcessRead(c) ==
    /\ pc[c] = "process_read"
    /\ IF Current(Session(c)) /\ state.phase # "completed"
       THEN Look(c, "load") ELSE Goto(c, "processed") /\ UNCHANGED call
    /\ keepState /\ keepLocks /\ UNCHANGED <<files, frame>>

\* Slip: how the capture ended is left out of the fingerprint.
FingerprintOfStart(m) == [m EXCEPT !.code = None]

\* fingerprint_model is injective on manifests.
Fingerprint(m) == m

\* The manifest is fingerprinted before anything is made from it.
Load(c) ==
    LET s == Session(c) IN
    /\ pc[c] = "load"
    /\ IF HasFile(s, "manifest") /\ View(c).recAt = files[s].manifest.started
       THEN /\ call' = [call EXCEPT ![c].manifest = Fingerprint(files[s].manifest)]
            /\ CallUpdate(c, s, "transcribing", None, "transcribe", "process_failed")
       ELSE Goto(c, "process_failed") /\ UNCHANGED <<frame, call>>
    /\ keepState /\ keepLocks /\ UNCHANGED files

\* Slip: what a provider returns is not saved.
ProduceUnsaved(c, f, made) ==
    \/ made /\ UNCHANGED files
    \/ Goto(c, "process_failed") /\ UNCHANGED <<files, frame>>

\* An artifact that exists is reused if it was made from this manifest and is
\* an error otherwise; one that does not is made by a provider, which may fail.
Produce(c, f, made) ==
    LET s == Session(c)
        right == files[s][f] = call[c].manifest
    IN  \/ /\ HasFile(s, f) => right
           /\ SetFile(s, f, call[c].manifest)
           /\ made
        \/ /\ ~HasFile(s, f) \/ ~right
           /\ Goto(c, "process_failed")
           /\ UNCHANGED <<files, frame>>

Transcribe(c) ==
    /\ pc[c] = "transcribe"
    /\ Produce(c, "transcript",
               CallUpdate(c, Session(c), "analyzing", Keep, "analyze", "process_failed"))
    /\ keepState /\ keepLocks /\ UNCHANGED call

Analyze(c) ==
    /\ pc[c] = "analyze"
    /\ Produce(c, "intelligence", Goto(c, "report") /\ UNCHANGED frame)
    /\ keepState /\ keepLocks /\ UNCHANGED call

Report(c) ==
    /\ pc[c] = "report"
    /\ \/ /\ SetFile(Session(c), "report", TRUE)
          /\ CallUpdate(c, Session(c), "completed", None, "processed", "process_failed")
       \/ Goto(c, "process_failed") /\ UNCHANGED <<files, frame>>
    /\ keepState /\ keepLocks /\ UNCHANGED call

\* _mark_processing_failed: a refusal is suppressed.
ProcessFailed(c) ==
    /\ pc[c] = "process_failed"
    /\ CallUpdate(c, Session(c), "processing_failed", "processing_failed",
                  "processed", "processed")
    /\ keepState /\ keepLocks /\ UNCHANGED <<files, call>>

Processed(c) ==
    /\ pc[c] = "processed"
    /\ Release(processLock, Session(c))
    /\ Done(c)
    /\ keepState /\ UNCHANGED <<files, captureLock, frame>>

Process(c) ==
    \/ ProcessLock(c) \/ ProcessRead(c) \/ Load(c) \/ Transcribe(c) \/ Analyze(c)
    \/ Report(c) \/ ProcessFailed(c) \/ Processed(c)

-----------------------------------------------------------------------------
\* abandon: a session without a directory has no locks to take.
AbandonBegin(c) ==
    /\ pc[c] = "idle"
    /\ Readable /\ state.phase \notin TerminalPhases
    /\ IF files[state.session].dir THEN Look(c, "abandon_capture") ELSE LookToAbandon(c)
    /\ keepState /\ keepLocks /\ UNCHANGED <<files, frame>>

AbandonCapture(c) ==
    /\ pc[c] = "abandon_capture"
    /\ IF captureLock[Session(c)] = None
       THEN Acquire(captureLock, Session(c), c) /\ Goto(c, "abandon_process") /\ UNCHANGED call
       ELSE Done(c) /\ UNCHANGED captureLock
    /\ keepState /\ UNCHANGED <<files, processLock, frame>>

AbandonProcess(c) ==
    /\ pc[c] = "abandon_process"
    /\ IF processLock[Session(c)] = None
       THEN /\ Acquire(processLock, Session(c), c) /\ Goto(c, "abandon_read")
            /\ UNCHANGED <<captureLock, call>>
       ELSE Release(captureLock, Session(c)) /\ Done(c) /\ UNCHANGED processLock
    /\ keepState /\ UNCHANGED <<files, frame>>

AbandonRead(c) ==
    /\ pc[c] = "abandon_read"
    /\ IF Current(Session(c)) THEN LookToAbandon(c)
                              ELSE Goto(c, "leave") /\ UNCHANGED call
    /\ keepState /\ keepLocks /\ UNCHANGED <<files, frame>>

\* Exactly the revision that was read is abandoned.
AbandonWrite(c) ==
    /\ pc[c] = "abandon_write"
    /\ IF CanAbandon(Session(c), call[c].rev)
       THEN Abandon(Session(c), call[c].rev) ELSE keepState
    /\ Goto(c, "leave")
    /\ keepLocks /\ UNCHANGED <<files, frame, call>>

\* Locks are given back by the context managers on the way out.
Leave(c) ==
    /\ pc[c] = "leave"
    /\ Drop(captureLock, c)
    /\ Drop(processLock, c)
    /\ Done(c)
    /\ keepState /\ UNCHANGED <<files, frame>>

-----------------------------------------------------------------------------
\* The process of a command is killed: only its locks are cleaned up.
CallerDies(c) ==
    /\ pc[c] # "idle"
    /\ Drop(captureLock, c)
    /\ Drop(processLock, c)
    /\ Return(c, "idle")
    /\ call' = [call EXCEPT ![c] = NoCall]
    /\ UNCHANGED <<state, used, files>>

CallerUpdate(c) == Update(c) /\ UNCHANGED call
=============================================================================
