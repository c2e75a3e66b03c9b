---------------------------- MODULE MeetingRecorder ----------------------------
(***************************************************************************)
(* The whole meeting recorder: callers that start, stop and abandon        *)
(* sessions, the worker each start spawns, status probes that hold the     *)
(* capture lock for an instant, and deaths of any process at any point.    *)
(***************************************************************************)
EXTENDS MeetingWorker, MeetingService

CONSTANTS
    MaxCommands,    \* bound: commands run, all callers together
    MaxDeaths,      \* bound: processes killed
    MaxTurns,       \* bound: commands and deaths together
    MaxProbes       \* bound: status probes

ASSUME RecorderAssumption ==
    /\ MaxCommands \in Nat
    /\ MaxDeaths \in Nat
    /\ MaxTurns \in Nat
    /\ MaxProbes \in Nat

VARIABLE
    spent       \* how much of each bound is used

vars == <<sessionVars, worker, call, spent>>

Init ==
    /\ StoreInit
    /\ files = [s \in Sessions |-> NoFiles]
    /\ captureLock = [s \in Sessions |-> None]
    /\ processLock = [s \in Sessions |-> None]
    /\ pc = [a \in Actors |-> IF a \in Callers THEN "idle" ELSE "unborn"]
    /\ frame = [a \in Actors |-> NoFrame]
    /\ worker = [s \in Sessions |-> NewWorker]
    /\ call = [c \in Callers |-> NoCall]
    /\ spent = [commands |-> 0, deaths |-> 0, probes |-> 0]

Spend(what, bound) ==
    /\ spent[what] < bound
    /\ what # "probes" => spent.commands + spent.deaths < MaxTurns
    /\ spent' = [spent EXCEPT ![what] = @ + 1]

\* A command starts only while the model has a session left to draw.
Command(c) ==
    /\ \/ Sessions # used /\ StartBegin(c)
       \/ StopBegin(c)
       \/ AbandonBegin(c)
    /\ Spend("commands", MaxCommands)
    /\ UNCHANGED worker

\* The worker a record names, as os.kill(pid, 0) sees it.
PidAlive(c) == View(c).pid \in Sessions /\ WorkerAlive(View(c).pid)

CallerProgress(c) ==
    \/ StartProbe(c, PidAlive(c))
    \/ \E s \in Sessions \ used : StartReserve(c, s)
    \/ pc[c] = "reserve" /\ Sessions = used /\ Done(c)
          /\ UNCHANGED <<state, used, files, captureLock, processLock, frame>>
    \/ StartCreate(c)
    \/ StartSpawn(c)
    \/ HandshakeRead(c)
    \/ HandshakeProbe(c)
    \/ DeadlineProbe(c, PidAlive(c))
    \/ RequestStopState(c)
    \/ RequestStopFile(c)
    \/ WaitRead(c)
    \/ WaitProbe(c)
    \/ StopSettled(c)
    \/ RecoverDeadCapture(c)
    \/ Process(c)
    \/ AbandonCapture(c)
    \/ AbandonProcess(c)
    \/ AbandonRead(c)
    \/ AbandonWrite(c)
    \/ Leave(c)
    \/ CallerUpdate(c)

\* The clock: every wait of a command has a deadline.
CallerDeadline(c) == WaitDeadline(c) \/ HandshakeDeadline(c)

CallerStep(c) ==
    /\ \/ CallerProgress(c)
       \/ CallerDeadline(c)
       \/ StartInterrupted(c)
    /\ UNCHANGED <<worker, spent>>

WorkerStep(w) ==
    /\ WorkerProgress(w) \/ WorkerEnvironment(w)
    /\ UNCHANGED <<call, spent>>

\* capture_lock_held takes the lock to see whether it is free.
ProbeBegins(s) ==
    /\ Current(s) /\ files[s].dir
    /\ Spend("probes", MaxProbes)
    /\ Acquire(captureLock, s, Probe)
    /\ UNCHANGED <<state, used, files, processLock, pc, frame, worker, call>>

ProbeEnds(s) ==
    /\ captureLock[s] = Probe
    /\ Release(captureLock, s)
    /\ UNCHANGED <<state, used, files, processLock, pc, frame, worker, call, spent>>

Death ==
    /\ \/ \E w \in Sessions : WorkerDies(w) /\ UNCHANGED call
       \/ \E c \in Callers : CallerDies(c) /\ UNCHANGED worker
    /\ Spend("deaths", MaxDeaths)

Next ==
    \/ \E c \in Callers : Command(c)
    \/ \E c \in Callers : CallerStep(c)
    \/ \E w \in Sessions : WorkerStep(w)
    \/ \E s \in Sessions : ProbeBegins(s)
    \/ \E s \in Sessions : ProbeEnds(s)
    \/ Death

\* The operating system schedules every process and no probe keeps its lock.
\* A deadline passes however often the wait polls before it, hence SF.
Fairness ==
    /\ \A c \in Callers : /\ WF_vars(CallerProgress(c) /\ UNCHANGED <<worker, spent>>)
                          /\ SF_vars(CallerDeadline(c) /\ UNCHANGED <<worker, spent>>)
    /\ \A w \in Sessions : WF_vars(WorkerProgress(w) /\ UNCHANGED <<call, spent>>)
    /\ \A s \in Sessions : WF_vars(ProbeEnds(s))

Spec == Init /\ [][Next]_vars

FairSpec == Spec /\ Fairness

-----------------------------------------------------------------------------
\* Whoever records is the owner in the state file and holds the session's
\* capture lock: a recovery, an abandon or a second start never takes a
\* session from a live recorder, and there is at most one recorder.
RecorderIsOwner ==
    \A w \in Sessions : WorkerOwnsCapture(w) /\ pc[w] \in {"capture", "watched"} =>
        /\ Current(w)
        /\ state.pid = w
        /\ captureLock[w] = w

\* A stop, once recorded, is never undone by the worker's concurrent writes
\* (heartbeats, the first audio frame): no state says recording after it.
StopIsSticky ==
    Readable /\ state.stopAt # None => state.phase \notin {"starting", "recording"}

\* A session whose audio reached the disk ends failed only because its user abandoned
\* it, or because the disk failed the recovery of its dead recorder; whatever else goes
\* wrong, the recorder and the commands leave it interrupted, to be processed.  (It may end
\* audio_unavailable, when its first frame came as the wait for it was given up.)
AudioIsNotFailed ==
    Readable /\ files[state.session].checkpoint # None /\ state.phase = "failed" =>
        \/ state.err = "abandoned_by_user"
        \/ StorageFails /\ state.err = "capture_recovery_failed"

\* The artifacts of a session that is being processed or done are of one
\* manifest: the fingerprints in them match the manifest on disk.
ProvenanceHolds ==
    Readable =>
        LET f == files[state.session]
        IN  /\ f.transcript \in {None, f.manifest}
            /\ f.intelligence \in {None, f.manifest}

\* What the state says is on disk: a checkpoint or manifest names the start that the
\* state records, so that recovery and processing never refuse the recorder's own
\* artifacts, and a completed session has all that its report was made from.
ArtifactsMatchState ==
    Readable =>
        LET f == files[state.session]
        IN  /\ f.checkpoint # None => f.checkpoint = state.recAt
            /\ f.manifest # None => f.manifest.started = state.recAt
            /\ state.phase = "completed" =>
                  f.report /\ None \notin {f.manifest, f.transcript, f.intelligence}

\* _RECOVERABLE_PHASES: phases outside it "must never be forced back to FAILED
\* by a stale recovery decision".  Only a caller that abandons, or the session's
\* own worker, fails a session.
RecoveryNeverFailsProcessing ==
    [][(Readable /\ state' # state /\ state'.session = state.session
        /\ state.phase \in {"transcribing", "analyzing", "ready_for_processing"})
          => state'.phase # "failed" \/ state'.err = "abandoned_by_user"]_vars

\* A recorder that was asked to stop stops.
StopEndsRecording ==
    \A w \in Sessions :
        (Current(w) /\ state.stopAt # None /\ WorkerAlive(w)) ~> ~WorkerAlive(w)

\* Every command returns.
CommandsReturn == \A c \in Callers : pc[c] # "idle" ~> pc[c] = "idle"
=============================================================================
