------------------------ MODULE MeetingRecorderProofs ------------------------
(***************************************************************************)
(* Proofs about the whole recorder, for any sessions, callers and bounds:  *)
(* its processes only ever take steps of the state file, whoever records   *)
(* owns the session, a recorded stop stays, the state tells the truth      *)
(* about the artifacts, and, unless a recovery meets the processing of the *)
(* same session, no audio is written off and artifacts are of the manifest *)
(* on disk.                                                                *)
(*                                                                         *)
(* The argument is rely-guarantee.  WorkerInv and CallerInv say what one   *)
(* process may count on at each place of its program, Guarantee(a) says    *)
(* what a step of process a leaves to the others.  SparingInv, at the end, *)
(* adds what is true of them as long as the steps of commands stay apart.  *)
(***************************************************************************)
EXTENDS MeetingRecorder, MeetingStateStoreProofs

-----------------------------------------------------------------------------
(* Types.                                                                  *)

WorkerLabels == {"unborn", "boot", "lock", "claim", "setup", "capture", "watched",
                 "local_failed", "failing", "exit", "toplevel", "gone"}

CallerLabels == {"idle", "start_probe", "reserve", "create", "spawn", "handshake",
                 "handshake_probe", "deadline_probe", "request", "stop_file", "wait",
                 "wait_probe", "settled", "recover_lock", "recover_read",
                 "recover_files", "recover_failed", "recovered", "recover_conflict",
                 "process_lock", "process_read", "load", "transcribe", "analyze",
                 "report", "process_failed", "processed", "abandon_capture",
                 "abandon_process", "abandon_read", "abandon_write", "leave"}

Labels == WorkerLabels \cup CallerLabels \cup {"update"}

Artifacts == [dir : BOOLEAN, stop : BOOLEAN, checkpoint : Times \cup {None},
              manifest : Manifests \cup {None}, transcript : Manifests \cup {None},
              intelligence : Manifests \cup {None}, report : BOOLEAN]

Frames == [session : Sessions \cup {None}, phase : Phases \cup {Keep},
           err : ErrorCodes \cup {None, Keep}, only : SUBSET Phases,
           seen : Nat \cup {None}, left : Nat,
           ok : Labels \cup {None}, fail : Labels \cup {None}]

Views == [session : Sessions, phase : Phases, pid : Pids \cup {None},
          recAt : Times \cup {None}]

Purposes == {"startup", "handshake", "stop", "wait"}

Calls == [view : Views \cup {None}, rev : Nat \cup {None},
          then : Purposes \cup {None}, manifest : Manifests \cup {None}]

MemoryTypeOK ==
    /\ captureLock \in [Sessions -> Actors \cup {None, Probe}]
    /\ pc \in [Actors -> Labels]
    /\ frame \in [Actors -> Frames]
    /\ call \in [Callers -> Calls]

RecorderTypeOK ==
    /\ StoreTypeOK
    /\ files \in [Sessions -> Artifacts]
    /\ MemoryTypeOK

-----------------------------------------------------------------------------
(* What a worker may count on.                                             *)

\* The phases in which a worker leaves its session.
EndPhases == {"interrupted", "disconnected", "ready_for_processing", "failed",
              "audio_unavailable"}

\* The updates that a worker makes.
WorkerFrame(f) ==
    \/ f.ok = "capture" /\ f.fail = "local_failed" /\ f.phase = Keep
    \/ f.ok = "watched" /\ f.fail = "local_failed" /\ f.phase = "finalizing"
    \/ f.ok = "exit" /\ f.fail \in {"failing", "exit"} /\ f.phase \in EndPhases
    \/ /\ f.ok = "exit" /\ f.fail = "toplevel"
       /\ f.phase \in {"interrupted", "failed", "audio_unavailable"}
    \/ f.ok = "gone" /\ f.fail = "gone" /\ f.phase = "failed"

\* Where the state file names the worker: until the update that ends its capture.
Records(w) ==
    \/ pc[w] \in {"setup", "capture", "watched", "local_failed", "failing"}
    \/ pc[w] = "update" /\ frame[w].ok # "gone"

IsBorn(w) == pc[w] # "unborn" => w \in used /\ files[w].dir

MakesWorkerUpdate(w) ==
    pc[w] = "update" => WorkerFrame(frame[w]) /\ frame[w].session = w

HoldsWorkerLock(w) == WorkerOwnsCapture(w) \/ pc[w] = "claim" => captureLock[w] = w

IsNamed(w) == Records(w) => Current(w) /\ state.pid = w

WorkerInv(w) ==
    /\ IsBorn(w)
    /\ MakesWorkerUpdate(w)
    /\ HoldsWorkerLock(w)
    /\ IsNamed(w)

-----------------------------------------------------------------------------
(* What a caller may count on.                                             *)

\* The updates that a caller makes.
CallerFrame(f) ==
    \/ f.ok = "leave" /\ f.fail = "leave" /\ f.phase = "failed"
    \/ /\ f.ok = "recovered" /\ f.fail \in {"recover_failed", "recover_conflict"}
       /\ f.phase \in {"failed", "interrupted", "disconnected"}
    \/ f.ok = "transcribe" /\ f.fail = "process_failed" /\ f.phase = "transcribing"
    \/ f.ok = "analyze" /\ f.fail = "process_failed" /\ f.phase = "analyzing"
    \/ f.ok = "processed" /\ f.fail = "process_failed" /\ f.phase = "completed"
    \/ f.ok = "processed" /\ f.fail = "processed" /\ f.phase = "processing_failed"

Updating(c, labels) == pc[c] = "update" /\ frame[c].ok \in labels

\* The worker of the caller's session is not spawned yet.
Creates(c) == pc[c] \in {"create", "spawn"} \/ Updating(c, {"leave"})

\* Where a caller holds the capture lock of its session.
HoldsCapture(c) ==
    \/ pc[c] \in {"recover_read", "recover_files", "recover_failed", "recovered",
                  "recover_conflict", "abandon_process", "abandon_read"}
    \/ Updating(c, {"recovered"})

\* What is on disk while a caller processes its session.
Completes(c) == pc[c] = "update" /\ frame[c].phase = "completed"

NeedsManifest(c) ==
    \/ pc[c] \in {"transcribe", "analyze", "report"}
    \/ Updating(c, {"transcribe", "analyze"})
    \/ Completes(c)

NeedsTranscript(c) ==
    pc[c] \in {"analyze", "report"} \/ Updating(c, {"analyze"}) \/ Completes(c)

NeedsIntelligence(c) == pc[c] = "report" \/ Completes(c)

\* A caller at work knows its session, which was drawn.
HasView(c) ==
    /\ pc[c] \notin {"idle", "reserve", "leave"} =>
          call[c].view \in Views /\ Session(c) \in used
    /\ pc[c] = "recover_files" => View(c).phase \in RecoverablePhases

MakesOwnUpdate(c) ==
    pc[c] = "update" => /\ CallerFrame(frame[c]) /\ frame[c].session = Session(c)
                        /\ frame[c].only = Phases

CreatesFirst(c) ==
    /\ Creates(c) => pc[Session(c)] = "unborn"
    /\ pc[c] = "spawn" => files[Session(c)].dir

HoldsItsLock(c) == HoldsCapture(c) => captureLock[Session(c)] = c

\* An abandon without the lock is of a revision that named no owner.
AbandonsUnowned(c) ==
    pc[c] = "abandon_write" =>
        /\ call[c].rev \in Nat
        /\ \/ captureLock[Session(c)] = c
           \/ Current(Session(c)) =>
                 /\ call[c].rev <= state.rev
                 /\ state.rev = call[c].rev => state.pid = None

HasArtifacts(c) ==
    /\ NeedsManifest(c) => /\ call[c].manifest # None
                           /\ files[Session(c)].manifest # None
    /\ NeedsTranscript(c) => files[Session(c)].transcript # None
    /\ NeedsIntelligence(c) => files[Session(c)].intelligence # None
    /\ Completes(c) => files[Session(c)].report

CallerInv(c) ==
    /\ HasView(c)
    /\ MakesOwnUpdate(c)
    /\ CreatesFirst(c)
    /\ HoldsItsLock(c)
    /\ AbandonsUnowned(c)
    /\ HasArtifacts(c)

-----------------------------------------------------------------------------
(* The inductive invariant.                                                *)

\* A session ID that was never drawn has left no trace.
Untouched(s) == files[s] = NoFiles /\ pc[s] = "unborn"

\* A start that waits to spawn the worker of a session is the only one.
OneCreator ==
    \A c, d \in Callers : Creates(c) /\ Creates(d) /\ Session(c) = Session(d) => c = d

\* A session that names an owner names its own worker, which was spawned.
OwnerIsOwnWorker ==
    Readable /\ state.pid # None =>
        state.pid = state.session /\ pc[state.session] # "unborn"

RecordedStarts ==
    Readable =>
        LET f == files[state.session]
        IN  /\ f.checkpoint # None => f.checkpoint = state.recAt
            /\ f.manifest # None => f.manifest.started = state.recAt /\ state.recAt # None

CompletedHasAll ==
    Readable /\ state.phase = "completed" =>
        LET f == files[state.session]
        IN  f.report /\ None \notin {f.manifest, f.transcript, f.intelligence}

\* What is true of the state file beside its type.
StateInv ==
    /\ OwnerOnlyWhileCapturing
    /\ OwnerIsOwnWorker
    /\ StopIsSticky
    /\ RecordedStarts
    /\ CompletedHasAll

RecorderInv ==
    /\ RecorderTypeOK
    /\ StateInv
    /\ \A s \in Sessions \ used : Untouched(s)
    /\ \A w \in Sessions : WorkerInv(w)
    /\ \A c \in Callers : CallerInv(c)
    /\ OneCreator

-----------------------------------------------------------------------------
(* What a step of the process a, or of a status probe, leaves to the rest. *)

\* Only its own place, update and notes change, or the worker it spawns is born.
PlacesStay(a) ==
    /\ \A b \in Actors \ {a} : frame'[b] = frame[b]
    /\ \A c \in Callers \ {a} : pc'[c] = pc[c] /\ call'[c] = call[c]
    /\ \A w \in Sessions \ {a} :
          \/ pc'[w] = pc[w]
          \/ a \in Callers /\ pc[a] = "spawn" /\ w = Session(a) /\ pc'[w] = "boot"
    /\ a \in Sessions => pc[a] # "unborn" /\ pc'[a] # "unborn"

\* Nobody takes a lock from its holder.
LocksStay(a) ==
    \A s \in Sessions : captureLock[s] \in Actors \ {a} => captureLock'[s] = captureLock[s]

\* It waits to spawn a worker only of the session it did before, or of one that
\* it has just drawn.
CreatesNew(a) ==
    a \in Callers /\ Creates(a)' =>
        \/ Creates(a) /\ Session(a)' = Session(a)
        \/ Session(a)' \notin used

\* The file shows the same record or a later one of it, or a session drawn now.
RecordsGoOn ==
    /\ used \subseteq used'
    /\ \A s \in used : Current(s)' => Current(s) /\ (state' = state \/ state'.rev > state.rev)

\* Nobody takes a session from a worker that owns it and holds its lock.
OwnersStay(a) ==
    \A w \in Sessions \ {a} :
        captureLock[w] = w /\ Current(w) /\ state.pid = w => Current(w)' /\ state'.pid = w

\* Nothing on disk is lost, and nothing appears for a session not yet drawn.
FilesStay ==
    /\ \A s \in Sessions \ used : files'[s] = files[s]
    /\ \A s \in used :
          /\ files[s].dir => files'[s].dir
          /\ files[s].report => files'[s].report
          /\ files[s].manifest # None => files'[s].manifest # None
          /\ files[s].transcript # None => files'[s].transcript # None
          /\ files[s].intelligence # None => files'[s].intelligence # None

Guarantee(a) ==
    /\ PlacesStay(a)
    /\ LocksStay(a)
    /\ CreatesNew(a)
    /\ RecordsGoOn
    /\ OwnersStay(a)
    /\ FilesStay

-----------------------------------------------------------------------------
(* What follows for the state file and the artifacts from what a step does *)
(* to them.                                                                *)

\* What each step of the process a keeps of the state file and the artifacts.
StateKeeps(a) ==
    /\ StoreTypeOK' /\ files' \in [Sessions -> Artifacts]
    /\ StateInv'
    /\ RecordsGoOn /\ OwnersStay(a) /\ FilesStay

Quiet == UNCHANGED <<state, used, files>>

\* A step that leaves the state alone and takes nothing from the disk.
LEMMA FilesStepKeeps ==
    ASSUME RecorderInv, NEW a, PlacesStay(a), UNCHANGED storeVars,
           files' \in [Sessions -> Artifacts], FilesStay, RecordedStarts'
    PROVE  StateKeeps(a)
<1>1. StoreTypeOK'
  BY DEF storeVars, RecorderInv, RecorderTypeOK, StoreTypeOK, Readable
<1>2. RecordsGoOn /\ OwnersStay(a)
  BY DEF storeVars, RecordsGoOn, OwnersStay, Current, Readable
<1>3. OwnerIsOwnWorker'
  <2> SUFFICES ASSUME Readable, state.pid # None
               PROVE  state.pid = state.session /\ pc'[state.session] # "unborn"
    BY DEF storeVars, OwnerIsOwnWorker, Readable
  <2>1. /\ state.pid = state.session /\ pc[state.session] # "unborn"
        /\ state.session \in Sessions
    BY DEF RecorderInv, StateInv, OwnerIsOwnWorker, RecorderTypeOK, StoreTypeOK
  <2> QED
    BY <2>1 DEF PlacesStay
<1>4. CompletedHasAll'
  BY DEF storeVars, RecorderInv, RecorderTypeOK, StoreTypeOK, StateInv, CompletedHasAll,
         Readable, FilesStay
<1>5. OwnerOnlyWhileCapturing' /\ StopIsSticky'
  BY DEF storeVars, RecorderInv, StateInv, OwnerOnlyWhileCapturing, StopIsSticky, Readable
<1> QED
  BY <1>1, <1>2, <1>3, <1>4, <1>5 DEF StateKeeps, StateInv

\* A step that changes neither the state nor the artifacts keeps all of them.
LEMMA QuietKeeps ==
    ASSUME RecorderInv, NEW a, PlacesStay(a), Quiet
    PROVE  StateKeeps(a)
<1>1. UNCHANGED storeVars /\ files' \in [Sessions -> Artifacts] /\ FilesStay
  BY DEF Quiet, storeVars, RecorderInv, RecorderTypeOK, FilesStay
<1>2. RecordedStarts'
  BY DEF Quiet, RecorderInv, StateInv, RecordedStarts, Readable
<1> QED
  BY <1>1, <1>2, FilesStepKeeps

\* What is written names at most the session's own worker, keeps a stop, and
\* completes a session only with all of its artifacts.
HonestUpdate(r) ==
    /\ r.pid # None => r.pid = state.session /\ pc[state.session] # "unborn"
    /\ r.stopAt # None => r.phase \notin {"starting", "recording"}
    /\ r.phase = "completed" =>
          LET f == files[state.session]
          IN  f.report /\ None \notin {f.manifest, f.transcript, f.intelligence}

\* An honest update keeps the state file true of the artifacts and of the workers.
LEMMA UpdateKeeps ==
    ASSUME RecorderInv, NEW a, NEW r, NEW claim, Updates(r, claim), HonestUpdate(r),
           PlacesStay(a), files' \in [Sessions -> Artifacts], FilesStay,
           files' = files \/ RecordedStarts', r.pid = state.pid \/ OwnersStay(a)
    PROVE  StateKeeps(a)
<1>1. /\ state \in Record /\ r \in Record /\ state' \in Record /\ used' = used
      /\ state'.session = state.session /\ state'.phase = r.phase /\ state'.pid = r.pid
      /\ state'.stopAt = r.stopAt
      /\ state'.rev = state.rev + 1 /\ state.rev \in Nat
      /\ state.session \in Sessions
      /\ state.recAt # None => state'.recAt = state.recAt
      /\ WellFormed(state')
  BY UpdateFacts, WriteFacts DEF Updates, Record, ValidUpdate
<1>2. Readable /\ Readable' /\ state.session \in used
  BY <1>1, ReadableRecord DEF Readable, RecorderInv, RecorderTypeOK, StoreTypeOK
<1>3. StoreTypeOK'
  BY <1>1, <1>2 DEF RecorderInv, RecorderTypeOK, StoreTypeOK
<1>4. RecordsGoOn
  BY <1>1, <1>2 DEF RecordsGoOn, Current
<1>5. OwnerOnlyWhileCapturing'
  BY <1>1 DEF OwnerOnlyWhileCapturing, WellFormed
<1>6. OwnerIsOwnWorker'
  BY <1>1 DEF HonestUpdate, OwnerIsOwnWorker, PlacesStay
<1>7. StopIsSticky'
  BY <1>1 DEF HonestUpdate, StopIsSticky
<1>8. CompletedHasAll'
  BY <1>1, <1>2 DEF HonestUpdate, CompletedHasAll, FilesStay
<1>9. RecordedStarts'
  BY <1>1, <1>2 DEF RecordedStarts, RecorderInv, StateInv
<1>10. OwnersStay(a)
  BY <1>1, <1>2 DEF OwnersStay, Current
<1> QED
  BY <1>3, <1>4, <1>5, <1>6, <1>7, <1>8, <1>9, <1>10 DEF StateKeeps, StateInv

-----------------------------------------------------------------------------
(* The updates that the recorder makes are accepted updates of the file.   *)

\* A clock reading of the model is a time, while a revision is left.
LEMMA NowIsTime ==
    ASSUME state \in Record, state.rev < MaxRevision
    PROVE  Now \in Times /\ Now # None /\ state.rev \in 0..MaxRevision
  BY StoreAssumption, SessionAssumption DEF Now, Record

\* What the invariant says of a readable state.
LEMMA RecordFacts ==
    ASSUME RecorderInv, Readable
    PROVE  /\ state \in Record /\ state.rev \in Nat
           /\ state.session \in Sessions /\ state.session \in used
           /\ Seen(state) \in Views
  BY ReadableRecord DEF RecorderInv, RecorderTypeOK, StoreTypeOK, Readable, Record, Seen,
                        Views

\* A stop request changes neither owner nor artifacts.
LEMMA StopIsHonest ==
    ASSUME RecorderInv, NEW s, RequestStop(s, Now)
    PROVE  LET r == AfterStopRequest(state, Now)
           IN  s \in Sessions /\ Updates(r, FALSE) /\ HonestUpdate(r) /\ r.pid = state.pid
<1> DEFINE r == AfterStopRequest(state, Now)
<1>1. Readable /\ state \in Record /\ s \in Sessions
  BY RecordFacts DEF RequestStop, Current
<1>2. Now \in Times
  BY <1>1, NowIsTime DEF RequestStop, Write
<1>3. r \in Record /\ r.phase \in CapturePhases /\ r.pid = state.pid
  BY <1>1, <1>2 DEF RequestStop, AfterStopRequest, Record, Phases, CapturePhases
<1>4. ValidUpdate(state, r, FALSE) /\ Write(r)
  BY DEF RequestStop
<1>5. Updates(r, FALSE)
  BY <1>1, <1>3, <1>4 DEF Updates, WellFormed
<1>6. HonestUpdate(r)
  BY <1>1 DEF RequestStop, RecorderInv, StateInv, OwnerIsOwnWorker, StopIsSticky,
              AfterStopRequest, Record, HonestUpdate, CapturePhases
<1> QED
  BY <1>1, <1>3, <1>5, <1>6

\* After a stop request the session has the owner it had.
LEMMA StopKeepsOwner ==
    ASSUME RecorderInv, NEW s, RequestStop(s, Now)
    PROVE  Current(s)' /\ state'.pid = state.pid
<1>1. /\ Updates(AfterStopRequest(state, Now), FALSE) /\ Current(s)
      /\ AfterStopRequest(state, Now).pid = state.pid
  BY StopIsHonest DEF RequestStop
<1> QED
  BY <1>1, UpdateFacts, WriteFacts, ReadableRecord DEF Updates, Current, Readable

\* The first audio is recorded by the owner, which it leaves as it is.
LEMMA MarkIsHonest ==
    ASSUME RecorderInv, NEW w \in Sessions, MarkRecordingStarted(w, w, Now)
    PROVE  LET r == AfterMarkStarted(state, Now)
           IN  /\ Updates(r, FALSE) /\ HonestUpdate(r) /\ r.pid = state.pid
               /\ Current(w)' /\ state'.pid = w /\ state'.recAt # None
<1> DEFINE r == AfterMarkStarted(state, Now)
<1>1. Readable /\ state \in Record /\ state.phase \in CapturePhases
  BY RecordFacts DEF MarkRecordingStarted, CanMarkStarted, Capturing, Current
<1>2. Now \in Times /\ Now # None
  BY <1>1, NowIsTime DEF MarkRecordingStarted, Write
<1>3. /\ r \in Record /\ r.phase \in CapturePhases /\ r.pid = state.pid
      /\ r.recAt # None /\ r.session = state.session
  BY <1>1, <1>2 DEF AfterMarkStarted, Record, Phases, CapturePhases
<1>4. ValidUpdate(state, r, FALSE) /\ Write(r)
  BY DEF MarkRecordingStarted
<1>5. Updates(r, FALSE)
  BY <1>1, <1>3, <1>4 DEF Updates, WellFormed
<1>6. HonestUpdate(r)
  BY <1>1 DEF MarkRecordingStarted, RecorderInv, StateInv, OwnerIsOwnWorker, StopIsSticky,
              AfterMarkStarted, Record, HonestUpdate, CapturePhases
<1>7. Current(w)' /\ state'.pid = w /\ state'.recAt # None
  BY <1>1, <1>3, <1>4, WriteFacts, ReadableRecord
     DEF MarkRecordingStarted, CanMarkStarted, Current, Readable
<1> QED
  BY <1>3, <1>5, <1>6, <1>7

\* A claim gives an unowned session to its own worker.
LEMMA ClaimIsHonest ==
    ASSUME RecorderInv, NEW w \in Sessions, pc[w] # "unborn", ClaimWorker(w, w)
    PROVE  /\ \E r : Updates(r, TRUE) /\ HonestUpdate(r)
           /\ state.pid = None /\ Current(w)' /\ state'.pid = w
<1> DEFINE r == [state EXCEPT !.pid = w]
<1>1. state \in Record /\ state.session = w /\ Readable
  BY RecordFacts DEF ClaimWorker, CanClaim, Current
<1>2. state.phase = "starting" /\ state.pid = None
  BY DEF ClaimWorker, CanClaim
<1>3. /\ r \in Record
      /\ r = [state EXCEPT !.pid = r.pid]
      /\ WellFormed(r)
  BY <1>1, <1>2, SessionAssumption DEF Record, WellFormed, CapturePhases
<1>4. ValidUpdate(state, r, TRUE) /\ Write(r)
  BY DEF ClaimWorker
<1>5. Updates(r, TRUE)
  BY <1>1, <1>2, <1>3, <1>4 DEF Updates
<1>6. HonestUpdate(r)
  BY <1>1, <1>2 DEF HonestUpdate, RecorderInv, StateInv, StopIsSticky, Record
<1>7. Current(w)' /\ state'.pid = w
  BY <1>1, <1>3, <1>5, WriteFacts, ReadableRecord DEF Updates, Current, Readable, Record
<1> QED
  BY <1>2, <1>5, <1>6, <1>7

\* An abandoned session has no owner.
LEMMA AbandonIsHonest ==
    ASSUME RecorderInv, NEW s, NEW rev, Abandon(s, rev)
    PROVE  /\ s \in Sessions /\ rev \in 0..MaxRevision
           /\ \E r : Updates(r, FALSE) /\ HonestUpdate(r) /\ r.pid = None
<1> DEFINE r == [state EXCEPT !.phase = "failed", !.pid = None, !.err = "abandoned_by_user"]
<1>1. state \in Record /\ s \in Sessions /\ rev = state.rev
  BY RecordFacts DEF Abandon, CanAbandon, Current
<1>2. r \in Record /\ WellFormed(r)
  BY <1>1, StoreAssumption DEF Record, WellFormed, Phases, TerminalPhases
<1>3. ValidUpdate(state, r, FALSE) /\ Write(r)
  BY DEF Abandon
<1>4. Updates(r, FALSE) /\ rev \in 0..MaxRevision
  BY <1>1, <1>2, <1>3, NowIsTime DEF Updates, Write
<1>5. HonestUpdate(r) /\ r.pid = None
  BY <1>1 DEF HonestUpdate, Record
<1> QED
  BY <1>1, <1>4, <1>5

\* The record that an update of a process writes.
LEMMA CommitFacts ==
    ASSUME RecorderInv, NEW a \in Actors, UpdateCommit(a)
    PROVE  LET f == frame[a]
               r == Changed(state, f)
           IN  /\ Current(f.session) /\ f.session \in Sessions
               /\ f.seen \in 0..MaxRevision
               /\ r \in Offers(f.session, f.seen)
               /\ Updates(r, FALSE)
               /\ r.phase = IF f.phase = Keep THEN state.phase ELSE f.phase
               /\ r.pid = IF r.phase \in CapturePhases THEN state.pid ELSE None
               /\ r.stopAt = state.stopAt
               /\ TransitionAllowed(state.phase, r.phase)
<1> DEFINE f == frame[a]
           r == Changed(state, f)
<1>1. /\ Current(f.session) /\ state.rev = f.seen /\ WellFormed(r)
      /\ ValidUpdate(state, r, FALSE) /\ Write(r)
  BY DEF UpdateCommit, CompareAndSet, Accepts
<1>2. state \in Record /\ f \in Frames /\ f.session \in Sessions
  BY <1>1, RecordFacts DEF Current, RecorderInv, RecorderTypeOK, MemoryTypeOK
<1>3. /\ r.phase = IF f.phase = Keep THEN state.phase ELSE f.phase
      /\ r.pid = IF r.phase \in CapturePhases THEN state.pid ELSE None
      /\ r.stopAt = state.stopAt
      /\ r.session = state.session /\ r.rev = state.rev
  BY <1>2 DEF Changed, Record
<1>4. r \in Record
  <2>1. f.phase \in Phases \cup {Keep} /\ f.err \in ErrorCodes \cup {None, Keep}
    BY <1>2 DEF Frames
  <2> HIDE DEF f
  <2> QED
    BY ONLY <1>2, <2>1 DEF r, Changed, Record
<1>5. f.seen \in 0..MaxRevision
  BY <1>1, <1>2, NowIsTime DEF Write
<1>6. r \in Offers(f.session, f.seen)
  BY <1>1, <1>3, <1>4 DEF Offers, Record, Current
<1> QED
  BY <1>1, <1>2, <1>3, <1>4, <1>5, <1>6 DEF Updates, ValidUpdate

-----------------------------------------------------------------------------
(* What a single write or call does to the files and to the frames.        *)

WritesFile(s) ==
    \/ files' = files
    \/ SetFile(s, "dir", TRUE)
    \/ SetFile(s, "stop", TRUE)
    \/ SetFile(s, "report", TRUE)
    \/ \E t \in Times : SetFile(s, "checkpoint", t)
    \/ \E m \in Manifests : \/ SetFile(s, "manifest", m)
                            \/ SetFile(s, "transcript", m)
                            \/ SetFile(s, "intelligence", m)

\* A write of an artifact keeps the others.
LEMMA WritesFileFacts ==
    ASSUME files \in [Sessions -> Artifacts], used \subseteq Sessions, NEW s \in used,
           WritesFile(s)
    PROVE  files' \in [Sessions -> Artifacts] /\ FilesStay
<1>1. files' \in [Sessions -> Artifacts]
  <2> USE DEF SetFile, Artifacts
  <2>1. CASE files' = files
    BY <2>1
  <2>2. CASE SetFile(s, "dir", TRUE)
    BY <2>2
  <2>3. CASE SetFile(s, "stop", TRUE)
    BY <2>3
  <2>4. CASE SetFile(s, "report", TRUE)
    BY <2>4
  <2>5. CASE \E t \in Times : SetFile(s, "checkpoint", t)
    BY <2>5
  <2>6. CASE \E m \in Manifests : SetFile(s, "manifest", m)
    BY <2>6
  <2>7. CASE \E m \in Manifests : SetFile(s, "transcript", m)
    BY <2>7
  <2>8. CASE \E m \in Manifests : SetFile(s, "intelligence", m)
    BY <2>8
  <2> QED
    BY <2>1, <2>2, <2>3, <2>4, <2>5, <2>6, <2>7, <2>8 DEF WritesFile
<1>2. FilesStay
  BY SessionAssumption DEF WritesFile, SetFile, Artifacts, FilesStay
<1> QED
  BY <1>1, <1>2

\* A call of an update leaves well-formed frames.
LEMMA CallUpdateFacts ==
    ASSUME MemoryTypeOK, NEW a \in Actors, NEW s \in Sessions, NEW phase \in Phases \cup {Keep},
           NEW err \in WrittenCodes \cup {None, Keep}, NEW ok \in Labels, NEW fail \in Labels,
           CallUpdate(a, s, phase, err, ok, fail)
    PROVE  frame' \in [Actors -> Frames]
  BY SessionAssumption DEF MemoryTypeOK, CallUpdate, CallUpdateIn, Frames

-----------------------------------------------------------------------------
(* The steps of a caller, by command.                                      *)

\* What each step of a caller keeps beside the state file and the artifacts.
CallerKeeps(c) ==
    MemoryTypeOK' /\ PlacesStay(c) /\ LocksStay(c) /\ CreatesNew(c) /\ CallerInv(c)'

\* The part of the invariant that the steps of a caller count on.
CallerKnows(c) ==
    /\ MemoryTypeOK /\ files \in [Sessions -> Artifacts] /\ used \subseteq Sessions
    /\ Readable => /\ Seen(state) \in Views /\ state.rev \in Nat
                   /\ state.session \in used
    /\ HasView(c) /\ MakesOwnUpdate(c) /\ CreatesFirst(c) /\ HoldsItsLock(c)
    /\ AbandonsUnowned(c) /\ HasArtifacts(c)
    /\ OwnerIsOwnWorker
    /\ \A w \in Sessions : pc[w] # "unborn" => files[w].dir
    /\ \A s \in Sessions \ used : pc[s] = "unborn"

\* The invariant gives a caller what it counts on.
LEMMA CallerFacts ==
    ASSUME RecorderInv, NEW c \in Callers
    PROVE  CallerKnows(c)
  BY RecordFacts DEF CallerKnows, RecorderInv, RecorderTypeOK, StoreTypeOK, StateInv,
                     CallerInv, WorkerInv, IsBorn, Untouched

\* What a call of update remembers is a frame.
LEMMA UpdateFrames ==
    ASSUME frame \in [Actors -> Frames], NEW a \in Actors, NEW s \in Sessions,
           NEW only \in SUBSET Phases, NEW phase \in Phases \cup {Keep},
           NEW error \in WrittenCodes \cup {None, Keep},
           NEW ok \in Labels, NEW fail \in Labels,
           CallUpdateIn(a, s, only, phase, error, ok, fail)
    PROVE  frame' \in [Actors -> Frames]
  BY SessionAssumption DEF CallUpdateIn, Frames

\* No session ID is left to draw.
Exhausted(c) ==
    /\ pc[c] = "reserve" /\ Done(c)
    /\ keepState /\ keepLocks /\ UNCHANGED <<files, frame>>

BeginStep(c) == StartBegin(c) \/ StopBegin(c) \/ AbandonBegin(c) \/ Exhausted(c)

\* A command that begins looks at the state, and changes only what it remembers.
LEMMA BeginKeeps ==
    ASSUME RecorderInv, NEW c \in Callers, BeginStep(c)
    PROVE  CallerKeeps(c) /\ Quiet
<1> USE SessionAssumption
    DEF Actors, Goto, Look, LookToAbandon, Done, Release, Acquire, Drop, Return, CallUpdate,
           CallUpdateIn, CallRecovery, RecoveryConflict, RecoveryReturns, SetFile
<1>1. MemoryTypeOK
  BY CallerFacts DEF CallerKnows
<1>2. HasView(c) /\ used \subseteq Sessions
  BY CallerFacts DEF CallerKnows
<1>3. Readable =>
         Seen(state) \in Views /\ state.rev \in Nat /\ state.session \in used
  BY CallerFacts DEF CallerKnows
<1>4. HoldsItsLock(c) /\ CreatesFirst(c) /\ HasArtifacts(c)
  BY CallerFacts DEF CallerKnows
<1>5. files \in [Sessions -> Artifacts]
  BY CallerFacts DEF CallerKnows
<1>6. pc' \in [Actors -> Labels] /\ captureLock' \in [Sessions -> Actors \cup {None, Probe}]
  BY <1>1 DEF BeginStep, StartBegin, StopBegin, AbandonBegin, Exhausted, MemoryTypeOK,
              Labels, CallerLabels, WorkerLabels, keepLocks
<1>7. frame' \in [Actors -> Frames]
  BY <1>1, <1>2 DEF BeginStep, StartBegin, StopBegin, AbandonBegin, Exhausted, MemoryTypeOK,
                    Frames, NoFrame, Labels, CallerLabels, WrittenCodes, Phases,
                    CapturePhases, TerminalPhases, ProcessingPhases, AwaitingPhases,
                    HasView, Views, Session, View
<1>8. call' \in [Callers -> Calls]
  <2>1. StopBegin(c) \/ AbandonBegin(c) => Readable
    BY DEF StopBegin, AbandonBegin
  <2>2. StartBegin(c) \/ AbandonBegin(c) \/ StopBegin(c) =>
           \/ UNCHANGED call
           \/ /\ Readable
              /\ \/ call' = [call EXCEPT ![c].view = Seen(state)]
                 \/ call' = [call EXCEPT ![c].view = Seen(state), ![c].rev = state.rev]
    BY ONLY <2>1 DEF StartBegin, StopBegin, AbandonBegin, Look, LookToAbandon, Capturing
  <2>3. Exhausted(c) => call' = [call EXCEPT ![c] = NoCall]
    BY DEF Exhausted
  <2>4. c \in Callers /\ call \in [Callers -> Calls] /\ NoCall \in Calls
    BY <1>1 DEF MemoryTypeOK, Calls, NoCall
  <2>5. Readable =>
           /\ [call EXCEPT ![c].view = Seen(state)] \in [Callers -> Calls]
           /\ [call EXCEPT ![c].view = Seen(state), ![c].rev = state.rev]
                 \in [Callers -> Calls]
    <3>1. ASSUME Readable
          PROVE  \E v \in Views, r \in Nat : v = Seen(state) /\ r = state.rev
      BY <1>3, <3>1
    <3>2. ASSUME NEW v \in Views, NEW r \in Nat
          PROVE  /\ [call EXCEPT ![c].view = v] \in [Callers -> Calls]
                 /\ [call EXCEPT ![c].view = v, ![c].rev = r] \in [Callers -> Calls]
      BY ONLY <2>4, <3>2 DEF Calls
    <3>3. ASSUME NEW v \in Views, NEW r \in Nat, v = Seen(state) /\ r = state.rev
          PROVE  /\ [call EXCEPT ![c].view = Seen(state)] \in [Callers -> Calls]
                 /\ [call EXCEPT ![c].view = Seen(state), ![c].rev = state.rev]
                       \in [Callers -> Calls]
      BY ONLY <3>2, <3>3
    <3> QED
      BY ONLY <3>1, <3>3
  <2> QED
    BY <2>2, <2>3, <2>4, <2>5 DEF BeginStep
<1>9. PlacesStay(c)
  BY <1>1, <1>2 DEF BeginStep, StartBegin, StopBegin, AbandonBegin, Exhausted, MemoryTypeOK,
                    PlacesStay, HasView, Views
<1>10. LocksStay(c)
  BY <1>1, <1>4 DEF BeginStep, StartBegin, StopBegin, AbandonBegin, Exhausted, MemoryTypeOK,
                    LocksStay, keepLocks, HoldsItsLock, HoldsCapture
<1>11. CreatesNew(c)
  BY <1>1 DEF BeginStep, StartBegin, StopBegin, AbandonBegin, Exhausted, MemoryTypeOK,
              CreatesNew, Creates, Updating, Session, View
<1>12. HasView(c)'
  BY <1>1, <1>2, <1>3 DEF BeginStep, StartBegin, StopBegin, AbandonBegin, Exhausted,
                          MemoryTypeOK, Calls, NoCall, HasView, View, Session, Views,
                          Current, Capturing, keepState, Seen, Phases
<1>13. MakesOwnUpdate(c)'
  BY <1>1, <1>2 DEF BeginStep, StartBegin, StopBegin, AbandonBegin, Exhausted, MemoryTypeOK,
                    Frames, Calls, MakesOwnUpdate, CallerFrame, HasView, View, Session,
                    Views
<1>14. CreatesFirst(c)'
  BY <1>1, <1>2, <1>4 DEF BeginStep, StartBegin, StopBegin, AbandonBegin, Exhausted,
                          MemoryTypeOK, CreatesFirst, Creates, Updating, HasView, Frames,
                          View, Session
<1>15. HoldsItsLock(c)'
  BY <1>1, <1>2, <1>3, <1>4 DEF BeginStep, StartBegin, StopBegin, AbandonBegin, Exhausted,
                                MemoryTypeOK, HoldsItsLock, HoldsCapture, Updating, HasView,
                                View, Session, Views, Frames, Calls, Current, Seen,
                                keepLocks
<1>16. OwnerIsOwnWorker /\ \A w \in Sessions : pc[w] # "unborn" => files[w].dir
  BY CallerFacts DEF CallerKnows
<1>17. AbandonsUnowned(c)'
  BY <1>1, <1>2, <1>3, <1>4, <1>16 DEF BeginStep, StartBegin, StopBegin, AbandonBegin,
                                       Exhausted, MemoryTypeOK, AbandonsUnowned, HasView,
                                       HoldsItsLock, HoldsCapture, OwnerIsOwnWorker,
                                       keepState, keepLocks, Calls, Seen, View, Session,
                                       Current, Readable
<1>18. HasArtifacts(c)'
  BY <1>1, <1>2 DEF BeginStep, StartBegin, StopBegin, AbandonBegin, Exhausted, MemoryTypeOK,
                    HasArtifacts, NeedsManifest, NeedsTranscript, NeedsIntelligence,
                    Completes, Updating, HasView, Calls, Frames, Session, View, Views
<1>19. Quiet
  BY DEF BeginStep, StartBegin, StopBegin, AbandonBegin, Exhausted, Quiet, keepState
<1> QED
  BY <1>6, <1>7, <1>8, <1>9, <1>10, <1>11, <1>12, <1>13, <1>14, <1>15, <1>17, <1>18, <1>19
     DEF CallerKeeps, MemoryTypeOK, CallerInv

StartStep(c) ==
    \/ \E alive \in BOOLEAN : StartProbe(c, alive) \/ DeadlineProbe(c, alive)
    \/ HandshakeRead(c)
    \/ HandshakeProbe(c)
    \/ HandshakeDeadline(c)
    \/ StartInterrupted(c)

\* A start that probes and waits changes only what it remembers.
LEMMA StartKeeps ==
    ASSUME RecorderInv, NEW c \in Callers, StartStep(c)
    PROVE  CallerKeeps(c) /\ Quiet
<1> USE SessionAssumption
    DEF Actors, Goto, Look, LookToAbandon, Done, Release, Acquire, Drop, Return, CallUpdate,
           CallUpdateIn, CallRecovery, RecoveryConflict, RecoveryReturns, SetFile
<1>1. MemoryTypeOK
  BY CallerFacts DEF CallerKnows
<1>2. HasView(c) /\ used \subseteq Sessions
  BY CallerFacts DEF CallerKnows
<1>3. Readable =>
         Seen(state) \in Views /\ state.rev \in Nat /\ state.session \in used
  BY CallerFacts DEF CallerKnows
<1>4. HoldsItsLock(c) /\ CreatesFirst(c) /\ HasArtifacts(c)
  BY CallerFacts DEF CallerKnows
<1>5. files \in [Sessions -> Artifacts]
  BY CallerFacts DEF CallerKnows
<1>6. pc' \in [Actors -> Labels] /\ captureLock' \in [Sessions -> Actors \cup {None, Probe}]
  BY <1>1 DEF StartStep, StartProbe, DeadlineProbe, HandshakeRead, HandshakeProbe,
              HandshakeDeadline, StartInterrupted, MemoryTypeOK, Labels, CallerLabels,
              WorkerLabels, keepLocks
<1>7. frame' \in [Actors -> Frames]
  BY <1>1, <1>2 DEF StartStep, StartProbe, DeadlineProbe, HandshakeRead, HandshakeProbe,
                    HandshakeDeadline, StartInterrupted, MemoryTypeOK, Frames, NoFrame,
                    Labels, CallerLabels, WrittenCodes, Phases, CapturePhases,
                    TerminalPhases, ProcessingPhases, AwaitingPhases, HasView, Views,
                    Session, View
<1>8. call' \in [Callers -> Calls]
  BY <1>1, <1>2, <1>3, <1>5 DEF StartStep, StartProbe, DeadlineProbe, HandshakeRead,
                                HandshakeProbe, HandshakeDeadline, StartInterrupted,
                                MemoryTypeOK, Calls, NoCall, Purposes, Current
<1>9. PlacesStay(c)
  BY <1>1, <1>2 DEF StartStep, StartProbe, DeadlineProbe, HandshakeRead, HandshakeProbe,
                    HandshakeDeadline, StartInterrupted, MemoryTypeOK, PlacesStay, HasView,
                    Views
<1>10. LocksStay(c)
  BY <1>1, <1>4 DEF StartStep, StartProbe, DeadlineProbe, HandshakeRead, HandshakeProbe,
                    HandshakeDeadline, StartInterrupted, MemoryTypeOK, LocksStay, keepLocks,
                    HoldsItsLock, HoldsCapture
<1>11. CreatesNew(c)
  BY <1>1 DEF StartStep, StartProbe, DeadlineProbe, HandshakeRead, HandshakeProbe,
              HandshakeDeadline, StartInterrupted, MemoryTypeOK, CreatesNew, Creates,
              Updating, Session, View
<1>12. HasView(c)'
  BY <1>1, <1>2, <1>3 DEF StartStep, StartProbe, DeadlineProbe, HandshakeRead,
                          HandshakeProbe, HandshakeDeadline, StartInterrupted, MemoryTypeOK,
                          Calls, NoCall, HasView, View, Session, Views, Current, keepState,
                          Seen, Phases
<1>13. MakesOwnUpdate(c)'
  BY <1>1, <1>2 DEF StartStep, StartProbe, DeadlineProbe, HandshakeRead, HandshakeProbe,
                    HandshakeDeadline, StartInterrupted, MemoryTypeOK, Frames, Calls,
                    MakesOwnUpdate, CallerFrame, HasView, View, Session, Views
<1>14. CreatesFirst(c)'
  BY <1>1, <1>2, <1>4 DEF StartStep, StartProbe, DeadlineProbe, HandshakeRead,
                          HandshakeProbe, HandshakeDeadline, StartInterrupted, MemoryTypeOK,
                          CreatesFirst, Creates, Updating, HasView, Frames, View, Session
<1>15. HoldsItsLock(c)'
  BY <1>1, <1>2, <1>3, <1>4 DEF StartStep, StartProbe, DeadlineProbe, HandshakeRead,
                                HandshakeProbe, HandshakeDeadline, StartInterrupted,
                                MemoryTypeOK, HoldsItsLock, HoldsCapture, Updating, HasView,
                                View, Session, Views, Frames, Calls, Current, Seen,
                                keepLocks
<1>16. AbandonsUnowned(c)'
  BY <1>1, <1>2, <1>3, <1>4 DEF StartStep, StartProbe, DeadlineProbe, HandshakeRead,
                                HandshakeProbe, HandshakeDeadline, StartInterrupted,
                                MemoryTypeOK, AbandonsUnowned, HasView, HoldsItsLock,
                                HoldsCapture, keepState, keepLocks, Calls, Seen, View,
                                Session, Current, Readable
<1>17. HasArtifacts(c)'
  BY <1>1, <1>2 DEF StartStep, StartProbe, DeadlineProbe, HandshakeRead, HandshakeProbe,
                    HandshakeDeadline, StartInterrupted, MemoryTypeOK, HasArtifacts,
                    NeedsManifest, NeedsTranscript, NeedsIntelligence, Completes, Updating,
                    HasView, Calls, Frames, Session, View, Views
<1>18. Quiet
  BY DEF StartStep, StartProbe, DeadlineProbe, HandshakeRead, HandshakeProbe,
         HandshakeDeadline, StartInterrupted, Quiet, keepState
<1> QED
  BY <1>6, <1>7, <1>8, <1>9, <1>10, <1>11, <1>12, <1>13, <1>14, <1>15, <1>16, <1>17, <1>18
     DEF CallerKeeps, MemoryTypeOK, CallerInv

\* The worker it spawns is born with the directory that the start created.
LEMMA SpawnKeeps ==
    ASSUME RecorderInv, NEW c \in Callers, StartSpawn(c)
    PROVE  CallerKeeps(c) /\ Quiet
<1> USE SessionAssumption
    DEF Actors, Goto, Look, LookToAbandon, Done, Release, Acquire, Drop, Return, CallUpdate,
           CallUpdateIn, CallRecovery, RecoveryConflict, RecoveryReturns, SetFile
<1>1. MemoryTypeOK
  BY CallerFacts DEF CallerKnows
<1>2. HasView(c) /\ used \subseteq Sessions
  BY CallerFacts DEF CallerKnows
<1>3. Readable =>
         Seen(state) \in Views /\ state.rev \in Nat /\ state.session \in used
  BY CallerFacts DEF CallerKnows
<1>4. HoldsItsLock(c) /\ CreatesFirst(c) /\ HasArtifacts(c)
  BY CallerFacts DEF CallerKnows
<1>5. files \in [Sessions -> Artifacts]
  BY CallerFacts DEF CallerKnows
<1>6. pc' \in [Actors -> Labels] /\ captureLock' \in [Sessions -> Actors \cup {None, Probe}]
  BY <1>1 DEF StartSpawn, MemoryTypeOK, Labels, CallerLabels, WorkerLabels, keepLocks
<1>7. frame' \in [Actors -> Frames]
  <2>1. Session(c) \in Sessions
    BY <1>2 DEF StartSpawn, HasView
  <2>2. "failed" \in Phases /\ "setup_failed" \in WrittenCodes /\ "leave" \in Labels
    BY DEF Phases, TerminalPhases, WrittenCodes, Labels, CallerLabels
  <2>3. CASE CallUpdate(c, Session(c), "failed", "setup_failed", "leave", "leave")
    BY <1>1, <2>1, <2>2, <2>3, UpdateFrames DEF MemoryTypeOK, CallUpdate
  <2> QED
    BY <1>1, <2>3 DEF StartSpawn, MemoryTypeOK
<1>8. call' \in [Callers -> Calls]
  BY <1>1, <1>2, <1>3, <1>5 DEF StartSpawn, MemoryTypeOK, Calls, NoCall, Purposes
<1>9. PlacesStay(c)
  BY <1>1, <1>2 DEF StartSpawn, MemoryTypeOK, PlacesStay, HasView, Views
<1>10. LocksStay(c)
  BY <1>1, <1>4 DEF StartSpawn, MemoryTypeOK, LocksStay, keepLocks, HoldsItsLock,
                    HoldsCapture
<1>11. CreatesNew(c)
  BY <1>1 DEF StartSpawn, MemoryTypeOK, CreatesNew, Creates, Updating, Session, View
<1>12. HasView(c)'
  BY <1>1, <1>2, <1>3 DEF StartSpawn, MemoryTypeOK, Calls, NoCall, HasView, View, Session,
                          Views, Current, keepState, Seen, Phases
<1>13. MakesOwnUpdate(c)'
  BY <1>1, <1>2 DEF StartSpawn, MemoryTypeOK, Frames, Calls, MakesOwnUpdate, CallerFrame,
                    HasView, View, Session, Views
<1>14. CreatesFirst(c)'
  BY <1>1, <1>2, <1>4 DEF StartSpawn, MemoryTypeOK, CreatesFirst, Creates, Updating,
                          HasView, Frames, View, Session
<1>15. HoldsItsLock(c)'
  BY <1>1, <1>2, <1>3, <1>4 DEF StartSpawn, MemoryTypeOK, HoldsItsLock, HoldsCapture,
                                Updating, HasView, View, Session, Views, Frames, Calls,
                                Current, Seen, keepLocks
<1>16. AbandonsUnowned(c)'
  BY <1>1, <1>2, <1>3, <1>4 DEF StartSpawn, MemoryTypeOK, AbandonsUnowned, HasView,
                                HoldsItsLock, HoldsCapture, keepState, keepLocks, Calls,
                                Seen, View, Session, Current, Readable
<1>17. HasArtifacts(c)'
  BY <1>1, <1>2 DEF StartSpawn, MemoryTypeOK, HasArtifacts, NeedsManifest, NeedsTranscript,
                    NeedsIntelligence, Completes, Updating, HasView, Calls, Frames, Session,
                    View, Views
<1>18. Quiet
  BY DEF StartSpawn, Quiet, keepState
<1> QED
  BY <1>6, <1>7, <1>8, <1>9, <1>10, <1>11, <1>12, <1>13, <1>14, <1>15, <1>16, <1>17, <1>18
     DEF CallerKeeps, MemoryTypeOK, CallerInv

StopStep(c) == WaitRead(c) \/ WaitProbe(c) \/ WaitDeadline(c) \/ StopSettled(c)

\* So does a stop that waits for the recorder.
LEMMA StopKeeps ==
    ASSUME RecorderInv, NEW c \in Callers, StopStep(c)
    PROVE  CallerKeeps(c) /\ Quiet
<1> USE SessionAssumption
    DEF Actors, Goto, Look, LookToAbandon, Done, Release, Acquire, Drop, Return, CallUpdate,
           CallUpdateIn, CallRecovery, RecoveryConflict, RecoveryReturns, SetFile
<1>1. MemoryTypeOK
  BY CallerFacts DEF CallerKnows
<1>2. HasView(c) /\ used \subseteq Sessions
  BY CallerFacts DEF CallerKnows
<1>3. Readable =>
         Seen(state) \in Views /\ state.rev \in Nat /\ state.session \in used
  BY CallerFacts DEF CallerKnows
<1>4. HoldsItsLock(c) /\ CreatesFirst(c) /\ HasArtifacts(c)
  BY CallerFacts DEF CallerKnows
<1>5. files \in [Sessions -> Artifacts]
  BY CallerFacts DEF CallerKnows
<1>6. pc' \in [Actors -> Labels] /\ captureLock' \in [Sessions -> Actors \cup {None, Probe}]
  BY <1>1 DEF StopStep, WaitRead, WaitProbe, WaitDeadline, StopSettled, MemoryTypeOK,
              Labels, CallerLabels, WorkerLabels, keepLocks
<1>7. frame' \in [Actors -> Frames]
  BY <1>1, <1>2 DEF StopStep, WaitRead, WaitProbe, WaitDeadline, StopSettled, MemoryTypeOK,
                    Frames, NoFrame, Labels, CallerLabels, WrittenCodes, Phases,
                    CapturePhases, TerminalPhases, ProcessingPhases, AwaitingPhases,
                    HasView, Views, Session, View
<1>8. call' \in [Callers -> Calls]
  <2>1. CASE WaitRead(c) \/ WaitProbe(c) \/ WaitDeadline(c)
    BY <1>1, <1>3, <2>1 DEF WaitRead, WaitProbe, WaitDeadline, MemoryTypeOK, Calls, NoCall,
                            Purposes, Current
  <2>2. CASE StopSettled(c)
    BY <1>1, <2>2 DEF StopSettled, MemoryTypeOK, Calls, NoCall, Purposes
  <2> QED
    BY <2>1, <2>2 DEF StopStep
<1>9. PlacesStay(c)
  BY <1>1, <1>2 DEF StopStep, WaitRead, WaitProbe, WaitDeadline, StopSettled, MemoryTypeOK,
                    PlacesStay, HasView, Views
<1>10. LocksStay(c)
  BY <1>1, <1>4 DEF StopStep, WaitRead, WaitProbe, WaitDeadline, StopSettled, MemoryTypeOK,
                    LocksStay, keepLocks, HoldsItsLock, HoldsCapture
<1>11. CreatesNew(c)
  BY <1>1 DEF StopStep, WaitRead, WaitProbe, WaitDeadline, StopSettled, MemoryTypeOK,
              CreatesNew, Creates, Updating, Session, View
<1>12. HasView(c)'
  BY <1>1, <1>2, <1>3 DEF StopStep, WaitRead, WaitProbe, WaitDeadline, StopSettled,
                          MemoryTypeOK, Calls, NoCall, HasView, View, Session, Views,
                          Current, Capturing, keepState, Seen, Phases
<1>13. MakesOwnUpdate(c)'
  BY <1>1, <1>2 DEF StopStep, WaitRead, WaitProbe, WaitDeadline, StopSettled, MemoryTypeOK,
                    Frames, Calls, MakesOwnUpdate, CallerFrame, HasView, View, Session,
                    Views
<1>14. CreatesFirst(c)'
  BY <1>1, <1>2, <1>4 DEF StopStep, WaitRead, WaitProbe, WaitDeadline, StopSettled,
                          MemoryTypeOK, CreatesFirst, Creates, Updating, HasView, Frames,
                          View, Session
<1>15. HoldsItsLock(c)'
  BY <1>1, <1>2, <1>3, <1>4 DEF StopStep, WaitRead, WaitProbe, WaitDeadline, StopSettled,
                                MemoryTypeOK, HoldsItsLock, HoldsCapture, Updating, HasView,
                                View, Session, Views, Frames, Calls, Current, Seen,
                                keepLocks
<1>16. AbandonsUnowned(c)'
  BY <1>1, <1>2, <1>3, <1>4 DEF StopStep, WaitRead, WaitProbe, WaitDeadline, StopSettled,
                                MemoryTypeOK, AbandonsUnowned, HasView, HoldsItsLock,
                                HoldsCapture, keepState, keepLocks, Calls, Seen, View,
                                Session, Current, Readable
<1>17. HasArtifacts(c)'
  BY <1>1, <1>2 DEF StopStep, WaitRead, WaitProbe, WaitDeadline, StopSettled, MemoryTypeOK,
                    HasArtifacts, NeedsManifest, NeedsTranscript, NeedsIntelligence,
                    Completes, Updating, HasView, Calls, Frames, HasFile, Session, View,
                    Views
<1>18. Quiet
  BY DEF StopStep, WaitRead, WaitProbe, WaitDeadline, StopSettled, Quiet, keepState
<1> QED
  BY <1>6, <1>7, <1>8, <1>9, <1>10, <1>11, <1>12, <1>13, <1>14, <1>15, <1>16, <1>17, <1>18
     DEF CallerKeeps, MemoryTypeOK, CallerInv

ProcessStep(c) ==
    ProcessLock(c) \/ ProcessRead(c) \/ Load(c) \/ ProcessFailed(c) \/ Processed(c)

\* Processing goes on only with the manifest that it fingerprinted.
LEMMA ProcessKeeps ==
    ASSUME RecorderInv, NEW c \in Callers, ProcessStep(c)
    PROVE  CallerKeeps(c) /\ Quiet
<1> USE SessionAssumption
    DEF Actors, Goto, Look, LookToAbandon, Done, Release, Acquire, Drop, Return, CallUpdate,
           CallUpdateIn, CallRecovery, RecoveryConflict, RecoveryReturns, SetFile
<1>1. MemoryTypeOK
  BY CallerFacts DEF CallerKnows
<1>2. HasView(c) /\ used \subseteq Sessions
  BY CallerFacts DEF CallerKnows
<1>3. Readable =>
         Seen(state) \in Views /\ state.rev \in Nat /\ state.session \in used
  BY CallerFacts DEF CallerKnows
<1>4. HoldsItsLock(c) /\ CreatesFirst(c) /\ HasArtifacts(c)
  BY CallerFacts DEF CallerKnows
<1>5. files \in [Sessions -> Artifacts]
  BY CallerFacts DEF CallerKnows
<1>6. pc' \in [Actors -> Labels] /\ captureLock' \in [Sessions -> Actors \cup {None, Probe}]
  BY <1>1 DEF ProcessStep, ProcessLock, ProcessRead, Load, ProcessFailed, Processed,
              MemoryTypeOK, Labels, CallerLabels, WorkerLabels, keepLocks
<1>7. frame' \in [Actors -> Frames]
  BY <1>1, <1>2 DEF ProcessStep, ProcessLock, ProcessRead, Load, ProcessFailed, Processed,
                    MemoryTypeOK, Frames, NoFrame, Labels, CallerLabels, WrittenCodes,
                    Phases, CapturePhases, TerminalPhases, ProcessingPhases, AwaitingPhases,
                    HasView, Views, Session, View
<1>8. call' \in [Callers -> Calls]
  <2>1. CASE Load(c)
    <3>1. Session(c) \in Sessions
      BY <1>2, <2>1 DEF Load, HasView
    <3>2. \/ UNCHANGED call
          \/ \E m \in Manifests : call' = [call EXCEPT ![c].manifest = m]
      BY <1>5, <2>1, <3>1 DEF Load, Artifacts, HasFile, Fingerprint
    <3> QED
      BY <1>1, <3>2 DEF MemoryTypeOK, Calls
  <2>2. CASE ProcessLock(c) \/ ProcessRead(c) \/ ProcessFailed(c) \/ Processed(c)
    BY <1>1, <1>3, <2>2 DEF ProcessLock, ProcessRead, ProcessFailed, Processed,
                            MemoryTypeOK, Calls, NoCall, Current
  <2> QED
    BY <2>1, <2>2 DEF ProcessStep
<1>9. PlacesStay(c)
  BY <1>1, <1>2 DEF ProcessStep, ProcessLock, ProcessRead, Load, ProcessFailed, Processed,
                    MemoryTypeOK, PlacesStay, HasView, Views
<1>10. LocksStay(c)
  BY <1>1, <1>4 DEF ProcessStep, ProcessLock, ProcessRead, Load, ProcessFailed, Processed,
                    MemoryTypeOK, LocksStay, keepLocks, HoldsItsLock, HoldsCapture
<1>11. CreatesNew(c)
  BY <1>1 DEF ProcessStep, ProcessLock, ProcessRead, Load, ProcessFailed, Processed,
              MemoryTypeOK, CreatesNew, Creates, Updating, Session, View
<1>12. HasView(c)'
  BY <1>1, <1>2, <1>3 DEF ProcessStep, ProcessLock, ProcessRead, Load, ProcessFailed,
                          Processed, MemoryTypeOK, Calls, NoCall, HasView, View, Session,
                          Views, Current, keepState, Seen, Phases
<1>13. MakesOwnUpdate(c)'
  BY <1>1, <1>2 DEF ProcessStep, ProcessLock, ProcessRead, Load, ProcessFailed, Processed,
                    MemoryTypeOK, Frames, Calls, MakesOwnUpdate, CallerFrame, HasView, View,
                    Session, Views
<1>14. CreatesFirst(c)'
  BY <1>1, <1>2, <1>4 DEF ProcessStep, ProcessLock, ProcessRead, Load, ProcessFailed,
                          Processed, MemoryTypeOK, CreatesFirst, Creates, Updating, HasView,
                          Frames, View, Session
<1>15. HoldsItsLock(c)'
  BY <1>1, <1>2, <1>3, <1>4 DEF ProcessStep, ProcessLock, ProcessRead, Load, ProcessFailed,
                                Processed, MemoryTypeOK, HoldsItsLock, HoldsCapture,
                                Updating, HasView, View, Session, Views, Frames, Calls,
                                Current, Seen, keepLocks
<1>16. AbandonsUnowned(c)'
  BY <1>1, <1>2, <1>3, <1>4 DEF ProcessStep, ProcessLock, ProcessRead, Load, ProcessFailed,
                                Processed, MemoryTypeOK, AbandonsUnowned, HasView,
                                HoldsItsLock, HoldsCapture, keepState, keepLocks, Calls,
                                Seen, View, Session, Current, Readable
<1>17. HasArtifacts(c)'
  BY <1>1, <1>2 DEF ProcessStep, ProcessLock, ProcessRead, Load, ProcessFailed, Processed,
                    MemoryTypeOK, HasArtifacts, NeedsManifest, NeedsTranscript,
                    NeedsIntelligence, Completes, Updating, HasView, Calls, Frames, HasFile,
                    Session, View, Fingerprint, Views
<1>18. Quiet
  BY DEF ProcessStep, ProcessLock, ProcessRead, Load, ProcessFailed, Processed, Quiet,
         keepState
<1> QED
  BY <1>6, <1>7, <1>8, <1>9, <1>10, <1>11, <1>12, <1>13, <1>14, <1>15, <1>16, <1>17, <1>18
     DEF CallerKeeps, MemoryTypeOK, CallerInv

AbandonStep(c) ==
    AbandonCapture(c) \/ AbandonProcess(c) \/ AbandonRead(c) \/ Leave(c) \/ CallerDies(c)

\* An abandon takes and gives back locks; a caller that ends gives back its own.
LEMMA AbandonKeeps ==
    ASSUME RecorderInv, NEW c \in Callers, AbandonStep(c)
    PROVE  CallerKeeps(c) /\ Quiet
<1> USE SessionAssumption
    DEF Actors, Goto, Look, LookToAbandon, Done, Release, Acquire, Drop, Return, CallUpdate,
           CallUpdateIn, CallRecovery, RecoveryConflict, RecoveryReturns, SetFile
<1>1. MemoryTypeOK
  BY CallerFacts DEF CallerKnows
<1>2. HasView(c) /\ used \subseteq Sessions
  BY CallerFacts DEF CallerKnows
<1>3. Readable =>
         Seen(state) \in Views /\ state.rev \in Nat /\ state.session \in used
  BY CallerFacts DEF CallerKnows
<1>4. HoldsItsLock(c) /\ CreatesFirst(c) /\ HasArtifacts(c)
  BY CallerFacts DEF CallerKnows
<1>5. files \in [Sessions -> Artifacts]
  BY CallerFacts DEF CallerKnows
<1>6. pc' \in [Actors -> Labels] /\ captureLock' \in [Sessions -> Actors \cup {None, Probe}]
  BY <1>1 DEF AbandonStep, AbandonCapture, AbandonProcess, AbandonRead, Leave, CallerDies,
              MemoryTypeOK, Labels, CallerLabels, WorkerLabels, keepLocks
<1>7. frame' \in [Actors -> Frames]
  BY <1>1, <1>2 DEF AbandonStep, AbandonCapture, AbandonProcess, AbandonRead, Leave,
                    CallerDies, MemoryTypeOK, Frames, NoFrame, Labels, CallerLabels,
                    WrittenCodes, Phases, CapturePhases, TerminalPhases, ProcessingPhases,
                    AwaitingPhases, HasView, Views, Session, View
<1>8. call' \in [Callers -> Calls]
  BY <1>1, <1>2, <1>3, <1>5 DEF AbandonStep, AbandonCapture, AbandonProcess, AbandonRead,
                                Leave, CallerDies, MemoryTypeOK, Calls, NoCall, Purposes,
                                Current
<1>9. PlacesStay(c)
  BY <1>1, <1>2 DEF AbandonStep, AbandonCapture, AbandonProcess, AbandonRead, Leave,
                    CallerDies, MemoryTypeOK, PlacesStay, HasView, Views
<1>10. LocksStay(c)
  BY <1>1, <1>4 DEF AbandonStep, AbandonCapture, AbandonProcess, AbandonRead, Leave,
                    CallerDies, MemoryTypeOK, LocksStay, keepLocks, HoldsItsLock,
                    HoldsCapture
<1>11. CreatesNew(c)
  BY <1>1 DEF AbandonStep, AbandonCapture, AbandonProcess, AbandonRead, Leave, CallerDies,
              MemoryTypeOK, CreatesNew, Creates, Updating, Session, View
<1>12. HasView(c)'
  BY <1>1, <1>2, <1>3 DEF AbandonStep, AbandonCapture, AbandonProcess, AbandonRead, Leave,
                          CallerDies, MemoryTypeOK, Calls, NoCall, HasView, View, Session,
                          Views, Current, keepState, Seen, Phases
<1>13. MakesOwnUpdate(c)'
  BY <1>1, <1>2 DEF AbandonStep, AbandonCapture, AbandonProcess, AbandonRead, Leave,
                    CallerDies, MemoryTypeOK, Frames, Calls, MakesOwnUpdate, CallerFrame,
                    HasView, View, Session, Views
<1>14. CreatesFirst(c)'
  BY <1>1, <1>2, <1>4 DEF AbandonStep, AbandonCapture, AbandonProcess, AbandonRead, Leave,
                          CallerDies, MemoryTypeOK, CreatesFirst, Creates, Updating,
                          HasView, Frames, View, Session
<1>15. HoldsItsLock(c)'
  BY <1>1, <1>2, <1>3, <1>4 DEF AbandonStep, AbandonCapture, AbandonProcess, AbandonRead,
                                Leave, CallerDies, MemoryTypeOK, HoldsItsLock, HoldsCapture,
                                Updating, HasView, View, Session, Views, Frames, Calls,
                                Current, Seen, keepLocks
<1>16. AbandonsUnowned(c)'
  BY <1>1, <1>2, <1>3, <1>4 DEF AbandonStep, AbandonCapture, AbandonProcess, AbandonRead,
                                Leave, CallerDies, MemoryTypeOK, AbandonsUnowned, HasView,
                                HoldsItsLock, HoldsCapture, keepState, keepLocks, Calls,
                                Seen, View, Session, Current, Readable
<1>17. HasArtifacts(c)'
  BY <1>1, <1>2 DEF AbandonStep, AbandonCapture, AbandonProcess, AbandonRead, Leave,
                    CallerDies, MemoryTypeOK, HasArtifacts, NeedsManifest, NeedsTranscript,
                    NeedsIntelligence, Completes, Updating, HasView, Calls, Frames, Session,
                    View, Views
<1>18. Quiet
  BY DEF AbandonStep, AbandonCapture, AbandonProcess, AbandonRead, Leave, CallerDies, Quiet,
         keepState
<1> QED
  BY <1>6, <1>7, <1>8, <1>9, <1>10, <1>11, <1>12, <1>13, <1>14, <1>15, <1>16, <1>17, <1>18
     DEF CallerKeeps, MemoryTypeOK, CallerInv

-----------------------------------------------------------------------------
(* The steps of a caller that write an artifact.                           *)

ArtifactStep(c) ==
    StartCreate(c) \/ RequestStopFile(c) \/ Transcribe(c) \/ Analyze(c) \/ Report(c)

\* Who writes an artifact goes on to where the artifact is needed.
LEMMA ArtifactKeeps ==
    ASSUME RecorderInv, NEW c \in Callers, ArtifactStep(c)
    PROVE  CallerKeeps(c)
<1> USE SessionAssumption
    DEF Actors, Goto, Look, LookToAbandon, Done, Release, Acquire, Drop, Return, CallUpdate,
           CallUpdateIn, CallRecovery, RecoveryConflict, RecoveryReturns, SetFile
<1>1. MemoryTypeOK
  BY CallerFacts DEF CallerKnows
<1>2. HasView(c) /\ used \subseteq Sessions
  BY CallerFacts DEF CallerKnows
<1>3. Readable =>
         Seen(state) \in Views /\ state.rev \in Nat /\ state.session \in used
  BY CallerFacts DEF CallerKnows
<1>4. HoldsItsLock(c) /\ CreatesFirst(c) /\ HasArtifacts(c)
  BY CallerFacts DEF CallerKnows
<1>5. files \in [Sessions -> Artifacts]
  BY CallerFacts DEF CallerKnows
<1>6. pc' \in [Actors -> Labels] /\ captureLock' \in [Sessions -> Actors \cup {None, Probe}]
  BY <1>1 DEF ArtifactStep, StartCreate, RequestStopFile, Transcribe, Analyze, Report,
              Produce, MemoryTypeOK, Labels, CallerLabels, WorkerLabels, keepLocks
<1>7. frame' \in [Actors -> Frames]
  <2>1. Session(c) \in Sessions \/ RequestStopFile(c)
    BY <1>2 DEF ArtifactStep, StartCreate, Transcribe, Analyze, Report, HasView
  <2>2. {"failed", "analyzing", "completed"} \subseteq Phases
    BY DEF Phases, TerminalPhases, ProcessingPhases
  <2>3. CASE StartCreate(c) \/ RequestStopFile(c)
    <3>1. \/ UNCHANGED frame
          \/ /\ Session(c) \in Sessions
             /\ CallUpdate(c, Session(c), "failed", "setup_failed", "leave", "leave")
      BY <2>1, <2>3 DEF StartCreate, RequestStopFile
    <3>2. "setup_failed" \in WrittenCodes /\ "leave" \in Labels
      BY DEF WrittenCodes, Labels, CallerLabels
    <3> QED
      BY <1>1, <2>2, <3>1, <3>2, UpdateFrames DEF MemoryTypeOK, CallUpdate
  <2>4. CASE Transcribe(c)
    <3>1. \/ UNCHANGED frame
          \/ CallUpdate(c, Session(c), "analyzing", Keep, "analyze", "process_failed")
      BY <2>4 DEF Transcribe, Produce
    <3>2. {"analyze", "process_failed"} \subseteq Labels
      BY DEF Labels, CallerLabels
    <3> QED
      BY <1>1, <2>1, <2>2, <2>4, <3>1, <3>2, CallUpdateFacts
         DEF MemoryTypeOK, Transcribe, RequestStopFile
  <2>5. CASE Analyze(c)
    BY <1>1, <2>5 DEF Analyze, Produce, MemoryTypeOK
  <2>6. CASE Report(c)
    <3>1. \/ UNCHANGED frame
          \/ CallUpdate(c, Session(c), "completed", None, "processed", "process_failed")
      BY <2>6 DEF Report
    <3>2. {"processed", "process_failed"} \subseteq Labels
      BY DEF Labels, CallerLabels
    <3> QED
      BY <1>1, <2>1, <2>2, <2>6, <3>1, <3>2, CallUpdateFacts
         DEF MemoryTypeOK, Report, RequestStopFile
  <2> QED
    BY <2>3, <2>4, <2>5, <2>6 DEF ArtifactStep
<1>8. call' \in [Callers -> Calls]
  BY <1>1, <1>2, <1>3, <1>5 DEF ArtifactStep, StartCreate, RequestStopFile, Transcribe,
                                Analyze, Report, Produce, MemoryTypeOK, Calls, NoCall,
                                Purposes
<1>9. PlacesStay(c)
  BY <1>1, <1>2 DEF ArtifactStep, StartCreate, RequestStopFile, Transcribe, Analyze, Report,
                    Produce, MemoryTypeOK, PlacesStay, HasView, Views
<1>10. LocksStay(c)
  BY <1>1, <1>4 DEF ArtifactStep, StartCreate, RequestStopFile, Transcribe, Analyze, Report,
                    Produce, MemoryTypeOK, LocksStay, keepLocks, HoldsItsLock, HoldsCapture
<1>11. CreatesNew(c)
  BY <1>1 DEF ArtifactStep, StartCreate, RequestStopFile, Transcribe, Analyze, Report,
              Produce, MemoryTypeOK, CreatesNew, Creates, Updating, Session, View
<1>12. HasView(c)'
  BY <1>1, <1>2, <1>3 DEF ArtifactStep, StartCreate, RequestStopFile, Transcribe, Analyze,
                          Report, Produce, MemoryTypeOK, Calls, NoCall, HasView, View,
                          Session, Views, Current, keepState, Seen, Phases
<1>13. MakesOwnUpdate(c)'
  BY <1>1, <1>2 DEF ArtifactStep, StartCreate, RequestStopFile, Transcribe, Analyze, Report,
                    Produce, MemoryTypeOK, Frames, Calls, MakesOwnUpdate, CallerFrame,
                    HasView, View, Session, Views
<1>14. CreatesFirst(c)'
  BY <1>1, <1>2, <1>4, <1>5 DEF ArtifactStep, StartCreate, RequestStopFile, Transcribe,
                                Analyze, Report, Produce, MemoryTypeOK, CreatesFirst,
                                Creates, Updating, HasView, Frames, View, Session, Artifacts
<1>15. HoldsItsLock(c)'
  BY <1>1, <1>2, <1>3, <1>4 DEF ArtifactStep, StartCreate, RequestStopFile, Transcribe,
                                Analyze, Report, Produce, MemoryTypeOK, HoldsItsLock,
                                HoldsCapture, Updating, HasView, View, Session, Views,
                                Frames, Calls, Current, Seen, keepLocks
<1>16. AbandonsUnowned(c)'
  BY <1>1, <1>2, <1>3, <1>4 DEF ArtifactStep, StartCreate, RequestStopFile, Transcribe,
                                Analyze, Report, Produce, MemoryTypeOK, AbandonsUnowned,
                                HasView, HoldsItsLock, HoldsCapture, keepState, keepLocks,
                                Calls, Seen, View, Session, Current, Readable
<1>17. HasArtifacts(c)'
  <2>1. CASE StartCreate(c) \/ RequestStopFile(c)
    BY <1>1, <1>2, <1>4, <1>5, <2>1
       DEF StartCreate, RequestStopFile, MemoryTypeOK, HasArtifacts, NeedsManifest,
           NeedsTranscript, NeedsIntelligence, Completes, Updating, HasView, Calls,
           Frames, HasFile, Session, View, Views, Artifacts
  <2>2. CASE Transcribe(c)
    BY <1>1, <1>2, <1>4, <1>5, <2>2
       DEF Transcribe, Produce, MemoryTypeOK, HasArtifacts, NeedsManifest,
           NeedsTranscript, NeedsIntelligence, Completes, Updating, HasView, Calls,
           Frames, HasFile, Session, View, Views, Artifacts
  <2>3. CASE Analyze(c)
    BY <1>1, <1>2, <1>4, <1>5, <2>3
       DEF Analyze, Produce, MemoryTypeOK, HasArtifacts, NeedsManifest,
           NeedsTranscript, NeedsIntelligence, Completes, Updating, HasView, Calls,
           Frames, HasFile, Session, View, Views, Artifacts
  <2>4. CASE Report(c)
    BY <1>1, <1>2, <1>4, <1>5, <2>4
       DEF Report, Produce, MemoryTypeOK, HasArtifacts, NeedsManifest,
           NeedsTranscript, NeedsIntelligence, Completes, Updating, HasView, Calls,
           Frames, HasFile, Session, View, Views, Artifacts
  <2> QED
    BY <2>1, <2>2, <2>3, <2>4 DEF ArtifactStep
<1> QED
  BY <1>6, <1>7, <1>8, <1>9, <1>10, <1>11, <1>12, <1>13, <1>14, <1>15, <1>16, <1>17
     DEF CallerKeeps, MemoryTypeOK, CallerInv

\* Artifacts of processing say nothing of the start of the recording.
LEMMA ArtifactStepState ==
    ASSUME RecorderInv, NEW c \in Callers, ArtifactStep(c)
    PROVE  StateKeeps(c)
<1>1. MemoryTypeOK /\ HasView(c) /\ used \subseteq Sessions /\ HasArtifacts(c)
  BY CallerFacts DEF CallerKnows
<1>2. files \in [Sessions -> Artifacts]
  BY CallerFacts DEF CallerKnows
<1>3. Session(c) \in used
  BY <1>1 DEF ArtifactStep, StartCreate, RequestStopFile, Transcribe, Analyze, Report,
              HasView
<1>8. WritesFile(Session(c))
  <2>1. CASE StartCreate(c) \/ RequestStopFile(c) \/ Report(c)
    BY <2>1 DEF StartCreate, RequestStopFile, Report, WritesFile
  <2>2. CASE Transcribe(c) \/ Analyze(c)
    <3>1. call[c].manifest \in Manifests
      BY <1>1, <2>2 DEF Transcribe, Analyze, MemoryTypeOK, Calls, HasArtifacts,
                        NeedsManifest
    <3> QED
      BY <2>2, <3>1 DEF Transcribe, Analyze, Produce, WritesFile
  <2> QED
    BY <2>1, <2>2 DEF ArtifactStep
<1>4. files' \in [Sessions -> Artifacts] /\ FilesStay
  BY <1>1, <1>2, <1>3, <1>8, WritesFileFacts
<1>5. UNCHANGED storeVars
  BY DEF ArtifactStep, StartCreate, RequestStopFile, Transcribe, Analyze, Report, storeVars,
         keepState
<1>6. RecordedStarts'
  <2>1. \A s \in Sessions : /\ files'[s].checkpoint = files[s].checkpoint
                           /\ files'[s].manifest = files[s].manifest
    BY <1>2 DEF ArtifactStep, StartCreate, RequestStopFile, Transcribe, Analyze, Report,
                Produce, SetFile, Artifacts
  <2>2. (Readable => state.session \in Sessions) /\ RecordedStarts
    BY RecordFacts DEF RecorderInv, StateInv
  <2> QED
    BY <1>5, <2>1, <2>2 DEF RecordedStarts, Readable, storeVars
<1>7. PlacesStay(c)
  BY ArtifactKeeps DEF CallerKeeps
<1> QED
  BY <1>4, <1>5, <1>6, <1>7, FilesStepKeeps

-----------------------------------------------------------------------------
(* The recovery of a dead capture.                                         *)

\* The artifacts do not match the state that was read.
RecoverGivesUp(c) ==
    /\ pc[c] = "recover_files"
    /\ StorageFails \/ RecordedStart(Session(c)) \notin {None, View(c).recAt}
    /\ Goto(c, "recover_failed")
    /\ UNCHANGED <<files, frame, call>>
    /\ keepState /\ keepLocks

RecoveryStep(c) == RecoverLock(c) \/ RecoverRead(c) \/ RecoverGivesUp(c) \/ Recovered(c)

\* A recovery goes on only while it holds the capture lock.
LEMMA RecoveryKeeps ==
    ASSUME RecorderInv, NEW c \in Callers, RecoveryStep(c)
    PROVE  CallerKeeps(c) /\ Quiet
<1> USE SessionAssumption
    DEF Actors, Goto, Look, LookToAbandon, Done, Release, Acquire, Drop, Return, CallUpdate,
           CallUpdateIn, CallRecovery, RecoveryConflict, RecoveryReturns, SetFile
<1>1. MemoryTypeOK
  BY CallerFacts DEF CallerKnows
<1>2. HasView(c) /\ used \subseteq Sessions
  BY CallerFacts DEF CallerKnows
<1>3. Readable =>
         Seen(state) \in Views /\ state.rev \in Nat /\ state.session \in used
  BY CallerFacts DEF CallerKnows
<1>4. HoldsItsLock(c) /\ CreatesFirst(c) /\ HasArtifacts(c)
  BY CallerFacts DEF CallerKnows
<1>5. files \in [Sessions -> Artifacts]
  BY CallerFacts DEF CallerKnows
<1>6. pc' \in [Actors -> Labels] /\ captureLock' \in [Sessions -> Actors \cup {None, Probe}]
  BY <1>1 DEF RecoveryStep, RecoverLock, RecoverRead, RecoverGivesUp, Recovered,
              MemoryTypeOK, Labels, CallerLabels, WorkerLabels, keepLocks
<1>7. frame' \in [Actors -> Frames]
  BY <1>1, <1>2 DEF RecoveryStep, RecoverLock, RecoverRead, RecoverGivesUp, Recovered,
                    MemoryTypeOK, Frames, NoFrame, Labels, CallerLabels, WrittenCodes,
                    Phases, CapturePhases, TerminalPhases, ProcessingPhases, AwaitingPhases,
                    HasView, Views, Session, View
<1>8. call' \in [Callers -> Calls]
  <2>1. CASE RecoverLock(c)
    BY <1>1, <2>1 DEF RecoverLock, MemoryTypeOK, Calls, NoCall
  <2>2. CASE RecoverRead(c)
    BY <1>1, <1>3, <2>2 DEF RecoverRead, MemoryTypeOK, Calls, NoCall, Current
  <2>3. CASE RecoverGivesUp(c)
    BY <1>1, <2>3 DEF RecoverGivesUp, MemoryTypeOK
  <2>4. CASE Recovered(c)
    BY <1>1, <1>2, <2>4 DEF Recovered, MemoryTypeOK, Calls, NoCall, HasView, View
  <2> QED
    BY <2>1, <2>2, <2>3, <2>4 DEF RecoveryStep
<1>9. PlacesStay(c)
  BY <1>1, <1>2 DEF RecoveryStep, RecoverLock, RecoverRead, RecoverGivesUp, Recovered,
                    MemoryTypeOK, PlacesStay, HasView, Views
<1>10. LocksStay(c)
  BY <1>1, <1>4 DEF RecoveryStep, RecoverLock, RecoverRead, RecoverGivesUp, Recovered,
                    MemoryTypeOK, LocksStay, keepLocks, HoldsItsLock, HoldsCapture
<1>11. CreatesNew(c)
  BY <1>1 DEF RecoveryStep, RecoverLock, RecoverRead, RecoverGivesUp, Recovered,
              MemoryTypeOK, CreatesNew, Creates, Updating, Session, View
<1>12. HasView(c)'
  BY <1>1, <1>2, <1>3 DEF RecoveryStep, RecoverLock, RecoverRead, RecoverGivesUp, Recovered,
                          MemoryTypeOK, Calls, NoCall, HasView, View, Session, Views,
                          Current, keepState, Seen, Phases
<1>13. MakesOwnUpdate(c)'
  BY <1>1, <1>2 DEF RecoveryStep, RecoverLock, RecoverRead, RecoverGivesUp, Recovered,
                    MemoryTypeOK, Frames, Calls, MakesOwnUpdate, CallerFrame, HasView, View,
                    Session, Views
<1>14. CreatesFirst(c)'
  BY <1>1, <1>2, <1>4 DEF RecoveryStep, RecoverLock, RecoverRead, RecoverGivesUp, Recovered,
                          MemoryTypeOK, CreatesFirst, Creates, Updating, HasView, Frames,
                          View, Session
<1>15. HoldsItsLock(c)'
  BY <1>1, <1>2, <1>3, <1>4 DEF RecoveryStep, RecoverLock, RecoverRead, RecoverGivesUp,
                                Recovered, MemoryTypeOK, HoldsItsLock, HoldsCapture,
                                Updating, HasView, View, Session, Views, Frames, Calls,
                                Current, Seen, keepLocks
<1>16. AbandonsUnowned(c)'
  BY <1>1, <1>2, <1>3, <1>4 DEF RecoveryStep, RecoverLock, RecoverRead, RecoverGivesUp,
                                Recovered, MemoryTypeOK, AbandonsUnowned, HasView,
                                HoldsItsLock, HoldsCapture, keepState, keepLocks, Calls,
                                Seen, View, Session, Current, Readable
<1>17. HasArtifacts(c)'
  BY <1>1, <1>2 DEF RecoveryStep, RecoverLock, RecoverRead, RecoverGivesUp, Recovered,
                    MemoryTypeOK, HasArtifacts, NeedsManifest, NeedsTranscript,
                    NeedsIntelligence, Completes, Updating, HasView, Calls, Frames, Session,
                    View, Views
<1>18. Quiet
  BY DEF RecoveryStep, RecoverLock, RecoverRead, RecoverGivesUp, Recovered, Quiet, keepState
<1> QED
  BY <1>6, <1>7, <1>8, <1>9, <1>10, <1>11, <1>12, <1>13, <1>14, <1>15, <1>16, <1>17, <1>18
     DEF CallerKeeps, MemoryTypeOK, CallerInv

\* The update of a recovery is made under the lock that the caller holds.
LEMMA RecoverUpdateKeeps ==
    ASSUME RecorderInv, NEW c \in Callers,
           pc[c] \in {"recover_files", "recover_failed"},
           NEW phase \in {"failed", "interrupted", "disconnected"}, NEW err \in WrittenCodes,
           NEW refused \in {"recover_failed", "recover_conflict"},
           Recover(c, phase, err, refused), keepState, keepLocks
    PROVE  CallerKeeps(c)
<1> USE SessionAssumption DEF Actors
<1> DEFINE v == [View(c) EXCEPT !.phase = phase, !.pid = None]
<1>1. MemoryTypeOK /\ used \subseteq Sessions
  BY CallerFacts DEF CallerKnows
<1>2. View(c) \in Views /\ Session(c) \in used /\ HoldsItsLock(c)
  BY CallerFacts DEF CallerKnows, HasView, View
<1>3. phase \in Phases /\ {"recovered", refused} \subseteq Labels
  BY DEF Phases, TerminalPhases, AwaitingPhases, Labels, CallerLabels
<1>4. v \in Views /\ v.session = Session(c)
  BY <1>2, <1>3 DEF Views, Session
<1>5. /\ call' = [call EXCEPT ![c].view = v]
      /\ CallUpdate(c, Session(c), phase, err, "recovered", refused)
  BY DEF Recover, View
<1> HIDE DEF v
<1>6. frame' \in [Actors -> Frames]
  BY <1>1, <1>2, <1>3, <1>5, CallUpdateFacts
<1>7. call' \in [Callers -> Calls]
  BY <1>1, <1>4, <1>5 DEF MemoryTypeOK, Calls
<1>8. /\ pc' = [pc EXCEPT ![c] = "update"]
      /\ frame'[c].ok = "recovered" /\ frame'[c].fail = refused /\ frame'[c].phase = phase
      /\ frame'[c].session = Session(c) /\ frame'[c].only = Phases
      /\ \A b \in Actors \ {c} : frame'[b] = frame[b]
  BY <1>1, <1>5 DEF MemoryTypeOK, CallUpdate, CallUpdateIn, Goto
<1>9. MemoryTypeOK'
  BY <1>1, <1>6, <1>7, <1>8 DEF MemoryTypeOK, keepLocks, Labels
<1>10. /\ \A d \in Callers \ {c} : call'[d] = call[d]
       /\ View(c)' = v /\ Session(c)' = Session(c)
  BY <1>1, <1>4, <1>5 DEF MemoryTypeOK, Calls, View, Session
<1>11. PlacesStay(c) /\ LocksStay(c)
  BY <1>1, <1>8, <1>10 DEF MemoryTypeOK, PlacesStay, LocksStay, keepLocks
<1>12. pc'[c] = "update"
  BY <1>1, <1>8 DEF MemoryTypeOK
<1>13. CreatesNew(c) /\ HasView(c)' /\ MakesOwnUpdate(c)' /\ CreatesFirst(c)'
  BY <1>2, <1>4, <1>8, <1>10, <1>12
     DEF CreatesNew, Creates, Updating, HasView, View, MakesOwnUpdate, CallerFrame,
         CreatesFirst, keepState
<1>14. HoldsItsLock(c)'
  BY <1>2, <1>10 DEF HoldsItsLock, HoldsCapture, keepLocks
<1>15. AbandonsUnowned(c)' /\ HasArtifacts(c)'
  BY <1>8, <1>12 DEF AbandonsUnowned, HasArtifacts, NeedsManifest, NeedsTranscript,
                     NeedsIntelligence, Completes, Updating
<1> QED
  BY <1>9, <1>11, <1>13, <1>14, <1>15 DEF CallerKeeps, CallerInv

\* A recovery that fails makes its update under the lock.
LEMMA RecoverFailedKeeps ==
    ASSUME RecorderInv, NEW c \in Callers, RecoverFailed(c)
    PROVE  CallerKeeps(c) /\ Quiet
<1>1. "capture_recovery_failed" \in WrittenCodes
  BY DEF WrittenCodes
<1> QED
  BY <1>1, RecoverUpdateKeeps DEF RecoverFailed, Quiet, keepState

\* A recovery writes at most the manifest, for the start that was recorded.
LEMMA RecoverFilesKeeps ==
    ASSUME RecorderInv, NEW c \in Callers, RecoverFiles(c)
    PROVE  CallerKeeps(c) /\ StateKeeps(c)
<1> DEFINE s == Session(c)
           started == RecordedStart(s)
           m == [code |-> "recorder_process_stopped", started |-> started]
<1>1. /\ files \in [Sessions -> Artifacts] /\ used \subseteq Sessions
      /\ View(c) \in Views /\ s \in used /\ View(c).phase \in RecoverablePhases
  BY CallerFacts DEF CallerKnows, RecoverFiles, HasView, View
<1>2. {"no_audio_before_stop", "recorder_process_stopped"} \subseteq WrittenCodes
  BY DEF WrittenCodes
<1>3. started \in Times \cup {None}
  BY <1>1, SessionAssumption DEF RecordedStart, HasFile, Artifacts, Manifests
<1>4. started # None => m \in Manifests
  BY <1>2, <1>3, SessionAssumption DEF Manifests
<1>5. \/ RecoverGivesUp(c)
      \/ Recover(c, "failed", "no_audio_before_stop", "recover_failed") /\ UNCHANGED files
      \/ /\ started # None /\ SetFile(s, "manifest", m)
         /\ \E phase \in {"interrupted", "disconnected"} :
               Recover(c, phase, "recorder_process_stopped", "recover_failed")
  <2> DEFINE phase == IF View(c).phase \in CapturePhases THEN "interrupted" ELSE View(c).phase
  <2>1. phase \in {"interrupted", "disconnected"}
    BY <1>1 DEF RecoverablePhases
  <2> HIDE DEF started, m
  <2> QED
    BY <2>1 DEF RecoverFiles, RecoverGivesUp, started, m
<1>6. CallerKeeps(c)
  <2>1. ASSUME RecoverGivesUp(c) PROVE CallerKeeps(c)
    BY <2>1, RecoveryKeeps DEF RecoveryStep
  <2>2. ASSUME NEW phase \in {"failed", "interrupted", "disconnected"},
               NEW err \in WrittenCodes, Recover(c, phase, err, "recover_failed")
        PROVE  CallerKeeps(c)
    BY <2>2, RecoverUpdateKeeps DEF RecoverFiles
  <2> QED
    BY <1>2, <1>5, <2>1, <2>2
<1>7. WritesFile(s)
  BY <1>4, <1>5 DEF WritesFile, RecoverGivesUp
<1>8. files' \in [Sessions -> Artifacts] /\ FilesStay
  BY <1>1, <1>7, WritesFileFacts
<1>9. UNCHANGED storeVars /\ PlacesStay(c)
  BY <1>6 DEF CallerKeeps, RecoverFiles, storeVars, keepState
<1>10. RecordedStarts'
  <2>1. RecordedStarts /\ (Readable => state.session \in Sessions)
    BY RecordFacts DEF RecorderInv, StateInv
  <2>2. CASE files' = files
    BY <1>9, <2>1, <2>2 DEF RecordedStarts, Readable, storeVars
  <2>3. CASE started # None /\ SetFile(s, "manifest", m)
    <3>1. /\ \A x \in Sessions : files'[x].checkpoint = files[x].checkpoint
          /\ \A x \in Sessions \ {s} : files'[x].manifest = files[x].manifest
          /\ files'[s].manifest.started = started
      BY <1>1, <2>3 DEF SetFile, Artifacts
    <3>2. Readable /\ state.session = s => started = state.recAt
      BY <2>1, <2>3 DEF RecordedStarts, RecordedStart, HasFile
    <3> HIDE DEF started, m
    <3> QED
      BY <1>9, <2>1, <2>3, <3>1, <3>2 DEF RecordedStarts, Readable, storeVars
  <2> QED
    BY <1>5, <2>2, <2>3 DEF RecoverGivesUp
<1> QED
  BY <1>6, <1>8, <1>9, <1>10, FilesStepKeeps

-----------------------------------------------------------------------------
(* The steps of a caller that write the state file.                        *)

\* The invariant of the state file is part of the recorder's.
LEMMA StoreInvHolds == RecorderInv => IInv
  BY DEF RecorderInv, RecorderTypeOK, StateInv, IInv

\* A start that reserved a session is the only one that will spawn its worker.
LEMMA ReserveKeeps ==
    ASSUME RecorderInv, NEW c \in Callers, NEW s \in Sessions, StartReserve(c, s)
    PROVE  CallerKeeps(c)
<1> USE SessionAssumption
    DEF Actors, Goto, Look, LookToAbandon, Done, Release, Acquire, Drop, Return, CallUpdate,
           CallUpdateIn, CallRecovery, RecoveryConflict, RecoveryReturns, SetFile
<1>1. MemoryTypeOK
  BY CallerFacts DEF CallerKnows
<1>2. HasView(c) /\ used \subseteq Sessions
  BY CallerFacts DEF CallerKnows
<1>3. Readable =>
         Seen(state) \in Views /\ state.rev \in Nat /\ state.session \in used
  BY CallerFacts DEF CallerKnows
<1>4. HoldsItsLock(c) /\ CreatesFirst(c) /\ HasArtifacts(c)
  BY CallerFacts DEF CallerKnows
<1>5. files \in [Sessions -> Artifacts]
  BY CallerFacts DEF CallerKnows
<1>6. /\ \A x \in Sessions \ used : pc[x] = "unborn"
      /\ Seen(Fresh(s)) \in Views /\ Seen(Fresh(s)).session = s /\ Now = Now
  BY CallerFacts DEF CallerKnows, Seen, Fresh, Views, Phases, CapturePhases
<1>7. pc' \in [Actors -> Labels] /\ captureLock' \in [Sessions -> Actors \cup {None, Probe}]
  BY <1>1, <1>6 DEF StartReserve, Reserve, MemoryTypeOK, Labels, CallerLabels, WorkerLabels,
                    keepLocks, Calls
<1>8. frame' \in [Actors -> Frames]
  BY <1>1, <1>2, <1>6 DEF StartReserve, Reserve, MemoryTypeOK, Frames, NoFrame, Labels,
                          CallerLabels, WrittenCodes, Phases, CapturePhases, TerminalPhases,
                          ProcessingPhases, AwaitingPhases, HasView, Views, Session, View,
                          Calls
<1>9. call' \in [Callers -> Calls]
  BY <1>1, <1>2, <1>3, <1>5, <1>6 DEF StartReserve, Reserve, MemoryTypeOK, Calls, NoCall,
                                      Purposes, Calls
<1>10. PlacesStay(c)
  BY <1>1, <1>2, <1>6 DEF StartReserve, Reserve, MemoryTypeOK, PlacesStay, HasView, Views,
                          Calls
<1>11. LocksStay(c)
  BY <1>1, <1>4, <1>6 DEF StartReserve, Reserve, MemoryTypeOK, LocksStay, keepLocks,
                          HoldsItsLock, HoldsCapture, Calls
<1>12. CreatesNew(c)
  BY <1>1, <1>6 DEF StartReserve, Reserve, MemoryTypeOK, CreatesNew, Creates, Updating,
                    Session, View, Calls
<1>13. HasView(c)'
  BY <1>1, <1>2, <1>3, <1>6 DEF StartReserve, Reserve, MemoryTypeOK, Calls, NoCall, HasView,
                                View, Session, Views, Current, keepState, Seen, Phases,
                                Calls
<1>14. MakesOwnUpdate(c)'
  BY <1>1, <1>2, <1>6 DEF StartReserve, Reserve, MemoryTypeOK, Frames, Calls,
                          MakesOwnUpdate, CallerFrame, HasView, View, Session, Views, Calls
<1>15. CreatesFirst(c)'
  BY <1>1, <1>2, <1>4, <1>6 DEF StartReserve, Reserve, MemoryTypeOK, CreatesFirst, Creates,
                                Updating, HasView, Frames, View, Session, Calls
<1>16. HoldsItsLock(c)'
  BY <1>1, <1>2, <1>3, <1>4, <1>6 DEF StartReserve, Reserve, MemoryTypeOK, HoldsItsLock,
                                      HoldsCapture, Updating, HasView, View, Session, Views,
                                      Frames, Calls, Current, Seen, keepLocks, Calls
<1>17. AbandonsUnowned(c)'
  BY <1>1, <1>2, <1>3, <1>4, <1>6 DEF StartReserve, Reserve, MemoryTypeOK, AbandonsUnowned,
                                      HasView, HoldsItsLock, HoldsCapture, keepState,
                                      keepLocks, Calls, Seen, View, Session, Current,
                                      Readable, Calls
<1>18. HasArtifacts(c)'
  BY <1>1, <1>2, <1>6 DEF StartReserve, Reserve, MemoryTypeOK, HasArtifacts, NeedsManifest,
                          NeedsTranscript, NeedsIntelligence, Completes, Updating, HasView,
                          Calls, Frames, Session, View, Views, Calls
<1> QED
  BY <1>7, <1>8, <1>9, <1>10, <1>11, <1>12, <1>13, <1>14, <1>15, <1>16, <1>17, <1>18
     DEF CallerKeeps, MemoryTypeOK, CallerInv

\* A stop request is recorded before the stop file is written.
LEMMA RequestKeeps ==
    ASSUME RecorderInv, NEW c \in Callers, RequestStopState(c)
    PROVE  CallerKeeps(c)
<1> USE SessionAssumption
    DEF Actors, Goto, Look, LookToAbandon, Done, Release, Acquire, Drop, Return, CallUpdate,
           CallUpdateIn, CallRecovery, RecoveryConflict, RecoveryReturns, SetFile
<1>1. MemoryTypeOK
  BY CallerFacts DEF CallerKnows
<1>2. HasView(c) /\ used \subseteq Sessions
  BY CallerFacts DEF CallerKnows
<1>3. Readable =>
         Seen(state) \in Views /\ state.rev \in Nat /\ state.session \in used
  BY CallerFacts DEF CallerKnows
<1>4. HoldsItsLock(c) /\ CreatesFirst(c) /\ HasArtifacts(c)
  BY CallerFacts DEF CallerKnows
<1>5. files \in [Sessions -> Artifacts]
  BY CallerFacts DEF CallerKnows
<1>6. UNCHANGED used
  BY DEF RequestStopState, RequestStop, Write, keepState
<1>7. pc' \in [Actors -> Labels] /\ captureLock' \in [Sessions -> Actors \cup {None, Probe}]
  BY <1>1, <1>6 DEF RequestStopState, MemoryTypeOK, Labels, CallerLabels, WorkerLabels,
                    keepLocks
<1>8. frame' \in [Actors -> Frames]
  BY <1>1, <1>2, <1>6 DEF RequestStopState, MemoryTypeOK, Frames, NoFrame, Labels,
                          CallerLabels, WrittenCodes, Phases, CapturePhases, TerminalPhases,
                          ProcessingPhases, AwaitingPhases, HasView, Views, Session, View
<1>9. call' \in [Callers -> Calls]
  BY <1>1, <1>2, <1>3, <1>5, <1>6 DEF RequestStopState, MemoryTypeOK, Calls, NoCall,
                                      Purposes, Current
<1>10. PlacesStay(c)
  BY <1>1, <1>2, <1>6 DEF RequestStopState, MemoryTypeOK, PlacesStay, HasView, Views
<1>11. LocksStay(c)
  BY <1>1, <1>4, <1>6 DEF RequestStopState, MemoryTypeOK, LocksStay, keepLocks,
                          HoldsItsLock, HoldsCapture
<1>12. CreatesNew(c)
  BY <1>1, <1>6 DEF RequestStopState, MemoryTypeOK, CreatesNew, Creates, Updating, Session,
                    View
<1>13. HasView(c)'
  BY <1>1, <1>2, <1>3, <1>6 DEF RequestStopState, MemoryTypeOK, Calls, NoCall, HasView,
                                View, Session, Views, Current, keepState, Seen, Phases
<1>14. MakesOwnUpdate(c)'
  BY <1>1, <1>2, <1>6 DEF RequestStopState, MemoryTypeOK, Frames, Calls, MakesOwnUpdate,
                          CallerFrame, HasView, View, Session, Views
<1>15. CreatesFirst(c)'
  BY <1>1, <1>2, <1>4, <1>6 DEF RequestStopState, MemoryTypeOK, CreatesFirst, Creates,
                                Updating, HasView, Frames, View, Session
<1>16. HoldsItsLock(c)'
  BY <1>1, <1>2, <1>3, <1>4, <1>6 DEF RequestStopState, MemoryTypeOK, HoldsItsLock,
                                      HoldsCapture, Updating, HasView, View, Session, Views,
                                      Frames, Calls, Current, Seen, keepLocks
<1>17. AbandonsUnowned(c)'
  BY <1>1, <1>2, <1>3, <1>4, <1>6 DEF RequestStopState, MemoryTypeOK, AbandonsUnowned,
                                      HasView, HoldsItsLock, HoldsCapture, keepState,
                                      keepLocks, Calls, Seen, View, Session, Current,
                                      Readable
<1>18. HasArtifacts(c)'
  BY <1>1, <1>2, <1>6 DEF RequestStopState, MemoryTypeOK, HasArtifacts, NeedsManifest,
                          NeedsTranscript, NeedsIntelligence, Completes, Updating, HasView,
                          Calls, Frames, Session, View, Views
<1> QED
  BY <1>7, <1>8, <1>9, <1>10, <1>11, <1>12, <1>13, <1>14, <1>15, <1>16, <1>17, <1>18
     DEF CallerKeeps, MemoryTypeOK, CallerInv

\* An abandon ends with its only write.
LEMMA AbandonWriteKeeps ==
    ASSUME RecorderInv, NEW c \in Callers, AbandonWrite(c)
    PROVE  CallerKeeps(c)
<1> USE SessionAssumption
    DEF Actors, Goto, Look, LookToAbandon, Done, Release, Acquire, Drop, Return, CallUpdate,
           CallUpdateIn, CallRecovery, RecoveryConflict, RecoveryReturns, SetFile
<1>1. MemoryTypeOK
  BY CallerFacts DEF CallerKnows
<1>2. HasView(c) /\ used \subseteq Sessions
  BY CallerFacts DEF CallerKnows
<1>3. Readable =>
         Seen(state) \in Views /\ state.rev \in Nat /\ state.session \in used
  BY CallerFacts DEF CallerKnows
<1>4. HoldsItsLock(c) /\ CreatesFirst(c) /\ HasArtifacts(c)
  BY CallerFacts DEF CallerKnows
<1>5. files \in [Sessions -> Artifacts]
  BY CallerFacts DEF CallerKnows
<1>6. UNCHANGED used
  BY DEF AbandonWrite, Abandon, Write, keepState
<1>7. pc' \in [Actors -> Labels] /\ captureLock' \in [Sessions -> Actors \cup {None, Probe}]
  BY <1>1, <1>6 DEF AbandonWrite, MemoryTypeOK, Labels, CallerLabels, WorkerLabels,
                    keepLocks
<1>8. frame' \in [Actors -> Frames]
  BY <1>1, <1>2, <1>6 DEF AbandonWrite, MemoryTypeOK, Frames, NoFrame, Labels, CallerLabels,
                          WrittenCodes, Phases, CapturePhases, TerminalPhases,
                          ProcessingPhases, AwaitingPhases, HasView, Views, Session, View
<1>9. call' \in [Callers -> Calls]
  BY <1>1, <1>2, <1>3, <1>5, <1>6 DEF AbandonWrite, MemoryTypeOK, Calls, NoCall, Purposes
<1>10. PlacesStay(c)
  BY <1>1, <1>2, <1>6 DEF AbandonWrite, MemoryTypeOK, PlacesStay, HasView, Views
<1>11. LocksStay(c)
  BY <1>1, <1>4, <1>6 DEF AbandonWrite, MemoryTypeOK, LocksStay, keepLocks, HoldsItsLock,
                          HoldsCapture
<1>12. CreatesNew(c)
  BY <1>1, <1>6 DEF AbandonWrite, MemoryTypeOK, CreatesNew, Creates, Updating, Session, View
<1>13. HasView(c)'
  BY <1>1, <1>2, <1>3, <1>6 DEF AbandonWrite, MemoryTypeOK, Calls, NoCall, HasView, View,
                                Session, Views, Current, keepState, Seen, Phases
<1>14. MakesOwnUpdate(c)'
  BY <1>1, <1>2, <1>6 DEF AbandonWrite, MemoryTypeOK, Frames, Calls, MakesOwnUpdate,
                          CallerFrame, HasView, View, Session, Views
<1>15. CreatesFirst(c)'
  BY <1>1, <1>2, <1>4, <1>6 DEF AbandonWrite, MemoryTypeOK, CreatesFirst, Creates, Updating,
                                HasView, Frames, View, Session
<1>16. HoldsItsLock(c)'
  BY <1>1, <1>2, <1>3, <1>4, <1>6 DEF AbandonWrite, MemoryTypeOK, HoldsItsLock,
                                      HoldsCapture, Updating, HasView, View, Session, Views,
                                      Frames, Calls, Current, Seen, keepLocks
<1>17. AbandonsUnowned(c)'
  BY <1>1, <1>2, <1>3, <1>4, <1>6 DEF AbandonWrite, MemoryTypeOK, AbandonsUnowned, HasView,
                                      HoldsItsLock, HoldsCapture, keepState, keepLocks,
                                      Calls, Seen, View, Session, Current, Readable
<1>18. HasArtifacts(c)'
  BY <1>1, <1>2, <1>6 DEF AbandonWrite, MemoryTypeOK, HasArtifacts, NeedsManifest,
                          NeedsTranscript, NeedsIntelligence, Completes, Updating, HasView,
                          Calls, Frames, Session, View, Views
<1> QED
  BY <1>7, <1>8, <1>9, <1>10, <1>11, <1>12, <1>13, <1>14, <1>15, <1>16, <1>17, <1>18
     DEF CallerKeeps, MemoryTypeOK, CallerInv

\* An update goes on, or returns to one of the two places that it was called with.
UpdateMoves(a) ==
    /\ \/ /\ UNCHANGED pc
          /\ frame'[a].session = frame[a].session /\ frame'[a].phase = frame[a].phase
          /\ frame'[a].ok = frame[a].ok /\ frame'[a].fail = frame[a].fail
          /\ frame'[a].only = frame[a].only
       \/ Goto(a, frame[a].ok) /\ frame'[a] = NoFrame
       \/ Goto(a, frame[a].fail) /\ frame'[a] = NoFrame
    /\ \A b \in Actors \ {a} : frame'[b] = frame[b]
    /\ UNCHANGED <<used, files, captureLock>>

\* Where an update may go in one step.
LEMMA UpdateMoveFacts ==
    ASSUME RecorderInv, NEW a \in Actors, Update(a)
    PROVE  pc[a] = "update" /\ frame' \in [Actors -> Frames] /\ UpdateMoves(a)
<1>1. frame \in [Actors -> Frames] /\ (Readable => state.rev \in Nat)
  BY RecordFacts DEF RecorderInv, RecorderTypeOK, MemoryTypeOK
<1>2. NoFrame \in Frames
  BY DEF NoFrame, Frames
<1>3. CASE UpdateRead(a)
  <2>1. \/ UNCHANGED pc /\ frame' = [frame EXCEPT ![a].seen = state.rev] /\ Readable
        \/ Return(a, frame[a].ok)
        \/ Return(a, frame[a].fail)
    BY <1>3 DEF UpdateRead, MayUpdate, Current
  <2>2. CASE UNCHANGED pc /\ frame' = [frame EXCEPT ![a].seen = state.rev] /\ Readable
    BY <1>1, <1>3, <2>2 DEF Frames, UpdateRead, UpdateMoves
  <2>3. CASE Return(a, frame[a].ok) \/ Return(a, frame[a].fail)
    BY <1>1, <1>2, <1>3, <2>3 DEF Return, UpdateRead, UpdateMoves
  <2> QED
    BY <2>1, <2>2, <2>3
<1>4. CASE UpdateCommit(a)
  BY <1>1, <1>2, <1>4 DEF Return, UpdateCommit, UpdateMoves, CompareAndSet, Write
<1>5. CASE UpdateConflict(a)
  <2>1. CASE /\ frame' = [frame EXCEPT ![a].seen = None, ![a].left = @ - 1]
             /\ UNCHANGED pc /\ frame[a].left > 1
    BY <1>1, <1>5, <2>1 DEF Frames, UpdateConflict, UpdateMoves
  <2>2. CASE Return(a, frame[a].fail)
    BY <1>1, <1>2, <1>5, <2>2 DEF Return, UpdateConflict, UpdateMoves
  <2> QED
    BY <1>5, <2>1, <2>2 DEF UpdateConflict
<1> QED
  BY <1>3, <1>4, <1>5 DEF Update

\* An update of a caller returns to where its command goes on.
LEMMA CallerUpdateKeeps ==
    ASSUME RecorderInv, NEW c \in Callers, Update(c), UNCHANGED call
    PROVE  CallerKeeps(c)
<1> USE SessionAssumption
    DEF Actors, Goto, Look, LookToAbandon, Done, Release, Acquire, Drop, Return, CallUpdate,
           CallUpdateIn, CallRecovery, RecoveryConflict, RecoveryReturns, SetFile
<1>1. MemoryTypeOK
  BY CallerFacts DEF CallerKnows
<1>2. HasView(c) /\ used \subseteq Sessions
  BY CallerFacts DEF CallerKnows
<1>3. Readable =>
         Seen(state) \in Views /\ state.rev \in Nat /\ state.session \in used
  BY CallerFacts DEF CallerKnows
<1>4. HoldsItsLock(c) /\ CreatesFirst(c) /\ HasArtifacts(c)
  BY CallerFacts DEF CallerKnows
<1>5. files \in [Sessions -> Artifacts]
  BY CallerFacts DEF CallerKnows
<1>6. pc[c] = "update" /\ UpdateMoves(c) /\ MakesOwnUpdate(c)
  BY UpdateMoveFacts, CallerFacts DEF CallerKnows
<1>7. pc' \in [Actors -> Labels] /\ captureLock' \in [Sessions -> Actors \cup {None, Probe}]
  BY <1>1, <1>6 DEF UpdateMoves, MemoryTypeOK, Labels, CallerLabels, WorkerLabels,
                    MakesOwnUpdate, CallerFrame
<1>8. frame' \in [Actors -> Frames]
  BY UpdateMoveFacts
<1>9. call' \in [Callers -> Calls]
  BY <1>1, <1>2, <1>3, <1>5, <1>6 DEF UpdateMoves, MemoryTypeOK, Calls, NoCall, Purposes,
                                      MakesOwnUpdate, CallerFrame
<1>10. PlacesStay(c)
  BY <1>1, <1>2, <1>6 DEF UpdateMoves, MemoryTypeOK, PlacesStay, HasView, Views,
                          MakesOwnUpdate, CallerFrame
<1>11. LocksStay(c)
  BY <1>1, <1>4, <1>6 DEF UpdateMoves, MemoryTypeOK, LocksStay, keepLocks, HoldsItsLock,
                          HoldsCapture, MakesOwnUpdate, CallerFrame
<1>12. CreatesNew(c)
  BY <1>1, <1>6 DEF UpdateMoves, MemoryTypeOK, CreatesNew, Creates, Updating, Session, View,
                    MakesOwnUpdate, CallerFrame
<1>13. HasView(c)'
  BY <1>1, <1>2, <1>3, <1>6 DEF UpdateMoves, MemoryTypeOK, Calls, NoCall, HasView, View,
                                Session, Views, Current, Seen, Phases, MakesOwnUpdate,
                                CallerFrame
<1>14. MakesOwnUpdate(c)'
  BY <1>1, <1>2, <1>6 DEF UpdateMoves, MemoryTypeOK, Frames, Calls, MakesOwnUpdate,
                          CallerFrame, HasView, View, Session, Views, MakesOwnUpdate,
                          CallerFrame
<1>15. CreatesFirst(c)'
  BY <1>1, <1>2, <1>4, <1>5, <1>6 DEF UpdateMoves, MemoryTypeOK, CreatesFirst, Creates,
                                      Updating, HasView, Frames, View, Session, Artifacts,
                                      MakesOwnUpdate, CallerFrame
<1>16. HoldsItsLock(c)'
  BY <1>1, <1>2, <1>3, <1>4, <1>6 DEF UpdateMoves, MemoryTypeOK, HoldsItsLock, HoldsCapture,
                                      Updating, HasView, View, Session, Views, Frames,
                                      Calls, Current, Seen, keepLocks, MakesOwnUpdate,
                                      CallerFrame
<1>17. AbandonsUnowned(c)'
  BY <1>1, <1>2, <1>3, <1>4, <1>6 DEF UpdateMoves, MemoryTypeOK, AbandonsUnowned, HasView,
                                      HoldsItsLock, HoldsCapture, keepState, keepLocks,
                                      Calls, Seen, View, Session, Current, Readable,
                                      MakesOwnUpdate, CallerFrame
<1>18. HasArtifacts(c)'
  BY <1>1, <1>2, <1>4, <1>5, <1>6 DEF UpdateMoves, MemoryTypeOK, HasArtifacts,
                                      NeedsManifest, NeedsTranscript, NeedsIntelligence,
                                      Completes, Updating, HasView, Calls, Frames, Session,
                                      View, Views, Artifacts, MakesOwnUpdate, CallerFrame
<1> QED
  BY <1>7, <1>8, <1>9, <1>10, <1>11, <1>12, <1>13, <1>14, <1>15, <1>16, <1>17, <1>18
     DEF CallerKeeps, MemoryTypeOK, CallerInv

\* A reservation starts from a session without artifacts or owner.
LEMMA ReserveState ==
    ASSUME RecorderInv, NEW c \in Callers, NEW s \in Sessions, StartReserve(c, s)
    PROVE  StateKeeps(c)
<1>1. PlacesStay(c) /\ UNCHANGED files
  BY ReserveKeeps DEF CallerKeeps, StartReserve
<1>2. CASE UNCHANGED storeVars
  BY <1>1, <1>2, QuietKeeps DEF Quiet, storeVars
<1>3. CASE Reserve(s)
  <2>1. /\ state' \in Record /\ state' = Fresh(s) /\ used' = used \cup {s} /\ s \notin used
        /\ state = NoState \/ (state \in Record /\ state.phase \in TerminalPhases)
    BY <1>3, ReserveFacts, StoreInvHolds
  <2>2. files[s] = NoFiles
    BY <2>1 DEF RecorderInv, Untouched
  <2>3. StoreTypeOK' /\ files' \in [Sessions -> Artifacts]
    BY <1>1, <2>1 DEF StoreTypeOK, Fresh, RecorderInv, RecorderTypeOK
  <2>4. StateInv'
    BY <1>1, <2>1, <2>2, StoreAssumption
       DEF StateInv, Fresh, NoFiles, OwnerOnlyWhileCapturing, OwnerIsOwnWorker,
           StopIsSticky, RecordedStarts, CompletedHasAll
  <2>5. RecordsGoOn /\ FilesStay
    BY <1>1, <2>1 DEF RecordsGoOn, FilesStay, Current, Fresh
  <2>6. OwnersStay(c)
    BY <2>1, SessionAssumption DEF RecorderInv, StateInv, OwnersStay,
                                   OwnerOnlyWhileCapturing, Current, TerminalPhases,
                                   CapturePhases, Readable, IsRecord
  <2> QED
    BY <2>3, <2>4, <2>5, <2>6 DEF StateKeeps
<1> QED
  BY <1>2, <1>3 DEF StartReserve, keepState, storeVars

\* A stop request is an honest update.
LEMMA RequestState ==
    ASSUME RecorderInv, NEW c \in Callers, RequestStopState(c)
    PROVE  StateKeeps(c)
<1>1. PlacesStay(c) /\ UNCHANGED files
  BY RequestKeeps DEF CallerKeeps, RequestStopState
<1>2. CASE keepState
  BY <1>1, <1>2, QuietKeeps DEF Quiet, keepState
<1>3. CASE RequestStop(Session(c), Now)
  <2>1. files' \in [Sessions -> Artifacts] /\ FilesStay
    BY <1>1 DEF RecorderInv, RecorderTypeOK, FilesStay
  <2> QED
    BY <1>1, <1>3, <2>1, StopIsHonest, UpdateKeeps
<1> QED
  BY <1>2, <1>3 DEF RequestStopState

\* Without the capture lock, the revision that is abandoned named no owner.
LEMMA AbandonState ==
    ASSUME RecorderInv, NEW c \in Callers, AbandonWrite(c)
    PROVE  StateKeeps(c)
<1>1. PlacesStay(c) /\ UNCHANGED files
  BY AbandonWriteKeeps DEF CallerKeeps, AbandonWrite
<1>2. CASE keepState
  BY <1>1, <1>2, QuietKeeps DEF Quiet, keepState
<1>3. CASE Abandon(Session(c), call[c].rev)
  <2>1. files' \in [Sessions -> Artifacts] /\ FilesStay
    BY <1>1 DEF RecorderInv, RecorderTypeOK, FilesStay
  <2>2. OwnersStay(c)
    BY <1>3, CallerFacts, SessionAssumption
       DEF CallerKnows, OwnersStay, Abandon, CanAbandon, AbandonsUnowned, Current,
           AbandonWrite
  <2> QED
    BY <1>1, <1>3, <2>1, <2>2, AbandonIsHonest, UpdateKeeps
<1> QED
  BY <1>2, <1>3 DEF AbandonWrite

\* A caller gives up the ownership of a session only before its worker is born
\* or under the session's capture lock.
LEMMA CallerUpdateState ==
    ASSUME RecorderInv, NEW c \in Callers, Update(c), UNCHANGED call
    PROVE  StateKeeps(c)
<1> DEFINE f == frame[c]
           r == Changed(state, f)
<1>1. PlacesStay(c) /\ UNCHANGED files
  BY CallerUpdateKeeps, UpdateMoveFacts DEF CallerKeeps, UpdateMoves, Actors
<1>2. CASE UpdateRead(c) \/ UpdateConflict(c)
  BY <1>1, <1>2, QuietKeeps DEF Quiet, UpdateRead, UpdateConflict
<1>3. CASE UpdateCommit(c)
  <2>1. files' \in [Sessions -> Artifacts] /\ FilesStay
    BY <1>1 DEF RecorderInv, RecorderTypeOK, FilesStay
  <2>2. /\ Current(f.session) /\ f.session = Session(c) /\ CallerFrame(f) /\ pc[c] = "update"
    BY <1>3, CommitFacts, CallerFacts DEF CallerKnows, MakesOwnUpdate, UpdateCommit, Actors
  <2>3. /\ Updates(r, FALSE) /\ r.phase = f.phase
        /\ f.phase \notin CapturePhases
        /\ r.pid = None
        /\ TransitionAllowed(state.phase, r.phase)
    BY <1>3, <2>2, CommitFacts, SessionAssumption
       DEF Actors, CallerFrame, CapturePhases, Phases, TerminalPhases, ProcessingPhases,
           AwaitingPhases
  <2>4. HonestUpdate(r)
    BY <2>2, <2>3, CallerFacts DEF CallerKnows, HonestUpdate, HasArtifacts, NeedsManifest,
                                   NeedsTranscript, NeedsIntelligence, Completes, Current,
                                   CapturePhases
  <2>5. OwnersStay(c)
    <3> SUFFICES ASSUME NEW w \in Sessions, captureLock[w] = w, Current(w), state.pid = w
                 PROVE  FALSE
      BY DEF OwnersStay
    <3>1. state.phase \in CapturePhases /\ pc[w] # "unborn" /\ Session(c) = w
      BY <2>2, SessionAssumption DEF RecorderInv, StateInv, OwnerOnlyWhileCapturing,
                                     OwnerIsOwnWorker, Current
    <3>2. CreatesFirst(c) /\ HoldsItsLock(c)
      BY CallerFacts DEF CallerKnows
    <3>3. CASE f.ok = "leave"
      BY <2>2, <3>1, <3>2, <3>3 DEF CreatesFirst, Creates, Updating
    <3>4. CASE f.ok = "recovered"
      BY <2>2, <3>1, <3>2, <3>4, SessionAssumption DEF HoldsItsLock, HoldsCapture, Updating
    <3>5. CASE f.ok \in {"transcribe", "analyze", "processed"}
      BY <2>2, <2>3, <3>1, <3>5 DEF CallerFrame, TransitionAllowed, Allowed, CapturePhases,
                                    CaptureFailures
    <3> QED
      BY <2>2, <3>3, <3>4, <3>5 DEF CallerFrame
  <2> HIDE DEF f, r
  <2> QED
    BY <1>1, <2>1, <2>3, <2>4, <2>5, UpdateKeeps
<1> QED
  BY <1>2, <1>3 DEF Update

-----------------------------------------------------------------------------
(* The steps of a worker.                                                  *)

\* What each step of a worker keeps beside the state file and the artifacts.
WorkerKeeps(w) == MemoryTypeOK' /\ PlacesStay(w) /\ LocksStay(w) /\ WorkerInv(w)'

\* The part of the invariant that the steps of a worker count on.
WorkerKnows(w) ==
    /\ MemoryTypeOK /\ files \in [Sessions -> Artifacts] /\ used \subseteq Sessions
    /\ IsBorn(w) /\ MakesWorkerUpdate(w) /\ HoldsWorkerLock(w) /\ IsNamed(w)

\* The invariant gives a worker what it counts on.
LEMMA WorkerFacts ==
    ASSUME RecorderInv, NEW w \in Sessions
    PROVE  WorkerKnows(w)
  BY DEF WorkerKnows, RecorderInv, RecorderTypeOK, StoreTypeOK, WorkerInv

BootStep(w) ==
    Boot(w) \/ BootCrashes(w) \/ TakeCaptureLock(w) \/ CaptureLockBusy(w) \/ LockDeadline(w)

\* A worker that boots takes the capture lock of its session, or ends.
LEMMA BootKeeps ==
    ASSUME RecorderInv, NEW w \in Sessions, BootStep(w), UNCHANGED call
    PROVE  WorkerKeeps(w) /\ Quiet
<1> USE SessionAssumption
    DEF Actors, Goto, Release, Acquire, Drop, Return, CallUpdate, CallUpdateIn, EndWith,
        keepShared, SetFile
<1>1. MemoryTypeOK
  BY WorkerFacts DEF WorkerKnows
<1>2. EndPhases \subseteq Phases /\ {"finalizing", "stop_requested"} \subseteq Phases
  BY DEF EndPhases, Phases, AwaitingPhases, TerminalPhases, CapturePhases
<1>3. IsBorn(w) /\ MakesWorkerUpdate(w)
  BY WorkerFacts DEF WorkerKnows
<1>4. HoldsWorkerLock(w) /\ IsNamed(w)
  BY WorkerFacts DEF WorkerKnows
<1>5. files \in [Sessions -> Artifacts]
  BY WorkerFacts DEF WorkerKnows
<1>6. pc' \in [Actors -> Labels] /\ captureLock' \in [Sessions -> Actors \cup {None, Probe}]
  BY <1>1, <1>3 DEF BootStep, Boot, BootCrashes, TakeCaptureLock, CaptureLockBusy,
                    LockDeadline, MemoryTypeOK, Labels, WorkerLabels, MakesWorkerUpdate,
                    WorkerFrame
<1>7. frame' \in [Actors -> Frames]
  BY <1>1, <1>2 DEF BootStep, Boot, BootCrashes, TakeCaptureLock, CaptureLockBusy,
                    LockDeadline, MemoryTypeOK, Frames, NoFrame, Labels, WorkerLabels,
                    WrittenCodes, EndPhases
<1>8. PlacesStay(w) /\ LocksStay(w)
  BY <1>1, <1>3, <1>4 DEF BootStep, Boot, BootCrashes, TakeCaptureLock, CaptureLockBusy,
                          LockDeadline, MemoryTypeOK, PlacesStay, LocksStay,
                          HoldsWorkerLock, WorkerOwnsCapture, MakesWorkerUpdate, WorkerFrame
<1>9. IsBorn(w)'
  BY <1>1, <1>3, <1>5 DEF BootStep, Boot, BootCrashes, TakeCaptureLock, CaptureLockBusy,
                          LockDeadline, MemoryTypeOK, IsBorn, WorkerAlive, Artifacts
<1>10. MakesWorkerUpdate(w)'
  BY <1>1, <1>2, <1>3 DEF BootStep, Boot, BootCrashes, TakeCaptureLock, CaptureLockBusy,
                          LockDeadline, MemoryTypeOK, MakesWorkerUpdate, WorkerFrame,
                          Frames, EndPhases
<1>11. HoldsWorkerLock(w)'
  BY <1>1, <1>3, <1>4 DEF BootStep, Boot, BootCrashes, TakeCaptureLock, CaptureLockBusy,
                          LockDeadline, MemoryTypeOK, HoldsWorkerLock, WorkerOwnsCapture,
                          Frames, MakesWorkerUpdate, WorkerFrame
<1>12. IsNamed(w)'
  BY <1>1, <1>3, <1>4 DEF BootStep, Boot, BootCrashes, TakeCaptureLock, CaptureLockBusy,
                          LockDeadline, MemoryTypeOK, IsNamed, Records, Current, Readable
<1>13. Quiet
  BY <1>3 DEF BootStep, Boot, BootCrashes, TakeCaptureLock, CaptureLockBusy, LockDeadline,
              Quiet
<1> QED
  BY <1>1, <1>6, <1>7, <1>8, <1>9, <1>10, <1>11, <1>12, <1>13
     DEF WorkerKeeps, MemoryTypeOK, WorkerInv

CaptureStep(w) == Setup(w) \/ Heartbeat(w) \/ Watched(w) \/ Signalled(w)

\* A worker at work keeps its lock and its session.
LEMMA CaptureKeeps ==
    ASSUME RecorderInv, NEW w \in Sessions, CaptureStep(w), UNCHANGED call
    PROVE  WorkerKeeps(w) /\ Quiet
<1> USE SessionAssumption
    DEF Actors, Goto, Release, Acquire, Drop, Return, CallUpdate, CallUpdateIn, EndWith,
        keepShared, SetFile
<1>1. MemoryTypeOK
  BY WorkerFacts DEF WorkerKnows
<1>2. EndPhases \subseteq Phases /\ {"finalizing", "stop_requested"} \subseteq Phases
  BY DEF EndPhases, Phases, AwaitingPhases, TerminalPhases, CapturePhases
<1>3. IsBorn(w) /\ MakesWorkerUpdate(w)
  BY WorkerFacts DEF WorkerKnows
<1>4. HoldsWorkerLock(w) /\ IsNamed(w)
  BY WorkerFacts DEF WorkerKnows
<1>5. files \in [Sessions -> Artifacts]
  BY WorkerFacts DEF WorkerKnows
<1>6. pc' \in [Actors -> Labels] /\ captureLock' \in [Sessions -> Actors \cup {None, Probe}]
  BY <1>1, <1>3 DEF CaptureStep, Setup, Heartbeat, Watched, Signalled, MemoryTypeOK, Labels,
                    WorkerLabels, MakesWorkerUpdate, WorkerFrame
<1>7. frame' \in [Actors -> Frames]
  BY <1>1, <1>2 DEF CaptureStep, Setup, Heartbeat, Watched, Signalled, MemoryTypeOK, Frames,
                    NoFrame, Labels, WorkerLabels, WrittenCodes, EndPhases
<1>8. PlacesStay(w) /\ LocksStay(w)
  BY <1>1, <1>3, <1>4 DEF CaptureStep, Setup, Heartbeat, Watched, Signalled, MemoryTypeOK,
                          PlacesStay, LocksStay, HoldsWorkerLock, WorkerOwnsCapture,
                          MakesWorkerUpdate, WorkerFrame
<1>9. IsBorn(w)'
  BY <1>1, <1>3, <1>5 DEF CaptureStep, Setup, Heartbeat, Watched, Signalled, MemoryTypeOK,
                          IsBorn, WorkerAlive, Artifacts
<1>10. MakesWorkerUpdate(w)'
  BY <1>1, <1>2, <1>3 DEF CaptureStep, Setup, Heartbeat, Watched, Signalled, MemoryTypeOK,
                          MakesWorkerUpdate, WorkerFrame, Frames, EndPhases
<1>11. HoldsWorkerLock(w)'
  BY <1>1, <1>3, <1>4 DEF CaptureStep, Setup, Heartbeat, Watched, Signalled, MemoryTypeOK,
                          HoldsWorkerLock, WorkerOwnsCapture, Frames, MakesWorkerUpdate,
                          WorkerFrame
<1>12. IsNamed(w)'
  BY <1>1, <1>3, <1>4 DEF CaptureStep, Setup, Heartbeat, Watched, Signalled, MemoryTypeOK,
                          IsNamed, Records, Current, Readable
<1>13. Quiet
  BY <1>3 DEF CaptureStep, Setup, Heartbeat, Watched, Signalled, Quiet
<1> QED
  BY <1>1, <1>6, <1>7, <1>8, <1>9, <1>10, <1>11, <1>12, <1>13
     DEF WorkerKeeps, MemoryTypeOK, WorkerInv

EndStep(w) ==
    NoAudio(w) \/ LocalFailure(w) \/ HandleFailure(w) \/ Exit(w) \/ WorkerDies(w)

\* A worker that ends gives back its lock and stops counting on its session.
LEMMA EndKeeps ==
    ASSUME RecorderInv, NEW w \in Sessions, EndStep(w), UNCHANGED call
    PROVE  WorkerKeeps(w) /\ Quiet
<1> USE SessionAssumption
    DEF Actors, Goto, Release, Acquire, Drop, Return, CallUpdate, CallUpdateIn, EndWith,
        keepShared, SetFile
<1>1. MemoryTypeOK
  BY WorkerFacts DEF WorkerKnows
<1>2. EndPhases \subseteq Phases /\ {"finalizing", "stop_requested"} \subseteq Phases
  BY DEF EndPhases, Phases, AwaitingPhases, TerminalPhases, CapturePhases
<1>3. IsBorn(w) /\ MakesWorkerUpdate(w)
  BY WorkerFacts DEF WorkerKnows
<1>4. HoldsWorkerLock(w) /\ IsNamed(w)
  BY WorkerFacts DEF WorkerKnows
<1>5. files \in [Sessions -> Artifacts]
  BY WorkerFacts DEF WorkerKnows
<1>6. pc' \in [Actors -> Labels] /\ captureLock' \in [Sessions -> Actors \cup {None, Probe}]
  BY <1>1, <1>3 DEF EndStep, NoAudio, LocalFailure, HandleFailure, Exit, WorkerDies,
                    MemoryTypeOK, Labels, WorkerLabels, MakesWorkerUpdate, WorkerFrame
<1>7. frame' \in [Actors -> Frames]
  BY <1>1, <1>2 DEF EndStep, NoAudio, LocalFailure, HandleFailure, Exit, WorkerDies,
                    MemoryTypeOK, Frames, NoFrame, Labels, WorkerLabels, WrittenCodes,
                    EndPhases
<1>8. PlacesStay(w) /\ LocksStay(w)
  BY <1>1, <1>3, <1>4 DEF EndStep, NoAudio, LocalFailure, HandleFailure, Exit, WorkerDies,
                          MemoryTypeOK, PlacesStay, LocksStay, HoldsWorkerLock,
                          WorkerOwnsCapture, MakesWorkerUpdate, WorkerFrame, WorkerAlive
<1>9. IsBorn(w)'
  BY <1>1, <1>3, <1>5 DEF EndStep, NoAudio, LocalFailure, HandleFailure, Exit, WorkerDies,
                          MemoryTypeOK, IsBorn, WorkerAlive, Artifacts
<1>10. MakesWorkerUpdate(w)'
  BY <1>1, <1>2, <1>3 DEF EndStep, NoAudio, LocalFailure, HandleFailure, Exit, WorkerDies,
                          MemoryTypeOK, MakesWorkerUpdate, WorkerFrame, Frames, EndPhases
<1>11. HoldsWorkerLock(w)'
  BY <1>1, <1>3, <1>4 DEF EndStep, NoAudio, LocalFailure, HandleFailure, Exit, WorkerDies,
                          MemoryTypeOK, HoldsWorkerLock, WorkerOwnsCapture, Frames,
                          MakesWorkerUpdate, WorkerFrame
<1>12. IsNamed(w)'
  BY <1>1, <1>3, <1>4 DEF EndStep, NoAudio, LocalFailure, HandleFailure, Exit, WorkerDies,
                          MemoryTypeOK, IsNamed, Records, Current, Readable
<1>13. Quiet
  BY <1>3 DEF EndStep, NoAudio, LocalFailure, HandleFailure, Exit, WorkerDies, Quiet
<1> QED
  BY <1>1, <1>6, <1>7, <1>8, <1>9, <1>10, <1>11, <1>12, <1>13
     DEF WorkerKeeps, MemoryTypeOK, WorkerInv

\* A worker that cannot boot ends.
LEMMA BootFailsKeeps ==
    ASSUME RecorderInv, NEW w \in Sessions, BootFails(w), UNCHANGED call
    PROVE  WorkerKeeps(w)
<1> USE SessionAssumption
    DEF Actors, Goto, Release, Acquire, Drop, Return, CallUpdate, CallUpdateIn, EndWith,
        keepShared, SetFile
<1>1. MemoryTypeOK
  BY WorkerFacts DEF WorkerKnows
<1>2. EndPhases \subseteq Phases /\ {"finalizing", "stop_requested"} \subseteq Phases
  BY DEF EndPhases, Phases, AwaitingPhases, TerminalPhases, CapturePhases
<1>3. IsBorn(w) /\ MakesWorkerUpdate(w)
  BY WorkerFacts DEF WorkerKnows
<1>4. HoldsWorkerLock(w) /\ IsNamed(w)
  BY WorkerFacts DEF WorkerKnows
<1>5. files \in [Sessions -> Artifacts]
  BY WorkerFacts DEF WorkerKnows
<1>6. UNCHANGED used
  BY DEF BootFails, CompareAndSet, Write, storeVars
<1>7. pc' \in [Actors -> Labels] /\ captureLock' \in [Sessions -> Actors \cup {None, Probe}]
  BY <1>1, <1>3, <1>6 DEF BootFails, MemoryTypeOK, Labels, WorkerLabels, MakesWorkerUpdate,
                          WorkerFrame
<1>8. frame' \in [Actors -> Frames]
  BY <1>1, <1>2, <1>6 DEF BootFails, MemoryTypeOK, Frames, NoFrame, Labels, WorkerLabels,
                          WrittenCodes, EndPhases
<1>9. PlacesStay(w) /\ LocksStay(w)
  BY <1>1, <1>3, <1>4, <1>6 DEF BootFails, MemoryTypeOK, PlacesStay, LocksStay,
                                HoldsWorkerLock, WorkerOwnsCapture, MakesWorkerUpdate,
                                WorkerFrame
<1>10. IsBorn(w)'
  BY <1>1, <1>3, <1>5, <1>6 DEF BootFails, MemoryTypeOK, IsBorn, WorkerAlive, Artifacts
<1>11. MakesWorkerUpdate(w)'
  BY <1>1, <1>2, <1>3, <1>6 DEF BootFails, MemoryTypeOK, MakesWorkerUpdate, WorkerFrame,
                                Frames, EndPhases
<1>12. HoldsWorkerLock(w)'
  BY <1>1, <1>3, <1>4, <1>6 DEF BootFails, MemoryTypeOK, HoldsWorkerLock, WorkerOwnsCapture,
                                Frames, MakesWorkerUpdate, WorkerFrame
<1>13. IsNamed(w)'
  BY <1>1, <1>3, <1>4, <1>6 DEF BootFails, MemoryTypeOK, IsNamed, Records, Current, Readable
<1> QED
  BY <1>1, <1>7, <1>8, <1>9, <1>10, <1>11, <1>12, <1>13
     DEF WorkerKeeps, MemoryTypeOK, WorkerInv

\* A worker that goes on from its claim is named by the state.
LEMMA ClaimKeeps ==
    ASSUME RecorderInv, NEW w \in Sessions, Claim(w), UNCHANGED call
    PROVE  WorkerKeeps(w)
<1> USE SessionAssumption
    DEF Actors, Goto, Release, Acquire, Drop, Return, CallUpdate, CallUpdateIn, EndWith,
        keepShared, SetFile
<1>1. MemoryTypeOK
  BY WorkerFacts DEF WorkerKnows
<1>2. EndPhases \subseteq Phases /\ {"finalizing", "stop_requested"} \subseteq Phases
  BY DEF EndPhases, Phases, AwaitingPhases, TerminalPhases, CapturePhases
<1>3. IsBorn(w) /\ MakesWorkerUpdate(w)
  BY WorkerFacts DEF WorkerKnows
<1>4. HoldsWorkerLock(w) /\ IsNamed(w)
  BY WorkerFacts DEF WorkerKnows
<1>5. files \in [Sessions -> Artifacts]
  BY WorkerFacts DEF WorkerKnows
<1>6. /\ UNCHANGED used
      /\ pc'[w] = "setup" => Current(w)' /\ state'.pid = w
  BY WorkerFacts, ClaimIsHonest DEF WorkerKnows, MemoryTypeOK, Claim, ClaimWorker, Write,
                                    storeVars, Actors, Goto
<1>7. pc' \in [Actors -> Labels] /\ captureLock' \in [Sessions -> Actors \cup {None, Probe}]
  BY <1>1, <1>3, <1>6 DEF Claim, MemoryTypeOK, Labels, WorkerLabels, MakesWorkerUpdate,
                          WorkerFrame
<1>8. frame' \in [Actors -> Frames]
  BY <1>1, <1>2, <1>6 DEF Claim, MemoryTypeOK, Frames, NoFrame, Labels, WorkerLabels,
                          WrittenCodes, EndPhases
<1>9. PlacesStay(w) /\ LocksStay(w)
  BY <1>1, <1>3, <1>4, <1>6 DEF Claim, MemoryTypeOK, PlacesStay, LocksStay, HoldsWorkerLock,
                                WorkerOwnsCapture, MakesWorkerUpdate, WorkerFrame
<1>10. IsBorn(w)'
  BY <1>1, <1>3, <1>5, <1>6 DEF Claim, MemoryTypeOK, IsBorn, WorkerAlive, Artifacts
<1>11. MakesWorkerUpdate(w)'
  BY <1>1, <1>2, <1>3, <1>6 DEF Claim, MemoryTypeOK, MakesWorkerUpdate, WorkerFrame, Frames,
                                EndPhases
<1>12. HoldsWorkerLock(w)'
  BY <1>1, <1>3, <1>4, <1>6 DEF Claim, MemoryTypeOK, HoldsWorkerLock, WorkerOwnsCapture,
                                Frames, MakesWorkerUpdate, WorkerFrame
<1>13. IsNamed(w)'
  BY <1>1, <1>3, <1>4, <1>6 DEF Claim, MemoryTypeOK, IsNamed, Records, Current, Readable
<1> QED
  BY <1>1, <1>7, <1>8, <1>9, <1>10, <1>11, <1>12, <1>13
     DEF WorkerKeeps, MemoryTypeOK, WorkerInv

\* The top level runs without the lock and ends the worker.
LEMMA TopLevelKeeps ==
    ASSUME RecorderInv, NEW w \in Sessions, TopLevel(w), UNCHANGED call
    PROVE  WorkerKeeps(w)
<1> USE SessionAssumption
    DEF Actors, Goto, Release, Acquire, Drop, Return, CallUpdate, CallUpdateIn, EndWith,
        keepShared, SetFile
<1>1. MemoryTypeOK
  BY WorkerFacts DEF WorkerKnows
<1>2. EndPhases \subseteq Phases /\ {"finalizing", "stop_requested"} \subseteq Phases
  BY DEF EndPhases, Phases, AwaitingPhases, TerminalPhases, CapturePhases
<1>3. IsBorn(w) /\ MakesWorkerUpdate(w)
  BY WorkerFacts DEF WorkerKnows
<1>4. HoldsWorkerLock(w) /\ IsNamed(w)
  BY WorkerFacts DEF WorkerKnows
<1>5. files \in [Sessions -> Artifacts]
  BY WorkerFacts DEF WorkerKnows
<1>6. UNCHANGED used
  BY DEF TopLevel, ClaimWorker, Write, storeVars
<1>7. pc' \in [Actors -> Labels] /\ captureLock' \in [Sessions -> Actors \cup {None, Probe}]
  BY <1>1, <1>3, <1>6 DEF TopLevel, MemoryTypeOK, Labels, WorkerLabels, MakesWorkerUpdate,
                          WorkerFrame
<1>8. frame' \in [Actors -> Frames]
  <2>1. UNCHANGED frame \/ CallUpdate(w, w, "failed", "capture_failed", "gone", "gone")
    BY DEF TopLevel
  <2>2. "gone" \in Labels /\ "capture_failed" \in WrittenCodes /\ "failed" \in Phases
    BY <1>2 DEF Labels, WorkerLabels, WrittenCodes, EndPhases
  <2> QED
    BY <1>1, <2>1, <2>2, CallUpdateFacts DEF MemoryTypeOK
<1>9. PlacesStay(w) /\ LocksStay(w)
  BY <1>1, <1>3, <1>4, <1>6 DEF TopLevel, MemoryTypeOK, PlacesStay, LocksStay,
                                HoldsWorkerLock, WorkerOwnsCapture, MakesWorkerUpdate,
                                WorkerFrame
<1>10. IsBorn(w)'
  BY <1>1, <1>3, <1>5, <1>6 DEF TopLevel, MemoryTypeOK, IsBorn, WorkerAlive, Artifacts
<1>11. MakesWorkerUpdate(w)'
  BY <1>1, <1>2, <1>3, <1>6 DEF TopLevel, MemoryTypeOK, MakesWorkerUpdate, WorkerFrame,
                                Frames, EndPhases
<1>12. HoldsWorkerLock(w)'
  BY <1>1, <1>3, <1>4, <1>6 DEF TopLevel, MemoryTypeOK, HoldsWorkerLock, WorkerOwnsCapture,
                                Frames, MakesWorkerUpdate, WorkerFrame
<1>13. IsNamed(w)'
  BY <1>1, <1>3, <1>4, <1>6 DEF TopLevel, MemoryTypeOK, IsNamed, Records, Current, Readable
<1> QED
  BY <1>1, <1>7, <1>8, <1>9, <1>10, <1>11, <1>12, <1>13
     DEF WorkerKeeps, MemoryTypeOK, WorkerInv

\* The first frame leaves the worker named by the state.
LEMMA ReadyKeeps ==
    ASSUME RecorderInv, NEW w \in Sessions, Ready(w), UNCHANGED call
    PROVE  WorkerKeeps(w)
<1> USE SessionAssumption
    DEF Actors, Goto, Release, Acquire, Drop, Return, CallUpdate, CallUpdateIn, EndWith,
        keepShared, SetFile
<1>1. MemoryTypeOK
  BY WorkerFacts DEF WorkerKnows
<1>2. EndPhases \subseteq Phases /\ {"finalizing", "stop_requested"} \subseteq Phases
  BY DEF EndPhases, Phases, AwaitingPhases, TerminalPhases, CapturePhases
<1>3. IsBorn(w) /\ MakesWorkerUpdate(w)
  BY WorkerFacts DEF WorkerKnows
<1>4. HoldsWorkerLock(w) /\ IsNamed(w)
  BY WorkerFacts DEF WorkerKnows
<1>5. files \in [Sessions -> Artifacts]
  BY WorkerFacts DEF WorkerKnows
<1>6. /\ UNCHANGED used
      /\ UNCHANGED state \/ (Current(w)' /\ state'.pid = w)
  BY MarkIsHonest DEF Ready, MarkRecordingStarted, Write, storeVars
<1>7. pc' \in [Actors -> Labels] /\ captureLock' \in [Sessions -> Actors \cup {None, Probe}]
  BY <1>1, <1>3, <1>6 DEF Ready, MemoryTypeOK, Labels, WorkerLabels, MakesWorkerUpdate,
                          WorkerFrame
<1>8. frame' \in [Actors -> Frames]
  BY <1>1, <1>2, <1>6 DEF Ready, MemoryTypeOK, Frames, NoFrame, Labels, WorkerLabels,
                          WrittenCodes, EndPhases
<1>9. PlacesStay(w) /\ LocksStay(w)
  BY <1>1, <1>3, <1>4, <1>6 DEF Ready, MemoryTypeOK, PlacesStay, LocksStay, HoldsWorkerLock,
                                WorkerOwnsCapture, MakesWorkerUpdate, WorkerFrame
<1>10. IsBorn(w)'
  BY <1>1, <1>3, <1>5, <1>6 DEF Ready, MemoryTypeOK, IsBorn, WorkerAlive, Artifacts
<1>11. MakesWorkerUpdate(w)'
  BY <1>1, <1>2, <1>3, <1>6 DEF Ready, MemoryTypeOK, MakesWorkerUpdate, WorkerFrame, Frames,
                                EndPhases
<1>12. HoldsWorkerLock(w)'
  BY <1>1, <1>3, <1>4, <1>6 DEF Ready, MemoryTypeOK, HoldsWorkerLock, WorkerOwnsCapture,
                                Frames, MakesWorkerUpdate, WorkerFrame
<1>13. IsNamed(w)'
  BY <1>1, <1>3, <1>4, <1>6 DEF Ready, MemoryTypeOK, IsNamed, Records, Current, Readable
<1> QED
  BY <1>1, <1>7, <1>8, <1>9, <1>10, <1>11, <1>12, <1>13
     DEF WorkerKeeps, MemoryTypeOK, WorkerInv

\* So does a checkpoint.
LEMMA CheckpointKeeps ==
    ASSUME RecorderInv, NEW w \in Sessions, Checkpoint(w), UNCHANGED call
    PROVE  WorkerKeeps(w)
<1> USE SessionAssumption
    DEF Actors, Goto, Release, Acquire, Drop, Return, CallUpdate, CallUpdateIn, EndWith,
        keepShared, SetFile
<1>1. MemoryTypeOK
  BY WorkerFacts DEF WorkerKnows
<1>2. EndPhases \subseteq Phases /\ {"finalizing", "stop_requested"} \subseteq Phases
  BY DEF EndPhases, Phases, AwaitingPhases, TerminalPhases, CapturePhases
<1>3. IsBorn(w) /\ MakesWorkerUpdate(w)
  BY WorkerFacts DEF WorkerKnows
<1>4. HoldsWorkerLock(w) /\ IsNamed(w)
  BY WorkerFacts DEF WorkerKnows
<1>5. files \in [Sessions -> Artifacts]
  BY WorkerFacts DEF WorkerKnows
<1>6. /\ UNCHANGED used
      /\ UNCHANGED state \/ (Current(w)' /\ state'.pid = w)
  BY MarkIsHonest DEF Checkpoint, MarkRecordingStarted, Write, storeVars
<1>7. pc' \in [Actors -> Labels] /\ captureLock' \in [Sessions -> Actors \cup {None, Probe}]
  BY <1>1, <1>3, <1>6 DEF Checkpoint, MemoryTypeOK, Labels, WorkerLabels, MakesWorkerUpdate,
                          WorkerFrame
<1>8. frame' \in [Actors -> Frames]
  BY <1>1, <1>2, <1>6 DEF Checkpoint, MemoryTypeOK, Frames, NoFrame, Labels, WorkerLabels,
                          WrittenCodes, EndPhases
<1>9. PlacesStay(w) /\ LocksStay(w)
  BY <1>1, <1>3, <1>4, <1>6 DEF Checkpoint, MemoryTypeOK, PlacesStay, LocksStay,
                                HoldsWorkerLock, WorkerOwnsCapture, MakesWorkerUpdate,
                                WorkerFrame
<1>10. IsBorn(w)'
  BY <1>1, <1>3, <1>5, <1>6 DEF Checkpoint, MemoryTypeOK, IsBorn, WorkerAlive, Artifacts
<1>11. MakesWorkerUpdate(w)'
  BY <1>1, <1>2, <1>3, <1>6 DEF Checkpoint, MemoryTypeOK, MakesWorkerUpdate, WorkerFrame,
                                Frames, EndPhases
<1>12. HoldsWorkerLock(w)'
  BY <1>1, <1>3, <1>4, <1>6 DEF Checkpoint, MemoryTypeOK, HoldsWorkerLock,
                                WorkerOwnsCapture, Frames, MakesWorkerUpdate, WorkerFrame
<1>13. IsNamed(w)'
  BY <1>1, <1>3, <1>4, <1>6 DEF Checkpoint, MemoryTypeOK, IsNamed, Records, Current,
                                Readable
<1> QED
  BY <1>1, <1>7, <1>8, <1>9, <1>10, <1>11, <1>12, <1>13
     DEF WorkerKeeps, MemoryTypeOK, WorkerInv

\* So does a stop that the worker sees.
LEMMA WatchStopKeeps ==
    ASSUME RecorderInv, NEW w \in Sessions, WatchStop(w), UNCHANGED call
    PROVE  WorkerKeeps(w)
<1> USE SessionAssumption
    DEF Actors, Goto, Release, Acquire, Drop, Return, CallUpdate, CallUpdateIn, EndWith,
        keepShared, SetFile
<1>1. MemoryTypeOK
  BY WorkerFacts DEF WorkerKnows
<1>2. EndPhases \subseteq Phases /\ {"finalizing", "stop_requested"} \subseteq Phases
  BY DEF EndPhases, Phases, AwaitingPhases, TerminalPhases, CapturePhases
<1>3. IsBorn(w) /\ MakesWorkerUpdate(w)
  BY WorkerFacts DEF WorkerKnows
<1>4. HoldsWorkerLock(w) /\ IsNamed(w)
  BY WorkerFacts DEF WorkerKnows
<1>5. files \in [Sessions -> Artifacts]
  BY WorkerFacts DEF WorkerKnows
<1>6. /\ UNCHANGED used
      /\ UNCHANGED state \/ (Current(w)' /\ state'.pid = state.pid)
  BY StopKeepsOwner DEF WatchStop, RequestStop, Write, storeVars
<1>7. pc' \in [Actors -> Labels] /\ captureLock' \in [Sessions -> Actors \cup {None, Probe}]
  BY <1>1, <1>3, <1>6 DEF WatchStop, MemoryTypeOK, Labels, WorkerLabels, MakesWorkerUpdate,
                          WorkerFrame
<1>8. frame' \in [Actors -> Frames]
  BY <1>1, <1>2, <1>6 DEF WatchStop, MemoryTypeOK, Frames, NoFrame, Labels, WorkerLabels,
                          WrittenCodes, EndPhases
<1>9. PlacesStay(w) /\ LocksStay(w)
  BY <1>1, <1>3, <1>4, <1>6 DEF WatchStop, MemoryTypeOK, PlacesStay, LocksStay,
                                HoldsWorkerLock, WorkerOwnsCapture, MakesWorkerUpdate,
                                WorkerFrame
<1>10. IsBorn(w)'
  BY <1>1, <1>3, <1>5, <1>6 DEF WatchStop, MemoryTypeOK, IsBorn, WorkerAlive, Artifacts
<1>11. MakesWorkerUpdate(w)'
  BY <1>1, <1>2, <1>3, <1>6 DEF WatchStop, MemoryTypeOK, MakesWorkerUpdate, WorkerFrame,
                                Frames, EndPhases
<1>12. HoldsWorkerLock(w)'
  BY <1>1, <1>3, <1>4, <1>6 DEF WatchStop, MemoryTypeOK, HoldsWorkerLock, WorkerOwnsCapture,
                                Frames, MakesWorkerUpdate, WorkerFrame
<1>13. IsNamed(w)'
  BY <1>1, <1>3, <1>4, <1>6 DEF WatchStop, MemoryTypeOK, IsNamed, Records, Current, Readable
<1> QED
  BY <1>1, <1>7, <1>8, <1>9, <1>10, <1>11, <1>12, <1>13
     DEF WorkerKeeps, MemoryTypeOK, WorkerInv

\* A worker that finishes only has its last update to make.
LEMMA FinishKeeps ==
    ASSUME RecorderInv, NEW w \in Sessions, NEW link \in BOOLEAN, Finish(w, link), UNCHANGED call
    PROVE  WorkerKeeps(w)
<1> USE SessionAssumption
    DEF Actors, Goto, Release, Acquire, Drop, Return, CallUpdate, CallUpdateIn, EndWith,
        keepShared, SetFile
<1>1. MemoryTypeOK
  BY WorkerFacts DEF WorkerKnows
<1>2. EndPhases \subseteq Phases /\ {"finalizing", "stop_requested"} \subseteq Phases
  BY DEF EndPhases, Phases, AwaitingPhases, TerminalPhases, CapturePhases
<1>3. IsBorn(w) /\ MakesWorkerUpdate(w)
  BY WorkerFacts DEF WorkerKnows
<1>4. HoldsWorkerLock(w) /\ IsNamed(w)
  BY WorkerFacts DEF WorkerKnows
<1>5. files \in [Sessions -> Artifacts]
  BY WorkerFacts DEF WorkerKnows
<1>6. pc' \in [Actors -> Labels] /\ captureLock' \in [Sessions -> Actors \cup {None, Probe}]
  BY <1>1, <1>3 DEF Finish, MemoryTypeOK, Labels, WorkerLabels, MakesWorkerUpdate,
                    WorkerFrame
<1>7. frame' \in [Actors -> Frames]
  <2>1. /\ EndPhases \subseteq Phases /\ {"exit", "failing"} \subseteq Labels
        /\ {"webrtc_disconnected", "local_interruption"} \subseteq WrittenCodes
    BY <1>2 DEF Labels, WorkerLabels, WrittenCodes
  <2>2. \/ frame' = [frame EXCEPT ![w] = NoFrame]
        \/ \E phase \in EndPhases,
              code \in {"webrtc_disconnected", "local_interruption", None} :
             CallUpdate(w, w, phase, code, "exit", "failing")
    BY DEF Finish, EndPhases
  <2>3. CASE \E phase \in EndPhases,
                code \in {"webrtc_disconnected", "local_interruption", None} :
               CallUpdate(w, w, phase, code, "exit", "failing")
    BY <1>1, <2>1, <2>3, UpdateFrames DEF MemoryTypeOK, CallUpdate
  <2>4. CASE frame' = [frame EXCEPT ![w] = NoFrame]
    BY <1>1, <2>4 DEF MemoryTypeOK, Frames, NoFrame
  <2> QED
    BY <2>2, <2>3, <2>4
<1>8. PlacesStay(w) /\ LocksStay(w)
  BY <1>1, <1>3, <1>4 DEF Finish, MemoryTypeOK, PlacesStay, LocksStay, HoldsWorkerLock,
                          WorkerOwnsCapture, MakesWorkerUpdate, WorkerFrame
<1>9. IsBorn(w)'
  BY <1>1, <1>3, <1>5 DEF Finish, MemoryTypeOK, IsBorn, WorkerAlive, Artifacts
<1>10. MakesWorkerUpdate(w)'
  BY <1>1, <1>2, <1>3 DEF Finish, MemoryTypeOK, MakesWorkerUpdate, WorkerFrame, Frames,
                          EndPhases
<1>11. HoldsWorkerLock(w)'
  BY <1>1, <1>3, <1>4 DEF Finish, MemoryTypeOK, HoldsWorkerLock, WorkerOwnsCapture, Frames,
                          MakesWorkerUpdate, WorkerFrame
<1>12. IsNamed(w)'
  BY <1>1, <1>3, <1>4 DEF Finish, MemoryTypeOK, IsNamed, Records, Current, Readable
<1> QED
  BY <1>1, <1>6, <1>7, <1>8, <1>9, <1>10, <1>11, <1>12
     DEF WorkerKeeps, MemoryTypeOK, WorkerInv

\* An update with which a worker goes on recording leaves it the owner.
LEMMA WorkerCommitKeepsOwner ==
    ASSUME RecorderInv, NEW w \in Sessions, UpdateCommit(w),
           frame[w].ok \in {"capture", "watched"}
    PROVE  Current(w)' /\ state'.pid = w
<1> DEFINE f == frame[w]
           r == Changed(state, f)
<1>1. Current(w) /\ state.pid = w
  BY WorkerFacts DEF WorkerKnows, IsNamed, Records, UpdateCommit
<1>2. f.phase \in {Keep, "finalizing"}
  BY WorkerFacts DEF WorkerKnows, MakesWorkerUpdate, WorkerFrame, Records, UpdateCommit
<1>3. state.phase \in CapturePhases
  BY <1>1, SessionAssumption DEF RecorderInv, StateInv, OwnerOnlyWhileCapturing, Current
<1>4. Updates(r, FALSE) /\ r.pid = state.pid
  <2>1. /\ Updates(r, FALSE)
        /\ r.phase = IF f.phase = Keep THEN state.phase ELSE f.phase
        /\ r.pid = IF r.phase \in CapturePhases THEN state.pid ELSE None
    BY CommitFacts DEF Actors
  <2> HIDE DEF f, r
  <2> QED
    BY <1>2, <1>3, <2>1 DEF CapturePhases
<1> HIDE DEF f, r
<1>5. state' \in Record /\ state'.session = state.session /\ state'.pid = r.pid
  BY <1>4, UpdateFacts, WriteFacts DEF Updates
<1> QED
  BY <1>1, <1>4, <1>5, ReadableRecord DEF Current, Readable

\* An update lets a worker go on recording only while it is the owner.
LEMMA WorkerUpdateKeeps ==
    ASSUME RecorderInv, NEW w \in Sessions, Update(w), UNCHANGED call
    PROVE  WorkerKeeps(w)
<1> USE SessionAssumption
    DEF Actors, Goto, Release, Acquire, Drop, Return, CallUpdate, CallUpdateIn, EndWith,
        keepShared, SetFile
<1>1. MemoryTypeOK
  BY WorkerFacts DEF WorkerKnows
<1>2. EndPhases \subseteq Phases /\ {"finalizing", "stop_requested"} \subseteq Phases
  BY DEF EndPhases, Phases, AwaitingPhases, TerminalPhases, CapturePhases
<1>3. IsBorn(w) /\ MakesWorkerUpdate(w)
  BY WorkerFacts DEF WorkerKnows
<1>4. HoldsWorkerLock(w) /\ IsNamed(w)
  BY WorkerFacts DEF WorkerKnows
<1>5. files \in [Sessions -> Artifacts]
  BY WorkerFacts DEF WorkerKnows
<1>6. pc[w] = "update" /\ UpdateMoves(w)
  BY UpdateMoveFacts
<1>7. pc' \in [Actors -> Labels] /\ captureLock' \in [Sessions -> Actors \cup {None, Probe}]
  BY <1>1, <1>3, <1>6 DEF UpdateMoves, MemoryTypeOK, Labels, WorkerLabels,
                          MakesWorkerUpdate, WorkerFrame
<1>8. frame' \in [Actors -> Frames]
  BY UpdateMoveFacts
<1>9. PlacesStay(w) /\ LocksStay(w)
  BY <1>1, <1>3, <1>4, <1>6 DEF UpdateMoves, MemoryTypeOK, PlacesStay, LocksStay,
                                HoldsWorkerLock, WorkerOwnsCapture, MakesWorkerUpdate,
                                WorkerFrame
<1>10. IsBorn(w)'
  BY <1>1, <1>3, <1>5, <1>6 DEF UpdateMoves, MemoryTypeOK, IsBorn, WorkerAlive, Artifacts
<1>11. MakesWorkerUpdate(w)'
  BY <1>1, <1>2, <1>3, <1>6 DEF UpdateMoves, MemoryTypeOK, MakesWorkerUpdate, WorkerFrame,
                                Frames, EndPhases
<1>12. HoldsWorkerLock(w)'
  BY <1>1, <1>3, <1>4, <1>6 DEF UpdateMoves, MemoryTypeOK, HoldsWorkerLock,
                                WorkerOwnsCapture, Frames, MakesWorkerUpdate, WorkerFrame
<1>13. IsNamed(w)'
  <2>1. SUFFICES ASSUME Records(w)' PROVE Current(w)' /\ state'.pid = w
    BY DEF IsNamed
  <2>2. Records(w)
    BY <1>1, <1>3, <1>6, <2>1 DEF MemoryTypeOK, Records, UpdateMoves, MakesWorkerUpdate,
                                  WorkerFrame, NoFrame
  <2>3. CASE UpdateCommit(w)
    <3>1. frame[w].ok \in {"capture", "watched"}
      BY <1>1, <1>3, <1>6, <2>1, <2>3 DEF MemoryTypeOK, Records, UpdateCommit,
                                          MakesWorkerUpdate, WorkerFrame
    <3> QED
      BY <2>3, <3>1, WorkerCommitKeepsOwner
  <2>4. CASE UNCHANGED state
    BY <1>4, <2>2, <2>4 DEF IsNamed, Current, Readable
  <2> QED
    BY <2>3, <2>4 DEF Update, UpdateRead, UpdateConflict
<1> QED
  BY <1>1, <1>7, <1>8, <1>9, <1>10, <1>11, <1>12, <1>13
     DEF WorkerKeeps, MemoryTypeOK, WorkerInv

\* A step that writes no artifact loses none.
LEMMA WorkerStillFiles ==
    ASSUME RecorderInv, UNCHANGED files
    PROVE  files' \in [Sessions -> Artifacts] /\ FilesStay
  BY DEF RecorderInv, RecorderTypeOK, FilesStay

\* A worker that fails before its claim fails a session that nobody owns.
LEMMA BootFailsState ==
    ASSUME RecorderInv, NEW w \in Sessions, BootFails(w), UNCHANGED call
    PROVE  StateKeeps(w)
<1> DEFINE r == [state EXCEPT !.phase = "failed", !.err = "setup_failed"]
<1>1. PlacesStay(w) /\ UNCHANGED files /\ files' \in [Sessions -> Artifacts] /\ FilesStay
  BY BootFailsKeeps, WorkerStillFiles DEF WorkerKeeps, BootFails
<1>2. CASE UNCHANGED storeVars
  BY <1>1, <1>2, QuietKeeps DEF Quiet, storeVars
<1>3. CASE Current(w) /\ state.pid = None /\ CompareAndSet(w, state.rev, r)
  <2>1. state \in Record /\ "setup_failed" \in ErrorCodes
    BY <1>3, RecordFacts, SessionAssumption DEF Current, WrittenCodes
  <2>2. /\ r \in Record /\ r.phase = "failed" /\ r.pid = None
        /\ r.session = state.session /\ r.rev = state.rev
    BY <1>3, <2>1 DEF Record, Phases, TerminalPhases
  <2>3. ValidUpdate(state, r, FALSE) /\ WellFormed(r) /\ Write(r)
    BY <1>3 DEF CompareAndSet, Accepts
  <2> HIDE DEF r
  <2>4. Updates(r, FALSE) /\ HonestUpdate(r) /\ r.pid = state.pid
    BY <1>3, <2>1, <2>2, <2>3 DEF Updates, HonestUpdate
  <2> QED
    BY <1>1, <2>4, UpdateKeeps
<1> QED
  BY <1>2, <1>3 DEF BootFails

\* Who claims a session takes it from nobody.
LEMMA ClaimState ==
    ASSUME RecorderInv, NEW w \in Sessions, PlacesStay(w), UNCHANGED files,
           pc[w] # "unborn", ClaimWorker(w, w)
    PROVE  StateKeeps(w)
<1>1. files' \in [Sessions -> Artifacts] /\ FilesStay
  BY WorkerStillFiles
<1>2. state.pid = None
  BY ClaimIsHonest
<1>3. OwnersStay(w)
  BY <1>2, SessionAssumption DEF OwnersStay
<1> QED
  BY <1>1, <1>3, ClaimIsHonest, UpdateKeeps

\* A claim, in the capture or at the top level, is of an unowned session.
LEMMA ClaimsState ==
    ASSUME RecorderInv, NEW w \in Sessions, Claim(w) \/ TopLevel(w), UNCHANGED call
    PROVE  StateKeeps(w)
<1>1. PlacesStay(w) /\ UNCHANGED files
  BY ClaimKeeps, TopLevelKeeps DEF WorkerKeeps, Claim, TopLevel
<1>2. pc[w] # "unborn" /\ (UNCHANGED storeVars \/ ClaimWorker(w, w))
  BY DEF Claim, TopLevel
<1> QED
  BY <1>1, <1>2, ClaimState, QuietKeeps DEF Quiet, storeVars

\* The first frame records the start of the recording, with the owner's own update.
LEMMA ReadyState ==
    ASSUME RecorderInv, NEW w \in Sessions, Ready(w), UNCHANGED call
    PROVE  StateKeeps(w)
<1>1. PlacesStay(w) /\ UNCHANGED files /\ files' \in [Sessions -> Artifacts] /\ FilesStay
  BY ReadyKeeps, WorkerStillFiles DEF WorkerKeeps, Ready
<1>2. UNCHANGED storeVars \/ MarkRecordingStarted(w, w, Now)
  BY DEF Ready
<1>3. CASE UNCHANGED storeVars
  BY <1>1, <1>3, QuietKeeps DEF Quiet, storeVars
<1>4. CASE MarkRecordingStarted(w, w, Now)
  BY <1>1, <1>4, MarkIsHonest, UpdateKeeps
<1> QED
  BY <1>2, <1>3, <1>4

\* A checkpoint names the start that the state records.
LEMMA CheckpointState ==
    ASSUME RecorderInv, NEW w \in Sessions, Checkpoint(w), UNCHANGED call
    PROVE  StateKeeps(w)
<1>1. PlacesStay(w) /\ w \in used /\ used \subseteq Sessions
  BY CheckpointKeeps, WorkerFacts DEF WorkerKeeps, WorkerKnows, IsBorn, Checkpoint
<1>2. CASE UNCHANGED <<storeVars, files>>
  BY <1>1, <1>2, QuietKeeps DEF Quiet, storeVars
<1>3. CASE /\ Current(w)' /\ state'.recAt # None /\ state' \in Record
           /\ UNCHANGED storeVars \/ MarkRecordingStarted(w, w, Now)
           /\ SetFile(w, "checkpoint", state'.recAt)
  <2>1. files \in [Sessions -> Artifacts] /\ RecordedStarts /\ state.session \in Sessions
    BY <1>3, RecordFacts DEF RecorderInv, RecorderTypeOK, StateInv, Current,
                             MarkRecordingStarted, CanMarkStarted, storeVars, Readable
  <2>2. state'.recAt \in Times
    BY <1>3 DEF Record
  <2>3. files' \in [Sessions -> Artifacts] /\ FilesStay
    BY <1>1, <1>3, <2>1, <2>2, WritesFileFacts DEF WritesFile
  <2>4. RecordedStarts'
    <3>1. /\ files'[w].checkpoint = state'.recAt /\ files'[w].manifest = files[w].manifest
          /\ state'.session = w
      BY <1>3, <2>1 DEF SetFile, Artifacts, Current
    <3>2. files[w].manifest # None => files[w].manifest.started = state'.recAt
      <4>1. CASE UNCHANGED storeVars
        BY <1>3, <2>1, <4>1 DEF RecordedStarts, Current, Readable, storeVars
      <4>2. CASE MarkRecordingStarted(w, w, Now)
        <5>1. /\ Updates(AfterMarkStarted(state, Now), FALSE) /\ Readable
              /\ state.session = w
          BY <4>2, MarkIsHonest DEF MarkRecordingStarted, CanMarkStarted, Current
        <5> QED
          BY <2>1, <5>1, UpdateFacts DEF RecordedStarts
      <4> QED
        BY <1>3, <4>1, <4>2
    <3> QED
      BY <1>3, <3>1, <3>2 DEF RecordedStarts
  <2>5. CASE UNCHANGED storeVars
    BY <1>1, <2>3, <2>4, <2>5, FilesStepKeeps
  <2>6. CASE MarkRecordingStarted(w, w, Now)
    BY <1>1, <2>3, <2>4, <2>6, MarkIsHonest, UpdateKeeps
  <2> QED
    BY <1>3, <2>5, <2>6
<1>4. ASSUME MarkRecordingStarted(w, w, Now)
      PROVE  Current(w)' /\ state'.recAt # None /\ state' \in Record
  BY <1>4, MarkIsHonest, UpdateFacts
<1>5. ASSUME Current(w), UNCHANGED storeVars, state.recAt # None
      PROVE  Current(w)' /\ state'.recAt # None /\ state' \in Record
  BY <1>5, RecordFacts DEF Current, Readable, storeVars
<1> QED
  BY <1>2, <1>3, <1>4, <1>5 DEF Checkpoint, CheckpointStart

\* The watcher of the stop file records the stop as a stop request does.
LEMMA WatchStopState ==
    ASSUME RecorderInv, NEW w \in Sessions, WatchStop(w), UNCHANGED call
    PROVE  StateKeeps(w)
<1>1. PlacesStay(w) /\ UNCHANGED files /\ files' \in [Sessions -> Artifacts] /\ FilesStay
  BY WatchStopKeeps, WorkerStillFiles DEF WorkerKeeps, WatchStop
<1>2. CASE UNCHANGED storeVars
  BY <1>1, <1>2, QuietKeeps DEF Quiet, storeVars
<1>3. CASE RequestStop(w, Now)
  BY <1>1, <1>3, StopIsHonest, UpdateKeeps
<1> QED
  BY <1>2, <1>3 DEF WatchStop

\* The manifest of a capture names the start that the state records: there is a
\* checkpoint, which names it too.
LEMMA FinishState ==
    ASSUME RecorderInv, NEW w \in Sessions, NEW link \in BOOLEAN, Finish(w, link),
           UNCHANGED call
    PROVE  StateKeeps(w)
<1>1. PlacesStay(w) /\ w \in used /\ used \subseteq Sessions /\ UNCHANGED storeVars
  BY FinishKeeps, WorkerFacts DEF WorkerKeeps, WorkerKnows, IsBorn, Finish, storeVars
<1>2. CASE UNCHANGED files
  BY <1>1, <1>2, QuietKeeps DEF Quiet, storeVars
<1>3. ASSUME NEW code \in {"webrtc_disconnected", "local_interruption", None}, Current(w),
             SetFile(w, "manifest", [code |-> code, started |-> state.recAt])
      PROVE  StateKeeps(w)
  <2> DEFINE m == [code |-> code, started |-> state.recAt]
  <2>1. files \in [Sessions -> Artifacts] /\ RecordedStarts /\ state \in Record
    BY <1>3, RecordFacts DEF RecorderInv, RecorderTypeOK, StateInv, Current
  <2>2. state.recAt # None
    BY <1>3, <2>1 DEF RecordedStarts, Current, Finish, HasFile
  <2>3. m \in Manifests
    BY <1>3, <2>1, SessionAssumption DEF Manifests, Record, WrittenCodes
  <2>4. files' \in [Sessions -> Artifacts] /\ FilesStay
    BY <1>1, <1>3, <2>1, <2>3, WritesFileFacts DEF WritesFile
  <2>5. /\ files'[w].checkpoint = files[w].checkpoint
        /\ files'[w].manifest.started = state.recAt
    BY <1>3, <2>1 DEF SetFile, Artifacts
  <2>6. RecordedStarts'
    BY <1>1, <1>3, <2>1, <2>2, <2>5 DEF RecordedStarts, Current, Readable, storeVars
  <2> QED
    BY <1>1, <2>4, <2>6, FilesStepKeeps
<1> QED
  BY <1>2, <1>3 DEF Finish

\* The updates of a worker are of its own session, so they take nothing from others.
LEMMA WorkerUpdateState ==
    ASSUME RecorderInv, NEW w \in Sessions, Update(w), UNCHANGED call
    PROVE  StateKeeps(w)
<1> DEFINE f == frame[w]
           r == Changed(state, f)
<1>1. /\ PlacesStay(w) /\ UNCHANGED files
      /\ files' \in [Sessions -> Artifacts] /\ FilesStay
  BY WorkerUpdateKeeps, UpdateMoveFacts, WorkerStillFiles
     DEF WorkerKeeps, UpdateMoves, Actors
<1>2. CASE UpdateRead(w) \/ UpdateConflict(w)
  BY <1>1, <1>2, QuietKeeps DEF Quiet, UpdateRead, UpdateConflict
<1>3. CASE UpdateCommit(w)
  <2>1. Current(w) /\ WorkerFrame(f) /\ state.session = w
    BY <1>3, CommitFacts, WorkerFacts
       DEF WorkerKnows, MakesWorkerUpdate, UpdateCommit, Actors, Current
  <2>2. /\ Updates(r, FALSE)
        /\ r.phase = IF f.phase = Keep THEN state.phase ELSE f.phase
        /\ r.pid = IF r.phase \in CapturePhases THEN state.pid ELSE None
        /\ r.stopAt = state.stopAt
    BY <1>3, CommitFacts DEF Actors
  <2>3. OwnerIsOwnWorker /\ StopIsSticky /\ CompletedHasAll /\ OwnerOnlyWhileCapturing
    BY DEF RecorderInv, StateInv
  <2>4. HonestUpdate(r)
    <3>1. \/ r.phase = state.phase
          \/ r.phase \in {"finalizing"} \cup EndPhases
      BY <2>1, <2>2, SessionAssumption DEF WorkerFrame, EndPhases
    <3> HIDE DEF f, r
    <3> QED
      BY <2>1, <2>2, <2>3, <3>1 DEF HonestUpdate, EndPhases, OwnerIsOwnWorker, StopIsSticky,
                                    CompletedHasAll, Current
  <2>5. OwnersStay(w)
    BY <2>1 DEF OwnersStay, Current
  <2> HIDE DEF f, r
  <2> QED
    BY <1>1, <2>2, <2>4, <2>5, UpdateKeeps
<1> QED
  BY <1>2, <1>3 DEF Update

-----------------------------------------------------------------------------
(* Every step keeps its own part of the invariant and gives its guarantee. *)

\* The steps of a caller, by group.
LEMMA CallerStepCases ==
    ASSUME NEW c \in Callers, Command(c) \/ CallerStep(c) \/ CallerDies(c)
    PROVE  \/ BeginStep(c) \/ StartStep(c) \/ StartSpawn(c) \/ StopStep(c) \/ ProcessStep(c)
           \/ AbandonStep(c) \/ ArtifactStep(c) \/ RecoveryStep(c) \/ RecoverFailed(c)
           \/ RecoverFiles(c) \/ (\E s \in Sessions : StartReserve(c, s))
           \/ RequestStopState(c) \/ AbandonWrite(c) \/ CallerUpdate(c)
<1>1. PidAlive(c) \in BOOLEAN
  BY DEF PidAlive
<1>2. CASE Command(c)
  BY <1>2 DEF Command, BeginStep
<1>3. CASE CallerDeadline(c) \/ StartInterrupted(c)
  BY <1>3 DEF CallerDeadline, StopStep, StartStep
<1>4. CASE CallerProgress(c)
  <2>1. ASSUME StartProbe(c, PidAlive(c)) \/ DeadlineProbe(c, PidAlive(c))
        PROVE  StartStep(c)
    BY <1>1, <2>1 DEF StartStep
  <2>2. ASSUME pc[c] = "reserve" /\ Sessions = used /\ Done(c),
               UNCHANGED <<state, used, files, captureLock, processLock, frame>>
        PROVE  BeginStep(c)
    BY <2>2 DEF BeginStep, Exhausted, keepState, keepLocks
  <2>3. ASSUME RecoverDeadCapture(c)
        PROVE  RecoveryStep(c) \/ RecoverFailed(c) \/ RecoverFiles(c)
    BY <2>3 DEF RecoverDeadCapture, RecoveryStep
  <2>4. ASSUME Process(c) PROVE ProcessStep(c) \/ ArtifactStep(c)
    BY <2>4 DEF Process, ProcessStep, ArtifactStep
  <2>5. ASSUME NEW s \in Sessions \ used, StartReserve(c, s)
        PROVE  \E x \in Sessions : StartReserve(c, x)
    BY <2>5
  <2>6. ASSUME HandshakeRead(c) \/ HandshakeProbe(c) PROVE StartStep(c)
    BY <2>6 DEF StartStep
  <2>7. ASSUME WaitRead(c) \/ WaitProbe(c) \/ StopSettled(c) PROVE StopStep(c)
    BY <2>7 DEF StopStep
  <2>8. ASSUME AbandonCapture(c) \/ AbandonProcess(c) \/ AbandonRead(c) \/ Leave(c)
        PROVE  AbandonStep(c)
    BY <2>8 DEF AbandonStep
  <2>9. ASSUME StartCreate(c) \/ RequestStopFile(c) PROVE ArtifactStep(c)
    BY <2>9 DEF ArtifactStep
  <2> QED
    BY <1>4, <2>1, <2>2, <2>3, <2>4, <2>5, <2>6, <2>7, <2>8, <2>9 DEF CallerProgress
<1>5. CASE CallerDies(c)
  BY <1>5 DEF AbandonStep
<1> QED
  BY <1>2, <1>3, <1>4, <1>5 DEF CallerStep

\* Every step of a caller keeps its part and gives its guarantee.
LEMMA CallerStepKeeps ==
    ASSUME RecorderInv, NEW c \in Callers, Command(c) \/ CallerStep(c) \/ CallerDies(c)
    PROVE  CallerKeeps(c) /\ StateKeeps(c)
<1>1. ASSUME CallerKeeps(c), Quiet PROVE StateKeeps(c)
  BY <1>1, QuietKeeps DEF CallerKeeps
<1>2. CASE BeginStep(c)
  BY <1>1, <1>2, BeginKeeps
<1>3. CASE StartStep(c)
  BY <1>1, <1>3, StartKeeps
<1>4. CASE StartSpawn(c)
  BY <1>1, <1>4, SpawnKeeps
<1>5. CASE StopStep(c)
  BY <1>1, <1>5, StopKeeps
<1>6. CASE ProcessStep(c)
  BY <1>1, <1>6, ProcessKeeps
<1>7. CASE AbandonStep(c)
  BY <1>1, <1>7, AbandonKeeps
<1>8. CASE ArtifactStep(c)
  BY <1>8, ArtifactKeeps, ArtifactStepState
<1>9. CASE RecoveryStep(c) \/ RecoverFailed(c)
  BY <1>1, <1>9, RecoveryKeeps, RecoverFailedKeeps
<1>10. CASE RecoverFiles(c)
  BY <1>10, RecoverFilesKeeps
<1>11. CASE \E s \in Sessions : StartReserve(c, s)
  BY <1>11, ReserveKeeps, ReserveState
<1>12. CASE RequestStopState(c) \/ AbandonWrite(c)
  BY <1>12, RequestKeeps, RequestState, AbandonWriteKeeps, AbandonState
<1>13. CASE CallerUpdate(c)
  BY <1>13, CallerUpdateKeeps, CallerUpdateState DEF CallerUpdate
<1> QED
  BY <1>2, <1>3, <1>4, <1>5, <1>6, <1>7, <1>8, <1>9, <1>10, <1>11, <1>12, <1>13,
     CallerStepCases

\* The steps of a worker, by group.
LEMMA WorkerStepCases ==
    ASSUME NEW w \in Sessions, WorkerStep(w) \/ WorkerDies(w)
    PROVE  \/ BootStep(w) \/ CaptureStep(w) \/ EndStep(w) \/ BootFails(w) \/ Claim(w)
           \/ TopLevel(w) \/ Ready(w) \/ Checkpoint(w) \/ WatchStop(w)
           \/ (\E link \in BOOLEAN : Finish(w, link)) \/ Update(w)
<1>1. CASE WorkerDies(w)
  BY <1>1 DEF EndStep
<1>2. CASE WorkerProgress(w)
  BY <1>2 DEF WorkerProgress, BootStep, CaptureStep, EndStep, WorkerUpdate
<1>3. CASE WorkerEnvironment(w)
  BY <1>3 DEF WorkerEnvironment, BootStep, CaptureStep, EndStep
<1> QED
  BY <1>1, <1>2, <1>3 DEF WorkerStep

\* Every step of a worker keeps its part and gives its guarantee.
LEMMA WorkerStepKeeps ==
    ASSUME RecorderInv, NEW w \in Sessions, WorkerStep(w) \/ WorkerDies(w), UNCHANGED call
    PROVE  WorkerKeeps(w) /\ StateKeeps(w)
<1>1. ASSUME WorkerKeeps(w), Quiet PROVE StateKeeps(w)
  BY <1>1, QuietKeeps DEF WorkerKeeps
<1>2. CASE BootStep(w)
  BY <1>1, <1>2, BootKeeps
<1>3. CASE CaptureStep(w)
  BY <1>1, <1>3, CaptureKeeps
<1>4. CASE EndStep(w)
  BY <1>1, <1>4, EndKeeps
<1>5. CASE BootFails(w)
  BY <1>5, BootFailsKeeps, BootFailsState
<1>6. CASE Claim(w) \/ TopLevel(w)
  BY <1>6, ClaimKeeps, TopLevelKeeps, ClaimsState
<1>7. CASE Ready(w)
  BY <1>7, ReadyKeeps, ReadyState
<1>8. CASE Checkpoint(w)
  BY <1>8, CheckpointKeeps, CheckpointState
<1>9. CASE WatchStop(w)
  BY <1>9, WatchStopKeeps, WatchStopState
<1>10. CASE \E link \in BOOLEAN : Finish(w, link)
  BY <1>10, FinishKeeps, FinishState
<1>11. CASE Update(w)
  BY <1>11, WorkerUpdateKeeps, WorkerUpdateState
<1> QED
  BY <1>2, <1>3, <1>4, <1>5, <1>6, <1>7, <1>8, <1>9, <1>10, <1>11, WorkerStepCases

\* A status probe, or no step at all.
ProbeStep ==
    \/ \E s \in Sessions : ProbeBegins(s) \/ ProbeEnds(s)
    \/ UNCHANGED vars

\* A status probe changes nothing but a lock that nobody holds.
LEMMA ProbeKeeps ==
    ASSUME RecorderInv, ProbeStep
    PROVE  MemoryTypeOK' /\ PlacesStay(Probe) /\ LocksStay(Probe) /\ StateKeeps(Probe)
<1>1. MemoryTypeOK
  BY DEF RecorderInv, RecorderTypeOK
<1>2. UNCHANGED <<state, used, files, pc, frame, call>>
  BY DEF ProbeStep, ProbeBegins, ProbeEnds, vars, sessionVars
<1>3. /\ captureLock' \in [Sessions -> Actors \cup {None, Probe}]
      /\ LocksStay(Probe)
  <2>1. CASE UNCHANGED captureLock
    BY <1>1, <2>1 DEF MemoryTypeOK, LocksStay
  <2>2. ASSUME NEW s \in Sessions, ProbeBegins(s) \/ ProbeEnds(s)
        PROVE  /\ captureLock' \in [Sessions -> Actors \cup {None, Probe}]
               /\ LocksStay(Probe)
    BY <1>1, <2>2, SessionAssumption
       DEF MemoryTypeOK, ProbeBegins, ProbeEnds, LocksStay, Acquire, Release, Actors
  <2> QED
    BY <2>1, <2>2 DEF ProbeStep, vars, sessionVars
<1>4. MemoryTypeOK'
  BY <1>1, <1>2, <1>3 DEF MemoryTypeOK
<1>5. PlacesStay(Probe)
  BY <1>2, SessionAssumption DEF PlacesStay
<1> QED
  BY <1>2, <1>3, <1>4, <1>5, QuietKeeps DEF Quiet

-----------------------------------------------------------------------------
(* A guarantee is all that the other processes rely on.                    *)

\* A caller relies on nothing but the guarantees of the others.
LEMMA CallerRelies ==
    ASSUME RecorderInv, NEW a \in Actors \cup {Probe}, Guarantee(a), StoreTypeOK',
           NEW d \in Callers \ {a}
    PROVE  CallerInv(d)'
<1>1. CallerKnows(d)
  BY CallerFacts
<1>2. pc'[d] = pc[d] /\ call'[d] = call[d] /\ frame'[d] = frame[d]
  BY DEF Guarantee, PlacesStay, Actors
<1>3. View(d)' = View(d) /\ Session(d)' = Session(d) /\ Creates(d)' = Creates(d)
  BY <1>2 DEF View, Session, Creates, Updating
<1>4. /\ pc[d] \notin {"idle", "reserve", "leave"} => Session(d) \in used
      /\ used \subseteq used' /\ used \subseteq Sessions
      /\ pc[d] \notin {"idle", "reserve", "leave"} => Session(d) \in Sessions
  BY <1>1 DEF CallerKnows, HasView, Guarantee, RecordsGoOn
<1>5. HasView(d)' /\ MakesOwnUpdate(d)'
  BY <1>1, <1>2, <1>3, <1>4 DEF CallerKnows, HasView, MakesOwnUpdate
<1>6. CreatesFirst(d)'
  <2>1. ASSUME Creates(d) PROVE pc'[Session(d)] = "unborn"
    <3>1. Session(d) \in Sessions /\ pc[Session(d)] = "unborn"
      BY <1>1, <1>4, <2>1 DEF CallerKnows, CreatesFirst, Creates, Updating
    <3>2. ~ (a \in Callers /\ pc[a] = "spawn" /\ Session(a) = Session(d))
      BY <2>1 DEF RecorderInv, OneCreator, Creates
    <3> QED
      BY <3>1, <3>2 DEF Guarantee, PlacesStay
  <2>2. pc[d] = "spawn" => files'[Session(d)].dir
    BY <1>1, <1>4 DEF CallerKnows, CreatesFirst, Guarantee, FilesStay
  <2> QED
    BY <1>2, <1>3, <2>1, <2>2 DEF CreatesFirst
<1>7. HoldsItsLock(d)'
  BY <1>1, <1>2, <1>3, <1>4 DEF CallerKnows, HoldsItsLock, HoldsCapture, Updating,
                                Guarantee, LocksStay, Actors
<1>8. AbandonsUnowned(d)'
  <2> SUFFICES ASSUME pc[d] = "abandon_write"
               PROVE  /\ call[d].rev \in Nat
                      /\ \/ captureLock'[Session(d)] = d
                         \/ Current(Session(d))' =>
                               /\ call[d].rev <= state'.rev
                               /\ state'.rev = call[d].rev => state'.pid = None
    BY <1>2, <1>3 DEF AbandonsUnowned
  <2>1. /\ call[d].rev \in Nat /\ Session(d) \in used /\ Session(d) \in Sessions
        /\ \/ captureLock[Session(d)] = d
           \/ Current(Session(d)) =>
                 /\ call[d].rev <= state.rev
                 /\ state.rev = call[d].rev => state.pid = None
    BY <1>1, <1>4 DEF CallerKnows, AbandonsUnowned
  <2>2. CASE captureLock[Session(d)] = d
    BY <2>1, <2>2 DEF Guarantee, LocksStay, Actors
  <2>3. ASSUME Current(Session(d))', captureLock[Session(d)] # d
        PROVE  /\ call[d].rev <= state'.rev
               /\ state'.rev = call[d].rev => state'.pid = None
    <3>1. Current(Session(d)) /\ (state' = state \/ state'.rev > state.rev)
      BY <1>3, <2>1, <2>3 DEF Guarantee, RecordsGoOn, Current
    <3>2. state.rev \in Nat /\ state'.rev \in Nat
      BY <1>1, <2>3, <3>1, ReadableRecord
         DEF CallerKnows, Current, StoreTypeOK, Readable, Record
    <3> QED
      BY <2>1, <2>3, <3>1, <3>2
  <2> QED
    BY <2>1, <2>2, <2>3
<1>9. HasArtifacts(d)'
  BY <1>1, <1>2, <1>3, <1>4 DEF CallerKnows, HasArtifacts, NeedsManifest, NeedsTranscript,
                                NeedsIntelligence, Completes, Updating, Guarantee, FilesStay
<1> QED
  BY <1>5, <1>6, <1>7, <1>8, <1>9 DEF CallerInv

\* A worker relies on nothing but the guarantees of the others.
LEMMA WorkerRelies ==
    ASSUME RecorderInv, NEW a \in Actors \cup {Probe}, Guarantee(a), NEW w \in Sessions \ {a}
    PROVE  WorkerInv(w)'
<1>1. WorkerKnows(w)
  BY WorkerFacts
<1>2. frame'[w] = frame[w]
  BY DEF Guarantee, PlacesStay, Actors
<1>3. CASE pc'[w] = pc[w]
  <2>1. IsBorn(w)' /\ MakesWorkerUpdate(w)'
    BY <1>1, <1>2, <1>3 DEF WorkerKnows, IsBorn, MakesWorkerUpdate, Guarantee, RecordsGoOn,
                            FilesStay
  <2>2. HoldsWorkerLock(w)'
    BY <1>1, <1>2, <1>3 DEF WorkerKnows, HoldsWorkerLock, WorkerOwnsCapture, Guarantee,
                            LocksStay, Actors
  <2>3. IsNamed(w)'
    <3>1. Records(w) => WorkerOwnsCapture(w)
      BY DEF Records, WorkerOwnsCapture
    <3>2. Records(w)' = Records(w)
      BY <1>2, <1>3 DEF Records
    <3> QED
      BY <1>1, <3>1, <3>2 DEF WorkerKnows, IsNamed, HoldsWorkerLock, Guarantee, OwnersStay
  <2> QED
    BY <2>1, <2>2, <2>3 DEF WorkerInv
<1>4. CASE a \in Callers /\ pc[a] = "spawn" /\ w = Session(a) /\ pc'[w] = "boot"
  <2>1. w \in used /\ files[w].dir
    BY <1>4, CallerFacts DEF CallerKnows, HasView, CreatesFirst
  <2>2. w \in used' /\ files'[w].dir
    BY <2>1 DEF Guarantee, RecordsGoOn, FilesStay
  <2> QED
    BY <1>4, <2>2 DEF WorkerInv, IsBorn, MakesWorkerUpdate, HoldsWorkerLock,
                      WorkerOwnsCapture, IsNamed, Records
<1> QED
  BY <1>3, <1>4 DEF Guarantee, PlacesStay

\* The parts of all processes together are kept.
LEMMA GuaranteeKeeps ==
    ASSUME RecorderInv, NEW a \in Actors \cup {Probe}, Guarantee(a), RecorderTypeOK', StateInv',
           a \in Callers => CallerInv(a)', a \in Sessions => WorkerInv(a)'
    PROVE  RecorderInv'
<1>1. \A c \in Callers : CallerInv(c)'
  BY CallerRelies DEF RecorderTypeOK
<1>2. \A w \in Sessions : WorkerInv(w)'
  BY WorkerRelies
<1>3. ASSUME NEW s \in Sessions \ used' PROVE Untouched(s)'
  <2>1. s \notin used /\ Untouched(s)
    BY <1>3 DEF Guarantee, RecordsGoOn, RecorderInv
  <2>2. ~ (a \in Callers /\ pc[a] = "spawn" /\ s = Session(a))
    BY <2>1, CallerFacts DEF CallerKnows, HasView
  <2>3. files'[s] = files[s] /\ pc'[s] = pc[s]
    BY <2>1, <2>2 DEF Guarantee, FilesStay, PlacesStay, Untouched
  <2> QED
    BY <2>1, <2>3 DEF Untouched
<1>4. OneCreator'
  <2>1. ASSUME NEW c \in Callers, NEW d \in Callers, c # a, d # c,
               Creates(c)', Creates(d)', Session(c)' = Session(d)'
        PROVE  FALSE
    <3>1. Creates(c) /\ Session(c)' = Session(c) /\ Session(c) \in used
      BY <2>1, CallerFacts DEF Guarantee, PlacesStay, Creates, Updating, Session, View,
                               CallerKnows, HasView, Actors
    <3>2. d # a => Creates(d) /\ Session(d)' = Session(d)
      BY <2>1 DEF Guarantee, PlacesStay, Creates, Updating, Session, View, Actors
    <3>3. d = a => Creates(d) /\ Session(d)' = Session(d)
      BY <2>1, <3>1 DEF Guarantee, CreatesNew
    <3> QED
      BY <2>1, <3>1, <3>2, <3>3 DEF RecorderInv, OneCreator
  <2> QED
    BY <2>1 DEF OneCreator
<1> QED
  BY <1>1, <1>2, <1>3, <1>4 DEF RecorderInv

\* The invariant holds at the beginning.
LEMMA RecorderInit == Init => RecorderInv
<1> SUFFICES ASSUME Init PROVE RecorderInv
  OBVIOUS
<1> USE SessionAssumption DEF Actors
<1>1. /\ pc = [a \in Actors |-> IF a \in Callers THEN "idle" ELSE "unborn"]
      /\ state = NoState /\ used = {}
      /\ files = [s \in Sessions |-> NoFiles]
  BY DEF Init, StoreInit
<1>2. MemoryTypeOK
  BY DEF Init, MemoryTypeOK, Labels, CallerLabels, WorkerLabels, Frames, NoFrame, Calls,
         NoCall
<1>3. RecorderTypeOK
  BY <1>1, <1>2 DEF RecorderTypeOK, StoreTypeOK, Artifacts, NoFiles, Readable, IsRecord
<1>4. StateInv
  BY <1>1 DEF StateInv, OwnerOnlyWhileCapturing, OwnerIsOwnWorker, StopIsSticky,
              RecordedStarts, CompletedHasAll, Readable, IsRecord
<1>5. \A s \in Sessions : Untouched(s)
  BY <1>1 DEF Untouched
<1>6. \A w \in Sessions : WorkerInv(w)
  BY <1>1 DEF WorkerInv, IsBorn, MakesWorkerUpdate, HoldsWorkerLock, WorkerOwnsCapture,
              IsNamed, Records
<1>7. \A c \in Callers : CallerInv(c)
  BY <1>1 DEF CallerInv, HasView, MakesOwnUpdate, CreatesFirst, Creates, Updating,
              HoldsItsLock, HoldsCapture, AbandonsUnowned, HasArtifacts, NeedsManifest,
              NeedsTranscript, NeedsIntelligence, Completes
<1>8. OneCreator
  BY <1>1 DEF OneCreator, Creates, Updating
<1> QED
  BY <1>3, <1>4, <1>5, <1>6, <1>7, <1>8 DEF RecorderInv

\* Every step keeps the invariant.
LEMMA RecorderNext == RecorderInv /\ [Next]_vars => RecorderInv'
<1> SUFFICES ASSUME RecorderInv, [Next]_vars PROVE RecorderInv'
  OBVIOUS
<1>1. ASSUME NEW a \in Actors \cup {Probe}, StateKeeps(a), MemoryTypeOK',
             PlacesStay(a), LocksStay(a), CreatesNew(a)
      PROVE  Guarantee(a) /\ RecorderTypeOK' /\ StateInv'
  BY <1>1 DEF StateKeeps, Guarantee, RecorderTypeOK
<1>2. ASSUME NEW c \in Callers, Command(c) \/ CallerStep(c) \/ CallerDies(c)
      PROVE  RecorderInv'
  BY <1>1, <1>2, CallerStepKeeps, GuaranteeKeeps, SessionAssumption DEF CallerKeeps, Actors
<1>3. ASSUME NEW w \in Sessions, WorkerStep(w) \/ WorkerDies(w), UNCHANGED call
      PROVE  RecorderInv'
  BY <1>1, <1>3, WorkerStepKeeps, GuaranteeKeeps, SessionAssumption
     DEF WorkerKeeps, Actors, CreatesNew
<1>4. CASE ProbeStep
  BY <1>1, <1>4, ProbeKeeps, GuaranteeKeeps, SessionAssumption DEF CreatesNew, Actors
<1> QED
  BY <1>2, <1>3, <1>4 DEF Next, WorkerStep, Death, ProbeStep

-----------------------------------------------------------------------------
(* The theorems.                                                           *)

\* Type correctness: the state file, the artifacts, the locks and what every
\* process remembers are always of their types.
THEOREM RecorderTypeCorrect == Spec => []RecorderTypeOK
<1>1. RecorderInv => RecorderTypeOK
  BY DEF RecorderInv
<1> QED
  BY <1>1, RecorderInit, RecorderNext, PTL DEF Spec

\* Whoever records is named by the state file and holds the session's capture
\* lock, however starts, stops, recoveries, abandons, probes and deaths interleave
\* (worker.py under capture_lock, service.py _recover_dead_capture and abandon).
THEOREM RecorderIsOwnerHolds == Spec => []RecorderIsOwner
<1>1. RecorderInv => RecorderIsOwner
  BY DEF RecorderInv, RecorderIsOwner, WorkerInv, HoldsWorkerLock, IsNamed, Records
<1> QED
  BY <1>1, RecorderInit, RecorderNext, PTL DEF Spec

\* A recorded stop is never written over by a heartbeat, the first frame or any
\* other update of worker.py or service.py.
THEOREM StopIsStickyHolds == Spec => []StopIsSticky
<1>1. RecorderInv => StopIsSticky
  BY DEF RecorderInv, StateInv
<1> QED
  BY <1>1, RecorderInit, RecorderNext, PTL DEF Spec

\* Checkpoint and manifest name the start that the state records, and a completed
\* session has every artifact its report was made from (_process, _recover_dead_capture).
THEOREM ArtifactsMatchStateHolds == Spec => []ArtifactsMatchState
<1>1. RecorderInv => ArtifactsMatchState
  BY DEF RecorderInv, StateInv, RecordedStarts, CompletedHasAll, ArtifactsMatchState
<1> QED
  BY <1>1, RecorderInit, RecorderNext, PTL DEF Spec

-----------------------------------------------------------------------------
(* The recorder's processes only ever take steps of the state file.        *)

\* A compare_and_set of the recorder is one that the state file offers.
LEMMA StoreOffer ==
    ASSUME NEW s \in Sessions, NEW rev \in 0..MaxRevision, NEW r \in Offers(s, rev),
           CompareAndSet(s, rev, r)
    PROVE  StoreNext
  BY DEF StoreNext, CompareAndSet, Accepts

\* So is the commit of an update.
LEMMA StoreCommit ==
    ASSUME RecorderInv, NEW a \in Actors, UpdateCommit(a)
    PROVE  StoreNext
<1>1. CompareAndSet(frame[a].session, frame[a].seen, Changed(state, frame[a]))
  BY DEF UpdateCommit
<1> QED
  BY <1>1, CommitFacts, StoreOffer

\* A stop request of the recorder is one of the state file.
LEMMA StoreStop ==
    ASSUME RecorderInv, NEW s, RequestStop(s, Now)
    PROVE  StoreNext
<1>1. s \in Sessions /\ Now \in Times
  BY RecordFacts, NowIsTime DEF RequestStop, Current, Write
<1> QED
  BY <1>1 DEF StoreNext

\* What a caller does to the state file is a step of the file, or nothing.
LEMMA CallerStoreStep ==
    ASSUME RecorderInv, NEW c \in Callers, Command(c) \/ CallerStep(c) \/ CallerDies(c)
    PROVE  [StoreNext]_storeVars
<1>1. CASE \/ BeginStep(c) \/ StartStep(c) \/ StartSpawn(c) \/ StopStep(c) \/ ProcessStep(c)
           \/ AbandonStep(c) \/ RecoveryStep(c) \/ RecoverFailed(c)
  BY <1>1, BeginKeeps, StartKeeps, SpawnKeeps, StopKeeps, ProcessKeeps, AbandonKeeps,
     RecoveryKeeps, RecoverFailedKeeps
     DEF Quiet, storeVars
<1>2. CASE ArtifactStep(c) \/ RecoverFiles(c)
  BY <1>2 DEF ArtifactStep, StartCreate, RequestStopFile, Transcribe, Analyze, Report,
              RecoverFiles, keepState, storeVars
<1>3. CASE \E s \in Sessions : StartReserve(c, s)
  BY <1>3 DEF StartReserve, StoreNext, keepState, storeVars
<1>4. CASE RequestStopState(c)
  BY <1>4, StoreStop DEF RequestStopState, keepState, storeVars
<1>5. CASE AbandonWrite(c)
  <2>1. CASE keepState
    BY <2>1 DEF keepState, storeVars
  <2>2. CASE Abandon(Session(c), call[c].rev)
    BY <2>2, AbandonIsHonest DEF StoreNext
  <2> QED
    BY <1>5, <2>1, <2>2 DEF AbandonWrite
<1>6. CASE CallerUpdate(c)
  BY <1>6, StoreCommit DEF CallerUpdate, Update, UpdateRead, UpdateConflict, storeVars,
                           Actors
<1> QED
  BY <1>1, <1>2, <1>3, <1>4, <1>5, <1>6, CallerStepCases

\* What a worker does to the state file is a step of the file, or nothing.
LEMMA WorkerStoreStep ==
    ASSUME RecorderInv, NEW w \in Sessions, WorkerStep(w) \/ WorkerDies(w), UNCHANGED call
    PROVE  [StoreNext]_storeVars
<1>1. CASE BootStep(w) \/ CaptureStep(w) \/ EndStep(w)
  BY <1>1, BootKeeps, CaptureKeeps, EndKeeps DEF Quiet, storeVars
<1>2. CASE BootFails(w)
  <2> DEFINE r == [state EXCEPT !.phase = "failed", !.err = "setup_failed"]
  <2>1. CASE UNCHANGED storeVars
    BY <2>1
  <2>2. CASE CompareAndSet(w, state.rev, r)
    <3>1. state \in Record /\ state.session = w /\ "setup_failed" \in ErrorCodes
      BY <2>2, RecordFacts, SessionAssumption
         DEF CompareAndSet, Accepts, Current, WrittenCodes
    <3>2. state.rev \in 0..MaxRevision
      BY <2>2, <3>1, NowIsTime DEF CompareAndSet, Write
    <3>3. r \in Offers(w, state.rev)
      BY <3>1 DEF Offers, Record, Phases, TerminalPhases
    <3> QED
      BY <2>2, <3>2, <3>3, StoreOffer
  <2> QED
    BY <1>2, <2>1, <2>2 DEF BootFails
<1>3. CASE Claim(w) \/ TopLevel(w)
  BY <1>3, SessionAssumption DEF Claim, TopLevel, StoreNext
<1>4. CASE Ready(w) \/ Checkpoint(w)
  <2>1. UNCHANGED storeVars \/ MarkRecordingStarted(w, w, Now)
    BY <1>4 DEF Ready, Checkpoint
  <2>2. CASE MarkRecordingStarted(w, w, Now)
    <3>1. Now \in Times
      BY <2>2, RecordFacts, NowIsTime
         DEF MarkRecordingStarted, CanMarkStarted, Current, Write
    <3> QED
      BY <2>2, <3>1, SessionAssumption DEF StoreNext
  <2> QED
    BY <2>1, <2>2
<1>5. CASE WatchStop(w)
  BY <1>5, StoreStop DEF WatchStop
<1>6. CASE \E link \in BOOLEAN : Finish(w, link)
  BY <1>6 DEF Finish, storeVars
<1>7. CASE Update(w)
  BY <1>7, StoreCommit DEF Update, UpdateRead, UpdateConflict, storeVars, Actors
<1> QED
  BY <1>1, <1>2, <1>3, <1>4, <1>5, <1>6, <1>7, WorkerStepCases

\* The recorder implements the state file: all that its processes ever do to the
\* file is what MeetingStateStore lets any caller do, so what holds of the file
\* holds of the recorder.
THEOREM RecorderImplementsStore == Spec => StoreSpec
<1>1. Init => StoreInit
  BY DEF Init
<1>2. RecorderInv /\ [Next]_vars => [StoreNext]_storeVars
  <2> SUFFICES ASSUME RecorderInv, [Next]_vars PROVE [StoreNext]_storeVars
    OBVIOUS
  <2>1. CASE ProbeStep
    BY <2>1 DEF ProbeStep, ProbeBegins, ProbeEnds, vars, sessionVars, storeVars
  <2>2. ASSUME NEW c \in Callers, Command(c) \/ CallerStep(c) \/ CallerDies(c)
        PROVE  [StoreNext]_storeVars
    BY <2>2, CallerStoreStep
  <2>3. ASSUME NEW w \in Sessions, WorkerStep(w) \/ WorkerDies(w), UNCHANGED call
        PROVE  [StoreNext]_storeVars
    BY <2>3, WorkerStoreStep
  <2> QED
    BY <2>1, <2>2, <2>3 DEF Next, WorkerStep, Death, ProbeStep
<1> QED
  BY <1>1, <1>2, RecorderInit, RecorderNext, PTL DEF Spec, StoreSpec

\* In particular a meeting of the recorder has one owner while it is captured,
\* no second meeting begins before it is over, and no phase is gone back to.
THEOREM RecorderImplementsLifecycle == Spec => ImplementsLifecycle
  BY RecorderImplementsStore, StoreImplementsLifecycle

\* And the recorded start and stop of a session are never moved or erased, and a
\* session that is over stays as it ended.
THEOREM RecorderKeepsEvidence == Spec => EvidenceIsImmutable /\ TerminalIsFinal
  BY RecorderImplementsStore, EvidenceIsImmutableHolds, TerminalIsFinalHolds

-----------------------------------------------------------------------------
(* No recorded audio is written off, and what is made from a recording is  *)
(* of one manifest, unless a recovery and a processing of one session      *)
(* meet.                                                                   *)

\* The command has read a dead capture under the lock and not yet updated its state.
Recovering(c) ==
    pc[c] = "recover_files" \/ (pc[c] = "update" /\ frame[c].fail = "recover_failed")

\* The command makes the artifacts of a session.
Processing(c) ==
    \/ pc[c] \in {"transcribe", "analyze", "report"}
    \/ Updating(c, {"transcribe", "analyze", "processed"})

\* No session is processed by a command while another one recovers it.
RecoversApart ==
    \A c, d \in Callers : Recovering(c) /\ Processing(d) => Session(c) # Session(d)

\* Nothing is made yet from what is recorded.
UnprocessedPhases == CapturePhases \cup {"ready_for_processing", "disconnected", "interrupted"}

Unprocessed(s) == files[s].transcript = None /\ files[s].intelligence = None

\* The phase in which a session is not processed although it may have audio.
LostPhases == {"failed"}

NothingToLose(s) == Current(s) => files[s].checkpoint = None

\* The session s has left these phases, for another or for another session.
Past(s, phases) == Current(s) => state.phase \notin phases

\* Before it is set up, a worker has recorded nothing.
BeginsWithoutAudio(w) ==
    pc[w] \in {"unborn", "boot", "lock", "claim", "setup"} => files[w].checkpoint = None

\* A worker gives its session up only without audio.
LosesNothing(w) ==
    pc[w] = "toplevel" \/ (pc[w] = "update" /\ frame[w].phase \in LostPhases)
        => NothingToLose(w)

\* An update that is only ever refused because of a stop request, of which there is
\* one, is made again and succeeds.
Outlasts(f) ==
    /\ f.left > 1 \/ (state.stopAt # None /\ f.seen \in {None, state.rev})
    /\ f.seen \notin {None, state.rev} => state.stopAt # None

\* The phases in which a worker ends a recording that it gives up, without failing it.
UnfailedPhases == {"interrupted", "audio_unavailable"}

\* So is the update that ends a recording without failing the session.
OutlastsStop(w) ==
    pc[w] = "update" /\ frame[w].fail = "toplevel" /\ frame[w].phase \in UnfailedPhases =>
        Outlasts(frame[w])

WorkerSpares(w) == BeginsWithoutAudio(w) /\ LosesNothing(w) /\ OutlastsStop(w)

\* A command goes on to process only what is no longer captured, and produces
\* artifacts only once the state says so.
PastCapture(c) ==
    pc[c] \in {"settled", "process_lock", "process_read", "load", "recovered"}
        \/ Updating(c, {"transcribe"})
    => Past(Session(c), CapturePhases)

PastWaiting(c) == NeedsTranscript(c) \/ pc[c] = "transcribe" => Past(Session(c), UnprocessedPhases)

\* The manifest that was fingerprinted is the one on disk.
KeepsManifest(c) == NeedsManifest(c) => files[Session(c)].manifest = call[c].manifest

\* A recovery rewrites the manifest of a session of which nothing is made yet.
RecoversUnprocessed(c) == pc[c] = "recover_files" => Unprocessed(Session(c))

\* A command fails a session only without audio, or because the disk failed it.
FailsWithoutAudio(c) ==
    /\ pc[c] = "recover_failed" => StorageFails \/ NothingToLose(Session(c))
    /\ pc[c] = "update" /\ frame[c].phase = "failed" =>
          \/ NothingToLose(Session(c))
          \/ StorageFails /\ frame[c].err = "capture_recovery_failed"

\* Under the lock a recovery of recorded audio finds the state as it read it, but for
\* a stop request.
IsAsRead(r, v) ==
    /\ r.recAt = v.recAt
    /\ r.phase = v.phase \/ {r.phase, v.phase} \subseteq CapturePhases

RecoversWhatItRead(c) ==
    pc[c] = "recover_files" => NothingToLose(Session(c)) \/ IsAsRead(state, View(c))

\* Its update is one that outlasts a stop request.
RecoveryFits(c) ==
    pc[c] = "update" /\ frame[c].fail = "recover_failed" =>
        \/ NothingToLose(Session(c))
        \/ TransitionAllowed(state.phase, frame[c].phase) /\ Outlasts(frame[c])

\* An abandon without the lock is of a revision without audio.
AbandonsNoAudio(c) ==
    pc[c] = "abandon_write" =>
        \/ captureLock[Session(c)] = c
        \/ state.rev = call[c].rev => NothingToLose(Session(c))

CallerSpares(c) ==
    /\ PastCapture(c)
    /\ PastWaiting(c)
    /\ KeepsManifest(c)
    /\ RecoversUnprocessed(c)
    /\ FailsWithoutAudio(c)
    /\ RecoversWhatItRead(c)
    /\ RecoveryFits(c)
    /\ AbandonsNoAudio(c)

UnprocessedFirst ==
    Readable /\ state.phase \in UnprocessedPhases => Unprocessed(state.session)

StateSpares == UnprocessedFirst /\ ProvenanceHolds /\ AudioIsNotFailed

SparingInv ==
    /\ RecorderInv
    /\ StateSpares
    /\ \A w \in Sessions : WorkerSpares(w)
    /\ \A c \in Callers : CallerSpares(c)

-----------------------------------------------------------------------------
(* What the steps leave to the other processes in this respect.            *)

\* No session goes back to a phase that it has left.
PhasesGoOn ==
    \A s \in used : Current(s)' =>
        /\ Current(s)
        /\ state'.phase \in CapturePhases => state.phase \in CapturePhases
        /\ state'.phase \in UnprocessedPhases => state.phase \in UnprocessedPhases

\* Every step of the state file keeps to the order of the phases.
LEMMA StepsGoOn ==
    ASSUME RecorderInv, [StoreNext]_storeVars, RecordsGoOn
    PROVE  PhasesGoOn
<1> SUFFICES ASSUME NEW s \in used, Current(s)'
             PROVE  /\ Current(s)
                    /\ state'.phase \in CapturePhases => state.phase \in CapturePhases
                    /\ state'.phase \in UnprocessedPhases => state.phase \in UnprocessedPhases
  BY DEF PhasesGoOn
<1>1. Current(s)
  BY DEF RecordsGoOn
<1>2. CASE UNCHANGED storeVars
  BY <1>1, <1>2 DEF storeVars
<1>3. ASSUME NEW x \in Sessions, Reserve(x) PROVE FALSE
  BY <1>1, <1>3, StoreInvHolds, ReserveFacts DEF Current, Fresh
<1>4. ~Empties
  BY EmptiesFacts DEF Current, Readable, IsRecord
<1>5. ASSUME NEW r, NEW claim, Updates(r, claim)
      PROVE  /\ state'.phase \in CapturePhases => state.phase \in CapturePhases
             /\ state'.phase \in UnprocessedPhases => state.phase \in UnprocessedPhases
  <2>1. state'.phase = r.phase /\ TransitionAllowed(state.phase, r.phase)
    BY <1>5, WriteFacts DEF Updates, ValidUpdate
  <2> QED
    BY <2>1 DEF TransitionAllowed, Allowed, UnprocessedPhases, CapturePhases, CaptureFailures
<1> QED
  BY <1>1, <1>2, <1>3, <1>4, <1>5, StoreInvHolds, StepKinds

\* What a session has left it has left for good.
LEMMA PastStays ==
    ASSUME PhasesGoOn, NEW s \in used
    PROVE  /\ Past(s, CapturePhases) => Past(s, CapturePhases)'
           /\ Past(s, UnprocessedPhases) => Past(s, UnprocessedPhases)'
  BY DEF PhasesGoOn, Past

\* A session without audio stays so while its worker records none.
LEMMA NothingStays ==
    ASSUME PhasesGoOn, NEW s \in used, files'[s].checkpoint = files[s].checkpoint,
           NothingToLose(s)
    PROVE  NothingToLose(s)'
  BY DEF PhasesGoOn, NothingToLose

\* What a step of the worker w leaves alone.
WorkerTouches(w) ==
    /\ used' = used
    /\ \A s \in Sessions \ {w} : files'[s] = files[s]
    /\ files'[w].transcript = files[w].transcript
    /\ files'[w].intelligence = files[w].intelligence
    /\ files'[w].manifest # files[w].manifest => Current(w) /\ Capturing
    /\ files'[w].checkpoint # files[w].checkpoint =>
          captureLock[w] = w /\ Current(w) /\ state.pid = w
    /\ state' # state =>
          Current(w) /\ (captureLock[w] = w \/ NothingToLose(w))

\* What a step of the caller c leaves alone.
CallerTouches(c) ==
    /\ \A s \in Sessions : files'[s].checkpoint = files[s].checkpoint
    /\ \A w \in Sessions :
          captureLock[w] = w /\ Current(w) /\ state.pid = w =>
              \/ state' = state
              \/ state.stopAt = None /\ state'.stopAt # None

-----------------------------------------------------------------------------
(* The steps of a worker.                                                  *)

\* A worker changes the state and the artifacts of its own session, and without the
\* capture lock only where there is no audio.
LEMMA WorkerTouchesOwn ==
    ASSUME RecorderInv, NEW w \in Sessions, WorkerSpares(w),
           WorkerStep(w) \/ WorkerDies(w), UNCHANGED call
    PROVE  WorkerTouches(w)
<1>1. files \in [Sessions -> Artifacts] /\ HoldsWorkerLock(w) /\ IsNamed(w)
  BY WorkerFacts DEF WorkerKnows
<1>2. ASSUME Quiet PROVE WorkerTouches(w)
  BY <1>2 DEF Quiet, WorkerTouches
<1>3. ASSUME UNCHANGED files, used' = used,
             state' # state => Current(w) /\ (captureLock[w] = w \/ NothingToLose(w))
      PROVE  WorkerTouches(w)
  BY <1>3 DEF WorkerTouches
<1>4. CASE BootStep(w) \/ CaptureStep(w) \/ EndStep(w)
  BY <1>2, <1>4, BootKeeps, CaptureKeeps, EndKeeps
<1>5. CASE BootFails(w)
  BY <1>3, <1>5 DEF BootFails, CompareAndSet, Write, WorkerSpares, BeginsWithoutAudio,
                    NothingToLose, storeVars
<1>6. CASE Claim(w)
  BY <1>1, <1>3, <1>6 DEF Claim, ClaimWorker, CanClaim, Write, HoldsWorkerLock, storeVars
<1>7. CASE TopLevel(w)
  BY <1>3, <1>7 DEF TopLevel, ClaimWorker, CanClaim, Write, WorkerSpares, LosesNothing,
                    storeVars
<1>8. CASE Ready(w)
  BY <1>1, <1>3, <1>8 DEF Ready, MarkRecordingStarted, CanMarkStarted, Write,
                          HoldsWorkerLock, WorkerOwnsCapture, storeVars
<1>9. CASE Checkpoint(w)
  <2>1. captureLock[w] = w /\ Current(w) /\ state.pid = w
    BY <1>1, <1>9 DEF Checkpoint, HoldsWorkerLock, WorkerOwnsCapture, IsNamed, Records
  <2>2. used' = used /\ (state' # state => Current(w))
    BY <1>9 DEF Checkpoint, MarkRecordingStarted, Write, storeVars
  <2>3. files' = files \/ \E v : files' = [files EXCEPT ![w].checkpoint = v]
    BY <1>9 DEF Checkpoint, SetFile
  <2> QED
    BY <1>1, <2>1, <2>2, <2>3 DEF WorkerTouches, Artifacts
<1>10. CASE WatchStop(w)
  BY <1>1, <1>3, <1>10 DEF WatchStop, RequestStop, Write, HoldsWorkerLock,
                           WorkerOwnsCapture, storeVars
<1>11. ASSUME NEW link \in BOOLEAN, Finish(w, link) PROVE WorkerTouches(w)
  <2>1. UNCHANGED <<state, used>>
    BY <1>11 DEF Finish
  <2>2. \/ files' = files
        \/ Current(w) /\ \E v : files' = [files EXCEPT ![w].manifest = v]
    BY <1>11 DEF Finish, SetFile
  <2>3. Current(w) => Capturing
    BY <1>1, <1>11, SessionAssumption
       DEF Finish, IsNamed, Records, RecorderInv, StateInv, OwnerOnlyWhileCapturing,
           Capturing, Current
  <2> QED
    BY <1>1, <2>1, <2>2, <2>3 DEF WorkerTouches, Artifacts
<1>12. CASE UpdateRead(w) \/ UpdateConflict(w)
  BY <1>2, <1>12 DEF UpdateRead, UpdateConflict, Quiet
<1>13. CASE UpdateCommit(w)
  <2>1. pc[w] = "update" /\ frame[w].session = w /\ WorkerFrame(frame[w])
    BY <1>13, WorkerFacts DEF WorkerKnows, MakesWorkerUpdate, UpdateCommit
  <2>2. UNCHANGED files /\ used' = used /\ Current(w)
    BY <1>13, <2>1 DEF UpdateCommit, CompareAndSet, Accepts, Write
  <2>3. captureLock[w] = w \/ NothingToLose(w)
    BY <1>1, <2>1 DEF HoldsWorkerLock, WorkerOwnsCapture, WorkerFrame, WorkerSpares,
                      LosesNothing, LostPhases
  <2> QED
    BY <1>3, <2>2, <2>3
<1> QED
  BY <1>4, <1>5, <1>6, <1>7, <1>8, <1>9, <1>10, <1>11, <1>12, <1>13, WorkerStepCases
     DEF Update

\* A worker begins without audio.
LEMMA WorkerStillBegins ==
    ASSUME RecorderInv, NEW w \in Sessions, BeginsWithoutAudio(w),
           WorkerStep(w) \/ WorkerDies(w), UNCHANGED call
    PROVE  BeginsWithoutAudio(w)'
<1> USE SessionAssumption DEF Actors, Goto
<1>1. pc \in [Actors -> Labels] /\ MakesWorkerUpdate(w)
  BY WorkerFacts DEF WorkerKnows, MemoryTypeOK
<1> SUFFICES ASSUME pc'[w] \in {"unborn", "boot", "lock", "claim", "setup"}
             PROVE  files'[w].checkpoint = None
  BY DEF BeginsWithoutAudio
<1>2. CASE BootStep(w)
  BY <1>1, <1>2, BootKeeps DEF BootStep, Boot, BootCrashes, TakeCaptureLock, CaptureLockBusy,
                               LockDeadline, BeginsWithoutAudio, Quiet
<1>3. CASE CaptureStep(w)
  BY <1>1, <1>3 DEF CaptureStep, Setup, Heartbeat, Watched, Signalled, EndWith, CallUpdate,
                    CallUpdateIn
<1>4. CASE EndStep(w)
  BY <1>1, <1>4 DEF EndStep, NoAudio, LocalFailure, HandleFailure, Exit, WorkerDies, EndWith,
                    CallUpdate, CallUpdateIn, Return
<1>5. CASE BootFails(w)
  BY <1>1, <1>5 DEF BootFails
<1>6. CASE Claim(w)
  BY <1>1, <1>6 DEF Claim, BeginsWithoutAudio
<1>7. CASE TopLevel(w)
  BY <1>1, <1>7 DEF TopLevel, CallUpdate, CallUpdateIn
<1>8. CASE Ready(w) \/ Checkpoint(w)
  BY <1>1, <1>8 DEF Ready, Checkpoint
<1>9. CASE WatchStop(w)
  BY <1>1, <1>9 DEF WatchStop, CallUpdateIn
<1>10. ASSUME NEW link \in BOOLEAN, Finish(w, link) PROVE FALSE
  BY <1>1, <1>10 DEF Finish, EndWith, CallUpdate, CallUpdateIn, Return
<1>11. CASE Update(w)
  BY <1>1, <1>11, UpdateMoveFacts DEF UpdateMoves, MakesWorkerUpdate, WorkerFrame
<1> QED
  BY <1>2, <1>3, <1>4, <1>5, <1>6, <1>7, <1>8, <1>9, <1>10, <1>11, WorkerStepCases

\* An update that leaves the capture is accepted if it is of the revision that was read
\* and its phase may follow.
LEMMA LeavingIsAccepted ==
    ASSUME state \in Record, NEW f \in Frames, Current(f.session), f.seen = state.rev,
           f.phase \in Phases \ CapturePhases, TransitionAllowed(state.phase, f.phase)
    PROVE  Accepts(f.session, f.seen, Changed(state, f))
<1> DEFINE r == Changed(state, f)
<1>1. f.phase # Keep
  BY SessionAssumption
<1>2. /\ r.session = state.session /\ r.rev = state.rev
      /\ r.recAt = state.recAt /\ r.stopAt = state.stopAt
      /\ r.phase = f.phase /\ r.pid = None
  BY <1>1 DEF Changed, Record
<1> HIDE DEF r
<1>3. WellFormed(r) /\ ValidUpdate(state, r, FALSE)
  BY <1>2 DEF WellFormed, ValidUpdate, KeepsEvidence
<1> QED
  BY <1>3 DEF r, Accepts

\* The update that saves a worker's audio is not refused.
LEMMA SavingIsNotRefused ==
    ASSUME RecorderInv, NEW w \in Sessions, OutlastsStop(w), Update(w),
           frame[w].fail = "toplevel", frame[w].phase \in UnfailedPhases
    PROVE  pc'[w] # "toplevel" /\ OutlastsStop(w)'
<1> USE DEF Actors
<1> DEFINE f == frame[w]
<1>1. /\ pc \in [Actors -> Labels] /\ frame \in [Actors -> Frames] /\ f \in Frames
      /\ MakesWorkerUpdate(w) /\ IsNamed(w)
  BY WorkerFacts DEF WorkerKnows, MemoryTypeOK
<1>2. pc[w] = "update" /\ WorkerFrame(f) /\ f.session = w
  BY <1>1, UpdateMoveFacts DEF MakesWorkerUpdate
<1>3. f.ok = "exit"
  BY <1>2 DEF WorkerFrame
<1>4. Current(w) /\ state.pid = w /\ state \in Record /\ state.rev \in Nat
  BY <1>1, <1>2, <1>3, RecordFacts DEF IsNamed, Records, Current
<1>5. state.phase \in CapturePhases
  BY <1>4, SessionAssumption DEF RecorderInv, StateInv, OwnerOnlyWhileCapturing, Current
<1>6. CASE UpdateRead(w)
  <2>1. MayUpdate(w)
    BY <1>2, <1>4 DEF MayUpdate
  <2>2. CASE Return(w, f.ok)
    BY <1>1, <1>3, <2>2 DEF Return, Goto, OutlastsStop, Outlasts
  <2>3. CASE frame' = [frame EXCEPT ![w].seen = state.rev] /\ UNCHANGED pc
    <3>1. /\ frame'[w].seen = state.rev /\ frame'[w].left = f.left
          /\ pc'[w] = "update" /\ UNCHANGED state
      BY <1>1, <1>2, <1>6, <2>3 DEF UpdateRead, Frames
    <3> QED
      BY <1>2, <1>6, <3>1 DEF OutlastsStop, Outlasts, UpdateRead
  <2> QED
    BY <1>6, <2>1, <2>2, <2>3 DEF UpdateRead
<1>7. CASE UpdateCommit(w)
  BY <1>1, <1>3, <1>7 DEF UpdateCommit, Return, Goto, OutlastsStop, Outlasts
<1>8. CASE UpdateConflict(w)
  <2>1. f.phase \in Phases \ CapturePhases /\ TransitionAllowed(state.phase, f.phase)
    BY <1>5 DEF UnfailedPhases, TerminalPhases, TransitionAllowed, Allowed, CapturePhases, CaptureFailures, Phases,
                AwaitingPhases
  <2>2. f.seen # state.rev
    BY <1>1, <1>2, <1>4, <1>8, <2>1, LeavingIsAccepted DEF UpdateConflict
  <2>3. f.left > 1 /\ state.stopAt # None
    BY <1>2, <1>8, <2>2 DEF OutlastsStop, Outlasts, UpdateConflict
  <2>4. frame' = [frame EXCEPT ![w].seen = None, ![w].left = @ - 1] /\ UNCHANGED <<pc, state>>
    BY <1>2, <1>4, <1>8, <2>3 DEF UpdateConflict
  <2>5. frame'[w].seen = None
    BY <1>1, <2>4 DEF Frames
  <2> QED
    BY <1>2, <2>3, <2>4, <2>5 DEF OutlastsStop, Outlasts
<1> QED
  BY <1>6, <1>7, <1>8 DEF Update

\* A worker still gives its session up only without audio.
LEMMA WorkerStillLosesNothing ==
    ASSUME RecorderInv, PhasesGoOn, NEW w \in Sessions, WorkerSpares(w), w \in used,
           WorkerStep(w) \/ WorkerDies(w), UNCHANGED call
    PROVE  LosesNothing(w)'
<1> USE SessionAssumption DEF Actors, Goto
<1>1. /\ pc \in [Actors -> Labels] /\ frame \in [Actors -> Frames] /\ MakesWorkerUpdate(w)
      /\ files \in [Sessions -> Artifacts]
  BY WorkerFacts DEF WorkerKnows, MemoryTypeOK
<1>2. BeginsWithoutAudio(w) /\ LosesNothing(w) /\ OutlastsStop(w)
  BY DEF WorkerSpares
<1>3. {Keep, "finalizing", "interrupted", "disconnected", "ready_for_processing",
       "audio_unavailable"} \cap LostPhases = {}
  BY DEF LostPhases, Phases, TerminalPhases
<1>4. ASSUME NothingToLose(w), UNCHANGED files PROVE LosesNothing(w)'
  BY <1>4, NothingStays DEF LosesNothing
<1>5. CASE BootStep(w)
  BY <1>1, <1>2, <1>4, <1>5 DEF BootStep, Boot, BootCrashes, TakeCaptureLock,
         CaptureLockBusy, LockDeadline, BeginsWithoutAudio, LosesNothing, NothingToLose, keepShared
<1>6. CASE CaptureStep(w)
  BY <1>1, <1>2, <1>3, <1>4, <1>6
     DEF CaptureStep, Setup, Heartbeat, Watched, Signalled, EndWith, CallUpdate,
         CallUpdateIn, BeginsWithoutAudio, LosesNothing, NothingToLose, keepShared
<1>7. CASE EndStep(w)
  <2>1. UNCHANGED files
    BY <1>7, EndKeeps DEF Quiet
  <2>2. CASE NoAudio(w)
    <3>1. CASE NothingToLose(w)
      BY <1>4, <2>1, <3>1
    <3>2. CASE ~NothingToLose(w)
      <4>1. EndWith(w, "audio_unavailable", "capture_failed", "toplevel")
        BY <2>2, <3>2 DEF NoAudio, HasFile, NothingToLose
      <4> QED
        BY <1>1, <1>3, <4>1 DEF EndWith, CallUpdate, CallUpdateIn, LosesNothing
    <3> QED
      BY <3>1, <3>2
  <2>3. CASE LocalFailure(w) \/ HandleFailure(w)
    <3>1. CASE Recoverable(w)
      BY <1>1, <1>3, <2>3, <3>1 DEF LocalFailure, HandleFailure, EndWith, CallUpdate,
                                    CallUpdateIn, LosesNothing
    <3>2. CASE ~Recoverable(w)
      <4>1. NothingToLose(w)
        BY <3>2, StoreAssumption
           DEF Recoverable, NothingToLose, RecorderInv, StateInv, RecordedStarts, Current
      <4> QED
        BY <1>4, <2>1, <4>1
    <3> QED
      BY <3>1, <3>2
  <2>4. CASE Exit(w) \/ WorkerDies(w)
    BY <1>1, <1>2, <1>4, <2>1, <2>4 DEF Exit, WorkerDies, Return, LosesNothing
  <2> QED
    BY <1>7, <2>2, <2>3, <2>4 DEF EndStep
<1>8. CASE BootFails(w) \/ Claim(w)
  BY <1>1, <1>8 DEF BootFails, Claim, LosesNothing
<1>9. CASE TopLevel(w)
  BY <1>2, <1>4, <1>9 DEF TopLevel, LosesNothing
<1>10. CASE Ready(w) \/ Checkpoint(w)
  BY <1>1, <1>10 DEF Ready, Checkpoint, LosesNothing
<1>11. CASE WatchStop(w)
  BY <1>1, <1>3, <1>11 DEF WatchStop, CallUpdateIn, LosesNothing
<1>12. ASSUME NEW link \in BOOLEAN, Finish(w, link) PROVE LosesNothing(w)'
  <2>1. \/ Return(w, "exit")
        \/ \E code : \E phase \in {"interrupted", "disconnected", "ready_for_processing"} :
              CallUpdate(w, w, phase, code, "exit", "failing")
    BY <1>12 DEF Finish, EndWith
  <2> QED
    BY <1>1, <1>3, <2>1 DEF Return, CallUpdate, CallUpdateIn, LosesNothing
<1>13. CASE Update(w)
  <2>1. pc[w] = "update" /\ UpdateMoves(w) /\ WorkerFrame(frame[w])
    BY <1>1, <1>13, UpdateMoveFacts DEF MakesWorkerUpdate
  <2>2. CASE frame[w].phase \in LostPhases
    BY <1>2, <1>4, <2>1, <2>2 DEF LosesNothing, UpdateMoves
  <2>3. CASE frame[w].phase \notin LostPhases
    <3>1. pc'[w] # "toplevel"
      BY <1>1, <1>2, <1>13, <2>1, <2>3, SavingIsNotRefused
         DEF WorkerFrame, LostPhases, UnfailedPhases, UpdateMoves
    <3> QED
      BY <1>1, <2>1, <2>3, <3>1 DEF UpdateMoves, WorkerFrame, LosesNothing
  <2> QED
    BY <2>2, <2>3
<1> QED
  BY <1>5, <1>6, <1>7, <1>8, <1>9, <1>10, <1>11, <1>12, <1>13, WorkerStepCases

\* A worker that saves its audio has more than one attempt left, and keeps it.
LEMMA WorkerStillOutlasts ==
    ASSUME RecorderInv, Attempts > 1, NEW w \in Sessions, WorkerSpares(w),
           WorkerStep(w) \/ WorkerDies(w), UNCHANGED call
    PROVE  OutlastsStop(w)'
<1> USE SessionAssumption DEF Actors, Goto
<1>1. /\ pc \in [Actors -> Labels] /\ frame \in [Actors -> Frames] /\ MakesWorkerUpdate(w)
  BY WorkerFacts DEF WorkerKnows, MemoryTypeOK
<1>2. Keep \notin UnfailedPhases
  BY DEF UnfailedPhases, Phases, AwaitingPhases, TerminalPhases
<1>3. CASE BootStep(w) \/ BootFails(w) \/ Claim(w)
  BY <1>1, <1>3 DEF BootStep, Boot, BootCrashes, TakeCaptureLock, CaptureLockBusy,
                    LockDeadline, BootFails, Claim, OutlastsStop, Outlasts
<1>4. CASE CaptureStep(w)
  BY <1>1, <1>2, <1>4 DEF CaptureStep, Setup, Heartbeat, Watched, Signalled, EndWith,
                          CallUpdate, CallUpdateIn, OutlastsStop, Outlasts
<1>5. CASE EndStep(w)
  BY <1>1, <1>5 DEF EndStep, NoAudio, LocalFailure, HandleFailure, Exit, WorkerDies, Return,
                    EndWith, CallUpdate, CallUpdateIn, OutlastsStop, Outlasts
<1>6. CASE TopLevel(w)
  BY <1>1, <1>6 DEF TopLevel, CallUpdate, CallUpdateIn, OutlastsStop, Outlasts
<1>7. CASE Ready(w) \/ Checkpoint(w)
  BY <1>1, <1>7 DEF Ready, Checkpoint, OutlastsStop, Outlasts
<1>8. CASE WatchStop(w)
  BY <1>1, <1>8 DEF WatchStop, CallUpdateIn, OutlastsStop, Outlasts
<1>9. ASSUME NEW link \in BOOLEAN, Finish(w, link) PROVE OutlastsStop(w)'
  <2>1. Return(w, "exit") \/ \E phase, code : CallUpdate(w, w, phase, code, "exit", "failing")
    BY <1>9 DEF Finish, EndWith
  <2> QED
    BY <1>1, <2>1 DEF Return, CallUpdate, CallUpdateIn, OutlastsStop, Outlasts
<1>10. CASE Update(w)
  <2>1. pc[w] = "update" /\ UpdateMoves(w) /\ WorkerFrame(frame[w])
    BY <1>1, <1>10, UpdateMoveFacts DEF MakesWorkerUpdate
  <2>2. CASE frame[w].fail = "toplevel" /\ frame[w].phase \in UnfailedPhases
    BY <1>10, <2>2, SavingIsNotRefused DEF WorkerSpares
  <2>3. CASE ~ (frame[w].fail = "toplevel" /\ frame[w].phase \in UnfailedPhases)
    BY <1>1, <2>1, <2>3 DEF UpdateMoves, WorkerFrame, OutlastsStop, Outlasts
  <2> QED
    BY <2>2, <2>3
<1> QED
  BY <1>3, <1>4, <1>5, <1>6, <1>7, <1>8, <1>9, <1>10, WorkerStepCases

\* After a worker's write the session is still recorded, or has no audio to lose.
LEMMA WorkerWritesWell ==
    ASSUME RecorderInv, NEW w \in Sessions, WorkerSpares(w),
           WorkerStep(w) \/ WorkerDies(w), UNCHANGED call, state' # state
    PROVE  \/ Current(w)' /\ state'.pid = w
           \/ UNCHANGED files /\ (NothingToLose(w) \/ state'.phase \notin LostPhases)
<1>1. /\ HoldsWorkerLock(w) /\ IsNamed(w) /\ MakesWorkerUpdate(w)
      /\ BeginsWithoutAudio(w) /\ LosesNothing(w)
  BY WorkerFacts DEF WorkerKnows, WorkerSpares
<1>2. CASE BootStep(w) \/ CaptureStep(w) \/ EndStep(w)
  BY <1>2, BootKeeps, CaptureKeeps, EndKeeps DEF Quiet
<1>3. CASE BootFails(w)
  BY <1>1, <1>3 DEF BootFails, BeginsWithoutAudio, NothingToLose
<1>4. CASE Claim(w) \/ TopLevel(w)
  <2>1. ClaimWorker(w, w) /\ pc[w] # "unborn"
    BY <1>4 DEF Claim, TopLevel, storeVars
  <2> QED
    BY <2>1, ClaimIsHonest
<1>5. CASE Ready(w) \/ Checkpoint(w)
  <2>1. MarkRecordingStarted(w, w, Now)
    BY <1>5 DEF Ready, Checkpoint, storeVars
  <2> QED
    BY <2>1, MarkIsHonest
<1>6. CASE WatchStop(w)
  <2>1. RequestStop(w, Now) /\ state.pid = w
    BY <1>1, <1>6 DEF WatchStop, storeVars, IsNamed, Records
  <2> QED
    BY <2>1, StopKeepsOwner
<1>7. ASSUME NEW link \in BOOLEAN, Finish(w, link) PROVE FALSE
  BY <1>7 DEF Finish
<1>8. CASE Update(w)
  <2>1. UpdateCommit(w)
    BY <1>8 DEF Update, UpdateRead, UpdateConflict
  <2>2. pc[w] = "update" /\ UNCHANGED files /\ WorkerFrame(frame[w])
    BY <1>1, <2>1 DEF UpdateCommit, MakesWorkerUpdate
  <2>3. state'.phase = IF frame[w].phase = Keep THEN state.phase ELSE frame[w].phase
    BY <2>1, CommitFacts, WriteFacts DEF Actors, Updates
  <2>4. CASE frame[w].phase \in LostPhases
    BY <1>1, <2>2, <2>4 DEF LosesNothing
  <2>5. CASE frame[w].phase \notin LostPhases \cup {Keep}
    BY <2>2, <2>3, <2>5
  <2>6. CASE frame[w].phase = Keep
    <3>1. Records(w)
      BY <2>2, <2>6, SessionAssumption DEF WorkerFrame, Records, EndPhases, Phases, CapturePhases,
                                       TerminalPhases, AwaitingPhases
    <3>2. state.phase \in CapturePhases
      BY <1>1, <3>1, SessionAssumption
         DEF IsNamed, RecorderInv, StateInv, OwnerOnlyWhileCapturing, Current
    <3> QED
      BY <2>2, <2>3, <2>6, <3>2 DEF CapturePhases, LostPhases
  <2> QED
    BY <2>4, <2>5, <2>6
<1> QED
  BY <1>2, <1>3, <1>4, <1>5, <1>6, <1>7, <1>8, WorkerStepCases

\* A worker's step writes off no audio and makes the artifacts of no other manifest.
LEMMA WorkerSparesState ==
    ASSUME RecorderInv, StateSpares, NEW w \in Sessions, WorkerSpares(w),
           WorkerStep(w) \/ WorkerDies(w), UNCHANGED call
    PROVE  StateSpares' /\ PhasesGoOn
<1>1. WorkerTouches(w) /\ StateKeeps(w)
  BY WorkerTouchesOwn, WorkerStepKeeps
<1>2. PhasesGoOn
  BY <1>1, WorkerStoreStep, StepsGoOn DEF StateKeeps
<1> DEFINE s == state'.session
<1>3. ASSUME Readable'
      PROVE  /\ s \in used /\ s \in Sessions /\ Current(s) /\ Readable /\ s = state.session
             /\ state'.phase \in UnprocessedPhases => state.phase \in UnprocessedPhases
  BY <1>1, <1>2, <1>3 DEF StateKeeps, StoreTypeOK, WorkerTouches, PhasesGoOn, Current, RecorderInv,
                          RecorderTypeOK
<1>4. Readable' => /\ files'[s].transcript = files[s].transcript
                   /\ files'[s].intelligence = files[s].intelligence
                   /\ files'[s].manifest # files[s].manifest => state.phase \in CapturePhases
  BY <1>1, <1>3 DEF WorkerTouches, Capturing
<1>5. UnprocessedFirst'
  BY <1>3, <1>4 DEF StateSpares, UnprocessedFirst, Unprocessed
<1>6. ProvenanceHolds'
  BY <1>3, <1>4 DEF StateSpares, UnprocessedFirst, Unprocessed, ProvenanceHolds,
                    UnprocessedPhases
<1>7. AudioIsNotFailed'
  <2> SUFFICES ASSUME Readable', files'[s].checkpoint # None
               PROVE  \/ state'.phase # "failed"
                      \/ state'.err = "abandoned_by_user"
                      \/ StorageFails /\ state'.err = "capture_recovery_failed"
    BY DEF AudioIsNotFailed
  <2>1. ASSUME Current(w)', state'.pid = w PROVE state'.phase \notin LostPhases
    BY <1>1, <2>1, SessionAssumption DEF StateKeeps, StateInv, OwnerOnlyWhileCapturing, Current,
                                         CapturePhases, LostPhases
  <2>2. CASE state' = state
    <3>1. CASE files'[s].checkpoint = files[s].checkpoint
      BY <1>3, <2>2, <3>1 DEF StateSpares, AudioIsNotFailed
    <3>2. CASE files'[s].checkpoint # files[s].checkpoint
      BY <1>1, <1>3, <2>1, <2>2, <3>2 DEF WorkerTouches, Current, Readable, LostPhases
    <3> QED
      BY <3>1, <3>2
  <2>3. CASE state' # state
    <3>1. s = w
      BY <1>1, <1>3, <2>3 DEF WorkerTouches, Current
    <3>2. CASE Current(w)' /\ state'.pid = w
      BY <2>1, <3>2 DEF LostPhases
    <3>3. CASE UNCHANGED files /\ (NothingToLose(w) \/ state'.phase \notin LostPhases)
      BY <1>3, <3>1, <3>3 DEF NothingToLose, LostPhases
    <3> QED
      BY <2>3, <3>2, <3>3, WorkerWritesWell
  <2> QED
    BY <2>2, <2>3
<1> QED
  BY <1>2, <1>5, <1>6, <1>7 DEF StateSpares

-----------------------------------------------------------------------------
(* What the other processes rely on.                                       *)

\* To a worker, the others at most ask for a stop.
LEMMA WorkerStillSpares ==
    ASSUME RecorderInv, NEW a \in Actors \cup {Probe}, Guarantee(a), PhasesGoOn,
           NEW w \in Sessions \ {a}, WorkerSpares(w),
           files'[w].checkpoint = files[w].checkpoint,
           captureLock[w] = w /\ Current(w) /\ state.pid = w =>
              state' = state \/ (state.stopAt = None /\ state'.stopAt # None)
    PROVE  WorkerSpares(w)'
<1>1. /\ IsBorn(w) /\ MakesWorkerUpdate(w) /\ HoldsWorkerLock(w) /\ IsNamed(w)
      /\ BeginsWithoutAudio(w) /\ LosesNothing(w) /\ OutlastsStop(w)
  BY WorkerFacts DEF WorkerKnows, WorkerSpares
<1>2. pc'[w] = pc[w] \/ (pc[w] = "unborn" /\ pc'[w] = "boot")
  BY CallerFacts DEF Guarantee, PlacesStay, CallerKnows, CreatesFirst, Creates
<1>3. frame'[w] = frame[w]
  BY DEF Guarantee, PlacesStay, Actors
<1>4. BeginsWithoutAudio(w)'
  BY <1>1, <1>2 DEF BeginsWithoutAudio
<1>5. LosesNothing(w)'
  BY <1>1, <1>2, <1>3, NothingStays DEF LosesNothing, IsBorn
<1>6. OutlastsStop(w)'
  <2> SUFFICES ASSUME pc[w] = "update", frame[w].fail = "toplevel",
                      frame[w].phase \in UnfailedPhases
               PROVE  OutlastsStop(w)'
    BY <1>2, <1>3 DEF OutlastsStop, Outlasts
  <2>1. frame[w].ok = "exit"
    BY <1>1 DEF MakesWorkerUpdate, WorkerFrame
  <2>2. captureLock[w] = w /\ Current(w) /\ state.pid = w
    BY <1>1, <2>1 DEF HoldsWorkerLock, WorkerOwnsCapture, IsNamed, Records
  <2> QED
    BY <1>1, <1>2, <1>3, <2>2 DEF OutlastsStop, Outlasts
<1> QED
  BY <1>4, <1>5, <1>6 DEF WorkerSpares

\* An abandon without the lock stays one of a revision without audio: nothing was
\* recorded under that revision, and a later one will be refused.
LEMMA StillAbandonsNoAudio ==
    ASSUME RecorderInv, NEW a \in Actors, Guarantee(a), NEW c \in Callers \ {a},
           AbandonsNoAudio(c), NEW s \in used, s = Session(c), s \in Sessions,
           files'[s].checkpoint # files[s].checkpoint => Current(s) /\ state.pid = s
    PROVE  AbandonsNoAudio(c)'
<1>1. /\ AbandonsUnowned(c) /\ c \in Actors \ {a}
      /\ Readable => state.rev \in Nat
  BY CallerFacts DEF CallerKnows, Actors
<1>2. pc'[c] = pc[c] /\ call'[c] = call[c] /\ Session(c)' = s
  BY DEF Guarantee, PlacesStay, Session, View
<1> SUFFICES ASSUME pc[c] = "abandon_write"
             PROVE  \/ captureLock'[s] = c
                    \/ state'.rev = call[c].rev => NothingToLose(s)'
  BY <1>2 DEF AbandonsNoAudio
<1>3. CASE captureLock[s] = c
  BY <1>1, <1>3 DEF Guarantee, LocksStay
<1>4. CASE captureLock[s] # c
  <2> SUFFICES ASSUME state'.rev = call[c].rev, Current(s)'
               PROVE  files'[s].checkpoint = None
    BY DEF NothingToLose
  <2>1. Current(s) /\ (state' = state \/ state'.rev > state.rev)
    BY DEF Guarantee, RecordsGoOn
  <2>2. state.rev \in Nat /\ call[c].rev \in Nat /\ call[c].rev <= state.rev
    BY <1>1, <1>4, <2>1 DEF AbandonsUnowned, Current
  <2>3. state.rev = call[c].rev
    BY <2>1, <2>2
  <2>4. state.pid = None /\ NothingToLose(s)
    BY <1>1, <1>4, <2>1, <2>3 DEF AbandonsUnowned, AbandonsNoAudio
  <2>5. files'[s].checkpoint = files[s].checkpoint
    BY <2>4, SessionAssumption
  <2> QED
    BY <2>1, <2>4, <2>5 DEF NothingToLose
<1> QED
  BY <1>3, <1>4

\* To a command, a worker records no audio and writes no state of a session whose lock
\* the command holds or whose worker it has yet to spawn.
LEMMA CallerStillSpares ==
    ASSUME RecorderInv, NEW c \in Callers, CallerSpares(c), NEW w \in Sessions,
           Guarantee(w), WorkerTouches(w), PhasesGoOn
    PROVE  CallerSpares(c)'
<1>0. PICK s : s = Session(c)
  OBVIOUS
<1>1. /\ HasView(c) /\ MakesOwnUpdate(c) /\ CreatesFirst(c) /\ HoldsItsLock(c)
      /\ used \subseteq Sessions /\ c # w /\ PlacesStay(w)
  BY CallerFacts, SessionAssumption DEF CallerKnows, Guarantee
<1>2. /\ pc'[c] = pc[c] /\ frame'[c] = frame[c] /\ call'[c] = call[c]
      /\ View(c)' = View(c) /\ Session(c)' = s
  BY <1>0, <1>1 DEF PlacesStay, Actors, View, Session
<1>3. pc[c] \notin {"idle", "reserve", "leave"} => s \in used /\ s \in Sessions
  BY <1>0, <1>1 DEF HasView
<1>4. HoldsCapture(c) => captureLock[s] # w
  BY <1>0, <1>1 DEF HoldsItsLock
<1>5. Creates(c) => s # w
  BY <1>0, <1>1 DEF CreatesFirst, PlacesStay
<1>6. ASSUME HoldsCapture(c) \/ Creates(c)
      PROVE  /\ files'[s].checkpoint = files[s].checkpoint
             /\ NothingToLose(s) => NothingToLose(s)'
  <2>1. s \in used /\ s \in Sessions
    BY <1>3, <1>6 DEF HoldsCapture, Creates, Updating
  <2>2. files'[s].checkpoint = files[s].checkpoint
    BY <1>4, <1>5, <1>6, <2>1 DEF WorkerTouches
  <2> QED
    BY <2>1, <2>2, NothingStays
<1>7. ASSUME HoldsCapture(c) PROVE state' = state \/ NothingToLose(s)
  BY <1>4, <1>7 DEF WorkerTouches, NothingToLose, Current
<1>8. PastCapture(c)'
  BY <1>0, <1>2, <1>3, PastStays DEF CallerSpares, PastCapture, Updating
<1>9. PastWaiting(c)'
  BY <1>0, <1>2, <1>3, PastStays
     DEF CallerSpares, PastWaiting, NeedsTranscript, Completes, Updating
<1>10. KeepsManifest(c)'
  <2> SUFFICES ASSUME NeedsManifest(c)
               PROVE  files'[s].manifest = files[s].manifest
    BY <1>0, <1>2 DEF CallerSpares, KeepsManifest, NeedsManifest, Completes, Updating
  <2>1. Past(s, CapturePhases)
    BY <1>0 DEF CallerSpares, PastCapture, PastWaiting, NeedsManifest, NeedsTranscript, Completes,
           Updating, Past, UnprocessedPhases
  <2>2. s \in Sessions
    BY <1>0, <1>3 DEF NeedsManifest, Completes, Updating
  <2> QED
    BY <2>1, <2>2 DEF WorkerTouches, Past, Capturing
<1>11. RecoversUnprocessed(c)'
  BY <1>0, <1>2, <1>3 DEF CallerSpares, RecoversUnprocessed, Unprocessed, WorkerTouches
<1>12. FailsWithoutAudio(c)'
  <2> SUFFICES ASSUME pc[c] = "recover_failed" \/ (pc[c] = "update" /\ frame[c].phase = "failed"),
                      NothingToLose(s)
               PROVE  NothingToLose(s)'
    BY <1>0, <1>2 DEF CallerSpares, FailsWithoutAudio
  <2>1. HoldsCapture(c) \/ Creates(c)
    BY <1>1 DEF MakesOwnUpdate, CallerFrame, HoldsCapture, Creates, Updating
  <2> QED
    BY <1>0, <1>6, <2>1 DEF CallerSpares, FailsWithoutAudio
<1>13. RecoversWhatItRead(c)'
  <2> SUFFICES ASSUME pc[c] = "recover_files"
               PROVE  NothingToLose(s)' \/ IsAsRead(state', View(c))
    BY <1>0, <1>2 DEF RecoversWhatItRead
  <2>1. HoldsCapture(c)
    BY DEF HoldsCapture
  <2> QED
    BY <1>0, <1>6, <1>7, <2>1 DEF CallerSpares, RecoversWhatItRead
<1>14. RecoveryFits(c)'
  <2> SUFFICES ASSUME pc[c] = "update", frame[c].fail = "recover_failed"
               PROVE  \/ NothingToLose(s)'
                      \/ /\ TransitionAllowed(state'.phase, frame[c].phase)
                         /\ Outlasts(frame[c])'
    BY <1>0, <1>2 DEF RecoveryFits
  <2>1. HoldsCapture(c)
    BY <1>1 DEF MakesOwnUpdate, CallerFrame, HoldsCapture, Updating
  <2> QED
    BY <1>0, <1>2, <1>6, <1>7, <2>1 DEF CallerSpares, RecoveryFits, Outlasts
<1>15. AbandonsNoAudio(c)'
  <2> SUFFICES ASSUME pc[c] = "abandon_write" PROVE AbandonsNoAudio(c)'
    BY <1>2 DEF AbandonsNoAudio
  <2>1. w \in Actors /\ c \in Callers \ {w} /\ s \in used /\ s \in Sessions
    BY <1>1, <1>3 DEF Actors
  <2>2. files'[s].checkpoint # files[s].checkpoint => Current(s) /\ state.pid = s
    BY <2>1 DEF WorkerTouches
  <2> QED
    BY <1>0, <2>1, <2>2, StillAbandonsNoAudio DEF CallerSpares
<1> QED
  BY <1>8, <1>9, <1>10, <1>11, <1>12, <1>13, <1>14, <1>15 DEF CallerSpares

-----------------------------------------------------------------------------
(* The steps of a command.                                                 *)

\* Most steps of a command change neither the state nor an artifact.
LEMMA CallerQuietCases ==
    ASSUME RecorderInv, NEW c \in Callers, Command(c) \/ CallerStep(c) \/ CallerDies(c)
    PROVE  \/ Quiet
           \/ ArtifactStep(c) \/ RecoverFiles(c)
           \/ (\E s \in Sessions : StartReserve(c, s))
           \/ RequestStopState(c) \/ AbandonWrite(c)
           \/ pc[c] = "update" /\ UpdateCommit(c)
<1>1. CASE \/ BeginStep(c) \/ StartStep(c) \/ StartSpawn(c) \/ StopStep(c) \/ ProcessStep(c)
           \/ AbandonStep(c) \/ RecoveryStep(c) \/ RecoverFailed(c)
  BY <1>1, BeginKeeps, StartKeeps, SpawnKeeps, StopKeeps, ProcessKeeps, AbandonKeeps,
     RecoveryKeeps, RecoverFailedKeeps
<1>2. CASE CallerUpdate(c)
  BY <1>2 DEF CallerUpdate, Update, UpdateRead, UpdateCommit, UpdateConflict, Quiet
<1> QED
  BY <1>1, <1>2, CallerStepCases

\* A command records no audio, and of a session whose recorder is at work it writes
\* nothing but a stop request.
LEMMA CallerTouchesLittle ==
    ASSUME RecorderInv, NEW c \in Callers, Command(c) \/ CallerStep(c) \/ CallerDies(c)
    PROVE  CallerTouches(c)
<1>1. files \in [Sessions -> Artifacts] /\ StateKeeps(c)
  BY CallerFacts, CallerStepKeeps DEF CallerKnows
<1>2. \A s \in Sessions : files'[s].checkpoint = files[s].checkpoint
  <2>1. CASE ArtifactStep(c)
    BY <1>1, <2>1 DEF ArtifactStep, StartCreate, RequestStopFile, Transcribe, Analyze,
                      Report, Produce, SetFile, Artifacts
  <2>2. CASE RecoverFiles(c)
    BY <1>1, <2>2 DEF RecoverFiles, SetFile, Artifacts
  <2> QED
    BY <2>1, <2>2, CallerQuietCases DEF Quiet, StartReserve, RequestStopState, AbandonWrite,
                                        UpdateCommit
<1>3. ASSUME NEW w \in Sessions, captureLock[w] = w, Current(w), state.pid = w
      PROVE  state' = state \/ (state.stopAt = None /\ state'.stopAt # None)
  <2>1. Current(w)' /\ state'.pid = w /\ w # None
    BY <1>1, <1>3, SessionAssumption DEF StateKeeps, OwnersStay
  <2>2. CASE Quiet \/ ArtifactStep(c) \/ RecoverFiles(c)
    BY <2>2 DEF Quiet, ArtifactStep, StartCreate, RequestStopFile, Transcribe, Analyze,
                Report, RecoverFiles, keepState
  <2>3. CASE \E s \in Sessions : StartReserve(c, s)
    BY <2>1, <2>3 DEF StartReserve, Reserve, Fresh, keepState
  <2>4. CASE RequestStopState(c)
    <3>1. CASE keepState
      BY <3>1 DEF keepState
    <3>2. CASE RequestStop(Session(c), Now)
      <4>1. AfterStopRequest(state, Now) # state
        BY <3>2 DEF RequestStop
      <4>2. state \in Record /\ state.rev < MaxRevision
        BY <1>3, <3>2, RecordFacts DEF Current, RequestStop, Write
      <4>3. state.stopAt = None /\ AfterStopRequest(state, Now).stopAt = Now
        BY <4>1, <4>2 DEF AfterStopRequest, Record
      <4>4. state'.stopAt = AfterStopRequest(state, Now).stopAt
        BY <3>2, <4>2, StopIsHonest, WriteFacts DEF Updates
      <4> QED
        BY <4>2, <4>3, <4>4, NowIsTime
    <3> QED
      BY <2>4, <3>1, <3>2 DEF RequestStopState
  <2>5. CASE AbandonWrite(c)
    <3>1. CASE keepState
      BY <3>1 DEF keepState
    <3>2. CASE Abandon(Session(c), call[c].rev)
      <4>1. \E r : Updates(r, FALSE) /\ r.pid = None
        BY <3>2, AbandonIsHonest
      <4> QED
        BY <2>1, <4>1, WriteFacts DEF Updates
    <3> QED
      BY <2>5, <3>1, <3>2 DEF AbandonWrite
  <2>6. CASE pc[c] = "update" /\ UpdateCommit(c)
    <3> DEFINE r == Changed(state, frame[c])
    <3>1. CallerFrame(frame[c])
      BY <2>6, CallerFacts DEF CallerKnows, MakesOwnUpdate
    <3>2. /\ Updates(r, FALSE)
          /\ r.phase = frame[c].phase /\ r.phase \notin CapturePhases
          /\ r.pid = None
      BY <2>6, <3>1, CommitFacts, SessionAssumption
         DEF Actors, CallerFrame, CapturePhases, Phases, TerminalPhases, ProcessingPhases,
             AwaitingPhases
    <3> HIDE DEF r
    <3> QED
      BY <2>1, <3>2, WriteFacts DEF Updates
  <2> QED
    BY <2>2, <2>3, <2>4, <2>5, <2>6, CallerQuietCases
<1> QED
  BY <1>2, <1>3 DEF CallerTouches

\* The error that an update records.
LEMMA CommitErr ==
    ASSUME RecorderInv, NEW c \in Callers, UpdateCommit(c),
           frame[c].err = "capture_recovery_failed"
    PROVE  state'.err = "capture_recovery_failed"
<1>1. "capture_recovery_failed" # Keep
  BY SessionAssumption DEF WrittenCodes
<1>2. Current(frame[c].session) /\ Write(Changed(state, frame[c]))
  BY DEF UpdateCommit, CompareAndSet, Accepts
<1>3. state \in Record
  BY <1>2, RecordFacts DEF Current
<1> QED
  BY <1>1, <1>2, <1>3 DEF Changed, Write, Record

\* A command's write loses no audio.
LEMMA CallerWritesWell ==
    ASSUME RecorderInv, NEW c \in Callers, CallerSpares(c),
           Command(c) \/ CallerStep(c) \/ CallerDies(c), state' # state, Readable'
    PROVE  \/ state'.phase \notin LostPhases
           \/ state'.phase = "failed" /\ state'.err = "abandoned_by_user"
           \/ StorageFails /\ state'.phase = "failed" /\ state'.err = "capture_recovery_failed"
           \/ state'.phase = "failed" /\ files[state'.session].checkpoint = None
<1>1. CASE Quiet \/ ArtifactStep(c) \/ RecoverFiles(c)
  BY <1>1 DEF Quiet, ArtifactStep, StartCreate, RequestStopFile, Transcribe, Analyze,
              Report, RecoverFiles, keepState
<1>2. CASE \E s \in Sessions : StartReserve(c, s)
  BY <1>2 DEF StartReserve, Reserve, Fresh, keepState, LostPhases
<1>3. CASE RequestStopState(c)
  <2>1. RequestStop(Session(c), Now)
    BY <1>3 DEF RequestStopState, keepState
  <2>2. state \in Record /\ AfterStopRequest(state, Now) # state
    BY <2>1, RecordFacts DEF RequestStop, Current
  <2>3. AfterStopRequest(state, Now).phase \in CapturePhases
    BY <2>2 DEF AfterStopRequest, Record, CapturePhases
  <2>4. state'.phase = AfterStopRequest(state, Now).phase
    BY <2>1, StopIsHonest, WriteFacts DEF Updates
  <2> QED
    BY <2>3, <2>4 DEF CapturePhases, LostPhases
<1>4. CASE AbandonWrite(c)
  <2>1. Abandon(Session(c), call[c].rev)
    BY <1>4 DEF AbandonWrite, keepState
  <2>2. state \in Record
    BY <2>1, RecordFacts DEF Abandon, CanAbandon, Current
  <2> QED
    BY <2>1, <2>2 DEF Abandon, Write, Record
<1>5. CASE pc[c] = "update" /\ UpdateCommit(c)
  <2> DEFINE r == Changed(state, frame[c])
  <2>1. CallerFrame(frame[c]) /\ frame[c].session = Session(c)
    BY <1>5, CallerFacts DEF CallerKnows, MakesOwnUpdate
  <2>2. Updates(r, FALSE) /\ r.phase = frame[c].phase /\ Current(Session(c))
    BY <1>5, <2>1, CommitFacts, SessionAssumption
       DEF Actors, CallerFrame, Phases, TerminalPhases, ProcessingPhases, AwaitingPhases
  <2> HIDE DEF r
  <2>3. state'.phase = frame[c].phase /\ state'.session = Session(c)
    BY <2>2, WriteFacts DEF Updates, ValidUpdate, Current
  <2>4. frame[c].phase = "failed" =>
           \/ files[Session(c)].checkpoint = None
           \/ StorageFails /\ frame[c].err = "capture_recovery_failed"
    BY <1>5, <2>2 DEF CallerSpares, FailsWithoutAudio, NothingToLose
  <2>5. frame[c].err = "capture_recovery_failed" => state'.err = "capture_recovery_failed"
    BY <1>5, <2>1, CommitErr
  <2> QED
    BY <2>1, <2>3, <2>4, <2>5 DEF CallerFrame, LostPhases
<1> QED
  BY <1>1, <1>2, <1>3, <1>4, <1>5, CallerQuietCases

\* A command's step writes off no audio and makes the artifacts of no other manifest.
LEMMA CallerSparesState ==
    ASSUME RecorderInv, StateSpares, NEW c \in Callers, CallerSpares(c),
           Command(c) \/ CallerStep(c) \/ CallerDies(c)
    PROVE  StateSpares' /\ PhasesGoOn
<1>1. CallerTouches(c) /\ StateKeeps(c)
  BY CallerTouchesLittle, CallerStepKeeps
<1>2. PhasesGoOn
  BY <1>1, CallerStoreStep, StepsGoOn DEF StateKeeps
<1>3. /\ files \in [Sessions -> Artifacts] /\ HasView(c) /\ HasArtifacts(c)
      /\ used \subseteq Sessions
  BY CallerFacts DEF CallerKnows
<1>4. /\ Readable' => state'.session \in Sessions
      /\ Readable => state.session \in Sessions
  BY <1>1, RecordFacts DEF StateKeeps, StoreTypeOK
<1>5. AudioIsNotFailed'
  <2>1. CASE state' = state
    BY <1>1, <1>4, <2>1 DEF StateSpares, AudioIsNotFailed, CallerTouches, Readable
  <2>2. CASE state' # state
    BY <1>1, <1>4, <2>2, CallerWritesWell DEF AudioIsNotFailed, CallerTouches, LostPhases
  <2> QED
    BY <2>1, <2>2
<1>6. CASE UNCHANGED files /\ ~ \E s \in Sessions : StartReserve(c, s)
  <2>1. ASSUME Readable'
        PROVE  /\ Readable /\ state'.session = state.session
               /\ state'.phase \in UnprocessedPhases => state.phase \in UnprocessedPhases
    <3>1. used' = used
      BY <1>6, CallerQuietCases
         DEF Quiet, ArtifactStep, StartCreate, RequestStopFile, Transcribe, Analyze, Report,
             RecoverFiles, keepState, RequestStopState, RequestStop, AbandonWrite, Abandon,
             Write, UpdateCommit, CompareAndSet
    <3>2. state'.session \in used
      BY <1>1, <2>1, <3>1 DEF StateKeeps, StoreTypeOK
    <3> QED
      BY <1>2, <2>1, <3>2 DEF PhasesGoOn, Current
  <2> QED
    BY <1>2, <1>5, <1>6, <2>1 DEF StateSpares, UnprocessedFirst, Unprocessed, ProvenanceHolds
<1>7. CASE \E s \in Sessions : StartReserve(c, s)
  <2>1. CASE keepState
    BY <1>2, <1>5, <1>7, <2>1 DEF StartReserve, keepState, StateSpares, UnprocessedFirst,
                                  Unprocessed, ProvenanceHolds, Readable
  <2>2. ASSUME NEW s \in Sessions, Reserve(s), UNCHANGED files
        PROVE  UnprocessedFirst' /\ ProvenanceHolds'
    <3>1. files'[s] = NoFiles /\ state'.session = s
      BY <2>2 DEF Reserve, Fresh, RecorderInv, Untouched
    <3> QED
      BY <3>1 DEF UnprocessedFirst, Unprocessed, ProvenanceHolds, NoFiles
  <2> QED
    BY <1>2, <1>5, <1>7, <2>1, <2>2 DEF StartReserve, StateSpares
<1>8. CASE ArtifactStep(c) \/ RecoverFiles(c)
  <2>1. UNCHANGED state
    BY <1>8 DEF ArtifactStep, StartCreate, RequestStopFile, Transcribe, Analyze, Report,
                RecoverFiles, keepState
  <2>2. Session(c) \in Sessions
    BY <1>3, <1>8 DEF HasView, ArtifactStep, StartCreate, RequestStopFile, Transcribe,
                      Analyze, Report, RecoverFiles
  <2>3. CASE StartCreate(c) \/ RequestStopFile(c) \/ Report(c)
    <3>1. \A s \in Sessions : /\ files'[s].manifest = files[s].manifest
                             /\ files'[s].transcript = files[s].transcript
                             /\ files'[s].intelligence = files[s].intelligence
      BY <1>3, <2>3 DEF StartCreate, RequestStopFile, Report, SetFile, Artifacts
    <3> QED
      BY <1>2, <1>4, <1>5, <2>1, <3>1
         DEF StateSpares, UnprocessedFirst, Unprocessed, ProvenanceHolds, Readable
  <2>4. CASE Transcribe(c) \/ Analyze(c)
    <3>1. /\ Past(Session(c), UnprocessedPhases)
          /\ files[Session(c)].manifest = call[c].manifest
      BY <2>4 DEF Transcribe, Analyze, CallerSpares, PastWaiting, NeedsTranscript,
                  KeepsManifest, NeedsManifest
    <3>2. \/ UNCHANGED files
          \/ files' = [files EXCEPT ![Session(c)].transcript = call[c].manifest]
          \/ files' = [files EXCEPT ![Session(c)].intelligence = call[c].manifest]
      BY <2>4 DEF Transcribe, Analyze, Produce, SetFile
    <3> QED
      BY <1>2, <1>3, <1>4, <1>5, <2>1, <2>2, <3>1, <3>2
         DEF StateSpares, UnprocessedFirst, Unprocessed, ProvenanceHolds, Readable, Past,
             Current, Artifacts
  <2>5. CASE RecoverFiles(c)
    <3>1. Unprocessed(Session(c))
      BY <2>5 DEF RecoverFiles, CallerSpares, RecoversUnprocessed
    <3>2. UNCHANGED files \/ \E m : files' = [files EXCEPT ![Session(c)].manifest = m]
      BY <2>5 DEF RecoverFiles, SetFile
    <3> QED
      BY <1>2, <1>3, <1>4, <1>5, <2>1, <2>2, <3>1, <3>2
         DEF StateSpares, UnprocessedFirst, Unprocessed, ProvenanceHolds, Readable, Artifacts
  <2> QED
    BY <1>8, <2>3, <2>4, <2>5 DEF ArtifactStep
<1> QED
  BY <1>6, <1>7, <1>8, CallerQuietCases DEF Quiet, RequestStopState, AbandonWrite, UpdateCommit

-----------------------------------------------------------------------------
(* What a command leaves to the other commands.                            *)

\* Somebody asks for a stop, and nothing else.
AsksToStop ==
    /\ state.stopAt = None /\ state'.stopAt # None
    /\ state'.recAt = state.recAt
    /\ {state.phase, state'.phase} \subseteq CapturePhases

\* Of a session with audio whose lock another one holds, a command that does not process
\* it writes nothing but a stop request.
LEMMA OthersOnlyAskToStop ==
    ASSUME RecorderInv, PhasesGoOn, NEW c \in Callers, CallerSpares(c), CallerTouches(c),
           \A w \in Sessions : WorkerSpares(w),
           Command(c) \/ CallerStep(c) \/ CallerDies(c),
           NEW s \in used, s \in Sessions, NEW d \in Callers \ {c}, captureLock[s] = d,
           Processing(c) => Session(c) # s
    PROVE  state' = state \/ AsksToStop \/ NothingToLose(s)'
<1> SUFFICES ASSUME state' # state, Current(s)', files'[s].checkpoint # None
             PROVE  AsksToStop
  BY DEF NothingToLose
<1>1. Current(s) /\ files[s].checkpoint # None
  BY DEF PhasesGoOn, CallerTouches
<1>2. state \in Record /\ CallerKnows(c)
  BY <1>1, RecordFacts, CallerFacts DEF Current
<1>3. CASE Quiet \/ ArtifactStep(c) \/ RecoverFiles(c)
  BY <1>3 DEF Quiet, ArtifactStep, StartCreate, RequestStopFile, Transcribe, Analyze,
              Report, RecoverFiles, keepState
<1>4. ASSUME NEW x \in Sessions, StartReserve(c, x) PROVE FALSE
  BY <1>1, <1>4, StoreInvHolds, ReserveFacts DEF StartReserve, keepState, Current, Fresh
<1>5. CASE RequestStopState(c)
  <2>1. RequestStop(Session(c), Now)
    BY <1>5 DEF RequestStopState, keepState
  <2> DEFINE r == AfterStopRequest(state, Now)
  <2>2. state.stopAt = None /\ state.phase \in CapturePhases
    BY <2>1 DEF RequestStop, AfterStopRequest
  <2>3. r.stopAt = Now /\ r.recAt = state.recAt /\ r.phase \in CapturePhases
    BY <1>2, <2>2 DEF AfterStopRequest, Record, CapturePhases
  <2>4. state'.stopAt = r.stopAt /\ state'.recAt = r.recAt /\ state'.phase = r.phase
    BY <2>1, StopIsHonest, WriteFacts DEF Updates
  <2>5. Now # None
    BY <1>2, <2>1, NowIsTime DEF RequestStop, Write
  <2> HIDE DEF r
  <2> QED
    BY <2>2, <2>3, <2>4, <2>5 DEF AsksToStop
<1>6. CASE AbandonWrite(c)
  <2>1. CanAbandon(Session(c), call[c].rev) /\ pc[c] = "abandon_write"
    BY <1>6 DEF AbandonWrite, keepState
  <2>2. Session(c) = s /\ state.rev = call[c].rev
    BY <1>1, <2>1 DEF CanAbandon, Current
  <2>3. captureLock[Session(c)] = c \/ NothingToLose(Session(c))
    BY <2>1, <2>2 DEF CallerSpares, AbandonsNoAudio
  <2> QED
    BY <1>1, <2>2, <2>3 DEF NothingToLose
<1>7. CASE pc[c] = "update" /\ UpdateCommit(c)
  <2>1. /\ CallerFrame(frame[c]) /\ frame[c].session = Session(c)
        /\ HoldsItsLock(c) /\ CreatesFirst(c)
    BY <1>2, <1>7 DEF CallerKnows, MakesOwnUpdate
  <2>2. Session(c) = s
    BY <1>1, <1>7, <2>1 DEF UpdateCommit, CompareAndSet, Accepts, Current
  <2>3. CASE frame[c].ok = "leave"
    <3>1. pc[s] = "unborn"
      BY <1>7, <2>1, <2>2, <2>3 DEF CreatesFirst, Creates, Updating
    <3> QED
      BY <1>1, <3>1 DEF WorkerSpares, BeginsWithoutAudio
  <2>4. CASE frame[c].ok = "recovered"
    BY <1>7, <2>1, <2>2, <2>4 DEF HoldsItsLock, HoldsCapture, Updating
  <2>5. CASE frame[c].ok \in {"transcribe", "analyze", "processed"}
    BY <1>7, <2>2, <2>5 DEF Processing, Updating
  <2> QED
    BY <2>1, <2>3, <2>4, <2>5 DEF CallerFrame
<1> QED
  BY <1>3, <1>4, <1>5, <1>6, <1>7, CallerQuietCases

\* To a command, the others make no artifact of a session that it recovers, recover none
\* that it processes, and otherwise at most ask for a stop.
LEMMA CallerSparesOthers ==
    ASSUME RecorderInv, RecoversApart, PhasesGoOn, NEW c \in Callers, CallerSpares(c),
           CallerTouches(c), Guarantee(c), \A w \in Sessions : WorkerSpares(w),
           Command(c) \/ CallerStep(c) \/ CallerDies(c),
           NEW d \in Callers \ {c}, CallerSpares(d)
    PROVE  CallerSpares(d)'
<1>0. PICK s : s = Session(d)
  OBVIOUS
<1>1. /\ HasView(d) /\ MakesOwnUpdate(d) /\ HoldsItsLock(d)
      /\ used \subseteq Sessions /\ files \in [Sessions -> Artifacts] /\ c # d
      /\ HasView(c)
  BY CallerFacts DEF CallerKnows
<1>2. /\ pc'[d] = pc[d] /\ frame'[d] = frame[d] /\ call'[d] = call[d]
      /\ View(d)' = View(d) /\ Session(d)' = s
  BY <1>0 DEF Guarantee, PlacesStay, Actors, View, Session
<1>3. pc[d] \notin {"idle", "reserve", "leave"} => s \in used /\ s \in Sessions
  BY <1>0, <1>1 DEF HasView
<1>4. s \in Sessions => files'[s].checkpoint = files[s].checkpoint
  BY DEF CallerTouches
<1>5. s \in used /\ s \in Sessions /\ NothingToLose(s) => NothingToLose(s)'
  BY <1>4, NothingStays
<1>6. ASSUME Recovering(d)
      PROVE  state' = state \/ AsksToStop \/ NothingToLose(s)'
  <2>1. captureLock[s] = d /\ s \in used /\ s \in Sessions
    BY <1>0, <1>1, <1>3, <1>6
       DEF Recovering, HoldsItsLock, HoldsCapture, MakesOwnUpdate, CallerFrame, Updating
  <2>2. Processing(c) => Session(c) # s
    BY <1>0, <1>6 DEF RecoversApart
  <2> QED
    BY <2>1, <2>2, OthersOnlyAskToStop
<1>7. PastCapture(d)'
  BY <1>0, <1>2, <1>3, PastStays DEF CallerSpares, PastCapture, Updating
<1>8. PastWaiting(d)'
  BY <1>0, <1>2, <1>3, PastStays
     DEF CallerSpares, PastWaiting, NeedsTranscript, Completes, Updating
<1>9. KeepsManifest(d)'
  <2> SUFFICES ASSUME NeedsManifest(d)
               PROVE  files'[s].manifest = files[s].manifest
    BY <1>0, <1>2 DEF CallerSpares, KeepsManifest, NeedsManifest, Completes, Updating
  <2>1. s \in Sessions /\ Processing(d)
    BY <1>1, <1>3
       DEF NeedsManifest, Completes, Processing, Updating, MakesOwnUpdate, CallerFrame
  <2>2. CASE RecoverFiles(c)
    <3>1. Recovering(c) /\ Session(c) \in Sessions
      BY <1>1, <2>2 DEF Recovering, RecoverFiles, HasView
    <3>2. Session(c) # s
      BY <1>0, <2>1, <3>1 DEF RecoversApart
    <3>3. UNCHANGED files \/ \E m : files' = [files EXCEPT ![Session(c)].manifest = m]
      BY <2>2 DEF RecoverFiles, SetFile
    <3> QED
      BY <1>1, <2>1, <3>1, <3>2, <3>3
  <2>3. CASE ArtifactStep(c)
    BY <1>1, <2>1, <2>3 DEF ArtifactStep, StartCreate, RequestStopFile, Transcribe, Analyze,
                            Report, Produce, SetFile, Artifacts
  <2> QED
    BY <2>2, <2>3, CallerQuietCases DEF Quiet, StartReserve, RequestStopState, AbandonWrite,
                                        UpdateCommit
<1>10. RecoversUnprocessed(d)'
  <2> SUFFICES ASSUME pc[d] = "recover_files"
               PROVE  /\ files'[s].transcript = files[s].transcript
                      /\ files'[s].intelligence = files[s].intelligence
    BY <1>0, <1>2 DEF CallerSpares, RecoversUnprocessed, Unprocessed
  <2>1. s \in Sessions
    BY <1>3
  <2>2. CASE Transcribe(c) \/ Analyze(c)
    <3>1. Processing(c) /\ Session(c) \in Sessions
      BY <1>1, <2>2 DEF Processing, Transcribe, Analyze, HasView
    <3>2. Session(c) # s
      BY <1>0, <3>1 DEF RecoversApart, Recovering
    <3>3. \/ UNCHANGED files
          \/ \E m : files' = [files EXCEPT ![Session(c)].transcript = m]
          \/ \E m : files' = [files EXCEPT ![Session(c)].intelligence = m]
      BY <2>2 DEF Transcribe, Analyze, Produce, SetFile
    <3> QED
      BY <1>1, <2>1, <3>1, <3>2, <3>3
  <2>3. CASE StartCreate(c) \/ RequestStopFile(c) \/ Report(c) \/ RecoverFiles(c)
    BY <1>1, <2>1, <2>3 DEF StartCreate, RequestStopFile, Report, RecoverFiles, SetFile,
                            Artifacts
  <2> QED
    BY <2>2, <2>3, CallerQuietCases DEF ArtifactStep, Quiet, StartReserve, RequestStopState,
                                        AbandonWrite, UpdateCommit
<1>11. FailsWithoutAudio(d)'
  BY <1>0, <1>2, <1>3, <1>5 DEF CallerSpares, FailsWithoutAudio
<1>12. RecoversWhatItRead(d)'
  <2> SUFFICES ASSUME pc[d] = "recover_files"
               PROVE  NothingToLose(s)' \/ IsAsRead(state', View(d))
    BY <1>0, <1>2 DEF RecoversWhatItRead
  <2>1. NothingToLose(s)' \/ IsAsRead(state, View(d))
    BY <1>0, <1>3, <1>5 DEF CallerSpares, RecoversWhatItRead
  <2>2. state' = state \/ AsksToStop \/ NothingToLose(s)'
    BY <1>6 DEF Recovering
  <2> QED
    BY <2>1, <2>2 DEF IsAsRead, AsksToStop
<1>13. RecoveryFits(d)'
  <2> SUFFICES ASSUME pc[d] = "update", frame[d].fail = "recover_failed"
               PROVE  \/ NothingToLose(s)'
                      \/ /\ TransitionAllowed(state'.phase, frame[d].phase)
                         /\ Outlasts(frame[d])'
    BY <1>0, <1>2 DEF RecoveryFits
  <2>1. \/ NothingToLose(s)'
        \/ TransitionAllowed(state.phase, frame[d].phase) /\ Outlasts(frame[d])
    BY <1>0, <1>3, <1>5 DEF CallerSpares, RecoveryFits
  <2>2. state' = state \/ AsksToStop \/ NothingToLose(s)'
    BY <1>6 DEF Recovering
  <2>3. frame[d].phase \in {"failed", "interrupted", "disconnected"}
    BY <1>1 DEF MakesOwnUpdate, CallerFrame
  <2>4. AsksToStop => TransitionAllowed(state'.phase, frame[d].phase)
    BY <2>3 DEF AsksToStop, TransitionAllowed, Allowed, CapturePhases, CaptureFailures
  <2>5. Outlasts(frame[d]) /\ (state' = state \/ AsksToStop) => Outlasts(frame[d])'
    BY <1>2 DEF Outlasts, AsksToStop
  <2> QED
    BY <2>1, <2>2, <2>4, <2>5
<1>14. AbandonsNoAudio(d)'
  <2> SUFFICES ASSUME pc[d] = "abandon_write" PROVE AbandonsNoAudio(d)'
    BY <1>2 DEF AbandonsNoAudio
  <2>1. c \in Actors /\ s \in used /\ s \in Sessions
    BY <1>3 DEF Actors
  <2> QED
    BY <1>0, <1>4, <2>1, StillAbandonsNoAudio DEF CallerSpares
<1> QED
  BY <1>7, <1>8, <1>9, <1>10, <1>11, <1>12, <1>13, <1>14 DEF CallerSpares

-----------------------------------------------------------------------------
(* A command keeps its own part, step by step.                             *)

\* A command elsewhere counts on nothing of this.
LEMMA SparesElsewhere ==
    ASSUME NEW c \in Callers,
           pc'[c] \notin {"settled", "process_lock", "process_read", "load", "recovered",
                          "transcribe", "analyze", "report", "recover_files",
                          "recover_failed", "abandon_write", "update"}
    PROVE  CallerSpares(c)'
  BY DEF CallerSpares, PastCapture, PastWaiting, KeepsManifest, RecoversUnprocessed,
         FailsWithoutAudio, RecoversWhatItRead, RecoveryFits,
         AbandonsNoAudio, NeedsTranscript, NeedsManifest,
         Completes, Updating

\* What a command counts on that goes on to process.
LEMMA SparesAfterCapture ==
    ASSUME NEW c \in Callers,
           pc'[c] \in {"settled", "process_lock", "process_read", "load", "recovered"},
           Past(Session(c), CapturePhases)'
    PROVE  CallerSpares(c)'
  BY DEF CallerSpares, PastCapture, PastWaiting, KeepsManifest, RecoversUnprocessed,
         FailsWithoutAudio, RecoversWhatItRead, RecoveryFits, AbandonsNoAudio,
         NeedsTranscript, NeedsManifest, Completes, Updating

\* What a command counts on that makes an artifact.
LEMMA SparesMaking ==
    ASSUME NEW c \in Callers, pc'[c] \in {"transcribe", "analyze", "report"},
           Past(Session(c), UnprocessedPhases)',
           (files[Session(c)].manifest = call[c].manifest)'
    PROVE  CallerSpares(c)'
  BY DEF CallerSpares, PastCapture, PastWaiting, KeepsManifest, RecoversUnprocessed,
         FailsWithoutAudio, RecoversWhatItRead, RecoveryFits, AbandonsNoAudio,
         NeedsTranscript, NeedsManifest, Completes, Updating

\* What a command counts on that fails a recovery.
LEMMA SparesFailing ==
    ASSUME NEW c \in Callers, pc'[c] = "recover_failed",
           StorageFails \/ NothingToLose(Session(c))'
    PROVE  CallerSpares(c)'
  BY DEF CallerSpares, PastCapture, PastWaiting, KeepsManifest, RecoversUnprocessed,
         FailsWithoutAudio, RecoversWhatItRead, RecoveryFits, AbandonsNoAudio,
         NeedsTranscript, NeedsManifest, Completes, Updating

\* What a command that makes an update counts on.
LEMMA SparesUpdating ==
    ASSUME NEW c \in Callers, pc'[c] = "update",
           frame'[c].ok = "transcribe" => Past(Session(c), CapturePhases)',
           frame'[c].ok = "analyze" \/ frame'[c].phase = "completed" =>
               Past(Session(c), UnprocessedPhases)',
           frame'[c].ok \in {"transcribe", "analyze"} \/ frame'[c].phase = "completed" =>
               (files[Session(c)].manifest = call[c].manifest)',
           frame'[c].phase = "failed" =>
               \/ NothingToLose(Session(c))'
               \/ StorageFails /\ frame'[c].err = "capture_recovery_failed",
           RecoveryFits(c)'
    PROVE  CallerSpares(c)'
  BY DEF CallerSpares, PastCapture, PastWaiting, KeepsManifest, RecoversUnprocessed,
         FailsWithoutAudio, RecoversWhatItRead, AbandonsNoAudio,
         NeedsTranscript, NeedsManifest, Completes, Updating

\* What a command counts on that abandons a session.
LEMMA SparesAbandoning ==
    ASSUME NEW c \in Callers, pc'[c] = "abandon_write", AbandonsNoAudio(c)'
    PROVE  CallerSpares(c)'
  BY DEF CallerSpares, PastCapture, PastWaiting, KeepsManifest, RecoversUnprocessed,
         FailsWithoutAudio, RecoversWhatItRead, RecoveryFits,
         NeedsTranscript, NeedsManifest, Completes, Updating

\* What an update that is called remembers.
LEMMA CalledUpdate ==
    ASSUME MemoryTypeOK, NEW c \in Callers, NEW s, NEW phase, NEW err, NEW ok, NEW fail,
           CallUpdate(c, s, phase, err, ok, fail)
    PROVE  /\ pc'[c] = "update" /\ frame'[c].session = s /\ frame'[c].phase = phase
           /\ frame'[c].ok = ok /\ frame'[c].fail = fail /\ frame'[c].seen = None
           /\ frame'[c].left = Attempts /\ frame'[c].err = err
  BY DEF MemoryTypeOK, Actors, CallUpdate, CallUpdateIn, Goto

\* What a session has left it has left while the state stays.
LEMMA PastKept ==
    ASSUME UNCHANGED state, NEW s, Past(s, CapturePhases)
    PROVE  Past(s, CapturePhases)'
  BY DEF Past, Current, Readable

\* A command that waits, abandons or ends has nothing to count on.
LEMMA WaitingSpares ==
    ASSUME RecorderInv, NEW c \in Callers,
           \/ StartStep(c) \/ AbandonStep(c) \/ RequestStopFile(c)
           \/ RequestStopState(c) \/ AbandonWrite(c)
           \/ \E s \in Sessions : StartReserve(c, s)
    PROVE  CallerSpares(c)'
<1>1. pc \in [Actors -> Labels]
  BY CallerFacts DEF CallerKnows, MemoryTypeOK
<1>2. call \in [Callers -> Calls]
  BY CallerFacts DEF CallerKnows, MemoryTypeOK
<1> USE DEF Actors, Goto, Look, LookToAbandon, Done, Return, CallRecovery
<1>3. CASE StartStep(c)
  BY <1>1, <1>3, SparesElsewhere
     DEF StartStep, StartProbe, DeadlineProbe, HandshakeRead, HandshakeProbe,
         HandshakeDeadline, StartInterrupted
<1>4. CASE AbandonStep(c)
  <2>1. CASE pc'[c] = "abandon_write"
    <3>1. AbandonRead(c) /\ Current(Session(c)) /\ LookToAbandon(c)
      BY <1>1, <1>4, <2>1
         DEF AbandonStep, AbandonCapture, AbandonProcess, AbandonRead, Leave, CallerDies
    <3>2. PICK s : s = Session(c)
      OBVIOUS
    <3>3. captureLock[s] = c /\ captureLock' = captureLock /\ s = state.session
      BY <3>1, <3>2, CallerFacts
         DEF CallerKnows, HoldsItsLock, HoldsCapture, AbandonRead, keepLocks, Current
    <3>4. Session(c)' = s
      BY <1>2, <3>1, <3>3 DEF LookToAbandon, Session, View, Seen
    <3> QED
      BY <2>1, <3>3, <3>4, SparesAbandoning DEF AbandonsNoAudio
  <2>2. CASE pc'[c] # "abandon_write"
    BY <1>1, <1>4, <2>2, SparesElsewhere
       DEF AbandonStep, AbandonCapture, AbandonProcess, AbandonRead, Leave, CallerDies
  <2> QED
    BY <2>1, <2>2
<1>5. CASE RequestStopFile(c) \/ RequestStopState(c)
  BY <1>1, <1>5, SparesElsewhere DEF RequestStopFile, RequestStopState
<1>6. CASE AbandonWrite(c) \/ \E s \in Sessions : StartReserve(c, s)
  BY <1>1, <1>6, SparesElsewhere DEF AbandonWrite, StartReserve
<1> QED
  BY <1>3, <1>4, <1>5, <1>6

\* A stop goes straight on to process only what is not captured.
LEMMA BeginSpares ==
    ASSUME RecorderInv, NEW c \in Callers, BeginStep(c),
           \A w \in Sessions : WorkerSpares(w)
    PROVE  CallerSpares(c)'
<1>1. pc \in [Actors -> Labels] /\ call \in [Callers -> Calls]
  BY CallerFacts DEF CallerKnows, MemoryTypeOK
<1> USE DEF Actors, Goto, Look, LookToAbandon, Done
<1>2. CASE StartBegin(c) \/ Exhausted(c)
  BY <1>1, <1>2, SparesElsewhere DEF StartBegin, Exhausted
<1>3. CASE StopBegin(c)
  <2>1. CASE Capturing
    BY <1>1, <1>3, <2>1, SparesElsewhere DEF StopBegin
  <2>2. CASE ~Capturing
    <3>1. pc'[c] = "settled" /\ UNCHANGED state
      BY <1>1, <1>3, <2>2 DEF StopBegin, keepState
    <3>2. Past(Session(c), CapturePhases)'
      BY <2>2, <3>1 DEF Past, Capturing, Current, Readable
    <3> QED
      BY <3>1, <3>2, SparesAfterCapture
  <2> QED
    BY <2>1, <2>2
<1>4. CASE AbandonBegin(c)
  <2>1. CASE files[state.session].dir
    BY <1>1, <1>4, <2>1, SparesElsewhere DEF AbandonBegin
  <2>2. CASE ~files[state.session].dir
    <3>1. PICK s : s = state.session
      OBVIOUS
    <3>2. s \in Sessions /\ pc[s] = "unborn"
      BY <1>4, <2>2, <3>1, CallerFacts DEF CallerKnows, AbandonBegin
    <3>3. /\ LookToAbandon(c) /\ UNCHANGED <<state, files>>
          /\ pc'[c] = "abandon_write"
      BY <1>1, <1>4, <2>2 DEF AbandonBegin, keepState
    <3>4. Session(c)' = s
      BY <1>1, <3>1, <3>3 DEF Session, View, Seen
    <3>5. NothingToLose(s)'
      BY <3>2, <3>3 DEF WorkerSpares, BeginsWithoutAudio, NothingToLose
    <3> QED
      BY <3>3, <3>4, <3>5, SparesAbandoning DEF AbandonsNoAudio
  <2> QED
    BY <2>1, <2>2
<1> QED
  BY <1>2, <1>3, <1>4 DEF BeginStep

\* A start fails its session only before the worker is spawned.
LEMMA CreateSpares ==
    ASSUME RecorderInv, NEW c \in Callers, StartCreate(c) \/ StartSpawn(c),
           \A w \in Sessions : WorkerSpares(w)
    PROVE  CallerSpares(c)'
<1>1. /\ MemoryTypeOK /\ pc \in [Actors -> Labels]
      /\ Session(c) \in Sessions /\ pc[Session(c)] = "unborn"
      /\ Session(c) # c
  BY CallerFacts, SessionAssumption
     DEF CallerKnows, MemoryTypeOK, HasView, CreatesFirst, Creates, StartCreate, StartSpawn
<1>2. CASE CallUpdate(c, Session(c), "failed", "setup_failed", "leave", "leave") /\ UNCHANGED files
  <2>1. /\ pc'[c] = "update" /\ frame'[c].phase = "failed"
        /\ frame'[c].ok = "leave" /\ frame'[c].fail = "leave"
    BY <1>1, <1>2, CalledUpdate
  <2>2. files[Session(c)].checkpoint = None
    BY <1>1 DEF WorkerSpares, BeginsWithoutAudio
  <2>3. NothingToLose(Session(c))'
    BY <1>2, <2>2 DEF NothingToLose, StartCreate, StartSpawn, Session, View
  <2> QED
    BY <2>1, <2>3, SparesUpdating DEF RecoveryFits
<1>3. CASE Goto(c, "spawn") \/ pc' = [pc EXCEPT ![c] = "handshake", ![Session(c)] = "boot"]
  BY <1>1, <1>3, SparesElsewhere DEF Goto, Actors
<1> QED
  BY <1>2, <1>3 DEF StartCreate, StartSpawn

\* A stop goes on to process only what is no longer captured.
LEMMA StopSpares ==
    ASSUME RecorderInv, NEW c \in Callers, CallerSpares(c), StopStep(c)
    PROVE  CallerSpares(c)'
<1>1. pc \in [Actors -> Labels] /\ call \in [Callers -> Calls]
  BY CallerFacts DEF CallerKnows, MemoryTypeOK
<1> USE DEF Actors, Goto, Look, Done, CallRecovery
<1>2. PICK s : s = Session(c)
  OBVIOUS
<1>3. CASE pc'[c] \in {"idle", "wait", "wait_probe", "recover_lock"}
  BY <1>3, SparesElsewhere
<1>4. CASE pc'[c] \in {"settled", "process_lock"}
  <2>1. UNCHANGED state
    BY DEF StopStep, WaitRead, WaitProbe, WaitDeadline, StopSettled, keepState
  <2>2. Past(Session(c), CapturePhases)'
    <3>1. CASE WaitRead(c)
      <4>1. ~Capturing
        BY <1>1, <1>4, <3>1 DEF WaitRead
      <4> QED
        BY <2>1, <4>1 DEF Past, Capturing, Current, Readable
    <3>2. CASE WaitProbe(c) \/ WaitDeadline(c)
      BY <1>1, <1>4, <3>2 DEF WaitProbe, WaitDeadline
    <3>3. CASE StopSettled(c)
      <4>1. pc[c] = "settled" /\ Session(c)' = s
        BY <1>1, <1>2, <1>4, <3>3 DEF StopSettled, Session, View
      <4>2. Past(s, CapturePhases)
        BY <1>2, <4>1 DEF CallerSpares, PastCapture
      <4> QED
        BY <2>1, <4>1, <4>2, PastKept DEF Past
    <3> QED
      BY <3>1, <3>2, <3>3 DEF StopStep
  <2> QED
    BY <1>4, <2>2, SparesAfterCapture
<1>5. pc'[c] \in {"idle", "wait", "wait_probe", "recover_lock", "settled", "process_lock"}
  BY <1>1 DEF StopStep, WaitRead, WaitProbe, WaitDeadline, StopSettled
<1> QED
  BY <1>3, <1>4, <1>5

\* Processing starts from a session that is past its capture, and from the manifest
\* on disk.
LEMMA ProcessSpares ==
    ASSUME RecorderInv, NEW c \in Callers, CallerSpares(c), ProcessStep(c)
    PROVE  CallerSpares(c)'
<1>1. /\ MemoryTypeOK /\ pc \in [Actors -> Labels] /\ call \in [Callers -> Calls]
      /\ HasView(c)
  BY CallerFacts DEF CallerKnows, MemoryTypeOK
<1> USE DEF Actors, Goto, Look, Done
<1>2. PICK s : s = Session(c)
  OBVIOUS
<1>3. UNCHANGED <<state, files>>
  BY DEF ProcessStep, ProcessLock, ProcessRead, Load, ProcessFailed, Processed, keepState
<1>4. ASSUME pc[c] \in {"process_lock", "process_read", "load"}
      PROVE  Past(s, CapturePhases)'
  BY <1>2, <1>3, <1>4, PastKept DEF CallerSpares, PastCapture
<1>5. ASSUME pc'[c] \in {"process_read", "load"}, Past(s, CapturePhases)', Session(c)' = s
      PROVE  CallerSpares(c)'
  BY <1>5, SparesAfterCapture
<1>6. CASE ProcessLock(c)
  <2>1. CASE pc'[c] = "process_read" /\ UNCHANGED call
    <3>1. Session(c)' = s /\ pc[c] = "process_lock"
      BY <1>2, <1>6, <2>1 DEF ProcessLock, Session, View
    <3> QED
      BY <1>4, <1>5, <2>1, <3>1
  <2>2. CASE pc'[c] = "idle"
    BY <2>2, SparesElsewhere
  <2> QED
    BY <1>1, <1>6, <2>1, <2>2 DEF ProcessLock
<1>7. CASE ProcessRead(c)
  <2>1. CASE /\ pc'[c] = "load" /\ Current(s)
             /\ call' = [call EXCEPT ![c].view = Seen(state)]
    <3>1. Session(c)' = s /\ pc[c] = "process_read"
      BY <1>1, <1>7, <2>1 DEF ProcessRead, Session, View, Seen, Current
    <3> QED
      BY <1>4, <1>5, <2>1, <3>1
  <2>2. CASE pc'[c] = "processed"
    BY <2>2, SparesElsewhere
  <2> QED
    BY <1>1, <1>2, <1>7, <2>1, <2>2 DEF ProcessRead
<1>8. CASE Load(c)
  <2> DEFINE m == files[s].manifest
  <2>1. CASE /\ call' = [call EXCEPT ![c].manifest = m]
             /\ CallUpdate(c, s, "transcribing", None, "transcribe", "process_failed")
    <3>1. Session(c)' = s /\ call'[c].manifest = m
      BY <1>1, <1>2, <2>1 DEF Session, View, Calls
    <3>2. /\ pc'[c] = "update" /\ frame'[c].phase = "transcribing"
          /\ frame'[c].ok = "transcribe" /\ frame'[c].fail = "process_failed"
      BY <1>1, <2>1, CalledUpdate
    <3>3. Past(s, CapturePhases)'
      BY <1>4, <1>8 DEF Load
    <3>4. files'[s].manifest = call'[c].manifest
      BY <1>3, <3>1
    <3> HIDE DEF m
    <3> QED
      BY <3>1, <3>2, <3>3, <3>4, SparesUpdating DEF RecoveryFits
  <2>2. CASE pc'[c] = "process_failed"
    BY <2>2, SparesElsewhere
  <2> QED
    BY <1>1, <1>2, <1>8, <2>1, <2>2 DEF Load, Fingerprint
<1>9. CASE ProcessFailed(c)
  <2>1. /\ pc'[c] = "update" /\ frame'[c].phase = "processing_failed"
        /\ frame'[c].ok = "processed" /\ frame'[c].fail = "processed"
    BY <1>1, <1>9, CalledUpdate DEF ProcessFailed
  <2> QED
    BY <2>1, SparesUpdating DEF RecoveryFits
<1>10. CASE Processed(c)
  BY <1>1, <1>10, SparesElsewhere DEF Processed
<1> QED
  BY <1>6, <1>7, <1>8, <1>9, <1>10 DEF ProcessStep

\* Nothing changes for a command whose update stays what it was.
LEMMA SparesStay ==
    ASSUME NEW c \in Callers, CallerSpares(c), UNCHANGED <<state, files>>,
           pc'[c] = pc[c], call'[c] = call[c],
           frame'[c].ok = frame[c].ok, frame'[c].fail = frame[c].fail,
           frame'[c].phase = frame[c].phase, frame'[c].err = frame[c].err,
           RecoveryFits(c)',
           pc[c] = "abandon_write" /\ captureLock[Session(c)] = c =>
               captureLock'[Session(c)] = c
    PROVE  CallerSpares(c)'
<1>1. PICK s : s = Session(c)
  OBVIOUS
<1>2. Session(c)' = s /\ View(c)' = View(c)
  BY <1>1 DEF Session, View
<1>3. /\ Past(s, CapturePhases)' = Past(s, CapturePhases)
      /\ Past(s, UnprocessedPhases)' = Past(s, UnprocessedPhases)
      /\ NothingToLose(s)' = NothingToLose(s)
      /\ Unprocessed(s)' = Unprocessed(s)
  BY DEF Past, NothingToLose, Unprocessed, Current, Readable
<1>4. PastCapture(c)' /\ PastWaiting(c)' /\ KeepsManifest(c)' /\ RecoversUnprocessed(c)'
  BY <1>1, <1>2, <1>3 DEF CallerSpares, PastCapture, PastWaiting, KeepsManifest,
     RecoversUnprocessed, NeedsTranscript, NeedsManifest, Completes, Updating
<1>5. FailsWithoutAudio(c)' /\ RecoversWhatItRead(c)'
  BY <1>1, <1>2, <1>3 DEF CallerSpares, FailsWithoutAudio, RecoversWhatItRead
<1>6. AbandonsNoAudio(c)'
  BY <1>1, <1>2, <1>3 DEF CallerSpares, AbandonsNoAudio
<1> QED
  BY <1>4, <1>5, <1>6 DEF CallerSpares

\* Artifacts are made one after the other from the same manifest.
LEMMA ArtifactSpares ==
    ASSUME RecorderInv, NEW c \in Callers, CallerSpares(c), ArtifactStep(c),
           \A w \in Sessions : WorkerSpares(w)
    PROVE  CallerSpares(c)'
<1>1. /\ MemoryTypeOK /\ pc \in [Actors -> Labels] /\ files \in [Sessions -> Artifacts]
      /\ HasView(c) /\ used \subseteq Sessions
  BY CallerFacts DEF CallerKnows, MemoryTypeOK
<1>2. PICK s : s = Session(c)
  OBVIOUS
<1>3. CASE StartCreate(c) \/ RequestStopFile(c)
  BY <1>3, CreateSpares, WaitingSpares
<1>4. ASSUME Transcribe(c) \/ Analyze(c) \/ Report(c)
      PROVE  /\ Past(s, UnprocessedPhases)' /\ Session(c)' = s
             /\ files'[s].manifest = call'[c].manifest
             /\ UNCHANGED state
  <2>1. /\ pc[c] \in {"transcribe", "analyze", "report"} /\ UNCHANGED <<state, call>>
        /\ s \in Sessions
    BY <1>1, <1>2, <1>4 DEF Transcribe, Analyze, Report, keepState, HasView
  <2>2. Past(s, UnprocessedPhases) /\ files[s].manifest = call[c].manifest
    BY <1>2, <2>1 DEF CallerSpares, PastWaiting, NeedsTranscript, KeepsManifest, NeedsManifest
  <2>3. files'[s].manifest = files[s].manifest
    BY <1>1, <1>2, <1>4, <2>1 DEF Transcribe, Analyze, Report, Produce, SetFile, Artifacts
  <2>4. Past(s, UnprocessedPhases)'
    BY <2>1, <2>2 DEF Past, Current, Readable
  <2> QED
    BY <1>2, <2>1, <2>2, <2>3, <2>4 DEF Session, View
<1>5. CASE Transcribe(c)
  <2>1. CASE CallUpdate(c, s, "analyzing", Keep, "analyze", "process_failed")
    <3>1. /\ pc'[c] = "update" /\ frame'[c].phase = "analyzing"
          /\ frame'[c].ok = "analyze" /\ frame'[c].fail = "process_failed"
      BY <1>1, <2>1, CalledUpdate
    <3> QED
      BY <1>4, <1>5, <3>1, SparesUpdating DEF RecoveryFits
  <2>2. CASE pc'[c] = "process_failed"
    BY <2>2, SparesElsewhere
  <2> QED
    BY <1>1, <1>2, <1>5, <2>1, <2>2 DEF Transcribe, Produce, Goto, Actors
<1>6. CASE Analyze(c)
  <2>1. CASE pc'[c] = "report"
    BY <1>4, <1>6, <2>1, SparesMaking
  <2>2. CASE pc'[c] = "process_failed"
    BY <2>2, SparesElsewhere
  <2> QED
    BY <1>1, <1>6, <2>1, <2>2 DEF Analyze, Produce, Goto, Actors
<1>7. CASE Report(c)
  <2>1. CASE CallUpdate(c, s, "completed", None, "processed", "process_failed")
    <3>1. /\ pc'[c] = "update" /\ frame'[c].phase = "completed"
          /\ frame'[c].ok = "processed" /\ frame'[c].fail = "process_failed"
      BY <1>1, <2>1, CalledUpdate
    <3> QED
      BY <1>4, <1>7, <3>1, SparesUpdating DEF RecoveryFits
  <2>2. CASE pc'[c] = "process_failed"
    BY <2>2, SparesElsewhere
  <2> QED
    BY <1>1, <1>2, <1>7, <2>1, <2>2 DEF Report, Goto, Actors
<1> QED
  BY <1>3, <1>5, <1>6, <1>7 DEF ArtifactStep

\* What is recorded is what a recovery that reads the current state finds.
LEMMA RecordedStartFacts ==
    ASSUME RecorderInv, NEW s, Current(s), files[s].checkpoint # None
    PROVE  RecordedStart(s) = state.recAt /\ RecordedStart(s) # None
<1>1. /\ files[s].checkpoint = state.recAt
      /\ files[s].manifest # None => files[s].manifest.started = state.recAt
  BY DEF RecorderInv, StateInv, RecordedStarts, Current
<1> QED
  BY <1>1 DEF RecordedStart, HasFile

\* A recovery reads the state under the lock and gives up only without audio.
LEMMA RecoverySpares ==
    ASSUME RecorderInv, UnprocessedFirst, NEW c \in Callers, CallerSpares(c), RecoveryStep(c)
    PROVE  CallerSpares(c)'
<1>1. pc \in [Actors -> Labels] /\ call \in [Callers -> Calls]
  BY CallerFacts DEF CallerKnows, MemoryTypeOK
<1>2. PICK s : s = Session(c)
  OBVIOUS
<1>3. UNCHANGED <<state, files>>
  BY DEF RecoveryStep, RecoverLock, RecoverRead, RecoverGivesUp, Recovered, keepState
<1>4. ASSUME RecoveryConflict(c) PROVE CallerSpares(c)'
  <2>1. pc'[c] \in {"wait", "reserve", "idle"}
    BY <1>1, <1>4 DEF RecoveryConflict, Goto, Done, Actors
  <2> QED
    BY <2>1, SparesElsewhere
<1>5. ASSUME NEW r, r.session = s, RecoveryReturns(c, r), Past(s, CapturePhases)
      PROVE  CallerSpares(c)'
  <2>1. CASE pc'[c] \in {"reserve", "idle"}
    BY <2>1, SparesElsewhere
  <2>2. CASE pc'[c] = "settled" /\ call' = [call EXCEPT ![c].view = r]
    <3>1. Session(c)' = s
      BY <1>1, <1>5, <2>2 DEF Session, View, Calls
    <3>2. Past(s, CapturePhases)'
      BY <1>3, <1>5, PastKept
    <3> QED
      BY <2>2, <3>1, <3>2, SparesAfterCapture
  <2> QED
    BY <1>1, <1>5, <2>1, <2>2 DEF RecoveryReturns, Goto, Done, Actors
<1>6. CASE RecoverLock(c)
  <2>1. pc'[c] \in {"recover_read", "idle"} \/ RecoveryConflict(c)
    BY <1>1, <1>6 DEF RecoverLock, Goto, Done, Actors
  <2> QED
    BY <1>4, <2>1, SparesElsewhere
<1>7. CASE RecoverRead(c)
  <2>1. CASE Current(s) /\ state.phase \notin RecoverablePhases /\ RecoveryReturns(c, Seen(state))
    <3>1. Seen(state).session = s /\ Past(s, CapturePhases)
      BY <2>1 DEF Seen, Current, Past, RecoverablePhases
    <3> QED
      BY <1>5, <2>1, <3>1
  <2>2. CASE Current(s) /\ state.phase \in RecoverablePhases /\ Look(c, "recover_files")
    <3>1. pc'[c] = "recover_files" /\ View(c)' = Seen(state) /\ Session(c)' = s
      BY <1>1, <2>2 DEF Look, Goto, Actors, View, Session, Calls, Seen, Current
    <3>2. Unprocessed(s)
      BY <2>2 DEF UnprocessedFirst, UnprocessedPhases, RecoverablePhases, Current
    <3> QED
      BY <1>3, <3>1, <3>2 DEF CallerSpares, PastCapture, PastWaiting, KeepsManifest,
         RecoversUnprocessed, FailsWithoutAudio, RecoversWhatItRead, RecoveryFits,
         AbandonsNoAudio, NeedsTranscript, NeedsManifest, Completes, Updating,
         Unprocessed, Seen, IsAsRead
  <2> QED
    BY <1>2, <1>4, <1>7, <2>1, <2>2 DEF RecoverRead
<1>8. CASE RecoverGivesUp(c)
  <2>1. pc'[c] = "recover_failed" /\ Session(c)' = s /\ pc[c] = "recover_files"
    BY <1>1, <1>2, <1>8 DEF RecoverGivesUp, Goto, Actors, Session, View
  <2>2. StorageFails \/ NothingToLose(s)
    <3>1. NothingToLose(s) \/ IsAsRead(state, View(c))
      BY <1>2, <2>1 DEF CallerSpares, RecoversWhatItRead
    <3>2. ASSUME ~StorageFails, IsAsRead(state, View(c)), Current(s), files[s].checkpoint # None
          PROVE  FALSE
      BY <1>2, <1>8, <3>2, RecordedStartFacts DEF RecoverGivesUp, IsAsRead
    <3> QED
      BY <3>1, <3>2 DEF NothingToLose
  <2>3. StorageFails \/ NothingToLose(s)'
    BY <1>3, <2>2 DEF NothingToLose, Current, Readable
  <2> QED
    BY <2>1, <2>3, SparesFailing
<1>9. CASE Recovered(c)
  <2>1. pc[c] = "recovered" => Past(s, CapturePhases)
    BY <1>2 DEF CallerSpares, PastCapture
  <2> QED
    BY <1>2, <1>4, <1>5, <1>9, <2>1 DEF Recovered, Session
<1> QED
  BY <1>6, <1>7, <1>8, <1>9 DEF RecoveryStep

\* A recovery fails its session only without audio, and otherwise makes an update that
\* is accepted.
LEMMA RecoverUpdateSpares ==
    ASSUME RecorderInv, Attempts > 1, NEW c \in Callers, NEW s, s = Session(c),
           UNCHANGED state, files'[s].checkpoint = files[s].checkpoint,
           NEW phase \in {"failed", "interrupted", "disconnected"}, NEW err, NEW refused,
           Recover(c, phase, err, refused),
           \/ NothingToLose(s)
           \/ phase # "failed" /\ TransitionAllowed(state.phase, phase)
           \/ StorageFails /\ refused # "recover_failed" /\ err = "capture_recovery_failed"
    PROVE  CallerSpares(c)'
<1>1. MemoryTypeOK /\ call \in [Callers -> Calls]
  BY CallerFacts DEF CallerKnows, MemoryTypeOK
<1>2. /\ pc'[c] = "update" /\ frame'[c].phase = phase /\ frame'[c].ok = "recovered"
      /\ frame'[c].seen = None /\ frame'[c].left = Attempts
      /\ frame'[c].err = err /\ frame'[c].fail = refused
  BY <1>1, CalledUpdate DEF Recover
<1>3. Session(c)' = s
  <2> DEFINE v == [call[c].view EXCEPT !.phase = phase, !.pid = None]
  <2>1. call' = [call EXCEPT ![c].view = v]
    BY DEF Recover
  <2>2. v.session = s
    BY DEF Session, View
  <2> HIDE DEF v
  <2> QED
    BY <1>1, <2>1, <2>2 DEF Session, View, Calls
<1>4. NothingToLose(s) => NothingToLose(s)'
  BY DEF NothingToLose, Current, Readable
<1>5. RecoveryFits(c)'
  BY <1>2, <1>3, <1>4 DEF RecoveryFits, Outlasts
<1> QED
  BY <1>2, <1>3, <1>4, <1>5, SparesUpdating

LEMMA RecoverFailedSpares ==
    ASSUME RecorderInv, Attempts > 1, NEW c \in Callers, CallerSpares(c), RecoverFailed(c)
    PROVE  CallerSpares(c)'
<1>1. PICK s : s = Session(c)
  OBVIOUS
<1>2. NothingToLose(s) \/ StorageFails
  BY <1>1 DEF RecoverFailed, CallerSpares, FailsWithoutAudio
<1> QED
  BY <1>1, <1>2, RecoverUpdateSpares DEF RecoverFailed, keepState

\* The manifest and the checkpoint say whether there is audio to lose.
LEMMA RecoverFilesSpares ==
    ASSUME RecorderInv, Attempts > 1, UnprocessedFirst, NEW c \in Callers, CallerSpares(c),
           RecoverFiles(c)
    PROVE  CallerSpares(c)'
<1>1. PICK s : s = Session(c)
  OBVIOUS
<1>2. /\ files \in [Sessions -> Artifacts] /\ s \in Sessions
      /\ View(c).phase \in RecoverablePhases /\ pc[c] = "recover_files" /\ UNCHANGED state
      /\ NothingToLose(s) \/ IsAsRead(state, View(c))
  BY <1>1, CallerFacts
     DEF CallerKnows, RecoverFiles, HasView, keepState, CallerSpares, RecoversWhatItRead
<1>3. CASE /\ RecordedStart(s) = None /\ UNCHANGED files
           /\ Recover(c, "failed", "no_audio_before_stop", "recover_failed")
  <2>1. NothingToLose(s)
    BY <1>3, RecordedStartFacts DEF NothingToLose
  <2> QED
    BY <1>1, <1>2, <1>3, <2>1, RecoverUpdateSpares
<1>4. CASE RecoverGivesUp(c)
  BY <1>4, RecoverySpares DEF RecoveryStep
<1>5. ASSUME NEW m, SetFile(s, "manifest", m), NEW phase,
             phase = IF View(c).phase \in CapturePhases THEN "interrupted" ELSE View(c).phase,
             Recover(c, phase, "recorder_process_stopped", "recover_failed")
      PROVE  CallerSpares(c)'
  <2>1. phase \in {"interrupted", "disconnected"}
    BY <1>2, <1>5 DEF RecoverablePhases
  <2>2. IsAsRead(state, View(c)) => TransitionAllowed(state.phase, phase)
    BY <1>2, <1>5 DEF IsAsRead, TransitionAllowed, Allowed, CapturePhases, CaptureFailures,
                      RecoverablePhases
  <2>3. files'[s].checkpoint = files[s].checkpoint
    BY <1>2, <1>5 DEF SetFile, Artifacts
  <2> QED
    BY <1>1, <1>2, <1>5, <2>1, <2>2, <2>3, RecoverUpdateSpares
<1> QED
  BY <1>1, <1>3, <1>4, <1>5 DEF RecoverFiles, RecoverGivesUp

\* An update that is accepted takes the session on; one of a recovery of recorded audio
\* is accepted.
LEMMA UpdateSpares ==
    ASSUME RecorderInv, NEW c \in Callers, CallerSpares(c), CallerUpdate(c)
    PROVE  CallerSpares(c)'
<1> USE DEF Actors
<1> DEFINE f == frame[c]
<1>1. PICK s : s = Session(c)
  OBVIOUS
<1>2. /\ pc \in [Actors -> Labels] /\ frame \in [Actors -> Frames] /\ f \in Frames
      /\ pc[c] = "update" /\ CallerFrame(f) /\ f.session = s /\ f.only = Phases
      /\ Update(c) /\ UNCHANGED call /\ Session(c)' = s
  BY <1>1, CallerFacts
     DEF CallerKnows, MemoryTypeOK, MakesOwnUpdate, CallerUpdate, Update, UpdateRead,
         UpdateCommit, UpdateConflict, Session, View
<1>3. Current(s) => state \in Record /\ state.rev \in Nat
  BY RecordFacts DEF Current
<1>4. ASSUME Return(c, f.fail), ~Current(s) \/ f.fail # "recover_failed" \/ NothingToLose(s),
             UNCHANGED <<state, files>>
      PROVE  CallerSpares(c)'
  <2>1. pc'[c] = f.fail
    BY <1>2, <1>4 DEF Return, Goto
  <2>2. CASE f.fail = "recover_failed"
    <3>1. NothingToLose(s)'
      BY <1>4, <2>2 DEF NothingToLose, Current, Readable
    <3> QED
      BY <1>2, <2>1, <2>2, <3>1, SparesFailing
  <2>3. CASE f.fail # "recover_failed"
    <3>1. pc'[c] \in {"leave", "recover_conflict", "process_failed", "processed"}
      BY <1>2, <2>1, <2>3 DEF CallerFrame
    <3> QED
      BY <3>1, SparesElsewhere
  <2> QED
    BY <2>2, <2>3
<1>5. CASE UpdateRead(c)
  <2>1. UNCHANGED <<state, files>>
    BY <1>5 DEF UpdateRead
  <2>2. CASE ~MayUpdate(c)
    BY <1>2, <1>4, <1>5, <2>1, <2>2, SessionAssumption DEF UpdateRead, MayUpdate
  <2>3. CASE MayUpdate(c)
    <3>1. state.phase \in f.only
      BY <1>2, <1>3, <2>3 DEF MayUpdate, Record
    <3>2. UNCHANGED pc /\ frame' = [frame EXCEPT ![c].seen = state.rev]
      BY <1>5, <2>3, <3>1 DEF UpdateRead
    <3>3. /\ frame'[c].ok = f.ok /\ frame'[c].fail = f.fail /\ frame'[c].phase = f.phase
          /\ frame'[c].seen = state.rev
      BY <1>2, <3>2 DEF Frames
    <3>4. frame'[c].left = f.left /\ f.seen = None
      BY <1>2, <1>5, <3>2 DEF UpdateRead, Frames
    <3>5. Outlasts(f) => Outlasts(frame[c])'
      BY <2>1, <3>3, <3>4 DEF Outlasts
    <3>6. RecoveryFits(c)'
      BY <1>1, <1>2, <2>1, <3>2, <3>3, <3>5
         DEF CallerSpares, RecoveryFits, NothingToLose, Current, Readable
    <3> QED
      BY <1>2, <2>1, <3>2, <3>3, <3>6, SparesStay
  <2> QED
    BY <2>2, <2>3
<1>6. CASE UpdateCommit(c)
  <2>1. pc'[c] = f.ok /\ UNCHANGED files
    BY <1>2, <1>6 DEF UpdateCommit, Return, Goto
  <2>2. state'.phase = f.phase
    BY <1>2, <1>6, CommitFacts, WriteFacts, SessionAssumption
       DEF Updates, CallerFrame, Phases, TerminalPhases, ProcessingPhases, AwaitingPhases
  <2>3. CASE f.ok = "recovered"
    <3>1. Past(s, CapturePhases)'
      BY <1>2, <2>2, <2>3 DEF Past, CallerFrame, CapturePhases
    <3> QED
      BY <1>2, <2>1, <2>3, <3>1, SparesAfterCapture
  <2>4. CASE f.ok \in {"transcribe", "analyze"}
    <3>1. Past(s, UnprocessedPhases)'
      BY <1>2, <2>2, <2>4 DEF Past, CallerFrame, UnprocessedPhases, CapturePhases
    <3>2. files[s].manifest = call[c].manifest
      BY <1>1, <1>2, <2>4 DEF CallerSpares, KeepsManifest, NeedsManifest, Updating
    <3>3. files'[s].manifest = call'[c].manifest
      BY <1>2, <2>1, <3>2
    <3> QED
      BY <1>2, <2>1, <2>4, <3>1, <3>3, SparesMaking
  <2>5. CASE f.ok \in {"leave", "processed"}
    BY <2>1, <2>5, SparesElsewhere
  <2> QED
    BY <1>2, <2>3, <2>4, <2>5 DEF CallerFrame
<1>7. CASE UpdateConflict(c)
  <2>1. UNCHANGED <<state, files>> /\ f.seen # None
    BY <1>7 DEF UpdateConflict
  <2>2. ASSUME Current(s), f.fail = "recover_failed", ~NothingToLose(s)
        PROVE  f.left > 1 /\ state.stopAt # None /\ TransitionAllowed(state.phase, f.phase)
    <3>1. TransitionAllowed(state.phase, f.phase) /\ Outlasts(f)
      BY <1>1, <1>2, <2>2 DEF CallerSpares, RecoveryFits
    <3>2. CASE f.seen = state.rev
      <4>1. f.phase \in Phases \ CapturePhases
        BY <1>2 DEF CallerFrame, Phases, CapturePhases, TerminalPhases, ProcessingPhases,
                    AwaitingPhases
      <4>2. Accepts(f.session, f.seen, Changed(state, f))
        BY <1>2, <1>3, <2>2, <3>1, <3>2, <4>1, LeavingIsAccepted
      <4> QED
        BY <1>2, <1>7, <2>2, <4>2 DEF UpdateConflict
    <3>3. CASE f.seen # state.rev
      BY <2>1, <3>1, <3>3 DEF Outlasts
    <3> QED
      BY <3>2, <3>3
  <2>3. CASE ~(Current(s) /\ f.left > 1)
    <3>1. Return(c, f.fail)
      BY <1>2, <1>7, <2>3 DEF UpdateConflict
    <3> QED
      BY <1>4, <2>1, <2>2, <2>3, <3>1
  <2>4. CASE Current(s) /\ f.left > 1
    <3>1. UNCHANGED pc /\ frame' = [frame EXCEPT ![c].seen = None, ![c].left = @ - 1]
      BY <1>2, <1>7, <2>4 DEF UpdateConflict
    <3>2. /\ frame'[c].ok = f.ok /\ frame'[c].fail = f.fail /\ frame'[c].phase = f.phase
          /\ frame'[c].seen = None
      BY <1>2, <3>1 DEF Frames
    <3>3. RecoveryFits(c)'
      <4> SUFFICES ASSUME f.fail = "recover_failed", ~NothingToLose(s)
                   PROVE  TransitionAllowed(state.phase, f.phase) /\ Outlasts(frame[c])'
        BY <1>2, <2>1, <3>1, <3>2 DEF RecoveryFits, NothingToLose, Current, Readable
      <4> QED
        BY <2>1, <2>2, <2>4, <3>2 DEF Outlasts
    <3> QED
      BY <1>2, <2>1, <3>1, <3>2, <3>3, SparesStay
  <2> QED
    BY <2>3, <2>4
<1> QED
  BY <1>2, <1>5, <1>6, <1>7 DEF Update

\* Every step of a command keeps its part.
LEMMA CallerKeepsSparing ==
    ASSUME RecorderInv, StateSpares, Attempts > 1, NEW c \in Callers, CallerSpares(c),
           \A w \in Sessions : WorkerSpares(w),
           Command(c) \/ CallerStep(c) \/ CallerDies(c)
    PROVE  CallerSpares(c)'
<1>1. CASE BeginStep(c) \/ StartStep(c) \/ StartSpawn(c) \/ StopStep(c) \/ ProcessStep(c)
  BY <1>1, BeginSpares, WaitingSpares, CreateSpares, StopSpares, ProcessSpares
<1>2. CASE AbandonStep(c) \/ RequestStopState(c) \/ AbandonWrite(c)
           \/ \E s \in Sessions : StartReserve(c, s)
  BY <1>2, WaitingSpares
<1>3. CASE ArtifactStep(c) \/ RecoveryStep(c) \/ RecoverFailed(c) \/ RecoverFiles(c)
  BY <1>3, ArtifactSpares, RecoverySpares, RecoverFailedSpares, RecoverFilesSpares
     DEF StateSpares
<1>4. CASE CallerUpdate(c)
  BY <1>4, UpdateSpares
<1> QED
  BY <1>1, <1>2, <1>3, <1>4, CallerStepCases

-----------------------------------------------------------------------------
(* The invariant while recoveries and processing stay apart.               *)

LEMMA SparingInit == Init => SparingInv
<1> SUFFICES ASSUME Init PROVE SparingInv
  OBVIOUS
<1> USE SessionAssumption DEF Actors
<1>1. /\ pc = [a \in Actors |-> IF a \in Callers THEN "idle" ELSE "unborn"]
      /\ state = NoState
      /\ files = [s \in Sessions |-> NoFiles]
  BY DEF Init, StoreInit
<1>2. ~Readable
  BY <1>1 DEF Readable, IsRecord
<1>3. StateSpares
  BY <1>2 DEF StateSpares, UnprocessedFirst, ProvenanceHolds, AudioIsNotFailed
<1>4. \A w \in Sessions : WorkerSpares(w)
  BY <1>1 DEF WorkerSpares, BeginsWithoutAudio, LosesNothing, OutlastsStop, Outlasts, NoFiles
<1>5. \A c \in Callers : CallerSpares(c)
  BY <1>1 DEF CallerSpares, PastCapture, PastWaiting, KeepsManifest, RecoversUnprocessed,
              FailsWithoutAudio, RecoversWhatItRead, RecoveryFits, AbandonsNoAudio,
              NeedsTranscript, NeedsManifest, Completes, Updating
<1> QED
  BY <1>3, <1>4, <1>5, RecorderInit DEF SparingInv

\* A command keeps its part and leaves the workers and the other commands theirs.
LEMMA CallerSparing ==
    ASSUME SparingInv, RecoversApart, Attempts > 1, NEW c \in Callers,
           Command(c) \/ CallerStep(c) \/ CallerDies(c)
    PROVE  /\ StateSpares'
           /\ \A w \in Sessions : WorkerSpares(w)'
           /\ \A d \in Callers : CallerSpares(d)'
<1>1. RecorderInv /\ StateSpares /\ CallerSpares(c) /\ \A w \in Sessions : WorkerSpares(w)
  BY DEF SparingInv
<1>2. StateSpares' /\ PhasesGoOn /\ CallerTouches(c)
  BY <1>1, CallerSparesState, CallerTouchesLittle
<1>3. Guarantee(c)
  BY <1>1, CallerStepKeeps DEF CallerKeeps, StateKeeps, Guarantee
<1>4. ASSUME NEW w \in Sessions PROVE WorkerSpares(w)'
  <2>1. c \in Actors \cup {Probe} /\ w \in Sessions \ {c}
    BY SessionAssumption DEF Actors
  <2>2. /\ files'[w].checkpoint = files[w].checkpoint
        /\ captureLock[w] = w /\ Current(w) /\ state.pid = w =>
              state' = state \/ (state.stopAt = None /\ state'.stopAt # None)
    BY <1>2 DEF CallerTouches
  <2> QED
    BY <1>1, <1>2, <1>3, <2>1, <2>2, WorkerStillSpares
<1>5. CallerSpares(c)'
  BY <1>1, CallerKeepsSparing
<1>6. ASSUME NEW d \in Callers \ {c} PROVE CallerSpares(d)'
  <2>1. CallerSpares(d)
    BY DEF SparingInv
  <2> QED
    BY <1>1, <1>2, <1>3, <2>1, CallerSparesOthers
<1> QED
  BY <1>2, <1>4, <1>5, <1>6

\* A worker leaves the commands and the other workers theirs.
LEMMA WorkerSparing ==
    ASSUME SparingInv, Attempts > 1, NEW w \in Sessions,
           WorkerStep(w) \/ WorkerDies(w), UNCHANGED call
    PROVE  /\ StateSpares'
           /\ \A x \in Sessions : WorkerSpares(x)'
           /\ \A c \in Callers : CallerSpares(c)'
<1>1. /\ RecorderInv /\ StateSpares
      /\ \A x \in Sessions : WorkerSpares(x)
      /\ \A c \in Callers : CallerSpares(c)
  BY DEF SparingInv
<1>2. StateSpares' /\ PhasesGoOn /\ WorkerTouches(w)
  BY <1>1, WorkerSparesState, WorkerTouchesOwn
<1>3. PlacesStay(w) /\ Guarantee(w)
  BY <1>1, WorkerStepKeeps, SessionAssumption DEF WorkerKeeps, StateKeeps, Guarantee, CreatesNew
<1>4. w \in used
  BY <1>1, <1>3, WorkerFacts DEF PlacesStay, WorkerKnows, IsBorn
<1>5. WorkerSpares(w)'
  BY <1>1, <1>2, <1>4, WorkerStillBegins, WorkerStillLosesNothing, WorkerStillOutlasts
     DEF WorkerSpares
<1>6. ASSUME NEW x \in Sessions \ {w} PROVE WorkerSpares(x)'
  <2>1. /\ files'[x].checkpoint = files[x].checkpoint
        /\ Current(x) => state' = state
    BY <1>2 DEF WorkerTouches, Current
  <2>2. w \in Actors \cup {Probe}
    BY DEF Actors
  <2> QED
    BY <1>1, <1>2, <1>3, <2>1, <2>2, WorkerStillSpares
<1>7. ASSUME NEW c \in Callers PROVE CallerSpares(c)'
  BY <1>1, <1>2, <1>3, CallerStillSpares
<1> QED
  BY <1>2, <1>5, <1>6, <1>7

\* A status probe touches nothing of this.
LEMMA ProbeSparing ==
    ASSUME SparingInv, ProbeStep
    PROVE  /\ StateSpares'
           /\ \A w \in Sessions : WorkerSpares(w)'
           /\ \A c \in Callers : CallerSpares(c)'
<1>1. UNCHANGED <<state, files, pc, frame, call>>
  BY DEF ProbeStep, ProbeBegins, ProbeEnds, vars, sessionVars
<1>2. StateSpares'
  BY <1>1 DEF SparingInv, StateSpares, UnprocessedFirst, Unprocessed, ProvenanceHolds,
              AudioIsNotFailed, Readable
<1>3. ASSUME NEW w \in Sessions PROVE WorkerSpares(w)'
  BY <1>1 DEF SparingInv, WorkerSpares, BeginsWithoutAudio, LosesNothing, OutlastsStop, Outlasts,
              NothingToLose, Current, Readable
<1>4. ASSUME NEW c \in Callers PROVE CallerSpares(c)'
  <2>1. CallerSpares(c) /\ HasView(c) /\ used \subseteq Sessions
    BY CallerFacts DEF SparingInv, CallerKnows
  <2>2. RecoveryFits(c)'
    BY <1>1, <2>1 DEF CallerSpares, RecoveryFits, NothingToLose, Current, Readable, Outlasts,
                      Session, View
  <2>3. pc[c] = "abandon_write" /\ captureLock[Session(c)] = c =>
           captureLock'[Session(c)] = c
    <3>1. c \in Actors \ {Probe} /\ LocksStay(Probe)
      BY ProbeKeeps, SessionAssumption DEF SparingInv, Actors
    <3> QED
      BY <2>1, <3>1 DEF HasView, LocksStay
  <2> QED
    BY <1>1, <2>1, <2>2, <2>3, SparesStay
<1> QED
  BY <1>2, <1>3, <1>4

LEMMA SparingNext ==
    ASSUME Attempts > 1
    PROVE  SparingInv /\ RecoversApart /\ [Next]_vars => SparingInv'
<1> SUFFICES ASSUME SparingInv, RecoversApart, [Next]_vars
             PROVE  SparingInv'
  OBVIOUS
<1>1. RecorderInv'
  BY RecorderNext DEF SparingInv
<1>2. ASSUME NEW c \in Callers, Command(c) \/ CallerStep(c) \/ CallerDies(c)
      PROVE  SparingInv'
  BY <1>1, <1>2, CallerSparing DEF SparingInv
<1>3. ASSUME NEW w \in Sessions, WorkerStep(w) \/ WorkerDies(w), UNCHANGED call
      PROVE  SparingInv'
  BY <1>1, <1>3, WorkerSparing DEF SparingInv
<1>4. CASE ProbeStep
  BY <1>1, <1>4, ProbeSparing DEF SparingInv
<1> QED
  BY <1>2, <1>3, <1>4 DEF Next, WorkerStep, Death, ProbeStep

\* A session whose audio reached the disk never ends failed unless its user abandons it
\* or the disk fails its recovery, however many commands run and wherever they or the
\* worker die, as long as no command processes a session that another one recovers: the
\* worker's last update and a recovery's outlast a concurrent stop request (worker.py
\* _WorkerState.update and service.py _update_state, which make 8 attempts), and
\* otherwise a recovery fails a session only if neither manifest nor checkpoint is on
\* disk (service.py _recover_dead_capture_with_lock).
THEOREM AudioIsKept ==
    ASSUME Attempts > 1
    PROVE  Spec /\ []RecoversApart => []AudioIsNotFailed
<1>1. SparingInv => AudioIsNotFailed
  BY DEF SparingInv, StateSpares
<1> QED
  BY <1>1, SparingInit, SparingNext, PTL DEF Spec

\* The transcript and the intelligence of a session carry the fingerprint of the manifest
\* on disk, under the same condition: a recovery rewrites the manifest only of a session
\* from which nothing was made yet (service.py _process and
\* _recover_dead_capture_with_lock).
THEOREM ProvenanceIsKept ==
    ASSUME Attempts > 1
    PROVE  Spec /\ []RecoversApart => []ProvenanceHolds
<1>1. SparingInv => ProvenanceHolds
  BY DEF SparingInv, StateSpares
<1> QED
  BY <1>1, SparingInit, SparingNext, PTL DEF Spec
=============================================================================
