-------------------------- MODULE MeetingStateStore --------------------------
(***************************************************************************)
(* The private state file that coordinates the one recorder of a Mac       *)
(* (meeting/state.py, MeetingStateStore).  Each operation runs under an    *)
(* exclusive flock and replaces the file atomically, so each is one step.  *)
(* An operation that raises leaves the file as it is and is no step.       *)
(*                                                                         *)
(* A session fixes its KVM, start time and directory, so those fields are  *)
(* the session itself.  updated_at and heartbeat_at are left out: every    *)
(* operation takes the later of its clock and the stored time.  recAt and  *)
(* stopAt are recording_started_at and stop_requested_at.                  *)
(***************************************************************************)
EXTENDS Naturals, MeetingPhases

CONSTANTS
    Sessions,       \* session IDs a start may draw (random, never drawn twice)
    Pids,           \* process IDs of recorder workers
    Times,          \* clock readings that a state may record
    ErrorCodes,     \* sanitized error codes
    None,           \* an optional field without a value
    NoState,        \* the file does not exist
    Corrupt,        \* the file exists and does not parse
    MaxRevision     \* bound: the revision at which the model stops writing

VARIABLES
    state,          \* what the file holds
    used            \* sessions reserved so far

storeVars == <<state, used>>

Record == [session : Sessions,
           phase   : Phases,
           rev     : Nat,
           pid     : Pids \cup {None},
           recAt   : Times \cup {None},
           stopAt  : Times \cup {None},
           err     : ErrorCodes \cup {None}]

\* A record can be told from a file that holds none.
ASSUME StoreAssumption ==
    /\ None \notin Pids
    /\ None \notin Times
    /\ "abandoned_by_user" \in ErrorCodes
    /\ MaxRevision \in Nat
    /\ NoState # Corrupt
    /\ NoState \notin Record
    /\ Corrupt \notin Record

IsRecord(x) == x \notin {NoState, Corrupt}

Readable == IsRecord(state)

\* _required_unlocked: the file holds this session.
Current(s) == Readable /\ state.session = s

Capturing == Readable /\ state.phase \in CapturePhases

\* Slip: a phase the enumeration does not have.
FreshUnlisted(s) == [session |-> s, phase |-> "reserved", rev |-> 0, pid |-> None,
                     recAt |-> None, stopAt |-> None, err |-> None]

Fresh(s) == [session |-> s, phase |-> "starting", rev |-> 0, pid |-> None,
             recAt |-> None, stopAt |-> None, err |-> None]

\* MeetingRecorderState.__post_init__
WellFormed(r) == r.pid # None => r.phase \in CapturePhases

\* Slip: the stop request is not compared.
KeepsStartOnly(current, r) == current.recAt # None => r.recAt = current.recAt

\* What was recorded of the start and of a stop stays.
KeepsEvidence(current, r) ==
    /\ current.recAt # None => r.recAt = current.recAt
    /\ current.stopAt # None => r.stopAt = current.stopAt

\* _validate_update; claim says that the update is a worker's claim.
ValidUpdate(current, r, claim) ==
    /\ r.session = current.session
    /\ r.rev = current.rev
    /\ KeepsEvidence(current, r)
    /\ r.pid # current.pid =>
          IF claim THEN current.pid = None
                   ELSE r.pid = None /\ r.phase \notin CapturePhases
    /\ TransitionAllowed(current.phase, r.phase)

\* _write_unlocked of an update: the next revision of the record.
Write(r) ==
    /\ state.rev < MaxRevision
    /\ state' = [r EXCEPT !.rev = state.rev + 1]
    /\ UNCHANGED used

-----------------------------------------------------------------------------
StoreInit == state = NoState /\ used = {}

\* Slip: a meeting that is only being processed does not count.
CanReserveUncaptured ==
    state = NoState \/ (Readable /\ state.phase \notin CapturePhases)

CanReserve == state = NoState \/ (Readable /\ state.phase \in TerminalPhases)

Reserve(s) ==
    /\ CanReserve
    /\ s \notin used
    /\ state' = Fresh(s)
    /\ used' = used \cup {s}

\* compare_and_set succeeds exactly when this holds.
Accepts(s, rev, r) ==
    /\ Current(s)
    /\ state.rev = rev
    /\ WellFormed(r)
    /\ ValidUpdate(state, r, FALSE)

CompareAndSet(s, rev, r) == Accepts(s, rev, r) /\ Write(r)

\* Slip: the session is not compared.
CanClaimAny(s, p) ==
    /\ Readable
    /\ \/ state.pid = p
       \/ state.phase = "starting" /\ state.pid = None

\* Claiming again with the same pid returns the record unchanged.
CanClaim(s, p) ==
    /\ Current(s)
    /\ \/ state.pid = p
       \/ state.phase = "starting" /\ state.pid = None

ClaimWorker(s, p) ==
    /\ CanClaim(s, p)
    /\ state.pid # p
    /\ LET r == [state EXCEPT !.pid = p]
       IN  ValidUpdate(state, r, TRUE) /\ Write(r)

\* Slip: a stop before the first audio leaves the phase alone.
AfterStopOfRecording(r, t) ==
    IF r.phase \notin CapturePhases \/ r.stopAt # None THEN r
    ELSE [r EXCEPT !.stopAt = t, !.phase = IF @ = "recording" THEN "stop_requested" ELSE @]

\* What request_stop leaves the record as: the request is recorded once.
AfterStopRequest(r, t) ==
    IF r.phase \notin CapturePhases \/ r.stopAt # None THEN r
    ELSE [r EXCEPT !.stopAt = t,
                   !.phase = IF @ \in {"starting", "recording"}
                             THEN "stop_requested" ELSE @]

RequestStop(s, t) ==
    /\ Current(s)
    /\ LET r == AfterStopRequest(state, t)
       IN  /\ r # state
           /\ ValidUpdate(state, r, FALSE)
           /\ Write(r)

CanMarkStarted(s, p) == Current(s) /\ state.pid = p /\ Capturing

AfterMarkStarted(r, t) ==
    IF r.recAt # None THEN r
    ELSE [r EXCEPT !.recAt = t,
                   !.phase = IF @ = "starting" THEN "recording" ELSE @]

MarkRecordingStarted(s, p, t) ==
    /\ CanMarkStarted(s, p)
    /\ LET r == AfterMarkStarted(state, t)
       IN  /\ r # state
           /\ ValidUpdate(state, r, FALSE)
           /\ Write(r)

CanAbandon(s, rev) ==
    Current(s) /\ state.rev = rev /\ state.phase \notin TerminalPhases

Abandon(s, rev) ==
    /\ CanAbandon(s, rev)
    /\ LET r == [state EXCEPT !.phase = "failed", !.pid = None,
                              !.err = "abandoned_by_user"]
       IN  ValidUpdate(state, r, FALSE) /\ Write(r)

Clear(s, rev) ==
    /\ Current(s)
    /\ state.rev = rev
    /\ state.phase \in TerminalPhases
    /\ state' = NoState
    /\ UNCHANGED used

\* The disk, an editor or an older release leaves a file that does not parse.
Damage == Readable /\ state' = Corrupt /\ UNCHANGED used

SetAsideCorrupt == state = Corrupt /\ state' = NoState /\ UNCHANGED used

\* A caller of compare_and_set is not trusted: it offers any record with the
\* session and the revision it expects (one with others would be refused).
Offers(s, rev) ==
    [session : {s}, phase : Phases, rev : {rev}, pid : Pids \cup {None},
     recAt : Times \cup {None}, stopAt : Times \cup {None}, err : ErrorCodes \cup {None}]

StoreNext ==
    \/ \E s \in Sessions : Reserve(s)
    \/ \E s \in Sessions, p \in Pids : ClaimWorker(s, p)
    \/ \E s \in Sessions, t \in Times : RequestStop(s, t)
    \/ \E s \in Sessions, p \in Pids, t \in Times : MarkRecordingStarted(s, p, t)
    \/ \E s \in Sessions, rev \in 0..MaxRevision : Abandon(s, rev)
    \/ \E s \in Sessions, rev \in 0..MaxRevision : Clear(s, rev)
    \/ Damage
    \/ SetAsideCorrupt
    \/ \E s \in Sessions, rev \in 0..MaxRevision :
          /\ Current(s)
          /\ state.rev = rev
          /\ \E r \in Offers(s, rev) : CompareAndSet(s, rev, r)

StoreSpec == StoreInit /\ [][StoreNext]_storeVars

-----------------------------------------------------------------------------
\* The file holds nothing, an unreadable blob or a record of a reserved session.
StoreTypeOK ==
    /\ used \subseteq Sessions
    /\ state \in {NoState, Corrupt} \cup Record
    /\ Readable => state.session \in used

\* A worker owns a record only while the phase is one of capture: no operation
\* of any process leaves a finished or processing session with an owner.
OwnerOnlyWhileCapturing ==
    Readable => (state.pid # None => state.phase \in CapturePhases)

SameSession == Readable /\ Readable' /\ state'.session = state.session

\* Ownership is granted once: a claimed session keeps its owner until it leaves
\* capture, and a session that left capture never returns to it, so no second
\* worker can ever claim it (claim_worker, compare_and_set).
OwnershipIsExclusive ==
    [][SameSession =>
          /\ (state.pid # None /\ state'.pid # state.pid)
                => state'.phase \notin CapturePhases
          /\ state.phase \notin CapturePhases => state'.phase \notin CapturePhases]_storeVars

\* A session that completed, failed or had no audio stays so: whatever the
\* caller offers, a late update cannot reopen it.
TerminalIsFinal ==
    [][SameSession /\ state.phase \in TerminalPhases => state'.phase = state.phase]_storeVars

\* The first audio time and the first stop request are evidence: once
\* recorded they are neither moved nor erased.
EvidenceIsImmutable ==
    [][SameSession =>
          /\ state.recAt # None => state'.recAt = state.recAt
          /\ state.stopAt # None => state'.stopAt = state.stopAt]_storeVars

-----------------------------------------------------------------------------
\* How the content x of the file shows the life of the meeting it describes.
StageOf(x) ==
    CASE x = NoState -> "absent"
      [] x = Corrupt -> "lost"
      [] IsRecord(x) /\ x.phase \in CapturePhases /\ x.pid = None -> "open"
      [] IsRecord(x) /\ x.phase \in CapturePhases /\ x.pid # None -> "held"
      [] IsRecord(x) /\ x.phase \in TerminalPhases -> "over"
      [] OTHER -> "captured"

Life == INSTANCE MeetingLifecycle WITH
    meeting <- IF IsRecord(state) THEN state.session ELSE None,
    stage   <- StageOf(state),
    holder  <- IF IsRecord(state) THEN state.pid ELSE None,
    past    <- used

\* The state file keeps the promise of MeetingLifecycle: one meeting at a time,
\* one owner while it is captured, and no way back from processing or the end.
ImplementsLifecycle == Life!Spec
=============================================================================
