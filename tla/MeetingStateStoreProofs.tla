----------------------- MODULE MeetingStateStoreProofs -----------------------
(***************************************************************************)
(* Proofs that the state file of MeetingStateStore keeps its promises for  *)
(* any sessions, processes, clock readings and error codes, and whatever   *)
(* records its compare_and_set callers offer.                              *)
(***************************************************************************)
EXTENDS MeetingStateStore, TLAPS

-----------------------------------------------------------------------------
(* Lemmas about the operators.                                             *)

\* A transition never leads back into capture, and a terminal phase has none.
LEMMA TransitionFacts ==
    ASSUME NEW p \in Phases, NEW q \in Phases, TransitionAllowed(p, q)
    PROVE  /\ p \notin CapturePhases => q \notin CapturePhases
           /\ p \in TerminalPhases => q = p
  BY DEF TransitionAllowed, Allowed, Phases, CapturePhases, TerminalPhases,
         ProcessingPhases, AwaitingPhases, CaptureFailures

\* A written record is the offered one at the next revision.
LEMMA WriteFacts ==
    ASSUME state \in Record, NEW r \in Record, Write(r)
    PROVE  /\ state' \in Record
           /\ state'.session = r.session /\ state'.phase = r.phase
           /\ state'.pid = r.pid /\ state'.recAt = r.recAt
           /\ state'.stopAt = r.stopAt /\ state'.err = r.err
           /\ state'.rev = state.rev + 1
           /\ used' = used
  BY DEF Write, Record

\* The file of a type-correct state is readable exactly when it holds a record.
LEMMA ReadableRecord ==
    ASSUME NEW x \in {NoState, Corrupt} \cup Record
    PROVE  IsRecord(x) <=> x \in Record
  BY StoreAssumption DEF IsRecord

-----------------------------------------------------------------------------
(* Every operation is a reservation, an accepted update or the loss of the *)
(* record.  The invariant below is inductive; an update preserves it only  *)
(* because a record that leaves capture has given up its owner.            *)

IInv == StoreTypeOK /\ OwnerOnlyWhileCapturing

Updates(r, claim) ==
    /\ state \in Record
    /\ r \in Record
    /\ WellFormed(r)
    /\ ValidUpdate(state, r, claim)
    /\ claim => state.phase = "starting" /\ r = [state EXCEPT !.pid = r.pid]
    /\ Write(r)

Empties ==
    \/ \E s \in Sessions, rev \in 0..MaxRevision : Clear(s, rev)
    \/ Damage
    \/ SetAsideCorrupt

LEMMA EmptiesFacts == Empties => state' \in {NoState, Corrupt} /\ used' = used
  BY DEF Empties, Clear, Damage, SetAsideCorrupt

LEMMA ClaimUpdates ==
    ASSUME IInv, NEW s \in Sessions, NEW p \in Pids, ClaimWorker(s, p)
    PROVE  \E r : Updates(r, TRUE)
<1> DEFINE r == [state EXCEPT !.pid = p]
<1>1. state \in Record
  BY ReadableRecord DEF ClaimWorker, CanClaim, Current, Readable, IInv, StoreTypeOK
<1>2. state.phase = "starting"
  BY DEF ClaimWorker, CanClaim
<1>3. /\ r \in Record
      /\ r = [state EXCEPT !.pid = r.pid]
      /\ WellFormed(r)
  BY <1>1, <1>2 DEF Record, WellFormed, CapturePhases
<1>4. ValidUpdate(state, r, TRUE) /\ Write(r)
  BY DEF ClaimWorker
<1>5. Updates(r, TRUE)
  BY <1>1, <1>2, <1>3, <1>4 DEF Updates
<1> QED
  BY <1>5

\* request_stop changes the phase only within capture.
LEMMA StopUpdates ==
    ASSUME IInv, NEW s \in Sessions, NEW t \in Times, RequestStop(s, t)
    PROVE  \E r : Updates(r, FALSE)
<1> DEFINE r == AfterStopRequest(state, t)
<1>1. state \in Record
  BY ReadableRecord DEF RequestStop, Current, Readable, IInv, StoreTypeOK
<1>2. r \in Record
  BY <1>1 DEF AfterStopRequest, Record, Phases, CapturePhases
<1>3. r.phase \in CapturePhases
  BY <1>1 DEF RequestStop, AfterStopRequest, Record, CapturePhases
<1>4. WellFormed(r)
  BY <1>3 DEF WellFormed
<1>5. ValidUpdate(state, r, FALSE) /\ Write(r)
  BY DEF RequestStop
<1>6. Updates(r, FALSE)
  BY <1>1, <1>2, <1>4, <1>5 DEF Updates
<1> QED
  BY <1>6

LEMMA MarkUpdates ==
    ASSUME IInv, NEW s \in Sessions, NEW p \in Pids, NEW t \in Times,
           MarkRecordingStarted(s, p, t)
    PROVE  \E r : Updates(r, FALSE)
<1> DEFINE r == AfterMarkStarted(state, t)
<1>1. state \in Record /\ state.phase \in CapturePhases
  BY ReadableRecord DEF MarkRecordingStarted, CanMarkStarted, Capturing, Current, Readable,
                        IInv, StoreTypeOK
<1>2. r \in Record /\ r.phase \in CapturePhases
  BY <1>1 DEF AfterMarkStarted, Record, Phases, CapturePhases
<1>3. WellFormed(r)
  BY <1>2 DEF WellFormed
<1>4. ValidUpdate(state, r, FALSE) /\ Write(r)
  BY DEF MarkRecordingStarted
<1>5. Updates(r, FALSE)
  BY <1>1, <1>2, <1>3, <1>4 DEF Updates
<1> QED
  BY <1>5

LEMMA AbandonUpdates ==
    ASSUME IInv, NEW s \in Sessions, NEW rev \in 0..MaxRevision, Abandon(s, rev)
    PROVE  \E r : Updates(r, FALSE)
<1> DEFINE r == [state EXCEPT !.phase = "failed", !.pid = None, !.err = "abandoned_by_user"]
<1>1. state \in Record
  BY ReadableRecord DEF Abandon, CanAbandon, Current, Readable, IInv, StoreTypeOK
<1>2. r \in Record /\ WellFormed(r)
  BY <1>1, StoreAssumption DEF Record, WellFormed, Phases, TerminalPhases
<1>3. ValidUpdate(state, r, FALSE) /\ Write(r)
  BY DEF Abandon
<1>4. Updates(r, FALSE)
  BY <1>1, <1>2, <1>3 DEF Updates
<1> QED
  BY <1>4

LEMMA OfferUpdates ==
    ASSUME IInv, NEW s \in Sessions, NEW rev \in 0..MaxRevision,
           NEW r \in Offers(s, rev), CompareAndSet(s, rev, r)
    PROVE  Updates(r, FALSE)
<1>1. state \in Record
  BY ReadableRecord DEF CompareAndSet, Accepts, Current, Readable, IInv, StoreTypeOK
<1>2. r \in Record
  BY StoreAssumption DEF Offers, Record
<1> QED
  BY <1>1, <1>2 DEF CompareAndSet, Accepts, Updates

\* The three kinds of step.
LEMMA StepKinds ==
    ASSUME IInv, StoreNext
    PROVE  \/ \E s \in Sessions : Reserve(s)
           \/ \E r, claim : Updates(r, claim)
           \/ Empties
<1>1. ASSUME NEW s \in Sessions, NEW p \in Pids, ClaimWorker(s, p)
      PROVE  \E r, claim : Updates(r, claim)
  BY <1>1, ClaimUpdates
<1>2. ASSUME NEW s \in Sessions, NEW t \in Times, RequestStop(s, t)
      PROVE  \E r, claim : Updates(r, claim)
  BY <1>2, StopUpdates
<1>3. ASSUME NEW s \in Sessions, NEW p \in Pids, NEW t \in Times,
             MarkRecordingStarted(s, p, t)
      PROVE  \E r, claim : Updates(r, claim)
  BY <1>3, MarkUpdates
<1>4. ASSUME NEW s \in Sessions, NEW rev \in 0..MaxRevision, Abandon(s, rev)
      PROVE  \E r, claim : Updates(r, claim)
  BY <1>4, AbandonUpdates
<1>5. ASSUME NEW s \in Sessions, NEW rev \in 0..MaxRevision, NEW r \in Offers(s, rev),
             CompareAndSet(s, rev, r)
      PROVE  \E r1, claim : Updates(r1, claim)
  BY <1>5, OfferUpdates
<1> QED
  BY <1>1, <1>2, <1>3, <1>4, <1>5 DEF StoreNext, Empties

\* What an accepted update guarantees, whoever offered it.
LEMMA UpdateFacts ==
    ASSUME NEW r, NEW claim, Updates(r, claim)
    PROVE  /\ state' \in Record /\ used' = used
           /\ WellFormed(state')
           /\ state'.session = state.session
           /\ state.phase \notin CapturePhases => state'.phase \notin CapturePhases
           /\ state.phase \in TerminalPhases => state'.phase = state.phase
           /\ state.recAt # None => state'.recAt = state.recAt
           /\ state.stopAt # None => state'.stopAt = state.stopAt
           /\ state'.pid # state.pid =>
                 \/ claim /\ state.pid = None /\ state'.phase = state.phase
                          /\ state.phase \in CapturePhases
                 \/ state'.pid = None /\ state'.phase \notin CapturePhases
<1>1. /\ state' \in Record /\ used' = used
      /\ state'.session = r.session /\ state'.phase = r.phase /\ state'.pid = r.pid
      /\ state'.recAt = r.recAt /\ state'.stopAt = r.stopAt
  BY WriteFacts DEF Updates
<1>2. /\ state.phase \in Phases /\ r.phase \in Phases
      /\ TransitionAllowed(state.phase, r.phase)
  BY DEF Updates, ValidUpdate, KeepsEvidence, Record
<1>3. /\ state.phase \notin CapturePhases => r.phase \notin CapturePhases
      /\ state.phase \in TerminalPhases => r.phase = state.phase
  BY <1>2, TransitionFacts
<1>4. WellFormed(state')
  BY <1>1 DEF Updates, WellFormed
<1>5. r.pid # state.pid =>
         \/ claim /\ state.pid = None /\ r.phase = state.phase
                  /\ state.phase \in CapturePhases
         \/ r.pid = None /\ r.phase \notin CapturePhases
  BY DEF Updates, ValidUpdate, KeepsEvidence, Record, CapturePhases
<1> QED
  BY <1>1, <1>3, <1>4, <1>5 DEF Updates, ValidUpdate, KeepsEvidence

LEMMA ReserveFacts ==
    ASSUME IInv, NEW s \in Sessions, Reserve(s)
    PROVE  /\ state' \in Record /\ state' = Fresh(s)
           /\ used' = used \cup {s}
           /\ s \notin used
           /\ state = NoState \/ (state \in Record /\ state.phase \in TerminalPhases)
<1>1. Fresh(s) \in Record
  BY DEF Fresh, Record, Phases, CapturePhases
<1> QED
  BY <1>1, ReadableRecord DEF Reserve, CanReserve, Readable, IInv, StoreTypeOK

LEMMA InitInv == StoreInit => IInv
  BY DEF StoreInit, IInv, StoreTypeOK, OwnerOnlyWhileCapturing, Readable, IsRecord

LEMMA NextInv == IInv /\ [StoreNext]_storeVars => IInv'
<1> SUFFICES ASSUME IInv, [StoreNext]_storeVars PROVE IInv'
  OBVIOUS
<1>1. CASE UNCHANGED storeVars
  BY <1>1 DEF storeVars, IInv, StoreTypeOK, OwnerOnlyWhileCapturing, Readable
<1>2. ASSUME NEW s \in Sessions, Reserve(s) PROVE IInv'
  <2>1. StoreTypeOK'
    BY <1>2, ReserveFacts DEF StoreTypeOK, IInv, Fresh
  <2>2. OwnerOnlyWhileCapturing'
    BY <1>2, ReserveFacts DEF OwnerOnlyWhileCapturing, Fresh
  <2> QED
    BY <2>1, <2>2 DEF IInv
<1>3. ASSUME NEW r, NEW claim, Updates(r, claim) PROVE IInv'
  <2>1. StoreTypeOK'
    BY <1>3, UpdateFacts, ReadableRecord DEF StoreTypeOK, IInv, Readable, Updates
  <2>2. OwnerOnlyWhileCapturing'
    BY <1>3, UpdateFacts DEF OwnerOnlyWhileCapturing, WellFormed
  <2> QED
    BY <2>1, <2>2 DEF IInv
<1>4. CASE Empties
  BY <1>4, EmptiesFacts DEF IInv, StoreTypeOK, OwnerOnlyWhileCapturing, Readable, IsRecord
<1> QED
  BY <1>1, <1>2, <1>3, <1>4, StepKinds

-----------------------------------------------------------------------------
\* The state file always holds nothing, an unreadable blob or a well-typed
\* record, whatever any process offers (MeetingStateStore).
THEOREM StoreTypeCorrect == StoreSpec => []StoreTypeOK
<1>1. IInv => StoreTypeOK
  BY DEF IInv
<1> QED
  BY <1>1, InitInv, NextInv, PTL DEF StoreSpec

\* No session that has left capture names an owner.
THEOREM OwnerOnlyWhileCapturingHolds == StoreSpec => []OwnerOnlyWhileCapturing
<1>1. IInv => OwnerOnlyWhileCapturing
  BY DEF IInv
<1> QED
  BY <1>1, InitInv, NextInv, PTL DEF StoreSpec

(* The action properties follow from the facts about each kind of step.    *)

LEMMA SameSessionUpdates ==
    ASSUME IInv, [StoreNext]_storeVars, SameSession, state' # state
    PROVE  \E r, claim : Updates(r, claim)
<1>1. StoreNext /\ state.session \in used
  BY DEF storeVars, IInv, StoreTypeOK, SameSession
<1>2. ASSUME NEW s \in Sessions, Reserve(s) PROVE FALSE
  BY <1>1, <1>2, ReserveFacts DEF SameSession, Fresh
<1>3. ~Empties
  BY EmptiesFacts DEF SameSession, Readable, IsRecord
<1> QED
  BY <1>1, <1>2, <1>3, StepKinds

\* A claimed session keeps its owner until it leaves capture, and capture is
\* never entered again, so a session is recorded by one process at most.
THEOREM OwnershipIsExclusiveHolds == StoreSpec => OwnershipIsExclusive
<1>1. IInv /\ [StoreNext]_storeVars =>
        [SameSession =>
            /\ (state.pid # None /\ state'.pid # state.pid)
                  => state'.phase \notin CapturePhases
            /\ state.phase \notin CapturePhases
                  => state'.phase \notin CapturePhases]_storeVars
  <2> SUFFICES ASSUME IInv, [StoreNext]_storeVars, SameSession, state' # state
               PROVE  /\ (state.pid # None /\ state'.pid # state.pid)
                            => state'.phase \notin CapturePhases
                      /\ state.phase \notin CapturePhases
                            => state'.phase \notin CapturePhases
    OBVIOUS
  <2>1. PICK r, claim : Updates(r, claim)
    BY SameSessionUpdates
  <2> QED
    BY <2>1, UpdateFacts
<1> QED
  BY <1>1, InitInv, NextInv, PTL DEF StoreSpec, OwnershipIsExclusive

\* A meeting that is over stays in the phase it ended in.
THEOREM TerminalIsFinalHolds == StoreSpec => TerminalIsFinal
<1>1. IInv /\ [StoreNext]_storeVars =>
        [SameSession /\ state.phase \in TerminalPhases
            => state'.phase = state.phase]_storeVars
  <2> SUFFICES ASSUME IInv, [StoreNext]_storeVars, SameSession, state' # state,
                      state.phase \in TerminalPhases
               PROVE  state'.phase = state.phase
    OBVIOUS
  <2>1. PICK r, claim : Updates(r, claim)
    BY SameSessionUpdates
  <2> QED
    BY <2>1, UpdateFacts
<1> QED
  BY <1>1, InitInv, NextInv, PTL DEF StoreSpec, TerminalIsFinal

\* The first audio time and the first stop request are never moved or erased.
THEOREM EvidenceIsImmutableHolds == StoreSpec => EvidenceIsImmutable
<1>1. IInv /\ [StoreNext]_storeVars =>
        [SameSession =>
            /\ state.recAt # None => state'.recAt = state.recAt
            /\ state.stopAt # None => state'.stopAt = state.stopAt]_storeVars
  <2> SUFFICES ASSUME IInv, [StoreNext]_storeVars, SameSession, state' # state
               PROVE  /\ state.recAt # None => state'.recAt = state.recAt
                      /\ state.stopAt # None => state'.stopAt = state.stopAt
    OBVIOUS
  <2>1. PICK r, claim : Updates(r, claim)
    BY SameSessionUpdates
  <2> QED
    BY <2>1, UpdateFacts
<1> QED
  BY <1>1, InitInv, NextInv, PTL DEF StoreSpec, EvidenceIsImmutable

-----------------------------------------------------------------------------
(* The state file implements MeetingLifecycle.                             *)

\* The stage shown by each content of the file.
LEMMA EmptyStage == StageOf(NoState) = "absent" /\ StageOf(Corrupt) = "lost"
  BY StoreAssumption DEF StageOf, IsRecord

LEMMA RecordStage ==
    ASSUME NEW r \in Record
    PROVE  /\ r.phase \in CapturePhases /\ r.pid = None => StageOf(r) = "open"
           /\ r.phase \in CapturePhases /\ r.pid # None => StageOf(r) = "held"
           /\ r.phase \in TerminalPhases => StageOf(r) = "over"
           /\ r.phase \notin CapturePhases \cup TerminalPhases => StageOf(r) = "captured"
<1>1. IsRecord(r) /\ r # NoState /\ r # Corrupt
  BY StoreAssumption DEF IsRecord
<1>2. CapturePhases \cap TerminalPhases = {}
  BY DEF CapturePhases, TerminalPhases
<1> QED
  BY <1>1, <1>2 DEF StageOf

\* A reservation opens a meeting.
LEMMA ReserveOpens ==
    ASSUME IInv, NEW s \in Sessions, Reserve(s)
    PROVE  Life!Open(s)
<1>1. StageOf(state) \in {"absent", "over"}
  BY ReserveFacts, EmptyStage, RecordStage
<1>2. /\ IsRecord(state') /\ state'.session = s /\ state'.pid = None
      /\ StageOf(state') = "open"
  BY ReserveFacts, RecordStage, StoreAssumption DEF Fresh, CapturePhases, IsRecord
<1> QED
  BY <1>1, <1>2, ReserveFacts DEF Life!Open

\* An accepted update claims the meeting, ends its capture, finishes it, or
\* changes nothing that the lifecycle shows.
LEMMA UpdateImplements ==
    ASSUME IInv, NEW r, NEW claim, Updates(r, claim)
    PROVE  Life!Next \/ UNCHANGED Life!lifeVars
<1>1. /\ state \in Record /\ state' \in Record
      /\ IsRecord(state) /\ IsRecord(state')
      /\ state'.session = state.session /\ used' = used
  BY UpdateFacts, StoreAssumption DEF Updates, IsRecord
<1>2. /\ state.pid # None => state.phase \in CapturePhases
      /\ state'.pid # None => state'.phase \in CapturePhases
  BY <1>1, UpdateFacts DEF IInv, OwnerOnlyWhileCapturing, Readable, WellFormed
<1>3. CASE state'.phase \in CapturePhases /\ state'.pid = state.pid
  <2>1. StageOf(state') = StageOf(state)
    BY <1>1, <1>3, UpdateFacts, RecordStage
  <2> QED
    BY <1>1, <1>3, <2>1 DEF Life!lifeVars
<1>4. CASE state'.phase \in CapturePhases /\ state'.pid # state.pid
  <2>1. state.pid = None /\ state'.pid # None /\ state.phase \in CapturePhases
    BY <1>4, UpdateFacts
  <2>2. StageOf(state) = "open" /\ StageOf(state') = "held" /\ state'.pid \in Pids
    BY <1>1, <1>4, <2>1, RecordStage DEF Record
  <2>3. Life!Hold(state'.pid)
    BY <1>1, <2>2 DEF Life!Hold
  <2> QED
    BY <2>2, <2>3 DEF Life!Next
<1>5. CASE state'.phase \notin CapturePhases /\ state.phase \in CapturePhases
  <2>1. StageOf(state) \in {"open", "held"}
    BY <1>1, <1>5, RecordStage
  <2>2. StageOf(state') \in {"captured", "over"} /\ state'.pid = None
    BY <1>1, <1>2, <1>5, RecordStage
  <2>3. Life!EndCapture
    BY <1>1, <2>1, <2>2 DEF Life!EndCapture
  <2> QED
    BY <2>3 DEF Life!Next
<1>6. CASE state'.phase \notin CapturePhases /\ state.phase \notin CapturePhases
  <2>1. state.pid = None /\ state'.pid = None
    BY <1>2, <1>6
  <2>2. CASE state.phase \in TerminalPhases
    <3>1. StageOf(state) = "over" /\ StageOf(state') = "over"
      BY <1>1, <2>2, UpdateFacts, RecordStage
    <3> QED
      BY <1>1, <2>1, <3>1 DEF Life!lifeVars
  <2>3. CASE state.phase \notin TerminalPhases /\ state'.phase \in TerminalPhases
    <3>1. StageOf(state) = "captured" /\ StageOf(state') = "over"
      BY <1>1, <1>6, <2>3, RecordStage
    <3>2. Life!Finish
      BY <1>1, <2>1, <3>1 DEF Life!Finish
    <3> QED
      BY <3>2 DEF Life!Next
  <2>4. CASE state.phase \notin TerminalPhases /\ state'.phase \notin TerminalPhases
    <3>1. StageOf(state) = "captured" /\ StageOf(state') = "captured"
      BY <1>1, <1>6, <2>4, RecordStage
    <3> QED
      BY <1>1, <2>1, <3>1 DEF Life!lifeVars
  <2> QED
    BY <2>2, <2>3, <2>4
<1> QED
  BY <1>3, <1>4, <1>5, <1>6, UpdateFacts

\* The file loses its record only by being cleared when over, or by damage.
LEMMA EmptyingImplements ==
    ASSUME IInv, Empties
    PROVE  Life!Next
<1>1. ~IsRecord(NoState) /\ ~IsRecord(Corrupt)
  BY DEF IsRecord
<1>2. ASSUME NEW s \in Sessions, NEW rev \in 0..MaxRevision, Clear(s, rev)
      PROVE  Life!Forget
  <2>1. state \in Record /\ state.phase \in TerminalPhases /\ state' = NoState
    BY <1>2, ReadableRecord DEF Clear, Current, Readable, IInv, StoreTypeOK
  <2> QED
    BY <1>1, <1>2, <2>1, RecordStage, EmptyStage DEF Clear, Life!Forget
<1>3. ASSUME Damage PROVE Life!Lose
  <2>1. state \in Record /\ state' = Corrupt
    BY <1>3, ReadableRecord DEF Damage, Readable, IInv, StoreTypeOK
  <2>2. StageOf(state) \notin {"absent", "lost"}
    BY <2>1, RecordStage
  <2> QED
    BY <1>1, <1>3, <2>1, <2>2, EmptyStage DEF Damage, Life!Lose
<1>4. ASSUME SetAsideCorrupt PROVE Life!Forget
  BY <1>1, <1>4, EmptyStage DEF SetAsideCorrupt, Life!Forget
<1> QED
  BY <1>2, <1>3, <1>4 DEF Life!Next, Empties

\* Every step of the state file is a step of the lifecycle or changes nothing
\* it shows: one meeting at a time, one owner, no way back (MeetingStateStore).
THEOREM StoreImplementsLifecycle == StoreSpec => ImplementsLifecycle
<1>1. StoreInit => Life!Init
  BY EmptyStage DEF StoreInit, Life!Init, IsRecord
<1>2. IInv /\ [StoreNext]_storeVars => [Life!Next]_(Life!lifeVars)
  <2> SUFFICES ASSUME IInv, [StoreNext]_storeVars
               PROVE  Life!Next \/ UNCHANGED Life!lifeVars
    OBVIOUS
  <2>1. CASE UNCHANGED storeVars
    BY <2>1 DEF storeVars, Life!lifeVars
  <2>2. CASE \E s \in Sessions : Reserve(s)
    BY <2>2, ReserveOpens DEF Life!Next
  <2>3. CASE \E r, claim : Updates(r, claim)
    BY <2>3, UpdateImplements
  <2>4. CASE Empties
    BY <2>4, EmptyingImplements
  <2> QED
    BY <2>1, <2>2, <2>3, <2>4, StepKinds
<1> QED
  BY <1>1, <1>2, InitInv, NextInv, PTL DEF StoreSpec, ImplementsLifecycle, Life!Spec
=============================================================================
