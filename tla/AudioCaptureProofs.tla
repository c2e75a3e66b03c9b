--------------------------- MODULE AudioCaptureProofs ---------------------------
(****************************************************************************)
(* No audio is lost, for any number of parts and reconnects: what a session *)
(* received is on disk at every moment, under the unfinished or the finished*)
(* name of its part; a capture that returns has recorded all of it, in order;*)
(* and what the worker sees of a capture is MeetingAudio.                   *)
(****************************************************************************)
EXTENDS AudioCapture, SequenceTheorems, TLAPS

\* What the proofs need of the records: their fields, and that parts are numbered.
TypeInv ==
    /\ DOMAIN rec = DOMAIN NewRecorder(1, 0)
    /\ DOMAIN cap = {"at", "error", "origin", "next", "reconnects", "parts",
                     "interrupted", "outcome"}
    /\ rec.part \in Nat /\ rec.session \in Nat
    /\ cap.next \in Nat \ {0} /\ cap.reconnects \in Nat
    /\ heard \subseteq [part : Nat, session : Nat]

\* Who is inside the lock holds it.
LockInv ==
    rec.lock = IF rec.start = "opening" THEN "start"
               ELSE IF rec.rotate \in {"closing", "opening"} THEN "rotate"
               ELSE IF rec.stop = "closing" THEN "stop" ELSE None

\* A recorder that is being stopped starts, rotates and announces no more, and has no open
\* part once it is closed and no thread once it is stopped; it is being stopped exactly
\* when its session is over.
StopInv ==
    /\ rec.stop # "none" => rec.start \notin {"wanted", "opening"}
    /\ rec.stop \notin {"none", "locking"} =>
          /\ rec.rotate \notin {"sleeping", "closing", "opening", "promoting"}
          /\ rec.announce # "waiting"
    /\ rec.stop = "stopped" => rec.promotion \notin {"thread", "written"}
    /\ rec.stop \in {"joining", "promoting", "stopped"} => rec.sink = "none"
    /\ cap.at \notin {"closing", "backoff", "over"} => rec.stop = "none"
    /\ cap.at \in {"backoff", "over"} => rec.stop = "stopped"
    /\ cap.outcome # None => cap.at = "over"

\* A rotation begins once the start has ended, and where it goes on, a part is open.
SinkInv ==
    /\ cap.at \in {"connect", "create", "attach", "features", "offer"} => rec.start = "none"
    /\ rec.start \in {"none", "wanted", "opening"} => rec.rotate = "none"
    /\ rec.sink # "none" => rec.attached
    /\ rec.start = "opening" => rec.sink # "none"
    /\ rec.rotate \in {"sleeping", "closing", "opening"} => rec.sink # "none"
    /\ rec.rotate = "promoting" /\ ~rec.failing => rec.sink # "none"

\* Who may touch the open part, and when.
ControlInv == TypeInv /\ LockInv /\ StopInv /\ SinkInv

\* The parts of a session are numbered after all earlier ones, and no two parts with
\* audio have the same number.
NumberInv ==
    /\ \A h \in heard : h.part <= rec.part
    /\ rec.sink # "none" => \A h \in heard : h.part = rec.part => h = Recording(rec)
    /\ \A h, g \in heard : h.part = g.part => h = g
    /\ ~rec.attached => rec.part = cap.next - 1
    /\ cap.at = "backoff" => \A h \in heard : h.part < cap.next

\* The open part has its file; a part that is being promoted has audio and is an
\* earlier one.
FileInv ==
    /\ rec.sink # "none" => Partial(rec) \in disk
    /\ \A p \in {rec.closed, rec.promoting} : p # None =>
          /\ Part(p, rec.session) \in heard
          /\ rec.sink # "none" => p < rec.part
    /\ rec.promotion \in {"thread", "written"} => rec.promoting # None

\* A capture that never had a recorder with audio has heard nothing; a session ends
\* without an error only for a stop request that no failure of the watcher caused.
OutcomeInv ==
    /\ rec.first => rec.attached
    /\ ~cap.origin /\ ~rec.first => heard = {}
    /\ cap.at = "backoff" /\ ~cap.origin => heard = {}
    /\ cap.at = "closing" /\ cap.error = None => stopping /\ abort = None
    /\ OutcomeIsHonest

\* HeardAudioIsKept is not inductive: a promotion keeps the audio of its part because
\* no other part has its number, and an unlinked file holds none because a part is
\* unlinked under the lock only, while it is the open one.
IInv == ControlInv /\ NumberInv /\ FileInv /\ HeardAudioIsKept /\ OutcomeInv

USE DEF Part, File, Recording, Partial

LEMMA InitEstablishes == Init => IInv
  BY CaptureAssumption DEF Init, IInv, ControlInv, TypeInv, LockInv, StopInv, SinkInv, NumberInv,
     FileInv, HeardAudioIsKept, OutcomeInv, OutcomeIsHonest, NewRecorder

\* A start opens the next part, which no part with audio has the number of.
LEMMA StartPreserves == IInv /\ Start /\ UNCHANGED captureVars => IInv'
  <1> SUFFICES ASSUME IInv, Start, UNCHANGED captureVars PROVE IInv'
    OBVIOUS
  <1>0. /\ ControlInv /\ NumberInv /\ FileInv /\ HeardAudioIsKept /\ OutcomeInv
        /\ UNCHANGED <<cap, fatal, abort, stopping>>
    BY DEF IInv, captureVars
  <1> USE <1>0, CaptureAssumption DEF ControlInv, TypeInv, LockInv, StopInv, SinkInv,
        NewRecorder, Start, Opening, NotOpened, CanOpen
  <1>1. CASE rec' = [[rec EXCEPT !.attached = TRUE]
                      EXCEPT !.start = "failed", !.fatal = "connection"] /\ UNCHANGED disk
    <2>1. ControlInv'
      BY <1>1
    <2>2. NumberInv'
      BY <1>1 DEF NumberInv
    <2>3. FileInv'
      BY <1>1 DEF NumberInv, FileInv
    <2>4. HeardAudioIsKept'
      BY <1>1 DEF NumberInv, FileInv, HeardAudioIsKept
    <2>5. OutcomeInv'
      BY <1>1 DEF OutcomeInv, OutcomeIsHonest
    <2> QED BY ONLY <2>1, <2>2, <2>3, <2>4, <2>5 DEF IInv
  <1>2. CASE /\ rec' = [Opening([rec EXCEPT !.attached = TRUE])
                         EXCEPT !.start = "opening", !.lock = "start"]
             /\ disk' = disk \cup {Partial(rec')}
    <2>1. ControlInv'
      BY <1>2
    <2>2. NumberInv'
      BY <1>2 DEF NumberInv
    <2>3. FileInv'
      BY <1>2 DEF NumberInv, FileInv
    <2>4. HeardAudioIsKept'
      BY <1>2 DEF NumberInv, FileInv, HeardAudioIsKept
    <2>5. OutcomeInv'
      BY <1>2 DEF OutcomeInv, OutcomeIsHonest
    <2> QED BY ONLY <2>1, <2>2, <2>3, <2>4, <2>5 DEF IInv
  <1>3. CASE rec' = [NotOpened([rec EXCEPT !.attached = TRUE]) EXCEPT !.start = "failed"]
             /\ UNCHANGED disk
    <2>1. ControlInv'
      BY <1>3
    <2>2. NumberInv'
      BY <1>3 DEF NumberInv
    <2>3. FileInv'
      BY <1>3 DEF NumberInv, FileInv
    <2>4. HeardAudioIsKept'
      BY <1>3 DEF NumberInv, FileInv, HeardAudioIsKept
    <2>5. OutcomeInv'
      BY <1>3 DEF OutcomeInv, OutcomeIsHonest
    <2> QED BY ONLY <2>1, <2>2, <2>3, <2>4, <2>5 DEF IInv
  <1> QED BY <1>1, <1>2, <1>3

LEMMA StartEndsPreserves == IInv /\ StartEnds /\ UNCHANGED captureVars => IInv'
  <1> SUFFICES ASSUME IInv, StartEnds, UNCHANGED captureVars PROVE IInv'
    OBVIOUS
  <1>0. /\ ControlInv /\ NumberInv /\ FileInv /\ HeardAudioIsKept /\ OutcomeInv
        /\ UNCHANGED <<cap, fatal, abort, stopping>>
    BY DEF IInv, captureVars
  <1> USE <1>0, CaptureAssumption DEF ControlInv, TypeInv, LockInv, StopInv, SinkInv,
        NewRecorder, StartEnds
  <1>1. CASE rec' = [rec EXCEPT !.start = "done", !.lock = None, !.sink = "open",
                                 !.rotate = "sleeping", !.announce = "waiting"]
    <2>1. ControlInv'
      BY <1>1
    <2>2. NumberInv'
      BY <1>1 DEF NumberInv
    <2>3. FileInv'
      BY <1>1 DEF NumberInv, FileInv
    <2>4. HeardAudioIsKept'
      BY <1>1 DEF NumberInv, FileInv, HeardAudioIsKept
    <2>5. OutcomeInv'
      BY <1>1 DEF OutcomeInv, OutcomeIsHonest
    <2> QED BY ONLY <2>1, <2>2, <2>3, <2>4, <2>5 DEF IInv
  <1>2. CASE rec' = [rec EXCEPT !.start = "failed", !.lock = None]
    <2>1. ControlInv'
      BY <1>2
    <2>2. NumberInv'
      BY <1>2 DEF NumberInv
    <2>3. FileInv'
      BY <1>2 DEF NumberInv, FileInv
    <2>4. HeardAudioIsKept'
      BY <1>2 DEF NumberInv, FileInv, HeardAudioIsKept
    <2>5. OutcomeInv'
      BY <1>2 DEF OutcomeInv, OutcomeIsHonest
    <2> QED BY ONLY <2>1, <2>2, <2>3, <2>4, <2>5 DEF IInv
  <1> QED BY <1>1, <1>2

\* The first frame of a part is in the part's unfinished file.
LEMMA FramePreserves == IInv /\ Frame /\ UNCHANGED captureVars => IInv'
  <1> SUFFICES ASSUME IInv, Frame, UNCHANGED captureVars PROVE IInv'
    OBVIOUS
  <1>0. /\ ControlInv /\ NumberInv /\ FileInv /\ HeardAudioIsKept /\ OutcomeInv
        /\ UNCHANGED <<cap, fatal, abort, stopping>>
    BY DEF IInv, captureVars
  <1> USE <1>0, CaptureAssumption DEF ControlInv, TypeInv, LockInv, StopInv, SinkInv,
        NewRecorder, Frame
  <1>1. ControlInv'
    OBVIOUS
  <1>2. NumberInv' /\ FileInv'
    BY DEF NumberInv, FileInv
  <1>3. HeardAudioIsKept' /\ OutcomeInv'
    BY DEF FileInv, HeardAudioIsKept, OutcomeInv, OutcomeIsHonest
  <1> QED BY ONLY <1>1, <1>2, <1>3 DEF IInv

LEMMA SourceEndsPreserves == IInv /\ SourceEnds /\ UNCHANGED captureVars => IInv'
  <1> SUFFICES ASSUME IInv, SourceEnds, UNCHANGED captureVars PROVE IInv'
    OBVIOUS
  <1>0. /\ ControlInv /\ NumberInv /\ FileInv /\ HeardAudioIsKept /\ OutcomeInv
        /\ UNCHANGED <<cap, fatal, abort, stopping>>
    BY DEF IInv, captureVars
  <1> USE <1>0, CaptureAssumption DEF ControlInv, TypeInv, LockInv, StopInv, SinkInv,
        NewRecorder, SourceEnds
  <1>1. ControlInv'
    OBVIOUS
  <1>2. NumberInv' /\ FileInv'
    BY DEF NumberInv, FileInv
  <1>3. HeardAudioIsKept' /\ OutcomeInv'
    BY DEF FileInv, HeardAudioIsKept, OutcomeInv, OutcomeIsHonest
  <1> QED BY ONLY <1>1, <1>2, <1>3 DEF IInv

LEMMA RotatePreserves == IInv /\ Rotate /\ UNCHANGED captureVars => IInv'
  <1> SUFFICES ASSUME IInv, Rotate, UNCHANGED captureVars PROVE IInv'
    OBVIOUS
  <1>0. /\ ControlInv /\ NumberInv /\ FileInv /\ HeardAudioIsKept /\ OutcomeInv
        /\ UNCHANGED <<cap, fatal, abort, stopping>>
    BY DEF IInv, captureVars
  <1> USE <1>0, CaptureAssumption DEF ControlInv, TypeInv, LockInv, StopInv, SinkInv,
        NewRecorder, Rotate
  <1>1. ControlInv'
    OBVIOUS
  <1>2. NumberInv' /\ FileInv'
    BY DEF NumberInv, FileInv
  <1>3. HeardAudioIsKept' /\ OutcomeInv'
    BY DEF FileInv, HeardAudioIsKept, OutcomeInv, OutcomeIsHonest
  <1> QED BY ONLY <1>1, <1>2, <1>3 DEF IInv

\* A rotation unlinks the part it closed only if it has no audio.
LEMMA RotateClosesPreserves == IInv /\ RotateCloses /\ UNCHANGED captureVars => IInv'
  <1> SUFFICES ASSUME IInv, RotateCloses, UNCHANGED captureVars PROVE IInv'
    OBVIOUS
  <1>0. /\ ControlInv /\ NumberInv /\ FileInv /\ HeardAudioIsKept /\ OutcomeInv
        /\ UNCHANGED <<cap, fatal, abort, stopping>>
    BY DEF IInv, captureVars
  <1> USE <1>0, CaptureAssumption DEF ControlInv, TypeInv, LockInv, StopInv, SinkInv,
        NewRecorder, RotateCloses, ClosedPart, Opening, NotOpened, Unlinked, Rotated,
        Promoting
  <1>1. CASE rec' = [rec EXCEPT !.rotate = "failed", !.lock = None, !.sink = "none"]
             /\ UNCHANGED disk
    <2>1. ControlInv'
      BY <1>1
    <2>2. NumberInv'
      BY <1>1 DEF NumberInv
    <2>3. FileInv'
      BY <1>1 DEF NumberInv, FileInv
    <2>4. HeardAudioIsKept'
      BY <1>1 DEF NumberInv, FileInv, HeardAudioIsKept
    <2>5. OutcomeInv'
      BY <1>1 DEF OutcomeInv, OutcomeIsHonest
    <2> QED BY ONLY <2>1, <2>2, <2>3, <2>4, <2>5 DEF IInv
  <1>2. CASE /\ rec' = [Opening([rec EXCEPT !.closed = ClosedPart]) EXCEPT !.rotate = "opening"]
             /\ disk' = Unlinked \cup {Partial(rec')}
    <2>1. ControlInv'
      BY <1>2
    <2>2. NumberInv'
      BY <1>2 DEF NumberInv
    <2>3. FileInv'
      BY <1>2 DEF NumberInv, FileInv
    <2>4. HeardAudioIsKept'
      BY <1>2 DEF NumberInv, FileInv, HeardAudioIsKept
    <2>5. OutcomeInv'
      BY <1>2 DEF OutcomeInv, OutcomeIsHonest
    <2> QED BY ONLY <2>1, <2>2, <2>3, <2>4, <2>5 DEF IInv
  <1>3. CASE /\ rec' = Rotated(NotOpened([rec EXCEPT !.closed = ClosedPart]), TRUE)
             /\ disk' = Unlinked
    <2>1. ControlInv'
      BY <1>3
    <2>2. NumberInv'
      BY <1>3 DEF NumberInv
    <2>3. FileInv'
      BY <1>3 DEF NumberInv, FileInv
    <2>4. HeardAudioIsKept'
      BY <1>3 DEF NumberInv, FileInv, HeardAudioIsKept
    <2>5. OutcomeInv'
      BY <1>3 DEF OutcomeInv, OutcomeIsHonest
    <2> QED BY ONLY <2>1, <2>2, <2>3, <2>4, <2>5 DEF IInv
  <1> QED BY <1>1, <1>2, <1>3

LEMMA RotateOpensPreserves == IInv /\ RotateOpens /\ UNCHANGED captureVars => IInv'
  <1> SUFFICES ASSUME IInv, RotateOpens, UNCHANGED captureVars PROVE IInv'
    OBVIOUS
  <1>0. /\ ControlInv /\ NumberInv /\ FileInv /\ HeardAudioIsKept /\ OutcomeInv
        /\ UNCHANGED <<cap, fatal, abort, stopping>>
    BY DEF IInv, captureVars
  <1> USE <1>0, CaptureAssumption DEF ControlInv, TypeInv, LockInv, StopInv, SinkInv,
        NewRecorder, RotateOpens, Rotated, Promoting
  <1>1. CASE rec' = Rotated([rec EXCEPT !.sink = "open"], FALSE)
    <2>1. ControlInv'
      BY <1>1
    <2>2. NumberInv'
      BY <1>1 DEF NumberInv
    <2>3. FileInv'
      BY <1>1 DEF NumberInv, FileInv
    <2>4. HeardAudioIsKept'
      BY <1>1 DEF NumberInv, FileInv, HeardAudioIsKept
    <2>5. OutcomeInv'
      BY <1>1 DEF OutcomeInv, OutcomeIsHonest
    <2> QED BY ONLY <2>1, <2>2, <2>3, <2>4, <2>5 DEF IInv
  <1>2. CASE rec' = Rotated(rec, TRUE)
    <2>1. ControlInv'
      BY <1>2
    <2>2. NumberInv'
      BY <1>2 DEF NumberInv
    <2>3. FileInv'
      BY <1>2 DEF NumberInv, FileInv
    <2>4. HeardAudioIsKept'
      BY <1>2 DEF NumberInv, FileInv, HeardAudioIsKept
    <2>5. OutcomeInv'
      BY <1>2 DEF OutcomeInv, OutcomeIsHonest
    <2> QED BY ONLY <2>1, <2>2, <2>3, <2>4, <2>5 DEF IInv
  <1> QED BY <1>1, <1>2

LEMMA RotateResumesPreserves == IInv /\ RotateResumes /\ UNCHANGED captureVars => IInv'
  <1> SUFFICES ASSUME IInv, RotateResumes, UNCHANGED captureVars PROVE IInv'
    OBVIOUS
  <1>0. /\ ControlInv /\ NumberInv /\ FileInv /\ HeardAudioIsKept /\ OutcomeInv
        /\ UNCHANGED <<cap, fatal, abort, stopping>>
    BY DEF IInv, captureVars
  <1> USE <1>0, CaptureAssumption DEF ControlInv, TypeInv, LockInv, StopInv, SinkInv,
        NewRecorder, RotateResumes
  <1>1. ControlInv'
    OBVIOUS
  <1>2. NumberInv' /\ FileInv'
    BY DEF NumberInv, FileInv
  <1>3. HeardAudioIsKept' /\ OutcomeInv'
    BY DEF FileInv, HeardAudioIsKept, OutcomeInv, OutcomeIsHonest
  <1> QED BY ONLY <1>1, <1>2, <1>3 DEF IInv

LEMMA ForwardBackgroundFailurePreserves ==
    IInv /\ ForwardBackgroundFailure /\ UNCHANGED captureVars => IInv'
  <1> SUFFICES ASSUME IInv, ForwardBackgroundFailure, UNCHANGED captureVars PROVE IInv'
    OBVIOUS
  <1>0. /\ ControlInv /\ NumberInv /\ FileInv /\ HeardAudioIsKept /\ OutcomeInv
        /\ UNCHANGED <<cap, fatal, abort, stopping>>
    BY DEF IInv, captureVars
  <1> USE <1>0, CaptureAssumption DEF ControlInv, TypeInv, LockInv, StopInv, SinkInv,
        NewRecorder, ForwardBackgroundFailure
  <1>1. ControlInv'
    OBVIOUS
  <1>2. NumberInv' /\ FileInv'
    BY DEF NumberInv, FileInv
  <1>3. HeardAudioIsKept' /\ OutcomeInv'
    BY DEF FileInv, HeardAudioIsKept, OutcomeInv, OutcomeIsHonest
  <1> QED BY ONLY <1>1, <1>2, <1>3 DEF IInv

LEMMA ValidationFailsPreserves == IInv /\ ValidationFails /\ UNCHANGED captureVars => IInv'
  <1> SUFFICES ASSUME IInv, ValidationFails, UNCHANGED captureVars PROVE IInv'
    OBVIOUS
  <1>0. /\ ControlInv /\ NumberInv /\ FileInv /\ HeardAudioIsKept /\ OutcomeInv
        /\ UNCHANGED <<cap, fatal, abort, stopping>>
    BY DEF IInv, captureVars
  <1> USE <1>0, CaptureAssumption DEF ControlInv, TypeInv, LockInv, StopInv, SinkInv,
        NewRecorder, ValidationFails
  <1>1. ControlInv'
    OBVIOUS
  <1>2. NumberInv' /\ FileInv'
    BY DEF NumberInv, FileInv
  <1>3. HeardAudioIsKept' /\ OutcomeInv'
    BY DEF FileInv, HeardAudioIsKept, OutcomeInv, OutcomeIsHonest
  <1> QED BY ONLY <1>1, <1>2, <1>3 DEF IInv

LEMMA PromotePreserves == IInv /\ Promote /\ UNCHANGED captureVars => IInv'
  <1> SUFFICES ASSUME IInv, Promote, UNCHANGED captureVars PROVE IInv'
    OBVIOUS
  <1>0. /\ ControlInv /\ NumberInv /\ FileInv /\ HeardAudioIsKept /\ OutcomeInv
        /\ UNCHANGED <<cap, fatal, abort, stopping>>
    BY DEF IInv, captureVars
  <1> USE <1>0, CaptureAssumption DEF ControlInv, TypeInv, LockInv, StopInv, SinkInv,
        NewRecorder, Promote, Renamed
  <1>1. ControlInv'
    OBVIOUS
  <1>2. NumberInv'
    BY DEF NumberInv
  <1>3. FileInv'
    BY DEF NumberInv, FileInv
  <1>4. HeardAudioIsKept'
    <2>1. CASE disk' = disk
      BY <2>1 DEF IInv, Promote, HeardAudioIsKept
    <2>2. CASE disk' = Renamed
      <3> SUFFICES ASSUME NEW h \in heard
                   PROVE  \E f \in disk' : Part(f.part, f.session) = h
        BY DEF Promote, HeardAudioIsKept
      <3>1. CASE h.part = rec.promoting
        <4>1. PromotedPart \in heard
          BY DEF IInv, Promote, FileInv, PromotedPart
        <4>2. h.part = PromotedPart.part
          BY <3>1 DEF PromotedPart
        <4>3. h = PromotedPart
          BY <4>1, <4>2 DEF IInv, NumberInv
        <4>4. File("final", rec.promoting, rec.session) \in disk'
          BY <2>2 DEF Renamed
        <4>5. Part(rec.promoting, rec.session) = h
          BY <4>3 DEF PromotedPart
        <4> QED BY <4>4, <4>5
      <3>2. CASE h.part # rec.promoting
        <4>1. PICK f \in disk : Part(f.part, f.session) = h
          BY DEF IInv, HeardAudioIsKept
        <4>2. f.part = h.part
          BY <4>1
        <4> QED BY <2>2, <3>2, <4>1, <4>2 DEF Renamed
      <3> QED BY <3>1, <3>2
    <2> QED BY <2>1, <2>2 DEF Promote
  <1>5. OutcomeInv'
    BY DEF OutcomeInv, OutcomeIsHonest
  <1> QED BY ONLY <1>1, <1>2, <1>3, <1>4, <1>5 DEF IInv

LEMMA PartPromotedPreserves == IInv /\ PartPromoted /\ UNCHANGED captureVars => IInv'
  <1> SUFFICES ASSUME IInv, PartPromoted, UNCHANGED captureVars PROVE IInv'
    OBVIOUS
  <1>0. /\ ControlInv /\ NumberInv /\ FileInv /\ HeardAudioIsKept /\ OutcomeInv
        /\ UNCHANGED <<cap, fatal, abort, stopping>>
    BY DEF IInv, captureVars
  <1> USE <1>0, CaptureAssumption DEF ControlInv, TypeInv, LockInv, StopInv, SinkInv,
        NewRecorder, PartPromoted, PromotedPart
  <1>1. ControlInv'
    OBVIOUS
  <1>2. NumberInv' /\ FileInv'
    BY DEF NumberInv, FileInv
  <1>3. HeardAudioIsKept' /\ OutcomeInv'
    BY DEF FileInv, HeardAudioIsKept, OutcomeInv, OutcomeIsHonest
  <1> QED BY ONLY <1>1, <1>2, <1>3 DEF IInv

LEMMA StopBeginsPreserves == IInv /\ StopBegins /\ UNCHANGED captureVars => IInv'
  <1> SUFFICES ASSUME IInv, StopBegins, UNCHANGED captureVars PROVE IInv'
    OBVIOUS
  <1>0. /\ ControlInv /\ NumberInv /\ FileInv /\ HeardAudioIsKept /\ OutcomeInv
        /\ UNCHANGED <<cap, fatal, abort, stopping>>
    BY DEF IInv, captureVars
  <1> USE <1>0, CaptureAssumption DEF ControlInv, TypeInv, LockInv, StopInv, SinkInv,
        NewRecorder, StopBegins, BackgroundCancelled
  <1>1. ControlInv'
    OBVIOUS
  <1>2. NumberInv' /\ FileInv'
    BY DEF NumberInv, FileInv
  <1>3. HeardAudioIsKept' /\ OutcomeInv'
    BY DEF FileInv, HeardAudioIsKept, OutcomeInv, OutcomeIsHonest
  <1> QED BY ONLY <1>1, <1>2, <1>3 DEF IInv

LEMMA StopClosesPreserves == IInv /\ StopCloses /\ UNCHANGED captureVars => IInv'
  <1> SUFFICES ASSUME IInv, StopCloses, UNCHANGED captureVars PROVE IInv'
    OBVIOUS
  <1>0. /\ ControlInv /\ NumberInv /\ FileInv /\ HeardAudioIsKept /\ OutcomeInv
        /\ UNCHANGED <<cap, fatal, abort, stopping>>
    BY DEF IInv, captureVars
  <1> USE <1>0, CaptureAssumption DEF ControlInv, TypeInv, LockInv, StopInv, SinkInv,
        NewRecorder, StopCloses, ClosedPart, Unlinked
  <1>1. CASE rec' = [[rec EXCEPT !.stop = "joining", !.sink = "none", !.lock = None]
                      EXCEPT !.closeFailed = TRUE] /\ UNCHANGED disk
    <2>1. ControlInv'
      BY <1>1
    <2>2. NumberInv'
      BY <1>1 DEF NumberInv
    <2>3. FileInv'
      BY <1>1 DEF NumberInv, FileInv
    <2>4. HeardAudioIsKept'
      BY <1>1 DEF NumberInv, FileInv, HeardAudioIsKept
    <2>5. OutcomeInv'
      BY <1>1 DEF OutcomeInv, OutcomeIsHonest
    <2> QED BY ONLY <2>1, <2>2, <2>3, <2>4, <2>5 DEF IInv
  <1>2. CASE rec' = [[rec EXCEPT !.stop = "joining", !.sink = "none", !.lock = None]
                      EXCEPT !.closed = ClosedPart] /\ disk' = Unlinked
    <2>1. ControlInv'
      BY <1>2
    <2>2. NumberInv'
      BY <1>2 DEF NumberInv
    <2>3. FileInv'
      BY <1>2 DEF NumberInv, FileInv
    <2>4. HeardAudioIsKept'
      BY <1>2 DEF NumberInv, FileInv, HeardAudioIsKept
    <2>5. OutcomeInv'
      BY <1>2 DEF OutcomeInv, OutcomeIsHonest
    <2> QED BY ONLY <2>1, <2>2, <2>3, <2>4, <2>5 DEF IInv
  <1> QED BY <1>1, <1>2

LEMMA StopJoinsPreserves == IInv /\ StopJoins /\ UNCHANGED captureVars => IInv'
  <1> SUFFICES ASSUME IInv, StopJoins, UNCHANGED captureVars PROVE IInv'
    OBVIOUS
  <1>0. /\ ControlInv /\ NumberInv /\ FileInv /\ HeardAudioIsKept /\ OutcomeInv
        /\ UNCHANGED <<cap, fatal, abort, stopping>>
    BY DEF IInv, captureVars
  <1> USE <1>0, CaptureAssumption DEF ControlInv, TypeInv, LockInv, StopInv, SinkInv,
        NewRecorder, StopJoins, BackgroundJoined, FailedLocally, NothingLeft, Promoting
  <1>1. ControlInv'
    OBVIOUS
  <1>2. NumberInv' /\ FileInv'
    BY DEF NumberInv, FileInv
  <1>3. HeardAudioIsKept' /\ OutcomeInv'
    BY DEF FileInv, HeardAudioIsKept, OutcomeInv, OutcomeIsHonest
  <1> QED BY ONLY <1>1, <1>2, <1>3 DEF IInv

LEMMA StopEndsPreserves == IInv /\ StopEnds /\ UNCHANGED captureVars => IInv'
  <1> SUFFICES ASSUME IInv, StopEnds, UNCHANGED captureVars PROVE IInv'
    OBVIOUS
  <1>0. /\ ControlInv /\ NumberInv /\ FileInv /\ HeardAudioIsKept /\ OutcomeInv
        /\ UNCHANGED <<cap, fatal, abort, stopping>>
    BY DEF IInv, captureVars
  <1> USE <1>0, CaptureAssumption DEF ControlInv, TypeInv, LockInv, StopInv, SinkInv,
        NewRecorder, StopEnds
  <1>1. ControlInv'
    OBVIOUS
  <1>2. NumberInv' /\ FileInv'
    BY DEF NumberInv, FileInv
  <1>3. HeardAudioIsKept' /\ OutcomeInv'
    BY DEF FileInv, HeardAudioIsKept, OutcomeInv, OutcomeIsHonest
  <1> QED BY ONLY <1>1, <1>2, <1>3 DEF IInv

--------------------------------------------------------------------------------
\* The session's steps touch the recorder only to begin its start and its stop.

\* A step that touches neither the recorder nor the capture, and no failed watcher.
LEMMA StutterPreserves ==
    ASSUME IInv, UNCHANGED <<recorderVars, cap, abort>>, stopping => stopping'
    PROVE  IInv'
  <1> USE DEF IInv, recorderVars
  <1>1. ControlInv'
    BY DEF ControlInv, TypeInv, LockInv, StopInv, SinkInv, NewRecorder
  <1>2. NumberInv' /\ FileInv' /\ HeardAudioIsKept'
    BY DEF NumberInv, FileInv, HeardAudioIsKept
  <1>3. OutcomeInv'
    BY DEF OutcomeInv, OutcomeIsHonest
  <1> QED BY <1>1, <1>2, <1>3

\* A step that moves the capture on, before its recorder is stopped.
LEMMA MovePreserves ==
    ASSUME IInv, NEW at \in Open \ {"offer", "features", "attach"},
           cap.at \in Open \cup {"connect"}, at = "create" <=> cap.at = "connect",
           cap' = [cap EXCEPT !.at = at], UNCHANGED <<recorderVars, abort, stopping>>
    PROVE  IInv'
  <1> USE DEF IInv, recorderVars, Open, Signaling, FollowedBy, ControlInv, TypeInv
  <1>1. ControlInv'
    BY DEF LockInv, StopInv, SinkInv, NewRecorder
  <1>2. NumberInv' /\ FileInv' /\ HeardAudioIsKept'
    BY DEF NumberInv, FileInv, HeardAudioIsKept
  <1>3. OutcomeInv'
    BY DEF OutcomeInv, OutcomeIsHonest
  <1> QED BY <1>1, <1>2, <1>3

LEMMA LeavePreserves ==
    ASSUME IInv, cap.at \in Open \cup {"connect"}, NEW error, Leave(error),
           error = None => stopping /\ abort = None
    PROVE  IInv'
  <1> USE CaptureAssumption DEF IInv, Leave, StartCancelled, ControlInv, TypeInv, NewRecorder
  <1>1. ControlInv'
    BY DEF LockInv, StopInv, SinkInv, Open, Signaling, FollowedBy
  <1>2. NumberInv' /\ FileInv'
    BY DEF NumberInv, FileInv
  <1>3. HeardAudioIsKept'
    BY DEF HeardAudioIsKept
  <1>4. OutcomeInv'
    BY DEF OutcomeInv, OutcomeIsHonest
  <1> QED BY ONLY <1>1, <1>2, <1>3, <1>4 DEF IInv

LEMMA ConnectPreserves == IInv /\ Connect => IInv'
  <1> SUFFICES ASSUME IInv, Connect PROVE IInv'
    OBVIOUS
  <1>1. CASE \E error \in ConnectErrors : Leave(error)
    BY <1>1, LeavePreserves, CaptureAssumption DEF Connect, ConnectErrors
  <1>2. CASE /\ cap' = [cap EXCEPT !.at = "create"]
             /\ UNCHANGED <<recorderVars, fatal, abort, stopping, ready>>
    BY <1>2, MovePreserves DEF Connect, Open, Signaling, FollowedBy
  <1> QED BY <1>1, <1>2 DEF Connect

\* The recorder is not started before the offer, so the offer's reply may ask for it.
LEMMA ReplyPreserves == IInv /\ Reply => IInv'
  <1> SUFFICES ASSUME IInv, Reply PROVE IInv'
    OBVIOUS
  <1> USE CaptureAssumption
      DEF IInv, Reply, ControlInv, TypeInv, NewRecorder, Signaling, FollowedBy
  <1>1. ControlInv'
    BY DEF LockInv, StopInv, SinkInv
  <1>2. NumberInv' /\ FileInv'
    BY DEF NumberInv, FileInv
  <1>3. HeardAudioIsKept'
    BY DEF HeardAudioIsKept
  <1>4. OutcomeInv'
    BY DEF OutcomeInv, OutcomeIsHonest
  <1> QED BY ONLY <1>1, <1>2, <1>3, <1>4 DEF IInv

LEMMA AudioSeenPreserves == IInv /\ AudioSeen => IInv'
  <1> SUFFICES ASSUME IInv, AudioSeen PROVE IInv'
    OBVIOUS
  <1>1. CASE Leave("noaudio")
    BY <1>1, LeavePreserves, CaptureAssumption DEF AudioSeen, Open
  <1>2. CASE /\ cap' = [cap EXCEPT !.at = "recording"]
             /\ UNCHANGED <<recorderVars, fatal, abort, stopping, ready>>
    BY <1>2, MovePreserves DEF AudioSeen, Open, Signaling, FollowedBy
  <1> QED BY <1>1, <1>2 DEF AudioSeen

LEMMA AnnounceFirstFramePreserves == IInv /\ AnnounceFirstFrame => IInv'
  <1> SUFFICES ASSUME IInv, AnnounceFirstFrame PROVE IInv'
    OBVIOUS
  <1> USE DEF IInv, AnnounceFirstFrame, ControlInv, TypeInv, NewRecorder
  <1>1. ControlInv'
    BY DEF LockInv, StopInv, SinkInv
  <1>2. NumberInv' /\ FileInv'
    BY DEF NumberInv, FileInv
  <1>3. HeardAudioIsKept'
    BY DEF HeardAudioIsKept
  <1>4. OutcomeInv'
    BY DEF OutcomeInv, OutcomeIsHonest
  <1> QED BY ONLY <1>1, <1>2, <1>3, <1>4 DEF IInv

--------------------------------------------------------------------------------
\* Between the sessions.

\* The end: a connection that failed without a recording, or a result that tells of an
\* interruption unless a stop request ended the last session.
LEMMA EndPreserves ==
    ASSUME IInv, cap.at \in {"closing", "backoff"}, rec.stop = "stopped",
           NEW outcome, NEW parts, NEW interrupted, End(outcome, parts, interrupted),
           outcome \in {"connection", "auth"} => heard = {},
           outcome = "returned" /\ abort # None => interrupted
    PROVE  IInv'
  <1>1. UNCHANGED <<recorderVars, abort, stopping>>
    BY DEF End
  <1>2. /\ DOMAIN cap' = DOMAIN cap /\ cap'.at = "over"
        /\ UNCHANGED <<cap.next, cap.reconnects, cap.origin>>
        /\ cap'.outcome \in {outcome, "noaudio"} /\ cap'.interrupted = interrupted
    BY DEF End, IInv, ControlInv, TypeInv
  <1>3. ControlInv'
    BY <1>1, <1>2 DEF IInv, ControlInv, TypeInv, LockInv, StopInv, SinkInv, recorderVars,
       NewRecorder
  <1>4. NumberInv' /\ FileInv' /\ HeardAudioIsKept'
    BY <1>1, <1>2 DEF IInv, NumberInv, FileInv, HeardAudioIsKept, recorderVars
  <1>5. OutcomeInv'
    BY <1>1, <1>2 DEF IInv, OutcomeInv, OutcomeIsHonest, recorderVars
  <1> QED BY <1>3, <1>4, <1>5 DEF IInv

\* A session that did not attach its recorder leaves the numbering where it was; one
\* that did is continued after its last part.
LEMMA RetryPreserves ==
    ASSUME IInv, cap.at = "closing", rec.stop = "stopped", NEW parts,
           cap' = [cap EXCEPT !.at = "backoff", !.parts = parts, !.error = None,
                       !.reconnects = @ + 1, !.origin = @ \/ rec.attached,
                       !.next = IF cap.origin \/ rec.attached THEN NextPart ELSE @],
           UNCHANGED <<recorderVars, fatal, abort, stopping, ready>>
    PROVE  IInv'
  <1>1. /\ DOMAIN cap' = DOMAIN cap /\ cap'.at = "backoff" /\ cap'.reconnects \in Nat
        /\ cap'.next = IF cap.origin \/ rec.attached THEN NextPart ELSE cap.next
        /\ UNCHANGED <<cap.outcome, cap.interrupted>>
    BY DEF IInv, ControlInv, TypeInv
  <1>2. cap'.origin <=> cap.origin \/ rec.attached
    BY DEF IInv, ControlInv, TypeInv
  <1>3. ControlInv'
    BY <1>1 DEF IInv, ControlInv, TypeInv, LockInv, StopInv, SinkInv, recorderVars, NewRecorder,
       NextPart
  <1>4. NumberInv'
    BY <1>1 DEF IInv, ControlInv, TypeInv, NumberInv, recorderVars, NextPart
  <1>5. FileInv' /\ HeardAudioIsKept'
    BY DEF IInv, FileInv, HeardAudioIsKept, recorderVars
  <1>6. OutcomeInv'
    BY <1>1, <1>2 DEF IInv, OutcomeInv, OutcomeIsHonest, recorderVars
  <1> QED BY <1>3, <1>4, <1>5, <1>6 DEF IInv

\* A first session that failed to connect and has no first frame has heard nothing, and
\* only a stop request ends a session without an error.
LEMMA SessionEndsPreserves == IInv /\ SessionEnds => IInv'
  <1> SUFFICES ASSUME IInv, SessionEnds PROVE IInv'
    OBVIOUS
  <1> DEFINE error == IF rec.raised # None THEN rec.raised ELSE cap.error
             parts == cap.parts \o rec.parts
  <1> HIDE DEF parts
  <1>0. cap.at = "closing" /\ rec.stop = "stopped"
    BY DEF SessionEnds
  <1>1. CASE (error \in {"local", "other"} \/ GivesUp(error)) /\ End(error, parts, FALSE)
    <2>1. error \in {"connection", "auth"} => heard = {}
      BY <1>1 DEF GivesUp, Reconnecting, IInv, OutcomeInv
    <2>2. error # "returned"
      BY <1>1 DEF GivesUp
    <2> HIDE DEF error
    <2> QED BY <1>0, <1>1, <2>1, <2>2, EndPreserves
  <1>2. CASE error = None /\ End("returned", parts, FALSE)
    <2>1. abort = None
      BY <1>0, <1>2, CaptureAssumption DEF IInv, OutcomeInv
    <2> QED BY <1>0, <1>2, <2>1, EndPreserves
  <1>3. CASE End("returned", parts, TRUE)
    BY <1>0, <1>3, EndPreserves
  <1>4. CASE /\ cap' = [cap EXCEPT !.at = "backoff", !.parts = parts, !.error = None,
                            !.reconnects = @ + 1, !.origin = @ \/ rec.attached,
                            !.next = IF cap.origin \/ rec.attached THEN NextPart ELSE @]
             /\ UNCHANGED <<recorderVars, fatal, abort, stopping, ready>>
    BY <1>0, <1>4, RetryPreserves
  <1> QED BY <1>1, <1>2, <1>3, <1>4 DEF SessionEnds, parts

\* The next session's recorder continues the numbering.
LEMMA BackoffEndsPreserves == IInv /\ BackoffEnds => IInv'
  <1> SUFFICES ASSUME IInv, BackoffEnds PROVE IInv'
    OBVIOUS
  <1>1. CASE stopping
    BY <1>1, EndPreserves DEF BackoffEnds, IInv, ControlInv, StopInv
  <1>2. CASE ~stopping
    <2> USE DEF IInv, ControlInv, TypeInv, NewRecorder
    <2>1. /\ rec' = NewRecorder(cap.next, cap.reconnects)
          /\ cap' = [cap EXCEPT !.at = "connect"]
          /\ UNCHANGED <<disk, heard, abort, stopping>>
      BY <1>2 DEF BackoffEnds
    <2>2. DOMAIN rec' = DOMAIN rec
      BY <2>1
    <2>3. ControlInv'
      BY <2>1, <2>2, CaptureAssumption DEF LockInv, StopInv, SinkInv, BackoffEnds
    <2>4. NumberInv'
      BY <2>1 DEF BackoffEnds, NumberInv
    <2>5. FileInv'
      BY <2>1 DEF FileInv
    <2>6. HeardAudioIsKept'
      BY <2>1 DEF HeardAudioIsKept
    <2>7. OutcomeInv'
      BY <2>1 DEF BackoffEnds, OutcomeInv, OutcomeIsHonest
    <2> QED BY ONLY <2>3, <2>4, <2>5, <2>6, <2>7 DEF IInv
  <1> QED BY <1>1, <1>2

\* A watcher that dies does so before the stop request, so no session has ended for it.
LEMMA StopWatcherDiesPreserves == IInv /\ StopWatcherDies => IInv'
  <1> SUFFICES ASSUME IInv, StopWatcherDies PROVE IInv'
    OBVIOUS
  <1> USE CaptureAssumption DEF IInv, StopWatcherDies, recorderVars
  <1>1. ControlInv'
    BY DEF ControlInv, TypeInv, LockInv, StopInv, SinkInv, NewRecorder
  <1>2. NumberInv' /\ FileInv' /\ HeardAudioIsKept'
    BY DEF NumberInv, FileInv, HeardAudioIsKept
  <1>3. OutcomeInv'
    BY DEF OutcomeInv, OutcomeIsHonest
  <1> QED BY ONLY <1>1, <1>2, <1>3 DEF IInv

--------------------------------------------------------------------------------

LEMMA NextPreserves == IInv /\ [Next]_vars => IInv'
  <1> SUFFICES ASSUME IInv, [Next]_vars PROVE IInv'
    OBVIOUS
  <1>1. CASE RecorderSteps /\ UNCHANGED captureVars
    BY <1>1, StartPreserves, StartEndsPreserves, RotateClosesPreserves, RotateOpensPreserves,
       RotateResumesPreserves, ForwardBackgroundFailurePreserves, ValidationFailsPreserves,
       PromotePreserves, PartPromotedPreserves, StopBeginsPreserves, StopClosesPreserves,
       StopJoinsPreserves, StopEndsPreserves DEF RecorderSteps
  <1>2. CASE RecorderEvents /\ UNCHANGED captureVars
    BY <1>2, FramePreserves, SourceEndsPreserves, RotatePreserves DEF RecorderEvents
  <1>3. CASE \/ Connect \/ Reply \/ AudioSeen \/ AnnounceFirstFrame
             \/ SessionEnds \/ BackoffEnds \/ StopWatcherDies
    BY <1>3, ConnectPreserves, ReplyPreserves, AudioSeenPreserves, AnnounceFirstFramePreserves,
       SessionEndsPreserves, BackoffEndsPreserves, StopWatcherDiesPreserves
  <1>4. CASE Unanswered \/ SignalingFailed \/ FailureSeen
    <2>1. cap.at \in Open
      BY <1>4 DEF Unanswered, SignalingFailed, FailureSeen, Open
    <2>2. \E error : error # None /\ Leave(error)
      BY <1>4, CaptureAssumption DEF Unanswered, SignalingFailed, FailureSeen
    <2> QED BY <2>1, <2>2, LeavePreserves
  <1>5. CASE StopSeen
    <2>1. stopping /\ abort = None /\ cap.at \in Open
      BY <1>5 DEF StopSeen, Failure, Open
    <2> QED BY <1>5, <2>1, LeavePreserves DEF StopSeen
  <1>6. CASE \/ StartFailureForwarded \/ ConnectionFails \/ HeartbeatFails
             \/ RequestStop \/ UNCHANGED vars
    <2>1. UNCHANGED <<recorderVars, cap, abort>> /\ (stopping => stopping')
      BY <1>6 DEF StartFailureForwarded, ConnectionFails, HeartbeatFails, SetFatal, RequestStop,
         vars, recorderVars
    <2> QED BY <2>1, StutterPreserves
  <1> QED BY <1>1, <1>2, <1>3, <1>4, <1>5, <1>6 DEF Next, SessionSteps

\* The inductive invariant holds throughout a capture (meeting/capture.py).
THEOREM CaptureInvariant == Spec => []IInv
  BY InitEstablishes, NextPreserves, PTL DEF Spec

\* Audio that was received stays on disk, in a finished part or in the unfinished file of
\* one, whatever rotates, reconnects, fails or stops (capture.py:610-652).
THEOREM HeardAudioIsAlwaysKept == Spec => []HeardAudioIsKept
  <1>1. IInv => HeardAudioIsKept
    BY DEF IInv
  <1> QED BY <1>1, CaptureInvariant, PTL

\* A capture that is over has no task or thread left that could call the worker or touch
\* a file (capture.py:474-543, 1104-1118).
THEOREM CaptureEndsQuiet == Spec => []QuietAfterwards
  <1>1. IInv => QuietAfterwards
    BY DEF IInv, ControlInv, LockInv, StopInv, QuietAfterwards
  <1> QED BY <1>1, CaptureInvariant, PTL

\* A capture reported as a failed connection received nothing, and one whose stop watcher
\* died is not called complete (capture.py:829-835, worker.py:439-447, 482-507).
THEOREM OutcomeIsAlwaysHonest == Spec => []OutcomeIsHonest
  <1>1. IInv => OutcomeIsHonest
    BY DEF IInv, OutcomeInv
  <1> QED BY <1>1, CaptureInvariant, PTL

--------------------------------------------------------------------------------
\* What a capture returns.

\* All parts that have been recorded so far, those of the running session included.
Recorded == IF cap.at \in {"backoff", "over"} THEN cap.parts ELSE cap.parts \o rec.parts

Records == [part : Nat, session : Nat]

\* A part waits for its promotion: it is open, closed or in the thread.
Pending(h) ==
    \/ rec.sink # "none" /\ h = Recording(rec)
    \/ rec.closed # None /\ h = Part(rec.closed, rec.session)
    \/ rec.promotion \in {"thread", "written"} /\ h = PromotedPart

\* A failure that will make the stop of this recorder raise, or did.
Doomed ==
    IF rec.stop = "stopped" THEN rec.raised = "local"
    ELSE rec.closeFailed \/ "failed" \in {rec.rotate, rec.promotion}

\* A promotion is over before the next one begins, and a part waits between its closing
\* and its promotion only inside a rotation or a stop.
PromotionInv ==
    /\ rec.rotate = "none" /\ rec.stop \in {"none", "locking", "closing"} => rec.promotion = "none"
    /\ rec.rotate \in {"sleeping", "closing", "opening"} => rec.promotion \in {"none", "done"}
    /\ rec.closed # None => rec.rotate = "opening" \/ rec.stop \in {"joining", "stopped"}
    /\ rec.closed # None /\ rec.stop = "stopped" => rec.raised = "local"
    /\ rec.stop = "closing" => rec.sink # "none"
    /\ rec.stop = "promoting" => ~rec.closeFailed /\ rec.rotate # "failed"
    /\ cap.outcome = "returned" \/ cap.at = "backoff" => rec.raised # "local"
    /\ rec.promotion = "written" => File("final", rec.promoting, rec.session) \in disk

\* The parts recorded are the finished ones of the parts heard, in order; every other
\* one is waiting, or the session will fail.
LedgerInv ==
    /\ cap.parts \in Seq(Records) /\ rec.parts \in Seq(Records)
    /\ handed = [i \in DOMAIN Recorded |-> Recorded[i].part]
    /\ \A i \in DOMAIN Recorded :
          /\ Recorded[i] \in heard
          /\ File("final", Recorded[i].part, Recorded[i].session) \in disk
    /\ \A i, j \in DOMAIN Recorded : i < j => Recorded[i].part < Recorded[j].part
    /\ \A h \in heard : Pending(h) \/ Doomed \/ \E i \in DOMAIN Recorded : Recorded[i] = h

\* What waits is later than what was recorded, and in the order it was closed.
OrderInv ==
    /\ \A i \in DOMAIN Recorded :
          /\ rec.sink # "none" => Recorded[i].part < rec.part
          /\ rec.closed # None => Recorded[i].part < rec.closed
          /\ rec.promotion \in {"thread", "written"} => Recorded[i].part < rec.promoting
    /\ rec.closed # None /\ rec.promotion \in {"thread", "written"} => rec.promoting < rec.closed

\* Readiness is announced by the first recorder that starts.
ReadyInv ==
    /\ ready \in {0, 1}
    /\ ready = 1 => cap.origin \/ rec.announce \in {"done", "failed"}
    /\ ready = 1 /\ cap.at = "backoff" => cap.origin
    /\ rec.start \in {"none", "wanted", "opening"} => rec.announce = "none"
    /\ rec.announce # "none" => rec.attached
    /\ cap.outcome = None => cap.at # "over"

\* The parts stay within the numbers a capture can reach.
BoundInv ==
    /\ cap.reconnects <= MaxReconnects
    /\ cap.next <= MaxPart + cap.reconnects
    /\ rec.part <= MaxPart + cap.reconnects
    /\ rec.sink # "none" => rec.part > 0
    /\ rec.start \in {"none", "wanted"} => ~rec.attached
    /\ rec.rotate = "closing" => rec.part < MaxPart
    /\ \A h \in heard : h.part \in 1..(MaxPart + cap.reconnects)

LInv == PromotionInv /\ LedgerInv /\ OrderInv /\ ReadyInv /\ BoundInv

LEMMA InitBalances == Init => LInv
  <1> SUFFICES ASSUME Init PROVE LInv
    OBVIOUS
  <1>1. Recorded = <<>>
    BY DEF Init, NewRecorder, Recorded
  <1>2. PromotionInv /\ ReadyInv /\ BoundInv /\ OrderInv
    BY <1>1, CaptureAssumption DEF Init, NewRecorder, PromotionInv, ReadyInv, BoundInv, OrderInv
  <1>3. LedgerInv
    BY <1>1 DEF Init, NewRecorder, LedgerInv
  <1> QED BY <1>2, <1>3 DEF LInv

\* A step that records no part.
LEMMA LedgerKept ==
    ASSUME LedgerInv, Recorded' = Recorded, handed' = handed, heard \subseteq heard',
           cap'.parts \in Seq(Records), rec'.parts \in Seq(Records),
           \A i \in DOMAIN Recorded :
              File("final", Recorded[i].part, Recorded[i].session) \in disk',
           \A h \in heard' : Pending(h)' \/ Doomed' \/ (h \in heard /\ ~Pending(h) /\ ~Doomed)
    PROVE  LedgerInv'
  BY DEF LedgerInv

\* A step that leaves the parts alone, the open one and the waiting ones too.
Waiting == <<rec.sink = "none", rec.part, rec.session, rec.closed, rec.promotion, rec.promoting,
             rec.parts, cap.parts, cap.at \in {"backoff", "over"}, handed, heard, disk>>

LEMMA WaitingKept ==
    ASSUME LedgerInv, OrderInv, UNCHANGED Waiting, Doomed => Doomed'
    PROVE  LedgerInv' /\ OrderInv'
  <1>1. Recorded' = Recorded
    BY DEF Waiting, Recorded
  <1>2. \A h \in heard : Pending(h) => Pending(h)'
    BY DEF Waiting, Pending, PromotedPart
  <1>3. LedgerInv'
    BY <1>1, <1>2 DEF LedgerInv, Waiting
  <1>4. OrderInv'
    BY <1>1 DEF OrderInv, Waiting
  <1> QED BY <1>3, <1>4

\* Parts that were recorded are not later than the last one.
LEMMA RecordedBefore ==
    ASSUME IInv, LInv
    PROVE  \A i \in DOMAIN Recorded : Recorded[i].part \in Nat /\ Recorded[i].part <= rec.part
  BY DEF IInv, ControlInv, TypeInv, NumberInv, LInv, LedgerInv

\* The recorder's steps between the opening, the closing and the promotion of a part.
LEMMA QuietStepsBalance ==
    ASSUME IInv, LInv, UNCHANGED captureVars,
           StartEnds \/ SourceEnds \/ ForwardBackgroundFailure \/ Rotate \/ RotateResumes
              \/ StopBegins
    PROVE  LInv'
  <1> DEFINE Quiet == /\ PromotionInv' /\ ReadyInv' /\ BoundInv'
                      /\ UNCHANGED Waiting /\ (Doomed => Doomed')
  <1>0. /\ TypeInv /\ LockInv /\ StopInv /\ SinkInv /\ PromotionInv /\ ReadyInv /\ BoundInv
        /\ UNCHANGED <<cap, ready>>
    BY DEF IInv, ControlInv, LInv, captureVars
  <1> USE <1>0, CaptureAssumption DEF TypeInv, LockInv, StopInv, SinkInv, NewRecorder
  <1>1. ASSUME StartEnds PROVE Quiet
    <2>1. CASE rec' = [rec EXCEPT !.start = "done", !.lock = None, !.sink = "open",
                                 !.rotate = "sleeping", !.announce = "waiting"]
      <3> USE <1>1, <2>1 DEF StartEnds
      <3>1. PromotionInv'
        BY DEF PromotionInv
      <3>2. UNCHANGED Waiting
        BY DEF Waiting
      <3>3. Doomed => Doomed'
        BY DEF Doomed, PromotionInv
      <3>4. ReadyInv' /\ BoundInv'
        BY DEF ReadyInv, BoundInv
      <3> QED BY ONLY <3>1, <3>2, <3>3, <3>4
    <2>2. CASE rec' = [rec EXCEPT !.start = "failed", !.lock = None]
      <3> USE <1>1, <2>2 DEF StartEnds
      <3>1. PromotionInv'
        BY DEF PromotionInv
      <3>2. UNCHANGED Waiting
        BY DEF Waiting
      <3>3. Doomed => Doomed'
        BY DEF Doomed, PromotionInv
      <3>4. ReadyInv' /\ BoundInv'
        BY DEF ReadyInv, BoundInv
      <3> QED BY ONLY <3>1, <3>2, <3>3, <3>4
    <2> QED BY ONLY <1>1, <2>1, <2>2 DEF StartEnds
  <1>2. ASSUME SourceEnds PROVE Quiet
    <2> USE <1>2 DEF SourceEnds
    <2>1. PromotionInv'
      BY DEF PromotionInv
    <2>2. UNCHANGED Waiting
      BY DEF Waiting
    <2>3. Doomed => Doomed'
      BY DEF Doomed, PromotionInv
    <2>4. ReadyInv' /\ BoundInv'
      BY DEF ReadyInv, BoundInv
    <2> QED BY ONLY <2>1, <2>2, <2>3, <2>4
  <1>3. ASSUME ForwardBackgroundFailure PROVE Quiet
    <2> USE <1>3 DEF ForwardBackgroundFailure
    <2>1. PromotionInv'
      BY DEF PromotionInv
    <2>2. UNCHANGED Waiting
      BY DEF Waiting
    <2>3. Doomed => Doomed'
      BY DEF Doomed, PromotionInv
    <2>4. ReadyInv' /\ BoundInv'
      BY DEF ReadyInv, BoundInv
    <2> QED BY ONLY <2>1, <2>2, <2>3, <2>4
  <1>4. ASSUME Rotate PROVE Quiet
    <2> USE <1>4 DEF Rotate
    <2>1. PromotionInv'
      BY DEF PromotionInv
    <2>2. UNCHANGED Waiting
      BY DEF Waiting
    <2>3. Doomed => Doomed'
      BY DEF Doomed, PromotionInv
    <2>4. ReadyInv' /\ BoundInv'
      BY DEF ReadyInv, BoundInv
    <2> QED BY ONLY <2>1, <2>2, <2>3, <2>4
  <1>5. ASSUME RotateResumes PROVE Quiet
    <2> USE <1>5 DEF RotateResumes
    <2>1. PromotionInv'
      BY DEF PromotionInv
    <2>2. UNCHANGED Waiting
      BY DEF Waiting
    <2>3. Doomed => Doomed'
      BY DEF Doomed, PromotionInv
    <2>4. ReadyInv' /\ BoundInv'
      BY DEF ReadyInv, BoundInv
    <2> QED BY ONLY <2>1, <2>2, <2>3, <2>4
  <1>6. ASSUME StopBegins PROVE Quiet
    <2> USE <1>6 DEF StopBegins, BackgroundCancelled
    <2>1. PromotionInv'
      BY DEF PromotionInv
    <2>2. UNCHANGED Waiting
      BY DEF Waiting
    <2>3. Doomed => Doomed'
      BY DEF Doomed, PromotionInv
    <2>4. ReadyInv' /\ BoundInv'
      BY DEF ReadyInv, BoundInv
    <2> QED BY ONLY <2>1, <2>2, <2>3, <2>4
  <1>7. Quiet
    BY ONLY <1>1, <1>2, <1>3, <1>4, <1>5, <1>6, StartEnds \/ SourceEnds
              \/ ForwardBackgroundFailure \/ Rotate \/ RotateResumes \/ StopBegins
  <1> QED BY ONLY <1>7, LInv, WaitingKept DEF LInv

\* The steps that open, close and promote a part.

\* A start opens a part later than all recorded ones.
LEMMA StartBalances == IInv /\ LInv /\ Start /\ UNCHANGED captureVars => LInv'
  <1> SUFFICES ASSUME IInv, LInv, Start, UNCHANGED captureVars PROVE LInv'
    OBVIOUS
  <1>0. /\ TypeInv /\ LockInv /\ StopInv /\ SinkInv /\ NumberInv /\ FileInv
        /\ PromotionInv /\ LedgerInv /\ OrderInv /\ ReadyInv /\ BoundInv
        /\ UNCHANGED <<cap, ready>>
        /\ \A i \in DOMAIN Recorded : Recorded[i].part \in Nat /\ Recorded[i].part <= rec.part
    BY RecordedBefore DEF IInv, ControlInv, LInv, captureVars
  <1>1. CASE rec' = [[rec EXCEPT !.attached = TRUE]
                      EXCEPT !.start = "failed", !.fatal = "connection"] /\ UNCHANGED disk
    <2> USE <1>0, <1>1, CaptureAssumption
          DEF TypeInv, LockInv, StopInv, SinkInv, NewRecorder, Start, Opening, NotOpened
    <2>1. PromotionInv'
      BY DEF PromotionInv, FileInv
    <2>2. ReadyInv' /\ BoundInv'
      BY DEF ReadyInv, BoundInv, NumberInv
    <2>3. Recorded' = Recorded /\ handed' = handed /\ heard \subseteq heard'
             /\ UNCHANGED <<cap.parts, rec.parts>>
      BY DEF Recorded
    <2>4. OrderInv'
      BY <2>3 DEF OrderInv, NumberInv, FileInv, PromotionInv
    <2>5. \A i \in DOMAIN Recorded :
               File("final", Recorded[i].part, Recorded[i].session) \in disk'
      BY DEF OrderInv, LedgerInv
    <2>6. \A h \in heard' : Pending(h)' \/ Doomed' \/ (h \in heard /\ ~Pending(h) /\ ~Doomed)
      BY DEF Pending, Doomed, PromotedPart, PromotionInv, BoundInv
    <2> QED BY ONLY <2>1, <2>2, <2>3, <2>4, <2>5, <2>6, LInv, LedgerKept DEF LInv, LedgerInv
  <1>2. CASE /\ rec' = [Opening([rec EXCEPT !.attached = TRUE])
                         EXCEPT !.start = "opening", !.lock = "start"]
             /\ disk' = disk \cup {Partial(rec')}
    <2> USE <1>0, <1>2, CaptureAssumption
          DEF TypeInv, LockInv, StopInv, SinkInv, NewRecorder, Start, Opening, NotOpened
    <2>1. PromotionInv'
      BY DEF PromotionInv, FileInv
    <2>2. ReadyInv' /\ BoundInv'
      BY DEF ReadyInv, BoundInv, NumberInv
    <2>3. Recorded' = Recorded /\ handed' = handed /\ heard \subseteq heard'
             /\ UNCHANGED <<cap.parts, rec.parts>>
      BY DEF Recorded
    <2>4. OrderInv'
      BY <2>3 DEF OrderInv, NumberInv, FileInv, PromotionInv
    <2>5. \A i \in DOMAIN Recorded :
               File("final", Recorded[i].part, Recorded[i].session) \in disk'
      BY DEF OrderInv, LedgerInv
    <2>6. \A h \in heard' : Pending(h)' \/ Doomed' \/ (h \in heard /\ ~Pending(h) /\ ~Doomed)
      BY DEF Pending, Doomed, PromotedPart, PromotionInv, BoundInv
    <2> QED BY ONLY <2>1, <2>2, <2>3, <2>4, <2>5, <2>6, LInv, LedgerKept DEF LInv, LedgerInv
  <1>3. CASE rec' = [NotOpened([rec EXCEPT !.attached = TRUE]) EXCEPT !.start = "failed"]
             /\ UNCHANGED disk
    <2> USE <1>0, <1>3, CaptureAssumption
          DEF TypeInv, LockInv, StopInv, SinkInv, NewRecorder, Start, Opening, NotOpened
    <2>1. PromotionInv'
      BY DEF PromotionInv, FileInv
    <2>2. ReadyInv' /\ BoundInv'
      BY DEF ReadyInv, BoundInv, NumberInv
    <2>3. Recorded' = Recorded /\ handed' = handed /\ heard \subseteq heard'
             /\ UNCHANGED <<cap.parts, rec.parts>>
      BY DEF Recorded
    <2>4. OrderInv'
      BY <2>3 DEF OrderInv, NumberInv, FileInv, PromotionInv
    <2>5. \A i \in DOMAIN Recorded :
               File("final", Recorded[i].part, Recorded[i].session) \in disk'
      BY DEF OrderInv, LedgerInv
    <2>6. \A h \in heard' : Pending(h)' \/ Doomed' \/ (h \in heard /\ ~Pending(h) /\ ~Doomed)
      BY DEF Pending, Doomed, PromotedPart, PromotionInv, BoundInv
    <2> QED BY ONLY <2>1, <2>2, <2>3, <2>4, <2>5, <2>6, LInv, LedgerKept DEF LInv, LedgerInv
  <1> QED BY ONLY <1>1, <1>2, <1>3, Start DEF Start

\* The part of a first frame is open.
LEMMA FrameBalances == IInv /\ LInv /\ Frame /\ UNCHANGED captureVars => LInv'
  <1> SUFFICES ASSUME IInv, LInv, Frame, UNCHANGED captureVars PROVE LInv'
    OBVIOUS
  <1>0. /\ TypeInv /\ LockInv /\ StopInv /\ SinkInv /\ NumberInv /\ FileInv
        /\ PromotionInv /\ LedgerInv /\ OrderInv /\ ReadyInv /\ BoundInv
        /\ UNCHANGED <<cap, ready>>
        /\ \A i \in DOMAIN Recorded : Recorded[i].part \in Nat /\ Recorded[i].part <= rec.part
    BY RecordedBefore DEF IInv, ControlInv, LInv, captureVars
  <1> USE <1>0, CaptureAssumption
        DEF TypeInv, LockInv, StopInv, SinkInv, NewRecorder, Frame
  <1>1. PromotionInv'
    BY DEF PromotionInv, FileInv
  <1>2. ReadyInv' /\ BoundInv'
    BY DEF ReadyInv, BoundInv, NumberInv
  <1>3. Recorded' = Recorded /\ handed' = handed /\ heard \subseteq heard'
           /\ UNCHANGED <<cap.parts, rec.parts>>
    BY DEF Recorded
  <1>4. OrderInv'
    BY <1>3 DEF OrderInv, NumberInv, FileInv, PromotionInv
  <1>5. \A i \in DOMAIN Recorded :
             File("final", Recorded[i].part, Recorded[i].session) \in disk'
    BY DEF OrderInv, LedgerInv
  <1>6. \A h \in heard' : Pending(h)' \/ Doomed' \/ (h \in heard /\ ~Pending(h) /\ ~Doomed)
    BY DEF Pending, Doomed, PromotedPart, PromotionInv, BoundInv
  <1> QED BY ONLY <1>1, <1>2, <1>3, <1>4, <1>5, <1>6, LInv, LedgerKept DEF LInv, LedgerInv

\* A closed part with audio waits for its promotion, or the session will fail.
LEMMA RotateClosesBalances == IInv /\ LInv /\ RotateCloses /\ UNCHANGED captureVars => LInv'
  <1> SUFFICES ASSUME IInv, LInv, RotateCloses, UNCHANGED captureVars PROVE LInv'
    OBVIOUS
  <1>0. /\ TypeInv /\ LockInv /\ StopInv /\ SinkInv /\ NumberInv /\ FileInv
        /\ PromotionInv /\ LedgerInv /\ OrderInv /\ ReadyInv /\ BoundInv
        /\ UNCHANGED <<cap, ready>>
        /\ \A i \in DOMAIN Recorded : Recorded[i].part \in Nat /\ Recorded[i].part <= rec.part
    BY RecordedBefore DEF IInv, ControlInv, LInv, captureVars
  <1>1. CASE rec' = [rec EXCEPT !.rotate = "failed", !.lock = None, !.sink = "none"]
             /\ UNCHANGED disk
    <2> USE <1>0, <1>1, CaptureAssumption
          DEF TypeInv, LockInv, StopInv, SinkInv, NewRecorder, RotateCloses, ClosedPart, Opening,
              NotOpened, Unlinked, Rotated,
        Promoting
    <2>1. PromotionInv'
      BY DEF PromotionInv, FileInv
    <2>2. ReadyInv' /\ BoundInv'
      BY DEF ReadyInv, BoundInv, NumberInv
    <2>3. Recorded' = Recorded /\ handed' = handed /\ heard \subseteq heard'
             /\ UNCHANGED <<cap.parts, rec.parts>>
      BY DEF Recorded
    <2>4. OrderInv'
      BY <2>3 DEF OrderInv, NumberInv, FileInv, PromotionInv
    <2>5. \A i \in DOMAIN Recorded :
               File("final", Recorded[i].part, Recorded[i].session) \in disk'
      BY DEF OrderInv, LedgerInv
    <2>6. \A h \in heard' : Pending(h)' \/ Doomed' \/ (h \in heard /\ ~Pending(h) /\ ~Doomed)
      BY DEF Pending, Doomed, PromotedPart, PromotionInv, BoundInv
    <2> QED BY ONLY <2>1, <2>2, <2>3, <2>4, <2>5, <2>6, LInv, LedgerKept DEF LInv, LedgerInv
  <1>2. CASE /\ rec' = [Opening([rec EXCEPT !.closed = ClosedPart]) EXCEPT !.rotate = "opening"]
             /\ disk' = Unlinked \cup {Partial(rec')}
    <2> USE <1>0, <1>2, CaptureAssumption
          DEF TypeInv, LockInv, StopInv, SinkInv, NewRecorder, RotateCloses, ClosedPart, Opening,
              NotOpened, Unlinked, Rotated,
        Promoting
    <2>1. PromotionInv'
      BY DEF PromotionInv, FileInv
    <2>2. ReadyInv' /\ BoundInv'
      BY DEF ReadyInv, BoundInv, NumberInv
    <2>3. Recorded' = Recorded /\ handed' = handed /\ heard \subseteq heard'
             /\ UNCHANGED <<cap.parts, rec.parts>>
      BY DEF Recorded
    <2>4. OrderInv'
      BY <2>3 DEF OrderInv, NumberInv, FileInv, PromotionInv
    <2>5. \A i \in DOMAIN Recorded :
               File("final", Recorded[i].part, Recorded[i].session) \in disk'
      BY DEF OrderInv, LedgerInv
    <2>6. \A h \in heard' : Pending(h)' \/ Doomed' \/ (h \in heard /\ ~Pending(h) /\ ~Doomed)
      BY DEF Pending, Doomed, PromotedPart, PromotionInv, BoundInv
    <2> QED BY ONLY <2>1, <2>2, <2>3, <2>4, <2>5, <2>6, LInv, LedgerKept DEF LInv, LedgerInv
  <1>3. CASE rec' = Rotated(NotOpened([rec EXCEPT !.closed = ClosedPart]), TRUE)
             /\ disk' = Unlinked
    <2> USE <1>0, <1>3, CaptureAssumption
          DEF TypeInv, LockInv, StopInv, SinkInv, NewRecorder, RotateCloses, ClosedPart, Opening,
              NotOpened, Unlinked, Rotated,
        Promoting
    <2>1. PromotionInv'
      BY DEF PromotionInv, FileInv
    <2>2. ReadyInv' /\ BoundInv'
      BY DEF ReadyInv, BoundInv, NumberInv
    <2>3. Recorded' = Recorded /\ handed' = handed /\ heard \subseteq heard'
             /\ UNCHANGED <<cap.parts, rec.parts>>
      BY DEF Recorded
    <2>4. OrderInv'
      BY <2>3 DEF OrderInv, NumberInv, FileInv, PromotionInv
    <2>5. \A i \in DOMAIN Recorded :
               File("final", Recorded[i].part, Recorded[i].session) \in disk'
      BY DEF OrderInv, LedgerInv
    <2>6. \A h \in heard' : Pending(h)' \/ Doomed' \/ (h \in heard /\ ~Pending(h) /\ ~Doomed)
      BY DEF Pending, Doomed, PromotedPart, PromotionInv, BoundInv
    <2> QED BY ONLY <2>1, <2>2, <2>3, <2>4, <2>5, <2>6, LInv, LedgerKept DEF LInv, LedgerInv
  <1> QED BY ONLY <1>1, <1>2, <1>3, RotateCloses DEF RotateCloses

\* The closed part goes to the thread once the one before is recorded.
LEMMA RotateOpensBalances == IInv /\ LInv /\ RotateOpens /\ UNCHANGED captureVars => LInv'
  <1> SUFFICES ASSUME IInv, LInv, RotateOpens, UNCHANGED captureVars PROVE LInv'
    OBVIOUS
  <1>0. /\ TypeInv /\ LockInv /\ StopInv /\ SinkInv /\ NumberInv /\ FileInv
        /\ PromotionInv /\ LedgerInv /\ OrderInv /\ ReadyInv /\ BoundInv
        /\ UNCHANGED <<cap, ready>>
        /\ \A i \in DOMAIN Recorded : Recorded[i].part \in Nat /\ Recorded[i].part <= rec.part
    BY RecordedBefore DEF IInv, ControlInv, LInv, captureVars
  <1>1. CASE rec' = Rotated([rec EXCEPT !.sink = "open"], FALSE)
    <2> USE <1>0, <1>1, CaptureAssumption
          DEF TypeInv, LockInv, StopInv, SinkInv, NewRecorder, RotateOpens, Rotated, Promoting
    <2>1. PromotionInv'
      BY DEF PromotionInv, FileInv
    <2>2. ReadyInv' /\ BoundInv'
      BY DEF ReadyInv, BoundInv, NumberInv
    <2>3. Recorded' = Recorded /\ handed' = handed /\ heard \subseteq heard'
             /\ UNCHANGED <<cap.parts, rec.parts>>
      BY DEF Recorded
    <2>4. OrderInv'
      BY <2>3 DEF OrderInv, NumberInv, FileInv, PromotionInv
    <2>5. \A i \in DOMAIN Recorded :
               File("final", Recorded[i].part, Recorded[i].session) \in disk'
      BY DEF OrderInv, LedgerInv
    <2>6. \A h \in heard' : Pending(h)' \/ Doomed' \/ (h \in heard /\ ~Pending(h) /\ ~Doomed)
      BY DEF Pending, Doomed, PromotedPart, PromotionInv, BoundInv
    <2> QED BY ONLY <2>1, <2>2, <2>3, <2>4, <2>5, <2>6, LInv, LedgerKept DEF LInv, LedgerInv
  <1>2. CASE rec' = Rotated(rec, TRUE)
    <2> USE <1>0, <1>2, CaptureAssumption
          DEF TypeInv, LockInv, StopInv, SinkInv, NewRecorder, RotateOpens, Rotated, Promoting
    <2>1. PromotionInv'
      BY DEF PromotionInv, FileInv
    <2>2. ReadyInv' /\ BoundInv'
      BY DEF ReadyInv, BoundInv, NumberInv
    <2>3. Recorded' = Recorded /\ handed' = handed /\ heard \subseteq heard'
             /\ UNCHANGED <<cap.parts, rec.parts>>
      BY DEF Recorded
    <2>4. OrderInv'
      BY <2>3 DEF OrderInv, NumberInv, FileInv, PromotionInv
    <2>5. \A i \in DOMAIN Recorded :
               File("final", Recorded[i].part, Recorded[i].session) \in disk'
      BY DEF OrderInv, LedgerInv
    <2>6. \A h \in heard' : Pending(h)' \/ Doomed' \/ (h \in heard /\ ~Pending(h) /\ ~Doomed)
      BY DEF Pending, Doomed, PromotedPart, PromotionInv, BoundInv
    <2> QED BY ONLY <2>1, <2>2, <2>3, <2>4, <2>5, <2>6, LInv, LedgerKept DEF LInv, LedgerInv
  <1> QED BY ONLY <1>1, <1>2, RotateOpens DEF RotateOpens

\* A part that cannot be validated makes the session fail.
LEMMA ValidationFailsBalances == IInv /\ LInv /\ ValidationFails /\ UNCHANGED captureVars => LInv'
  <1> SUFFICES ASSUME IInv, LInv, ValidationFails, UNCHANGED captureVars PROVE LInv'
    OBVIOUS
  <1>0. /\ TypeInv /\ LockInv /\ StopInv /\ SinkInv /\ NumberInv /\ FileInv
        /\ PromotionInv /\ LedgerInv /\ OrderInv /\ ReadyInv /\ BoundInv
        /\ UNCHANGED <<cap, ready>>
        /\ \A i \in DOMAIN Recorded : Recorded[i].part \in Nat /\ Recorded[i].part <= rec.part
    BY RecordedBefore DEF IInv, ControlInv, LInv, captureVars
  <1> USE <1>0, CaptureAssumption
        DEF TypeInv, LockInv, StopInv, SinkInv, NewRecorder, ValidationFails
  <1>1. PromotionInv'
    BY DEF PromotionInv, FileInv
  <1>2. ReadyInv' /\ BoundInv'
    BY DEF ReadyInv, BoundInv, NumberInv
  <1>3. Recorded' = Recorded /\ handed' = handed /\ heard \subseteq heard'
           /\ UNCHANGED <<cap.parts, rec.parts>>
    BY DEF Recorded
  <1>4. OrderInv'
    BY <1>3 DEF OrderInv, NumberInv, FileInv, PromotionInv
  <1>5. \A i \in DOMAIN Recorded :
             File("final", Recorded[i].part, Recorded[i].session) \in disk'
    BY DEF OrderInv, LedgerInv
  <1>6. \A h \in heard' : Pending(h)' \/ Doomed' \/ (h \in heard /\ ~Pending(h) /\ ~Doomed)
    BY DEF Pending, Doomed, PromotedPart, PromotionInv, BoundInv
  <1> QED BY ONLY <1>1, <1>2, <1>3, <1>4, <1>5, <1>6, LInv, LedgerKept DEF LInv, LedgerInv

\* The renamed file replaces no other recorded part.
LEMMA PromoteBalances == IInv /\ LInv /\ Promote /\ UNCHANGED captureVars => LInv'
  <1> SUFFICES ASSUME IInv, LInv, Promote, UNCHANGED captureVars PROVE LInv'
    OBVIOUS
  <1>0. /\ TypeInv /\ LockInv /\ StopInv /\ SinkInv /\ NumberInv /\ FileInv
        /\ PromotionInv /\ LedgerInv /\ OrderInv /\ ReadyInv /\ BoundInv
        /\ UNCHANGED <<cap, ready>>
        /\ \A i \in DOMAIN Recorded : Recorded[i].part \in Nat /\ Recorded[i].part <= rec.part
    BY RecordedBefore DEF IInv, ControlInv, LInv, captureVars
  <1>1. CASE rec' = [rec EXCEPT !.promotion = "written"] /\ disk' = Renamed
    <2> USE <1>0, <1>1, CaptureAssumption
          DEF TypeInv, LockInv, StopInv, SinkInv, NewRecorder, Promote, Renamed
    <2>1. PromotionInv'
      BY DEF PromotionInv, FileInv
    <2>2. ReadyInv' /\ BoundInv'
      BY DEF ReadyInv, BoundInv, NumberInv
    <2>3. Recorded' = Recorded /\ handed' = handed /\ heard \subseteq heard'
             /\ UNCHANGED <<cap.parts, rec.parts>>
      BY DEF Recorded
    <2>4. OrderInv'
      BY <2>3 DEF OrderInv, NumberInv, FileInv, PromotionInv
    <2>5. \A i \in DOMAIN Recorded :
               File("final", Recorded[i].part, Recorded[i].session) \in disk'
      BY DEF OrderInv, LedgerInv
    <2>6. \A h \in heard' : Pending(h)' \/ Doomed' \/ (h \in heard /\ ~Pending(h) /\ ~Doomed)
      BY DEF Pending, Doomed, PromotedPart, PromotionInv, BoundInv
    <2> QED BY ONLY <2>1, <2>2, <2>3, <2>4, <2>5, <2>6, LInv, LedgerKept DEF LInv, LedgerInv
  <1>2. CASE rec' = [rec EXCEPT !.promotion = "failed"] /\ disk' \in {Renamed, disk}
    <2> USE <1>0, <1>2, CaptureAssumption
          DEF TypeInv, LockInv, StopInv, SinkInv, NewRecorder, Promote, Renamed
    <2>1. PromotionInv'
      BY DEF PromotionInv, FileInv
    <2>2. ReadyInv' /\ BoundInv'
      BY DEF ReadyInv, BoundInv, NumberInv
    <2>3. Recorded' = Recorded /\ handed' = handed /\ heard \subseteq heard'
             /\ UNCHANGED <<cap.parts, rec.parts>>
      BY DEF Recorded
    <2>4. OrderInv'
      BY <2>3 DEF OrderInv, NumberInv, FileInv, PromotionInv
    <2>5. \A i \in DOMAIN Recorded :
               File("final", Recorded[i].part, Recorded[i].session) \in disk'
      BY DEF OrderInv, LedgerInv
    <2>6. \A h \in heard' : Pending(h)' \/ Doomed' \/ (h \in heard /\ ~Pending(h) /\ ~Doomed)
      BY DEF Pending, Doomed, PromotedPart, PromotionInv, BoundInv
    <2> QED BY ONLY <2>1, <2>2, <2>3, <2>4, <2>5, <2>6, LInv, LedgerKept DEF LInv, LedgerInv
  <1> QED BY ONLY <1>1, <1>2, Promote DEF Promote

\* The last part is closed with its audio, or the session will fail.
LEMMA StopClosesBalances == IInv /\ LInv /\ StopCloses /\ UNCHANGED captureVars => LInv'
  <1> SUFFICES ASSUME IInv, LInv, StopCloses, UNCHANGED captureVars PROVE LInv'
    OBVIOUS
  <1>0. /\ TypeInv /\ LockInv /\ StopInv /\ SinkInv /\ NumberInv /\ FileInv
        /\ PromotionInv /\ LedgerInv /\ OrderInv /\ ReadyInv /\ BoundInv
        /\ UNCHANGED <<cap, ready>>
        /\ \A i \in DOMAIN Recorded : Recorded[i].part \in Nat /\ Recorded[i].part <= rec.part
    BY RecordedBefore DEF IInv, ControlInv, LInv, captureVars
  <1>1. CASE rec' = [[rec EXCEPT !.stop = "joining", !.sink = "none", !.lock = None]
                      EXCEPT !.closeFailed = TRUE] /\ UNCHANGED disk
    <2> USE <1>0, <1>1, CaptureAssumption
          DEF TypeInv, LockInv, StopInv, SinkInv, NewRecorder, StopCloses, ClosedPart, Unlinked
    <2>1. PromotionInv'
      BY DEF PromotionInv, FileInv
    <2>2. ReadyInv' /\ BoundInv'
      BY DEF ReadyInv, BoundInv, NumberInv
    <2>3. Recorded' = Recorded /\ handed' = handed /\ heard \subseteq heard'
             /\ UNCHANGED <<cap.parts, rec.parts>>
      BY DEF Recorded
    <2>4. OrderInv'
      BY <2>3 DEF OrderInv, NumberInv, FileInv, PromotionInv
    <2>5. \A i \in DOMAIN Recorded :
               File("final", Recorded[i].part, Recorded[i].session) \in disk'
      BY DEF OrderInv, LedgerInv
    <2>6. \A h \in heard' : Pending(h)' \/ Doomed' \/ (h \in heard /\ ~Pending(h) /\ ~Doomed)
      BY DEF Pending, Doomed, PromotedPart, PromotionInv, BoundInv
    <2> QED BY ONLY <2>1, <2>2, <2>3, <2>4, <2>5, <2>6, LInv, LedgerKept DEF LInv, LedgerInv
  <1>2. CASE rec' = [[rec EXCEPT !.stop = "joining", !.sink = "none", !.lock = None]
                      EXCEPT !.closed = ClosedPart] /\ disk' = Unlinked
    <2> USE <1>0, <1>2, CaptureAssumption
          DEF TypeInv, LockInv, StopInv, SinkInv, NewRecorder, StopCloses, ClosedPart, Unlinked
    <2>1. PromotionInv'
      BY DEF PromotionInv, FileInv
    <2>2. ReadyInv' /\ BoundInv'
      BY DEF ReadyInv, BoundInv, NumberInv
    <2>3. Recorded' = Recorded /\ handed' = handed /\ heard \subseteq heard'
             /\ UNCHANGED <<cap.parts, rec.parts>>
      BY DEF Recorded
    <2>4. OrderInv'
      BY <2>3 DEF OrderInv, NumberInv, FileInv, PromotionInv
    <2>5. \A i \in DOMAIN Recorded :
               File("final", Recorded[i].part, Recorded[i].session) \in disk'
      BY DEF OrderInv, LedgerInv
    <2>6. \A h \in heard' : Pending(h)' \/ Doomed' \/ (h \in heard /\ ~Pending(h) /\ ~Doomed)
      BY DEF Pending, Doomed, PromotedPart, PromotionInv, BoundInv
    <2> QED BY ONLY <2>1, <2>2, <2>3, <2>4, <2>5, <2>6, LInv, LedgerKept DEF LInv, LedgerInv
  <1> QED BY ONLY <1>1, <1>2, StopCloses DEF StopCloses

\* The stop raises if a part is lost, and promotes the last one if none is.
LEMMA StopJoinsBalances == IInv /\ LInv /\ StopJoins /\ UNCHANGED captureVars => LInv'
  <1> SUFFICES ASSUME IInv, LInv, StopJoins, UNCHANGED captureVars PROVE LInv'
    OBVIOUS
  <1>0. /\ TypeInv /\ LockInv /\ StopInv /\ SinkInv /\ NumberInv /\ FileInv
        /\ PromotionInv /\ LedgerInv /\ OrderInv /\ ReadyInv /\ BoundInv
        /\ UNCHANGED <<cap, ready>>
        /\ \A i \in DOMAIN Recorded : Recorded[i].part \in Nat /\ Recorded[i].part <= rec.part
    BY RecordedBefore DEF IInv, ControlInv, LInv, captureVars
  <1>1. CASE FailedLocally
    <2> USE <1>0, <1>1, CaptureAssumption
          DEF TypeInv, LockInv, StopInv, SinkInv, NewRecorder, StopJoins, BackgroundJoined,
              FailedLocally, NothingLeft,
        Promoting
    <2>1. PromotionInv'
      BY DEF PromotionInv, FileInv
    <2>2. ReadyInv' /\ BoundInv'
      BY DEF ReadyInv, BoundInv, NumberInv
    <2>3. Recorded' = Recorded /\ handed' = handed /\ heard \subseteq heard'
             /\ UNCHANGED <<cap.parts, rec.parts>>
      BY DEF Recorded
    <2>4. OrderInv'
      BY <2>3 DEF OrderInv, NumberInv, FileInv, PromotionInv
    <2>5. \A i \in DOMAIN Recorded :
               File("final", Recorded[i].part, Recorded[i].session) \in disk'
      BY DEF OrderInv, LedgerInv
    <2>6. \A h \in heard' : Pending(h)' \/ Doomed' \/ (h \in heard /\ ~Pending(h) /\ ~Doomed)
      BY DEF Pending, Doomed, PromotedPart, PromotionInv, BoundInv
    <2> QED BY ONLY <2>1, <2>2, <2>3, <2>4, <2>5, <2>6, LInv, LedgerKept DEF LInv, LedgerInv
  <1>2. CASE ~FailedLocally /\ NothingLeft
    <2> USE <1>0, <1>2, CaptureAssumption
          DEF TypeInv, LockInv, StopInv, SinkInv, NewRecorder, StopJoins, BackgroundJoined,
              FailedLocally, NothingLeft,
        Promoting
    <2>1. PromotionInv'
      BY DEF PromotionInv, FileInv
    <2>2. ReadyInv' /\ BoundInv'
      BY DEF ReadyInv, BoundInv, NumberInv
    <2>3. Recorded' = Recorded /\ handed' = handed /\ heard \subseteq heard'
             /\ UNCHANGED <<cap.parts, rec.parts>>
      BY DEF Recorded
    <2>4. OrderInv'
      BY <2>3 DEF OrderInv, NumberInv, FileInv, PromotionInv
    <2>5. \A i \in DOMAIN Recorded :
               File("final", Recorded[i].part, Recorded[i].session) \in disk'
      BY DEF OrderInv, LedgerInv
    <2>6. \A h \in heard' : Pending(h)' \/ Doomed' \/ (h \in heard /\ ~Pending(h) /\ ~Doomed)
      BY DEF Pending, Doomed, PromotedPart, PromotionInv, BoundInv
    <2> QED BY ONLY <2>1, <2>2, <2>3, <2>4, <2>5, <2>6, LInv, LedgerKept DEF LInv, LedgerInv
  <1>3. CASE ~FailedLocally /\ ~NothingLeft
    <2> USE <1>0, <1>3, CaptureAssumption
          DEF TypeInv, LockInv, StopInv, SinkInv, NewRecorder, StopJoins, BackgroundJoined,
              FailedLocally, NothingLeft,
        Promoting
    <2>1. PromotionInv'
      BY DEF PromotionInv, FileInv
    <2>2. ReadyInv' /\ BoundInv'
      BY DEF ReadyInv, BoundInv, NumberInv
    <2>3. Recorded' = Recorded /\ handed' = handed /\ heard \subseteq heard'
             /\ UNCHANGED <<cap.parts, rec.parts>>
      BY DEF Recorded
    <2>4. OrderInv'
      BY <2>3 DEF OrderInv, NumberInv, FileInv, PromotionInv
    <2>5. \A i \in DOMAIN Recorded :
               File("final", Recorded[i].part, Recorded[i].session) \in disk'
      BY DEF OrderInv, LedgerInv
    <2>6. \A h \in heard' : Pending(h)' \/ Doomed' \/ (h \in heard /\ ~Pending(h) /\ ~Doomed)
      BY DEF Pending, Doomed, PromotedPart, PromotionInv, BoundInv
    <2> QED BY ONLY <2>1, <2>2, <2>3, <2>4, <2>5, <2>6, LInv, LedgerKept DEF LInv, LedgerInv
  <1> QED BY ONLY <1>1, <1>2, <1>3, StopJoins DEF StopJoins

\* A stop that raises no failure of its own leaves no part behind.
LEMMA StopEndsBalances == IInv /\ LInv /\ StopEnds /\ UNCHANGED captureVars => LInv'
  <1> SUFFICES ASSUME IInv, LInv, StopEnds, UNCHANGED captureVars PROVE LInv'
    OBVIOUS
  <1>0. /\ TypeInv /\ LockInv /\ StopInv /\ SinkInv /\ NumberInv /\ FileInv
        /\ PromotionInv /\ LedgerInv /\ OrderInv /\ ReadyInv /\ BoundInv
        /\ UNCHANGED <<cap, ready>>
        /\ \A i \in DOMAIN Recorded : Recorded[i].part \in Nat /\ Recorded[i].part <= rec.part
    BY RecordedBefore DEF IInv, ControlInv, LInv, captureVars
  <1> USE <1>0, CaptureAssumption
        DEF TypeInv, LockInv, StopInv, SinkInv, NewRecorder, StopEnds
  <1>1. PromotionInv'
    BY DEF PromotionInv, FileInv
  <1>2. ReadyInv' /\ BoundInv'
    BY DEF ReadyInv, BoundInv, NumberInv
  <1>3. Recorded' = Recorded /\ handed' = handed /\ heard \subseteq heard'
           /\ UNCHANGED <<cap.parts, rec.parts>>
    BY DEF Recorded
  <1>4. OrderInv'
    BY <1>3 DEF OrderInv, NumberInv, FileInv, PromotionInv
  <1>5. \A i \in DOMAIN Recorded :
             File("final", Recorded[i].part, Recorded[i].session) \in disk'
    BY DEF OrderInv, LedgerInv
  <1>6. \A h \in heard' : Pending(h)' \/ Doomed' \/ (h \in heard /\ ~Pending(h) /\ ~Doomed)
    BY DEF Pending, Doomed, PromotedPart, PromotionInv, BoundInv
  <1> QED BY ONLY <1>1, <1>2, <1>3, <1>4, <1>5, <1>6, LInv, LedgerKept DEF LInv, LedgerInv

LEMMA AppendLater ==
    ASSUME NEW S, NEW s \in Seq(S), NEW t \in Seq(S), NEW x \in S
    PROVE  /\ s \o t \in Seq(S) /\ Append(t, x) \in Seq(S)
           /\ s \o Append(t, x) = Append(s \o t, x)
  <1>1. /\ s \o t \in Seq(S) /\ Append(t, x) \in Seq(S) /\ Len(t) \in Nat /\ Len(s) \in Nat
        /\ Len(s \o t) = Len(s) + Len(t) /\ Len(Append(t, x)) = Len(t) + 1
        /\ \A i \in 1..Len(t) + 1 : Append(t, x)[i] = IF i <= Len(t) THEN t[i] ELSE x
    BY ConcatProperties, AppendProperties, LenProperties
  <1>2. /\ s \o Append(t, x) \in Seq(S) /\ Append(s \o t, x) \in Seq(S)
        /\ Len(s \o Append(t, x)) = Len(s) + Len(t) + 1
        /\ Len(Append(s \o t, x)) = Len(s) + Len(t) + 1
    BY <1>1, ConcatProperties, AppendProperties
  <1>3. ASSUME NEW i \in 1..Len(s) + Len(t) + 1
        PROVE  (s \o Append(t, x))[i] = Append(s \o t, x)[i]
    <2>1. (s \o Append(t, x))[i] = IF i <= Len(s) THEN s[i] ELSE Append(t, x)[i - Len(s)]
      <3> DEFINE u == Append(t, x)
      <3>1. u \in Seq(S) /\ i \in 1..Len(s) + Len(u)
        BY <1>1
      <3> HIDE DEF u
      <3>2. (s \o u)[i] = IF i <= Len(s) THEN s[i] ELSE u[i - Len(s)]
        BY ONLY <3>1, s \in Seq(S), ConcatProperties
      <3> QED BY <3>2 DEF u
    <2>2. Append(s \o t, x)[i] = IF i <= Len(s) + Len(t) THEN (s \o t)[i] ELSE x
      BY <1>1, AppendProperties
    <2>3. i <= Len(s) + Len(t) => (s \o t)[i] = IF i <= Len(s) THEN s[i] ELSE t[i - Len(s)]
      BY <1>1, ConcatProperties
    <2> QED BY <1>1, <2>1, <2>2, <2>3
  <1> QED BY <1>1, <1>2, <1>3, SeqEqual

\* A promoted part is recorded after all earlier ones, and its number is handed over.
LEMMA PartPromotedAppends ==
    ASSUME IInv, LInv, PartPromoted, UNCHANGED captureVars
    PROVE  /\ PromotedPart \in Records /\ PromotedPart \in heard
           /\ Recorded \in Seq(Records) /\ rec'.parts \in Seq(Records)
           /\ Recorded' = Append(Recorded, PromotedPart)
           /\ handed' = Append(handed, PromotedPart.part)
  <1>1. /\ cap.at \notin {"backoff", "over"} /\ UNCHANGED cap
        /\ rec.promoting # None
    BY DEF IInv, ControlInv, StopInv, FileInv, PartPromoted, captureVars
  <1>2. PromotedPart \in heard /\ PromotedPart \in Records
    BY <1>1 DEF IInv, ControlInv, TypeInv, FileInv, PromotedPart, Records
  <1>3. cap.parts \in Seq(Records) /\ rec.parts \in Seq(Records)
    BY DEF LInv, LedgerInv
  <1>4. rec'.parts = Append(rec.parts, PromotedPart) /\ handed' = Append(handed, PromotedPart.part)
    BY DEF PartPromoted, IInv, ControlInv, TypeInv, NewRecorder, PromotedPart
  <1>5. Recorded = cap.parts \o rec.parts /\ Recorded' = cap.parts \o Append(rec.parts, PromotedPart)
    BY <1>1, <1>4 DEF Recorded
  <1>6. /\ cap.parts \o rec.parts \in Seq(Records)
        /\ Append(rec.parts, PromotedPart) \in Seq(Records)
        /\ cap.parts \o Append(rec.parts, PromotedPart) = Append(cap.parts \o rec.parts, PromotedPart)
    <2> DEFINE s == cap.parts
               t == rec.parts
               y == PromotedPart
               S == Records
    <2>1. s \in Seq(S) /\ t \in Seq(S) /\ y \in S
      BY ONLY <1>2, <1>3
    <2> HIDE DEF s, t, y, S
    <2>2. /\ s \o t \in Seq(S) /\ Append(t, y) \in Seq(S)
          /\ s \o Append(t, y) = Append(s \o t, y)
      BY ONLY <2>1, AppendLater
    <2> QED BY ONLY <2>2 DEF s, t, y, S
  <1> QED BY ONLY <1>2, <1>3, <1>4, <1>5, <1>6

LEMMA PartPromotedBalances == IInv /\ LInv /\ PartPromoted /\ UNCHANGED captureVars => LInv'
  <1> SUFFICES ASSUME IInv, LInv, PartPromoted, UNCHANGED captureVars PROVE LInv'
    OBVIOUS
  <1>0. /\ TypeInv /\ LockInv /\ StopInv /\ SinkInv /\ NumberInv /\ FileInv
        /\ PromotionInv /\ LedgerInv /\ OrderInv /\ ReadyInv /\ BoundInv
        /\ UNCHANGED <<cap, ready>>
    BY DEF IInv, ControlInv, LInv, captureVars
  <1>1. PromotionInv' /\ ReadyInv' /\ BoundInv'
    BY <1>0, CaptureAssumption DEF TypeInv, NewRecorder, StopInv, PartPromoted, PromotionInv,
       ReadyInv, BoundInv
  <1> DEFINE x == PromotedPart
             r == Recorded
             n == Len(Recorded)
  <1>2. /\ x \in Records /\ x \in heard /\ r \in Seq(Records) /\ rec'.parts \in Seq(Records)
        /\ Recorded' = Append(r, x) /\ handed' = Append(handed, x.part)
    BY PartPromotedAppends
  <1>3. /\ n \in Nat /\ DOMAIN r = 1..n /\ DOMAIN Recorded' = 1..(n + 1)
        /\ \A i \in 1..n : Recorded'[i] = r[i]
        /\ Recorded'[n + 1] = x
    BY <1>2, AppendProperties, LenProperties
  <1>4. x = Part(rec.promoting, rec.session) /\ File("final", x.part, x.session) \in disk
    BY <1>0 DEF PartPromoted, PromotionInv, PromotedPart
  <1>5. \A i \in 1..n : r[i].part < x.part
    BY <1>0, <1>3, <1>4 DEF PartPromoted, OrderInv
  <1>6. UNCHANGED <<disk, heard>>
    BY DEF PartPromoted
  <1>7. handed' = [i \in DOMAIN Recorded' |-> Recorded'[i].part]
    <2>1. handed = [i \in 1..n |-> r[i].part]
      BY <1>0, <1>3 DEF LedgerInv
    <2>2. \A i \in 1..n : r[i].part \in Nat
      <3>1. \A i \in 1..n : r[i] \in Records
        BY <1>2, ElementOfSeq
      <3> HIDE DEF r, n
      <3> QED BY <3>1 DEF Records
    <2>3. handed \in Seq(Nat) /\ Len(handed) = n
      BY <1>3, <2>1, <2>2
    <2>4. /\ DOMAIN handed' = 1..(n + 1)
          /\ \A i \in 1..(n + 1) : handed'[i] = IF i <= n THEN r[i].part ELSE x.part
      BY <1>2, <1>3, <2>1, <2>3, AppendProperties
    <2> HIDE DEF x, r, n
    <2>5. \A i \in 1..(n + 1) : handed'[i] = Recorded'[i].part
      BY <1>3, <2>4
    <2>6. handed' = [i \in DOMAIN handed' |-> handed'[i]]
      BY <1>2, <2>3
    <2> QED BY <1>3, <2>4, <2>5, <2>6
  <1>8. \A h \in heard : Pending(h) \/ Doomed =>
                            Pending(h)' \/ Doomed' \/ h = x
    BY <1>0 DEF Pending, Doomed, PartPromoted, PromotedPart, TypeInv, NewRecorder, StopInv,
       PromotionInv
  <1> HIDE DEF x, r, n
  <1>9. LedgerInv'
    <2>1. cap'.parts \in Seq(Records) /\ rec'.parts \in Seq(Records)
      BY <1>0, <1>2 DEF LedgerInv
    <2>2. \A i \in DOMAIN Recorded' :
             /\ Recorded'[i] \in heard'
             /\ File("final", Recorded'[i].part, Recorded'[i].session) \in disk'
      BY <1>0, <1>2, <1>3, <1>4, <1>6 DEF LedgerInv, r
    <2>3. \A i, j \in DOMAIN Recorded' : i < j => Recorded'[i].part < Recorded'[j].part
      BY <1>0, <1>3, <1>5 DEF LedgerInv, r
    <2>4. \A h \in heard' : Pending(h)' \/ Doomed' \/ \E i \in DOMAIN Recorded' : Recorded'[i] = h
      <3>1. ASSUME NEW h \in heard, NEW i \in DOMAIN r, r[i] = h
            PROVE  \E j \in DOMAIN Recorded' : Recorded'[j] = h
        BY <1>3, <3>1
      <3>2. n + 1 \in DOMAIN Recorded' /\ Recorded'[n + 1] = x
        BY <1>3
      <3> QED BY <1>0, <1>6, <1>8, <3>1, <3>2 DEF LedgerInv, r
    <2> QED BY <1>7, <2>1, <2>2, <2>3, <2>4 DEF LedgerInv
  <1>10. OrderInv'
    <2>1. ASSUME NEW i \in DOMAIN Recorded'
          PROVE  /\ rec'.sink # "none" => Recorded'[i].part < rec'.part
                 /\ rec'.closed # None => Recorded'[i].part < rec'.closed
                 /\ rec'.promotion \notin {"thread", "written"}
      <3>1. /\ rec'.sink = rec.sink /\ rec'.part = rec.part /\ rec'.closed = rec.closed
            /\ rec'.promotion \notin {"thread", "written"} /\ rec.promotion = "written"
        BY <1>0 DEF PartPromoted, TypeInv, NewRecorder
      <3>2. CASE i = n + 1
        <4>1. rec.sink # "none" => x.part < rec.part
          BY <1>0, <1>4 DEF PartPromoted, FileInv
        <4>2. rec.closed # None => x.part < rec.closed
          BY <1>0, <1>4 DEF PartPromoted, OrderInv
        <4> QED BY <1>3, <3>1, <3>2, <4>1, <4>2
      <3>3. CASE i # n + 1
        <4>1. i \in DOMAIN r /\ Recorded'[i] = r[i]
          BY <1>3, <3>3
        <4> QED BY <1>0, <3>1, <4>1 DEF OrderInv, r
      <3> QED BY <3>2, <3>3
    <2>2. rec'.promotion \notin {"thread", "written"}
      BY <1>0 DEF PartPromoted, TypeInv, NewRecorder
    <2> QED BY <2>1, <2>2 DEF OrderInv
  <1> QED BY ONLY <1>1, <1>9, <1>10 DEF LInv
--------------------------------------------------------------------------------
\* The session's steps record nothing.

LEMMA LeaveBalances ==
    ASSUME IInv, LInv, cap.at \notin {"closing", "backoff", "over"}, NEW error, Leave(error)
    PROVE  LInv'
  <1>0. /\ TypeInv /\ StopInv /\ SinkInv
        /\ PromotionInv /\ LedgerInv /\ OrderInv /\ ReadyInv /\ BoundInv
    BY DEF IInv, ControlInv, LInv
  <1> USE <1>0, CaptureAssumption DEF TypeInv, StopInv, SinkInv, NewRecorder, Leave, StartCancelled
  <1>1. PromotionInv'
    BY DEF PromotionInv
  <1>2. ReadyInv' /\ BoundInv'
    BY DEF ReadyInv, BoundInv
  <1>3. UNCHANGED Waiting
    BY DEF Waiting
  <1>4. Doomed => Doomed'
    BY DEF Doomed
  <1> QED BY ONLY <1>0, <1>1, <1>2, <1>3, <1>4, WaitingKept DEF LInv

\* A step that moves the capture on, before its recorder is stopped.
LEMMA MoveBalances ==
    ASSUME IInv, LInv, NEW at \in Open, cap.at \notin {"closing", "backoff", "over"},
           cap' = [cap EXCEPT !.at = at], UNCHANGED <<recorderVars, ready>>
    PROVE  LInv'
  <1>0. /\ TypeInv
        /\ PromotionInv /\ LedgerInv /\ OrderInv /\ ReadyInv /\ BoundInv
    BY DEF IInv, ControlInv, LInv
  <1> USE <1>0 DEF TypeInv, NewRecorder, recorderVars, Open, Signaling, FollowedBy
  <1>1. PromotionInv'
    BY DEF PromotionInv
  <1>2. ReadyInv' /\ BoundInv'
    BY DEF ReadyInv, BoundInv
  <1>3. UNCHANGED Waiting
    BY DEF Waiting
  <1>4. Doomed => Doomed'
    BY DEF Doomed
  <1> QED BY ONLY <1>0, <1>1, <1>2, <1>3, <1>4, WaitingKept DEF LInv

LEMMA ReplyBalances == IInv /\ LInv /\ Reply => LInv'
  <1> SUFFICES ASSUME IInv, LInv, Reply PROVE LInv'
    OBVIOUS
  <1>0. /\ TypeInv /\ SinkInv
        /\ PromotionInv /\ LedgerInv /\ OrderInv /\ ReadyInv /\ BoundInv
    BY DEF IInv, ControlInv, LInv
  <1> USE <1>0 DEF TypeInv, SinkInv, NewRecorder, Reply, Signaling, FollowedBy
  <1>1. PromotionInv'
    BY DEF PromotionInv
  <1>2. ReadyInv' /\ BoundInv'
    BY DEF ReadyInv, BoundInv
  <1>3. UNCHANGED Waiting
    BY DEF Waiting
  <1>4. Doomed => Doomed'
    BY DEF Doomed
  <1> QED BY ONLY <1>0, <1>1, <1>2, <1>3, <1>4, WaitingKept DEF LInv

\* A session of a capture that has been ready has a timeline, or announced its own.
LEMMA AnnounceFirstFrameBalances == IInv /\ LInv /\ AnnounceFirstFrame => LInv'
  <1> SUFFICES ASSUME IInv, LInv, AnnounceFirstFrame PROVE LInv'
    OBVIOUS
  <1>0. /\ TypeInv /\ SinkInv
        /\ PromotionInv /\ LedgerInv /\ OrderInv /\ ReadyInv /\ BoundInv
    BY DEF IInv, ControlInv, LInv
  <1> USE <1>0 DEF TypeInv, SinkInv, NewRecorder, AnnounceFirstFrame, Announces, Reconnecting
  <1>1. PromotionInv'
    BY DEF PromotionInv
  <1>2. ReadyInv' /\ BoundInv'
    <2>1. /\ rec'.announce \in {"done", "failed"}
          /\ UNCHANGED <<rec.start, rec.attached, rec.part, rec.sink, rec.rotate>>
      OBVIOUS
    <2>2. ready' \in {0, 1}
      <3>1. CASE cap.origin
        BY <3>1 DEF ReadyInv
      <3>2. CASE ~cap.origin
        <4>1. ready = 0
          BY <3>2 DEF ReadyInv
        <4> QED BY <4>1
      <3> QED BY ONLY <3>1, <3>2
    <2>3. UNCHANGED <<cap, heard>>
      OBVIOUS
    <2>4. ReadyInv'
      <3>1. rec.announce = "waiting" /\ cap.at # "backoff"
        BY DEF IInv, ControlInv, StopInv
      <3> QED BY ONLY ReadyInv, <2>1, <2>2, <2>3, <3>1 DEF ReadyInv
    <2>5. BoundInv'
      BY ONLY BoundInv, <2>1, <2>3 DEF BoundInv
    <2> QED BY ONLY <2>4, <2>5
  <1>3. UNCHANGED Waiting
    BY DEF Waiting
  <1>4. Doomed => Doomed'
    BY DEF Doomed
  <1> QED BY ONLY <1>0, <1>1, <1>2, <1>3, <1>4, WaitingKept DEF LInv

\* A step that touches neither the recorder nor the capture.
LEMMA StutterBalances == LInv /\ UNCHANGED <<recorderVars, cap, ready>> => LInv'
  <1> SUFFICES ASSUME LInv, UNCHANGED <<recorderVars, cap, ready>> PROVE LInv'
    OBVIOUS
  <1>1. PromotionInv' /\ ReadyInv' /\ BoundInv'
    BY DEF LInv, PromotionInv, ReadyInv, BoundInv, recorderVars
  <1>2. UNCHANGED Waiting /\ Doomed' = Doomed
    BY DEF Waiting, Doomed, recorderVars
  <1> QED BY <1>1, <1>2, WaitingKept DEF LInv

\* Between the sessions, the session's parts are added to those of the capture.
LEMMA PartsKept ==
    ASSUME IInv, LInv, UNCHANGED recorderVars,
           cap'.at \in {"backoff", "over"}, cap'.parts = Recorded
    PROVE  LedgerInv' /\ OrderInv'
  <1>1. Recorded' = Recorded
    BY DEF Recorded
  <1>2. Recorded \in Seq(Records)
    BY ConcatProperties DEF LInv, LedgerInv, Recorded
  <1>3. /\ Doomed' = Doomed
        /\ \A h \in heard : Pending(h)' = Pending(h)
    BY DEF Doomed, Pending, PromotedPart, recorderVars
  <1>4. LedgerInv'
    BY <1>1, <1>2, <1>3 DEF LInv, LedgerInv, recorderVars
  <1>5. OrderInv'
    BY <1>1 DEF LInv, OrderInv, recorderVars
  <1> QED BY <1>4, <1>5

LEMMA EndBalances ==
    ASSUME IInv, LInv, rec.stop = "stopped",
           NEW outcome, NEW interrupted, End(outcome, Recorded, interrupted), outcome # None,
           outcome = "returned" => rec.raised # "local"
    PROVE  LInv'
  <1>1. UNCHANGED <<recorderVars, ready>>
    BY DEF End
  <1>2. /\ cap'.at = "over" /\ cap'.parts = Recorded
        /\ UNCHANGED <<cap.next, cap.reconnects, cap.origin>>
        /\ cap'.outcome # None /\ cap'.outcome = "returned" => outcome = "returned"
        /\ cap'.outcome # None
    BY CaptureAssumption DEF End, IInv, ControlInv, TypeInv
  <1>3. LedgerInv' /\ OrderInv'
    BY <1>1, <1>2, PartsKept
  <1>4. PromotionInv'
    BY <1>1, <1>2, CaptureAssumption DEF LInv, PromotionInv, recorderVars
  <1>5. ReadyInv' /\ BoundInv'
    BY <1>1, <1>2 DEF LInv, ReadyInv, BoundInv, recorderVars
  <1> QED BY ONLY <1>3, <1>4, <1>5 DEF LInv

\* A session that is retried recorded all it received, and announced itself only if it
\* began a timeline.
LEMMA RetryBalances ==
    ASSUME IInv, LInv, cap.at = "closing", rec.stop = "stopped", rec.raised # "local",
           cap.reconnects < MaxReconnects,
           cap' = [cap EXCEPT !.at = "backoff", !.parts = Recorded, !.error = None,
                       !.reconnects = @ + 1, !.origin = @ \/ rec.attached,
                       !.next = IF cap.origin \/ rec.attached THEN NextPart ELSE @],
           UNCHANGED <<recorderVars, fatal, abort, stopping, ready>>
    PROVE  LInv'
  <1>1. /\ cap'.at = "backoff" /\ cap'.parts = Recorded
        /\ cap'.reconnects = cap.reconnects + 1
        /\ cap'.next = IF cap.origin \/ rec.attached THEN NextPart ELSE cap.next
        /\ UNCHANGED cap.outcome
    BY DEF IInv, ControlInv, TypeInv
  <1>2. cap'.origin <=> cap.origin \/ rec.attached
    BY DEF IInv, ControlInv, TypeInv
  <1>3. LedgerInv' /\ OrderInv'
    BY <1>1, PartsKept
  <1>4. PromotionInv'
    BY <1>1 DEF LInv, PromotionInv, recorderVars
  <1>5. ReadyInv'
    BY <1>1, <1>2 DEF LInv, ReadyInv, recorderVars
  <1>6. BoundInv'
    BY <1>1, CaptureAssumption DEF IInv, ControlInv, TypeInv, LInv, BoundInv, recorderVars, NextPart
  <1> QED BY ONLY <1>3, <1>4, <1>5, <1>6 DEF LInv

LEMMA SessionEndsBalances == IInv /\ LInv /\ SessionEnds => LInv'
  <1> SUFFICES ASSUME IInv, LInv, SessionEnds PROVE LInv'
    OBVIOUS
  <1> DEFINE error == IF rec.raised # None THEN rec.raised ELSE cap.error
             Retried ==
                 /\ cap' = [cap EXCEPT !.at = "backoff", !.parts = Recorded, !.error = None,
                                !.reconnects = @ + 1, !.origin = @ \/ rec.attached,
                                !.next = IF cap.origin \/ rec.attached THEN NextPart ELSE @]
                 /\ UNCHANGED <<recorderVars, fatal, abort, stopping, ready>>
  <1>0. /\ cap.at = "closing" /\ rec.stop = "stopped"
        /\ Recorded = cap.parts \o rec.parts
    BY DEF SessionEnds, Recorded
  <1>1. CASE (error \in {"local", "other"} \/ GivesUp(error)) /\ End(error, Recorded, FALSE)
    <2>1. error # "returned" /\ error # None
      BY <1>1, CaptureAssumption DEF GivesUp
    <2> HIDE DEF error
    <2> QED BY <1>0, <1>1, <2>1, EndBalances
  <1>2. CASE error \notin {"local", "other"} /\ \E late \in BOOLEAN : End("returned", Recorded, late)
    <2>1. rec.raised # "local" /\ "returned" # None
      BY <1>2, CaptureAssumption
    <2> QED BY <1>0, <1>2, <2>1, EndBalances
  <1>3. CASE /\ error \notin {"local", "other"} /\ ~(cap.reconnects >= MaxReconnects) /\ Retried
    <2>1. rec.raised # "local"
      BY <1>3, CaptureAssumption
    <2>2. cap.reconnects < MaxReconnects
      BY <1>3, CaptureAssumption DEF IInv, ControlInv, TypeInv
    <2> QED BY <1>0, <1>3, <2>1, <2>2, RetryBalances
  <1>4. CASE error \in {"local", "other"} \/ GivesUp(error)
    BY <1>0, <1>1, <1>4 DEF SessionEnds
  <1>5. CASE ~(error \in {"local", "other"} \/ GivesUp(error))
    <2>1. \/ End("returned", Recorded, FALSE)
          \/ End("returned", Recorded, TRUE)
          \/ ~(cap.reconnects >= MaxReconnects) /\ Retried
      BY <1>0, <1>5 DEF SessionEnds
    <2>2. error \notin {"local", "other"}
      BY <1>5
    <2> HIDE DEF error, Retried
    <2>3. CASE \E late \in BOOLEAN : End("returned", Recorded, late)
      BY ONLY <1>2, <2>2, <2>3
    <2> QED BY <1>3, <2>1, <2>2, <2>3
  <1> QED BY <1>4, <1>5

\* After a session that did not fail nothing waits: all audio received is recorded.
LEMMA NothingWaits ==
    ASSUME IInv, LInv, rec.stop = "stopped", rec.raised # "local", NEW h \in heard
    PROVE  ~Pending(h) /\ ~Doomed /\ \E i \in DOMAIN Recorded : Recorded[i] = h
  <1>1. ~Pending(h)
    BY DEF IInv, ControlInv, StopInv, LInv, PromotionInv, Pending
  <1>2. ~Doomed
    BY DEF Doomed
  <1> QED BY <1>1, <1>2 DEF LInv, LedgerInv

LEMMA BackoffEndsBalances == IInv /\ LInv /\ BackoffEnds => LInv'
  <1> SUFFICES ASSUME IInv, LInv, BackoffEnds PROVE LInv'
    OBVIOUS
  <1>0. /\ cap.at = "backoff" /\ rec.stop = "stopped" /\ rec.raised # "local"
        /\ Recorded = cap.parts
    BY DEF BackoffEnds, IInv, ControlInv, StopInv, LInv, PromotionInv, Recorded
  <1>1. CASE stopping
    <2>1. End("returned", Recorded, TRUE) /\ "returned" # None
      BY <1>0, <1>1, CaptureAssumption DEF BackoffEnds
    <2> QED BY <1>0, <2>1, EndBalances
  <1>2. CASE ~stopping
    <2>0. /\ rec' = NewRecorder(cap.next, cap.reconnects)
          /\ cap'.at = "connect" /\ UNCHANGED <<cap.next, cap.reconnects, cap.origin, cap.parts,
                                                cap.outcome, disk, handed, heard, ready>>
      BY <1>2 DEF BackoffEnds, IInv, ControlInv, TypeInv
    <2>1. Recorded' = Recorded
      <3>1. Recorded' = cap.parts \o <<>> /\ cap.parts \in Seq(Records)
        BY <2>0 DEF Recorded, NewRecorder, LInv, LedgerInv
      <3> QED BY <1>0, <3>1, ConcatEmptySeq
    <2>2. \A h \in heard : ~Pending(h) /\ ~Doomed
      BY <1>0, NothingWaits
    <2>3. LedgerInv'
      <3>1. cap'.parts \in Seq(Records) /\ rec'.parts \in Seq(Records)
        BY <2>0 DEF LInv, LedgerInv, NewRecorder
      <3>2. \A i \in DOMAIN Recorded :
               File("final", Recorded[i].part, Recorded[i].session) \in disk'
        BY <2>0 DEF LInv, LedgerInv
      <3> QED BY <2>0, <2>1, <2>2, <3>1, <3>2, LedgerKept DEF LInv
    <2>4. PromotionInv' /\ OrderInv'
      BY <2>0, CaptureAssumption DEF PromotionInv, OrderInv, NewRecorder, LInv, BackoffEnds,
         IInv, ControlInv, StopInv
    <2>5. ReadyInv' /\ BoundInv'
      BY <1>0, <2>0, CaptureAssumption
         DEF ReadyInv, BoundInv, NewRecorder, LInv, IInv, ControlInv, TypeInv
    <2> QED BY <2>3, <2>4, <2>5 DEF LInv
  <1> QED BY <1>1, <1>2

LEMMA NextBalances == IInv /\ LInv /\ [Next]_vars => LInv'
  <1> SUFFICES ASSUME IInv, LInv, [Next]_vars PROVE LInv'
    OBVIOUS
  <1>1. CASE RecorderSteps /\ UNCHANGED captureVars
    BY <1>1, QuietStepsBalance, StartBalances, RotateClosesBalances, RotateOpensBalances,
       ValidationFailsBalances, PromoteBalances, PartPromotedBalances, StopClosesBalances,
       StopJoinsBalances, StopEndsBalances DEF RecorderSteps
  <1>2. CASE RecorderEvents /\ UNCHANGED captureVars
    BY <1>2, FrameBalances, QuietStepsBalance DEF RecorderEvents
  <1>3. CASE Reply \/ AnnounceFirstFrame \/ SessionEnds \/ BackoffEnds
    BY <1>3, ReplyBalances, AnnounceFirstFrameBalances, SessionEndsBalances, BackoffEndsBalances
  <1>4. CASE Connect \/ AudioSeen
    <2>1. cap.at \notin {"closing", "backoff", "over"}
      BY <1>4 DEF Connect, AudioSeen
    <2>2. \/ \E error : Leave(error)
          \/ \E at \in Open : cap' = [cap EXCEPT !.at = at] /\ UNCHANGED <<recorderVars, ready>>
      BY <1>4 DEF Connect, AudioSeen, Open, Signaling, FollowedBy
    <2> QED BY <2>1, <2>2, LeaveBalances, MoveBalances
  <1>5. CASE Unanswered \/ SignalingFailed \/ FailureSeen \/ StopSeen
    <2>1. cap.at \notin {"closing", "backoff", "over"} /\ \E error : Leave(error)
      BY <1>5 DEF Unanswered, SignalingFailed, FailureSeen, StopSeen, Signaling, FollowedBy
    <2> QED BY <2>1, LeaveBalances
  <1>6. CASE \/ StartFailureForwarded \/ ConnectionFails \/ HeartbeatFails
             \/ RequestStop \/ StopWatcherDies \/ UNCHANGED vars
    <2>1. UNCHANGED <<recorderVars, cap, ready>>
      BY <1>6 DEF StartFailureForwarded, ConnectionFails, HeartbeatFails, SetFatal, RequestStop,
         StopWatcherDies, vars, recorderVars
    <2> QED BY <2>1, StutterBalances
  <1> QED BY <1>1, <1>2, <1>3, <1>4, <1>5, <1>6 DEF Next, SessionSteps

\* The parts recorded and the parts waiting account for all audio received, throughout a
\* capture (meeting/capture.py).
THEOREM LedgerBalances == Spec => []LInv
  BY InitEstablishes, NextPreserves, InitBalances, NextBalances, PTL DEF Spec

\* A capture that returns has a finished part for all audio it received, each once and in
\* order, whatever stopped it (capture.py:474-543, 857-883).
THEOREM ReturnedIsEverythingHeardHolds == Spec => []ReturnedIsEverythingHeard
  <1>1. IInv /\ LInv => ReturnedIsEverythingHeard
    <2> SUFFICES ASSUME IInv, LInv, cap.outcome = "returned"
                 PROVE  /\ {cap.parts[i] : i \in DOMAIN cap.parts} = heard
                        /\ \A i, j \in DOMAIN cap.parts :
                              i < j => cap.parts[i].part < cap.parts[j].part
                        /\ \A h \in heard : File("final", h.part, h.session) \in disk
      BY DEF ReturnedIsEverythingHeard
    <2>1. /\ cap.at = "over" /\ rec.stop = "stopped" /\ rec.raised # "local"
          /\ Recorded = cap.parts
      BY CaptureAssumption DEF IInv, ControlInv, StopInv, LInv, PromotionInv, Recorded
    <2>2. \A h \in heard : \E i \in DOMAIN Recorded : Recorded[i] = h
      BY <2>1, NothingWaits
    <2>3. /\ \A i \in DOMAIN Recorded :
                /\ Recorded[i] \in heard
                /\ File("final", Recorded[i].part, Recorded[i].session) \in disk
          /\ \A i, j \in DOMAIN Recorded : i < j => Recorded[i].part < Recorded[j].part
      BY DEF LInv, LedgerInv
    <2>4. {Recorded[i] : i \in DOMAIN Recorded} = heard
      BY ONLY <2>2, <2>3
    <2>5. \A h \in heard : File("final", h.part, h.session) \in disk
      BY ONLY <2>2, <2>3
    <2> QED BY ONLY <2>1, <2>3, <2>4, <2>5
  <1> QED BY <1>1, CaptureInvariant, LedgerBalances, PTL
--------------------------------------------------------------------------------
\* A capture keeps what the worker relies on.

Result == IF cap.outcome = "returned"
          THEN [i \in DOMAIN cap.parts |-> cap.parts[i].part] ELSE <<>>

LEMMA CaptureStartsAsInterface == Init => Interface!Init
  BY CaptureAssumption DEF Init, Interface!Init

\* A step that neither announces nor hands over nor ends anything.
LEMMA UnseenByWorker ==
    ASSUME UNCHANGED <<ready, handed, cap.outcome>>, cap.outcome = None \/ UNCHANGED cap.parts
    PROVE  UNCHANGED Interface!audioVars
  BY CaptureAssumption DEF Interface!audioVars

\* The ledger as the worker sees it: the numbers of the parts recorded.
LEMMA HandedIsRecorded ==
    ASSUME LInv
    PROVE  /\ handed = [i \in DOMAIN Recorded |-> Recorded[i].part]
           /\ handed \in Seq(Nat) /\ Recorded \in Seq(Records)
           /\ handed = <<>> <=> Recorded = <<>>
  <1>1. Recorded \in Seq(Records)
    BY ConcatProperties DEF LInv, LedgerInv, Recorded
  <1>2. handed = [i \in DOMAIN Recorded |-> Recorded[i].part]
    BY DEF LInv, LedgerInv
  <1>3. /\ DOMAIN Recorded = 1..Len(Recorded) /\ Len(Recorded) \in Nat
        /\ \A i \in DOMAIN Recorded : Recorded[i].part \in Nat
    <2>1. DOMAIN Recorded = 1..Len(Recorded) /\ Len(Recorded) \in Nat
      BY <1>1, LenProperties
    <2>2. \A i \in DOMAIN Recorded : Recorded[i] \in Records
      BY <1>1, <2>1, ElementOfSeq
    <2> QED BY <2>1, <2>2 DEF Records
  <1>4. handed \in Seq(Nat) /\ Len(handed) = Len(Recorded)
    BY ONLY <1>2, <1>3
  <1>5. handed = <<>> <=> Recorded = <<>>
    BY ONLY <1>1, <1>4, EmptySeq
  <1> QED BY ONLY <1>1, <1>2, <1>4, <1>5

\* The first recorder that starts announces, once.
LEMMA AnnouncementIsReadiness ==
    ASSUME IInv, LInv, AnnounceFirstFrame
    PROVE  Interface!BecomeReady \/ UNCHANGED Interface!audioVars
  <1>1. cap.outcome = None /\ UNCHANGED <<cap, handed>>
    BY DEF AnnounceFirstFrame, IInv, ControlInv, StopInv
  <1>2. CASE Announces
    <2>1. ready = 0
      BY <1>2 DEF AnnounceFirstFrame, Announces, Reconnecting, LInv, ReadyInv
    <2>2. ready' = 1
      BY <1>2, <2>1 DEF AnnounceFirstFrame
    <2> QED BY <1>1, <2>1, <2>2 DEF Interface!BecomeReady
  <1>3. CASE ~Announces
    <2>1. ready' = ready
      BY <1>3 DEF AnnounceFirstFrame, LInv, ReadyInv
    <2> QED BY <1>1, <2>1, UnseenByWorker
  <1> QED BY <1>2, <1>3

\* A promoted part is one of those a capture can have, and later than all before it.
LEMMA PromotionIsHandOver ==
    ASSUME IInv, LInv, PartPromoted, UNCHANGED captureVars
    PROVE  \E p \in Indices : Interface!HandOver(p)
  <1>1. /\ cap.outcome = None /\ UNCHANGED <<cap, ready>>
        /\ rec.promotion = "written" /\ handed' = Append(handed, rec.promoting)
    BY DEF PartPromoted, captureVars, IInv, ControlInv, StopInv
  <1>2. rec.promoting \in Indices
    <2>1. Part(rec.promoting, rec.session) \in heard
      BY <1>1 DEF IInv, FileInv
    <2>2. /\ rec.promoting \in 1..(MaxPart + cap.reconnects)
          /\ cap.reconnects \in Nat /\ cap.reconnects <= MaxReconnects
      BY <2>1 DEF LInv, BoundInv, IInv, ControlInv, TypeInv
    <2> QED BY <2>2, CaptureAssumption DEF Indices
  <1>3. \A i \in DOMAIN handed : handed[i] < rec.promoting
    BY <1>1, HandedIsRecorded DEF LInv, OrderInv
  <1>4. UNCHANGED Result
    BY <1>1 DEF Result
  <1> QED BY <1>1, <1>2, <1>3, <1>4 DEF Interface!HandOver, Result

\* A capture returns the parts it handed over, if there is any.
LEMMA EndIsReturnOrRaise ==
    ASSUME IInv, LInv, cap.at \in {"closing", "backoff"},
           NEW outcome \in {"connection", "auth", "noaudio", "local", "other", "returned"},
           NEW interrupted, End(outcome, Recorded, interrupted),
           outcome \in {"connection", "auth"} => heard = {}
    PROVE  Interface!Next
  <1>1. /\ cap.outcome = None /\ UNCHANGED <<ready, handed, heard>>
        /\ cap'.parts = Recorded
        /\ cap'.outcome = IF outcome = "returned" /\ Recorded = <<>> THEN "noaudio" ELSE outcome
    BY DEF End, recorderVars, IInv, ControlInv, TypeInv, StopInv
  <1>2. Result = <<>>
    BY <1>1, CaptureAssumption DEF Result
  <1>3. CASE outcome = "returned" /\ Recorded # <<>>
    <2>1. cap'.outcome = "returned" /\ Result' = handed /\ handed # <<>>
      BY <1>1, <1>3, HandedIsRecorded DEF Result
    <2> QED BY <1>1, <2>1 DEF Interface!Next, Interface!Return, Result
  <1>4. CASE ~(outcome = "returned" /\ Recorded # <<>>)
    <2>1. /\ cap'.outcome \in {"connection", "auth", "noaudio", "local", "other"}
          /\ cap'.outcome \in {"connection", "auth"} => heard = {}
      BY <1>1, <1>4
    <2>2. heard = {} => handed = <<>>
      <3> SUFFICES ASSUME heard = {} PROVE Recorded = <<>>
        BY HandedIsRecorded
      <3>1. DOMAIN Recorded = {} /\ Recorded \in Seq(Records)
        BY HandedIsRecorded DEF LInv, LedgerInv
      <3> QED BY ONLY <3>1, EmptySeq, LenProperties
    <2>3. Result' = Result
      BY <1>2, <2>1 DEF Result
    <2>4. Interface!Raise(cap'.outcome)
      BY <1>1, <2>1, <2>2, <2>3 DEF Interface!Raise, Result
    <2> QED BY <2>1, <2>4 DEF Interface!Next
  <1> QED BY <1>3, <1>4

LEMMA SessionEndIsSeen ==
    ASSUME IInv, LInv, SessionEnds
    PROVE  Interface!Next \/ UNCHANGED Interface!audioVars
  <1> DEFINE error == IF rec.raised # None THEN rec.raised ELSE cap.error
  <1>0. cap.at = "closing" /\ cap.outcome = None /\ Recorded = cap.parts \o rec.parts
    BY DEF SessionEnds, Recorded, IInv, ControlInv, StopInv
  <1>1. CASE error \in {"local", "other"} \/ GivesUp(error)
    <2>1. End(error, Recorded, FALSE)
      BY <1>0, <1>1 DEF SessionEnds
    <2>2. /\ error \in {"connection", "auth", "noaudio", "local", "other", "returned"}
          /\ error \in {"connection", "auth"} => heard = {}
      BY <1>1 DEF GivesUp, Reconnecting, IInv, OutcomeInv
    <2> HIDE DEF error
    <2> QED BY <1>0, <2>1, <2>2, EndIsReturnOrRaise
  <1>2. CASE \E late \in BOOLEAN : End("returned", Recorded, late)
    BY <1>0, <1>2, EndIsReturnOrRaise
  <1>3. CASE UNCHANGED <<ready, handed, cap.outcome>>
    BY <1>0, <1>3, UnseenByWorker
  <1>4. CASE ~(error \in {"local", "other"} \/ GivesUp(error))
    <2>1. \/ End("returned", Recorded, FALSE)
          \/ End("returned", Recorded, TRUE)
          \/ UNCHANGED <<ready, handed, cap.outcome>>
      BY <1>0, <1>4 DEF SessionEnds, recorderVars, IInv, ControlInv, TypeInv
    <2> QED BY ONLY <1>2, <1>3, <2>1
  <1> QED BY <1>1, <1>4

LEMMA BackoffEndIsSeen ==
    ASSUME IInv, LInv, BackoffEnds
    PROVE  Interface!Next \/ UNCHANGED Interface!audioVars
  <1>1. cap.at = "backoff" /\ cap.outcome = None /\ Recorded = cap.parts
    BY DEF BackoffEnds, Recorded, IInv, ControlInv, StopInv
  <1>2. CASE stopping
    <2>1. End("returned", Recorded, TRUE)
      BY <1>1, <1>2 DEF BackoffEnds
    <2> QED BY <1>1, <2>1, EndIsReturnOrRaise
  <1>3. CASE ~stopping
    <2>1. UNCHANGED <<ready, handed, cap.outcome>>
      BY <1>3 DEF BackoffEnds, IInv, ControlInv, TypeInv
    <2> QED BY <1>1, <2>1, UnseenByWorker
  <1> QED BY <1>2, <1>3

LEMMA StepIsInterfaceStep ==
    ASSUME IInv, LInv, [Next]_vars
    PROVE  [Interface!Next]_(Interface!audioVars)
  <1>1. CASE PartPromoted /\ UNCHANGED captureVars
    BY <1>1, PromotionIsHandOver DEF Interface!Next
  <1>2. CASE (RecorderSteps \/ RecorderEvents) /\ ~PartPromoted /\ UNCHANGED captureVars
    <2>1. UNCHANGED handed
      BY <1>2 DEF RecorderSteps, RecorderEvents, Start, StartEnds, RotateCloses, RotateOpens,
         RotateResumes, ForwardBackgroundFailure, ValidationFails, Promote, StopBegins, StopCloses,
         StopJoins, StopEnds, Frame, SourceEnds, Rotate
    <2> QED BY <1>2, <2>1, UnseenByWorker DEF captureVars
  <1>3. CASE AnnounceFirstFrame
    BY <1>3, AnnouncementIsReadiness DEF Interface!Next
  <1>4. CASE SessionEnds \/ BackoffEnds
    BY <1>4, SessionEndIsSeen, BackoffEndIsSeen
  <1>5. CASE \/ Connect \/ Reply \/ Unanswered \/ SignalingFailed
             \/ FailureSeen \/ AudioSeen \/ StopSeen
    <2>1. \/ \E error : Leave(error)
          \/ \E at : cap' = [cap EXCEPT !.at = at] /\ UNCHANGED <<handed, ready>>
      BY <1>5 DEF Connect, Reply, Unanswered, SignalingFailed, FailureSeen, AudioSeen, StopSeen,
         recorderVars
    <2>2. UNCHANGED <<ready, handed, cap.outcome, cap.parts>>
      BY <2>1 DEF Leave, IInv, ControlInv, TypeInv
    <2> QED BY <2>2, UnseenByWorker
  <1>6. CASE \/ StartFailureForwarded \/ ConnectionFails \/ HeartbeatFails
             \/ RequestStop \/ StopWatcherDies \/ UNCHANGED vars
    <2>1. UNCHANGED <<ready, handed, cap>>
      BY <1>6 DEF StartFailureForwarded, ConnectionFails, HeartbeatFails, SetFatal, RequestStop,
         StopWatcherDies, vars, recorderVars
    <2> QED BY <2>1, UnseenByWorker
  <1> QED BY <1>1, <1>2, <1>3, <1>4, <1>5, <1>6 DEF Next, SessionSteps

\* A capture is the audio of a meeting that the worker relies on: it announces at most
\* once, hands the parts over in order, and returns exactly what it handed over
\* (capture.py:786-883, worker.py:302-372).
THEOREM CaptureImplementsMeetingAudio == Spec => ImplementsMeetingAudio
  BY CaptureStartsAsInterface, StepIsInterfaceStep, CaptureInvariant, LedgerBalances, PTL
     DEF Spec, ImplementsMeetingAudio, Interface!Spec
================================================================================
