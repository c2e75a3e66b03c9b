--------------------------- MODULE SegmentedRecorder ---------------------------
(****************************************************************************)
(* The segmented recorder of one WebRTC session (meeting/capture.py): the   *)
(* tasks of one event loop, which interleave where they await, and one      *)
(* thread that validates and renames a finished part.  Only its owner stops *)
(* it; the lock covers the start, each rotation and the stop.               *)
(****************************************************************************)
EXTENDS Naturals, Sequences

CONSTANTS
    MaxPart,        \* bound: no rotation beyond this part
    None

VARIABLES
    rec,            \* the recorder of the session
    disk,           \* the audio files
    handed,         \* the parts given to on_part
    heard           \* the parts in which a frame was received

recorderVars == <<rec, disk, handed, heard>>

Part(p, s) == [part |-> p, session |-> s]
File(name, p, s) == [name |-> name, part |-> p, session |-> s]

\* sink: the media recorder of the open part; start, rotate, announce, promotion and
\* stop: how far that task is; closed: the part between its closing and promotion.
NewRecorder(first, session) ==
    [session |-> session, part |-> first - 1, sink |-> "none", lock |-> None,
     attached |-> FALSE, first |-> FALSE, fatal |-> None, stopped |-> FALSE,
     start |-> "none", rotate |-> "none", announce |-> "none", failing |-> FALSE,
     promotion |-> "none", promoting |-> None, closed |-> None,
     stop |-> "none", closeFailed |-> FALSE, raised |-> None, parts |-> <<>>]

Recording(r) == Part(r.part, r.session)
Partial(r) == File("partial", r.part, r.session)

\* A part without frames is unlinked, the others are to be promoted.
Unlinked == IF Recording(rec) \in heard THEN disk ELSE disk \ {Partial(rec)}
ClosedPart == IF Recording(rec) \in heard THEN rec.part ELSE None

Opening(r) == [r EXCEPT !.part = @ + 1, !.sink = "opening"]
NotOpened(r) == [r EXCEPT !.part = @ + 1, !.sink = "none"]

\* O_EXCL: the name of a new part is not in use.
CanOpen(r) == \A f \in disk : ~(f.name = "partial" /\ f.part = r.part + 1)

\* The thread is given the closed part.
Promoting(r) == [r EXCEPT !.promotion = "thread", !.promoting = r.closed, !.closed = None]

--------------------------------------------------------------------------------
\* start, called for the audio track of the offer.

Start ==
    /\ rec.start = "wanted" /\ rec.lock = None /\ ~rec.stopped
    /\ LET attached == [rec EXCEPT !.attached = TRUE] IN
       \* the track had ended already
       \/ /\ rec' = [attached EXCEPT !.start = "failed", !.fatal = "connection"]
          /\ UNCHANGED disk
       \/ /\ CanOpen(rec)
          /\ rec' = [Opening(attached) EXCEPT !.start = "opening", !.lock = "start"]
          /\ disk' = disk \cup {Partial(rec')}
       \/ /\ rec' = [NotOpened(attached) EXCEPT !.start = "failed"]
          /\ UNCHANGED disk
    /\ UNCHANGED <<handed, heard>>

StartEnds ==
    /\ rec.start = "opening"
    /\ \/ rec' = [rec EXCEPT !.start = "done", !.lock = None, !.sink = "open",
                             !.rotate = "sleeping", !.announce = "waiting"]
       \/ rec' = [rec EXCEPT !.start = "failed", !.lock = None]
    /\ UNCHANGED <<disk, handed, heard>>

\* The session cancels its start task before it stops the recorder.

StartCancelled(r) ==
    IF r.start \in {"wanted", "opening"}
    THEN [r EXCEPT !.start = "cancelled", !.lock = None]
    ELSE r

--------------------------------------------------------------------------------
\* The incoming track.

Frame ==
    /\ rec.sink \in {"open", "closing"} /\ rec.fatal # "connection"
    /\ Recording(rec) \notin heard
    /\ heard' = heard \cup {Recording(rec)}
    /\ rec' = [rec EXCEPT !.first = TRUE]
    /\ UNCHANGED <<disk, handed>>

SourceEnds ==
    /\ rec.attached /\ ~rec.stopped /\ rec.fatal = None
    /\ rec' = [rec EXCEPT !.fatal = "connection"]
    /\ UNCHANGED <<disk, handed, heard>>

--------------------------------------------------------------------------------
\* _rotate_loop.  The lock is fair: once a stop waits for it, the next owner is the stop.

Rotate ==
    /\ rec.rotate = "sleeping" /\ rec.lock = None /\ rec.stop = "none"
    /\ rec.part < MaxPart
    /\ rec' = [rec EXCEPT !.rotate = "closing", !.lock = "rotate", !.sink = "closing"]
    /\ UNCHANGED <<disk, handed, heard>>

\* The rotation leaves the lock; a closed part is promoted whether the next one
\* could be opened or not.
Rotated(r, failing) ==
    LET left == [r EXCEPT !.lock = None, !.failing = failing] IN
    IF r.closed # None THEN [Promoting(left) EXCEPT !.rotate = "promoting"]
    ELSE [left EXCEPT !.rotate = IF failing THEN "failed" ELSE "sleeping"]

RotateCloses ==
    /\ rec.rotate = "closing"
    /\ LET closed == [rec EXCEPT !.closed = ClosedPart] IN
       \/ /\ rec' = [rec EXCEPT !.rotate = "failed", !.lock = None, !.sink = "none"]
          /\ UNCHANGED disk
       \/ /\ CanOpen(rec)
          /\ rec' = [Opening(closed) EXCEPT !.rotate = "opening"]
          /\ disk' = Unlinked \cup {Partial(rec')}
       \/ /\ rec' = Rotated(NotOpened(closed), TRUE)
          /\ disk' = Unlinked
    /\ UNCHANGED <<handed, heard>>

RotateOpens ==
    /\ rec.rotate = "opening"
    /\ \/ rec' = Rotated([rec EXCEPT !.sink = "open"], FALSE)
       \/ rec' = Rotated(rec, TRUE)
    /\ UNCHANGED <<disk, handed, heard>>

\* The shielded wait for the promotion ends.
RotateResumes ==
    /\ rec.rotate = "promoting" /\ rec.promotion \in {"done", "failed"}
    /\ rec' = [rec EXCEPT !.rotate =
                  IF rec.promotion = "failed" \/ rec.failing THEN "failed" ELSE "sleeping"]
    /\ UNCHANGED <<disk, handed, heard>>

\* The done callbacks of the rotation, its promotion and the announcement.
ForwardBackgroundFailure ==
    /\ "failed" \in {rec.rotate, rec.promotion, rec.announce} /\ rec.fatal = None
    /\ rec' = [rec EXCEPT !.fatal = "local"]
    /\ UNCHANGED <<disk, handed, heard>>

--------------------------------------------------------------------------------
\* _promote_part: the thread validates, syncs and renames the file; back in the loop
\* the part is recorded and given to on_part.

PromotedPart == Part(rec.promoting, rec.session)

Renamed ==
    {f \in disk : f.part # rec.promoting} \cup {File("final", rec.promoting, rec.session)}

\* The file is unreadable, malformed or without frames.
ValidationFails ==
    /\ rec.promotion = "thread"
    /\ rec' = [rec EXCEPT !.promotion = "failed"]
    /\ UNCHANGED <<disk, handed, heard>>

\* The sync that fails is the one before the rename or the one after it.
Promote ==
    /\ rec.promotion = "thread"
    /\ \/ rec' = [rec EXCEPT !.promotion = "written"] /\ disk' = Renamed
       \/ rec' = [rec EXCEPT !.promotion = "failed"] /\ disk' \in {Renamed, disk}
    /\ UNCHANGED <<handed, heard>>

PartPromoted ==
    /\ rec.promotion = "written"
    /\ handed' = Append(handed, rec.promoting)
    /\ \E accepted \in BOOLEAN :
        rec' = [rec EXCEPT !.parts = Append(@, PromotedPart),
                           !.promotion = IF accepted THEN "done" ELSE "failed"]
    /\ UNCHANGED <<disk, heard>>

--------------------------------------------------------------------------------
\* stop

\* Slip: the stop waits for the rotation without cancelling it.
OnlyAnnouncementCancelled(r) ==
    [r EXCEPT !.announce = IF @ = "waiting" THEN "cancelled" ELSE @]

BackgroundCancelled(r) ==
    [r EXCEPT !.rotate = IF @ \in {"sleeping", "promoting"} THEN "cancelled" ELSE @,
              !.announce = IF @ = "waiting" THEN "cancelled" ELSE @]

StopBegins ==
    /\ rec.stop = "locking" /\ rec.lock = None
    /\ LET stopped == [BackgroundCancelled(rec) EXCEPT !.stopped = TRUE] IN
       rec' = IF rec.sink = "none" THEN [stopped EXCEPT !.stop = "joining"]
              ELSE [stopped EXCEPT !.stop = "closing", !.sink = "closing", !.lock = "stop"]
    /\ UNCHANGED <<disk, handed, heard>>

StopCloses ==
    /\ rec.stop = "closing"
    /\ LET left == [rec EXCEPT !.stop = "joining", !.sink = "none", !.lock = None] IN
       \/ rec' = [left EXCEPT !.closeFailed = TRUE] /\ UNCHANGED disk
       \/ rec' = [left EXCEPT !.closed = ClosedPart] /\ disk' = Unlinked
    /\ UNCHANGED <<handed, heard>>

\* Slip: the promotion that a rotation began is not waited for.
RotationJoined == rec.rotate \notin {"sleeping", "promoting"}

BackgroundJoined ==
    /\ rec.rotate \notin {"sleeping", "promoting"}
    /\ rec.promotion \notin {"thread", "written"}

FailedLocally ==
    \/ rec.closeFailed \/ rec.fatal = "local"
    \/ "failed" \in {rec.promotion, rec.rotate, rec.announce}

\* Slip: a lost connection is raised before the last part is promoted.
NothingLeftOrLost == rec.closed = None \/ rec.fatal # None
NothingLeft == rec.closed = None

StopJoins ==
    /\ rec.stop = "joining" /\ BackgroundJoined
    /\ rec' = IF FailedLocally THEN [rec EXCEPT !.stop = "stopped", !.raised = "local"]
              ELSE IF NothingLeft THEN [rec EXCEPT !.stop = "stopped", !.raised = rec.fatal]
              ELSE [Promoting(rec) EXCEPT !.stop = "promoting"]
    /\ UNCHANGED <<disk, handed, heard>>

StopEnds ==
    /\ rec.stop = "promoting" /\ rec.promotion \in {"done", "failed"}
    /\ rec' = [rec EXCEPT !.stop = "stopped",
                          !.raised = IF rec.promotion = "failed" THEN "local" ELSE rec.fatal]
    /\ UNCHANGED <<disk, handed, heard>>

--------------------------------------------------------------------------------
\* What the program does once it can, and what happens to it.
RecorderSteps ==
    \/ Start \/ StartEnds
    \/ RotateCloses \/ RotateOpens \/ RotateResumes \/ ForwardBackgroundFailure
    \/ ValidationFails \/ Promote \/ PartPromoted
    \/ StopBegins \/ StopCloses \/ StopJoins \/ StopEnds

RecorderEvents == Frame \/ SourceEnds \/ Rotate
================================================================================
