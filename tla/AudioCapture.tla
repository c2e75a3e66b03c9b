----------------------------- MODULE AudioCapture -----------------------------
(****************************************************************************)
(* The capture of a meeting's audio (meeting/capture.py): one WebRTC session*)
(* after another, each with a recorder of its own, until a stop, a failure  *)
(* that is not the connection's or the last permitted reconnect.            *)
(****************************************************************************)
EXTENDS SegmentedRecorder

CONSTANT MaxReconnects

ASSUME CaptureAssumption ==
    /\ MaxReconnects \in Nat /\ MaxPart \in Nat \ {0}
    /\ None \notin Nat
    /\ None \notin {"start", "rotate", "stop", "connection", "auth", "noaudio", "local",
                     "other", "returned"}

VARIABLES
    cap,            \* record and _record_session
    fatal,          \* the fatal future of the session's signaling
    abort,          \* the abort future of the capture
    stopping,       \* stop_requested
    ready           \* how often on_ready was called

captureVars == <<cap, fatal, abort, stopping, ready>>
vars == <<rec, disk, handed, heard, cap, fatal, abort, stopping, ready>>

Init ==
    /\ rec = NewRecorder(1, 0)
    /\ disk = {} /\ handed = <<>> /\ heard = {}
    /\ cap = [at |-> "connect", error |-> None, origin |-> FALSE, next |-> 1, reconnects |-> 0,
              parts |-> <<>>, interrupted |-> FALSE, outcome |-> None]
    /\ fatal = None /\ abort = None /\ stopping = FALSE /\ ready = 0

\* The replies a session waits for, one after the other, after it has connected.
FollowedBy ==
    [create |-> "attach", attach |-> "features", features |-> "offer",
     offer |-> "started", started |-> "waiting"]
Signaling == DOMAIN FollowedBy
Open == Signaling \cup {"waiting", "recording"}

\* A session that has a timeline to continue is a reconnected one.
Reconnecting == cap.origin

--------------------------------------------------------------------------------
\* _record_session.  Leaving it cancels the start task and stops the recorder first.

Leave(error) ==
    /\ cap' = [cap EXCEPT !.at = "closing", !.error = error]
    /\ rec' = [StartCancelled(rec) EXCEPT !.stop = "locking"]
    /\ UNCHANGED <<disk, handed, heard, fatal, abort, stopping, ready>>

\* Credentials that cannot be built, a refused handshake, an unreachable PiKVM.
ConnectErrors == {"other", "auth", "connection"}

Connect ==
    /\ cap.at = "connect"
    /\ \/ /\ cap' = [cap EXCEPT !.at = "create"]
          /\ UNCHANGED <<recorderVars, fatal, abort, stopping, ready>>
       \/ \E error \in ConnectErrors : Leave(error)

\* A reply.  The offer of an audio track creates the task that starts the recorder.
Reply ==
    /\ cap.at \in Signaling /\ fatal = None
    /\ cap' = [cap EXCEPT !.at = FollowedBy[@]]
    /\ rec' = [rec EXCEPT !.start = IF cap.at = "offer" THEN "wanted" ELSE @]
    /\ UNCHANGED <<disk, handed, heard, fatal, abort, stopping, ready>>

\* The replies that may say that there is no audio.
OffersAudio == {"features", "offer"}

\* No reply in time, an invalid one, or one that offers no audio.
Unanswered ==
    /\ cap.at \in Signaling /\ fatal = None
    /\ \/ Leave("connection")
       \/ cap.at \in OffersAudio /\ Leave("noaudio")

SignalingFailed == cap.at \in Signaling /\ fatal # None /\ Leave(fatal)

\* The failure a waiting session raises: the recorder's, the signaling's, the abort.
Failure ==
    IF rec.fatal # None THEN rec.fatal ELSE IF fatal # None THEN fatal ELSE abort

FailureSeen ==
    /\ cap.at \in {"waiting", "recording"} /\ Failure # None
    /\ Leave(Failure)

AudioSeen ==
    /\ cap.at = "waiting" /\ Failure = None
    /\ \/ /\ rec.first
          /\ cap' = [cap EXCEPT !.at = "recording"]
          /\ UNCHANGED <<recorderVars, fatal, abort, stopping, ready>>
       \/ ~rec.first /\ Leave("noaudio")

StopSeen == cap.at = "recording" /\ Failure = None /\ stopping /\ Leave(None)

--------------------------------------------------------------------------------
\* The tasks of a session.

\* Slip: every session announces its first frame.
AnnouncesEverySession == TRUE
Announces == ~Reconnecting

\* _announce_first_frame; on_ready may raise.
AnnounceFirstFrame ==
    /\ rec.announce = "waiting" /\ rec.first
    /\ ready' = ready + (IF Announces THEN 1 ELSE 0)
    /\ \/ rec' = [rec EXCEPT !.announce = "done"]
       \/ Announces /\ rec' = [rec EXCEPT !.announce = "failed"]
    /\ UNCHANGED <<disk, handed, heard, cap, fatal, abort, stopping>>

SetFatal(error) ==
    /\ fatal = None
    /\ fatal' = error
    /\ UNCHANGED <<recorderVars, cap, abort, stopping, ready>>

\* The receive loop, the keepalive, a candidate or the peer connection fails.
ConnectionFails == cap.at \in Open /\ SetFatal("connection")

\* The heartbeat ends with the stop request; it runs once the session is attached.
HeartbeatFails == cap.at \in Open \ {"create", "attach"} /\ ~stopping /\ SetFatal("local")

StartFailureForwarded == cap.at \in Open /\ rec.start = "failed" /\ SetFatal("local")

--------------------------------------------------------------------------------
\* record, after each session.

End(outcome, parts, interrupted) ==
    /\ cap' = [cap EXCEPT !.at = "over", !.parts = parts, !.interrupted = interrupted,
                   !.outcome = IF outcome = "returned" /\ parts = <<>> THEN "noaudio" ELSE outcome]
    /\ UNCHANGED <<recorderVars, fatal, abort, stopping, ready>>

\* Slip: a first session that lost its connection is given up whatever it recorded.
FirstSessionLost(error) == ~Reconnecting /\ error \in {"noaudio", "connection", "auth"}

\* A first session without audio is not repeated.
GivesUp(error) ==
    /\ ~Reconnecting
    /\ \/ error = "noaudio"
       \/ error \in {"connection", "auth"} /\ ~rec.first

\* Slip: every session numbers its parts from one.
NumberFromOne == 1
NextPart == rec.part + 1

SessionEnds ==
    /\ cap.at = "closing" /\ rec.stop = "stopped"
    \* an error of the recorder's stop replaces that of the session
    /\ LET error == IF rec.raised # None THEN rec.raised ELSE cap.error
           parts == cap.parts \o rec.parts IN
       IF error \in {"local", "other"} \/ GivesUp(error) THEN End(error, parts, FALSE)
       ELSE IF error = None THEN End("returned", parts, FALSE)
       ELSE IF stopping \/ cap.reconnects >= MaxReconnects \/ error = "auth"
            THEN End("returned", parts, TRUE)
       ELSE /\ cap' = [cap EXCEPT !.at = "backoff", !.parts = parts, !.error = None,
                           !.reconnects = @ + 1, !.origin = @ \/ rec.attached,
                           !.next = IF cap.origin \/ rec.attached THEN NextPart ELSE @]
            /\ UNCHANGED <<recorderVars, fatal, abort, stopping, ready>>

BackoffEnds ==
    /\ cap.at = "backoff"
    /\ IF stopping THEN End("returned", cap.parts, TRUE)
       ELSE /\ cap' = [cap EXCEPT !.at = "connect"]
            /\ rec' = NewRecorder(cap.next, cap.reconnects)
            /\ fatal' = None
            /\ UNCHANGED <<disk, handed, heard, abort, stopping, ready>>

--------------------------------------------------------------------------------
\* The worker: a stop request, or the death of its stop watcher.

RequestStop ==
    /\ cap.outcome = None /\ ~stopping
    /\ stopping' = TRUE
    /\ UNCHANGED <<recorderVars, cap, fatal, abort, ready>>

StopWatcherDies ==
    /\ cap.outcome = None /\ ~stopping
    /\ stopping' = TRUE /\ abort' = "local"
    /\ UNCHANGED <<recorderVars, cap, fatal, ready>>

SessionSteps ==
    \/ Connect \/ Reply \/ Unanswered \/ SignalingFailed
    \/ FailureSeen \/ AudioSeen \/ StopSeen
    \/ AnnounceFirstFrame \/ StartFailureForwarded
    \/ SessionEnds \/ BackoffEnds

Next ==
    \/ SessionSteps
    \/ ConnectionFails \/ HeartbeatFails
    \/ RequestStop \/ StopWatcherDies
    \/ (RecorderSteps \/ RecorderEvents) /\ UNCHANGED captureVars

\* Timeouts bound every answer, the thread and the media recorder return, and the loop
\* runs each task that can; no frame, failure, rotation or request need ever come.
Fairness ==
    /\ WF_vars(Connect)
    /\ WF_vars(Reply \/ Unanswered \/ SignalingFailed)
    /\ WF_vars(AudioSeen \/ StopSeen \/ FailureSeen)
    /\ WF_vars(SessionEnds \/ BackoffEnds)
    /\ WF_vars((Start \/ StartEnds) /\ UNCHANGED captureVars)
    /\ WF_vars((RotateCloses \/ RotateOpens) /\ UNCHANGED captureVars)
    /\ WF_vars((ValidationFails \/ Promote \/ PartPromoted) /\ UNCHANGED captureVars)
    /\ WF_vars((StopBegins \/ StopCloses \/ StopJoins \/ StopEnds) /\ UNCHANGED captureVars)

Spec == Init /\ [][Next]_vars /\ Fairness

--------------------------------------------------------------------------------
Indices == 1..MaxPart + MaxReconnects

\* Audio that was received stays on disk, in a finished part or in the unfinished file of
\* one, through rotations, reconnects, failures and stops (capture.py:610-652).
HeardAudioIsKept ==
    \A h \in heard : \E f \in disk : Part(f.part, f.session) = h

\* A capture that returns has a finished part for all audio it received, each once and in
\* order: a stop in the middle of a rotation or a promotion, or a lost connection, drops
\* nothing (capture.py:474-543, 857-883).
ReturnedIsEverythingHeard ==
    cap.outcome = "returned" =>
        /\ {cap.parts[i] : i \in DOMAIN cap.parts} = heard
        /\ \A i, j \in DOMAIN cap.parts : i < j => cap.parts[i].part < cap.parts[j].part
        /\ \A h \in heard : File("final", h.part, h.session) \in disk

\* A capture that is over has left nothing behind: no task or thread that could still
\* call the worker or touch a file, no open part (capture.py:474-543, 1104-1118).
QuietAfterwards ==
    cap.outcome # None =>
        /\ rec.sink = "none" /\ rec.lock = None
        /\ rec.start \notin {"wanted", "opening"} /\ rec.announce # "waiting"
        /\ rec.rotate \notin {"sleeping", "closing", "opening", "promoting"}
        /\ rec.promotion \notin {"thread", "written"}

\* The outcome tells what was recorded: a capture reported as a failed connection or
\* login received nothing, so that a meeting with audio is returned or left for
\* recovery, and a recording whose stop watcher died is not called complete
\* (capture.py:829-835, worker.py:439-447, 482-507).
OutcomeIsHonest ==
    /\ cap.outcome \in {"connection", "auth"} => heard = {}
    /\ cap.outcome = "returned" /\ abort # None => cap.interrupted

\* The capture keeps the worker's interface (worker.py:302-372).
Interface ==
    INSTANCE MeetingAudio WITH
        Parts <- Indices, outcome <- cap.outcome,
        result <- IF cap.outcome = "returned"
                  THEN [i \in DOMAIN cap.parts |-> cap.parts[i].part] ELSE <<>>
ImplementsMeetingAudio == Interface!Spec

\* A capture that is told to stop, or whose stop watcher died, ends (capture.py:786-790).
EndsWhenTold == stopping ~> cap.outcome # None
================================================================================
