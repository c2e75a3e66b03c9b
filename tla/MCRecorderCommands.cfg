SPECIFICATION Spec
CONSTANTS
  s1 = s1
  s2 = s2
  c1 = c1
  c2 = c2
  Sessions = {s1}
  Pids = {s1}
  Callers = {c1, c2}
  Times <- MCTimes
  ErrorCodes = {"abandoned_by_user", "no_audio_before_stop", "recorder_process_stopped", "capture_recovery_failed", "setup_failed", "capture_failed", "processing_failed", "webrtc_disconnected", "local_interruption"}
  None = None
  NoState = NoState
  Corrupt = Corrupt
  Probe = Probe
  StorageFails = TRUE
  Keep = Keep
  MaxRevision = 40
  Attempts = 2
  MaxBeats = 0
  MaxCommands = 3
  MaxDeaths = 1
  MaxTurns = 3
  MaxProbes = 0
SYMMETRY MCSymmetry
INVARIANTS
  RecorderIsOwner
  ArtifactsMatchState
CHECK_DEADLOCK FALSE
