------------------------- MODULE MCMeetingRecorder -------------------------
(* Small instances of MeetingRecorder.  Revisions never reach MaxRevision:  *)
(* the number of commands and heartbeats bounds the number of writes.       *)
EXTENDS MeetingRecorder, TLC

CONSTANTS s1, s2, c1, c2

MCTimes == 0..MaxRevision

MCSymmetry == Permutations(Sessions) \cup Permutations(Callers)
============================================================================
