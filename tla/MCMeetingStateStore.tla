------------------------ MODULE MCMeetingStateStore ------------------------
(* A small instance of MeetingStateStore: two sessions after one another,   *)
(* two processes that both try to own them, two clock readings.             *)
EXTENDS MeetingStateStore, TLC

CONSTANTS s1, s2, p1, p2

MCSymmetry == Permutations({s1, s2}) \cup Permutations({p1, p2})
============================================================================
