\* Up to two rotations and two reconnects, wherever the sessions fail.
SPECIFICATION Spec
CONSTANTS
  MaxPart = 3
  MaxReconnects = 2
  None = None
INVARIANTS
  HeardAudioIsKept
  ReturnedIsEverythingHeard
  QuietAfterwards
  OutcomeIsHonest
PROPERTIES
  ImplementsMeetingAudio
  EndsWhenTold
\* The capture ends; that nothing else stops it is EndsWhenTold.
CHECK_DEADLOCK FALSE
