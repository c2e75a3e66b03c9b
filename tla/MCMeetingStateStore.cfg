SPECIFICATION StoreSpec
CONSTANTS
  s1 = s1
  s2 = s2
  p1 = p1
  p2 = p2
  Sessions = {s1, s2}
  Pids = {p1, p2}
  Times = {1, 2}
  ErrorCodes = {"abandoned_by_user"}
  None = None
  NoState = NoState
  Corrupt = Corrupt
  MaxRevision = 6
INVARIANT
  StoreTypeOK
PROPERTIES
  TerminalIsFinal
  EvidenceIsImmutable
  ImplementsLifecycle
SYMMETRY MCSymmetry
CHECK_DEADLOCK FALSE
