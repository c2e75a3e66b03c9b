SPECIFICATION Spec
CONSTANTS
  w1 = w1
  w2 = w2
  Flows = {w1, w2}
  Prober = Prober
  None = None
  Slots = 3
  View = 1
  MaxJump = 2
  Days = {{2, 3}}
  Inboxes = {{"dm"}, {"channel", "below"}}
  Slow = {"toggle"}
  MaxSurprises = 1
  MaxInputs = 3
  MaxRounds = 2
  MaxStarts = 2
SYMMETRY MCSymmetry
INVARIANTS
  LeaseIsKept
  ReportIsTrue
  QuietMeansQuiet
  DayIsComplete
PROPERTY
  SessionsDoNoHarm
CHECK_DEADLOCK FALSE
