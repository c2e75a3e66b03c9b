SPECIFICATION Spec
CONSTANTS
  w1 = w1
  w2 = w2
  Flows = {w1}
  Prober = Prober
  None = None
  Slots = 3
  View = 2
  MaxJump = 1
  Days = {{1, 3}}
  Inboxes = {{"dm"}, {"channel", "below"}}
  Slow = {"toggle"}
  MaxInputs = 3
  MaxSurprises = 1
  MaxRounds = 3
  MaxStarts = 1
INVARIANT UnflaggedDayIsComplete
CHECK_DEADLOCK FALSE
