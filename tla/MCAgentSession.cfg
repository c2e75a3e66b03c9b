SPECIFICATION Spec
CONSTANTS
  home = home
  menu = menu
  click = click
  key = key
  Screens = {home, menu}
  HidActions = {click, key}
  None = None
  MaxSteps = 3
  MaxRepeated = 2
  MaxRecoveries = 1
  MaxNoChange = 1
SYMMETRY MCSymmetry
INVARIANTS
  RunsAreAuthorised
  HistoryTellsWhatWasSent
  DeliberateEndsAreJudged
  UnverifiedNotRepeatedBlindly
PROPERTY
  ImplementsLoop
CHECK_DEADLOCK FALSE
