SPECIFICATION FairSpec
CONSTANTS
  home = home
  menu = menu
  click = click
  key = key
  Screens = {home}
  HidActions = {click}
  None = None
  MaxSteps = 4
  MaxRepeated = 2
  MaxRecoveries = 1
  MaxNoChange = 1
INVARIANT RepeatsAreBounded
PROPERTY SessionEnds
CHECK_DEADLOCK FALSE
