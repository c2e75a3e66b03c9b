SPECIFICATION FairSpec
CONSTANTS
  Shapes = {1, 3}
  MaxRetries = 1
  MaxActions = 3
  None = None
PROPERTIES
  ImplementsDelivery
  CallsReturn
CHECK_DEADLOCK FALSE
