SPECIFICATION Spec
CONSTANTS
  MaxRetries = 2
  MaxEvents = 1
PROPERTY StopReturns
CHECK_DEADLOCK FALSE
