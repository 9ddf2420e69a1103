SPECIFICATION Spec
CONSTANTS
  MaxConsecutiveErrors = 2
  MaxServers = 1
  MaxPosted = 3
INVARIANT TimerStopsReading
CHECK_DEADLOCK FALSE
