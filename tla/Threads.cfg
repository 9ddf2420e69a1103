SPECIFICATION Spec
CONSTANTS
  Parts = {"history", "block", "client", "monitor", "etw"}
  Sizes = {1, 2}
  MaxPending = 2
  Retention = 0
  MaxCalls = 3
  MaxDay = 1
  MaxCrashes = 1
  Words = {1, 2}
  Fields = {{1, 2}}
  RawWords = {2}
  Values = {0}
  Modulus = 4
  MaxAttempts = 3
  MaxSpin = 2
  MaxLag = 2
  MaxConsecutiveErrors = 2
  MaxServers = 2
  MaxPosted = 3
  MaxRetries = 3
  MaxSystemEvents = 3
  MaxEtwEvents = 2
  MaxStarts = 3
INVARIANTS TypeOK NothingLost BatchAtomic MappedNotOlder NoCallbackAfterStop SessionInReach
PROPERTIES ImplementsStore ReadReturns ConnectsAgain ConnectedHasData ShutdownIsFinal StopsReturn
CHECK_DEADLOCK FALSE
