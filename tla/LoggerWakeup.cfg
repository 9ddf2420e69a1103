SPECIFICATION Spec
CONSTANTS
  Writers = {w1}
  Flushers = {}
  MaxEntries = 2
  MaxLines = 2
PROPERTY ShutdownWakesWorker
CHECK_DEADLOCK FALSE
