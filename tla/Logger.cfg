SPECIFICATION Spec
CONSTANTS
  Writers = {w1, w2}
  Flushers = {"flusher"}
  MaxEntries = 2
  MaxLines = 2
INVARIANTS EveryEntryOnce FileInOrder
PROPERTY LoggedIsWritten
CHECK_DEADLOCK FALSE
