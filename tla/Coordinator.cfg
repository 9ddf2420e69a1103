SPECIFICATION Spec
CONSTANTS
  Loops = {"power", "temp"}
  Notifiers = {"sys"}
  MaxChanges = 1
  SleepSteps = 1
  MaxFaults = 1
  MaxSnapshots = 1
  DirectMode = TRUE
INVARIANTS NoEventSleptThrough ShownIsCurrent SnapshotOfOneSample
PROPERTIES QuietAfterStop ChangeIsShown
CHECK_DEADLOCK FALSE
