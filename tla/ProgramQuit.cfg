SPECIFICATION Spec
CONSTANTS
  Platforms = {"mac", "linux", "windows"}
  UsbEvery = 3
  WirelessEvery = 2
  MaxChanges = 1
  MaxThrows = 1
INVARIANT TuiIsStopped
CHECK_DEADLOCK FALSE
