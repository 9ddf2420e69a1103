SPECIFICATION Spec
CONSTANTS
  Platforms = {"mac", "linux", "windows"}
  UsbEvery = 3
  WirelessEvery = 2
  MaxChanges = 1
  MaxThrows = 1
INVARIANTS TerminalGivenBack
PROPERTIES QuitEnds LatestDevicesSeen
CHECK_DEADLOCK FALSE
