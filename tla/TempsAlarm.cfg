SPECIFICATION TempsSpec
CONSTANTS
  TempsBuilds = {"silicon"}
  SmcKeys = {"Tp01", "Tp05", "Tg0G", "TXXX"}
  GroupOf <- MCGroupOf
  Enough = 2
  Degrees = {0, 20, 40, 60}
  Near = 30
  MaxFiles = 3
INVARIANT SlowReadIsInterrupted
CHECK_DEADLOCK FALSE
