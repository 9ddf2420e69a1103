SPECIFICATION Spec
CONSTANTS
  Conns = {c1, c2}
  Fds = {f1, f2}
  None = None
  Foreign = Foreign
  Keepers = {c1}
  MaxPings = 1
INVARIANTS TypeOK OwnDescriptor HandshakeOrder RegistryAccounting NothingLeftOpen
PROPERTY StopReturns
CHECK_DEADLOCK FALSE
