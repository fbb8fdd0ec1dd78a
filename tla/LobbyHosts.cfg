SPECIFICATION Spec
CONSTANTS
  Client = {c1, c2}
  MaxConnections = 2
  MaxPlayers = 3
  MaxTroubles = 4
  MaxIceMsgs = 0
  MaxLosses = 0
  IceAndLosses = FALSE
  Garbage = {0}
INVARIANT HostsAreTold
SYMMETRY Symmetry
CHECK_DEADLOCK FALSE
