SPECIFICATION Spec
CONSTANTS
  c1 = c1
  c2 = c2
  p1 = p1
  p2 = p2
  a1 = a1
  a2 = a2
  l1 = l1
  NoPeer = NoPeer
  NoPort = NoPort
  NoServers = NoServers
  Connection <- MCConnection
  Peer <- MCPeer
  Port <- MCPort
  IceServers <- MCIceServers
  Overlap = TRUE
  MaxTasks = 2
SYMMETRY MCSymmetry
CHECK_DEADLOCK TRUE
INVARIANTS
  RemovedOnce
