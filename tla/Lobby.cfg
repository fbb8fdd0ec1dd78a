SPECIFICATION Spec
CONSTANTS
  Client = {c1, c2, c3}
  MaxConnections = 2
  MaxPlayers = 3
  MaxTroubles = 4
  MaxIceMsgs = 1
  MaxLosses = 1
  IceAndLosses = FALSE
  Garbage = {0}
INVARIANTS
  TypeOK
  BooksAgree
  OneGameEach
  FellowsConnected
  MembersAgree
  GamelistCurrent
  IceFromSenderAtFirst
PROPERTY ImplementsRooms
SYMMETRY Symmetry
CHECK_DEADLOCK FALSE
