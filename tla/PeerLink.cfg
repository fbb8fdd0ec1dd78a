SPECIFICATION FairSpec
CONSTANTS
  Pc = {1, 2, 3, 4, 5, 6, 7, 8}
  NoPc = 0
  MaxGlitches = 1
  MaxRemovals = 2
CHECK_DEADLOCK FALSE
INVARIANTS
  TypeOK
  ConnectionPresent
  RecoveryArmed
  CheckerBelongs
  AnswersMatch
PROPERTIES
  WorkingLinkKept
  EventuallyConnected
