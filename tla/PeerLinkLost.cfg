SPECIFICATION FairSpec
CONSTANTS
  Pc = {1, 2, 3, 4, 5, 6, 7, 8}
  NoPc = 0
  MaxGlitches = 0
  MaxRemovals = 1
CHECK_DEADLOCK FALSE
PROPERTIES
  LostIsReported
