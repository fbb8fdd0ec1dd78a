SPECIFICATION FairSpec
CONSTANTS
  Expire = 1
  MaxPings = 3
  MaxRelays = 2
  MaxLosses = 1
INVARIANTS
  TypeOK
  Accounted
  TrackerFollowsRelay
PROPERTIES
  PingsSettle
CHECK_DEADLOCK FALSE
