\* The durations of the code, in units of 100 ms.
SPECIFICATION FairSpec
CONSTANTS
  ConnectionTimeout = 100
  CheckInterval = 10
  PingStartDelay = 50
  PingInterval = 5
  OpenBy = 71
  MaxRoundTrip = 4
  MaxLost = 3
  MaxLate = 1
CHECK_DEADLOCK TRUE
INVARIANTS
  TypeOK
  NoFalseAlarm
  LossNoticed
PROPERTY BrokenIsGivenUp
