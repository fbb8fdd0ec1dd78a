SPECIFICATION FairSpec
CONSTANTS
  Client = {c1, c2, c3}
  Socket = {s1, s2}
  MaxRequests = 1
  MaxLeaves = 1
  None = None
INVARIANTS
  TypeOK
  AnswersMatch
  NothingPending
PROPERTY Answered
CHECK_DEADLOCK FALSE
