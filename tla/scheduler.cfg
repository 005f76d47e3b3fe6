SPECIFICATION FairSpec
CONSTANTS
  poll = poll
  other = other
  TaskIds = {poll, other}
  Period <- MCPeriod
  RunTime = 3
  Urgent = TRUE
  MaxTime = 24
  NoTask = NoTask
INVARIANTS
  TypeOK
  Conserved
  OnTime
PROPERTIES
  RateBounded
  StopsEventually
CHECK_DEADLOCK FALSE
