SPECIFICATION FairSpec
CONSTANTS
  poll = poll
  other = other
  TaskIds = {poll}
  Period <- MCPeriod
  RunTime = 1
  Urgent = TRUE
  MaxTime = 5
  NoTask = NoTask
PROPERTIES
  AddedIsRun
CHECK_DEADLOCK FALSE
