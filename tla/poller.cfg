SPECIFICATION FairSpec
CONSTANTS
  Classes <- BuiltIn
  ProgramIds = {1, 2}
  Values <- MCValues
  BusFrames <- BuiltInFrames
  FramesQueueMaxLength = 1
  NoFrame = NoFrame
  NoRequest = NoRequest
  Garbage = Garbage
INVARIANTS
  TypeOK
  PolledInBounds
  RequestsMatchPrograms
  CommandIsPolled
  NothingLeftBehind
PROPERTIES
  PolledIsShown
  EveryRequestPolled
CHECK_DEADLOCK FALSE
