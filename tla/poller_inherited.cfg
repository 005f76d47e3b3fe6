SPECIFICATION Spec
CONSTANTS
  Classes <- Inherited
  ProgramIds = {1}
  Values <- MCValues
  BusFrames <- InheritedFrames
  FramesQueueMaxLength = 1
  NoFrame = NoFrame
  NoRequest = NoRequest
  Garbage = Garbage
PROPERTY
  PolledIsShown
CHECK_DEADLOCK FALSE
