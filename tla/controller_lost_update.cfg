SPECIFICATION Spec
CONSTANTS
  ProgramId <- Me
  CONTROLLER_OUTPUT_MAX = 1
  vin = vin
  mcUnmapped = mcUnmapped
  Controls = {vin}
  Unmapped = mcUnmapped
  OutputMapping <- MCOutputMapping
  ParameterMapping <- MCParameterMapping
  ParameterCount = 0
  ValueTimeout <- ShortTimeout
  BusFrames <- ServedFrames
  Readings = {400000}
  Faulty = {}
  NoReading = NoReading
  NoFrame = NoFrame
  NoPoint = NoPoint
  NoControl = NoControl
  KEEP_ALIVE_INTERVAL = 3
  CONNECTION_TIMEOUT = 8
  SEND_MESSAGES_TIME = 8
  SEND_MESSAGES_INTERVAL = 5
  READ_TIMEOUT = 1
  SEND_TIMEOUT = 1
  Urgent = TRUE
  MaxTime = 10
  MaxBacklog = 1
INVARIANT
  NoChannelUpdates
